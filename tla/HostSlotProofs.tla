---------------------------- MODULE HostSlotProofs ----------------------------
(* Theorems about HostSlot for every value of its constants.                 *)
EXTENDS HostSlot, FiniteSetTheorems, TLAPS

-----------------------------------------------------------------------------
(* The inductive invariant.                                                 *)

Steps == {"idle", "checked", "locked", "rechecked", "draining", "entering", "maintaining",
          "setup", "recovering", "admission", "leaving"} \cup InSlot

(* From the flock on, the process that passed it holds it.                   *)
HoldsSlot == {"locked", "rechecked", "entering", "maintaining", "recovering"} \cup InSlot

Holds == \A p \in Procs : pc[p] \in HoldsSlot => slotLock = p

(* Work is marked, also what outlived its process, and that is then alone.   *)
Covered ==
  /\ Working # {} \/ orphans # {} => marker
  /\ orphans # {} => Working = {}

(* During setup nothing is left of earlier work, and the drain is its own.   *)
Quiet == Maintaining # {} => orphans = {} /\ drain.kind = "empty"

(* A process that looked under the flock, or that made the drain file to     *)
(* write its intent, finds no intent of another there.                       *)
Aware == \A p \in Procs : pc[p] \in {"rechecked", "creating"} => ~Intended

HInv == TypeOK /\ Holds /\ Covered /\ Quiet /\ Aware

-----------------------------------------------------------------------------
LEMMA InitInvariant == Init => HInv
<1> SUFFICES ASSUME Init PROVE HInv
  OBVIOUS
<1> USE DEF InSlot, HoldsSlot, Intents
<1>1. TypeOK
  BY DEF Init, TypeOK, NoDrain, Goals
<1>2. Working = {} /\ Maintaining = {}
  BY DEF Init, Working, Maintaining, Procs
<1> QED
  BY <1>1, <1>2 DEF Init, HInv, Holds, Covered, Quiet, Aware

LEMMA StepInvariant == HInv /\ [Next]_vars => HInv'
<1> SUFFICES ASSUME HInv, [Next]_vars PROVE HInv'
  OBVIOUS
<1> USE DEF files, locks, Go, Leave, InSlot, HoldsSlot, Intents, Intended, Working, Maintaining
<1>a. TypeOK /\ Holds /\ Covered /\ Quiet /\ Aware
  BY DEF HInv
<1>b. Maintainers \subseteq Procs /\ None \notin Procs
  BY HostSlotAssumption DEF Procs
<1> USE <1>a, <1>b DEF TypeOK
<1>1. ASSUME NEW p \in Producers \cup Schedulers, CheckDrain(p) PROVE HInv'
  <2>0. p \in Procs
    BY <1>1 DEF Procs
  <2>1. TypeOK'
    BY <2>0, <1>1 DEF CheckDrain, Outside, TypeOK, Steps
  <2>2. Holds'
    BY <2>0, <1>1 DEF CheckDrain, Outside, Holds
  <2>3. Covered'
    BY <2>0, <1>1 DEF CheckDrain, Outside, Covered, Holds
  <2>4. Quiet'
    BY <2>0, <1>1 DEF CheckDrain, Outside, Quiet, Holds, Covered
  <2>5. Aware'
    BY <2>0, <1>1 DEF CheckDrain, Outside, Aware, Holds, Quiet, Drained
  <2> QED
    BY <2>1, <2>2, <2>3, <2>4, <2>5 DEF HInv
<1>2. ASSUME NEW p \in Producers \cup Schedulers, TakeSlot(p) PROVE HInv'
  <2>0. p \in Procs
    BY <1>2 DEF Procs
  <2>1. TypeOK'
    BY <2>0, <1>2 DEF TakeSlot, TypeOK, Steps
  <2>2. Holds'
    BY <2>0, <1>2 DEF TakeSlot, Holds
  <2>3. Covered'
    BY <2>0, <1>2 DEF TakeSlot, Covered, Holds
  <2>4. Quiet'
    BY <2>0, <1>2 DEF TakeSlot, Quiet, Holds, Covered
  <2>5. Aware'
    BY <2>0, <1>2 DEF TakeSlot, Aware, Holds, Quiet, Drained
  <2> QED
    BY <2>1, <2>2, <2>3, <2>4, <2>5 DEF HInv
<1>3. ASSUME NEW p \in Producers \cup Schedulers, Recheck(p) PROVE HInv'
  <2>0. p \in Procs
    BY <1>3 DEF Procs
  <2>1. TypeOK'
    BY <2>0, <1>3 DEF Recheck, TypeOK, Steps
  <2>2. Holds'
    BY <2>0, <1>3 DEF Recheck, Holds
  <2>3. Covered'
    BY <2>0, <1>3 DEF Recheck, Covered, Holds
  <2>4. Quiet'
    BY <2>0, <1>3 DEF Recheck, Quiet, Holds, Covered
  <2>5. Aware'
    BY <2>0, <1>3 DEF Recheck, Aware, Holds, Quiet, Drained
  <2> QED
    BY <2>1, <2>2, <2>3, <2>4, <2>5 DEF HInv
<1>4. ASSUME NEW p \in Producers \cup Schedulers, Mark(p) PROVE HInv'
  <2>0. p \in Procs
    BY <1>4 DEF Procs
  <2>1. TypeOK'
    BY <2>0, <1>4 DEF Mark, TypeOK, Steps
  <2>2. Holds'
    BY <2>0, <1>4 DEF Mark, Holds
  <2>3. Covered'
    BY <2>0, <1>4 DEF Mark, Covered, Holds
  <2>4. Quiet'
    BY <2>0, <1>4 DEF Mark, Quiet, Holds, Covered
  <2>5. Aware'
    BY <2>0, <1>4 DEF Mark, Aware, Holds, Quiet, Drained
  <2> QED
    BY <2>1, <2>2, <2>3, <2>4, <2>5 DEF HInv
<1>5. ASSUME NEW p \in Producers \cup Schedulers, Finish(p) PROVE HInv'
  <2>0. p \in Procs
    BY <1>5 DEF Procs
  <2>1. TypeOK'
    BY <2>0, <1>5 DEF Finish, TypeOK, Steps
  <2>2. Holds'
    BY <2>0, <1>5 DEF Finish, Holds
  <2>3. Covered'
    BY <2>0, <1>5 DEF Finish, Covered, Holds
  <2>4. Quiet'
    BY <2>0, <1>5 DEF Finish, Quiet, Holds, Covered
  <2>5. Aware'
    BY <2>0, <1>5 DEF Finish, Aware, Holds, Quiet, Drained
  <2> QED
    BY <2>1, <2>2, <2>3, <2>4, <2>5 DEF HInv
<1>6. ASSUME NEW p \in Producers \cup Schedulers, GiveUp(p) PROVE HInv'
  <2>0. p \in Procs
    BY <1>6 DEF Procs
  <2>1. TypeOK'
    BY <2>0, <1>6 DEF GiveUp, TypeOK, Steps
  <2>2. Holds'
    BY <2>0, <1>6 DEF GiveUp, Holds
  <2>3. Covered'
    BY <2>0, <1>6 DEF GiveUp, Covered, Holds
  <2>4. Quiet'
    BY <2>0, <1>6 DEF GiveUp, Quiet, Holds, Covered
  <2>5. Aware'
    BY <2>0, <1>6 DEF GiveUp, Aware, Holds, Quiet, Drained
  <2> QED
    BY <2>1, <2>2, <2>3, <2>4, <2>5 DEF HInv
<1>7. ASSUME NEW p \in Maintainers, OpenDrain(p) PROVE HInv'
  <2>0. p \in Procs
    BY <1>7 DEF Procs
  <2>1. TypeOK'
    BY <2>0, <1>7 DEF OpenDrain, Empty, TypeOK, Steps
  <2>2. Holds'
    BY <2>0, <1>7 DEF OpenDrain, Empty, Holds
  <2>3. Covered'
    BY <2>0, <1>7 DEF OpenDrain, Empty, Covered, Holds
  <2>4. Quiet'
    BY <2>0, <1>7 DEF OpenDrain, Empty, Quiet, Holds, Covered
  <2>5. Aware'
    BY <2>0, <1>7 DEF OpenDrain, Empty, Aware, Holds, Quiet, Drained
  <2> QED
    BY <2>1, <2>2, <2>3, <2>4, <2>5 DEF HInv
<1>8. ASSUME NEW p \in Maintainers, LockForSetup(p) PROVE HInv'
  <2>0. p \in Procs
    BY <1>8 DEF Procs
  <2>1. TypeOK'
    BY <2>0, <1>8 DEF LockForSetup, TypeOK, Steps
  <2>2. Holds'
    BY <2>0, <1>8 DEF LockForSetup, Holds
  <2>3. Covered'
    BY <2>0, <1>8 DEF LockForSetup, Covered, Holds
  <2>4. Quiet'
    BY <2>0, <1>8 DEF LockForSetup, Quiet, Holds, Covered
  <2>5. Aware'
    BY <2>0, <1>8 DEF LockForSetup, Aware, Holds, Quiet, Drained
  <2> QED
    BY <2>1, <2>2, <2>3, <2>4, <2>5 DEF HInv
<1>9. ASSUME NEW p \in Maintainers, EnterSetup(p) PROVE HInv'
  <2>0. p \in Procs
    BY <1>9 DEF Procs
  <2>1. TypeOK'
    BY <2>0, <1>9 DEF EnterSetup, TypeOK, Steps
  <2>2. Holds'
    BY <2>0, <1>9 DEF EnterSetup, Holds
  <2>3. Covered'
    BY <2>0, <1>9 DEF EnterSetup, Covered, Holds
  <2>4. Quiet'
    BY <2>0, <1>9 DEF EnterSetup, Quiet, Holds, Covered
  <2>5. Aware'
    BY <2>0, <1>9 DEF EnterSetup, Aware, Holds, Quiet, Drained
  <2> QED
    BY <2>1, <2>2, <2>3, <2>4, <2>5 DEF HInv
<1>10. ASSUME NEW p \in Maintainers, NEW release \in BOOLEAN, LeaveSetup(p, release) PROVE HInv'
  <2>0. p \in Procs
    BY <1>10 DEF Procs
  <2>1. TypeOK'
    BY <2>0, <1>10 DEF LeaveSetup, NoDrain, TypeOK, Steps
  <2>2. Holds'
    BY <2>0, <1>10 DEF LeaveSetup, NoDrain, Holds
  <2>3. Covered'
    BY <2>0, <1>10 DEF LeaveSetup, NoDrain, Covered, Holds
  <2>4. Quiet'
    BY <2>0, <1>10 DEF LeaveSetup, NoDrain, Quiet, Holds, Covered
  <2>5. Aware'
    BY <2>0, <1>10 DEF LeaveSetup, NoDrain, Aware, Holds, Quiet, Drained
  <2> QED
    BY <2>1, <2>2, <2>3, <2>4, <2>5 DEF HInv
<1>11. ASSUME NEW p \in Maintainers, FailSetup(p) PROVE HInv'
  <2>0. p \in Procs
    BY <1>11 DEF Procs
  <2>1. TypeOK'
    BY <2>0, <1>11 DEF FailSetup, TypeOK, Steps
  <2>2. Holds'
    BY <2>0, <1>11 DEF FailSetup, Holds
  <2>3. Covered'
    BY <2>0, <1>11 DEF FailSetup, Covered, Holds
  <2>4. Quiet'
    BY <2>0, <1>11 DEF FailSetup, Quiet, Holds, Covered
  <2>5. Aware'
    BY <2>0, <1>11 DEF FailSetup, Aware, Holds, Quiet, Drained
  <2> QED
    BY <2>1, <2>2, <2>3, <2>4, <2>5 DEF HInv
<1>12. ASSUME NEW p \in Schedulers, NEW g \in Goals, TakeSetupLock(p, g) PROVE HInv'
  <2>0. p \in Procs
    BY <1>12 DEF Procs
  <2>1. TypeOK'
    BY <2>0, <1>12 DEF TakeSetupLock, TypeOK, Steps
  <2>2. Holds'
    BY <2>0, <1>12 DEF TakeSetupLock, Holds
  <2>3. Covered'
    BY <2>0, <1>12 DEF TakeSetupLock, Covered, Holds
  <2>4. Quiet'
    BY <2>0, <1>12 DEF TakeSetupLock, Quiet, Holds, Covered
  <2>5. Aware'
    BY <2>0, <1>12 DEF TakeSetupLock, Aware, Holds, Quiet, Drained
  <2> QED
    BY <2>1, <2>2, <2>3, <2>4, <2>5 DEF HInv
<1>13. ASSUME NEW p \in Schedulers, LockForRecovery(p) PROVE HInv'
  <2>0. p \in Procs
    BY <1>13 DEF Procs
  <2>1. TypeOK'
    BY <2>0, <1>13 DEF LockForRecovery, AfterRecovery, TypeOK, Steps
  <2>2. Holds'
    BY <2>0, <1>13 DEF LockForRecovery, AfterRecovery, Holds
  <2>3. Covered'
    BY <2>0, <1>13 DEF LockForRecovery, AfterRecovery, Covered, Holds
  <2>4. Quiet'
    BY <2>0, <1>13 DEF LockForRecovery, AfterRecovery, Quiet, Holds, Covered
  <2>5. Aware'
    BY <2>0, <1>13 DEF LockForRecovery, AfterRecovery, Aware, Holds, Quiet, Drained
  <2> QED
    BY <2>1, <2>2, <2>3, <2>4, <2>5 DEF HInv
<1>14. ASSUME NEW p \in Schedulers, Recover(p) PROVE HInv'
  <2>0. p \in Procs
    BY <1>14 DEF Procs
  <2>1. TypeOK'
    BY <2>0, <1>14 DEF Recover, AfterRecovery, NoDrain, Recoverable, TypeOK, Steps
  <2>2. Holds'
    BY <2>0, <1>14 DEF Recover, AfterRecovery, NoDrain, Recoverable, Holds
  <2>3. Covered'
    BY <2>0, <1>14 DEF Recover, AfterRecovery, NoDrain, Recoverable, Covered, Holds
  <2>4. Quiet'
    BY <2>0, <1>14 DEF Recover, AfterRecovery, NoDrain, Recoverable, Quiet, Holds, Covered
  <2>5. Aware'
    BY <2>0, <1>14 DEF Recover, AfterRecovery, NoDrain, Recoverable, Aware, Holds, Quiet, Drained
  <2> QED
    BY <2>1, <2>2, <2>3, <2>4, <2>5 DEF HInv
<1>15. ASSUME NEW p \in Schedulers, EndRecovery(p) PROVE HInv'
  <2>0. p \in Procs
    BY <1>15 DEF Procs
  <2>1. TypeOK'
    BY <2>0, <1>15 DEF EndRecovery, TypeOK, Steps
  <2>2. Holds'
    BY <2>0, <1>15 DEF EndRecovery, Holds
  <2>3. Covered'
    BY <2>0, <1>15 DEF EndRecovery, Covered, Holds
  <2>4. Quiet'
    BY <2>0, <1>15 DEF EndRecovery, Quiet, Holds, Covered
  <2>5. Aware'
    BY <2>0, <1>15 DEF EndRecovery, Aware, Holds, Quiet, Drained
  <2> QED
    BY <2>1, <2>2, <2>3, <2>4, <2>5 DEF HInv
<1>16. ASSUME NEW p \in Schedulers, CreateIntent(p) PROVE HInv'
  <2>0. p \in Procs
    BY <1>16 DEF Procs
  <2>1. TypeOK'
    <3>1. marker' \in BOOLEAN
      <4>1. \/ UNCHANGED marker
            \/ marker' = (goal[p] # "auto")
        BY <1>16 DEF CreateIntent
      <4> QED
        BY <4>1
    <3>2. drain' \in {drain, Empty} /\ UNCHANGED <<boot, goal, orphans, crashes>>
      BY <1>16 DEF CreateIntent
    <3>3. /\ pc' = [pc EXCEPT ![p] = "creating"] \/ pc' = [pc EXCEPT ![p] = "idle"]
          /\ slotLock' \in {slotLock, None} /\ setupLock' \in {setupLock, None}
      BY <1>16 DEF CreateIntent
    <3> QED
      BY <2>0, <3>1, <3>2, <3>3 DEF Empty, Steps
  <2>2. Holds'
    BY <2>0, <1>16 DEF CreateIntent, Empty, Holds
  <2>3. Covered'
    BY <2>0, <1>16 DEF CreateIntent, Empty, Covered, Holds
  <2>4. Quiet'
    BY <2>0, <1>16 DEF CreateIntent, Empty, Quiet, Holds, Covered
  <2>5. Aware'
    BY <2>0, <1>16 DEF CreateIntent, Empty, Aware, Holds, Quiet, Drained
  <2> QED
    BY <2>1, <2>2, <2>3, <2>4, <2>5 DEF HInv
<1>17. ASSUME NEW p \in Schedulers, WriteIntent(p) PROVE HInv'
  <2>0. p \in Procs
    BY <1>17 DEF Procs
  <2>1. TypeOK'
    BY <2>0, <1>17 DEF WriteIntent, TypeOK, Steps
  <2>2. Holds'
    BY <2>0, <1>17 DEF WriteIntent, Holds
  <2>3. Covered'
    BY <2>0, <1>17 DEF WriteIntent, Covered, Holds
  <2>4. Quiet'
    BY <2>0, <1>17 DEF WriteIntent, Quiet, Holds, Covered
  <2>5. Aware'
    BY <2>0, <1>17 DEF WriteIntent, Aware, Holds, Quiet, Drained
  <2> QED
    BY <2>1, <2>2, <2>3, <2>4, <2>5 DEF HInv
<1>18. ASSUME NEW p \in Schedulers, RequestReboot(p) PROVE HInv'
  <2>0. p \in Procs
    BY <1>18 DEF Procs
  <2>1. TypeOK'
    BY <2>0, <1>18 DEF RequestReboot, TypeOK, Steps
  <2>2. Holds'
    BY <2>0, <1>18 DEF RequestReboot, Holds
  <2>3. Covered'
    BY <2>0, <1>18 DEF RequestReboot, Covered, Holds
  <2>4. Quiet'
    BY <2>0, <1>18 DEF RequestReboot, Quiet, Holds, Covered
  <2>5. Aware'
    BY <2>0, <1>18 DEF RequestReboot, Aware, Holds, Quiet, Drained
  <2> QED
    BY <2>1, <2>2, <2>3, <2>4, <2>5 DEF HInv
<1>19. ASSUME NEW p \in Schedulers, RebootRefused(p) PROVE HInv'
  <2>0. p \in Procs
    BY <1>19 DEF Procs
  <2>1. TypeOK'
    BY <2>0, <1>19 DEF RebootRefused, TypeOK, Steps
  <2>2. Holds'
    BY <2>0, <1>19 DEF RebootRefused, Holds
  <2>3. Covered'
    BY <2>0, <1>19 DEF RebootRefused, Covered, Holds
  <2>4. Quiet'
    BY <2>0, <1>19 DEF RebootRefused, Quiet, Holds, Covered
  <2>5. Aware'
    BY <2>0, <1>19 DEF RebootRefused, Aware, Holds, Quiet, Drained
  <2> QED
    BY <2>1, <2>2, <2>3, <2>4, <2>5 DEF HInv
<1>20. ASSUME NEW p \in Procs, Crash(p) PROVE HInv'
  <2>0. p \in Procs
    BY <1>20 DEF Procs
  <2>1. TypeOK'
    BY <2>0, <1>20 DEF Crash, TypeOK, Steps
  <2>2. Holds'
    BY <2>0, <1>20 DEF Crash, Holds
  <2>3. Covered'
    BY <2>0, <1>20 DEF Crash, Covered, Holds
  <2>4. Quiet'
    BY <2>0, <1>20 DEF Crash, Quiet, Holds, Covered
  <2>5. Aware'
    BY <2>0, <1>20 DEF Crash, Aware, Holds, Quiet, Drained
  <2> QED
    BY <2>1, <2>2, <2>3, <2>4, <2>5 DEF HInv
<1>21. ASSUME NEW p \in Procs, OrphanEnds(p) PROVE HInv'
  <2>0. p \in Procs
    BY <1>21 DEF Procs
  <2>1. TypeOK'
    BY <2>0, <1>21 DEF OrphanEnds, TypeOK, Steps
  <2>2. Holds'
    BY <2>0, <1>21 DEF OrphanEnds, Holds
  <2>3. Covered'
    BY <2>0, <1>21 DEF OrphanEnds, Covered, Holds
  <2>4. Quiet'
    BY <2>0, <1>21 DEF OrphanEnds, Quiet, Holds, Covered
  <2>5. Aware'
    BY <2>0, <1>21 DEF OrphanEnds, Aware, Holds, Quiet, Drained
  <2> QED
    BY <2>1, <2>2, <2>3, <2>4, <2>5 DEF HInv
<1>22. CASE ClearMarker
  <2>1. TypeOK'
    BY <1>22 DEF ClearMarker, TypeOK, Steps
  <2>2. Holds'
    BY <1>22 DEF ClearMarker, Holds
  <2>3. Covered'
    BY <1>22 DEF ClearMarker, Covered, Holds
  <2>4. Quiet'
    BY <1>22 DEF ClearMarker, Quiet, Holds, Covered
  <2>5. Aware'
    BY <1>22 DEF ClearMarker, Aware, Holds, Quiet, Drained
  <2> QED
    BY <2>1, <2>2, <2>3, <2>4, <2>5 DEF HInv
<1>23. CASE Reboot
  <2>1. TypeOK'
    BY <1>23 DEF Reboot, TypeOK, Steps
  <2>2. Holds'
    BY <1>23 DEF Reboot, Holds
  <2>3. Covered'
    BY <1>23 DEF Reboot, Covered, Holds
  <2>4. Quiet'
    BY <1>23 DEF Reboot, Quiet, Holds, Covered
  <2>5. Aware'
    BY <1>23 DEF Reboot, Aware, Holds, Quiet, Drained
  <2> QED
    BY <2>1, <2>2, <2>3, <2>4, <2>5 DEF HInv
<1>24. CASE UNCHANGED vars
  BY <1>24 DEF vars, HInv, TypeOK, Holds, Covered, Quiet, Aware, Intended, Working, Maintaining
<1> QED
  BY <1>1, <1>2, <1>3, <1>4, <1>5, <1>6, <1>7, <1>8, <1>9, <1>10, <1>11, <1>12, <1>13, <1>14, <1>15, <1>16, <1>17, <1>18, <1>19, <1>20, <1>21, <1>22, <1>23, <1>24
     DEF Next, SlotNext, SetupNext, RebootNext, RecoveryNext, Environment, Procs

-----------------------------------------------------------------------------
(* The theorems.                                                            *)

(* The invariant, the types among it, holds in every behaviour.              *)
THEOREM Invariance == Spec => []HInv
<1>1. Init => HInv
  BY InitInvariant
<1>2. HInv /\ [Next]_vars => HInv'
  BY StepInvariant
<1> QED
  BY <1>1, <1>2, PTL DEF Spec

(* A set of processes that all hold the flock has at most one of them.       *)
LEMMA OneHolder ==
  ASSUME NEW S, NEW h, \A p \in S : h = p
  PROVE  Cardinality(S) <= 1 /\ (S # {} => Cardinality(S) = 1)
<1>1. CASE S = {}
  BY <1>1, FS_EmptySet
<1>2. CASE S # {}
  <2>1. S = {h}
    BY <1>2
  <2>2. Cardinality({h}) = 1
    BY FS_Singleton
  <2> QED
    BY <2>1, <2>2, <1>2
<1> QED
  BY <1>1, <1>2

(* Work occupies the host once, also when it outlived the process that held  *)
(* the flock (host_slot).                                                    *)
THEOREM CapacityIsExclusive == Spec => []CapacityExclusive
<1>1. HInv => CapacityExclusive
  <2> SUFFICES ASSUME HInv PROVE CapacityExclusive
    OBVIOUS
  <2>1. \A p \in Working : slotLock = p
    BY DEF HInv, Holds, Working, HoldsSlot
  <2>2. Cardinality(Working) <= 1
    BY <2>1, OneHolder
  <2> QED
    BY <2>2 DEF HInv, Covered, CapacityExclusive
<1> QED
  BY <1>1, Invariance, PTL

(* Setup runs alone, with its own empty drain, while nothing builds          *)
(* (maintenance).                                                            *)
THEOREM SetupIsAlone == Spec => []SetupAlone
<1>1. HInv => SetupAlone
  <2> SUFFICES ASSUME HInv, Maintaining # {} PROVE SetupAlone
    BY DEF SetupAlone
  <2>1. Maintaining \subseteq Procs
    BY DEF Maintaining, Procs
  <2>2. \A p \in Maintaining : slotLock = p
    BY <2>1 DEF HInv, Holds, Maintaining, HoldsSlot
  <2>3. Cardinality(Maintaining) = 1
    BY <2>2, OneHolder
  <2>4. Working = {}
    <3> SUFFICES ASSUME NEW q \in Working PROVE FALSE
      OBVIOUS
    <3>1. PICK m \in Maintaining : TRUE
      OBVIOUS
    <3>2. slotLock = q /\ q \in Procs /\ pc[q] \in InSlot
      BY DEF HInv, Holds, Working, HoldsSlot
    <3>3. slotLock = m /\ pc[m] = "maintaining"
      BY <2>2 DEF Maintaining
    <3> QED
      BY <3>2, <3>3 DEF InSlot
  <2> QED
    BY <2>3, <2>4 DEF HInv, Quiet, SetupAlone
<1> QED
  BY <1>1, Invariance, PTL

(* What NoWorkBeforeReboot and IntentKept say of a step.                     *)
Ready == \A p \in Procs : p \notin Working /\ p \in Working' => ~Intended

Kept ==
  Intended /\ drain' # drain =>
    /\ drain' = NoDrain
    /\ \/ drain.boot # boot
       \/ /\ drain.kind = "reboot"
          /\ \E s \in Schedulers : pc[s] = "recovering" /\ goal[s] = "cancel"

LEMMA StepRespectsIntent == HInv /\ [Next]_vars => Ready /\ Kept
<1> SUFFICES ASSUME HInv, [Next]_vars PROVE Ready /\ Kept
  OBVIOUS
<1> USE DEF files, locks, Go, Leave, InSlot, HoldsSlot, Intents, Intended, Working, Maintaining
<1>a. TypeOK /\ Holds /\ Quiet /\ Aware
  BY DEF HInv
<1>b. Maintainers \subseteq Procs /\ Producers \subseteq Procs /\ Schedulers \subseteq Procs
  BY DEF Procs
<1> USE <1>a, <1>b DEF TypeOK
<1>1. ASSUME NEW p \in Producers \cup Schedulers, CheckDrain(p) PROVE Ready /\ Kept
  BY <1>1 DEF CheckDrain, Outside, Ready, Kept
<1>2. ASSUME NEW p \in Producers \cup Schedulers, TakeSlot(p) PROVE Ready /\ Kept
  BY <1>2 DEF TakeSlot, Ready, Kept
<1>3. ASSUME NEW p \in Producers \cup Schedulers, Recheck(p) PROVE Ready /\ Kept
  BY <1>3 DEF Recheck, Ready, Kept
<1>4. ASSUME NEW p \in Producers \cup Schedulers, Mark(p) PROVE Ready /\ Kept
  BY <1>4 DEF Mark, Aware, Ready, Kept
<1>5. ASSUME NEW p \in Producers \cup Schedulers, Finish(p) PROVE Ready /\ Kept
  BY <1>5 DEF Finish, Ready, Kept
<1>6. ASSUME NEW p \in Producers \cup Schedulers, GiveUp(p) PROVE Ready /\ Kept
  BY <1>6 DEF GiveUp, Ready, Kept
<1>7. ASSUME NEW p \in Maintainers, OpenDrain(p) PROVE Ready /\ Kept
  BY <1>7 DEF OpenDrain, Empty, Ready, Kept
<1>8. ASSUME NEW p \in Maintainers, LockForSetup(p) PROVE Ready /\ Kept
  BY <1>8 DEF LockForSetup, Ready, Kept
<1>9. ASSUME NEW p \in Maintainers, EnterSetup(p) PROVE Ready /\ Kept
  BY <1>9 DEF EnterSetup, Ready, Kept
<1>10. ASSUME NEW p \in Maintainers, NEW release \in BOOLEAN, LeaveSetup(p, release) PROVE Ready /\ Kept
  BY <1>10 DEF LeaveSetup, NoDrain, Quiet, Ready, Kept
<1>11. ASSUME NEW p \in Maintainers, FailSetup(p) PROVE Ready /\ Kept
  BY <1>11 DEF FailSetup, Ready, Kept
<1>12. ASSUME NEW p \in Schedulers, NEW g \in Goals, TakeSetupLock(p, g) PROVE Ready /\ Kept
  BY <1>12 DEF TakeSetupLock, Ready, Kept
<1>13. ASSUME NEW p \in Schedulers, LockForRecovery(p) PROVE Ready /\ Kept
  BY <1>13 DEF LockForRecovery, AfterRecovery, Ready, Kept
<1>14. ASSUME NEW p \in Schedulers, Recover(p) PROVE Ready /\ Kept
  BY <1>14 DEF Recover, NoDrain, Recoverable, AfterRecovery, Ready, Kept
<1>15. ASSUME NEW p \in Schedulers, EndRecovery(p) PROVE Ready /\ Kept
  BY <1>15 DEF EndRecovery, Ready, Kept
<1>16. ASSUME NEW p \in Schedulers, CreateIntent(p) PROVE Ready /\ Kept
  BY <1>16 DEF CreateIntent, Empty, Drained, Ready, Kept
<1>17. ASSUME NEW p \in Schedulers, WriteIntent(p) PROVE Ready /\ Kept
  BY <1>17 DEF WriteIntent, Aware, Ready, Kept
<1>18. ASSUME NEW p \in Schedulers, RequestReboot(p) PROVE Ready /\ Kept
  BY <1>18 DEF RequestReboot, Ready, Kept
<1>19. ASSUME NEW p \in Schedulers, RebootRefused(p) PROVE Ready /\ Kept
  BY <1>19 DEF RebootRefused, Ready, Kept
<1>20. ASSUME NEW p \in Procs, Crash(p) PROVE Ready /\ Kept
  BY <1>20 DEF Crash, Ready, Kept
<1>21. ASSUME NEW p \in Procs, OrphanEnds(p) PROVE Ready /\ Kept
  BY <1>21 DEF OrphanEnds, Ready, Kept
<1>22. CASE ClearMarker
  BY <1>22 DEF ClearMarker, Ready, Kept
<1>23. CASE Reboot
  BY <1>23 DEF Reboot, Ready, Kept
<1>24. CASE UNCHANGED vars
  BY <1>24 DEF vars, Ready, Kept
<1> QED
  BY <1>1, <1>2, <1>3, <1>4, <1>5, <1>6, <1>7, <1>8, <1>9, <1>10, <1>11, <1>12, <1>13, <1>14, <1>15, <1>16, <1>17, <1>18, <1>19, <1>20, <1>21, <1>22, <1>23, <1>24
     DEF Next, SlotNext, SetupNext, RebootNext, RecoveryNext, Environment, Procs

(* No work starts while a reboot is intended (host_slot, which reads the     *)
(* drain before and after it tries the flock).                               *)
THEOREM IntentStopsWork == Spec => NoWorkBeforeReboot
<1>1. NoWorkBeforeReboot <=> [][Ready]_vars
  BY DEF NoWorkBeforeReboot, Ready
<1>2. HInv /\ [Next]_vars => Ready
  BY StepRespectsIntent
<1> QED
  BY <1>1, <1>2, Invariance, PTL DEF Spec

(* An intent disappears only by its confirmed cancellation or in a later     *)
(* boot (recover_reboot_drain, maintenance).                                 *)
THEOREM IntentStays == Spec => IntentKept
<1>1. IntentKept <=> [][Kept]_vars
  BY DEF IntentKept, Kept
<1>2. HInv /\ [Next]_vars => Kept
  BY StepRespectsIntent
<1> QED
  BY <1>1, <1>2, Invariance, PTL DEF Spec
=============================================================================
