---------------------------- MODULE TargetRollout ----------------------------
(***************************************************************************)
(* What a deployment target promises: whoever reserves later wins.  Each     *)
(* application has a newest desired generation; a release is only ever       *)
(* installed for the generation that is the desired one at that moment, and  *)
(* so the installed generations of an application only grow.  Ledgers,       *)
(* artifacts, markers, connections and crashes are not visible here.         *)
(***************************************************************************)
EXTENDS Naturals

CONSTANT Apps

VARIABLES
  desired,   \* the newest reserved generation of each application
  installed  \* the generation its release registry names, 0 for none

vars == <<desired, installed>>

Reserve(a) ==
  /\ desired' = [desired EXCEPT ![a] = @ + 1]
  /\ UNCHANGED installed

Install(a) ==
  /\ installed[a] < desired[a]
  /\ installed' = [installed EXCEPT ![a] = desired[a]]
  /\ UNCHANGED desired

Init ==
  /\ desired = [a \in Apps |-> 0]
  /\ installed = [a \in Apps |-> 0]

Next == \E a \in Apps : Reserve(a) \/ Install(a)

Spec == Init /\ [][Next]_vars

=============================================================================
