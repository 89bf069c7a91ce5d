---------------------------- MODULE JobLifecycle ----------------------------
(***************************************************************************)
(* What the build host promises the client of one request: an accepted      *)
(* request is decided once and for ever, it executes at most once and       *)
(* alone, and a cancellation acknowledged before the decision excludes      *)
(* success.  Leases, clocks, the ledger and crashes are not visible here.    *)
(***************************************************************************)
CONSTANT Requests

VARIABLES
  phase,     \* what the owner of each request is told
  cancelled  \* requests whose cancellation was acknowledged

vars == <<phase, cancelled>>

Outcomes == {"succeeded", "failed", "cancelled", "uncertain"}
Phases   == {"absent", "queued", "running", "expired"} \cup Outcomes

In(p) == {r \in Requests : phase[r] = p}

\* Any operation may find that some queued requests ran out of time.
Late(S) == [r \in Requests |-> IF r \in S THEN "expired" ELSE phase[r]]

Accept(r, S) ==
  /\ phase[r] = "absent"
  /\ phase' = [Late(S) EXCEPT ![r] = "queued"]
  /\ UNCHANGED cancelled

Start(r, S) ==
  /\ phase[r] = "queued"
  /\ In("running") = {}
  /\ phase' = [Late(S) EXCEPT ![r] = "running"]
  /\ UNCHANGED cancelled

Cancel(r, S) ==
  /\ phase[r] \in {"queued", "running"}
  /\ phase' = IF phase[r] = "queued" THEN [Late(S) EXCEPT ![r] = "cancelled"] ELSE Late(S)
  /\ cancelled' = cancelled \cup {r}

Decide(r, S, outcome) ==
  /\ phase[r] = "running"
  /\ outcome = "succeeded" => r \notin cancelled
  /\ outcome = "cancelled" => r \in cancelled
  /\ phase' = [Late(S) EXCEPT ![r] = outcome]
  /\ UNCHANGED cancelled

Expire(S) ==
  /\ phase' = Late(S)
  /\ UNCHANGED cancelled

Init ==
  /\ phase = [r \in Requests |-> "absent"]
  /\ cancelled = {}

Next ==
  \E S \in SUBSET In("queued") :
    \/ Expire(S)
    \/ \E r \in Requests \ S :
         \/ Accept(r, S)
         \/ Start(r, S)
         \/ Cancel(r, S)
         \/ \E outcome \in Outcomes : Decide(r, S, outcome)

Spec == Init /\ [][Next]_vars

=============================================================================
