----------------------------- MODULE UnitGroups -----------------------------
(***************************************************************************)
(* What lib/unit_transaction.py promises of a group of related systemd       *)
(* units: its files and enablement change together or not at all.            *)
(***************************************************************************)
EXTENDS Sequences

CONSTANTS
  Units,        \* names of systemd units
  Groups,       \* operations the program requests
  Definitions,  \* contents of unit files
  None          \* no file

VARIABLES
  installed,  \* the definition of each unit
  armed       \* the units that are enabled

vars == <<installed, armed>>

Members(s) == {s[n] : n \in DOMAIN s}

Init ==
  /\ installed \in [Units -> Definitions \cup {None}]
  /\ armed \in SUBSET Units

\* A removal leaves a unit without a managed file alone.
Removed(g) == {u \in Members(g.remove) : installed[u] # None}

Apply(g, d) ==
  /\ installed' = [u \in Units |-> IF u \in Members(g.write) THEN d
                                  ELSE IF u \in Members(g.remove) THEN None
                                  ELSE installed[u]]
  /\ armed' = (armed \ (Members(g.deactivate) \cup Removed(g))) \cup Members(g.activate)

Next == \E g \in Groups, d \in Definitions : Apply(g, d)

Spec == Init /\ [][Next]_vars
=============================================================================
