-------------------------- MODULE MCUnitTransaction --------------------------
(* Instances of UnitTransaction for TLC. *)
EXTENDS UnitTransaction

CONSTANTS timer, job, socket, server

Operation(write, remove, deactivate, once, activate) ==
  [write |-> write, remove |-> remove, deactivate |-> deactivate, once |-> once, activate |-> activate]

\* common/web_panel_steps.py:953, common/proxmox_web_panel_steps.py:94
Exporter == Operation(<<job, timer>>, << >>, <<timer>>, <<job>>, <<timer>>)
RemoveExporter == Operation(<< >>, <<timer, job>>, << >>, << >>, << >>)
\* desktop/guacamole_steps.py:322
Desktop  == Operation(<<server, socket>>, << >>, << >>, << >>, <<socket, server>>)
\* web/github_runner_registration_steps.py:75 and :82
Register == Operation(<<socket, server>>, << >>, << >>, << >>, <<socket>>)
RemoveSockets == Operation(<< >>, <<socket, server>>, << >>, << >>, << >>)

AllUnits  == {timer, job, socket, server}
AllGroups == {Exporter, RemoveExporter, Desktop, Register, RemoveSockets}
AllTriggers ==
  [u \in AllUnits |-> CASE u = timer -> {job} [] u = socket -> {server} [] OTHER -> {}]

ExporterUnits    == {timer, job}
ExporterGroups   == {Exporter}
ExporterTriggers == [u \in ExporterUnits |-> IF u = timer THEN {job} ELSE {}]
=============================================================================
