---------------------------- MODULE MCPunishment ----------------------------
(* Small instances of Punishment for TLC. *)
EXTENDS Punishment, TLC

CONSTANTS u1

\* One user wrote every floor and every report.
ByOneUser == [f \in Floors |-> u1]

ReportedByOneUser == [p \in Reports |-> u1]

HandlerSymmetry == Permutations(Requests)
=============================================================================
