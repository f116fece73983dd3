------------------------------ MODULE MCCliRun ------------------------------
(***************************************************************************)
(* Values of CliRun's constants for TLC: one station ID, one station.      *)
(***************************************************************************)
EXTENDS CliRun

IdSet    == {"A", "*"}
OnlyA    == {"a"}
MatchesA == [id \in IdSet |-> {"a"}]
=============================================================================
