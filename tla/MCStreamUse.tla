---------------------------- MODULE MCStreamUse -----------------------------
(***************************************************************************)
(* Values of StreamUse's constants for TLC: one exact station ID, one      *)
(* pattern that matches the same station and another, and "*".              *)
(***************************************************************************)
EXTENDS StreamUse

IdSet    == {"A", "A?", "*"}
AB       == {"a", "b"}
Matching2 == [id \in IdSet |-> IF id = "A" THEN {"a"} ELSE {"a", "b"}]
=============================================================================
