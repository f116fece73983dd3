----------------------------- MODULE MCSession ------------------------------
(***************************************************************************)
(* Values of Session's constants for TLC.                                  *)
(***************************************************************************)
EXTENDS Session

A == {"a"}
AB == {"a", "b"}

(* One stream on one station, two on a station each, or one wildcard       *)
(* stream on two stations.                                                 *)
Sel1      == [i \in 1..1 |-> 1]
Sel2      == [i \in 1..2 |-> 2 - i]
NoAll1    == [i \in 1..1 |-> FALSE]
NoAll2    == [i \in 1..2 |-> FALSE]
CoversA   == [i \in 1..1 |-> {"a"}]
CoversAny == [i \in 1..1 |-> {"a", "b"}]
CoversTwo == [i \in 1..2 |-> IF i = 1 THEN {"a"} ELSE {"b"}]

Plain == [requested |-> None, auth |-> FALSE, batch |-> FALSE, dialup |-> FALSE,
          multistation |-> TRUE, window |-> FALSE, timeout |-> FALSE,
          keepalive |-> FALSE, reconnect |-> TRUE, careful |-> TRUE]

V3Cap       == [majors |-> {"3"}, cap |-> TRUE, global |-> FALSE]
V4Server    == [majors |-> {"3", "4"}, cap |-> TRUE, global |-> FALSE]

(* Servers that number the packets of all stations together.               *)
Rings  == {[V3Cap EXCEPT !.global = TRUE], [V4Server EXCEPT !.global = TRUE]}
V3V4   == {V3Cap, V4Server}

Collecting == {Plain, [Plain EXCEPT !.keepalive = TRUE, !.timeout = TRUE],
               [Plain EXCEPT !.auth = TRUE, !.reconnect = FALSE],
               [Plain EXCEPT !.multistation = FALSE, !.batch = TRUE]}

(* Any calls, in any order.  A user who negotiates over a running dial-up   *)
(* transfer may read its END as a reply line, so there the user is careful. *)
Dialling == [Plain EXCEPT !.dialup = TRUE]
Pinned   == [Plain EXCEPT !.requested = "V4", !.timeout = TRUE]
Batched  == [Plain EXCEPT !.batch = TRUE, !.auth = TRUE, !.timeout = TRUE]
Calling  == {Dialling, Batched, [Batched EXCEPT !.careful = FALSE],
             [Pinned EXCEPT !.careful = FALSE]}
=============================================================================
