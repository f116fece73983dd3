---------------------------- MODULE MCAioSession ----------------------------
(***************************************************************************)
(* Values of AioSession's constants for TLC, in Session's terms.           *)
(***************************************************************************)
EXTENDS AioSession

A        == {"a"}
Sel1     == [i \in 1..1 |-> 1]
NoAll1   == [i \in 1..1 |-> FALSE]
CoversA  == [i \in 1..1 |-> A]

Servers == {[majors |-> {"3"}, cap |-> TRUE, global |-> FALSE],
            [majors |-> {"3", "4"}, cap |-> TRUE, global |-> FALSE]}

(* Users who go on after a failed call.                                    *)
Going == [requested |-> None, auth |-> FALSE, batch |-> TRUE, dialup |-> FALSE,
          multistation |-> TRUE, window |-> FALSE, timeout |-> TRUE,
          keepalive |-> FALSE, reconnect |-> TRUE, careful |-> FALSE]

Clients == {Going,
            [Going EXCEPT !.timeout = FALSE, !.keepalive = TRUE, !.reconnect = FALSE],
            [Going EXCEPT !.dialup = TRUE, !.auth = TRUE]}
=============================================================================
