--------------------------- MODULE MCCollectClock ---------------------------
(* Instances of CollectClock for TLC: limits small and apart from each     *)
(* other, a poll interval that does not divide the keepalive interval.     *)
EXTENDS CollectClock

Usual == [idle |-> 5, keep |-> 3, delay |-> 2, timeout |-> 2,
          reconnect |-> TRUE, hold |-> 2]

Timed == {Usual,
          [Usual EXCEPT !.keep = 0, !.hold = 5],
          [Usual EXCEPT !.hold = 7],
          [Usual EXCEPT !.reconnect = FALSE],
          [Usual EXCEPT !.timeout = 0]}
=============================================================================
