----------------------------- MODULE ByteStream -----------------------------
(***************************************************************************)
(* What the receive buffer promises the code that reads lines and frames:  *)
(* the bytes of one connection, numbered 1, 2, 3, ... as they were sent,   *)
(* are handed over in that order, each once, none of another connection.   *)
(***************************************************************************)
EXTENDS Integers

CONSTANT Sizes   \* how many bytes one read may hand over

VARIABLES taken,   \* bytes of this connection handed over so far
          chunk    \* the bytes handed over last, by position from 0

Init == taken = 0 /\ chunk = [i \in {} |-> 0]

HandOver(m) ==
    /\ chunk' = [i \in 0..m-1 |-> taken + 1 + i]
    /\ taken' = taken + m

NewConnection == taken' = 0 /\ chunk' = [i \in {} |-> 0]

Next == NewConnection \/ \E m \in Sizes : HandOver(m)

Spec == Init /\ [][Next]_<<taken, chunk>>
=============================================================================
