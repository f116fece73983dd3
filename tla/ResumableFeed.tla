--------------------------- MODULE ResumableFeed ----------------------------
(***************************************************************************)
(* What collect() promises its consumer, whatever the connection goes      *)
(* through: "a reconnect resumes where it left off" (client.py, aio.py).   *)
(* For every station the packets arrive in order, each once, none left     *)
(* out; where the feed of a station starts is not promised.                *)
(***************************************************************************)
EXTENDS Integers, Sequences

CONSTANTS Stations,
          Indices    \* packets of a station are numbered by these

VARIABLE delivered   \* delivered[st]: indices of st's packets, as yielded

Init == delivered = [st \in Stations |-> <<>>]

Deliver(st, k) ==
    /\ delivered[st] # <<>> => k = delivered[st][Len(delivered[st])] + 1
    /\ delivered' = [delivered EXCEPT ![st] = Append(@, k)]

Next == \E st \in Stations, k \in Indices : Deliver(st, k)

Spec == Init /\ [][Next]_delivered
=============================================================================
