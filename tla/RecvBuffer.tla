----------------------------- MODULE RecvBuffer -----------------------------
(***************************************************************************)
(* The receive buffer of _base.py: one bytearray that _ensure() fills at   *)
(* its end, the parsers consume at its start, and _prepare_room() compacts *)
(* or grows.  A cell holds the number of the byte it was filled with (the  *)
(* n-th byte of the connection is n), 0 while it was never written.        *)
(***************************************************************************)
EXTENDS Integers

CONSTANTS DefaultSize,   \* _RECV_BUF_SIZE
          MaxRequest,    \* the largest n of an _ensure(n): a frame or a line
          MaxSent        \* bound: bytes the peer sends on one connection

ASSUME BufferAssumption ==
    /\ DefaultSize \in Nat \ {0}
    /\ MaxRequest \in Nat \ {0}
    /\ MaxSent \in Nat

VARIABLES buf, cap,          \* _recv_buf and its length
          start, end,        \* _recv_start, _recv_end
          connected,         \* _sock is not None
          pc, need,          \* in _ensure(need): "idle", "fill", "ready"
          sent,              \* bytes received on this connection
          taken, chunk       \* bytes consumed so far, and by the last read

bufVars == <<buf, cap, start, end>>
vars    == <<bufVars, connected, pc, need, sent, taken, chunk>>

available == end - start

NoBytes == [i \in {} |-> 0]

Zeros(c) == [i \in 0..c-1 |-> 0]

Init == /\ cap = DefaultSize /\ buf = Zeros(cap)
        /\ start = 0 /\ end = 0
        /\ connected = FALSE
        /\ pc = "idle" /\ need = 0
        /\ sent = 0 /\ taken = 0 /\ chunk = NoBytes

-----------------------------------------------------------------------------
(* _reset_recv_buf().                                                      *)
Reset ==
    /\ IF cap > DefaultSize
       THEN cap' = DefaultSize /\ buf' = Zeros(DefaultSize)
       ELSE UNCHANGED <<cap, buf>>
    /\ start' = 0 /\ end' = 0

(* Mutant: the front of the buffer is copied, not what is buffered.        *)
MovedFromFront(c) == [i \in 0..c-1 |-> IF i < cap THEN buf[i] ELSE 0]

(* What is buffered, moved to the front of a bytearray c long.             *)
MovedTo(c) ==
    [i \in 0..c-1 |-> IF i < available THEN buf[start + i]
                      ELSE IF c = cap THEN buf[i] ELSE 0]

Move(c) == cap' = c /\ buf' = MovedTo(c) /\ start' = 0 /\ end' = available

Larger(n, c) == IF n > 2 * c THEN n ELSE 2 * c

(* Mutant: grown where compacting would do.                                *)
PrepareRoomGrows(n) ==
    IF available = 0 /\ n <= DefaultSize
    THEN Reset
    ELSE IF cap - start < n THEN Move(Larger(n, cap))
    ELSE UNCHANGED bufVars

(* _prepare_room(n), with fewer than n bytes buffered: an emptied buffer   *)
(* goes back to its default size first if n fits there, then it is grown,  *)
(* compacted or left alone.                                                *)
PrepareRoom(n) ==
    IF available = 0 /\ n <= DefaultSize
    THEN Reset
    ELSE IF n > cap THEN Move(Larger(n, cap))
    ELSE IF cap - start < n THEN Move(cap)
    ELSE UNCHANGED bufVars

(* _ensure(n), up to its fill loop.                                        *)
Ensure(n) ==
    /\ connected /\ pc = "idle"
    /\ need' = n
    /\ IF available >= n
       THEN pc' = "ready" /\ UNCHANGED bufVars
       ELSE pc' = "fill" /\ PrepareRoom(n)
    /\ UNCHANGED <<connected, sent, taken, chunk>>

(* recv_into() of the free end of the buffer returns k bytes.              *)
RecvInto(k) ==
    /\ pc = "fill" /\ k \in 1..cap-end /\ sent + k <= MaxSent
    /\ buf' = [i \in 0..cap-1 |-> IF i \in end..end+k-1 THEN sent + 1 + (i - end)
                                  ELSE buf[i]]
    /\ end' = end + k /\ sent' = sent + k
    /\ pc' = IF end + k - start < need THEN "fill" ELSE "ready"
    /\ UNCHANGED <<cap, start, connected, need, taken, chunk>>

(* The parsers look at what is buffered, then step over m bytes of it: a   *)
(* _take(), a line scan_line() found, a v4 frame; m = 0 is a _peek().      *)
Consume(m) ==
    /\ m \in 0..available
    /\ chunk' = [i \in 0..m-1 |-> buf[start + i]]
    /\ taken' = taken + m
    /\ pc' = "idle"
    /\ UNCHANGED <<connected, need, sent>>

(* scan_line() needs no _ensure() to have run.                             *)
Read(m) ==
    /\ connected /\ pc \in {"idle", "ready"}
    /\ Consume(m)
    /\ start' = start + m
    /\ UNCHANGED <<buf, cap, end>>

(* The end of _recv_frame(): a drained buffer is released.                 *)
ReadFrame(m) ==
    /\ connected /\ pc \in {"idle", "ready"}
    /\ Consume(m)
    /\ IF m = available THEN Reset
       ELSE start' = start + m /\ UNCHANGED <<buf, cap, end>>

(* Nothing came: SeedLinkTimeout, and the connection stays as it is.       *)
CleanTimeout ==
    /\ pc = "fill" /\ available = 0
    /\ pc' = "idle"
    /\ UNCHANGED <<bufVars, connected, need, sent, taken, chunk>>

(* close(), by the user or after a partial read, an error or end of file.  *)
Close ==
    /\ connected
    /\ connected' = FALSE /\ pc' = "idle" /\ Reset
    /\ UNCHANGED <<need, sent, taken, chunk>>

Connect ==
    /\ ~connected
    /\ connected' = TRUE /\ Reset
    /\ sent' = 0 /\ taken' = 0 /\ chunk' = NoBytes
    /\ UNCHANGED <<pc, need>>

Next == \/ Connect \/ Close \/ CleanTimeout
        \/ \E n \in 1..MaxRequest : Ensure(n)
        \/ \E k \in 1..MaxSent : RecvInto(k)
        \/ \E m \in 0..MaxSent : Read(m) \/ ReadFrame(m)

Spec == Init /\ [][Next]_vars

-----------------------------------------------------------------------------
TypeOK == /\ cap \in Nat /\ cap >= DefaultSize
          /\ buf \in [0..cap-1 -> Nat]
          /\ start \in Nat /\ end \in start..cap
          /\ connected \in BOOLEAN
          /\ pc \in {"idle", "fill", "ready"} /\ need \in Nat
          /\ sent \in Nat /\ taken \in Nat

(* While _ensure() fills, recv_into() is never handed an empty view, which *)
(* would return 0 and be taken for "Connection closed"; and what is asked  *)
(* for fits without moving the buffer again.                               *)
FillHasRoom ==
    pc = "fill" => available < need /\ end < cap /\ need <= cap - start

(* What is buffered are the next bytes of this connection, in order,       *)
(* through every compaction and growth; nothing of an earlier connection   *)
(* is left.                                                                *)
InOrder ==
    connected => /\ taken + available = sent
                 /\ \A j \in 0..available-1 : buf[start + j] = taken + 1 + j

(* _ensure() returns with what it was asked for.                           *)
EnsureDelivers == pc = "ready" => need <= available

(* The buffer is never more than twice the largest request, so a server    *)
(* cannot make it grow without bound.                                      *)
Bounded == cap = DefaultSize \/ cap < 2 * MaxRequest

(* Taken together with the buffering, reads hand over the byte stream.     *)
Bytes == INSTANCE ByteStream WITH Sizes <- 0..MaxSent
HandsOverStream == Bytes!Spec
=============================================================================
