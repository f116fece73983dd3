------------------------------ MODULE AioTasks ------------------------------
(***************************************************************************)
(* An asyncio client shared by tasks: `main' consumes collect(), `other'   *)
(* calls close() or cancels main, and when main leaves its loop early the  *)
(* event loop's finalizer closes the generator from a task of its own.     *)
(* The event loop is modelled as asyncio's: one task runs at a time, from  *)
(* an await that suspends it to the next, and those that can run again do  *)
(* so in the order in which they were woken.                               *)
(*                                                                         *)
(* Connections are numbered as they are made.  A frame is FrameLen bytes   *)
(* long, of which the first two are its header; a byte is known by its     *)
(* connection and its place in it.                                         *)
(***************************************************************************)
EXTENDS Integers, Sequences

CONSTANTS Reconnects,   \* values of collect(reconnect=) considered
          Acts,         \* what the program does besides consuming
          MaxActs,      \* bound: how often
          MaxBytes,     \* bound: bytes sent on one connection
          MaxCuts       \* bound: connections cut or refused

ASSUME TasksAssumption ==
    /\ Reconnects \subseteq BOOLEAN
    /\ Acts \subseteq {"close", "cancel", "recollect", "reopen"}
    /\ MaxActs \in Nat /\ MaxBytes \in Nat /\ MaxCuts \in Nat

FrameLen == 3
Tasks    == {"main", "other", "finalizer"}
Nobody   == "nobody"
Steps    == {"idle", "top", "ensure", "loop", "read", "yield", "user", "raised",
             "caught", "connect", "opening", "reply", "finish", "done"}

(* Each connection but the first follows a close, an abort or a cut.       *)
MaxConns == 1 + 2 * MaxActs + MaxCuts
Conns    == 1..MaxConns

VARIABLES cur,        \* the connection of _reader and _writer, 0: None
          made,       \* connections made
          open,       \* those whose writer has not been closed
          eof, lost,  \* those at end of file, those whose transport is gone
          arrived,    \* arrived[c]: bytes that came on c
          taken,      \* taken[c]: bytes of c read out of its StreamReader
          buf,        \* the receive buffer
          need,       \* the n of the _ensure(n) main is in
          header,     \* first byte of the header that was parsed
          frame,      \* the frame the consumer holds, with its header
          ready,      \* tasks that can run, in order
          running,    \* the task that runs
          pc, wait,   \* each task's place, and what it waits for
          on,         \* ... and on which connection
          reconnect,  \* collect(reconnect=)
          inside,     \* main is in collect()
          outcome,    \* how collect() last ended
          cancelled,  \* main is to be cancelled when it runs
          intruded,   \* close() came between main's bytes and main
          acts, cuts  \* counters of the bounds

connVars == <<cur, made, open, eof, lost, arrived, taken>>
dataVars == <<buf, need, header, frame>>
loopVars == <<ready, running, pc, wait, on>>
progVars == <<reconnect, inside, outcome, cancelled, intruded, acts, cuts>>
vars     == <<connVars, dataVars, loopVars, progVars>>

Byte == [conn : Conns, n : 1..MaxBytes]
None == [conn |-> 0, n |-> 0]
NoFrame == [header |-> None, bytes |-> <<>>]

TypeOK ==
    /\ cur \in Conns \cup {0} /\ made \in Conns
    /\ open \subseteq Conns /\ eof \subseteq Conns /\ lost \subseteq Conns
    /\ arrived \in [Conns -> 0..MaxBytes] /\ taken \in [Conns -> 0..MaxBytes]
    /\ buf \in Seq(Byte) /\ need \in 1..FrameLen
    /\ header \in Byte \cup {None}
    /\ frame.header \in Byte \cup {None} /\ frame.bytes \in Seq(Byte)
    /\ ready \in Seq(Tasks) /\ running \in Tasks \cup {Nobody}
    /\ pc \in [Tasks -> Steps]
    /\ wait \in [Tasks -> {"nothing", "data", "closed", "event"}]
    /\ on \in [Tasks -> Conns \cup {0}]
    /\ \A t \in Tasks : wait[t] \in {"data", "closed"} => on[t] \in Conns
    /\ {reconnect, inside, cancelled, intruded} \subseteq BOOLEAN
    /\ acts \in 0..MaxActs /\ cuts \in 0..MaxCuts

Init ==
    /\ cur = 1 /\ made = 1 /\ open = {1} /\ eof = {} /\ lost = {}
    /\ arrived = [c \in Conns |-> 0] /\ taken = [c \in Conns |-> 0]
    /\ buf = <<>> /\ need = 1 /\ header = None
    /\ frame = NoFrame
    /\ ready = <<"main">> /\ running = Nobody
    /\ pc = [t \in Tasks |-> IF t = "main" THEN "top" ELSE "idle"]
    /\ wait = [t \in Tasks |-> "nothing"]
    /\ on = [t \in Tasks |-> 0]
    /\ reconnect \in Reconnects
    /\ inside = TRUE /\ outcome = "none"
    /\ cancelled = FALSE /\ intruded = FALSE /\ acts = 0 /\ cuts = 0

-----------------------------------------------------------------------------
(* The event loop.  A running task goes on to its next step, or waits.     *)
Run ==
    /\ running = Nobody /\ ready # <<>>
    /\ running' = Head(ready) /\ ready' = Tail(ready)
    /\ UNCHANGED <<connVars, dataVars, progVars, pc, wait, on>>

GoOn(t, step) ==
    /\ pc' = [pc EXCEPT ![t] = step]
    /\ UNCHANGED <<ready, running, wait, on>>

WaitFor(t, step, what, c) ==
    /\ pc' = [pc EXCEPT ![t] = step]
    /\ wait' = [wait EXCEPT ![t] = what] /\ on' = [on EXCEPT ![t] = c]
    /\ running' = Nobody
    /\ UNCHANGED ready

(* The tasks that wait for something of connection c, in a fixed order.    *)
Waits(t, what, c) == IF wait[t] = what /\ on[t] = c THEN <<t>> ELSE <<>>

Waiting(what, c) ==
    Waits("main", what, c) \o Waits("other", what, c) \o Waits("finalizer", what, c)

InSeq(t, s) == \E k \in 1..Len(s) : s[k] = t

Wake(s) ==
    /\ ready' = ready \o s
    /\ wait' = [t \in Tasks |-> IF InSeq(t, s) THEN "nothing" ELSE wait[t]]

(* Between two task steps the loop hears from the network and the clock.   *)
Arrive ==
    /\ running = Nobody
    /\ \E c \in open \ eof :
          /\ arrived[c] < MaxBytes
          /\ arrived' = [arrived EXCEPT ![c] = @ + 1]
          /\ Wake(Waiting("data", c))
    /\ UNCHANGED <<cur, made, open, eof, lost, taken, dataVars, progVars,
                   running, pc, on>>

Cut ==
    /\ running = Nobody /\ cuts < MaxCuts /\ cuts' = cuts + 1
    /\ \E c \in open \ eof : eof' = eof \cup {c} /\ Wake(Waiting("data", c))
    /\ UNCHANGED <<cur, made, open, lost, arrived, taken, dataVars, running, pc,
                   on, reconnect, inside, outcome, cancelled, intruded, acts>>

(* connection_lost() of a transport that was closed: a reader is woken     *)
(* before wait_closed() returns.                                           *)
Lost ==
    /\ running = Nobody
    /\ \E c \in (1..made) \ (open \cup lost) :
          /\ lost' = lost \cup {c} /\ eof' = eof \cup {c}
          /\ Wake(Waiting("data", c) \o Waiting("closed", c))
    /\ UNCHANGED <<cur, made, open, arrived, taken, dataVars, progVars, running,
                   pc, on>>

(* A sleep is over, a connection attempt or the consumer's own await ends. *)
Happens ==
    /\ running = Nobody
    /\ wait["main"] = "event" /\ Wake(<<"main">>)
    /\ UNCHANGED <<connVars, dataVars, progVars, running, pc, on>>

(* The poll's second passes with nothing read.                             *)
PollTimeout ==
    /\ running = Nobody
    /\ pc["main"] = "read" /\ wait["main"] = "data" /\ need = 1
    /\ pc' = [pc EXCEPT !["main"] = "top"] /\ Wake(<<"main">>)
    /\ UNCHANGED <<connVars, dataVars, progVars, running, on>>

-----------------------------------------------------------------------------
(* Mutant: close() clears its state once the transport is gone.            *)
ClearNothing == UNCHANGED cur

(* _reader and _writer go before the await in close() ...                  *)
Clear == cur' = 0

(* Mutant: the buffer is not reset.                                        *)
KeepBuffer == UNCHANGED buf

ResetBuffer == buf' = <<>>

(* close(), by task t, which goes on at `step' once the transport is gone. *)
CloseThen(t, step) ==
    /\ Clear /\ ResetBuffer
    /\ open' = open \ {cur}
    /\ IF cur = 0 \/ cur \in lost THEN GoOn(t, step)
       ELSE WaitFor(t, step, "closed", cur)
    /\ UNCHANGED <<made, eof, lost, arrived, taken, need, header, frame>>

(* Steps of main, while it runs and is not to be cancelled.                *)
Main(step) == running = "main" /\ ~cancelled /\ pc["main"] = step

(* SeedLinkError reaches collect(), or the user of connect().              *)
Raise == GoOn("main", "raised") /\ UNCHANGED <<connVars, dataVars, progVars>>

Finish(how) ==
    /\ outcome' = how /\ inside' = FALSE
    /\ UNCHANGED <<reconnect, cancelled, intruded, acts, cuts>>

-----------------------------------------------------------------------------
(* collect().                                                              *)
(* Mutant: the loop does not look whether it is connected.                 *)
TopPolls ==
    /\ Main("top")
    /\ GoOn("main", "ensure") /\ need' = 1
    /\ UNCHANGED <<connVars, buf, header, frame, progVars>>

Top ==
    /\ Main("top")
    /\ \/ /\ cur # 0
          /\ GoOn("main", "ensure") /\ need' = 1
          /\ UNCHANGED <<connVars, buf, header, frame, progVars>>
       \/ /\ cur = 0 /\ reconnect
          /\ WaitFor("main", "connect", "event", 0)
          /\ UNCHANGED <<connVars, dataVars, progVars>>
       \/ /\ cur = 0 /\ ~reconnect
          /\ GoOn("main", "user") /\ Finish("silent")
          /\ UNCHANGED <<connVars, dataVars>>

(* _ensure(need), on entry ...                                             *)
Ensure ==
    /\ Main("ensure")
    /\ IF cur = 0 THEN Raise
       ELSE GoOn("main", "loop") /\ UNCHANGED <<connVars, dataVars, progVars>>

(* ... and its loop: what is done with the bytes it has, by `need'.        *)
Parse ==
    \/ /\ need = 1 /\ need' = 2
       /\ GoOn("main", "ensure") /\ UNCHANGED <<buf, header, frame>>
    \/ /\ need = 2 /\ need' = FrameLen /\ header' = Head(buf)
       /\ GoOn("main", "ensure") /\ UNCHANGED <<buf, frame>>
    \/ /\ need = FrameLen
       /\ frame' = [header |-> header, bytes |-> SubSeq(buf, 1, FrameLen)]
       /\ buf' = SubSeq(buf, FrameLen + 1, Len(buf))
       /\ header' = None /\ GoOn("main", "yield") /\ UNCHANGED need

HasSome(c) == arrived[c] > taken[c] \/ c \in eof

(* self._reader.read(): without a reader an AttributeError, which nothing  *)
(* in collect() handles; with bytes at hand it does not suspend.           *)
ReadMore ==
    \/ /\ cur = 0
       /\ GoOn("main", "user") /\ Finish("crash")
    \/ /\ cur # 0 /\ HasSome(cur)
       /\ pc' = [pc EXCEPT !["main"] = "read"] /\ on' = [on EXCEPT !["main"] = cur]
       /\ UNCHANGED <<ready, running, wait, progVars>>
    \/ /\ cur # 0 /\ ~HasSome(cur)
       /\ WaitFor("main", "read", "data", cur) /\ UNCHANGED progVars

Fill ==
    /\ Main("loop")
    /\ IF Len(buf) >= need
       THEN Parse /\ UNCHANGED <<connVars, progVars>>
       ELSE ReadMore /\ UNCHANGED <<connVars, dataVars>>

Chunk(c) == [k \in 1..(arrived[c] - taken[c]) |-> [conn |-> c, n |-> taken[c] + k]]

(* Mutant: an empty read is taken for nothing yet.                         *)
EofIgnored == CloseThen("main", "loop") /\ UNCHANGED progVars

AtEof == CloseThen("main", "raised") /\ UNCHANGED progVars

(* The read returns: to a buffer that may have been reset meanwhile.       *)
Read ==
    /\ Main("read")
    /\ LET c == on["main"]
       IN  IF Chunk(c) = <<>> THEN AtEof
           ELSE /\ buf' = buf \o Chunk(c)
                /\ taken' = [taken EXCEPT ![c] = arrived[c]]
                /\ GoOn("main", "loop")
                /\ UNCHANGED <<cur, made, open, eof, lost, arrived, need, header,
                               frame, progVars>>

(* The handlers of SeedLinkError close once more.                          *)
Raised ==
    /\ Main("raised") /\ CloseThen("main", "caught") /\ UNCHANGED progVars

Caught ==
    /\ Main("caught")
    /\ \/ inside /\ reconnect /\ GoOn("main", "top") /\ UNCHANGED progVars
       \/ ~(inside /\ reconnect) /\ GoOn("main", "user") /\ Finish("error")
    /\ UNCHANGED <<connVars, dataVars>>

-----------------------------------------------------------------------------
(* connect() and negotiate(): open_connection(), and the replies as one.   *)
Connect ==
    /\ Main("connect")
    /\ WaitFor("main", "opening", "event", 0)
    /\ UNCHANGED <<connVars, dataVars, progVars>>

Refused ==
    /\ Main("opening") /\ cuts < MaxCuts /\ cuts' = cuts + 1
    /\ GoOn("main", "raised")
    /\ UNCHANGED <<connVars, dataVars, reconnect, inside, outcome, cancelled,
                   intruded, acts>>

Opened(c) == cur' = c /\ ResetBuffer

(* Nobody reads the earlier connections any more: their counts go.         *)
Open ==
    /\ Main("opening")
    /\ Opened(made + 1) /\ made' = made + 1 /\ open' = open \cup {made + 1}
    /\ arrived' = [c \in Conns |-> 0] /\ taken' = [c \in Conns |-> 0]
    /\ need' = 1 /\ header' = None
    /\ WaitFor("main", "reply", "data", made + 1)
    /\ UNCHANGED <<eof, lost, frame, progVars>>

(* The replies are read, or the connection was lost or closed meanwhile.   *)
Reply ==
    /\ Main("reply")
    /\ LET c == on["main"]
       IN  IF cur # c \/ Chunk(c) = <<>> THEN Raise
           ELSE /\ GoOn("main", "top") /\ inside' = TRUE
                /\ arrived' = [arrived EXCEPT ![c] = 0]
                /\ UNCHANGED <<cur, made, open, eof, lost, taken, dataVars,
                               reconnect, outcome, cancelled, intruded, acts, cuts>>

-----------------------------------------------------------------------------
(* The consumer's loop body goes on to the next packet, awaits something   *)
(* of its own, or leaves the loop: the generator is left to a finalizer.   *)
Consume ==
    /\ Main("yield")
    /\ \/ GoOn("main", "top") /\ frame' = NoFrame
       \/ WaitFor("main", "yield", "event", 0) /\ UNCHANGED frame
    /\ UNCHANGED <<connVars, buf, need, header, progVars>>

Act(kind) == kind \in Acts /\ acts < MaxActs /\ acts' = acts + 1

Break ==
    /\ Main("yield") /\ pc["finalizer"] = "idle" /\ ~InSeq("finalizer", ready)
    /\ wait["finalizer"] = "nothing"
    /\ pc' = [pc EXCEPT !["main"] = "user"] /\ ready' = Append(ready, "finalizer")
    /\ Finish("break") /\ frame' = NoFrame
    /\ UNCHANGED <<connVars, buf, need, header, running, wait, on>>

(* Bytes for main have come and main has not run yet.                      *)
MainHasBytes ==
    InSeq("main", ready) /\ pc["main"] = "read" /\ Chunk(on["main"]) # <<>>

Intrude == intruded' = (intruded \/ MainHasBytes)

Finalize ==
    /\ running = "finalizer" /\ pc["finalizer"] = "idle"
    /\ CloseThen("finalizer", "finish") /\ Intrude
    /\ UNCHANGED <<reconnect, inside, outcome, cancelled, acts, cuts>>

(* A task that is over, or has called close(), leaves the loop.            *)
Leave ==
    /\ running \in {"other", "finalizer"} /\ pc[running] = "finish"
    /\ pc' = [pc EXCEPT ![running] = "idle"] /\ on' = [on EXCEPT ![running] = 0]
    /\ running' = Nobody
    /\ UNCHANGED <<connVars, dataVars, progVars, ready, wait>>

(* After collect(): again, over a new connection first, or no more.  A     *)
(* collect() on a closed client negotiates, which raises.                  *)
Recollect ==
    /\ Main("user") /\ Act("recollect")
    /\ \/ cur # 0 /\ GoOn("main", "top") /\ inside' = TRUE /\ outcome' = "none"
       \/ cur = 0 /\ GoOn("main", "user") /\ outcome' = "error" /\ UNCHANGED inside
    /\ UNCHANGED <<connVars, dataVars, reconnect, cancelled, intruded, cuts>>

Reopen ==
    /\ Main("user") /\ Act("reopen")
    /\ CloseThen("main", "connect") /\ outcome' = "none"
    /\ UNCHANGED <<reconnect, inside, cancelled, intruded, cuts>>

Stop ==
    /\ Main("user")
    /\ pc' = [pc EXCEPT !["main"] = "done"] /\ running' = Nobody
    /\ UNCHANGED <<connVars, dataVars, progVars, ready, wait, on>>

-----------------------------------------------------------------------------
(* The other task.                                                         *)
Due ==
    /\ running = Nobody
    /\ pc["other"] = "idle" /\ ~InSeq("other", ready) /\ acts < MaxActs
    /\ Acts \cap {"close", "cancel"} # {} /\ pc["main"] # "done"
    /\ ready' = Append(ready, "other")
    /\ UNCHANGED <<connVars, dataVars, progVars, running, pc, wait, on>>

OtherCloses ==
    /\ running = "other" /\ pc["other"] = "idle" /\ Act("close")
    /\ CloseThen("other", "finish") /\ Intrude
    /\ UNCHANGED <<reconnect, inside, outcome, cancelled, cuts>>

(* main.cancel(), while main is at an await of collect() or connect().     *)
OtherCancels ==
    /\ running = "other" /\ pc["other"] = "idle" /\ Act("cancel")
    /\ pc["main"] \notin {"yield", "user", "done"} /\ ~cancelled
    /\ cancelled' = TRUE
    /\ ready' = IF InSeq("main", ready) THEN ready ELSE Append(ready, "main")
    /\ wait' = [wait EXCEPT !["main"] = "nothing"]
    /\ pc' = [pc EXCEPT !["other"] = "finish"]
    /\ UNCHANGED <<connVars, dataVars, running, on, reconnect, inside, outcome,
                   intruded, cuts>>

OtherNothing ==
    /\ running = "other" /\ pc["other"] = "idle"
    /\ acts' = IF acts < MaxActs THEN acts + 1 ELSE acts
    /\ GoOn("other", "finish")
    /\ UNCHANGED <<connVars, dataVars, reconnect, inside, outcome, cancelled,
                   intruded, cuts>>

(* CancelledError, at whatever await main was: close() and out.            *)
Cancelled ==
    /\ running = "main" /\ cancelled
    /\ CloseThen("main", "user")
    /\ cancelled' = FALSE /\ outcome' = "cancelled" /\ inside' = FALSE
    /\ UNCHANGED <<reconnect, intruded, acts, cuts>>

-----------------------------------------------------------------------------
MainStep == \/ Top \/ Ensure \/ Fill \/ Read \/ Raised \/ Caught
            \/ Connect \/ Open \/ Reply \/ Consume \/ Cancelled

(* main is done, or the server has nothing more to send.                   *)
Terminated ==
    /\ \/ pc["main"] = "done"
       \/ wait["main"] = "data" /\ arrived[on["main"]] = MaxBytes
    /\ UNCHANGED vars

Next == \/ Run \/ MainStep \/ Refused \/ Break \/ Recollect \/ Reopen \/ Stop
        \/ Finalize \/ Leave \/ OtherCloses \/ OtherCancels \/ OtherNothing
        \/ Arrive \/ Cut \/ Lost \/ Happens \/ PollTimeout \/ Due
        \/ Terminated

(* The loop runs its tasks, transports that were closed go, sleeps end and *)
(* servers answer; neither acts nor cuts are owed.                         *)
Fairness ==
    /\ WF_vars(Run) /\ WF_vars(MainStep) /\ WF_vars(Finalize \/ Leave)
    /\ WF_vars(OtherNothing) /\ WF_vars(Lost) /\ WF_vars(Happens)
    /\ WF_vars(Arrive)

Spec == Init /\ [][Next]_vars /\ Fairness

-----------------------------------------------------------------------------
(* Between two steps the client holds the one transport that is open, or   *)
(* none: no await, cancellation or close from another task leaks a         *)
(* connection or leaves is_connected true of a closed one (aio.py: "leaves *)
(* the client in a consistent, reconnectable disconnected state").         *)
OneConnection == open = {cur} \ {0}

(* A frame is made of its header's bytes and those that followed them,     *)
(* though other tasks ran between the reads ...                            *)
FramesWhole ==
    frame.bytes # <<>> /\ ~intruded =>
        /\ (frame.header.n - 1) % FrameLen = 0
        /\ \A k \in 1..FrameLen :
              frame.bytes[k] = [frame.header EXCEPT !.n = @ + k - 1]

(* ... and nothing but SeedLinkError comes out of collect(); both unless   *)
(* close() was called between the arrival of bytes and main's next step.   *)
NoCrashUnintruded == ~intruded => outcome # "crash"

(* "transparently reconnect and resume on any error": collect() never ends *)
(* in an error nobody wrote a handler for.                                 *)
NoCrash == outcome # "crash"

(* A reconnecting collect() whose connection was closed, whoever did it,   *)
(* has one again, is ended, or waits for its consumer.                     *)
Reconnected ==
    (inside /\ reconnect /\ cur = 0 /\ pc["main"] # "yield")
        ~> (cur # 0 \/ ~inside \/ pc["main"] = "yield")
=============================================================================
