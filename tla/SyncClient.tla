----------------------------- MODULE SyncClient -----------------------------
(***************************************************************************)
(* SeedLinkClient, the blocking client of client.py.  A public method is a *)
(* sequence of steps, one per send, per read and per sleep: `call' is the  *)
(* method running and `pc' the step it is at.  collect() is a generator:   *)
(* at pc = "yield" the consumer's loop body runs.                          *)
(***************************************************************************)
EXTENDS Wire

CONSTANTS Configs,     \* the client configurations considered
          Calls,       \* the public methods the user calls
          MaxCalls,    \* bound: how many calls
          MaxPings     \* bound: keepalives sent and not yet answered

ASSUME ClientAssumption ==
    /\ Configs \subseteq Config
    /\ \A c \in Configs : c.multistation \/ NStreams = 1
    /\ Calls \subseteq {"connect", "negotiate", "reconnect", "ping", "info",
                        "collect", "bye", "close"}
    /\ MaxCalls \in Nat /\ MaxPings \in Nat

VARIABLES conf,          \* the configuration
          sock,          \* _sock is not None
          protocol,      \* protocol
          capable,       \* server_capabilities has CAP
          batch_active,  \* _batch_active
          streaming,     \* _streaming
          streams,       \* resume position of each stream
          call, pc,      \* the method running and its step
          cmd,           \* the last command sent that has a reply
          pos, walk,     \* negotiate(): position in the plan, NegotiationWalk
          outcome,       \* how the last call ended
          calls,         \* calls made
          delivered      \* delivered[st]: indices of the packets yielded

clientVars == <<conf, sock, protocol, capable, batch_active, streaming, streams,
                call, pc, cmd, pos, walk, outcome, calls, delivered>>

(* connection state, the control state, and what negotiate() keeps         *)
linkVars  == <<sock, streaming, batch_active>>
ctlVars   == <<call, pc, outcome, calls>>
planVars  == <<cmd, pos, walk>>
identVars == <<protocol, capable>>
dataVars  == <<streams, delivered>>

Methods  == {"none", "connect", "negotiate", "reconnect", "ping", "info",
             "start",      \* collect() up to its first negotiate()
             "collect"}    \* collect() from its loop on
Steps    == {"idle", "socket", "hello", "identity", "greet", "greeting", "plan",
             "walk", "reply", "ask", "frames", "loop", "yield", "delay"}
Outcomes == {"none", "ok", "end", "silent", "break", "closed", "error", "auth"}
Failed   == {"error", "auth"}

NoPosition == [seqnum |-> None, timestamp |-> None, pending |-> None]
Hello      == Generic("HELLO", "reply")

ClientTypeOK ==
    /\ conf \in Configs
    /\ sock \in BOOLEAN /\ streaming \in BOOLEAN /\ batch_active \in BOOLEAN
    /\ protocol \in {None, "V3", "V4"} /\ capable \in BOOLEAN
    /\ streams \in [StreamIds -> Position]
    /\ call \in Methods /\ pc \in Steps
    /\ cmd \in Command
    /\ pos \in PlanPos /\ walk \in Walk
    /\ outcome \in Outcomes
    /\ calls \in 0..MaxCalls
    /\ delivered \in [Stations -> Seq(Nat)]

ClientInit ==
    /\ conf \in Configs
    /\ sock = FALSE /\ streaming = FALSE /\ batch_active = FALSE
    /\ protocol = None /\ capable = FALSE
    /\ streams = [i \in StreamIds |-> NoPosition]
    /\ call = "none" /\ pc = "idle"
    /\ cmd = Hello /\ pos = [s |-> 1, k |-> 0] /\ walk = NewWalk
    /\ outcome = "none" /\ calls = 0
    /\ delivered = [st \in Stations |-> <<>>]

-----------------------------------------------------------------------------
(* close().                                                                *)
Disconnected == sock' = FALSE /\ streaming' = FALSE /\ batch_active' = FALSE /\ Shut

Goto(step) == pc' = step /\ UNCHANGED <<call, outcome, calls>>

(* The method returns to the user, or an exception reaches them.           *)
Return(how) == call' = "none" /\ pc' = "idle" /\ outcome' = how /\ UNCHANGED calls

Enter(method, step) ==
    /\ call = "none" /\ calls < MaxCalls
    /\ method = "start" \/ method \in Calls
    /\ conf.careful => ~(sock /\ outcome \in Failed)
    /\ call' = method /\ pc' = step /\ outcome' = "none" /\ calls' = calls + 1

(***************************************************************************)
(* Where an exception goes.  connect() and ping() close the connection     *)
(* first, and _reconnect_after_delay() retries all but SeedLinkAuthError.  *)
(* negotiate() and info() leave the connection as the failure left it:     *)
(* closed after an I/O error or a partial read, open after a rejection or  *)
(* a timeout with nothing read.  collect()'s loop closes, and goes on if   *)
(* reconnect is set.                                                       *)
(***************************************************************************)
ConnectRaises(how) ==
    /\ Disconnected
    /\ IF call = "collect" /\ how # "auth" THEN Goto("delay") ELSE Return(how)

(* Mutant: a failed negotiate() is not retried.                            *)
NegotiateRaisesAlways(open, rest) ==
    /\ Return("error")
    /\ IF open THEN s2c' = rest /\ UNCHANGED <<linkVars, up, c2s>>
       ELSE Disconnected

NegotiateRaises(open, rest) ==
    IF call = "collect"
    THEN Disconnected /\ Goto("delay")
    ELSE /\ Return("error")
         /\ IF open THEN s2c' = rest /\ UNCHANGED <<linkVars, up, c2s>>
            ELSE Disconnected

(* Mutant: the loop goes on whatever reconnect says.                       *)
LoopRaisesNever == Disconnected /\ Goto("loop")

LoopRaises ==
    /\ Disconnected
    /\ IF conf.reconnect THEN Goto("loop") ELSE Return("error")

(* A read that ends with the connection closed, by the step it is made at. *)
ReadFails ==
    /\ \/ pc \in {"identity", "greeting"} /\ ConnectRaises("error")
       \/ pc = "reply" /\ NegotiateRaises(FALSE, <<>>)
       \/ pc = "frames" /\ Disconnected /\ Return("error")
       \/ pc = "loop" /\ LoopRaises
    /\ UNCHANGED <<conf, identVars, planVars, dataVars>>

Reading == sock /\ pc \in {"identity", "greeting", "reply", "frames", "loop"}

-----------------------------------------------------------------------------
(* Calls.  connect() and ping() need a closed client, the others an open   *)
(* one; reconnect() closes first.                                          *)
CallConnect ==
    /\ ~sock
    /\ \E m \in {"connect", "ping"} : Enter(m, "socket")
    /\ UNCHANGED <<conf, linkVars, identVars, planVars, dataVars, wireVars>>

CallReconnect ==
    /\ Enter("reconnect", "socket")
    /\ Disconnected
    /\ UNCHANGED <<conf, identVars, planVars, dataVars, faults>>

CallNegotiate ==
    /\ sock
    /\ conf.careful => ~streaming
    /\ Enter("negotiate", "plan")
    /\ UNCHANGED <<conf, linkVars, identVars, planVars, dataVars, wireVars>>

CallInfo ==
    /\ sock /\ ~streaming
    /\ Enter("info", "ask")
    /\ UNCHANGED <<conf, linkVars, identVars, planVars, dataVars, wireVars>>

CallCollect ==
    /\ "collect" \in Calls /\ sock
    /\ IF streaming THEN Enter("collect", "loop") ELSE Enter("start", "plan")
    /\ UNCHANGED <<conf, linkVars, identVars, planVars, dataVars, wireVars>>

(* close() and bye(), between calls or inside the consumer's loop body.    *)
Close ==
    /\ "close" \in Calls /\ sock
    /\ call = "none" \/ pc = "yield"
    /\ Disconnected
    /\ outcome' = "closed"
    /\ UNCHANGED <<conf, identVars, planVars, dataVars, call, pc, calls, faults>>

Bye ==
    /\ "bye" \in Calls /\ sock /\ calls < MaxCalls
    /\ call = "none" \/ pc = "yield"
    /\ conf.careful => ~(call = "none" /\ outcome \in Failed)
    /\ calls' = calls + 1
    /\ \/ Send(Generic("BYE", "none")) /\ UNCHANGED <<linkVars, outcome>>
       \/ ~up /\ Disconnected /\ outcome' = "closed"
    /\ UNCHANGED <<conf, identVars, planVars, dataVars, call, pc, faults>>

-----------------------------------------------------------------------------
(* _connect_socket(), _do_hello() and the handshake of connect().          *)
ConnectSocket ==
    /\ pc = "socket"
    /\ sock' = TRUE /\ Open /\ Goto("hello")
    /\ UNCHANGED <<conf, streaming, batch_active, identVars, planVars, dataVars,
                   faults>>

(* The failure is raised before connect() has anything to close.           *)
ConnectRefused ==
    /\ pc = "socket"
    /\ Fault("refuse")
    /\ ConnectRaises("error")
    /\ UNCHANGED <<conf, identVars, planVars, dataVars>>

SendHello ==
    /\ pc = "hello"
    /\ Send(Hello) /\ cmd' = Hello /\ Goto("identity")
    /\ UNCHANGED <<conf, linkVars, identVars, pos, walk, dataVars, faults>>

(* Mutant: a refused choice of version is kept.                            *)
IdentifiedUnchecked(chosen) == chosen

(* select_protocol() raises before `protocol' is assigned.                 *)
Identified(chosen) == IF chosen = "" THEN protocol ELSE chosen

ReadIdentity ==
    /\ pc = "identity" /\ s2c # <<>> /\ Head(s2c).kind = "hello"
    /\ LET hello == Head(s2c)
           chosen == SelectProtocol(hello.majors, conf.requested)
       IN  /\ capable' = hello.cap
           /\ protocol' = Identified(chosen)
           /\ \/ chosen = "" /\ ConnectRaises("error")
              \/ chosen # "" /\ call = "ping" /\ Disconnected /\ Return("ok")
              \/ /\ chosen # "" /\ call # "ping"
                 /\ Take /\ Goto("greet") /\ UNCHANGED linkVars
    /\ UNCHANGED <<conf, planVars, dataVars, faults>>

NextGreeting == HandshakeAfter(cmd.name, protocol, conf, capable)

SendGreeting ==
    /\ pc = "greet" /\ NextGreeting # None
    /\ Send(NextGreeting) /\ cmd' = NextGreeting /\ Goto("greeting")
    /\ UNCHANGED <<conf, linkVars, identVars, pos, walk, dataVars, faults>>

(* parse_reply(): only a line that says OK is an acceptance.               *)
Accepted(item) == item.kind = "line" /\ item.ok

IsLine(item) == item.kind \in {"line", "hello"}

(* Mutant: sending BATCH is taken for its acceptance.                      *)
BatchReplyUnread(ok) == IF cmd.name = "BATCH" THEN TRUE ELSE batch_active

(* "self._batch_active = bool(resp)" after BATCH.                          *)
BatchReply(ok) == IF cmd.name = "BATCH" THEN ok ELSE batch_active

ReadGreeting ==
    /\ pc = "greeting" /\ s2c # <<>> /\ IsLine(Head(s2c))
    /\ LET ok == Accepted(Head(s2c))
       IN  IF ok \/ cmd.parse = "reply"
           THEN /\ Take /\ Goto("greet")
                /\ batch_active' = BatchReply(ok)
                /\ UNCHANGED <<sock, streaming>>
           ELSE ConnectRaises(IF cmd.parse = "auth" THEN "auth" ELSE "error")
    /\ UNCHANGED <<conf, identVars, planVars, dataVars, faults>>

Connected ==
    /\ pc = "greet" /\ NextGreeting = None
    /\ IF call = "connect" THEN Return("ok") ELSE Goto("plan")
    /\ UNCHANGED <<conf, linkVars, identVars, planVars, dataVars, wireVars>>

-----------------------------------------------------------------------------
(* negotiate().                                                            *)
StartPlan ==
    /\ pc = "plan"
    /\ streams' = Planned(protocol, conf, streams)
    /\ pos' = PlanStart(protocol, conf) /\ walk' = NewWalk
    /\ Goto("walk")
    /\ UNCHANGED <<conf, linkVars, identVars, cmd, delivered, wireVars>>

Done    == PlanDone(pos, protocol, conf)
Current == CmdAt(pos, protocol, conf, batch_active, streams)

Sendable == ~Done /\ WalkSends(walk, Current)

SkipCommand ==
    /\ pc = "walk" /\ ~Done /\ ~WalkSends(walk, Current)
    /\ pos' = PlanNext(pos)
    /\ UNCHANGED <<conf, linkVars, identVars, cmd, walk, ctlVars, dataVars, wireVars>>

SendCommand ==
    /\ pc = "walk" /\ Sendable
    /\ LET c == Current
           w == WalkEnter(walk, c)
       IN  /\ Send(c)
           /\ IF c.parse = "none"
              THEN /\ walk' = WalkRecord(w, c, FALSE) /\ pos' = PlanNext(pos)
                   /\ Goto("walk") /\ UNCHANGED cmd
              ELSE walk' = w /\ cmd' = c /\ Goto("reply") /\ UNCHANGED pos
    /\ UNCHANGED <<conf, linkVars, identVars, dataVars, faults>>

(* A frame that is read as a reply line is no OK either.                   *)
ReadReply ==
    /\ pc = "reply" /\ s2c # <<>>
    /\ LET ok == Accepted(Head(s2c))
       IN  IF ok \/ cmd.parse = "reply"
           THEN /\ Take /\ Goto("walk") /\ UNCHANGED linkVars
                /\ walk' = WalkRecord(walk, cmd, ~ok) /\ pos' = PlanNext(pos)
           ELSE NegotiateRaises(TRUE, Tail(s2c)) /\ UNCHANGED <<walk, pos>>
    /\ UNCHANGED <<conf, identVars, cmd, dataVars, faults>>

(* ... and may have no line end within MAX_LINE_LEN bytes.                 *)
ReadGarbled ==
    /\ pc = "reply" /\ s2c # <<>> /\ ~IsLine(Head(s2c))
    /\ ReadFails
    /\ UNCHANGED faults

FinishWalk ==
    /\ pc = "walk" /\ Done
    /\ IF WalkFails(walk) THEN NegotiateRaises(TRUE, s2c)
       ELSE /\ streaming' = TRUE
            /\ IF call \in {"start", "collect"}
               THEN call' = "collect" /\ pc' = "loop" /\ UNCHANGED <<outcome, calls>>
               ELSE Return("ok")
            /\ UNCHANGED <<sock, batch_active, wireVars>>
    /\ UNCHANGED <<conf, identVars, planVars, dataVars, faults>>

(* A send that fails: the peer is gone.                                    *)
SendFails ==
    /\ ~up
    /\ \/ pc = "hello" /\ ConnectRaises("error")
       \/ pc = "greet" /\ NextGreeting # None /\ ConnectRaises("error")
       \/ pc = "walk" /\ Sendable /\ NegotiateRaises(FALSE, <<>>)
       \/ pc = "ask" /\ Disconnected /\ Return("error")
    /\ UNCHANGED <<conf, identVars, planVars, dataVars, faults>>

(* End of file.                                                            *)
ReadEof == Reading /\ ~up /\ s2c = <<>> /\ ReadFails /\ UNCHANGED faults

(* The socket timeout strikes in the middle of a line or a frame.          *)
ReadStalls ==
    /\ Reading /\ up /\ s2c = <<>>
    /\ conf.timeout /\ Fault("stall")
    /\ ReadFails

(* ... or before any byte has come: _ensure() leaves the connection open.  *)
(* collect() only reads after a poll has found something.                  *)
ReadTimesOut ==
    /\ Reading /\ up /\ s2c = <<>> /\ pc # "loop"
    /\ conf.timeout /\ Fault("timeout")
    /\ \/ pc \in {"identity", "greeting"} /\ ConnectRaises("error")
       \/ pc = "reply" /\ NegotiateRaises(TRUE, s2c)
       \/ pc = "frames" /\ Return("error") /\ UNCHANGED <<linkVars, up, c2s, s2c>>
    /\ UNCHANGED <<conf, identVars, planVars, dataVars>>

-----------------------------------------------------------------------------
(* info().                                                                 *)
SendInfo ==
    /\ pc = "ask"
    /\ Send(Generic("INFO", "none")) /\ Goto("frames")
    /\ UNCHANGED <<conf, linkVars, identVars, planVars, dataVars, faults>>

(* Anything but an INFO frame ends the call, the connection stays open;    *)
(* bytes that open neither a frame nor an ERROR line are not even read.    *)
ReadInfo ==
    /\ pc = "frames" /\ s2c # <<>>
    /\ LET item == Head(s2c)
           odd  == item.kind \in {"junk", "hello"} \/ Accepted(item)
       IN  /\ IF item.kind = "info" /\ item.more THEN Goto("frames")
              ELSE Return(IF item.kind \in {"info", "jsonerror"} THEN "ok" ELSE "error")
           /\ IF odd THEN UNCHANGED <<up, c2s, s2c>> ELSE Take
    /\ UNCHANGED <<conf, linkVars, identVars, planVars, dataVars, faults>>

-----------------------------------------------------------------------------
(* collect(): the loop, after a successful negotiate().                    *)
Delay ==
    /\ pc = "delay" /\ Goto("socket")
    /\ UNCHANGED <<conf, linkVars, identVars, planVars, dataVars, wireVars>>

LoopDisconnected ==
    /\ pc = "loop" /\ ~sock
    /\ IF conf.reconnect THEN Goto("delay") ELSE Return("silent")
    /\ UNCHANGED <<conf, linkVars, identVars, planVars, dataVars, wireVars>>

(* Mutant: keepalive replies count as data.                                *)
IdleTimeoutKeptAlive ==
    /\ pc = "loop" /\ sock /\ ~conf.keepalive
    /\ LoopRaises
    /\ UNCHANGED <<conf, identVars, planVars, dataVars>>

(* No data for idle_timeout seconds; when that is, the environment says.   *)
IdleTimeout ==
    /\ pc = "loop" /\ sock
    /\ LoopRaises
    /\ UNCHANGED <<conf, identVars, planVars, dataVars>>

PollNothing ==
    /\ pc = "loop" /\ sock /\ up /\ s2c = <<>>
    /\ UNCHANGED <<clientVars, wireVars>>

Pings == Len(SelectSeq(c2s, LAMBDA c : c.name = "KEEPALIVE"))

(* A keepalive that cannot be sent closes the connection, and the loop     *)
(* goes on whatever reconnect says.                                        *)
Keepalive ==
    /\ pc = "loop" /\ sock /\ s2c = <<>>
    /\ conf.keepalive /\ Pings < MaxPings
    /\ \/ Send(Generic("KEEPALIVE", "none")) /\ UNCHANGED linkVars
       \/ ~up /\ Disconnected
    /\ UNCHANGED <<conf, identVars, planVars, dataVars, ctlVars, faults>>

(* _update_stream_state(), before the packet is yielded.                   *)
Advance(item) ==
    [i \in StreamIds |->
        IF item.station \in Covers[i]
        THEN [streams[i] EXCEPT !.seqnum = item.seqnum, !.pending = item.seqnum]
        ELSE streams[i]]

RecvData ==
    /\ pc = "loop" /\ sock /\ s2c # <<>> /\ Head(s2c).kind = "data"
    /\ Take
    /\ streams' = Advance(Head(s2c))
    /\ delivered' = [delivered EXCEPT ![Head(s2c).station] =
                                          Append(@, Head(s2c).index)]
    /\ Goto("yield")
    /\ UNCHANGED <<conf, linkVars, identVars, planVars, faults>>

RecvInfo ==
    /\ pc = "loop" /\ sock /\ s2c # <<>> /\ Head(s2c).kind = "info"
    /\ Take
    /\ UNCHANGED <<clientVars, faults>>

(* Mutant: the client still takes itself to be streaming.                  *)
RecvEndStreaming ==
    /\ pc = "loop" /\ sock /\ s2c # <<>> /\ Head(s2c).kind = "end"
    /\ Take
    /\ Return("end")
    /\ UNCHANGED <<conf, linkVars, identVars, planVars, dataVars, faults>>

(* The connection stays open after a dial-up END.                          *)
RecvEnd ==
    /\ pc = "loop" /\ sock /\ s2c # <<>> /\ Head(s2c).kind = "end"
    /\ Take
    /\ streaming' = FALSE
    /\ Return("end")
    /\ UNCHANGED <<conf, sock, batch_active, identVars, planVars, dataVars, faults>>

(* An ERROR line, a JSON ERROR packet, or data _recv_frame() cannot read.  *)
RecvTrouble ==
    /\ pc = "loop" /\ sock /\ s2c # <<>>
    /\ Head(s2c).kind \notin {"data", "info", "end"}
    /\ LoopRaises
    /\ UNCHANGED <<conf, identVars, planVars, dataVars, faults>>

(* The consumer asks for the next packet, or leaves the for loop and       *)
(* GeneratorExit closes the connection.                                    *)
Resume ==
    /\ pc = "yield" /\ Goto("loop")
    /\ UNCHANGED <<conf, linkVars, identVars, planVars, dataVars, wireVars>>

Break ==
    /\ pc = "yield"
    /\ Disconnected /\ Return("break")
    /\ UNCHANGED <<conf, identVars, planVars, dataVars, faults>>

-----------------------------------------------------------------------------
Call == CallConnect \/ CallReconnect \/ CallNegotiate \/ CallInfo \/ CallCollect

User == Call \/ Close \/ Bye \/ Break

ConnectStep == \/ SendHello \/ ReadIdentity \/ SendGreeting \/ ReadGreeting
               \/ Connected

NegotiateStep == \/ StartPlan \/ SkipCommand \/ SendCommand \/ ReadReply
                 \/ FinishWalk

CollectStep == \/ Delay \/ LoopDisconnected \/ RecvData \/ RecvInfo \/ RecvEnd
               \/ RecvTrouble

(* What a running method does by itself when nothing goes wrong ...        *)
Progress == \/ ConnectStep \/ NegotiateStep \/ CollectStep
            \/ SendInfo \/ ReadInfo \/ ReadEof

(* ... and what happens to it.                                             *)
Mishap == \/ SendFails \/ ReadStalls \/ ReadTimesOut \/ ReadGarbled
          \/ ConnectRefused
=============================================================================
