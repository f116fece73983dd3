-------------------------- MODULE AlignmentProofs ---------------------------
(***************************************************************************)
(* For every set of stations, streams, servers and faults, and a client    *)
(* that does not combine dial-up with a keepalive: a reply line is read by *)
(* the command it answers, a SELECT or DATA is applied to the station it   *)
(* was meant for, and a reconnect resumes where the stream was left.       *)
(*                                                                         *)
(* Core says what may be under way at each step of the client.  A careful  *)
(* user's client keeps it, and so does the asyncio client, whose failures  *)
(* close the connection.  The last part is about the packets: what is on   *)
(* its way of each stream goes on from the stream's position, and what the *)
(* server has yet to send goes on from there.                              *)
(***************************************************************************)
EXTENDS SessionProofs, AioSession, WellFoundedInduction

-----------------------------------------------------------------------------
(* Queues.                                                                 *)

(* What is a queue of some things is one of more.                          *)
LEMMA Wider ==
    ASSUME NEW S, NEW T, S \subseteq T, NEW q \in Seq(S)
    PROVE  q \in Seq(T)
  <1>1. q \in [1..Len(q) -> S] /\ Len(q) \in Nat
    BY LenProperties
  <1>2. q \in [1..Len(q) -> T]
    BY <1>1
  <1>3. QED
    BY <1>1, <1>2, SeqDef

(* A queue whose things are all in some set is a queue of that set.        *)
LEMMA AllIn ==
    ASSUME NEW S, NEW q \in Seq(S), NEW T, \A k \in 1..Len(q) : q[k] \in T
    PROVE  q \in Seq(T)
  <1>1. q \in [1..Len(q) -> S] /\ Len(q) \in Nat
    BY LenProperties
  <1>2. q \in [1..Len(q) -> T]
    BY <1>1
  <1>3. QED
    BY <1>1, <1>2, SeqDef

(* Nothing is under way exactly when the queue is of no length.            *)
LEMMA Empty ==
    ASSUME NEW S, NEW q \in Seq(S)
    PROVE  q = <<>> <=> Len(q) = 0
  <1>1. ASSUME q = <<>> PROVE Len(q) = 0
    BY <1>1, EmptySeq, Zenon
  <1>2. ASSUME q # <<>> PROVE Len(q) # 0
    BY <1>2, EmptySeq
  <1>3. QED
    BY <1>1, <1>2

(* What is left when the head is gone.                                     *)
LEMMA AfterHead ==
    ASSUME NEW S, NEW q \in Seq(S), q # <<>>
    PROVE  /\ Len(q) \in Nat \ {0} /\ Head(q) = q[1] /\ Head(q) \in S
           /\ Tail(q) \in Seq(S) /\ Len(Tail(q)) = Len(q) - 1
           /\ \A k \in 1..Len(Tail(q)) : k + 1 \in 1..Len(q) /\ Tail(q)[k] = q[k + 1]
           /\ Len(q) = 1 <=> Tail(q) = <<>>
  <1>1. /\ Len(q) \in Nat \ {0} /\ Head(q) = q[1] /\ Head(q) \in S
        /\ Tail(q) \in Seq(S) /\ Len(Tail(q)) = Len(q) - 1
        /\ \A k \in 1..Len(Tail(q)) : Tail(q)[k] = q[k + 1]
    BY HeadTailProperties, EmptySeq, LenProperties
  <1>2. \A k \in 1..Len(Tail(q)) : k + 1 \in 1..Len(q)
    BY <1>1
  <1>3. Len(q) = 1 <=> Tail(q) = <<>>
    <2>1. Tail(q) = <<>> <=> Len(Tail(q)) = 0
      BY <1>1, Empty
    <2>2. QED
      BY <1>1, <2>1
  <1>4. QED
    BY <1>1, <1>2, <1>3

(* What there is when something has joined.                                *)
LEMMA WithLast ==
    ASSUME NEW S, NEW q \in Seq(S), NEW x \in S
    PROVE  /\ Append(q, x) \in Seq(S) /\ Append(q, x) # <<>>
           /\ Len(Append(q, x)) = Len(q) + 1 /\ Len(q) \in Nat
           /\ Append(q, x)[Len(q) + 1] = x
           /\ \A k \in 1..Len(q) : Append(q, x)[k] = q[k]
           /\ Head(Append(q, x)) = IF q = <<>> THEN x ELSE Head(q)
  <1>1. /\ Append(q, x) \in Seq(S) /\ Append(q, x) # <<>>
        /\ Len(Append(q, x)) = Len(q) + 1 /\ Len(q) \in Nat
        /\ Append(q, x)[Len(q) + 1] = x
        /\ \A k \in 1..Len(q) : Append(q, x)[k] = q[k]
    BY AppendProperties, LenProperties
  <1>2. Head(Append(q, x)) = Append(q, x)[1]
    BY <1>1, AfterHead
  <1>3. CASE q = <<>>
    BY <1>1, <1>2, <1>3
  <1>4. CASE q # <<>>
    BY <1>1, <1>2, <1>4, AfterHead
  <1>5. QED
    BY <1>1, <1>3, <1>4

(* What a cut leaves of a queue begins as the queue did.                   *)
LEMMA Prefix ==
    ASSUME NEW S, NEW q \in Seq(S), NEW n \in 0..Len(q)
    PROVE  /\ SubSeq(q, 1, n) \in Seq(S) /\ Len(SubSeq(q, 1, n)) = n
           /\ \A k \in 1..n : k \in 1..Len(q) /\ SubSeq(q, 1, n)[k] = q[k]
           /\ SubSeq(q, 1, n) = <<>> <=> n = 0
  <1>1. n \in Nat /\ Len(q) \in Nat /\ n <= Len(q) /\ \A i \in 1..n : q[i] \in S
    BY LenProperties
  <1>2. /\ SubSeq(q, 1, n) \in Seq(S) /\ Len(SubSeq(q, 1, n)) = n
        /\ \A k \in 1..n : SubSeq(q, 1, n)[k] = q[k]
    BY <1>1, SubSeqProperties
  <1>3. \A k \in 1..n : k \in 1..Len(q)
    BY <1>1
  <1>4. SubSeq(q, 1, n) = <<>> <=> n = 0
    BY <1>2, Empty
  <1>5. QED
    BY <1>2, <1>3, <1>4

LEMMA FirstKept ==
    ASSUME NEW S, NEW q \in Seq(S), NEW n \in 0..Len(q), SubSeq(q, 1, n) # <<>>
    PROVE  q # <<>> /\ Head(SubSeq(q, 1, n)) = Head(q)
  <1>1. n \in Nat \ {0} /\ Len(q) \in Nat /\ n <= Len(q)
    BY Prefix, LenProperties
  <1>2. q # <<>>
    BY <1>1, Empty
  <1>3. SubSeq(q, 1, n) \in Seq(S) /\ SubSeq(q, 1, n)[1] = q[1]
    BY <1>1, Prefix
  <1>4. QED
    BY <1>2, <1>3, AfterHead

-----------------------------------------------------------------------------
(* What there is to send.                                                  *)

ByeCommand  == Generic("BYE", "none")
PingCommand == Generic("KEEPALIVE", "none")
InfoCommand == Generic("INFO", "none")

(* A command's role says how it is handled.                                *)
Named == {c \in Command :
    /\ c.role = "station" <=> c.name = "STATION"
    /\ c.role = "select"  <=> c.name = "SELECT"
    /\ c.role = "data"    <=> c.name \in {"DATA", "FETCH", "TIME"}
    /\ c.role = "end"     <=> c.name \in {"END", "ENDFETCH"}}

NamedInv == c2s \in Seq(Named)

(* So of the commands outside any stream,                                  *)
LEMMA GenericNamed ==
    ASSUME NEW n \in CommandNames \ {"STATION", "SELECT", "DATA", "FETCH", "TIME", "END",
                                     "ENDFETCH"},
           NEW p \in {"none", "reply", "ok", "auth"}
    PROVE  Generic(n, p) \in Named
  <1>1. Generic(n, p) \in Command
    BY GenericOK
  <1>2. Generic(n, p).name = n /\ Generic(n, p).role = "generic"
    BY DEF Generic
  <1>3. QED
    BY <1>1, <1>2 DEF Named

(* and of those of a plan, which says for each place in it what it is.     *)
LEMMA CurrentIs ==
    ASSUME TypeOK, pos.s \in StreamIds
    PROVE  /\ Current.stream = pos.s
           /\ pos.k = 0 => Current.role = "station" /\ Current.name = "STATION"
           /\ pos.k # 0 /\ pos.k <= NSel[pos.s] =>
                 Current.role = "select" /\ Current.name = "SELECT"
           /\ ~(pos.k <= NSel[pos.s]) =>
                 /\ Current.role = "data" /\ Current.name \in {"DATA", "FETCH", "TIME"}
                 /\ protocol = "V4" => Current.name = "DATA"
           /\ IF ~(pos.k <= NSel[pos.s]) /\ UniNow THEN Current.parse = "none"
              ELSE Current.parse = LineParse(protocol, batch_active)
  <1>1. pos.k \in Nat /\ NSel[pos.s] \in Nat
    BY CommandsAssumption DEF TypeOK, ClientTypeOK, PlanPos, StreamIds
  <1>2. CASE pos.k = 0
    BY <1>1, <1>2 DEF Current, CmdAt, ForStream
  <1>3. CASE pos.k # 0 /\ pos.k <= NSel[pos.s]
    BY <1>3 DEF Current, CmdAt, ForStream
  <1>4. CASE ~(pos.k <= NSel[pos.s])
    <2>1. Current = DataCommand(pos.s, protocol, conf, batch_active, streams[pos.s])
      BY <1>1, <1>4 DEF Current, CmdAt
    <2>2. CASE protocol = "V4"
      BY <1>1, <1>4, <2>1, <2>2 DEF DataCommand, ForStream, LineParse, UniNow, Uni
    <2>3. CASE protocol # "V4"
      BY <1>1, <1>4, <2>1, <2>3 DEF DataCommand, ForStream, DataV3Name, UniNow
    <2>4. QED
      BY <2>2, <2>3
  <1>5. QED
    BY <1>2, <1>3, <1>4

(* Past the streams there is END.                                          *)
LEMMA CurrentEnds ==
    ASSUME pos.s \notin StreamIds
    PROVE  /\ Current.role = "end" /\ Current.name \in {"END", "ENDFETCH"}
           /\ Current.parse = "none"
           /\ protocol # "V4" => Current.name = "END"
  BY DEF Current, CmdAt, EndCommand, ForStream

LEMMA CurrentNamed == TypeOK => Current \in Named
  <1> SUFFICES ASSUME TypeOK PROVE Current \in Named
    OBVIOUS
  <1>1. Current \in Command
    BY CmdAtOK, ClientAssumption DEF Current, TypeOK, ClientTypeOK
  <1>2. CASE pos.s \in StreamIds
    <2>1. \/ Current.role = "station" /\ Current.name = "STATION"
          \/ Current.role = "select" /\ Current.name = "SELECT"
          \/ Current.role = "data" /\ Current.name \in {"DATA", "FETCH", "TIME"}
      BY <1>2, CurrentIs
    <2>2. QED
      BY <1>1, <2>1 DEF Named
  <1>3. CASE pos.s \notin StreamIds
    BY <1>1, <1>3, CurrentEnds DEF Named
  <1>4. QED
    BY <1>2, <1>3

(* Nothing else is sent.                                                   *)
LEMMA SendsNamed == TypeOK => \A c : Sends(c) => c \in Named
  <1> SUFFICES ASSUME TypeOK, NEW c, Sends(c) PROVE c \in Named
    OBVIOUS
  <1>1. CASE pc = "greet" /\ NextGreeting # None /\ c = NextGreeting
    BY <1>1, GenericNamed DEF NextGreeting, HandshakeAfter, AfterV3, AfterV4, CommandNames
  <1>2. CASE c = Current
    BY <1>2, CurrentNamed
  <1>3. QED
    BY <1>1, <1>2, GenericNamed DEF Sends, Hello, CommandNames

LEMMA NamedStep == TypeOK /\ Inv /\ NamedInv /\ [Next]_vars => NamedInv'
  BY SendsNamed, QueueOK DEF NamedInv

-----------------------------------------------------------------------------
(* The handshake awaits replies, and gets them.                            *)

(* Batch mode is of v3.                                                    *)
BatchV3 ==
    /\ batch_active => protocol # "V4"
    /\ pc = "greeting" /\ cmd.name = "BATCH" => protocol # "V4"

(* The reply that is read in a handshake answers the command sent last.    *)
Greeted ==
    pc \in {"identity", "greeting"} =>
        /\ cmd.parse # "none"
        /\ up /\ c2s = <<>> => s2c # <<>>
        /\ s2c # <<>> => IF pc = "identity" THEN Head(s2c).kind = "hello"
                         ELSE \E ok \in BOOLEAN : Head(s2c) = Line(cmd.name, ok)

(* Only the handshake turns batch mode on,                                 *)
LEMMA BatchOutside ==
    ASSUME TypeOK, ClientStep \/ GoneQuiet \/ GoneLate, pc \notin Handshake
    PROVE  batch_active' => batch_active
  <1> USE DEF linkVars
  <1>1. ASSUME Disconnected PROVE ~batch_active'
    BY <1>1 DEF Disconnected
  <1>2. ASSUME NEW how, ConnectRaises(how) PROVE ~batch_active'
    BY <1>1, <1>2 DEF ConnectRaises
  <1>3. ASSUME NEW open, NEW rest, NegotiateRaises(open, rest)
        PROVE  batch_active' => batch_active
    BY <1>1, <1>3 DEF NegotiateRaises
  <1>4. ASSUME ReadFails PROVE batch_active' => batch_active
    BY <1>1, <1>2, <1>3, <1>4 DEF ReadFails, LoopRaises
  <1>5. CASE \/ Call \/ Close \/ Bye \/ Break \/ Resume \/ PollNothing \/ Keepalive
             \/ ConnectRefused
    BY <1>1, <1>2, <1>5 DEF Call, CallConnect, CallReconnect, CallNegotiate, CallInfo,
       CallCollect, Close, Bye, Break, Resume, PollNothing, Keepalive, ConnectRefused, clientVars
  <1>6. CASE StartPlan \/ SkipCommand \/ SendCommand \/ ReadReply \/ FinishWalk \/ SendInfo
             \/ ReadInfo
    BY <1>3, <1>6 DEF StartPlan, SkipCommand, SendCommand, ReadReply, FinishWalk, SendInfo,
       ReadInfo
  <1>7. CASE SendFails \/ ReadTimesOut \/ ReadEof \/ ReadStalls \/ ReadGarbled
    BY <1>1, <1>2, <1>3, <1>4, <1>7 DEF SendFails, ReadTimesOut, ReadEof, ReadStalls,
       ReadGarbled
  <1>8. CASE CollectStep \/ GoneQuiet \/ GoneLate
    BY <1>1, <1>8 DEF CollectStep, Delay, LoopDisconnected, RecvData, RecvInfo, RecvEnd,
       RecvTrouble, GoneQuiet, GoneLate, IdleTimeout, LoopRaises, clientVars
  <1>9. CASE ConnectStep
    BY <1>9 DEF ConnectStep, SendHello, ReadIdentity, SendGreeting, ReadGreeting, Connected,
       Handshake
  <1>10. QED
    BY <1>5, <1>6, <1>7, <1>8, <1>9
    DEF ClientStep, User, Progress, NegotiateStep, Mishap

(* and only a command sent there leads to a reply awaited there.           *)
LEMMA GreetSteps ==
    ASSUME TypeOK, Inv, ClientStep \/ GoneQuiet \/ GoneLate, pc' \in {"identity", "greeting"}
    PROVE  SendHello \/ SendGreeting
  <1>1. ASSUME NEW how, Return(how) PROVE FALSE
    BY <1>1 DEF Return
  <1>2. ASSUME NEW step, Goto(step), step \notin {"identity", "greeting"} PROVE FALSE
    BY <1>2 DEF Goto
  <1>3. ASSUME NEW open, NEW rest, NegotiateRaises(open, rest) PROVE FALSE
    BY <1>1, <1>2, <1>3 DEF NegotiateRaises
  <1>4. ASSUME NEW how, ConnectRaises(how) PROVE FALSE
    BY <1>1, <1>2, <1>4 DEF ConnectRaises
  <1>5. ASSUME LoopRaises PROVE FALSE
    BY <1>1, <1>2, <1>5 DEF LoopRaises
  <1>6. ~ReadFails
    BY <1>1, <1>3, <1>4, <1>5 DEF ReadFails
  <1>7. pc \notin {"idle", "yield", "loop"} \/ ~UNCHANGED pc
    OBVIOUS
  <1>8. ~(Call \/ Close \/ Bye \/ Break \/ Resume \/ PollNothing \/ Keepalive)
    <2>1. ~(CallConnect \/ CallReconnect \/ CallNegotiate \/ CallInfo \/ CallCollect)
      BY DEF CallConnect, CallReconnect, CallNegotiate, CallInfo, CallCollect, Enter
    <2>2. ~(Break \/ Resume \/ Keepalive)
      BY <1>1, <1>2, <1>7 DEF Break, Resume, Keepalive, ctlVars
    <2>3. ~(Close \/ Bye)
      BY DEF Close, Bye, Inv, CallInv
    <2>4. ~PollNothing
      BY <1>7 DEF PollNothing, clientVars
    <2>5. QED
      BY <2>1, <2>2, <2>3, <2>4 DEF Call
  <1>9. ~(ConnectRefused \/ ReadIdentity \/ ReadGreeting \/ Connected)
    BY <1>1, <1>2, <1>4 DEF ConnectRefused, ReadIdentity, ReadGreeting, Connected
  <1>10. ~(StartPlan \/ SkipCommand \/ SendCommand \/ ReadReply \/ FinishWalk \/ SendInfo
           \/ ReadInfo)
    BY <1>1, <1>2, <1>3 DEF StartPlan, SkipCommand, SendCommand, ReadReply, FinishWalk, SendInfo,
       ReadInfo, ctlVars
  <1>11. ~(SendFails \/ ReadTimesOut \/ ReadEof \/ ReadStalls \/ ReadGarbled)
    BY <1>1, <1>3, <1>4, <1>6 DEF SendFails, ReadTimesOut, ReadEof, ReadStalls, ReadGarbled
  <1>12. ~(CollectStep \/ GoneQuiet \/ GoneLate)
    BY <1>1, <1>2, <1>5 DEF CollectStep, Delay, LoopDisconnected, RecvData, RecvInfo, RecvEnd,
       RecvTrouble, GoneQuiet, GoneLate, IdleTimeout, clientVars
  <1>13. QED
    BY <1>8, <1>9, <1>10, <1>11, <1>12
    DEF ClientStep, User, Progress, ConnectStep, NegotiateStep, Mishap

(* So a client in batch mode speaks v3.                                    *)
LEMMA BatchV3Step == TypeOK /\ Inv /\ ProtoInv /\ BatchV3 /\ [Next]_vars => BatchV3'
  <1> SUFFICES ASSUME TypeOK, Inv, ProtoInv, BatchV3, [Next]_vars PROVE BatchV3'
    OBVIOUS
  <1>1. CASE ConnectSocket
    <2>1. pc' = "hello" /\ UNCHANGED <<batch_active, protocol>>
      BY <1>1 DEF ConnectSocket, Goto, identVars
    <2>2. QED
      BY <2>1 DEF BatchV3
  <1>2. CASE (ClientStep \/ GoneQuiet \/ GoneLate) /\ pc \in Handshake
    <2>0. UNCHANGED conf
      BY ConfStays
    <2>1. CASE Disconnected /\ pc' \notin Handshake
      BY <2>1 DEF Disconnected, BatchV3, Handshake
    <2>2. CASE SendHello
      BY <2>2 DEF SendHello, Goto, linkVars, identVars, BatchV3
    <2>3. CASE ReadIdentity
      <3>1. pc' # "greeting" /\ ~batch_active'
        <4>1. pc = "identity" /\ ~batch_active
          BY <2>3 DEF ReadIdentity, Inv, BatchInv
        <4>2. CASE Disconnected
          BY <2>3, <4>2 DEF ReadIdentity, ConnectRaises, Disconnected, Goto, Return
        <4>3. CASE Goto("greet") /\ UNCHANGED linkVars
          BY <4>1, <4>3 DEF Goto, linkVars
        <4>4. QED
          BY <2>3, <4>2, <4>3 DEF ReadIdentity, ConnectRaises
      <3>2. QED
        BY <3>1 DEF BatchV3
    <2>4. CASE SendGreeting
      <3>1. /\ UNCHANGED <<batch_active, protocol>> /\ cmd' = NextGreeting
        BY <2>4 DEF SendGreeting, linkVars, identVars
      <3>2. NextGreeting.name = "BATCH" => protocol # "V4"
        BY <2>4 DEF SendGreeting, NextGreeting, HandshakeAfter, AfterV4, Generic
      <3>3. QED
        BY <3>1, <3>2 DEF BatchV3
    <2>5. CASE ReadGreeting
      <3>1. CASE pc' = "greet"
        <4>1. /\ UNCHANGED protocol
              /\ batch_active' => batch_active \/ cmd.name = "BATCH" \/ ~batch_active'
          BY <2>5, <3>1 DEF ReadGreeting, identVars, BatchReply, ConnectRaises, Disconnected
        <4>2. pc = "greeting" /\ (batch_active' => batch_active \/ cmd.name = "BATCH")
          BY <2>5, <4>1 DEF ReadGreeting
        <4>3. QED
          BY <3>1, <4>1, <4>2 DEF BatchV3
      <3>2. CASE pc' # "greet"
        <4>1. Disconnected /\ pc' # "greeting"
          BY <2>5, <3>2 DEF ReadGreeting, ConnectRaises, Goto, Return
        <4>2. QED
          BY <4>1 DEF BatchV3, Disconnected
      <3>3. QED
        BY <3>1, <3>2
    <2>6. CASE Connected
      BY <2>6 DEF Connected, Goto, Return, linkVars, identVars, BatchV3
    <2>7. QED
      BY <1>2, <2>1, <2>2, <2>3, <2>4, <2>5, <2>6, Inside
  <1>3. CASE (ClientStep \/ GoneQuiet \/ GoneLate) /\ pc \notin Handshake
    <2>1. pc' \notin Handshake /\ UNCHANGED protocol
      BY <1>3, Outside DEF ProtoInv
    <2>2. batch_active' => batch_active
      BY <1>3, BatchOutside
    <2>3. QED
      BY <2>1, <2>2 DEF BatchV3, Handshake
  <1>4. CASE UNCHANGED clientVars
    BY <1>4 DEF clientVars, BatchV3
  <1>5. QED
    BY <1>1, <1>2, <1>3, <1>4 DEF Next, Terminated, vars

(* A handshake goes on command by command.                                 *)
LEMMA GreetedStep == TypeOK /\ Inv /\ Greeted /\ [Next]_vars => Greeted'
  <1> SUFFICES ASSUME TypeOK, Inv, Greeted, [Next]_vars, pc' \in {"identity", "greeting"}
               PROVE  Greeted'
    BY DEF Greeted
  <1>1. CASE ConnectSocket
    BY <1>1 DEF ConnectSocket, Goto
  <1>2. CASE ClientStep \/ GoneQuiet \/ GoneLate
    <2>1. SendHello \/ SendGreeting
      BY <1>2, GreetSteps
    <2>2. /\ pc \in {"hello", "greet"} /\ cmd'.parse # "none"
          /\ UNCHANGED s2c /\ Send(cmd') /\ UNCHANGED up
      <3>1. CASE SendHello
        BY <3>1 DEF SendHello, Hello, Generic, Send
      <3>2. CASE SendGreeting
        BY <3>2 DEF SendGreeting, NextGreeting, HandshakeAfter, AfterV3, AfterV4, Generic, Send
      <3>3. QED
        BY <2>1, <3>1, <3>2
    <2>3. c2s = <<>> /\ s2c' = <<>>
      BY <2>2 DEF Inv, Lockstep
    <2>4. up => c2s' # <<>>
      BY <2>2, <2>3, OneOK DEF Send
    <2>5. QED
      BY <2>2, <2>3, <2>4 DEF Greeted
  <1>3. CASE ServerNext /\ UNCHANGED clientVars
    <2>1. UNCHANGED <<pc, cmd>> /\ pc \in Handshake
      BY <1>3 DEF clientVars, Handshake
    <2>2. CASE UNCHANGED <<up, c2s, s2c>>
      BY <2>1, <2>2 DEF Greeted
    <2>3. CASE ~UNCHANGED <<up, c2s, s2c>>
      <3>1. up /\ c2s # <<>> /\ (ServeHello \/ ServeSetting)
        <4>1. srv.phase = "command"
          BY <2>1 DEF Inv, LinkInv
        <4>2. Serve
          BY <1>3, <2>3, <4>1 DEF ServerNext, SendEnd, SendTrouble, SendPacket, Publish, wireVars
        <4>3. up /\ c2s # <<>>
          BY <4>2 DEF Serve, ServeHello, ServeSetting, ServeStation, ServeSelect, ServeRequest,
             ServeEnd, ServeInfo, ServeBye, ServeUntimely, Handling
        <4>4. Head(c2s).name \in Settings \cup {"HELLO"}
          BY <2>1, <4>3, HeadInv
        <4>5. QED
          BY <4>1, <4>2, <4>3, <4>4 DEF Serve, ServeStation, ServeSelect, ServeRequest,
             ServeEnd, ServeInfo, ServeBye, ServeUntimely, Handling, Settings
      <3>2. /\ s2c = <<>> /\ Head(c2s) = cmd /\ cmd.role = "generic" /\ ~srv.batch
            /\ pc = "greeting" => cmd.name # "HELLO"
            /\ pc = "identity" => cmd.name = "HELLO"
        BY <2>1, <3>1, HeadInv
      <3>3. ASSUME NEW x, s2c' = Append(s2c, x) PROVE s2c' # <<>> /\ Head(s2c') = x
        BY <3>2, <3>3, OneOK
      <3>4. CASE ServeHello
        <4>1. s2c' = Append(s2c, Identity(peer.majors, peer.cap)) /\ cmd.name = "HELLO"
          BY <3>2, <3>4 DEF ServeHello, Handling
        <4>2. Identity(peer.majors, peer.cap).kind = "hello"
          BY DEF Identity
        <4>3. QED
          BY <1>3, <2>1, <3>2, <3>3, <4>1, <4>2 DEF Greeted
      <3>5. CASE ServeSetting
        <4>1. cmd.name # "HELLO" /\ (Answer(cmd, TRUE) \/ Answer(cmd, FALSE))
          BY <3>2, <3>5 DEF ServeSetting, Handling, Obey, Refuse
        <4>2. \E ok \in BOOLEAN : s2c' = Append(s2c, Line(cmd.name, ok))
          BY <3>2, <4>1 DEF Answer, Quiet
        <4>3. PICK ok \in BOOLEAN : s2c' = Append(s2c, Line(cmd.name, ok))
          BY <4>2
        <4>4. s2c' # <<>> /\ Head(s2c') = Line(cmd.name, ok) /\ pc = "greeting"
          BY <1>3, <2>1, <3>2, <3>3, <4>1, <4>3
        <4>5. QED
          BY <2>1, <4>4 DEF Greeted
      <3>6. QED
        BY <3>1, <3>4, <3>5
    <2>4. QED
      BY <2>2, <2>3
  <1>4. CASE Drop /\ UNCHANGED <<serverVars, clientVars>>
    <2>1. UNCHANGED <<pc, cmd>> /\ ~up'
      BY <1>4 DEF Drop, clientVars
    <2>2. PICK n \in 0..Len(s2c) : s2c' = SubSeq(s2c, 1, n)
      BY <1>4 DEF Drop
    <2>3. ASSUME s2c' # <<>> PROVE s2c # <<>> /\ Head(s2c') = Head(s2c)
      BY <2>2, <2>3, FirstKept DEF TypeOK, WireTypeOK
    <2>4. QED
      BY <2>1, <2>3 DEF Greeted
  <1>5. CASE UNCHANGED vars
    BY <1>5 DEF vars, wireVars, clientVars, Greeted
  <1>6. QED
    BY <1>1, <1>2, <1>3, <1>4, <1>5 DEF Next, Terminated

-----------------------------------------------------------------------------
(* A plan, place by place.                                                 *)

(* A station's commands follow its STATION; a plan that is through, of     *)
(* which no station was accepted, is one of v3 whose replies were read;    *)
(* and the reply awaited is that of the command at the plan's place.       *)
WalkInv ==
    /\ pc \in {"walk", "reply"} =>
        /\ UniNow => ~walk.seen
        /\ ~UniNow /\ (pos.s # 1 \/ pos.k # 0 \/ pc = "reply") => walk.seen
        /\ ~UniNow /\ pos.k # 0 => walk.accepted \/ walk.skip
    /\ pc = "walk" /\ walk.seen /\ (protocol = "V4" \/ batch_active) => walk.accepted
    /\ pc = "reply" =>
        /\ cmd = Current /\ cmd.parse # "none" /\ WalkSends(walk, cmd) /\ ~Done
        /\ walk.seen /\ protocol = "V4" /\ cmd.role # "station" => walk.accepted

(* The place after this one.                                               *)
LEMMA NextPlace ==
    ASSUME TypeOK, pos.s \in StreamIds
    PROVE  IF pos.k <= NSel[pos.s]
           THEN PlanNext(pos).s = pos.s /\ PlanNext(pos).k = pos.k + 1
           ELSE PlanNext(pos).s = pos.s + 1 /\ PlanNext(pos).k = 0
  BY DEF PlanNext, TypeOK, ClientTypeOK, PlanPos

(* A command without a reply is taken as accepted, and the plan goes on.   *)
LEMMA WalkOn ==
    ASSUME TypeOK, PlanInv, WalkInv, pc = "walk", Sendable, Current.parse = "none",
           UNCHANGED <<protocol, conf, batch_active>>, pc' = "walk",
           walk' = WalkRecord(WalkEnter(walk, Current), Current, FALSE),
           pos' = PlanNext(pos)
    PROVE  WalkInv'
  <1>0. /\ walk \in Walk /\ pos.s \in Nat \ {0} /\ pos.k \in Nat /\ NStreams \in Nat \ {0}
        /\ ~Done /\ UniNow' = UniNow
    BY CommandsAssumption DEF TypeOK, ClientTypeOK, PlanPos, Sendable, UniNow
  <1>1. CASE pos.s \in StreamIds /\ pos.k = 0
    <2>1. ~UniNow
      BY <1>0, <1>1, UniPlan DEF PlanInv
    <2>2. Current.role = "station"
      BY <1>1, CurrentIs
    <2>3. walk'.seen /\ walk'.accepted
      BY <1>0, <2>2 DEF WalkRecord, WalkEnter, Walk
    <2>4. QED
      BY <1>0, <2>1, <2>3 DEF WalkInv
  <1>2. CASE pos.s \in StreamIds /\ pos.k # 0
    <2>1. Current.role \in {"select", "data"}
      BY <1>2, CurrentIs
    <2>2. walk' = walk /\ ~walk.skip
      BY <2>1 DEF WalkRecord, WalkEnter, Sendable, WalkSends
    <2>3. QED
      BY <1>0, <1>2, <2>2 DEF WalkInv
  <1>3. CASE pos.s \notin StreamIds
    <2>1. Current.role = "end"
      BY <1>3, CurrentEnds
    <2>2. walk' = walk /\ pos'.k = 0
      BY <1>3, <2>1 DEF WalkRecord, WalkEnter, PlanNext
    <2>3. ~UniNow /\ pos.s # 1
      BY <1>0, <1>3, UniPlan DEF StreamIds
    <2>4. QED
      BY <1>0, <2>2, <2>3 DEF WalkInv
  <1>4. QED
    BY <1>1, <1>2, <1>3

(* One with a reply is awaited at its place.                               *)
LEMMA WalkAsks ==
    ASSUME TypeOK, PlanInv, WalkInv, pc = "walk", Sendable, Current.parse # "none",
           UNCHANGED <<protocol, conf, batch_active, streams, pos>>, pc' = "reply",
           walk' = WalkEnter(walk, Current), cmd' = Current
    PROVE  WalkInv'
  <1>0. /\ walk \in Walk /\ ~Done /\ ~Done' /\ UniNow' = UniNow
        /\ Current' = Current /\ pos.s \in StreamIds
    BY CurrentEnds DEF TypeOK, ClientTypeOK, Sendable, UniNow, Done, Current
  <1>1. CASE pos.k = 0
    <2>1. ~UniNow
      BY <1>0, <1>1, UniPlan DEF PlanInv
    <2>2. Current.role = "station"
      BY <1>0, <1>1, CurrentIs
    <2>3. walk'.seen
      BY <1>0, <2>2 DEF WalkEnter, Walk
    <2>4. WalkSends(walk', cmd')
      BY <2>2 DEF WalkSends
    <2>5. QED
      BY <1>0, <1>1, <2>1, <2>2, <2>3, <2>4 DEF WalkInv
  <1>2. CASE pos.k # 0
    <2>1. Current.role \in {"select", "data"}
      BY <1>0, <1>2, CurrentIs
    <2>2. walk' = walk /\ WalkSends(walk', cmd')
      BY <2>1 DEF WalkEnter, Sendable
    <2>3. QED
      BY <1>0, <1>2, <2>1, <2>2 DEF WalkInv
  <1>3. QED
    BY <1>1, <1>2

(* A reply that is read moves the plan on, to the next station if this one *)
(* was refused.                                                            *)
LEMMA WalkReplied ==
    ASSUME TypeOK, PlanInv, WalkInv, pc = "reply", NEW ok \in BOOLEAN, ok \/ cmd.parse = "reply",
           UNCHANGED <<protocol, conf, batch_active>>, pc' = "walk",
           walk' = WalkRecord(walk, cmd, ~ok), pos' = PlanNext(pos)
    PROVE  WalkInv'
  <1>0. /\ walk \in Walk /\ pos.s \in Nat \ {0} /\ pos.k \in Nat /\ NStreams \in Nat \ {0}
        /\ ~Done /\ UniNow' = UniNow /\ pos.s \in StreamIds /\ cmd = Current
    BY CommandsAssumption DEF TypeOK, ClientTypeOK, PlanPos, UniNow, PlanInv, WalkInv
  <1>1. CASE pos.k = 0
    <2>1. ~UniNow
      BY <1>0, <1>1, UniPlan DEF PlanInv
    <2>2. cmd.role = "station" /\ cmd.parse = LineParse(protocol, batch_active)
      BY <1>0, <1>1, <2>1, CurrentIs
    <2>3. WalkSends(walk, cmd) /\ cmd.parse # "none"
      BY DEF WalkInv
    <2>4. CASE ok
      <3>1. walk'.accepted /\ (walk.seen => walk'.seen)
        BY <1>0, <2>2, <2>4 DEF WalkRecord, Walk
      <3>2. walk'.seen
        BY <2>1, <3>1 DEF WalkInv
      <3>3. QED
        BY <1>0, <2>1, <3>1, <3>2 DEF WalkInv
    <2>5. CASE ~ok
      <3>1. protocol # "V4" /\ ~batch_active
        BY <2>2, <2>3, <2>5 DEF LineParse
      <3>2. walk'.skip /\ walk'.seen = walk.seen
        BY <1>0, <2>2, <2>5 DEF WalkRecord, Walk
      <3>3. walk'.seen
        BY <2>1, <3>2 DEF WalkInv
      <3>4. QED
        BY <1>0, <2>1, <3>1, <3>2, <3>3 DEF WalkInv
    <2>6. QED
      BY <2>4, <2>5
  <1>2. CASE pos.k # 0
    <2>1. cmd.role \in {"select", "data"}
      BY <1>0, <1>2, CurrentIs
    <2>2. walk' = walk
      BY <2>1 DEF WalkRecord
    <2>3. protocol = "V4" \/ ~batch_active
      <3>1. cmd.parse \in {"none", LineParse(protocol, batch_active)}
        BY <1>0, CurrentIs
      <3>2. QED
        BY <3>1 DEF LineParse, WalkInv
    <2>4. walk.seen /\ (protocol = "V4" \/ batch_active) => walk.accepted
      BY <2>1, <2>3 DEF WalkInv
    <2>5. ~UniNow => walk.seen /\ (walk.accepted \/ walk.skip)
      BY <1>2 DEF WalkInv
    <2>6. QED
      BY <1>0, <2>2, <2>4, <2>5 DEF WalkInv
  <1>3. QED
    BY <1>1, <1>2

(* Every step of a negotiate() keeps to its plan.                          *)
LEMMA WalkClient ==
    ASSUME TypeOK, Inv, ProtoInv, PlanInv, WalkInv, ClientStep \/ GoneQuiet \/ GoneLate,
           [Next]_vars
    PROVE  WalkInv'
  <1>0. UNCHANGED conf
    BY ConfStays
  <1>1. CASE pc' \notin {"walk", "reply"}
    BY <1>1 DEF WalkInv
  <1>2. CASE StartPlan
    <2>1. /\ pc' = "walk" /\ UNCHANGED <<protocol, batch_active>>
          /\ walk' = NewWalk /\ pos' = PlanStart(protocol, conf)
      BY <1>2 DEF StartPlan, Goto, identVars, linkVars
    <2>2. ~walk'.seen /\ pos'.s = 1 /\ (~UniNow => pos'.k = 0)
      BY <2>1 DEF NewWalk, PlanStart, UniNow
    <2>3. UniNow' = UniNow
      BY <1>0, <2>1 DEF UniNow
    <2>4. QED
      BY <2>1, <2>2, <2>3 DEF WalkInv
  <1>3. CASE SkipCommand
    <2>1. /\ pc = "walk" /\ UNCHANGED <<pc, protocol, batch_active, walk>>
          /\ pos' = PlanNext(pos) /\ ~Done /\ ~WalkSends(walk, Current)
      BY <1>3 DEF SkipCommand, identVars, linkVars, ctlVars
    <2>2. walk.skip /\ Current.role \in {"select", "data"} /\ UniNow' = UniNow
      BY <1>0, <2>1 DEF WalkSends, UniNow
    <2>3. pos.s \in StreamIds /\ pos.k # 0
      BY <2>2, CurrentIs, CurrentEnds
    <2>4. ~UniNow
      BY <2>1, <2>2 DEF PlanInv
    <2>5. walk.seen
      BY <2>1, <2>3, <2>4 DEF WalkInv
    <2>6. QED
      BY <2>1, <2>2, <2>4, <2>5 DEF WalkInv
  <1>4. CASE SendCommand
    <2>1. /\ pc = "walk" /\ Sendable
          /\ UNCHANGED <<protocol, conf, batch_active, streams>>
      BY <1>4 DEF SendCommand, identVars, linkVars, dataVars
    <2>2. CASE Current.parse = "none"
      <3>1. /\ pc' = "walk" /\ pos' = PlanNext(pos)
            /\ walk' = WalkRecord(WalkEnter(walk, Current), Current, FALSE)
        BY <1>4, <2>2 DEF SendCommand, Goto
      <3>2. QED
        BY <2>1, <2>2, <3>1, WalkOn
    <2>3. CASE Current.parse # "none"
      <3>1. /\ pc' = "reply" /\ UNCHANGED pos
            /\ walk' = WalkEnter(walk, Current) /\ cmd' = Current
        BY <1>4, <2>3 DEF SendCommand, Goto
      <3>2. QED
        BY <2>1, <2>3, <3>1, WalkAsks
    <2>4. QED
      BY <2>2, <2>3
  <1>5. CASE ReadReply /\ pc' = "walk"
    <2>1. PICK ok \in BOOLEAN : ok = Accepted(Head(s2c))
      BY DEF Accepted
    <2>2. /\ pc = "reply" /\ (ok \/ cmd.parse = "reply")
          /\ UNCHANGED <<protocol, conf, batch_active>>
          /\ walk' = WalkRecord(walk, cmd, ~ok) /\ pos' = PlanNext(pos)
      BY <1>5, <2>1 DEF ReadReply, NegotiateRaises, Goto, Return, identVars, linkVars
    <2>3. QED
      BY <1>5, <2>2, WalkReplied
  <1>6. CASE ReadReply /\ pc' # "walk"
    BY <1>1, <1>6 DEF ReadReply, NegotiateRaises, Goto, Return
  <1>7. QED
    BY <1>1, <1>2, <1>3, <1>4, <1>5, <1>6, PlanSteps

LEMMA WalkStep ==
    TypeOK /\ Inv /\ ProtoInv /\ PlanInv /\ WalkInv /\ [Next]_vars => WalkInv'
  <1> SUFFICES ASSUME TypeOK, Inv, ProtoInv, PlanInv, WalkInv, [Next]_vars PROVE WalkInv'
    OBVIOUS
  <1>1. CASE ConnectSocket
    BY <1>1 DEF ConnectSocket, Goto, WalkInv
  <1>2. CASE ClientStep \/ GoneQuiet \/ GoneLate
    BY <1>2, WalkClient
  <1>3. CASE UNCHANGED clientVars
    BY <1>3 DEF clientVars, WalkInv, UniNow, Current, Done
  <1>4. QED
    BY <1>1, <1>2, <1>3 DEF Next, Terminated, vars

-----------------------------------------------------------------------------
(* What the server does.                                                   *)

(* What no command that awaits a reply line is answered with.              *)
Heard   == {x \in Item : ~IsReply(x)}
Unended == {x \in Heard : x.kind # "end"}

LEMMA HeardItems ==
    /\ \A x \in Item : x.kind \in {"info", "data", "end", "jsonerror", "junk"} => x \in Heard
    /\ Line("", FALSE) \in Unended
    /\ \A n \in {"INFO", "KEEPALIVE"} : Line(n, FALSE) \in Unended
  <1>1. ASSUME NEW x \in Item, x.kind \in {"info", "data", "end", "jsonerror", "junk"}
        PROVE  x \in Heard
    <2>1. x.kind # "hello" /\ x.kind # "line"
      BY <1>1
    <2>2. ~IsReply(x)
      BY <2>1, Zenon DEF IsReply
    <2>3. QED
      BY <2>2 DEF Heard
  <1>2. ASSUME NEW n \in {"", "INFO", "KEEPALIVE"} PROVE Line(n, FALSE) \in Unended
    <2>1. Line(n, FALSE).kind = "line" /\ Line(n, FALSE).name = n
      BY DEF Line
    <2>2. Line(n, FALSE).kind # "hello" /\ Line(n, FALSE).kind # "end"
      BY <2>1
    <2>3. Line(n, FALSE) \in Item
      <3>1. n \in CommandNames \cup {""}
        BY Zenon DEF CommandNames
      <3>2. QED
        BY <3>1 DEF Line, Item
    <2>4. ~IsReply(Line(n, FALSE))
      BY <1>2, <2>1, <2>2, Zenon DEF IsReply
    <2>5. QED
      BY <2>2, <2>3, <2>4 DEF Heard, Unended
  <1>3. QED
    BY <1>1, <1>2, Zenon

(* A transfer under way: packets, or trouble.                              *)
Pours == /\ up /\ srv.phase = "stream" /\ UNCHANGED <<up, c2s, srv>>
         /\ \E x \in Unended : s2c' = Append(s2c, x)

Handles == /\ up /\ c2s # <<>> /\ c2s' = Tail(c2s) /\ UNCHANGED up
           /\ Head(c2s).name # "BYE"

(* A step of the server handles a command, or is one of few others.        *)
LEMMA ServerSteps ==
    ASSUME TypeOK, ServerNext
    PROVE  \/ UNCHANGED <<up, c2s, s2c, srv>>
           \/ Pours
           \/ SendEnd
           \/ Handles /\ Serve /\ ~ServeBye
           \/ up' = FALSE /\ c2s' = <<>> /\ UNCHANGED <<s2c, srv>> /\ c2s # <<>>
  <1>a. WireTypeOK /\ ServerTypeOK
    BY DEF TypeOK
  <1>1. CASE ServeBye
    BY <1>1 DEF ServeBye, serverVars
  <1>2. CASE Serve /\ ~ServeBye
    BY <1>2 DEF Serve, ServeHello, ServeSetting, ServeStation, ServeSelect, ServeRequest,
       ServeEnd, ServeInfo, ServeUntimely, Handling, Handles, CommandNames
  <1>3. CASE SendTrouble
    <2>1. {Mark("jsonerror"), Mark("junk")} \subseteq Unended
      <3>1. /\ Mark("jsonerror") \in Item /\ Mark("junk") \in Item
            /\ Mark("jsonerror").kind = "jsonerror" /\ Mark("junk").kind = "junk"
        BY DEF Mark, Item
      <3>2. QED
        BY <3>1, HeardItems DEF Unended
    <2>2. \E x \in {Line("", FALSE), Mark("jsonerror"), Mark("junk")} : s2c' = Append(s2c, x)
      BY <1>3, Zenon DEF SendTrouble
    <2>3. \E x \in Unended : s2c' = Append(s2c, x)
      BY <2>1, <2>2, HeardItems, Zenon
    <2>4. up /\ srv.phase = "stream" /\ UNCHANGED <<up, c2s, srv>>
      BY <1>3 DEF SendTrouble, serverVars
    <2>5. QED
      BY <2>3, <2>4 DEF Pours
  <1>4. ASSUME NEW st \in Stations, SendPacket(st) PROVE Pours
    <2>1. cursor[st] \in 1..Len(log[st])
      BY <1>4 DEF SendPacket, Waiting
    <2>2. log[st][cursor[st]] \in Nat
      BY <1>a, <2>1 DEF ServerTypeOK
    <2>3. /\ DataFrame(st, cursor[st], log[st][cursor[st]]) \in Item
          /\ DataFrame(st, cursor[st], log[st][cursor[st]]).kind = "data"
      BY <1>a, <2>2 DEF DataFrame, Item, ServerTypeOK
    <2>4. DataFrame(st, cursor[st], log[st][cursor[st]]) \in Unended
      BY <2>3, HeardItems DEF Unended
    <2>5. QED
      BY <1>4, <2>4 DEF SendPacket, Pours
  <1>5. ASSUME NEW st \in Stations, Publish(st) PROVE UNCHANGED <<up, c2s, s2c, srv>>
    BY <1>5 DEF Publish, wireVars
  <1>6. QED
    BY <1>1, <1>2, <1>3, <1>4, <1>5 DEF ServerNext

(* A command of a station, a SELECT or a request is answered, unless in     *)
(* batch mode, and starts nothing.                                         *)
LEMMA HandledInPlan ==
    ASSUME TypeOK, NamedInv, Handles, Serve, srv.phase = "command",
           Head(c2s).role \in {"station", "select", "data"}, Head(c2s).role = "data" => srv.multi
    PROVE  /\ srv'.phase = "command" /\ srv'.batch = srv.batch
           /\ srv'.multi <=> srv.multi \/ Head(c2s).role = "station"
           /\ srv'.dial => srv.dial \/ Head(c2s).name = "FETCH"
           /\ Head(c2s).role # "station" => srv'.cur = srv.cur
           /\ IF srv.batch THEN s2c' = s2c
              ELSE \E ok \in BOOLEAN :
                      /\ s2c' = Append(s2c, Line(Head(c2s).name, ok))
                      /\ Head(c2s).role = "station" /\ ok => srv'.cur = Head(c2s).stream
  <1>a. srv \in ServerState /\ c2s # <<>>
    BY DEF TypeOK, ServerTypeOK, Handles
  <1>b. PICK c : c = Head(c2s)
    OBVIOUS
  <1>c. c \in Named
    BY <1>a, <1>b, AfterHead DEF NamedInv
  <1>d. ASSUME NEW ok \in BOOLEAN, Answer(c, ok)
        PROVE  IF srv.batch THEN s2c' = s2c ELSE s2c' = Append(s2c, Line(c.name, ok))
    BY <1>b, <1>d DEF Answer, Quiet
  <1>1. CASE c.role = "station"
    <2>1. ServeStation
      BY <1>b, <1>c, <1>1 DEF Named, Serve, ServeHello, ServeSetting, ServeSelect, ServeRequest,
         ServeEnd, ServeInfo, ServeBye, ServeUntimely, Handling
    <2>2. CASE Obey(c) /\ srv' = [srv EXCEPT !.multi = TRUE, !.cur = c.stream]
      <3>1. /\ srv'.phase = srv.phase /\ srv'.batch = srv.batch /\ srv'.multi = TRUE
            /\ srv'.dial = srv.dial /\ srv'.cur = c.stream
        BY <1>a, <2>2 DEF ServerState
      <3>2. IF srv.batch THEN s2c' = s2c ELSE s2c' = Append(s2c, Line(c.name, TRUE))
        BY <1>d, <2>2 DEF Obey
      <3>3. QED
        BY <1>b, <1>1, <3>1, <3>2
    <2>3. CASE Refuse(c) /\ srv' = [srv EXCEPT !.multi = TRUE, !.cur = 0]
      <3>1. /\ srv'.phase = srv.phase /\ srv'.batch = srv.batch /\ srv'.multi = TRUE
            /\ srv'.dial = srv.dial
        BY <1>a, <2>3 DEF ServerState
      <3>2. IF srv.batch THEN s2c' = s2c ELSE s2c' = Append(s2c, Line(c.name, FALSE))
        BY <1>d, <2>3 DEF Refuse
      <3>3. QED
        BY <1>b, <1>1, <3>1, <3>2
    <2>4. QED
      BY <1>b, <2>1, <2>2, <2>3 DEF ServeStation
  <1>2. CASE c.role = "select"
    <2>1. ServeSelect
      BY <1>b, <1>c, <1>2 DEF Named, Serve, ServeHello, ServeSetting, ServeStation, ServeRequest,
         ServeEnd, ServeInfo, ServeBye, ServeUntimely, Handling
    <2>2. srv' = srv /\ \E ok \in BOOLEAN : Answer(c, ok)
      BY <1>b, <2>1 DEF ServeSelect, Obey, Refuse
    <2>3. QED
      BY <1>b, <1>d, <1>2, <2>2
  <1>3. CASE c.role = "data"
    <2>1. ServeRequest
      BY <1>b, <1>c, <1>3 DEF Named, Serve, ServeHello, ServeSetting, ServeStation, ServeSelect,
         ServeEnd, ServeInfo, ServeBye, ServeUntimely, Handling
    <2>2. PICK dial : dial = (srv.dial \/ c.name = "FETCH")
      OBVIOUS
    <2>3. /\ srv' = srv \/ srv' = [srv EXCEPT !.dial = dial]
          /\ \E ok \in BOOLEAN : Answer(c, ok)
      BY <1>b, <1>3, <2>1, <2>2 DEF ServeRequest, Obey, Refuse
    <2>4. /\ srv'.phase = srv.phase /\ srv'.batch = srv.batch /\ srv'.multi = srv.multi
          /\ srv'.cur = srv.cur /\ (srv'.dial = srv.dial \/ srv'.dial = dial)
      BY <1>a, <2>3 DEF ServerState
    <2>5. QED
      BY <1>b, <1>d, <1>3, <2>2, <2>3, <2>4
  <1>4. QED
    BY <1>b, <1>1, <1>2, <1>3

(* END, or the request of a uni-station plan, starts the transfer.         *)
LEMMA HandledStart ==
    ASSUME TypeOK, NamedInv, ProtoInv, UniInv, Handles, Serve, srv.phase = "command",
           pc \notin Handshake, Starts(Head(c2s))
    PROVE  /\ srv'.phase = "stream" /\ s2c' = s2c
           /\ Head(c2s).name = "END" => srv'.dial = srv.dial
  <1>a. srv \in ServerState /\ c2s # <<>> /\ up
    BY DEF TypeOK, ServerTypeOK, Handles
  <1>b. PICK c : c = Head(c2s)
    OBVIOUS
  <1>c. c \in Named
    BY <1>a, <1>b, AfterHead DEF NamedInv
  <1>1. CASE c.role = "end"
    <2>1. ServeEnd
      BY <1>b, <1>c, <1>1 DEF Named, Serve, ServeHello, ServeSetting, ServeStation, ServeSelect,
         ServeRequest, ServeInfo, ServeBye, ServeUntimely, Handling
    <2>2. PICK d : d = (srv.dial \/ c.name = "ENDFETCH")
      OBVIOUS
    <2>3. srv' = [srv EXCEPT !.phase = "stream", !.dial = d] /\ s2c' = s2c
      BY <1>b, <2>1, <2>2 DEF ServeEnd
    <2>4. srv'.phase = "stream" /\ srv'.dial = d /\ srv.dial \in BOOLEAN
      BY <1>a, <2>3 DEF ServerState
    <2>5. QED
      BY <1>b, <2>2, <2>3, <2>4
  <1>2. CASE c.role = "data" /\ protocol = "V3" /\ ~conf.multistation
    <2>1. ServeRequest
      BY <1>b, <1>c, <1>2 DEF Named, Serve, ServeHello, ServeSetting, ServeStation, ServeSelect,
         ServeEnd, ServeInfo, ServeBye, ServeUntimely, Handling
    <2>2. srv.proto = "V3" /\ ~srv.multi
      BY <1>a, <1>2 DEF ProtoInv, UniInv, UniNow, Uni
    <2>3. \E d : srv' = [srv EXCEPT !.phase = "stream", !.dial = d]
      BY <2>1, <2>2 DEF ServeRequest
    <2>4. s2c' = s2c
      BY <2>1, <2>2 DEF ServeRequest
    <2>5. srv'.phase = "stream" /\ c.name # "END"
      BY <1>a, <1>c, <1>2, <2>3 DEF ServerState, Named
    <2>6. QED
      BY <1>b, <2>4, <2>5
  <1>3. QED
    BY <1>b, <1>1, <1>2 DEF Starts

(* INFO is answered by frames, or refused by a line.                       *)
LEMMA HandledInfo ==
    ASSUME TypeOK, NamedInv, Handles, Serve, NEW name \in {"INFO", "KEEPALIVE"},
           Head(c2s).name = name
    PROVE  /\ srv' = srv
           /\ \/ s2c' = Append(s2c, Line(name, FALSE))
              \/ \E n \in Nat \ {0} : s2c' = s2c \o [j \in 1..n |-> InfoFrame(name, j < n)]
  <1>a. c2s # <<>>
    BY DEF Handles
  <1>b. PICK c : c = Head(c2s)
    OBVIOUS
  <1>c. c \in Named
    BY <1>a, <1>b, AfterHead DEF NamedInv
  <1>1. ServeInfo
    BY <1>b DEF Serve, ServeHello, ServeSetting, ServeStation, ServeSelect, ServeRequest,
       ServeEnd, ServeBye, ServeUntimely, Handling
  <1>2. srv' = srv
    BY <1>1 DEF ServeInfo
  <1>3. CASE Refuse(c)
    <2>1. ~Quiet(c)
      BY <1>b, <1>c DEF Quiet, Named
    <2>2. QED
      BY <1>b, <1>2, <1>3, <2>1 DEF Refuse, Answer
  <1>4. CASE ~Refuse(c)
    <2>1. PICK n \in 1..(IF srv.proto = "V3" THEN MaxInfo ELSE 1) :
             s2c' = s2c \o [j \in 1..n |-> InfoFrame(c.name, j < n)]
      BY <1>b, <1>1, <1>4 DEF ServeInfo
    <2>2. n \in Nat \ {0}
      BY <2>1, ServerAssumption
    <2>3. QED
      BY <1>b, <1>2, <2>1, <2>2
  <1>5. QED
    BY <1>3, <1>4

(* Its frames are no reply lines, and all but the last announce more.      *)
LEMMA FramesOK ==
    ASSUME NEW name \in {"INFO", "KEEPALIVE"}, NEW n \in Nat \ {0}, NEW r,
           r = [j \in 1..n |-> InfoFrame(name, j < n)]
    PROVE  /\ r \in Seq(Unended) /\ Len(r) = n /\ r # <<>>
           /\ \A k \in 1..n : r[k].kind = "info" /\ (r[k].more <=> k < n)
  <1>1. ASSUME NEW k \in 1..n
        PROVE  r[k] \in Unended /\ r[k].kind = "info" /\ (r[k].more <=> k < n)
    <2>0. (k < n) \in BOOLEAN
      OBVIOUS
    <2>1. PICK m \in BOOLEAN : m = (k < n)
      BY <2>0, Zenon
    <2>2. r[k] = InfoFrame(name, m)
      BY <2>1
    <2>3. name \in CommandNames
      BY DEF CommandNames
    <2>4. InfoFrame(name, m) \in Item /\ InfoFrame(name, m).kind = "info"
          /\ InfoFrame(name, m).more = m
      BY <2>3 DEF InfoFrame, Item
    <2>5. InfoFrame(name, m) \in Unended
      BY <2>4, HeardItems DEF Unended
    <2>6. QED
      BY <2>1, <2>2, <2>4, <2>5
  <1>2. r \in [1..n -> Unended]
    BY <1>1
  <1>3. r \in Seq(Unended) /\ Len(r) = n
    BY <1>2, SeqDef, LenProperties
  <1>4. r # <<>>
    BY <1>3, Empty
  <1>5. QED
    BY <1>1, <1>3, <1>4

-----------------------------------------------------------------------------
(* What is under way at each step of the client.                           *)

(* In batch mode the commands up to a stream's request are not answered.   *)
Silent(uni) == {c \in Named :
    c.parse = "none" /\ (c.role \in {"station", "select"} \/ (c.role = "data" /\ ~uni))}

InPlan(batch, uni) == {ByeCommand} \cup (IF batch THEN Silent(uni) ELSE {})

Between(keepalive) == {ByeCommand} \cup (IF keepalive THEN {PingCommand} ELSE {})

Cheap == {c \in Command : c.name # "FETCH"}

(* The server has a station to apply commands to, or is about to.          *)
Addressed == srv.multi \/ (c2s # <<>> /\ Head(c2s).name \in {"STATION", "BYE"})

(* In a negotiate(), before its last command: nothing that is answered.    *)
Walking ==
    /\ c2s \in Seq(InPlan(srv.batch, UniNow))
    /\ UniNow \/ Addressed \/ (c2s = <<>> /\ pos.s = 1 /\ pos.k = 0)
    /\ \/ walk.accepted /\ protocol # "V4"
       \/ UniNow
       \/ ~srv.dial /\ c2s \in Seq(Cheap)
    /\ UniNow => ~srv.dial

(* Outside any call: nothing but a BYE.                                    *)
Resting == c2s \in Seq({ByeCommand}) /\ ~srv.dial

Calm == /\ s2c = <<>>
        /\ up => /\ srv.phase = "command"
                 /\ pc = "walk" => Walking
                 /\ pc # "walk" => Resting

LastIs(q, c) == /\ q # <<>> /\ q[Len(q)] = c
                /\ \A k \in 1..Len(q) : k < Len(q) => q[k] = ByeCommand

(* A reply that negotiate() awaits.                                        *)
Awaited ==
    /\ up => /\ ~srv.batch /\ srv.phase = "command"
             /\ UniNow \/ Addressed
             /\ \/ walk.accepted /\ protocol # "V4"
                \/ UniNow
                \/ ~srv.dial /\ cmd.name # "FETCH"
             /\ UniNow => ~srv.dial
    /\ c2s # <<>> => s2c = <<>> /\ LastIs(c2s, cmd)
    /\ c2s = <<>> => \/ \E ok \in BOOLEAN : s2c = <<Line(cmd.name, ok)>>
                     \/ ~up /\ s2c = <<>>

(* The packets of an INFO, of which the last says so.                      *)
Infos == /\ \A k \in 1..Len(s2c) : s2c[k].kind = "info" /\ (k < Len(s2c) => s2c[k].more)
         /\ up => s2c # <<>> /\ ~s2c[Len(s2c)].more

Answered ==
    /\ up => ~srv.dial /\ srv.phase = "command"
    /\ c2s # <<>> => s2c = <<>> /\ LastIs(c2s, InfoCommand)
    /\ c2s = <<>> => s2c = <<Line("INFO", FALSE)>> \/ Infos

(* A transfer that is about to start, is under way, or is at its END.      *)
StartsAt(n, before, after) ==
    /\ Starts(c2s[n]) /\ c2s[n].parse = "none"
    /\ \A k \in 1..Len(c2s) : (k < n => c2s[k] \in before) /\ (n < k => c2s[k] \in after)

ToCome == /\ srv.phase = "command" /\ s2c = <<>>
          /\ UniNow \/ Addressed
          /\ \E n \in 1..Len(c2s) :
                StartsAt(n, InPlan(srv.batch, UniNow), Between(conf.keepalive))

Begun == /\ srv.phase = "stream"
         /\ c2s \in Seq(Between(conf.keepalive))
         /\ s2c \in Seq(Unended)

Over == /\ srv.phase = "command" /\ ~srv.dial
        /\ c2s \in Seq({ByeCommand})
        /\ s2c # <<>> /\ s2c[Len(s2c)].kind = "end"

EndIsLast == \A k \in 1..Len(s2c) : s2c[k].kind = "end" => k = Len(s2c)

Flows == /\ s2c \in Seq(Heard) /\ EndIsLast
         /\ up => ToCome \/ Begun \/ Over

(* A negotiate() whose stations were all rejected has sent END all the     *)
(* same: the server streams nothing, or does not yet.                      *)
Spent ==
    /\ s2c \in Seq(Heard)
    /\ srv.phase = "command" => s2c = <<>>
    /\ up /\ srv.phase = "stream" => ~srv.dial /\ c2s \in Seq({ByeCommand, InfoCommand})
    /\ up /\ srv.phase = "command" =>
          /\ ~srv.dial
          /\ \E n \in 1..Len(c2s) : /\ c2s[n].name = "END"
                                    /\ StartsAt(n, {ByeCommand}, {ByeCommand, InfoCommand})

(* A careful user closes a client whose call failed.                       *)
Given == conf.careful /\ pc = "idle" /\ outcome \in Failed

Idle == Calm \/ (~conf.careful /\ Spent)

Core ==
    /\ pc \in {"plan", "walk", "reply"} => ~streaming
    /\ sock /\ pc \in {"loop", "yield"} => streaming
    /\ pc \in Handshake => ~srv.dial
    /\ sock /\ streaming => Flows
    /\ sock /\ pc = "plan" => Calm
    /\ sock /\ pc = "walk" /\ ~Done => Calm
    /\ sock /\ pc = "walk" /\ Done /\ ~WalkFails(walk) => Flows
    /\ sock /\ pc = "walk" /\ Done /\ WalkFails(walk) => Spent
    /\ sock /\ pc = "reply" => Awaited
    /\ sock /\ pc = "frames" => Answered \/ (~conf.careful /\ Spent)
    /\ sock /\ ~streaming /\ pc \in {"idle", "ask"} /\ ~Given => Idle

(* Dial-up and a keepalive together are another matter: the reply to a      *)
(* keepalive may come after END, when nobody waits for it any more.        *)
Tame == ~(conf.dialup /\ conf.keepalive)

-----------------------------------------------------------------------------
(* The server's steps, by what is under way.                               *)

(* What a queue of one kind of thing, or of two, has at its head.          *)
LEMMA HeadOf ==
    ASSUME NEW S, c2s \in Seq(S), Handles
    PROVE  Head(c2s) \in S /\ Tail(c2s) \in Seq(S) /\ c2s' \in Seq(S)
           /\ Head(c2s).name # "BYE" /\ Head(c2s) # ByeCommand
  <1>1. c2s # <<>> /\ c2s' = Tail(c2s) /\ Head(c2s).name # "BYE"
    BY DEF Handles
  <1>2. ByeCommand.name = "BYE"
    BY DEF ByeCommand, Generic
  <1>3. QED
    BY <1>1, <1>2, AfterHead

(* A queue that ends in what is no BYE, and has but BYE before, is alone   *)
(* when it is handled.                                                     *)
LEMMA HandledLast ==
    ASSUME TypeOK, Handles, NEW c, LastIs(c2s, c)
    PROVE  Head(c2s) = c /\ c2s' = <<>>
  <1>1. /\ c2s \in Seq(Command) /\ c2s # <<>> /\ c2s' = Tail(c2s)
        /\ Head(c2s) # ByeCommand
    BY HeadOf DEF TypeOK, WireTypeOK, Handles
  <1>2. /\ Len(c2s) \in Nat \ {0} /\ Head(c2s) = c2s[1]
        /\ Len(c2s) = 1 <=> Tail(c2s) = <<>>
    BY <1>1, AfterHead
  <1>3. Len(c2s) = 1
    BY <1>1, <1>2 DEF LastIs
  <1>4. QED
    BY <1>1, <1>2, <1>3 DEF LastIs

LEMMA CalmServed ==
    ASSUME TypeOK, NamedInv, Calm, ServerNext, UNCHANGED clientVars
    PROVE  Calm'
  <1>0. /\ UNCHANGED <<pc, pos, walk, protocol, conf>> /\ UniNow' = UniNow
        /\ c2s \in Seq(Command)
    BY DEF clientVars, UniNow, TypeOK, WireTypeOK
  <1>1. CASE UNCHANGED <<up, c2s, s2c, srv>>
    BY <1>0, <1>1 DEF Calm, Walking, Resting, Addressed
  <1>2. ~Pours /\ ~SendEnd
    BY DEF Pours, SendEnd, Calm
  <1>3. CASE up' = FALSE /\ UNCHANGED s2c
    BY <1>3 DEF Calm
  <1>4. CASE Handles /\ Serve /\ pc # "walk"
    BY <1>4, HeadOf DEF Handles, Calm, Resting
  <1>5. CASE Handles /\ Serve /\ pc = "walk"
    <2>1. s2c = <<>> /\ up /\ srv.phase = "command" /\ Walking
      BY <1>5 DEF Calm, Handles
    <2>2. /\ Head(c2s) \in InPlan(srv.batch, UniNow) /\ Head(c2s) # ByeCommand
          /\ c2s' \in Seq(InPlan(srv.batch, UniNow)) /\ Head(c2s).name # "BYE"
      BY <1>5, <2>1, HeadOf DEF Walking
    <2>3. srv.batch /\ Head(c2s) \in Silent(UniNow)
      BY <2>2 DEF InPlan
    <2>4. PICK c : c = Head(c2s)
      OBVIOUS
    <2>5. /\ c \in Named /\ c.role \in {"station", "select", "data"}
          /\ c.role = "data" => ~UniNow
      BY <2>3, <2>4 DEF Silent
    <2>6. UniNow \/ srv.multi \/ c.role = "station"
      BY <1>5, <2>1, <2>2, <2>4, <2>5 DEF Walking, Addressed, Named, Handles
    <2>7. /\ srv'.phase = "command" /\ srv'.batch = srv.batch /\ s2c' = <<>>
          /\ srv'.multi <=> srv.multi \/ c.role = "station"
          /\ srv'.dial => srv.dial \/ c.name = "FETCH"
      BY <1>5, <2>1, <2>3, <2>4, <2>5, <2>6, HandledInPlan
    <2>8. UniNow \/ srv'.multi
      BY <2>6, <2>7
    <2>9. ASSUME ~srv.dial, c2s \in Seq(Cheap) PROVE ~srv'.dial /\ c2s' \in Seq(Cheap)
      <3>1. c \in Cheap /\ c2s' \in Seq(Cheap)
        BY <1>5, <2>4, <2>9, HeadOf
      <3>2. QED
        BY <2>7, <2>9, <3>1 DEF Cheap
    <2>10. UniNow => ~srv'.dial
      BY <2>1, <2>5, <2>7 DEF Walking, Named
    <2>11. Walking'
      BY <1>0, <2>1, <2>2, <2>7, <2>8, <2>9, <2>10 DEF Walking, Addressed
    <2>12. QED
      BY <1>0, <1>5, <2>7, <2>11 DEF Calm
  <1>6. QED
    BY <1>1, <1>2, <1>3, <1>4, <1>5, ServerSteps

(* A reply that is awaited answers the command sent last, and comes.       *)
LEMMA AwaitedServed ==
    ASSUME TypeOK, NamedInv, PlanInv, WalkInv, pc = "reply", Awaited, ServerNext,
           UNCHANGED clientVars
    PROVE  Awaited'
  <1>0. /\ UNCHANGED <<pc, cmd, walk, protocol, conf>> /\ UniNow' = UniNow
        /\ c2s \in Seq(Command) /\ s2c \in Seq(Item)
    BY DEF clientVars, UniNow, TypeOK, WireTypeOK
  <1>1. CASE UNCHANGED <<up, c2s, s2c, srv>>
    BY <1>0, <1>1 DEF Awaited, Addressed, LastIs
  <1>2. ~Pours /\ ~SendEnd
    BY DEF Pours, SendEnd, Awaited
  <1>3. CASE up' = FALSE /\ c2s' = <<>> /\ UNCHANGED s2c /\ c2s # <<>>
    BY <1>3 DEF Awaited
  <1>4. CASE Handles /\ Serve
    <2>1. /\ up /\ c2s # <<>> /\ srv.phase = "command" /\ s2c = <<>> /\ LastIs(c2s, cmd)
          /\ ~srv.batch /\ (UniNow \/ Addressed) /\ (UniNow => ~srv.dial)
      BY <1>4 DEF Awaited, Handles
    <2>2. Head(c2s) = cmd /\ c2s' = <<>> /\ cmd.name # "BYE"
      BY <1>4, <2>1, HandledLast DEF Handles
    <2>3. cmd \in Named
      BY <2>1, <2>2, AfterHead DEF NamedInv
    <2>4. cmd = Current /\ pos.s \in StreamIds /\ (UniNow => pos.k <= NSel[pos.s])
      BY DEF WalkInv, PlanInv
    <2>5. cmd.role \in {"station", "select", "data"} /\ (cmd.role = "data" => ~UniNow)
      BY <2>4, CurrentIs
    <2>6. UniNow \/ srv.multi \/ cmd.role = "station"
      BY <2>1, <2>2, <2>3 DEF Addressed, Named
    <2>7. /\ srv'.phase = "command" /\ srv'.batch = srv.batch
          /\ srv'.multi <=> srv.multi \/ cmd.role = "station"
          /\ srv'.dial => srv.dial \/ cmd.name = "FETCH"
          /\ \E ok \in BOOLEAN : s2c' = Append(s2c, Line(cmd.name, ok))
      BY <1>4, <2>1, <2>2, <2>5, <2>6, HandledInPlan
    <2>8. \E ok \in BOOLEAN : s2c' = <<Line(cmd.name, ok)>>
      BY <2>1, <2>7, OneOK
    <2>9. UniNow \/ srv'.multi
      BY <2>6, <2>7
    <2>10. UniNow => ~srv'.dial
      BY <2>1, <2>3, <2>5, <2>7 DEF Named
    <2>11. \/ walk.accepted /\ protocol # "V4"
           \/ UniNow
           \/ ~srv'.dial /\ cmd.name # "FETCH"
      BY <2>1, <2>7 DEF Awaited
    <2>12. QED
      BY <1>0, <2>1, <2>2, <2>7, <2>8, <2>9, <2>10, <2>11 DEF Awaited, Addressed
  <1>5. QED
    BY <1>1, <1>2, <1>3, <1>4, ServerSteps

(* So do the packets that info() waits for.                                *)
LEMMA AnsweredServed ==
    ASSUME TypeOK, NamedInv, Answered, ServerNext, UNCHANGED clientVars
    PROVE  Answered'
  <1>0. c2s \in Seq(Command) /\ s2c \in Seq(Item)
    BY DEF TypeOK, WireTypeOK
  <1>1. CASE UNCHANGED <<up, c2s, s2c, srv>>
    BY <1>1 DEF Answered, Infos, LastIs
  <1>2. ~Pours /\ ~SendEnd
    BY DEF Pours, SendEnd, Answered
  <1>3. CASE up' = FALSE /\ c2s' = <<>> /\ UNCHANGED s2c /\ c2s # <<>>
    <2>1. s2c' = <<>> /\ Len(s2c') = 0
      BY <1>0, <1>3, Empty DEF Answered
    <2>2. Infos'
      BY <1>3, <2>1 DEF Infos
    <2>3. QED
      BY <1>3, <2>2 DEF Answered
  <1>4. CASE Handles /\ Serve
    <2>1. /\ up /\ c2s # <<>> /\ srv.phase = "command" /\ s2c = <<>> /\ ~srv.dial
          /\ LastIs(c2s, InfoCommand)
      BY <1>4 DEF Answered, Handles
    <2>2. Head(c2s) = InfoCommand /\ c2s' = <<>> /\ Head(c2s).name = "INFO"
      BY <1>4, <2>1, HandledLast DEF InfoCommand, Generic
    <2>3. /\ srv' = srv
          /\ \/ s2c' = Append(s2c, Line("INFO", FALSE))
             \/ \E n \in Nat \ {0} : s2c' = s2c \o [j \in 1..n |-> InfoFrame("INFO", j < n)]
      BY <1>4, <2>2, HandledInfo
    <2>4. CASE s2c' = Append(s2c, Line("INFO", FALSE))
      BY <2>1, <2>2, <2>3, <2>4, OneOK DEF Answered
    <2>5. ASSUME NEW n \in Nat \ {0}, NEW r, r = [j \in 1..n |-> InfoFrame("INFO", j < n)],
                 s2c' = s2c \o r
          PROVE  Answered'
      <3>1. /\ r \in Seq(Unended) /\ Len(r) = n /\ r # <<>>
            /\ \A k \in 1..n : r[k].kind = "info" /\ (r[k].more <=> k < n)
        BY <2>5, FramesOK
      <3>2. s2c' = r
        BY <2>1, <2>5, <3>1, ConcatProperties
      <3>3. Infos'
        BY <3>1, <3>2 DEF Infos
      <3>4. QED
        BY <2>1, <2>2, <2>3, <3>3 DEF Answered
    <2>6. QED
      BY <2>3, <2>4, <2>5
  <1>5. QED
    BY <1>1, <1>2, <1>3, <1>4, ServerSteps

(* What joins a transfer that is no END, leaves END the last.              *)
LEMMA UnendedHeard ==
    /\ Unended \subseteq Heard /\ Unended \subseteq Item /\ Heard \subseteq Item
    /\ \A q : q \in Seq(Unended) =>
          q \in Seq(Heard) /\ \A k \in 1..Len(q) : q[k].kind # "end"
  <1>1. Unended \subseteq Heard /\ Unended \subseteq Item /\ Heard \subseteq Item
    BY DEF Unended, Heard
  <1>2. ASSUME NEW q \in Seq(Unended)
        PROVE  q \in Seq(Heard) /\ \A k \in 1..Len(q) : q[k].kind # "end"
    <2>1. q \in Seq(Heard)
      BY <1>1, <1>2, Wider
    <2>2. \A k \in 1..Len(q) : q[k] \in Unended
      BY <1>2
    <2>3. QED
      BY <2>1, <2>2 DEF Unended
  <1>3. QED
    BY <1>1, <1>2

(* A transfer that is to come begins with the command that starts it, and  *)
(* what comes before that command is handled in silence.                   *)
LEMMA ToComeServed ==
    ASSUME TypeOK, NamedInv, ProtoInv, UniInv, pc \notin Handshake, ToCome, Handles, Serve,
           UNCHANGED clientVars
    PROVE  ToCome' \/ Begun'
  <1>0. /\ UNCHANGED <<protocol, conf>> /\ UniNow' = UniNow
        /\ c2s \in Seq(Command) /\ c2s # <<>> /\ c2s' = Tail(c2s)
    BY DEF clientVars, UniNow, TypeOK, WireTypeOK, Handles
  <1>1. PICK n \in 1..Len(c2s) : StartsAt(n, InPlan(srv.batch, UniNow), Between(conf.keepalive))
    BY DEF ToCome
  <1>2. /\ Len(c2s) \in Nat \ {0} /\ Head(c2s) = c2s[1] /\ Head(c2s) \in Command
        /\ c2s' \in Seq(Command) /\ Len(c2s') = Len(c2s) - 1
        /\ \A k \in 1..Len(c2s') : k + 1 \in 1..Len(c2s) /\ c2s'[k] = c2s[k + 1]
    BY <1>0, AfterHead
  <1>3. CASE n = 1
    <2>1. Starts(Head(c2s))
      BY <1>1, <1>2, <1>3 DEF StartsAt
    <2>2. srv'.phase = "stream" /\ s2c' = s2c
      BY <2>1, HandledStart DEF ToCome
    <2>3. \A k \in 1..Len(c2s') : c2s'[k] \in Between(conf.keepalive)
      <3>1. ASSUME NEW k \in 1..Len(c2s') PROVE c2s'[k] \in Between(conf.keepalive)
        <4>1. k + 1 \in 1..Len(c2s) /\ c2s'[k] = c2s[k + 1] /\ 1 < k + 1
          BY <1>2
        <4>2. QED
          BY <1>1, <1>3, <4>1 DEF StartsAt
      <3>2. QED
        BY <3>1
    <2>4. c2s' \in Seq(Between(conf.keepalive))
      BY <1>2, <2>3, AllIn
    <2>5. s2c' \in Seq(Unended)
      BY <2>2 DEF ToCome
    <2>6. QED
      BY <1>0, <2>2, <2>4, <2>5 DEF Begun
  <1>4. CASE n # 1
    <2>1. 1 < n /\ n - 1 \in 1..Len(c2s')
      BY <1>2, <1>4
    <2>2. Head(c2s) \in InPlan(srv.batch, UniNow) /\ Head(c2s) # ByeCommand
      <3>1. c2s[1] \in InPlan(srv.batch, UniNow)
        BY <1>1, <1>2, <2>1 DEF StartsAt
      <3>2. QED
        BY <1>0, <1>2, <3>1, HeadOf
    <2>3. PICK c : c = Head(c2s)
      OBVIOUS
    <2>4. /\ srv.batch /\ c \in Named /\ c.role \in {"station", "select", "data"}
          /\ c.role = "data" => ~UniNow
      BY <2>2, <2>3 DEF InPlan, Silent
    <2>5. UniNow \/ srv.multi \/ c.role = "station"
      BY <1>0, <2>3, <2>4 DEF ToCome, Addressed, Named, Handles
    <2>6. /\ srv'.phase = "command" /\ srv'.batch = srv.batch /\ s2c' = <<>>
          /\ srv'.multi <=> srv.multi \/ c.role = "station"
      BY <2>3, <2>4, <2>5, HandledInPlan DEF ToCome
    <2>7. StartsAt(n - 1, InPlan(srv.batch, UniNow), Between(conf.keepalive))'
      <3>1. PICK c1, before, after :
               /\ c1 = c2s[n] /\ before = InPlan(srv.batch, UniNow)
               /\ after = Between(conf.keepalive)
        OBVIOUS
      <3>2. /\ c2s'[n - 1] = c1 /\ c1.parse = "none"
            /\ c1.role = "end" \/ (c1.role = "data" /\ protocol' = "V3" /\ ~conf'.multistation)
        BY <1>0, <1>1, <1>2, <2>1, <3>1 DEF StartsAt, Starts
      <3>3. ASSUME NEW k \in 1..Len(c2s')
            PROVE  (k < n - 1 => c2s'[k] \in before) /\ (n - 1 < k => c2s'[k] \in after)
        <4>1. k + 1 \in 1..Len(c2s) /\ c2s'[k] = c2s[k + 1]
          BY <1>2
        <4>2. (k < n - 1 => k + 1 < n) /\ (n - 1 < k => n < k + 1)
          BY <1>2
        <4>3. QED
          BY <1>1, <3>1, <4>1, <4>2 DEF StartsAt
      <3>4. InPlan(srv.batch, UniNow)' = before /\ Between(conf.keepalive)' = after
        BY <1>0, <2>6, <3>1
      <3>5. QED
        BY <3>2, <3>3, <3>4 DEF StartsAt, Starts
    <2>8. QED
      BY <1>0, <2>1, <2>5, <2>6, <2>7 DEF ToCome, Addressed
  <1>5. QED
    BY <1>3, <1>4

(* A transfer flows on.                                                    *)
LEMMA FlowsServed ==
    ASSUME TypeOK, NamedInv, ProtoInv, DialInv, UniInv, Tame, pc \notin Handshake, Flows,
           ServerNext, UNCHANGED clientVars
    PROVE  Flows'
  <1>0. /\ UNCHANGED <<protocol, conf>> /\ UniNow' = UniNow
        /\ c2s \in Seq(Command) /\ s2c \in Seq(Item) /\ s2c \in Seq(Heard) /\ EndIsLast
        /\ srv \in ServerState
    BY DEF clientVars, UniNow, TypeOK, WireTypeOK, ServerTypeOK, Flows
  <1>1. CASE UNCHANGED <<up, c2s, s2c, srv>>
    <2>1. EndIsLast'
      BY <1>0, <1>1 DEF EndIsLast
    <2>2. ToCome => ToCome'
      BY <1>0, <1>1 DEF ToCome, StartsAt, Starts, Addressed
    <2>3. (Begun => Begun') /\ (Over => Over')
      BY <1>0, <1>1 DEF Begun, Over
    <2>4. QED
      BY <1>0, <1>1, <2>1, <2>2, <2>3 DEF Flows
  <1>2. CASE up' = FALSE /\ UNCHANGED s2c
    BY <1>0, <1>2 DEF Flows, EndIsLast
  <1>3. CASE Pours
    <2>1. up /\ srv.phase = "stream" /\ UNCHANGED <<up, c2s, srv>> /\ Begun
      BY <1>3 DEF Pours, Flows, ToCome, Over
    <2>2. PICK x \in Unended : s2c' = Append(s2c, x)
      BY <1>3 DEF Pours
    <2>3. s2c' \in Seq(Unended)
      BY <2>1, <2>2, WithLast DEF Begun
    <2>4. Begun'
      BY <1>0, <2>1, <2>3 DEF Begun
    <2>5. QED
      <3>1. /\ s2c' \in Seq(Heard)
            /\ \A k \in 1..Len(s2c') : s2c'[k].kind # "end"
        BY <2>3, UnendedHeard
      <3>2. QED
        BY <2>4, <3>1 DEF Flows, EndIsLast
  <1>4. CASE SendEnd
    <2>1. /\ up /\ srv.phase = "stream" /\ srv.dial /\ UNCHANGED <<up, c2s>> /\ Begun
          /\ s2c' = Append(s2c, Mark("end"))
      BY <1>4 DEF SendEnd, Flows, ToCome, Over
    <2>2. srv'.phase = "command" /\ ~srv'.dial
      <3>1. srv' = [srv EXCEPT !.phase = "command", !.multi = FALSE, !.dial = FALSE, !.cur = 0]
        BY <1>4 DEF SendEnd
      <3>2. QED
        BY <1>0, <3>1 DEF ServerState
    <2>3. c2s' \in Seq({ByeCommand})
      <3>1. ~conf.keepalive
        BY <2>1 DEF DialInv, Tame
      <3>2. Between(conf.keepalive) = {ByeCommand}
        BY <3>1 DEF Between
      <3>3. QED
        BY <2>1, <3>2 DEF Begun
    <2>4. Mark("end") \in Heard /\ Mark("end").kind = "end"
      <3>1. Mark("end") \in Item /\ Mark("end").kind = "end"
        BY DEF Mark, Item
      <3>2. QED
        BY <3>1, HeardItems
    <2>5. /\ s2c' \in Seq(Heard) /\ s2c' # <<>> /\ Len(s2c') = Len(s2c) + 1 /\ Len(s2c) \in Nat
          /\ s2c'[Len(s2c) + 1] = Mark("end")
          /\ \A k \in 1..Len(s2c) : s2c'[k] = s2c[k]
      BY <1>0, <2>1, <2>4, WithLast
    <2>6. \A k \in 1..Len(s2c) : s2c[k].kind # "end"
      BY <2>1, UnendedHeard DEF Begun
    <2>7. EndIsLast'
      <3>1. ASSUME NEW k \in 1..Len(s2c'), s2c'[k].kind = "end" PROVE k = Len(s2c')
        BY <2>5, <2>6, <3>1
      <3>2. QED
        BY <3>1 DEF EndIsLast
    <2>8. Over'
      BY <2>2, <2>3, <2>4, <2>5 DEF Over
    <2>9. QED
      BY <2>5, <2>7, <2>8 DEF Flows
  <1>5. CASE Handles /\ Serve
    <2>0. up
      BY <1>5 DEF Handles
    <2>1. CASE ToCome
      <3>1. CASE ToCome'
        <4>1. s2c' = <<>> /\ Len(s2c') = 0
          BY <3>1, EmptySeq DEF ToCome
        <4>2. s2c' \in Seq(Heard)
          BY <4>1
        <4>3. QED
          BY <3>1, <4>1, <4>2 DEF Flows, EndIsLast
      <3>2. CASE Begun'
        <4>1. /\ s2c' \in Seq(Heard)
              /\ \A k \in 1..Len(s2c') : s2c'[k].kind # "end"
          BY <3>2, UnendedHeard DEF Begun
        <4>2. QED
          BY <3>2, <4>1 DEF Flows, EndIsLast
      <3>3. QED
        BY <1>5, <2>1, <3>1, <3>2, ToComeServed
    <2>2. CASE Begun
      <3>1. /\ Head(c2s) \in Between(conf.keepalive) /\ Head(c2s) # ByeCommand
            /\ c2s' \in Seq(Between(conf.keepalive))
        BY <1>5, <2>2, HeadOf DEF Begun
      <3>2. Head(c2s).name = "KEEPALIVE"
        BY <3>1 DEF Between, PingCommand, Generic
      <3>3. /\ srv' = srv
            /\ \/ s2c' = Append(s2c, Line("KEEPALIVE", FALSE))
               \/ \E n \in Nat \ {0} : s2c' = s2c \o [j \in 1..n |-> InfoFrame("KEEPALIVE", j < n)]
        BY <1>5, <3>2, HandledInfo
      <3>4. s2c' \in Seq(Unended)
        <4>1. CASE s2c' = Append(s2c, Line("KEEPALIVE", FALSE))
          <5>1. Line("KEEPALIVE", FALSE) \in Unended
            BY HeardItems
          <5>2. QED
            BY <2>2, <4>1, <5>1, WithLast DEF Begun
        <4>2. ASSUME NEW n \in Nat \ {0}, NEW r,
                     r = [j \in 1..n |-> InfoFrame("KEEPALIVE", j < n)], s2c' = s2c \o r
              PROVE  s2c' \in Seq(Unended)
          <5>1. r \in Seq(Unended)
            BY <4>2, FramesOK
          <5>2. QED
            BY <2>2, <4>2, <5>1, ConcatProperties DEF Begun
        <4>3. QED
          BY <3>3, <4>1, <4>2
      <3>5. Begun'
        BY <1>0, <2>2, <3>1, <3>3, <3>4 DEF Begun
      <3>6. /\ s2c' \in Seq(Heard)
            /\ \A k \in 1..Len(s2c') : s2c'[k].kind # "end"
        BY <3>4, UnendedHeard
      <3>7. QED
        BY <3>5, <3>6 DEF Flows, EndIsLast
    <2>3. CASE Over
      BY <1>5, <2>3, HeadOf DEF Over
    <2>4. QED
      BY <2>0, <2>1, <2>2, <2>3 DEF Flows
  <1>6. QED
    BY <1>1, <1>2, <1>3, <1>4, <1>5, ServerSteps

(* Nothing but a transfer follows a negotiate() that failed.               *)
LEMMA SpentServed ==
    ASSUME TypeOK, NamedInv, ProtoInv, UniInv, pc \notin Handshake, Spent, ServerNext,
           UNCHANGED clientVars
    PROVE  Spent'
  <1>0. /\ UNCHANGED <<protocol, conf>>
        /\ c2s \in Seq(Command) /\ s2c \in Seq(Item) /\ s2c \in Seq(Heard)
        /\ srv.phase \in {"command", "stream"}
    BY DEF clientVars, TypeOK, WireTypeOK, ServerTypeOK, ServerState, Spent
  <1>1. CASE UNCHANGED <<up, c2s, s2c, srv>>
    BY <1>0, <1>1 DEF Spent, StartsAt, Starts
  <1>2. CASE up' = FALSE /\ UNCHANGED <<s2c, srv>>
    BY <1>2 DEF Spent
  <1>3. CASE Pours
    <2>1. PICK x \in Unended : s2c' = Append(s2c, x)
      BY <1>3 DEF Pours
    <2>2. s2c' \in Seq(Heard)
      BY <1>0, <2>1, WithLast, UnendedHeard
    <2>3. QED
      BY <1>3, <2>2 DEF Pours, Spent
  <1>4. ~SendEnd
    BY DEF SendEnd, Spent
  <1>5. CASE Handles /\ Serve /\ srv.phase = "stream"
    <2>1. ~srv.dial /\ c2s \in Seq({ByeCommand, InfoCommand})
      BY <1>5 DEF Spent, Handles
    <2>2. /\ Head(c2s) \in {ByeCommand, InfoCommand} /\ Head(c2s) # ByeCommand
          /\ c2s' \in Seq({ByeCommand, InfoCommand})
      BY <1>5, <2>1, HeadOf
    <2>3. Head(c2s).name = "INFO"
      BY <2>2 DEF InfoCommand, Generic
    <2>4. /\ srv' = srv
          /\ \/ s2c' = Append(s2c, Line("INFO", FALSE))
             \/ \E n \in Nat \ {0} : s2c' = s2c \o [j \in 1..n |-> InfoFrame("INFO", j < n)]
      BY <1>5, <2>3, HandledInfo
    <2>5. s2c' \in Seq(Heard)
      <3>1. CASE s2c' = Append(s2c, Line("INFO", FALSE))
        <4>1. Line("INFO", FALSE) \in Heard
          BY HeardItems, UnendedHeard
        <4>2. QED
          BY <1>0, <3>1, <4>1, WithLast
      <3>2. ASSUME NEW n \in Nat \ {0}, NEW r,
                   r = [j \in 1..n |-> InfoFrame("INFO", j < n)], s2c' = s2c \o r
            PROVE  s2c' \in Seq(Heard)
        <4>1. r \in Seq(Heard)
          BY <3>2, FramesOK, UnendedHeard
        <4>2. QED
          BY <1>0, <3>2, <4>1, ConcatProperties
      <3>3. QED
        BY <2>4, <3>1, <3>2
    <2>6. QED
      BY <1>5, <2>1, <2>2, <2>4, <2>5 DEF Spent
  <1>6. CASE Handles /\ Serve /\ srv.phase = "command"
    <2>0. /\ up /\ c2s # <<>> /\ c2s' = Tail(c2s) /\ s2c = <<>> /\ ~srv.dial
      BY <1>6 DEF Handles, Spent
    <2>1. PICK n \in 1..Len(c2s) :
             c2s[n].name = "END" /\ StartsAt(n, {ByeCommand}, {ByeCommand, InfoCommand})
      BY <1>6, <2>0 DEF Spent
    <2>2. /\ Len(c2s) \in Nat \ {0} /\ Head(c2s) = c2s[1] /\ Head(c2s) # ByeCommand
          /\ c2s' \in Seq(Command)
          /\ \A k \in 1..Len(c2s') : k + 1 \in 1..Len(c2s) /\ c2s'[k] = c2s[k + 1]
      BY <1>0, <1>6, <2>0, AfterHead, HeadOf
    <2>3. n = 1
      BY <2>1, <2>2 DEF StartsAt
    <2>4. Starts(Head(c2s)) /\ Head(c2s).name = "END"
      BY <2>1, <2>2, <2>3 DEF StartsAt
    <2>5. srv'.phase = "stream" /\ s2c' = s2c /\ srv'.dial = srv.dial
      BY <1>6, <2>4, HandledStart
    <2>6. ASSUME NEW k \in 1..Len(c2s') PROVE c2s'[k] \in {ByeCommand, InfoCommand}
      <3>1. k + 1 \in 1..Len(c2s) /\ c2s'[k] = c2s[k + 1] /\ 1 < k + 1
        BY <2>2
      <3>2. QED
        BY <2>1, <2>3, <3>1 DEF StartsAt
    <2>7. c2s' \in Seq({ByeCommand, InfoCommand})
      BY <2>2, <2>6, AllIn
    <2>8. QED
      BY <1>0, <2>0, <2>5, <2>7 DEF Spent
  <1>7. QED
    BY <1>0, <1>1, <1>2, <1>3, <1>4, <1>5, <1>6, ServerSteps

(* What a cut leaves is the beginning of what was under way.               *)
LEMMA CutOff ==
    ASSUME TypeOK, Drop, UNCHANGED <<serverVars, clientVars>>
    PROVE  /\ Calm => Calm'
           /\ Awaited => Awaited'
           /\ Answered => Answered'
           /\ Flows => Flows'
           /\ Spent => Spent'
  <1>0. /\ up' = FALSE /\ c2s' = <<>> /\ UNCHANGED <<srv, cmd>> /\ s2c \in Seq(Item)
    BY DEF Drop, serverVars, clientVars, TypeOK, WireTypeOK
  <1>1. PICK n \in 0..Len(s2c) : s2c' = SubSeq(s2c, 1, n)
    BY DEF Drop
  <1>2. /\ s2c' \in Seq(Item) /\ Len(s2c') = n
        /\ \A k \in 1..n : k \in 1..Len(s2c) /\ s2c'[k] = s2c[k]
        /\ s2c' = <<>> <=> n = 0
        /\ n \in Nat /\ Len(s2c) \in Nat /\ n <= Len(s2c)
    BY <1>0, <1>1, Prefix, LenProperties
  <1>3. ASSUME s2c = <<>> PROVE s2c' = <<>>
    BY <1>0, <1>2, <1>3, Empty
  <1>4. ASSUME NEW x, s2c = <<x>> PROVE s2c' = <<x>> \/ s2c' = <<>>
    <2>1. Len(s2c) = 1 /\ s2c[1] = x
      BY <1>4, OneOK
    <2>2. CASE n = 1
      <3>1. Len(s2c') = 1 /\ s2c'[1] = x
        BY <1>2, <2>1, <2>2
      <3>2. s2c' = <<x>>
        BY <1>2, <3>1
      <3>3. QED
        BY <3>2
    <2>3. QED
      BY <1>2, <2>1, <2>2
  <1>5. ASSUME s2c \in Seq(Heard) PROVE s2c' \in Seq(Heard)
    <2>1. \A k \in 1..Len(s2c') : s2c'[k] \in Heard
      BY <1>2, <1>5
    <2>2. QED
      BY <1>2, <2>1, AllIn
  <1>6. Calm => Calm'
    BY <1>0, <1>3 DEF Calm
  <1>7. ASSUME Awaited PROVE Awaited'
    <2>1. CASE s2c = <<>>
      BY <1>0, <1>3, <2>1 DEF Awaited
    <2>2. CASE s2c # <<>>
      <3>1. PICK ok \in BOOLEAN : s2c = <<Line(cmd.name, ok)>>
        BY <1>7, <2>2 DEF Awaited
      <3>2. s2c' = <<Line(cmd.name, ok)>> \/ s2c' = <<>>
        BY <1>4, <3>1
      <3>3. QED
        BY <1>0, <3>2 DEF Awaited
    <2>3. QED
      BY <2>1, <2>2
  <1>8. ASSUME Infos \/ s2c = <<>> PROVE Infos'
    <2>1. ASSUME NEW k \in 1..Len(s2c')
          PROVE  s2c'[k].kind = "info" /\ (k < Len(s2c') => s2c'[k].more)
      <3>1. k \in 1..Len(s2c) /\ s2c'[k] = s2c[k] /\ s2c # <<>> /\ (k < Len(s2c') => k < Len(s2c))
        BY <1>2, <1>3, <2>1
      <3>2. s2c[k].kind = "info" /\ (k < Len(s2c) => s2c[k].more)
        BY <1>8, <3>1 DEF Infos
      <3>3. QED
        BY <3>1, <3>2
    <2>2. QED
      BY <1>0, <2>1 DEF Infos
  <1>9. ASSUME Answered PROVE Answered'
    <2>1. CASE s2c = <<>> \/ Infos
      BY <1>0, <1>8, <2>1 DEF Answered
    <2>2. CASE s2c = <<Line("INFO", FALSE)>>
      <3>1. s2c' = <<Line("INFO", FALSE)>> \/ s2c' = <<>>
        BY <1>4, <2>2
      <3>2. s2c' = <<>> => Infos'
        BY <1>0, <1>2 DEF Infos
      <3>3. QED
        BY <1>0, <3>1, <3>2 DEF Answered
    <2>3. QED
      BY <1>9, <2>1, <2>2 DEF Answered
  <1>10. ASSUME Flows PROVE Flows'
    <2>1. EndIsLast'
      <3>1. ASSUME NEW k \in 1..Len(s2c'), s2c'[k].kind = "end" PROVE k = Len(s2c')
        <4>1. k \in 1..Len(s2c) /\ s2c'[k] = s2c[k] /\ k <= Len(s2c')
          BY <1>2, <3>1
        <4>2. k = Len(s2c)
          BY <1>10, <3>1, <4>1 DEF Flows, EndIsLast
        <4>3. QED
          BY <1>2, <4>1, <4>2
      <3>2. QED
        BY <3>1 DEF EndIsLast
    <2>2. QED
      BY <1>0, <1>5, <1>10, <2>1 DEF Flows
  <1>11. Spent => Spent'
    BY <1>0, <1>3, <1>5 DEF Spent
  <1>12. QED
    BY <1>6, <1>7, <1>9, <1>10, <1>11

(* Nothing of it depends on the rest.                                      *)
LEMMA NothingNew ==
    ASSUME UNCHANGED <<up, c2s, s2c, srv, protocol, conf>>
    PROVE  /\ UNCHANGED <<pc, pos, walk>> /\ Calm => Calm'
           /\ "walk" \notin {pc, pc'} /\ Calm => Calm'
           /\ UNCHANGED <<walk, cmd>> /\ Awaited => Awaited'
           /\ Answered => Answered'
           /\ Flows => Flows'
           /\ Spent => Spent'
  <1>0. UniNow' = UniNow
    BY DEF UniNow
  <1>1. UNCHANGED <<pc, pos, walk>> /\ Calm => Calm'
    BY <1>0 DEF Calm, Walking, Resting, Addressed
  <1>2. "walk" \notin {pc, pc'} /\ Calm => Calm'
    BY DEF Calm, Resting
  <1>3. UNCHANGED <<walk, cmd>> /\ Awaited => Awaited'
    BY <1>0 DEF Awaited, Addressed, LastIs
  <1>4. Answered => Answered'
    BY DEF Answered, Infos, LastIs
  <1>5. Flows => Flows'
    <2>1. ToCome => ToCome'
      BY <1>0 DEF ToCome, StartsAt, Starts, Addressed
    <2>2. (Begun => Begun') /\ (Over => Over') /\ (EndIsLast => EndIsLast')
      BY DEF Begun, Over, EndIsLast
    <2>3. QED
      BY <2>1, <2>2 DEF Flows
  <1>6. Spent => Spent'
    BY DEF Spent, StartsAt, Starts
  <1>7. QED
    BY <1>1, <1>2, <1>3, <1>4, <1>5, <1>6

(* So the server and the network keep it.                                  *)
LEMMA CoreServed ==
    ASSUME TypeOK, Inv, LeaveInv, ProtoInv, DialInv, PlanInv, UniInv, NamedInv, WalkInv,
           StreamingInv, Tame, Core, UNCHANGED clientVars,
           ServerNext \/ (Drop /\ UNCHANGED serverVars)
    PROVE  Core'
  <1>0. /\ UNCHANGED <<pc, sock, streaming, pos, walk, conf, protocol, outcome>>
        /\ Done' = Done
    BY DEF clientVars, Done
  <1>1. Calm => Calm'
    BY CalmServed, CutOff
  <1>2. Answered => Answered'
    BY AnsweredServed, CutOff
  <1>3. pc = "reply" /\ Awaited => Awaited'
    BY AwaitedServed, CutOff
  <1>4. pc \notin Handshake /\ Flows => Flows'
    BY FlowsServed, CutOff
  <1>5. pc \notin Handshake /\ Spent => Spent'
    BY SpentServed, CutOff
  <1>6. pc \in Handshake => ~srv'.dial
    <2> SUFFICES ASSUME pc \in Handshake PROVE ~srv'.dial
      OBVIOUS
    <2>1. ~srv.dial /\ srv.phase = "command" /\ srv \in ServerState
      BY DEF Core, Inv, LinkInv, TypeOK, ServerTypeOK
    <2>2. CASE ~(ServerNext /\ Handles /\ Serve)
      <3>1. srv' = srv
        BY <2>1, <2>2, ServerSteps DEF Pours, SendEnd, serverVars
      <3>2. QED
        BY <2>1, <3>1
    <2>3. CASE Handles /\ Serve
      <3>1. Head(c2s).name \in Settings \cup {"HELLO"}
        BY <2>3, HeadInv DEF Handles
      <3>2. ServeHello \/ ServeSetting
        BY <2>1, <2>3, <3>1 DEF Serve, ServeStation, ServeSelect, ServeRequest, ServeEnd,
           ServeInfo, ServeBye, ServeUntimely, Handling, Settings
      <3>3. PICK p, b : \/ srv' = srv
                        \/ srv' = [srv EXCEPT !.proto = p, !.batch = b]
        BY <3>2 DEF ServeHello, ServeSetting
      <3>4. QED
        BY <2>1, <3>3 DEF ServerState
    <2>4. QED
      BY <2>2, <2>3
  <1>7. streaming => pc \notin Handshake
    BY DEF StreamingInv
  <1>8. Given' = Given
    BY <1>0 DEF Given
  <1>9. QED
    BY <1>0, <1>1, <1>2, <1>3, <1>4, <1>5, <1>6, <1>7, <1>8 DEF Core, Idle, Handshake

-----------------------------------------------------------------------------
(* The client's steps.                                                     *)

(* A connection that is closed has nothing under way.                      *)
LEMMA CoreCut ==
    ASSUME Disconnected, pc' \notin Handshake
    PROVE  Core'
  BY DEF Disconnected, Core

(* A BYE may join anything, a keepalive a transfer, an INFO what follows a *)
(* negotiate() that failed.                                                *)
LEMMA Sent ==
    ASSUME TypeOK, Inv, NEW c \in Command, Send(c), UNCHANGED <<srv, protocol, conf>>
    PROVE  /\ c = ByeCommand /\ "walk" \notin {pc, pc'} /\ Calm => Calm'
           /\ c \in Between(conf.keepalive) /\ (c = ByeCommand \/ s2c = <<>>) /\ Flows => Flows'
           /\ c \in {ByeCommand, InfoCommand} /\ Spent => Spent'
  <1>0. UniNow' = UniNow /\ UNCHANGED <<up, s2c>> /\ c2s \in Seq(Command)
    BY DEF UniNow, Send, TypeOK, WireTypeOK
  <1>1. CASE ~up
    <2>1. UNCHANGED <<up, c2s, s2c>>
      BY <1>1 DEF Send
    <2>2. QED
      BY <2>1, NothingNew
  <1>2. CASE up
    <2>1. /\ c2s' = Append(c2s, c) /\ c2s' \in Seq(Command) /\ Len(c2s') = Len(c2s) + 1
          /\ Len(c2s) \in Nat /\ c2s'[Len(c2s) + 1] = c /\ c2s' # <<>>
          /\ \A k \in 1..Len(c2s) : c2s'[k] = c2s[k]
          /\ c2s # <<>> => Head(c2s') = Head(c2s)
      BY <1>0, <1>2, WithLast DEF Send
    <2>2. ASSUME NEW S, c2s \in Seq(S), c \in S PROVE c2s' \in Seq(S)
      BY <2>1, <2>2, WithLast
    <2>3. ASSUME NEW n \in 1..Len(c2s), NEW before, NEW after, StartsAt(n, before, after),
                 c \in after
          PROVE  /\ n \in 1..Len(c2s') /\ c2s'[n] = c2s[n]
                 /\ \A k \in 1..Len(c2s') : (k < n => c2s'[k] \in before)
                                            /\ (n < k => c2s'[k] \in after)
      <3>1. n \in 1..Len(c2s') /\ c2s'[n] = c2s[n]
        BY <2>1
      <3>2. ASSUME NEW k \in 1..Len(c2s')
            PROVE  (k < n => c2s'[k] \in before) /\ (n < k => c2s'[k] \in after)
        BY <2>1, <2>3 DEF StartsAt
      <3>3. QED
        BY <3>1, <3>2
    <2>4. ASSUME NEW n \in 1..Len(c2s), Starts(c2s[n]), c2s[n].parse = "none",
                 c2s'[n] = c2s[n]
          PROVE  \E d : /\ d = c2s'[n] /\ d.parse = "none"
                        /\ \/ d.role = "end"
                           \/ d.role = "data" /\ protocol' = "V3" /\ ~conf'.multistation
      BY <2>4 DEF Starts
    <2>5. ASSUME c = ByeCommand, "walk" \notin {pc, pc'}, Calm PROVE Calm'
      BY <1>0, <1>2, <2>2, <2>5 DEF Calm, Resting
    <2>6. ASSUME c \in Between(conf.keepalive), c = ByeCommand \/ s2c = <<>>, Flows PROVE Flows'
      <3>1. CASE ToCome
        <4>1. PICK before, after : /\ before = InPlan(srv.batch, UniNow)
                                   /\ after = Between(conf.keepalive)
          OBVIOUS
        <4>2. PICK n \in 1..Len(c2s) : StartsAt(n, before, after)
          BY <3>1, <4>1 DEF ToCome
        <4>3. /\ n \in 1..Len(c2s') /\ c2s'[n] = c2s[n]
              /\ \A k \in 1..Len(c2s') : (k < n => c2s'[k] \in before)
                                         /\ (n < k => c2s'[k] \in after)
          BY <2>3, <2>6, <4>1, <4>2
        <4>4. \E d : /\ d = c2s'[n] /\ d.parse = "none"
                     /\ \/ d.role = "end"
                        \/ d.role = "data" /\ protocol' = "V3" /\ ~conf'.multistation
          BY <2>4, <4>2, <4>3 DEF StartsAt
        <4>5. InPlan(srv.batch, UniNow)' = before /\ Between(conf.keepalive)' = after
          BY <1>0, <4>1
        <4>6. StartsAt(n, InPlan(srv.batch, UniNow), Between(conf.keepalive))'
          BY <4>3, <4>4, <4>5 DEF StartsAt, Starts
        <4>7. c2s # <<>>
          BY <1>0, <4>2, Empty
        <4>8. ToCome'
          BY <1>0, <2>1, <3>1, <4>3, <4>6, <4>7 DEF ToCome, Addressed
        <4>9. QED
          BY <1>0, <2>6, <4>8 DEF Flows, EndIsLast
      <3>2. CASE Begun
        <4>1. Begun'
          BY <1>0, <2>2, <2>6, <3>2 DEF Begun
        <4>2. QED
          BY <1>0, <2>6, <4>1 DEF Flows, EndIsLast
      <3>3. CASE Over
        <4>1. c = ByeCommand
          BY <2>6, <3>3 DEF Over
        <4>2. Over'
          BY <1>0, <2>2, <3>3, <4>1 DEF Over
        <4>3. QED
          BY <1>0, <2>6, <4>2 DEF Flows, EndIsLast
      <3>4. QED
        BY <1>2, <2>6, <3>1, <3>2, <3>3 DEF Flows
    <2>7. ASSUME c \in {ByeCommand, InfoCommand}, Spent PROVE Spent'
      <3>1. CASE srv.phase = "command"
        <4>1. PICK n \in 1..Len(c2s) :
                 c2s[n].name = "END" /\ StartsAt(n, {ByeCommand}, {ByeCommand, InfoCommand})
          BY <1>2, <2>7, <3>1 DEF Spent
        <4>2. /\ n \in 1..Len(c2s') /\ c2s'[n] = c2s[n]
              /\ \A k \in 1..Len(c2s') : (k < n => c2s'[k] \in {ByeCommand})
                                         /\ (n < k => c2s'[k] \in {ByeCommand, InfoCommand})
          BY <2>3, <2>7, <4>1
        <4>3. \E d : /\ d = c2s'[n] /\ d.parse = "none"
                     /\ \/ d.role = "end"
                        \/ d.role = "data" /\ protocol' = "V3" /\ ~conf'.multistation
          BY <2>4, <4>1, <4>2 DEF StartsAt
        <4>4. StartsAt(n, {ByeCommand}, {ByeCommand, InfoCommand})'
          BY <4>2, <4>3 DEF StartsAt, Starts, ByeCommand, InfoCommand
        <4>5. c2s'[n].name = "END"
          BY <4>1, <4>2
        <4>6. QED
          BY <1>0, <1>2, <2>7, <3>1, <4>2, <4>4, <4>5 DEF Spent
      <3>2. CASE srv.phase # "command"
        BY <1>0, <1>2, <2>2, <2>7, <3>2 DEF Spent
      <3>3. QED
        BY <3>1, <3>2
    <2>8. QED
      BY <2>5, <2>6, <2>7
  <1>3. QED
    BY <1>1, <1>2

(* What the loop of collect() reads is no reply.                           *)
LEMMA Received ==
    ASSUME TypeOK, Flows, Take, Head(s2c).kind # "end", UNCHANGED <<srv, protocol, conf>>
    PROVE  Flows'
  <1>0. s2c # <<>> /\ s2c' = Tail(s2c) /\ UNCHANGED <<up, c2s>> /\ s2c \in Seq(Heard)
    BY DEF Take, Flows
  <1>1. /\ Len(s2c) \in Nat \ {0} /\ Head(s2c) = s2c[1] /\ s2c' \in Seq(Heard)
        /\ Len(s2c') = Len(s2c) - 1
        /\ \A k \in 1..Len(s2c') : k + 1 \in 1..Len(s2c) /\ s2c'[k] = s2c[k + 1]
    BY <1>0, AfterHead
  <1>2. EndIsLast'
    <2>1. ASSUME NEW k \in 1..Len(s2c'), s2c'[k].kind = "end" PROVE k = Len(s2c')
      <3>1. k + 1 = Len(s2c)
        BY <1>1, <2>1 DEF Flows, EndIsLast
      <3>2. QED
        BY <1>1, <3>1
    <2>2. QED
      BY <2>1 DEF EndIsLast
  <1>3. ~ToCome
    BY <1>0 DEF ToCome
  <1>4. Begun => Begun'
    <2>1. ASSUME s2c \in Seq(Unended) PROVE s2c' \in Seq(Unended)
      BY <1>0, <2>1, AfterHead
    <2>2. QED
      BY <1>0, <2>1 DEF Begun
  <1>5. ASSUME Over PROVE Over'
    <2>1. s2c[Len(s2c)].kind = "end"
      BY <1>5 DEF Over
    <2>2. Len(s2c) # 1
      BY <1>1, <2>1
    <2>3. Len(s2c') \in 1..Len(s2c') /\ Len(s2c') + 1 = Len(s2c)
      BY <1>1, <2>2
    <2>4. s2c'[Len(s2c')].kind = "end"
      BY <1>1, <2>1, <2>3
    <2>5. s2c' # <<>>
      BY <1>1, <2>3, Empty
    <2>6. QED
      BY <1>0, <1>5, <2>4, <2>5 DEF Over
  <1>6. QED
    BY <1>0, <1>1, <1>2, <1>3, <1>4, <1>5 DEF Flows

(* A negotiate() begins on a quiet connection,                             *)
LEMMA CoreStarts ==
    ASSUME TypeOK, Inv, LeaveInv, Core, StartPlan, UNCHANGED serverVars
    PROVE  Core'
  <1>1. /\ pc = "plan" /\ pc' = "walk" /\ sock /\ ~streaming /\ Calm
        /\ UNCHANGED <<conf, sock, streaming, protocol, up, c2s, s2c, srv>>
        /\ pos' = PlanStart(protocol, conf)
    BY DEF StartPlan, Goto, identVars, linkVars, wireVars, serverVars, LeaveInv, Core
  <1>2. ~Done' /\ pos'.s = 1 /\ (~UniNow => pos'.k = 0) /\ UniNow' = UniNow
    BY <1>1, PlanStarts DEF Done, PlanStart, UniNow
  <1>3. ASSUME up PROVE Walking'
    <2>1. c2s \in Seq({ByeCommand}) /\ ~srv.dial
      BY <1>1, <1>3 DEF Calm, Resting
    <2>2. ByeCommand \in Cheap /\ ByeCommand.name = "BYE"
      <3>1. ByeCommand \in Command
        BY GenericOK DEF ByeCommand, CommandNames
      <3>2. ByeCommand.name = "BYE"
        BY DEF ByeCommand, Generic
      <3>3. QED
        BY <3>1, <3>2 DEF Cheap
    <2>3. \A S : ByeCommand \in S => c2s \in Seq(S)
      <3>1. ASSUME NEW S, ByeCommand \in S PROVE c2s \in Seq(S)
        <4>1. {ByeCommand} \subseteq S
          BY <3>1
        <4>2. QED
          BY <2>1, <4>1, Wider
      <3>2. QED
        BY <3>1
    <2>4. c2s \in Seq(InPlan(srv.batch, UniNow)) /\ c2s \in Seq(Cheap)
      BY <2>2, <2>3 DEF InPlan
    <2>5. c2s # <<>> => Head(c2s).name = "BYE"
      BY <2>1, <2>2, AfterHead
    <2>6. QED
      BY <1>1, <1>2, <2>1, <2>4, <2>5 DEF Walking, Addressed
  <1>4. Calm'
    BY <1>1, <1>3 DEF Calm
  <1>5. QED
    BY <1>1, <1>2, <1>4 DEF Core, Handshake

(* skips the commands of a rejected station,                               *)
LEMMA CoreSkips ==
    ASSUME TypeOK, Inv, LeaveInv, PlanInv, Core, SkipCommand, UNCHANGED serverVars
    PROVE  Core'
  <1>1. /\ pc = "walk" /\ pc' = "walk" /\ sock /\ ~streaming /\ ~Done
        /\ ~WalkSends(walk, Current)
        /\ UNCHANGED <<conf, sock, streaming, protocol, up, c2s, s2c, srv, walk>>
        /\ pos' = PlanNext(pos)
    BY DEF SkipCommand, identVars, linkVars, wireVars, serverVars, ctlVars, LeaveInv, Core
  <1>2. Calm
    BY <1>1 DEF Core
  <1>3. ~Done' /\ UniNow' = UniNow
    BY <1>1, PlanEnds DEF Done, UniNow
  <1>4. ~(pos.s = 1 /\ pos.k = 0)
    <2>1. ASSUME pos.s = 1, pos.k = 0 PROVE FALSE
      <3>1. pos.s \in StreamIds
        BY <2>1, CommandsAssumption DEF StreamIds
      <3>2. Current.role = "station"
        BY <2>1, <3>1, CurrentIs
      <3>3. QED
        BY <1>1, <3>2 DEF WalkSends
    <2>2. QED
      BY <2>1
  <1>5. Calm'
    BY <1>1, <1>2, <1>3, <1>4 DEF Calm, Walking, Addressed
  <1>6. QED
    BY <1>1, <1>3, <1>5 DEF Core, Handshake

(* sends one that is not answered,                                         *)
LEMMA CoreSendsOn ==
    ASSUME TypeOK, Inv, LeaveInv, ProtoInv, PlanInv, BatchV3, WalkInv, Core,
           SendCommand, Current.parse = "none", UNCHANGED serverVars
    PROVE  Core'
  <1>0. PICK c : c = Current
    OBVIOUS
  <1>1. /\ pc = "walk" /\ pc' = "walk" /\ sock /\ ~streaming /\ ~Done /\ WalkSends(walk, c)
        /\ UNCHANGED <<conf, sock, streaming, protocol, up, s2c, srv>>
        /\ pos' = PlanNext(pos) /\ walk' = WalkRecord(WalkEnter(walk, c), c, FALSE)
        /\ Send(c)
    BY <1>0 DEF SendCommand, Sendable, Goto, Send, identVars, linkVars, serverVars, LeaveInv,
       Core
  <1>2. /\ Calm /\ c \in Named /\ c \in Command /\ c.parse = "none" /\ UniNow' = UniNow
        /\ walk \in Walk /\ pos.k \in Nat /\ pos.s \in Nat \ {0} /\ NStreams \in Nat \ {0}
    BY <1>0, <1>1, CurrentNamed, CommandsAssumption
    DEF Core, UniNow, Named, TypeOK, ClientTypeOK, PlanPos
  <1>3. s2c = <<>> /\ (up => srv.phase = "command" /\ Walking)
    BY <1>1, <1>2 DEF Calm
  <1>4. ASSUME up
        PROVE  /\ c2s' = Append(c2s, c) /\ c2s' # <<>> /\ Len(c2s') = Len(c2s) + 1
               /\ Len(c2s) \in Nat /\ c2s'[Len(c2s) + 1] = c
               /\ \A k \in 1..Len(c2s) : c2s'[k] = c2s[k]
               /\ Head(c2s') = IF c2s = <<>> THEN c ELSE Head(c2s)
    <2>1. c2s \in Seq(Command)
      BY DEF TypeOK, WireTypeOK
    <2>2. QED
      BY <1>1, <1>2, <1>4, <2>1, WithLast DEF Send
  <1>5. ASSUME NEW S, up, c2s \in Seq(S), c \in S PROVE c2s' \in Seq(S)
    BY <1>4, <1>5, WithLast
  <1>6. up => batch_active = srv.batch
    BY <1>1 DEF Inv, BatchAgrees
  <1>7. pos.s = 1 => pos.s \in StreamIds
    BY <1>2 DEF StreamIds
  <1>8. pos.s = 1 /\ pos.k = 0 => c.name = "STATION"
    BY <1>0, <1>7, CurrentIs
  <1>9. ASSUME up PROVE UniNow \/ Addressed'
    BY <1>1, <1>3, <1>4, <1>8, <1>9 DEF Walking, Addressed
  <1>10. CASE ~Done'
    <2>1. pos.s \in StreamIds
      <3>1. ASSUME pos.s \notin StreamIds PROVE FALSE
        <4>1. pos'.s = pos.s + 1 /\ pos.s > NStreams
          BY <1>1, <1>2, <3>1 DEF PlanNext, StreamIds
        <4>2. QED
          BY <1>1, <1>2, <1>10, <4>1 DEF Done, PlanDone
      <3>2. QED
        BY <3>1
    <2>2. ~(UniNow /\ c.role = "data")
      <3>1. ASSUME UniNow, c.role = "data" PROVE FALSE
        <4>1. pos.s = 1 /\ NStreams = 1
          BY <1>1, <3>1, UniPlan
        <4>2. ~(pos.k <= NSel[pos.s])
          BY <1>0, <2>1, <3>1, CurrentIs
        <4>3. pos'.s = 2
          BY <1>1, <4>1, <4>2 DEF PlanNext
        <4>4. QED
          BY <1>1, <1>2, <1>10, <3>1, <4>1, <4>3 DEF Done, PlanDone, UniNow
      <3>2. QED
        BY <3>1
    <2>3. c.role \in {"station", "select", "data"} /\ LineParse(protocol, batch_active) = "none"
      BY <1>0, <1>2, <2>1, <2>2, CurrentIs
    <2>4. protocol # "V4" /\ batch_active
      BY <2>3 DEF LineParse
    <2>5. c \in Silent(UniNow)
      BY <1>2, <2>2, <2>3 DEF Silent
    <2>6. /\ walk.accepted => walk'.accepted
          /\ UniNow \/ walk'.accepted
      <3>1. CASE pos.k = 0
        <4>1. c.role = "station"
          BY <1>0, <2>1, <3>1, CurrentIs
        <4>2. walk'.accepted
          BY <1>1, <1>2, <4>1 DEF WalkEnter, WalkRecord, Walk
        <4>3. QED
          BY <4>2
      <3>2. CASE pos.k # 0
        <4>1. c.role \in {"select", "data"}
          BY <1>0, <2>1, <3>2, CurrentIs
        <4>2. walk' = walk /\ ~walk.skip
          BY <1>1, <4>1 DEF WalkEnter, WalkRecord, WalkSends
        <4>3. QED
          BY <1>1, <3>2, <4>2 DEF WalkInv
      <3>3. QED
        BY <3>1, <3>2
    <2>7. ASSUME up PROVE Walking'
      <3>1. c \in InPlan(srv.batch, UniNow)
        BY <1>6, <2>4, <2>5, <2>7 DEF InPlan
      <3>2. c2s' \in Seq(InPlan(srv.batch, UniNow))
        BY <1>3, <1>5, <2>7, <3>1 DEF Walking
      <3>3. UniNow => ~srv.dial
        BY <1>3, <2>7 DEF Walking
      <3>4. QED
        BY <1>1, <1>2, <1>9, <2>4, <2>6, <2>7, <3>2, <3>3 DEF Walking
    <2>8. Calm'
      BY <1>1, <1>3, <2>7 DEF Calm
    <2>9. QED
      BY <1>1, <1>10, <2>8 DEF Core, Handshake
  <1>11. CASE Done'
    <2>1. c.role = "end" \/ (c.role = "data" /\ UniNow)
      BY <1>0, <1>1, <1>11, PlanEnds DEF Done
    <2>2. walk' = walk
      BY <1>1, <2>1 DEF WalkEnter, WalkRecord
    <2>3. ASSUME up
          PROVE  c.role = "end" \/ (c.role = "data" /\ protocol' = "V3" /\ ~conf'.multistation)
      <3>1. protocol \in {"V3", "V4"}
        BY <1>1, <2>3 DEF ProtoInv, TypeOK, ServerTypeOK, ServerState, Handshake
      <3>2. QED
        BY <1>1, <2>1, <3>1 DEF UniNow, Uni
    <2>4. ASSUME NEW before, NEW after, up, c2s \in Seq(before)
          PROVE  /\ Len(c2s) + 1 \in 1..Len(c2s') /\ c2s'[Len(c2s) + 1] = c
                 /\ \A k \in 1..Len(c2s') : /\ k < Len(c2s) + 1 => c2s'[k] \in before
                                            /\ Len(c2s) + 1 < k => c2s'[k] \in after
      <3>1. \A k \in 1..Len(c2s) : c2s[k] \in before
        BY <2>4
      <3>2. QED
        BY <1>4, <2>4, <3>1
    <2>5. s2c' = <<>> /\ Len(s2c') = 0 /\ s2c' \in Seq(Heard)
      BY <1>1, <1>3, EmptySeq
    <2>6. PICK n : n = Len(c2s) + 1
      OBVIOUS
    <2>7. CASE ~WalkFails(walk)
      <3>1. ASSUME up PROVE ToCome'
        <4>1. PICK before, after : /\ before = InPlan(srv.batch, UniNow)
                                   /\ after = Between(conf.keepalive)
          OBVIOUS
        <4>2. /\ n \in 1..Len(c2s') /\ c2s'[n] = c
              /\ \A k \in 1..Len(c2s') : (k < n => c2s'[k] \in before)
                                         /\ (n < k => c2s'[k] \in after)
          BY <1>3, <2>4, <2>6, <3>1, <4>1 DEF Walking
        <4>3. InPlan(srv.batch, UniNow)' = before /\ Between(conf.keepalive)' = after
          BY <1>1, <1>2, <4>1
        <4>4. ASSUME NEW m \in 1..Len(c2s'), m = n
              PROVE  StartsAt(m, InPlan(srv.batch, UniNow), Between(conf.keepalive))'
          BY <1>2, <2>3, <3>1, <4>2, <4>3, <4>4 DEF StartsAt, Starts
        <4>5. QED
          BY <1>1, <1>2, <1>3, <1>9, <2>5, <3>1, <4>2, <4>4 DEF ToCome
      <3>2. Flows'
        BY <1>1, <2>5, <3>1 DEF Flows, EndIsLast
      <3>3. QED
        BY <1>1, <1>11, <2>2, <2>7, <3>2 DEF Core, Handshake
    <2>8. CASE WalkFails(walk)
      <3>1. walk.seen /\ ~walk.accepted /\ ~UniNow
        BY <1>1, <2>8 DEF WalkFails, WalkInv
      <3>2. protocol # "V4" /\ ~batch_active
        BY <1>1, <3>1 DEF WalkInv
      <3>3. c.role = "end" /\ pos.s \notin StreamIds /\ c.name = "END"
        <4>1. c.role = "end"
          BY <2>1, <3>1
        <4>2. pos.s \notin StreamIds
          BY <1>0, <4>1, CurrentIs
        <4>3. QED
          BY <1>0, <3>2, <4>1, <4>2, CurrentEnds
      <3>4. ASSUME up PROVE ~srv.dial /\ c2s \in Seq({ByeCommand})
        <4>1. InPlan(srv.batch, UniNow) = {ByeCommand}
          BY <1>6, <3>2, <3>4 DEF InPlan
        <4>2. QED
          BY <1>3, <3>1, <3>4, <4>1 DEF Walking
      <3>5. ASSUME up
            PROVE  \E m \in 1..Len(c2s') :
                      /\ c2s'[m].name = "END"
                      /\ StartsAt(m, {ByeCommand}, {ByeCommand, InfoCommand})'
        <4>1. /\ n \in 1..Len(c2s') /\ c2s'[n] = c
              /\ \A k \in 1..Len(c2s') : (k < n => c2s'[k] \in {ByeCommand})
                                         /\ (n < k => c2s'[k] \in {ByeCommand, InfoCommand})
          BY <2>4, <2>6, <3>4, <3>5
        <4>2. ASSUME NEW m \in 1..Len(c2s'), m = n
              PROVE  StartsAt(m, {ByeCommand}, {ByeCommand, InfoCommand})'
          BY <1>2, <2>3, <3>5, <4>1, <4>2 DEF StartsAt, Starts, ByeCommand, InfoCommand
        <4>3. QED
          BY <3>3, <4>1, <4>2
      <3>6. Spent'
        BY <1>1, <1>3, <2>5, <3>4, <3>5 DEF Spent
      <3>7. QED
        BY <1>1, <1>11, <2>2, <2>8, <3>6 DEF Core, Handshake
    <2>9. QED
      BY <2>7, <2>8
  <1>12. QED
    BY <1>10, <1>11

(* asks, and awaits the reply,                                             *)
LEMMA CoreAsks ==
    ASSUME TypeOK, Inv, LeaveInv, PlanInv, BatchV3, WalkInv, Core,
           SendCommand, Current.parse # "none", UNCHANGED serverVars
    PROVE  Core'
  <1>0. PICK c : c = Current
    OBVIOUS
  <1>1. /\ pc = "walk" /\ pc' = "reply" /\ sock /\ ~streaming /\ ~Done /\ WalkSends(walk, c)
        /\ UNCHANGED <<conf, sock, streaming, protocol, up, s2c, srv, pos>>
        /\ walk' = WalkEnter(walk, c) /\ cmd' = c /\ Send(c)
    BY <1>0 DEF SendCommand, Sendable, Goto, Send, identVars, linkVars, serverVars, LeaveInv,
       Core
  <1>2. /\ Calm /\ c \in Named /\ c \in Command /\ c.parse # "none" /\ UniNow' = UniNow
        /\ walk \in Walk /\ pos.k \in Nat /\ pos.s \in StreamIds /\ NSel[pos.s] \in Nat
        /\ c2s \in Seq(Command)
    <2>1. pos.s \in StreamIds
      BY CurrentEnds
    <2>2. NSel[pos.s] \in Nat
      BY <2>1, CommandsAssumption DEF StreamIds
    <2>3. QED
      BY <1>0, <1>1, <2>1, <2>2, CurrentNamed
      DEF Core, UniNow, Named, TypeOK, ClientTypeOK, WireTypeOK, PlanPos
  <1>3. s2c = <<>> /\ (up => srv.phase = "command" /\ Walking)
    BY <1>1, <1>2 DEF Calm
  <1>4. ~batch_active
    <2>1. LineParse(protocol, batch_active) # "none"
      BY <1>0, <1>2, CurrentIs
    <2>2. QED
      BY <2>1 DEF LineParse, BatchV3
  <1>5. CASE ~up
    <2>1. c2s' = <<>>
      BY <1>1, <1>5 DEF Send, Inv, LinkInv
    <2>2. Awaited'
      BY <1>1, <1>3, <1>5, <2>1 DEF Awaited
    <2>3. QED
      BY <1>1, <2>2 DEF Core, Handshake
  <1>6. CASE up
    <2>1. ~srv.batch
      BY <1>1, <1>4, <1>6 DEF Inv, BatchAgrees
    <2>2. c2s \in Seq({ByeCommand})
      <3>1. InPlan(srv.batch, UniNow) = {ByeCommand}
        BY <2>1 DEF InPlan
      <3>2. QED
        BY <1>3, <1>6, <3>1 DEF Walking
    <2>3. /\ c2s' = Append(c2s, c) /\ c2s' # <<>> /\ Len(c2s') = Len(c2s) + 1
          /\ Len(c2s) \in Nat /\ c2s'[Len(c2s) + 1] = c
          /\ \A k \in 1..Len(c2s) : c2s'[k] = c2s[k]
          /\ Head(c2s') = IF c2s = <<>> THEN c ELSE Head(c2s)
      BY <1>1, <1>2, <1>6, WithLast DEF Send
    <2>4. LastIs(c2s', cmd')
      <3>1. \A k \in 1..Len(c2s) : c2s[k] = ByeCommand
        BY <2>2
      <3>2. QED
        BY <1>1, <2>3, <3>1 DEF LastIs
    <2>5. UniNow \/ Addressed'
      <3>1. pos.s = 1 /\ pos.k = 0 => c.name = "STATION"
        BY <1>0, <1>2, CurrentIs
      <3>2. QED
        BY <1>1, <1>3, <1>6, <2>3, <3>1 DEF Walking, Addressed
    <2>6. c.name = "FETCH" => UniNow \/ (walk.accepted /\ protocol # "V4")
      <3>1. ASSUME c.name = "FETCH", ~UniNow PROVE walk.accepted /\ protocol # "V4"
        <4>1. c.role = "data"
          BY <1>2, <3>1 DEF Named
        <4>2. ~(pos.k <= NSel[pos.s]) /\ protocol # "V4"
          BY <1>0, <1>2, <3>1, <4>1, CurrentIs
        <4>3. pos.k # 0 /\ ~walk.skip
          BY <1>1, <1>2, <4>1, <4>2 DEF WalkSends
        <4>4. QED
          BY <1>1, <3>1, <4>2, <4>3 DEF WalkInv
      <3>2. QED
        BY <3>1
    <2>7. walk.accepted => walk'.accepted
      BY <1>1, <1>2 DEF WalkEnter, Walk
    <2>8. /\ \/ walk'.accepted /\ protocol # "V4"
             \/ UniNow
             \/ ~srv.dial /\ c.name # "FETCH"
          /\ UniNow => ~srv.dial
      BY <1>3, <1>6, <2>6, <2>7 DEF Walking
    <2>9. Awaited'
      BY <1>1, <1>2, <1>3, <1>6, <2>1, <2>3, <2>4, <2>5, <2>8 DEF Awaited
    <2>10. QED
      BY <1>1, <2>9 DEF Core, Handshake
  <1>7. QED
    BY <1>5, <1>6

(* reads it,                                                               *)
LEMMA CoreReplied ==
    ASSUME TypeOK, Inv, LeaveInv, PlanInv, WalkInv, Core, ReadReply, UNCHANGED serverVars
    PROVE  Core'
  <1>1. /\ pc = "reply" /\ sock /\ ~streaming /\ s2c # <<>> /\ Awaited
        /\ UNCHANGED <<conf, protocol, cmd, srv>>
    BY DEF ReadReply, identVars, serverVars, LeaveInv, Core
  <1>2. c2s = <<>> /\ \E ok \in BOOLEAN : s2c = <<Line(cmd.name, ok)>>
    BY <1>1 DEF Awaited
  <1>3. PICK ok \in BOOLEAN : s2c = <<Line(cmd.name, ok)>>
    BY <1>2
  <1>4. Tail(s2c) = <<>> /\ Accepted(Head(s2c)) = ok
    <2>1. PICK x : x = Line(cmd.name, ok)
      OBVIOUS
    <2>2. Head(s2c) = x /\ Tail(s2c) = <<>>
      BY <1>3, <2>1, OneOK
    <2>3. x.kind = "line" /\ x.ok = ok
      BY <2>1 DEF Line
    <2>4. QED
      BY <2>2, <2>3 DEF Accepted
  <1>5. UniNow' = UniNow /\ walk \in Walk
    BY <1>1 DEF UniNow, TypeOK, ClientTypeOK
  <1>6. CASE ok \/ cmd.parse = "reply"
    <2>1. /\ Take /\ Goto("walk") /\ UNCHANGED linkVars
          /\ walk' = WalkRecord(walk, cmd, ~ok) /\ pos' = PlanNext(pos)
      BY <1>4, <1>6 DEF ReadReply
    <2>2. /\ s2c' = <<>> /\ c2s' = <<>> /\ pc' = "walk"
          /\ UNCHANGED <<up, sock, streaming>>
      BY <1>2, <1>4, <2>1 DEF Take, Goto, linkVars
    <2>3. ~Done'
      BY <1>1, <2>1, PlanGoesOn DEF Done
    <2>4. walk.accepted => walk'.accepted
      BY <1>5, <2>1 DEF WalkRecord, Walk
    <2>5. \A S : c2s' \in Seq(S)
      BY <2>2
    <2>6. ASSUME up PROVE Walking'
      <3>1. UniNow \/ srv.multi
        BY <1>1, <1>2, <2>6 DEF Awaited, Addressed
      <3>2. QED
        BY <1>1, <1>5, <2>2, <2>4, <2>5, <2>6, <3>1 DEF Awaited, Walking, Addressed
    <2>7. Calm'
      BY <1>1, <2>2, <2>6 DEF Calm, Awaited
    <2>8. QED
      BY <1>1, <2>2, <2>3, <2>7 DEF Core, Handshake
  <1>7. CASE ~(ok \/ cmd.parse = "reply")
    <2>1. NegotiateRaises(TRUE, Tail(s2c)) /\ UNCHANGED <<walk, pos>>
      BY <1>4, <1>7 DEF ReadReply
    <2>2. CASE call = "collect"
      <3>1. Disconnected /\ pc' \notin Handshake
        BY <2>1, <2>2 DEF NegotiateRaises, Goto, Handshake
      <3>2. QED
        BY <3>1, CoreCut
    <2>3. CASE call # "collect"
      <3>1. /\ pc' = "idle" /\ outcome' = "error" /\ s2c' = <<>> /\ c2s' = <<>>
            /\ UNCHANGED <<sock, streaming, up>>
        BY <1>2, <1>4, <2>1, <2>3 DEF NegotiateRaises, Return, linkVars
      <3>2. CASE conf.careful
        BY <1>1, <3>1, <3>2 DEF Core, Handshake, Given, Failed
      <3>3. CASE ~conf.careful
        <4>1. protocol = "V4"
          <5>1. cmd = Current /\ cmd.parse # "none" /\ pos.s \in StreamIds
            BY <1>1 DEF WalkInv, PlanInv
          <5>2. cmd.parse = LineParse(protocol, batch_active)
            BY <5>1, CurrentIs
          <5>3. QED
            BY <1>7, <5>1, <5>2 DEF LineParse
        <4>2. ~UniNow
          BY <4>1 DEF UniNow, Uni
        <4>3. up => ~srv.dial /\ srv.phase = "command"
          BY <1>1, <4>1, <4>2 DEF Awaited
        <4>4. c2s' \in Seq({ByeCommand})
          BY <3>1
        <4>5. Calm'
          BY <1>1, <3>1, <4>3, <4>4 DEF Calm, Resting
        <4>6. QED
          BY <1>1, <3>1, <4>5 DEF Core, Handshake, Idle
      <3>4. QED
        BY <3>2, <3>3
    <2>4. QED
      BY <2>2, <2>3
  <1>8. QED
    BY <1>6, <1>7

(* and begins the transfer, or finds that every station was rejected.      *)
LEMMA CoreFinishes ==
    ASSUME TypeOK, Inv, LeaveInv, Core, FinishWalk, UNCHANGED serverVars
    PROVE  Core'
  <1>1. /\ pc = "walk" /\ Done /\ sock /\ ~streaming
        /\ UNCHANGED <<conf, protocol, srv>>
    BY DEF FinishWalk, identVars, serverVars, LeaveInv, Core
  <1>2. CASE WalkFails(walk) /\ call = "collect"
    <2>1. Disconnected /\ pc' \notin Handshake
      BY <1>2 DEF FinishWalk, NegotiateRaises, Goto, Handshake
    <2>2. QED
      BY <2>1, CoreCut
  <1>3. CASE WalkFails(walk) /\ call # "collect"
    <2>1. /\ pc' = "idle" /\ outcome' = "error"
          /\ UNCHANGED <<sock, streaming, up, c2s, s2c>>
      BY <1>3 DEF FinishWalk, NegotiateRaises, Return, linkVars
    <2>2. Spent'
      BY <1>1, <1>3, <2>1, NothingNew DEF Core
    <2>3. QED
      BY <1>1, <2>1, <2>2 DEF Core, Handshake, Idle, Given, Failed
  <1>4. CASE ~WalkFails(walk)
    <2>1. /\ pc' \in {"idle", "loop"} /\ streaming'
          /\ UNCHANGED <<sock, up, c2s, s2c>>
      BY <1>4 DEF FinishWalk, Return, wireVars
    <2>2. Flows'
      BY <1>1, <1>4, <2>1, NothingNew DEF Core
    <2>3. QED
      BY <1>1, <2>1, <2>2 DEF Core, Handshake
  <1>5. QED
    BY <1>2, <1>3, <1>4

(* A handshake ends on a quiet connection,                                 *)
LEMMA CoreGreets ==
    ASSUME TypeOK, Inv, ProtoInv, StreamingInv, Core, ClientStep \/ GoneQuiet \/ GoneLate,
           UNCHANGED serverVars, pc \in Handshake
    PROVE  Core'
  <1>1. ~srv.dial /\ ~streaming /\ srv' = srv
    BY DEF Core, StreamingInv, serverVars
  <1>2. CASE Disconnected /\ pc' \notin Handshake
    BY <1>2, CoreCut
  <1>3. CASE (SendHello \/ SendGreeting \/ ReadIdentity \/ ReadGreeting) /\ pc' \in Handshake
    <2>1. ~streaming'
      BY <1>1, <1>3 DEF SendHello, SendGreeting, ReadIdentity, ReadGreeting, linkVars,
         ConnectRaises, Disconnected
    <2>2. QED
      BY <1>1, <1>3, <2>1 DEF Core, Handshake
  <1>4. CASE (SendHello \/ SendGreeting \/ ReadIdentity \/ ReadGreeting) /\ pc' \notin Handshake
    <2>1. Disconnected
      BY <1>4 DEF SendHello, SendGreeting, ReadIdentity, ReadGreeting, ConnectRaises, Goto,
         Handshake
    <2>2. QED
      BY <1>4, <2>1, CoreCut
  <1>5. CASE Connected
    <2>1. /\ pc = "greet" /\ pc' \in {"idle", "plan"}
          /\ UNCHANGED <<sock, streaming, up, c2s, s2c>>
      BY <1>5 DEF Connected, Return, Goto, linkVars, wireVars
    <2>2. c2s = <<>> /\ s2c = <<>> /\ srv.phase = "command"
      BY <2>1 DEF Inv, Lockstep, LinkInv, Handshake
    <2>3. c2s' \in Seq({ByeCommand})
      BY <2>1, <2>2
    <2>4. Calm'
      BY <1>1, <2>1, <2>2, <2>3 DEF Calm, Resting
    <2>5. QED
      BY <1>1, <2>1, <2>4 DEF Core, Handshake, Idle
  <1>6. QED
    BY <1>2, <1>3, <1>4, <1>5, Inside

(* A step that fails closes the connection, but for a timeout,             *)
LEMMA Cuts ==
    ASSUME Inv, ~ReadTimesOut,
           Mishap \/ ReadEof \/ RecvTrouble \/ GoneQuiet \/ GoneLate \/ CallReconnect \/ Close
           \/ Break
    PROVE  Disconnected /\ pc' \notin Handshake
  <1>1. ASSUME NEW how, ConnectRaises(how) PROVE Disconnected /\ pc' \notin Handshake
    BY <1>1 DEF ConnectRaises, Goto, Return, Handshake
  <1>2. ASSUME LoopRaises PROVE Disconnected /\ pc' \notin Handshake
    BY <1>2 DEF LoopRaises, Goto, Return, Handshake
  <1>3. ASSUME NEW rest, NegotiateRaises(FALSE, rest) PROVE Disconnected /\ pc' \notin Handshake
    BY <1>3 DEF NegotiateRaises, Goto, Return, Handshake
  <1>4. ASSUME ReadFails PROVE Disconnected /\ pc' \notin Handshake
    BY <1>1, <1>2, <1>3, <1>4 DEF ReadFails, Return, Handshake
  <1>5. CASE ReadEof \/ ReadStalls \/ ReadGarbled
    BY <1>4, <1>5 DEF ReadEof, ReadStalls, ReadGarbled
  <1>6. CASE SendFails \/ ConnectRefused
    BY <1>1, <1>3, <1>6 DEF SendFails, ConnectRefused, Return, Handshake
  <1>7. CASE RecvTrouble \/ GoneQuiet \/ GoneLate
    BY <1>2, <1>7 DEF RecvTrouble, GoneQuiet, GoneLate, IdleTimeout
  <1>8. CASE CallReconnect \/ Close \/ Break
    BY <1>8 DEF CallReconnect, Close, Break, Enter, Return, Handshake, Inv, CallInv
  <1>9. QED
    BY <1>5, <1>6, <1>7, <1>8 DEF Mishap

(* after which a careful user does.                                        *)
LEMMA CoreFails ==
    ASSUME TypeOK, Inv, StreamingInv, Core, conf.careful \/ ~ReadTimesOut, UNCHANGED conf,
           Mishap \/ ReadEof \/ RecvTrouble \/ GoneQuiet \/ GoneLate \/ CallReconnect \/ Close
           \/ Break
    PROVE  Core'
  <1>1. CASE ~ReadTimesOut
    BY <1>1, Cuts, CoreCut
  <1>2. CASE ReadTimesOut
    <2>1. conf.careful
      BY <1>2
    <2>2. CASE pc \in {"identity", "greeting"} /\ ConnectRaises("error")
      BY <2>2, CoreCut DEF ConnectRaises, Goto, Return, Handshake
    <2>3. CASE pc = "reply" /\ NegotiateRaises(TRUE, s2c) /\ call = "collect"
      BY <2>3, CoreCut DEF NegotiateRaises, Goto, Handshake
    <2>4. CASE \/ pc = "reply" /\ NegotiateRaises(TRUE, s2c) /\ call # "collect"
               \/ pc = "frames" /\ Return("error") /\ UNCHANGED linkVars
      <3>1. pc' = "idle" /\ outcome' = "error" /\ ~streaming'
        BY <2>4 DEF NegotiateRaises, Return, linkVars, Core, StreamingInv
      <3>2. QED
        BY <2>1, <3>1 DEF Core, Handshake, Given, Failed
    <2>5. QED
      BY <1>2, <2>2, <2>3, <2>4 DEF ReadTimesOut
  <1>3. QED
    BY <1>1, <1>2

(* A user who goes on after a failed call does not negotiate where END has *)
(* been sent, nor over a running transfer; a careful one closes the client.*)
Mannered ==
    /\ conf.careful \/ ~ReadTimesOut
    /\ CallNegotiate => ~streaming /\ (conf.careful \/ ~EndSent)
    /\ CallCollect => streaming \/ conf.careful \/ ~EndSent

LEMMA SpentOver ==
    ASSUME TypeOK, NamedInv, Spent, ~EndSent
    PROVE  Calm
  <1>1. srv.phase = "command" /\ s2c = <<>>
    BY DEF EndSent, Spent, TypeOK, ServerTypeOK, ServerState
  <1>2. ASSUME up PROVE FALSE
    <2>1. PICK n \in 1..Len(c2s) : c2s[n].name = "END"
      BY <1>1, <1>2 DEF Spent
    <2>2. c2s[n] \in Named
      BY DEF NamedInv
    <2>3. c2s[n].role = "end"
      BY <2>1, <2>2 DEF Named
    <2>4. QED
      BY <2>3 DEF EndSent
  <1>3. QED
    BY <1>1, <1>2 DEF Calm

(* The calls begin on what the last one left,                              *)
LEMMA CoreCalls ==
    ASSUME TypeOK, Inv, NamedInv, Core, Mannered, UNCHANGED serverVars,
           CallConnect \/ CallNegotiate \/ CallInfo \/ CallCollect
    PROVE  Core'
  <1>1. /\ pc = "idle"
        /\ UNCHANGED <<conf, protocol, sock, streaming, up, c2s, s2c, srv>>
        /\ conf.careful => ~(sock /\ outcome \in Failed)
    BY DEF CallConnect, CallNegotiate, CallInfo, CallCollect, Enter, linkVars, identVars,
       wireVars, serverVars, Inv, CallInv
  <1>2. sock /\ ~streaming => Idle
    BY <1>1 DEF Core, Given
  <1>3. (Spent => Spent') /\ (Flows => Flows') /\ (pc' # "walk" /\ Calm => Calm')
    BY <1>1, NothingNew
  <1>4. CASE CallConnect
    <2>1. ~sock /\ pc' = "socket"
      BY <1>4 DEF CallConnect, Enter
    <2>2. QED
      BY <1>1, <2>1 DEF Core, Handshake
  <1>5. CASE (CallNegotiate \/ CallCollect) /\ pc' = "plan"
    <2>1. sock /\ ~streaming /\ (conf.careful \/ ~EndSent)
      BY <1>5 DEF Mannered, CallNegotiate, CallCollect, Enter
    <2>2. Calm
      BY <1>2, <2>1, SpentOver DEF Idle
    <2>3. Calm'
      BY <1>3, <1>5, <2>2
    <2>4. QED
      BY <1>1, <1>5, <2>1, <2>3 DEF Core, Handshake
  <1>6. CASE CallInfo
    <2>1. sock /\ ~streaming /\ pc' = "ask"
      BY <1>6 DEF CallInfo, Enter
    <2>2. Idle'
      BY <1>1, <1>2, <1>3, <2>1 DEF Idle
    <2>3. QED
      BY <1>1, <2>1, <2>2 DEF Core, Handshake
  <1>7. CASE CallCollect /\ pc' # "plan"
    <2>1. sock /\ streaming /\ pc' = "loop"
      BY <1>7 DEF CallCollect, Enter
    <2>2. Flows'
      BY <1>1, <1>3, <2>1 DEF Core
    <2>3. QED
      BY <1>1, <2>1, <2>2 DEF Core, Handshake
  <1>8. QED
    BY <1>4, <1>5, <1>6, <1>7 DEF CallNegotiate, Enter

(* a BYE may follow it, or a keepalive,                                    *)
LEMMA CoreJoined ==
    ASSUME TypeOK, Inv, Core, UNCHANGED serverVars, Bye \/ Keepalive
    PROVE  Core'
  <1>1. CASE Disconnected
    <2>1. pc' \notin Handshake
      BY DEF Bye, Keepalive, ctlVars, Inv, CallInv, Handshake
    <2>2. QED
      BY <1>1, <2>1, CoreCut
  <1>2. PICK c : /\ c \in {ByeCommand, PingCommand}
                 /\ c = IF Bye THEN ByeCommand ELSE PingCommand
    OBVIOUS
  <1>3. CASE ~Disconnected
    <2>1. /\ Send(c) /\ sock
          /\ UNCHANGED <<conf, protocol, sock, streaming, srv, pc, outcome>>
          /\ pc \in {"idle", "yield", "loop"}
          /\ c = ByeCommand \/ (conf.keepalive /\ s2c = <<>> /\ pc = "loop")
          /\ pc = "idle" => (conf.careful => outcome \notin Failed)
      <3>1. CASE Bye
        BY <1>2, <1>3, <3>1 DEF Bye, ByeCommand, linkVars, identVars, serverVars, Inv, CallInv
      <3>2. CASE ~Bye
        BY <1>2, <1>3, <3>2 DEF Keepalive, PingCommand, linkVars, identVars, serverVars, ctlVars
      <3>3. QED
        BY <3>1, <3>2
    <2>2. c \in Command
      BY <1>2, GenericOK DEF ByeCommand, PingCommand, CommandNames
    <2>3. c \in Between(conf.keepalive) /\ (c = ByeCommand \/ s2c = <<>>)
      BY <1>2, <2>1 DEF Between
    <2>4. /\ Flows => Flows'
          /\ c = ByeCommand /\ Calm => Calm'
          /\ c = ByeCommand /\ Spent => Spent'
      BY <2>1, <2>2, <2>3, Sent
    <2>5. CASE streaming
      BY <2>1, <2>4, <2>5 DEF Core, Handshake
    <2>6. CASE ~streaming
      <3>1. pc = "idle" /\ ~Given /\ c = ByeCommand
        BY <2>1, <2>6 DEF Core, Given
      <3>2. Idle'
        BY <2>1, <2>4, <2>6, <3>1 DEF Core, Idle
      <3>3. QED
        BY <2>1, <2>6, <3>1, <3>2 DEF Core, Handshake
    <2>7. QED
      BY <2>5, <2>6
  <1>4. QED
    BY <1>1, <1>3

(* collect() reads what flows, up to its END,                              *)
LEMMA CoreCollects ==
    ASSUME TypeOK, Inv, LinkInv, StreamingInv, Core, UNCHANGED serverVars,
           RecvData \/ RecvInfo \/ RecvEnd \/ Resume \/ PollNothing \/ Delay \/ LoopDisconnected
    PROVE  Core'
  <1>0. srv' = srv
    BY DEF serverVars
  <1>1. CASE RecvData \/ RecvInfo
    <2>1. /\ pc = "loop" /\ pc' \in {"loop", "yield"} /\ sock /\ Take /\ Head(s2c).kind # "end"
          /\ UNCHANGED <<conf, protocol, sock, streaming>>
      BY <1>1 DEF RecvData, RecvInfo, Goto, linkVars, identVars, clientVars
    <2>2. streaming /\ Flows
      BY <2>1 DEF Core
    <2>3. Flows'
      BY <1>0, <2>1, <2>2, Received
    <2>4. QED
      BY <2>1, <2>2, <2>3 DEF Core, Handshake
  <1>2. CASE RecvEnd
    <2>1. /\ pc = "loop" /\ pc' = "idle" /\ sock /\ s2c # <<>> /\ Head(s2c).kind = "end"
          /\ s2c' = Tail(s2c) /\ ~streaming' /\ UNCHANGED <<conf, protocol, sock, up, c2s>>
      BY <1>2 DEF RecvEnd, Return, Take, identVars
    <2>2. Flows
      BY <2>1 DEF Core
    <2>3. /\ Head(s2c) = s2c[1] /\ Len(s2c) \in Nat \ {0}
          /\ Len(s2c) = 1 <=> Tail(s2c) = <<>>
      <3>1. s2c \in Seq(Item)
        BY DEF TypeOK, WireTypeOK
      <3>2. QED
        BY <2>1, <3>1, AfterHead
    <2>4. s2c' = <<>>
      BY <2>1, <2>2, <2>3 DEF Flows, EndIsLast
    <2>5. ~Begun
      <3>1. ASSUME s2c \in Seq(Unended) PROVE FALSE
        <4>1. s2c[1] \in Unended
          BY <2>3, <3>1
        <4>2. QED
          BY <2>1, <2>3, <4>1 DEF Unended
      <3>2. QED
        BY <3>1 DEF Begun
    <2>6. up => Over
      BY <2>1, <2>2, <2>5 DEF Flows, ToCome
    <2>7. Calm'
      BY <1>0, <2>1, <2>4, <2>6 DEF Over, Calm, Resting
    <2>8. QED
      BY <2>1, <2>7 DEF Core, Handshake, Idle
  <1>3. CASE Resume \/ PollNothing
    <2>1. /\ pc \in {"loop", "yield"} /\ pc' \in {"loop", "yield"}
          /\ UNCHANGED <<conf, protocol, sock, streaming, up, c2s, s2c>>
      BY <1>3 DEF Resume, PollNothing, Goto, linkVars, identVars, wireVars, clientVars
    <2>2. Flows => Flows'
      BY <1>0, <2>1, NothingNew
    <2>3. QED
      BY <2>1, <2>2 DEF Core, Handshake
  <1>4. CASE Delay \/ LoopDisconnected
    <2>1. ~sock' /\ ~streaming' /\ pc' \notin Handshake \cup {"plan", "walk", "reply"}
      BY <1>4 DEF Delay, LoopDisconnected, Goto, Return, linkVars, LinkInv, StreamingInv, Handshake
    <2>2. QED
      BY <2>1 DEF Core
  <1>5. QED
    BY <1>1, <1>2, <1>3, <1>4

(* and info() the packets that answer it, or its refusal.                  *)
LEMMA CoreInforms ==
    ASSUME TypeOK, Inv, StreamingInv, Core, UNCHANGED serverVars, SendInfo
    PROVE  Core'
  <1>1. /\ pc = "ask" /\ pc' = "frames" /\ Send(InfoCommand) /\ ~streaming
        /\ UNCHANGED <<conf, protocol, sock, streaming, srv, up, s2c>>
    BY DEF SendInfo, Goto, Send, linkVars, identVars, serverVars, StreamingInv, InfoCommand
  <1>2. InfoCommand \in Command /\ c2s \in Seq(Command)
    BY GenericOK DEF InfoCommand, CommandNames, TypeOK, WireTypeOK
  <1>3. CASE Spent /\ ~conf.careful
    <2>1. Spent'
      BY <1>1, <1>2, <1>3, Sent
    <2>2. QED
      BY <1>1, <1>3, <2>1 DEF Core, Handshake
  <1>4. CASE Calm
    <2>1. s2c' = <<>> /\ (up => srv.phase = "command" /\ Resting)
      BY <1>1, <1>4 DEF Calm
    <2>2. CASE up
      <3>1. /\ c2s' = Append(c2s, InfoCommand) /\ c2s' # <<>> /\ Len(c2s') = Len(c2s) + 1
            /\ Len(c2s) \in Nat /\ c2s'[Len(c2s) + 1] = InfoCommand
            /\ \A k \in 1..Len(c2s) : c2s'[k] = c2s[k]
        BY <1>1, <1>2, <2>2, WithLast DEF Send
      <3>2. \A k \in 1..Len(c2s) : c2s[k] = ByeCommand
        <4>1. c2s \in Seq({ByeCommand})
          BY <2>1, <2>2 DEF Resting
        <4>2. QED
          BY <4>1
      <3>3. LastIs(c2s', InfoCommand)
        BY <3>1, <3>2 DEF LastIs
      <3>4. Answered'
        BY <1>1, <2>1, <2>2, <3>1, <3>3 DEF Answered, Resting, InfoCommand
      <3>5. QED
        BY <1>1, <3>4 DEF Core, Handshake
    <2>3. CASE ~up
      <3>1. c2s' = <<>> /\ Len(s2c') = 0
        BY <1>1, <2>1, <2>3 DEF Send, Inv, LinkInv
      <3>2. ~up' /\ s2c' = <<>>
        BY <1>1, <2>1, <2>3
      <3>3. Infos'
        BY <3>1, <3>2 DEF Infos
      <3>4. Answered'
        BY <3>1, <3>2, <3>3 DEF Answered
      <3>5. QED
        BY <1>1, <3>4 DEF Core, Handshake
    <2>4. QED
      BY <2>2, <2>3
  <1>5. sock => Calm \/ (Spent /\ ~conf.careful)
    BY <1>1 DEF Core, Given, Idle
  <1>6. CASE ~sock
    BY <1>1, <1>6 DEF Core, Handshake
  <1>7. QED
    BY <1>3, <1>4, <1>5, <1>6

LEMMA CoreInformed ==
    ASSUME TypeOK, Inv, StreamingInv, Core, UNCHANGED serverVars, ReadInfo
    PROVE  Core'
  <1>0. PICK x : x = Head(s2c)
    OBVIOUS
  <1>1. /\ pc = "frames" /\ pc' \in {"frames", "idle"} /\ s2c # <<>> /\ ~streaming
        /\ pc' = "frames" <=> x.kind = "info" /\ x.more
        /\ UNCHANGED <<conf, protocol, sock, streaming, srv, up, c2s>>
        /\ s2c' = s2c \/ s2c' = Tail(s2c)
        /\ x.kind \in {"info", "line"} /\ ~Accepted(x) => s2c' = Tail(s2c)
    BY <1>0 DEF ReadInfo, Goto, Return, Take, linkVars, identVars, serverVars, StreamingInv
  <1>2. /\ Len(s2c) \in Nat \ {0} /\ x = s2c[1] /\ s2c \in Seq(Item)
        /\ Tail(s2c) \in Seq(Item) /\ Len(Tail(s2c)) = Len(s2c) - 1
        /\ \A k \in 1..Len(Tail(s2c)) : k + 1 \in 1..Len(s2c) /\ Tail(s2c)[k] = s2c[k + 1]
        /\ Len(s2c) = 1 <=> Tail(s2c) = <<>>
    <2>1. s2c \in Seq(Item)
      BY DEF TypeOK, WireTypeOK
    <2>2. QED
      BY <1>0, <1>1, <2>1, AfterHead
  <1>3. CASE Spent /\ ~conf.careful
    <2>1. s2c' \in Seq(Heard)
      <3>1. s2c \in Seq(Heard)
        BY <1>3 DEF Spent
      <3>2. Tail(s2c) \in Seq(Heard)
        BY <1>1, <3>1, AfterHead
      <3>3. QED
        BY <1>1, <3>1, <3>2
    <2>2. srv.phase # "command"
      BY <1>1, <1>3 DEF Spent
    <2>3. Spent'
      BY <1>1, <1>3, <2>1, <2>2 DEF Spent
    <2>4. QED
      BY <1>1, <1>3, <2>3 DEF Core, Handshake, Idle
  <1>4. ASSUME Answered, s2c' = <<>>, pc' = "idle" PROVE Core'
    <2>1. c2s' = <<>> /\ (up => ~srv.dial /\ srv.phase = "command")
      BY <1>1, <1>4 DEF Answered
    <2>2. c2s' \in Seq({ByeCommand})
      BY <2>1
    <2>3. Calm'
      BY <1>1, <1>4, <2>1, <2>2 DEF Calm, Resting
    <2>4. QED
      BY <1>1, <1>4, <2>3 DEF Core, Handshake, Idle
  <1>5. CASE Answered /\ s2c = <<Line("INFO", FALSE)>>
    <2>1. x = Line("INFO", FALSE) /\ Tail(s2c) = <<>>
      BY <1>0, <1>5, OneOK, Zenon
    <2>2. x.kind = "line" /\ x.ok = FALSE
      BY <2>1 DEF Line
    <2>3. s2c' = <<>> /\ pc' = "idle"
      BY <1>1, <2>1, <2>2 DEF Accepted
    <2>4. QED
      BY <1>4, <1>5, <2>3
  <1>6. CASE Answered /\ Infos
    <2>1. x.kind = "info" /\ (1 < Len(s2c) => x.more)
      BY <1>2, <1>6 DEF Infos
    <2>2. s2c' = Tail(s2c)
      BY <1>1, <2>1 DEF Accepted
    <2>3. CASE x.more
      <3>1. \A k \in 1..Len(s2c') : s2c'[k].kind = "info" /\ (k < Len(s2c') => s2c'[k].more)
        BY <1>2, <1>6, <2>2 DEF Infos
      <3>2. ASSUME up PROVE s2c' # <<>> /\ ~s2c'[Len(s2c')].more
        <4>1. Len(s2c) # 1 /\ ~s2c[Len(s2c)].more
          BY <1>2, <1>6, <2>3, <3>2 DEF Infos
        <4>2. Len(s2c') \in 1..Len(s2c') /\ Len(s2c') + 1 = Len(s2c)
          BY <1>2, <2>2, <4>1
        <4>3. s2c'[Len(s2c')] = s2c[Len(s2c)]
          BY <1>2, <2>2, <4>2
        <4>4. QED
          BY <1>2, <2>2, <4>1, <4>3
      <3>3. Infos'
        BY <1>1, <3>1, <3>2 DEF Infos
      <3>4. c2s' = <<>>
        BY <1>1, <1>6 DEF Answered
      <3>5. Answered'
        BY <1>1, <1>6, <3>3, <3>4 DEF Answered
      <3>6. QED
        BY <1>1, <2>1, <2>3, <3>5 DEF Core, Handshake
    <2>4. CASE ~x.more
      <3>1. s2c' = <<>> /\ pc' = "idle"
        BY <1>1, <1>2, <2>1, <2>2, <2>4
      <3>2. QED
        BY <1>4, <1>6, <3>1
    <2>5. QED
      BY <2>3, <2>4
  <1>7. CASE ~sock
    BY <1>1, <1>7 DEF Core, Handshake
  <1>8. QED
    BY <1>1, <1>3, <1>5, <1>6, <1>7 DEF Core, Answered

(* So every step of such a client keeps it,                                *)
LEMMA CoreStep ==
    ASSUME TypeOK, Inv, LeaveInv, ProtoInv, DialInv, PlanInv, UniInv, NamedInv, BatchV3, WalkInv,
           StreamingInv, Tame, Core, Mannered, [Next]_vars
    PROVE  Core'
  <1>1. CASE ConnectSocket /\ Accept
    <2>1. pc' = "hello" /\ srv' = Fresh /\ UNCHANGED streaming /\ pc = "socket"
      BY <1>1 DEF ConnectSocket, Accept, Goto
    <2>2. ~streaming'
      BY <2>1 DEF Inv, LinkInv, StreamingInv
    <2>3. QED
      BY <2>1, <2>2 DEF Core, Handshake, Fresh
  <1>2. CASE (ClientStep \/ GoneQuiet \/ GoneLate) /\ UNCHANGED serverVars
    <2>1. CASE pc \in Handshake
      BY <1>2, <2>1, CoreGreets
    <2>2. UNCHANGED conf
      BY ConfStays
    <2>3. CASE Mishap \/ ReadEof \/ RecvTrouble \/ GoneQuiet \/ GoneLate \/ CallReconnect \/ Close
               \/ Break
      BY <2>2, <2>3, CoreFails DEF Mannered
    <2>4. CASE CallConnect \/ CallNegotiate \/ CallInfo \/ CallCollect
      BY <1>2, <2>4, CoreCalls
    <2>5. CASE Bye \/ Keepalive
      BY <1>2, <2>5, CoreJoined
    <2>6. CASE NegotiateStep
      BY <1>2, <2>6, CoreStarts, CoreSkips, CoreSendsOn, CoreAsks, CoreReplied, CoreFinishes
      DEF NegotiateStep
    <2>7. CASE RecvData \/ RecvInfo \/ RecvEnd \/ Resume \/ PollNothing \/ Delay
               \/ LoopDisconnected
      BY <1>2, <2>7, CoreCollects DEF Inv
    <2>8. CASE SendInfo \/ ReadInfo
      BY <1>2, <2>8, CoreInforms, CoreInformed
    <2>9. CASE ConnectStep
      BY <2>1, <2>9 DEF ConnectStep, SendHello, ReadIdentity, SendGreeting, ReadGreeting,
         Connected, Handshake
    <2>10. QED
      BY <1>2, <2>3, <2>4, <2>5, <2>6, <2>7, <2>8, <2>9
      DEF ClientStep, User, Call, Progress, CollectStep
  <1>3. CASE UNCHANGED clientVars /\ (ServerNext \/ (Drop /\ UNCHANGED serverVars))
    BY <1>3, CoreServed
  <1>4. CASE UNCHANGED vars
    <2>1. UNCHANGED <<pc, sock, streaming, pos, walk, cmd, conf, protocol, outcome, up, c2s, s2c, srv>>
      BY <1>4 DEF vars, clientVars, wireVars, serverVars
    <2>2. /\ Done' = Done /\ Given' = Given
          /\ (Calm => Calm') /\ (Awaited => Awaited') /\ (Answered => Answered')
          /\ (Flows => Flows') /\ (Spent => Spent')
      BY <2>1, NothingNew DEF Done, Given
    <2>3. QED
      BY <2>1, <2>2 DEF Core, Idle
  <1>5. QED
    BY <1>1, <1>2, <1>3, <1>4 DEF Next, Terminated

-----------------------------------------------------------------------------
(* What is under way is what is awaited.                                   *)

(* Where nothing is a reply and nothing asks for one, none is outstanding; *)
LEMMA NoneDue ==
    ASSUME \A k \in 1..Len(s2c) : ~IsReply(s2c[k]), \A k \in 1..Len(c2s) : c2s[k].parse = "none"
    PROVE  Outstanding = 0
  <1>1. {k \in 1..Len(s2c) : IsReply(s2c[k])} = {} /\ {k \in 1..Len(c2s) : Expects(c2s[k])} = {}
    BY DEF Expects
  <1>2. Outstanding = Cardinality({}) + Cardinality({})
    BY <1>1, Zenon DEF Outstanding
  <1>3. QED
    BY <1>2, FS_EmptySet

(* one command that asks, or one reply, makes one.                         *)
LEMMA OneDue ==
    ASSUME s2c = <<>>, NEW m \in 1..Len(c2s), c2s[m].parse # "none",
           \A k \in 1..Len(c2s) : k # m => c2s[k].parse = "none"
    PROVE  Outstanding = 1
  <1>1. {k \in 1..Len(s2c) : IsReply(s2c[k])} = {}
    OBVIOUS
  <1>2. {k \in 1..Len(c2s) : Expects(c2s[k])} = {m}
    BY DEF Expects
  <1>3. Cardinality({}) = 0 /\ Cardinality({m}) = 1
    BY FS_EmptySet, FS_Singleton
  <1>4. Outstanding = Cardinality({}) + Cardinality({m})
    BY <1>1, <1>2, Zenon DEF Outstanding
  <1>5. QED
    BY <1>3, <1>4

LEMMA OneCome ==
    ASSUME c2s = <<>>, NEW x, s2c = <<x>>, IsReply(x)
    PROVE  Outstanding = 1
  <1>1. Len(s2c) = 1 /\ s2c[1] = x
    OBVIOUS
  <1>2. {k \in 1..Len(s2c) : IsReply(s2c[k])} = {1}
    <2>1. \A k \in 1..Len(s2c) : k = 1
      BY <1>1
    <2>2. IsReply(s2c[1])
      BY <1>1
    <2>3. QED
      BY <1>1, <2>1, <2>2
  <1>3. {k \in 1..Len(c2s) : Expects(c2s[k])} = {}
    OBVIOUS
  <1>4. Cardinality({}) = 0 /\ Cardinality({1}) = 1
    BY FS_EmptySet, FS_Singleton
  <1>5. Outstanding = Cardinality({1}) + Cardinality({})
    BY <1>2, <1>3, Zenon DEF Outstanding
  <1>6. QED
    BY <1>4, <1>5

(* Commands between which, or before and after which, nothing is read.     *)
LEMMA Unread ==
    /\ ByeCommand.parse = "none" /\ PingCommand.parse = "none" /\ InfoCommand.parse = "none"
    /\ \A batch, uni : \A c \in InPlan(batch, uni) : c.parse = "none"
    /\ \A keepalive : \A c \in Between(keepalive) : c.parse = "none"
  <1>1. ByeCommand.parse = "none" /\ PingCommand.parse = "none" /\ InfoCommand.parse = "none"
    BY DEF ByeCommand, PingCommand, InfoCommand, Generic
  <1>2. QED
    BY <1>1 DEF InPlan, Silent, Between

LEMMA UnreadAround ==
    ASSUME NEW before, NEW after, NEW n \in 1..Len(c2s), StartsAt(n, before, after),
           \A c \in before \cup after : c.parse = "none", TypeOK
    PROVE  \A k \in 1..Len(c2s) : c2s[k].parse = "none"
  <1>1. Len(c2s) \in Nat
    BY DEF TypeOK, WireTypeOK
  <1>2. ASSUME NEW k \in 1..Len(c2s) PROVE c2s[k].parse = "none"
    <2>1. k < n \/ k = n \/ n < k
      BY <1>1
    <2>2. QED
      BY <2>1 DEF StartsAt
  <1>3. QED
    BY <1>2

(* While frames are read no reply line is under way.                       *)
LEMMA FlowsUnread ==
    ASSUME TypeOK, Inv, Flows
    PROVE  Outstanding = 0
  <1>1. \A k \in 1..Len(s2c) : ~IsReply(s2c[k])
    BY DEF Flows, Heard
  <1>2. CASE ~up
    <2>1. c2s = <<>>
      BY <1>2 DEF Inv, LinkInv
    <2>2. QED
      BY <1>1, <2>1, NoneDue
  <1>3. CASE up /\ ToCome
    <2>1. PICK before, after : /\ before = InPlan(srv.batch, UniNow)
                               /\ after = Between(conf.keepalive)
      OBVIOUS
    <2>2. PICK n \in 1..Len(c2s) : StartsAt(n, before, after)
      BY <1>3, <2>1 DEF ToCome
    <2>3. \A c \in before \cup after : c.parse = "none"
      BY <2>1, Unread
    <2>4. \A k \in 1..Len(c2s) : c2s[k].parse = "none"
      BY <2>2, <2>3, UnreadAround
    <2>5. QED
      BY <1>1, <2>4, NoneDue
  <1>4. CASE up /\ Begun
    <2>1. c2s \in Seq(Between(conf.keepalive))
      BY <1>4 DEF Begun
    <2>2. \A k \in 1..Len(c2s) : c2s[k] \in Between(conf.keepalive)
      BY <2>1
    <2>3. \A k \in 1..Len(c2s) : c2s[k].parse = "none"
      BY <2>2, Unread
    <2>4. QED
      BY <1>1, <2>3, NoneDue
  <1>5. CASE up /\ Over
    <2>1. c2s \in Seq({ByeCommand})
      BY <1>5 DEF Over
    <2>2. \A k \in 1..Len(c2s) : c2s[k].parse = "none"
      BY <2>1, Unread
    <2>3. QED
      BY <1>1, <2>2, NoneDue
  <1>6. QED
    BY <1>2, <1>3, <1>4, <1>5 DEF Flows

LEMMA SpentUnread ==
    ASSUME TypeOK, Inv, Spent
    PROVE  Outstanding = 0
  <1>1. \A k \in 1..Len(s2c) : ~IsReply(s2c[k])
    BY DEF Spent, Heard
  <1>2. CASE ~up
    <2>1. c2s = <<>>
      BY <1>2 DEF Inv, LinkInv
    <2>2. QED
      BY <1>1, <2>1, NoneDue
  <1>3. CASE up /\ srv.phase = "command"
    <2>1. PICK n \in 1..Len(c2s) : StartsAt(n, {ByeCommand}, {ByeCommand, InfoCommand})
      BY <1>3 DEF Spent
    <2>2. \A k \in 1..Len(c2s) : c2s[k].parse = "none"
      BY <2>1, Unread, UnreadAround
    <2>3. QED
      BY <1>1, <2>2, NoneDue
  <1>4. CASE up /\ srv.phase # "command"
    <2>1. c2s \in Seq({ByeCommand, InfoCommand})
      BY <1>4 DEF Spent, TypeOK, ServerTypeOK, ServerState
    <2>2. \A k \in 1..Len(c2s) : c2s[k] \in {ByeCommand, InfoCommand}
      BY <2>1
    <2>3. QED
      BY <1>1, <2>2, Unread, NoneDue
  <1>5. QED
    BY <1>2, <1>3, <1>4

LEMMA AnsweredUnread ==
    ASSUME TypeOK, Answered
    PROVE  Outstanding = 0
  <1>1. \A k \in 1..Len(s2c) : ~IsReply(s2c[k])
    <2>1. CASE c2s # <<>>
      BY <2>1 DEF Answered
    <2>2. CASE s2c = <<Line("INFO", FALSE)>>
      <3>1. PICK x : x = Line("INFO", FALSE)
        OBVIOUS
      <3>2. x.kind = "line" /\ x.name = "INFO"
        BY <3>1 DEF Line
      <3>3. s2c = <<x>>
        BY <2>2, <3>1, Zenon
      <3>4. \A k \in 1..Len(s2c) : s2c[k] = x
        BY <3>3
      <3>5. QED
        BY <3>2, <3>4 DEF IsReply
    <2>3. CASE Infos
      BY <2>3 DEF Infos, IsReply
    <2>4. QED
      BY <2>1, <2>2, <2>3 DEF Answered
  <1>2. \A k \in 1..Len(c2s) : c2s[k].parse = "none"
    <2>1. Len(c2s) \in Nat
      BY DEF TypeOK, WireTypeOK
    <2>2. CASE c2s = <<>>
      BY <2>2
    <2>3. CASE LastIs(c2s, InfoCommand)
      <3>1. ASSUME NEW k \in 1..Len(c2s) PROVE c2s[k] \in {ByeCommand, InfoCommand}
        BY <2>1, <2>3 DEF LastIs
      <3>2. QED
        BY <3>1, Unread
    <2>4. QED
      BY <2>2, <2>3 DEF Answered
  <1>3. QED
    BY <1>1, <1>2, NoneDue

(* Where a reply is read it is the one outstanding, and that of the        *)
(* command sent last.                                                      *)
OwnReply ==
    /\ Outstanding <= 1
    /\ up => Outstanding = 1
    /\ \A k \in 1..Len(s2c) :
          IsReply(s2c[k]) => \/ s2c[k].kind = "hello" /\ cmd.name = "HELLO"
                             \/ s2c[k].kind = "line" /\ s2c[k].name = cmd.name

LEMMA AwaitedRead ==
    ASSUME TypeOK, PlanInv, WalkInv, pc = "reply", Awaited
    PROVE  OwnReply
  <1>1. cmd.parse # "none" /\ cmd.name \in {"STATION", "SELECT", "DATA", "FETCH", "TIME"}
    <2>1. cmd = Current /\ pos.s \in StreamIds /\ cmd.parse # "none"
      BY DEF WalkInv, PlanInv
    <2>2. QED
      BY <2>1, CurrentIs
  <1>2. CASE c2s # <<>>
    <2>1. s2c = <<>> /\ LastIs(c2s, cmd) /\ c2s \in Seq(Command)
      BY <1>2 DEF Awaited, TypeOK, WireTypeOK
    <2>2. Len(c2s) \in 1..Len(c2s)
      BY <1>2, <2>1, Empty
    <2>3. \A k \in 1..Len(c2s) : k # Len(c2s) => c2s[k].parse = "none"
      BY <2>1, <2>2, Unread DEF LastIs
    <2>4. Outstanding = 1
      BY <1>1, <2>1, <2>2, <2>3, OneDue DEF LastIs
    <2>5. QED
      BY <2>1, <2>4 DEF OwnReply
  <1>3. CASE c2s = <<>> /\ \E ok \in BOOLEAN : s2c = <<Line(cmd.name, ok)>>
    <2>1. PICK ok \in BOOLEAN : s2c = <<Line(cmd.name, ok)>>
      BY <1>3
    <2>2. PICK x : x = Line(cmd.name, ok)
      OBVIOUS
    <2>3. x.kind = "line" /\ x.name = cmd.name
      BY <2>2 DEF Line
    <2>4. IsReply(x)
      BY <1>1, <2>3 DEF IsReply
    <2>5. Outstanding = 1
      BY <1>3, <2>1, <2>2, <2>4, OneCome
    <2>6. \A k \in 1..Len(s2c) : s2c[k] = x
      BY <2>1, <2>2
    <2>7. QED
      BY <2>3, <2>5, <2>6 DEF OwnReply
  <1>4. CASE c2s = <<>> /\ ~up /\ s2c = <<>>
    <2>1. Outstanding = 0
      BY <1>4, NoneDue
    <2>2. QED
      BY <1>4, <2>1 DEF OwnReply
  <1>5. QED
    BY <1>2, <1>3, <1>4 DEF Awaited

LEMMA GreetedRead ==
    ASSUME TypeOK, Inv, Greeted, pc \in {"identity", "greeting"}
    PROVE  OwnReply
  <1>1. /\ cmd.parse # "none" /\ InFlight
        /\ pc = "identity" => cmd.name = "HELLO"
        /\ pc = "greeting" => cmd.name \in Settings
    BY DEF Greeted, Inv, Lockstep, Hello, Generic
  <1>2. CASE c2s = <<cmd>> /\ s2c = <<>>
    <2>1. Len(c2s) = 1 /\ c2s[1] = cmd /\ 1 \in 1..Len(c2s)
      BY <1>2
    <2>2. Outstanding = 1
      BY <1>1, <1>2, <2>1, OneDue
    <2>3. QED
      BY <1>2, <2>2 DEF OwnReply
  <1>3. CASE c2s = <<>> /\ s2c = <<>>
    <2>1. Outstanding = 0 /\ ~up
      BY <1>3, NoneDue DEF Greeted
    <2>2. QED
      BY <1>3, <2>1 DEF OwnReply
  <1>4. ASSUME NEW x \in Item, s2c = <<x>>, c2s = <<>> PROVE OwnReply
    <2>1. Head(s2c) = x /\ s2c # <<>> /\ \A k \in 1..Len(s2c) : s2c[k] = x
      BY <1>4
    <2>2. IF pc = "identity" THEN x.kind = "hello"
          ELSE \E ok \in BOOLEAN : x = Line(cmd.name, ok)
      BY <2>1 DEF Greeted
    <2>3. /\ IsReply(x)
          /\ \/ x.kind = "hello" /\ cmd.name = "HELLO"
             \/ x.kind = "line" /\ x.name = cmd.name
      <3>1. CASE pc = "identity"
        BY <1>1, <2>2, <3>1 DEF IsReply
      <3>2. CASE pc = "greeting"
        <4>1. x.kind = "line" /\ x.name = cmd.name
          BY <2>2, <3>2 DEF Line
        <4>2. QED
          BY <1>1, <3>2, <4>1 DEF IsReply, Settings
      <3>3. QED
        BY <3>1, <3>2
    <2>4. Outstanding = 1
      BY <1>4, <2>3, OneCome
    <2>5. QED
      BY <2>1, <2>3, <2>4 DEF OwnReply
  <1>5. QED
    BY <1>1, <1>2, <1>3, <1>4 DEF InFlight

(* So replies never fall out of step with commands.                        *)
LEMMA Aligned ==
    ASSUME TypeOK, Inv, StreamingInv, PlanInv, Greeted, WalkInv, Core
    PROVE  ReplyAligned
  <1> SUFFICES ASSUME Reading
               PROVE  IF Awaiting THEN OwnReply ELSE Outstanding = 0
    BY DEF ReplyAligned, OwnReply
  <1>1. CASE pc \in {"identity", "greeting"}
    BY <1>1, GreetedRead DEF Awaiting
  <1>2. CASE pc = "reply"
    BY <1>2, AwaitedRead DEF Awaiting, Core, Reading
  <1>3. CASE pc = "frames"
    BY <1>3, AnsweredUnread, SpentUnread DEF Awaiting, Core, Reading
  <1>4. CASE pc = "loop"
    BY <1>4, FlowsUnread DEF Awaiting, Core, Reading
  <1>5. QED
    BY <1>1, <1>2, <1>3, <1>4 DEF Reading

-----------------------------------------------------------------------------
(* The blocking client.                                                    *)

(* What the steps above rest on.                                           *)
Agreed ==
    /\ TypeOK /\ Inv /\ LeaveInv /\ ProtoInv /\ StreamingInv /\ DialInv /\ PlanInv /\ UniInv
    /\ NamedInv /\ BatchV3 /\ Greeted /\ WalkInv

LEMMA AgreedInit == Init => Agreed
  <1> SUFFICES ASSUME Init PROVE Agreed
    OBVIOUS
  <1>1. LeaveInv /\ StreamingInv /\ PlanInv /\ BatchV3 /\ Greeted /\ WalkInv
    BY DEF Init, ClientInit, LeaveInv, StreamingInv, PlanInv, BatchV3, Greeted, WalkInv,
       Handshake
  <1>2. /\ c2s \in Seq(Unversioned) /\ c2s \in Seq(Told(conf.dialup))
        /\ c2s \in Seq(Unaddressed) /\ c2s \in Seq(Named) /\ s2c \in Seq(Endless)
    BY DEF Init, WireInit
  <1>3. ProtoInv /\ DialInv /\ UniInv /\ NamedInv
    BY <1>2 DEF Init, WireInit, ServerInit, Fresh, ClientInit, ProtoInv, DialInv, UniInv,
       NamedInv, Handshake
  <1>4. QED
    BY <1>1, <1>3, TypeInit, InvInit DEF Agreed

LEMMA AgreedStep == Agreed /\ [Next]_vars => Agreed'
  BY TypeStep, InvStep, LeaveStep, ProtoStep, StreamingStep, DialStep, UniStep, NamedStep,
     BatchV3Step, GreetedStep, WalkStep DEF Agreed

(* At first nothing is connected.                                          *)
LEMMA CoreInit == Init => Core
  BY DEF Init, ClientInit, Core, Handshake

(* A careful user, who closes the client after a failed call, is mannered. *)
CarefulInv == conf.careful /\ Tame => Core

LEMMA CarefulStep == Agreed /\ CarefulInv /\ [Next]_vars => CarefulInv'
  <1> SUFFICES ASSUME Agreed, CarefulInv, [Next]_vars, conf'.careful, Tame' PROVE Core'
    BY DEF CarefulInv
  <1>1. conf.careful /\ Tame
    BY ConfStays DEF Tame
  <1>2. Core
    BY <1>1 DEF CarefulInv
  <1>3. Mannered
    BY <1>1 DEF Mannered, CallNegotiate
  <1>4. QED
    BY <1>1, <1>2, <1>3, CoreStep DEF Agreed

(* Every reply line that a careful user's client reads is the one reply to *)
(* the command it sent last, and nothing else asks for one meanwhile       *)
(* (_commands.py: one line sent, "exactly one reply line" read back).  Of  *)
(* a dial-up transfer with a keepalive this says nothing: there the reply  *)
(* to a keepalive may come after END, and meet the next call.              *)
THEOREM RepliesAligned ==
    Spec => [](~(conf.dialup /\ conf.keepalive) => AlignedIfCareful)
  <1>1. Init => CarefulInv
    BY CoreInit DEF CarefulInv
  <1>2. Agreed /\ CarefulInv => (~(conf.dialup /\ conf.keepalive) => AlignedIfCareful)
    BY Aligned DEF Agreed, CarefulInv, Tame, AlignedIfCareful
  <1>3. QED
    BY <1>1, <1>2, AgreedInit, AgreedStep, CarefulStep, PTL DEF Spec

-----------------------------------------------------------------------------
(* The station a command is for.                                            *)

(* What the server applies a SELECT or DATA to: in the plan, and when a    *)
(* reply is awaited, the station of the plan's stream; and what a call     *)
(* that failed has left under way is for that station too.                 *)
Stationless == {c \in Command : c.role \notin {"select", "data"}}

Left == \/ c2s \in Seq(Stationless)
        \/ srv.phase = "command" /\ \E c \in Command : LastIs(c2s, c) /\ srv.cur = c.stream

StationInv ==
    up /\ ~UniNow =>
        /\ pc = "walk" /\ ~srv.batch /\ pos.s \in StreamIds /\ pos.k # 0 /\ ~walk.skip =>
              srv.cur = pos.s
        /\ pc = "reply" /\ c2s = <<>> /\ cmd.role = "station" /\ Accepted(Head(s2c)) =>
              srv.cur = pos.s
        /\ pc = "reply" /\ cmd.role # "station" => srv.cur = pos.s
        /\ Given => Left

(* The server applies them where they belong,                              *)
LEMMA StationServed ==
    ASSUME TypeOK, Inv, Inv', ProtoInv, NamedInv, UniInv, PlanInv, WalkInv, Core, StationInv,
           UNCHANGED clientVars, ServerNext \/ (Drop /\ UNCHANGED serverVars)
    PROVE  StationInv'
  <1> SUFFICES ASSUME up', ~UniNow'
               PROVE  /\ pc = "walk" /\ ~srv'.batch /\ pos.s \in StreamIds /\ pos.k # 0
                         /\ ~walk.skip => srv'.cur = pos.s
                      /\ pc = "reply" /\ c2s' = <<>> /\ cmd.role = "station"
                         /\ Accepted(Head(s2c')) => srv'.cur = pos.s
                      /\ pc = "reply" /\ cmd.role # "station" => srv'.cur = pos.s
                      /\ Given => Left'
    BY DEF StationInv, clientVars, Given, Accepted
  <1>1. /\ UNCHANGED <<pc, pos, walk, cmd, conf, protocol, sock, batch_active>> /\ ~UniNow
        /\ c2s \in Seq(Command) /\ s2c \in Seq(Item)
    BY DEF clientVars, UniNow, TypeOK, WireTypeOK
  <1>2. ServerNext /\ up
    BY ServerSteps DEF Drop, Pours, SendEnd, Handles
  <1>3. sock
    BY <1>2 DEF ProtoInv
  <1>4. pc # "greeting" => srv'.batch = srv.batch
    BY <1>1, <1>2, <1>3 DEF Inv, BatchAgrees
  <1>5. /\ pc = "walk" /\ ~srv.batch /\ pos.s \in StreamIds /\ pos.k # 0 /\ ~walk.skip =>
              srv.cur = pos.s
        /\ pc = "reply" /\ c2s = <<>> /\ cmd.role = "station" /\ Accepted(Head(s2c)) =>
              srv.cur = pos.s
        /\ pc = "reply" /\ cmd.role # "station" => srv.cur = pos.s
        /\ Given => Left
    BY <1>1, <1>2 DEF StationInv
  <1>6. CASE UNCHANGED <<up, c2s, s2c, srv>>
    <2>1. Left => Left'
      BY <1>6 DEF Left, LastIs
    <2>2. QED
      BY <1>5, <1>6, <2>1
  <1>7. CASE Pours \/ SendEnd
    <2>1. srv.phase = "stream" /\ UNCHANGED c2s
      BY <1>7 DEF Pours, SendEnd
    <2>2. Left => Left'
      BY <2>1 DEF Left
    <2>3. pc # "reply"
      BY <1>2, <1>3, <2>1 DEF Core, Awaited
    <2>4. ~(pc = "walk" /\ pos.s \in StreamIds)
      <3>1. ASSUME pc = "walk", pos.s \in StreamIds PROVE FALSE
        <4>1. ~Done
          BY <3>1, CommandsAssumption
          DEF Done, PlanDone, StreamIds, TypeOK, ClientTypeOK, PlanPos
        <4>2. QED
          BY <1>2, <1>3, <2>1, <3>1, <4>1 DEF Core, Calm
      <3>2. QED
        BY <3>1
    <2>5. QED
      BY <1>5, <2>2, <2>3, <2>4
  <1>8. CASE Handles /\ Serve
    <2>1. ASSUME pc = "walk", ~srv'.batch, pos.s \in StreamIds PROVE FALSE
      <3>1. ~Done /\ ~srv.batch
        BY <1>4, <2>1, CommandsAssumption
        DEF Done, PlanDone, StreamIds, TypeOK, ClientTypeOK, PlanPos
      <3>2. Walking
        BY <1>2, <1>3, <2>1, <3>1 DEF Core, Calm
      <3>3. c2s \in Seq({ByeCommand})
        <4>1. InPlan(srv.batch, UniNow) = {ByeCommand}
          BY <3>1 DEF InPlan
        <4>2. QED
          BY <3>2, <4>1 DEF Walking
      <3>4. QED
        BY <1>8, <3>3, HeadOf
    <2>2. ASSUME pc = "reply"
          PROVE  /\ cmd.role = "station" /\ Accepted(Head(s2c')) => srv'.cur = pos.s
                 /\ cmd.role # "station" => srv'.cur = pos.s
      <3>1. /\ c2s # <<>> /\ srv.phase = "command" /\ s2c = <<>> /\ LastIs(c2s, cmd)
            /\ ~srv.batch /\ Addressed
        BY <1>1, <1>2, <1>3, <1>8, <2>2 DEF Core, Awaited, Handles
      <3>2. Head(c2s) = cmd /\ cmd.name # "BYE" /\ cmd \in Named
        <4>1. Head(c2s) = cmd /\ cmd.name # "BYE"
          BY <1>8, <3>1, HandledLast DEF Handles
        <4>2. Head(c2s) \in Named
          BY <3>1, AfterHead DEF NamedInv
        <4>3. QED
          BY <4>1, <4>2
      <3>3. cmd = Current /\ pos.s \in StreamIds
        BY <2>2 DEF WalkInv, PlanInv
      <3>4. cmd.role \in {"station", "select", "data"} /\ cmd.stream = pos.s
        BY <3>3, CurrentIs
      <3>5. srv.multi \/ cmd.role = "station"
        BY <3>1, <3>2 DEF Addressed, Named
      <3>6. /\ cmd.role # "station" => srv'.cur = srv.cur
            /\ \E ok \in BOOLEAN : /\ s2c' = Append(s2c, Line(cmd.name, ok))
                                   /\ cmd.role = "station" /\ ok => srv'.cur = cmd.stream
        BY <1>8, <3>1, <3>2, <3>4, <3>5, HandledInPlan
      <3>7. PICK ok \in BOOLEAN : /\ s2c' = Append(s2c, Line(cmd.name, ok))
                                  /\ cmd.role = "station" /\ ok => srv'.cur = cmd.stream
        BY <3>6
      <3>8. PICK x : x = Line(cmd.name, ok)
        OBVIOUS
      <3>9. Head(s2c') = x /\ (Accepted(x) => ok)
        BY <3>1, <3>7, <3>8, OneOK DEF Accepted, Line
      <3>10. QED
        BY <1>5, <2>2, <3>4, <3>6, <3>7, <3>9
    <2>3. ASSUME Left PROVE Left'
      <3>1. CASE c2s \in Seq(Stationless)
        BY <1>8, <3>1, HeadOf DEF Left
      <3>2. ASSUME NEW c \in Command, LastIs(c2s, c) PROVE Left'
        <4>1. c2s' = <<>>
          BY <1>8, <3>2, HandledLast
        <4>2. c2s' \in Seq(Stationless)
          BY <4>1
        <4>3. QED
          BY <4>2 DEF Left
      <3>3. QED
        BY <2>3, <3>1, <3>2 DEF Left
    <2>4. QED
      BY <1>5, <2>1, <2>2, <2>3
  <1>9. QED
    BY <1>2, <1>6, <1>7, <1>8, ServerSteps

(* the client sends them, and awaits replies, in the plan's order,         *)
LEMMA StationWalks ==
    ASSUME TypeOK, Inv, LeaveInv, NamedInv, PlanInv, BatchV3, WalkInv, Core, StationInv,
           StartPlan \/ SkipCommand \/ SendCommand \/ ReadReply, UNCHANGED srv, conf.careful
    PROVE  StationInv'
  <1> SUFFICES ASSUME up', ~UniNow'
               PROVE  /\ pc' = "walk" /\ ~srv.batch /\ pos'.s \in StreamIds /\ pos'.k # 0
                         /\ ~walk'.skip => srv.cur = pos'.s
                      /\ pc' = "reply" /\ c2s' = <<>> /\ cmd'.role = "station"
                         /\ Accepted(Head(s2c')) => srv.cur = pos'.s
                      /\ pc' = "reply" /\ cmd'.role # "station" => srv.cur = pos'.s
                      /\ Given' => Left'
    BY DEF StationInv, Accepted
  <1>1. ~UniNow /\ sock /\ walk \in Walk /\ pos \in PlanPos
    BY DEF StartPlan, SkipCommand, SendCommand, ReadReply, identVars, LeaveInv, UniNow, TypeOK,
       ClientTypeOK
  <1>2. CASE StartPlan
    BY <1>1, <1>2 DEF StartPlan, PlanStart, UniNow, Goto, Given
  <1>3. CASE SkipCommand
    <2>1. /\ pc = "walk" /\ pc' = "walk" /\ UNCHANGED <<walk, up>> /\ walk.skip
      BY <1>3 DEF SkipCommand, Goto, ctlVars, wireVars, WalkSends
    <2>2. QED
      BY <2>1 DEF Given
  <1>4. CASE SendCommand
    <2>0. PICK c : c = Current
      OBVIOUS
    <2>1. /\ pc = "walk" /\ ~Done /\ WalkSends(walk, c) /\ Send(c) /\ c \in Command
          /\ up /\ c2s' = Append(c2s, c) /\ c2s' # <<>> /\ up' = up
      <3>1. pc = "walk" /\ ~Done /\ WalkSends(walk, c) /\ Send(c)
        BY <1>4, <2>0 DEF SendCommand, Sendable
      <3>2. c \in Command /\ c2s \in Seq(Command)
        BY <2>0, CurrentNamed DEF Named, TypeOK, WireTypeOK
      <3>3. up /\ up' = up /\ c2s' = Append(c2s, c)
        BY <3>1 DEF Send
      <3>4. QED
        BY <3>1, <3>2, <3>3, WithLast
    <2>2. CASE c.parse = "none"
      <3>1. /\ pc' = "walk" /\ pos' = PlanNext(pos)
        BY <1>4, <2>0, <2>2 DEF SendCommand, Goto
      <3>2. ASSUME pos.s \in StreamIds PROVE srv.batch
        <4>1. LineParse(protocol, batch_active) = "none"
          BY <1>1, <2>0, <2>2, <3>2, CurrentIs
        <4>2. batch_active
          BY <4>1 DEF LineParse
        <4>3. QED
          BY <1>1, <2>1, <4>2 DEF Inv, BatchAgrees
      <3>3. ASSUME pos.s \notin StreamIds PROVE pos'.k = 0
        BY <3>1, <3>3 DEF PlanNext
      <3>4. QED
        BY <2>1, <3>1, <3>2, <3>3 DEF Given
    <2>3. CASE c.parse # "none"
      <3>1. pc' = "reply" /\ cmd' = c /\ UNCHANGED pos
        BY <1>4, <2>0, <2>3 DEF SendCommand, Goto
      <3>2. pos.s \in StreamIds
        BY <2>0, <2>3, CurrentEnds
      <3>3. ASSUME c.role # "station" PROVE srv.cur = pos.s
        <4>1. c.role \in {"select", "data"} /\ pos.k # 0
          BY <2>0, <3>2, <3>3, CurrentIs
        <4>2. ~walk.skip
          BY <2>1, <4>1 DEF WalkSends
        <4>3. ~batch_active
          <5>1. LineParse(protocol, batch_active) # "none"
            BY <1>1, <2>0, <2>3, <3>2, CurrentIs
          <5>2. QED
            BY <5>1 DEF LineParse, BatchV3
        <4>4. ~srv.batch
          BY <1>1, <2>1, <4>3 DEF Inv, BatchAgrees
        <4>5. QED
          BY <1>1, <2>1, <3>2, <4>1, <4>2, <4>4 DEF StationInv
      <3>4. QED
        BY <2>1, <3>1, <3>3 DEF Given
    <2>4. QED
      BY <2>2, <2>3
  <1>5. CASE ReadReply
    <2>1. /\ pc = "reply" /\ s2c # <<>> /\ c2s = <<>> /\ pos.s \in StreamIds /\ cmd = Current
          /\ cmd.role = "station" => pos.k = 0
      <3>1. pc = "reply" /\ s2c # <<>>
        BY <1>5 DEF ReadReply
      <3>2. Awaited /\ pos.s \in StreamIds /\ cmd = Current
        BY <1>1, <3>1 DEF Core, PlanInv, WalkInv
      <3>3. cmd.role = "station" => pos.k = 0
        BY <3>2, CurrentIs
      <3>4. QED
        BY <3>1, <3>2, <3>3 DEF Awaited
    <2>2. PICK ok : ok = Accepted(Head(s2c))
      OBVIOUS
    <2>3. CASE ok \/ cmd.parse = "reply"
      <3>1. /\ pc' = "walk" /\ walk' = WalkRecord(walk, cmd, ~ok) /\ pos' = PlanNext(pos)
            /\ up' = up
        BY <1>5, <2>2, <2>3 DEF ReadReply, Goto, Take
      <3>2. pos'.k # 0 => pos'.s = pos.s
        BY <2>1, <3>1, NextPlace
      <3>3. CASE cmd.role = "station" /\ ~ok
        <4>1. walk'.skip
          BY <1>1, <3>1, <3>3 DEF WalkRecord, Walk
        <4>2. QED
          BY <3>1, <4>1 DEF Given
      <3>4. CASE cmd.role # "station" \/ ok
        <4>1. srv.cur = pos.s
          BY <1>1, <2>1, <2>2, <3>1, <3>4 DEF StationInv
        <4>2. QED
          BY <3>1, <3>2, <4>1 DEF Given
      <3>5. QED
        BY <3>3, <3>4
    <2>4. CASE ~(ok \/ cmd.parse = "reply")
      <3>1. NegotiateRaises(TRUE, Tail(s2c))
        BY <1>5, <2>2, <2>4 DEF ReadReply
      <3>2. pc' = "idle" /\ UNCHANGED c2s
        BY <3>1 DEF NegotiateRaises, Return, Disconnected, Shut
      <3>3. c2s' \in Seq(Stationless)
        BY <2>1, <3>2
      <3>4. QED
        BY <3>2, <3>3 DEF Left
    <2>5. QED
      BY <2>3, <2>4
  <1>6. QED
    BY <1>2, <1>3, <1>4, <1>5

(* What may be under way besides,                                          *)
LEMMA OthersLeft ==
    /\ Generic("BYE", "none") \in Stationless /\ Generic("INFO", "none") \in Stationless
    /\ Generic("KEEPALIVE", "none") \in Stationless
    /\ {ByeCommand} \subseteq Stationless /\ {ByeCommand, InfoCommand} \subseteq Stationless
    /\ {ByeCommand, PingCommand} \subseteq Stationless
  BY GenericOK DEF ByeCommand, InfoCommand, PingCommand, Generic, Stationless, CommandNames

(* after a negotiate() whose stations were all rejected,                    *)
LEMMA SpentLeft ==
    ASSUME TypeOK, NamedInv, Spent, up
    PROVE  Left
  <1>0. c2s \in Seq(Command)
    BY DEF TypeOK, WireTypeOK
  <1>1. {ByeCommand, InfoCommand} \subseteq Stationless
    BY OthersLeft
  <1>2. CASE srv.phase = "stream"
    BY <1>1, <1>2, Wider DEF Spent, Left
  <1>3. CASE srv.phase = "command"
    <2>1. PICK n \in 1..Len(c2s) : /\ c2s[n].name = "END"
                                   /\ StartsAt(n, {ByeCommand}, {ByeCommand, InfoCommand})
      BY <1>3 DEF Spent
    <2>2. c2s[n] \in Named
      BY DEF NamedInv
    <2>3. c2s[n] \in Stationless
      BY <2>1, <2>2 DEF Named, Stationless
    <2>4. \A k \in 1..Len(c2s) : k # n => c2s[k] \in {ByeCommand, InfoCommand}
      BY <1>0, <2>1, LenProperties DEF StartsAt
    <2>5. \A k \in 1..Len(c2s) : c2s[k] \in Stationless
      BY <1>1, <2>3, <2>4
    <2>6. QED
      BY <1>0, <2>5, AllIn DEF Left
  <1>4. QED
    BY <1>2, <1>3 DEF TypeOK, ServerTypeOK, ServerState

(* or while a reply is awaited,                                            *)
LEMMA AwaitedLeft ==
    ASSUME TypeOK, WalkInv, PlanInv, StationInv, pc = "reply", Awaited, up, ~UniNow
    PROVE  Left
  <1>0. c2s \in Seq(Command)
    BY DEF TypeOK, WireTypeOK
  <1>1. cmd = Current /\ pos.s \in StreamIds
    BY DEF WalkInv, PlanInv
  <1>2. cmd.stream = pos.s /\ cmd \in Command
    BY <1>1, CurrentIs, CurrentNamed DEF Named
  <1>3. CASE c2s = <<>>
    BY <1>3 DEF Left
  <1>4. CASE c2s # <<>> /\ cmd.role # "station"
    BY <1>2, <1>4 DEF StationInv, Awaited, Left
  <1>5. CASE c2s # <<>> /\ cmd.role = "station"
    <2>1. LastIs(c2s, cmd)
      BY <1>5 DEF Awaited
    <2>2. cmd \in Stationless
      BY <1>2, <1>5 DEF Stationless
    <2>3. \A k \in 1..Len(c2s) : c2s[k] \in Stationless
      BY <1>0, <2>1, <2>2, OthersLeft, LenProperties DEF LastIs
    <2>4. QED
      BY <1>0, <2>3, AllIn DEF Left
  <1>6. QED
    BY <1>3, <1>4, <1>5

LEMMA AnsweredLeft ==
    ASSUME TypeOK, Answered
    PROVE  Left
  <1>0. c2s \in Seq(Command)
    BY DEF TypeOK, WireTypeOK
  <1>1. CASE c2s = <<>>
    BY <1>1 DEF Left
  <1>2. CASE c2s # <<>>
    <2>1. \A k \in 1..Len(c2s) : c2s[k] \in {ByeCommand, InfoCommand}
      BY <1>0, <1>2, LenProperties DEF Answered, LastIs
    <2>2. \A k \in 1..Len(c2s) : c2s[k] \in Stationless
      BY <2>1, OthersLeft
    <2>3. QED
      BY <1>0, <2>2, AllIn DEF Left
  <1>3. QED
    BY <1>1, <1>2

(* is for that station, or for none: the user then closes the client.      *)
LEMMA StationFailed ==
    ASSUME TypeOK, Inv, LeaveInv, ProtoInv, NamedInv, PlanInv, WalkInv, Core, StationInv,
           FinishWalk \/ ReadTimesOut \/ ReadInfo, UNCHANGED srv, conf.careful,
           up', ~UniNow, Given'
    PROVE  Left'
  <1>0. /\ pc' = "idle" /\ outcome' # "ok" /\ c2s \in Seq(Command)
        /\ (Left /\ UNCHANGED c2s => Left')
    BY DEF Given, Failed, TypeOK, WireTypeOK, Left, LastIs
  <1>1. ~Disconnected
    BY DEF Disconnected, Shut
  <1>2. ASSUME NEW rest, NegotiateRaises(TRUE, rest) PROVE UNCHANGED <<up, c2s>>
    BY <1>1, <1>2 DEF NegotiateRaises
  <1>3. CASE FinishWalk
    <2>1. pc = "walk" /\ Done /\ WalkFails(walk) /\ NegotiateRaises(TRUE, s2c)
      BY <1>0, <1>3 DEF FinishWalk, Return
    <2>2. UNCHANGED <<up, c2s>> /\ Spent
      BY <1>2, <2>1 DEF Core, LeaveInv
    <2>3. QED
      BY <1>0, <2>2, SpentLeft
  <1>4. CASE ReadTimesOut /\ pc = "reply"
    <2>1. UNCHANGED <<up, c2s>> /\ up /\ sock
      BY <1>2, <1>4 DEF ReadTimesOut, Reading
    <2>2. Left
      BY <1>4, <2>1, AwaitedLeft DEF Core
    <2>3. QED
      BY <1>0, <2>1, <2>2
  <1>5. CASE ReadTimesOut /\ pc = "frames"
    <2>1. UNCHANGED <<up, c2s>> /\ up /\ sock
      BY <1>5 DEF ReadTimesOut, Reading
    <2>2. Left
      BY <1>5, <2>1, AnsweredLeft, SpentLeft DEF Core
    <2>3. QED
      BY <1>0, <2>1, <2>2
  <1>6. CASE ReadInfo
    <2>1. pc = "frames" /\ s2c # <<>> /\ UNCHANGED <<up, c2s>>
      BY <1>6, Zenon DEF ReadInfo, Take
    <2>2. sock /\ Answered
      BY <2>1 DEF Core, ProtoInv
    <2>3. c2s' = <<>>
      BY <2>1, <2>2 DEF Answered
    <2>4. c2s' \in Seq(Stationless)
      BY <2>3
    <2>5. QED
      BY <2>4 DEF Left
  <1>7. QED
    BY <1>1, <1>3, <1>4, <1>5, <1>6 DEF ReadTimesOut, ConnectRaises

(* and no other step changes any of it.                                    *)
LEMMA StationClient ==
    ASSUME TypeOK, Inv, LeaveInv, ProtoInv, NamedInv, PlanInv, BatchV3, WalkInv, Core,
           StationInv, ClientStep \/ GoneQuiet \/ GoneLate, UNCHANGED <<srv, conf>>, conf.careful
    PROVE  StationInv'
  <1>1. CASE Disconnected
    BY <1>1 DEF Disconnected, Shut, StationInv
  <1>2. CASE StartPlan \/ SkipCommand \/ SendCommand \/ ReadReply
    BY <1>2, StationWalks
  <1>3. ASSUME pc' \notin {"walk", "reply"}, ~Given' PROVE StationInv'
    BY <1>3 DEF StationInv
  <1>4. CASE FinishWalk \/ ReadTimesOut \/ ReadInfo
    <2>1. pc' \notin {"walk", "reply"} /\ (up' => UniNow' = UniNow)
      BY <1>4 DEF FinishWalk, ReadTimesOut, ReadInfo, NegotiateRaises, ConnectRaises, Return,
         Goto, UniNow, identVars
    <2>2. QED
      BY <1>4, <2>1, StationFailed DEF StationInv
  <1>5. CASE ConnectStep
    <2>1. pc' \notin {"walk", "reply"}
      BY <1>5 DEF ConnectStep, SendHello, ReadIdentity, SendGreeting, ReadGreeting, Connected,
         ConnectRaises, Return, Goto
    <2>2. Given' => Disconnected
      BY <1>5 DEF ConnectStep, SendHello, ReadIdentity, SendGreeting, ReadGreeting, Connected,
         ConnectRaises, Return, Goto, Given, Failed
    <2>3. QED
      BY <1>1, <1>3, <2>1, <2>2
  <1>6. CASE Mishap \/ ReadEof \/ RecvTrouble \/ GoneQuiet \/ GoneLate \/ CallReconnect \/ Close
             \/ Break
    BY <1>1, <1>4, <1>6, Cuts
  <1>7. CASE CallConnect \/ CallNegotiate \/ CallInfo \/ CallCollect \/ SendInfo \/ Delay \/ Resume
             \/ RecvData \/ RecvEnd
    <2>1. pc' \notin {"walk", "reply"} /\ ~Given'
      BY <1>7 DEF CallConnect, CallNegotiate, CallInfo, CallCollect, Enter, SendInfo, Delay,
         Resume, RecvData, RecvEnd, Return, Goto, Given, Failed
    <2>2. QED
      BY <1>3, <2>1
  <1>8. CASE LoopDisconnected
    <2>1. pc' \notin {"walk", "reply"} /\ ~Given'
      BY <1>8 DEF LoopDisconnected, Return, Goto, Given, Failed
    <2>2. QED
      BY <1>3, <2>1
  <1>9. CASE PollNothing \/ RecvInfo \/ Keepalive
    <2>1. pc' = "loop"
      BY <1>9 DEF PollNothing, RecvInfo, Keepalive, clientVars, ctlVars
    <2>2. QED
      BY <1>3, <2>1 DEF Given
  <1>10. CASE Bye
    <2>1. pc' = pc /\ pc \in {"idle", "yield"}
      BY <1>10 DEF Bye, Inv, CallInv
    <2>2. Disconnected \/ (UNCHANGED outcome /\ (pc = "idle" => outcome \notin Failed))
      BY <1>10 DEF Bye, Inv, CallInv
    <2>3. QED
      BY <1>1, <1>3, <2>1, <2>2 DEF Given
  <1>11. QED
    BY <1>2, <1>4, <1>5, <1>6, <1>7, <1>8, <1>9, <1>10
    DEF ClientStep, User, Call, Progress, NegotiateStep, CollectStep

LEMMA StationStep ==
    ASSUME Agreed, Agreed', Core, StationInv, [Next]_vars, conf.careful
    PROVE  StationInv'
  <1>1. CASE ConnectSocket /\ Accept
    BY <1>1 DEF ConnectSocket, Goto, StationInv, Given
  <1>2. CASE (ClientStep \/ GoneQuiet \/ GoneLate) /\ UNCHANGED serverVars
    BY <1>2, ConfStays, StationClient DEF Agreed, serverVars
  <1>3. CASE UNCHANGED clientVars /\ (ServerNext \/ (Drop /\ UNCHANGED serverVars))
    BY <1>3, StationServed DEF Agreed
  <1>4. CASE UNCHANGED vars
    BY <1>4 DEF vars, clientVars, wireVars, serverVars, StationInv, Given, Left, LastIs, UniNow
  <1>5. QED
    BY <1>1, <1>2, <1>3, <1>4 DEF Next, Terminated

(* What else is under way outside batch mode is for no station,            *)
LEMMA FlowsLeft ==
    ASSUME TypeOK, ProtoInv, Flows, up, pc \notin Handshake, ~UniNow, ~srv.batch
    PROVE  Left
  <1>0. c2s \in Seq(Command) /\ conf.keepalive \in BOOLEAN
    BY ClientAssumption DEF TypeOK, WireTypeOK, ClientTypeOK, Config
  <1>1. Between(conf.keepalive) \subseteq Stationless
    BY OthersLeft DEF Between
  <1>2. CASE ToCome
    <2>1. InPlan(srv.batch, UniNow) = {ByeCommand}
      BY DEF InPlan
    <2>2. PICK n \in 1..Len(c2s) :
             StartsAt(n, InPlan(srv.batch, UniNow), Between(conf.keepalive))
      BY <1>2 DEF ToCome
    <2>3. c2s[n].role = "end"
      BY <2>2 DEF StartsAt, Starts, UniNow, Uni
    <2>4. c2s[n] \in Stationless
      BY <1>0, <2>3 DEF Stationless
    <2>5. \A k \in 1..Len(c2s) : c2s[k] \in Stationless
      BY <1>0, <1>1, <2>1, <2>2, <2>4, OthersLeft, LenProperties DEF StartsAt
    <2>6. QED
      BY <1>0, <2>5, AllIn DEF Left
  <1>3. CASE Begun
    BY <1>1, <1>3, Wider DEF Begun, Left
  <1>4. CASE Over
    BY <1>4, OthersLeft, Wider DEF Over, Left
  <1>5. QED
    BY <1>2, <1>3, <1>4 DEF Flows

LEMMA CalmLeft ==
    ASSUME TypeOK, Calm, up, ~srv.batch
    PROVE  Left
  <1>1. InPlan(srv.batch, UniNow) = {ByeCommand}
    BY DEF InPlan
  <1>2. c2s \in Seq({ByeCommand})
    BY <1>1 DEF Calm, Walking, Resting
  <1>3. QED
    BY <1>2, OthersLeft, Wider DEF Left

(* so that what the server gets next is for the station it is at.          *)
LEMMA LeftOnIt ==
    ASSUME TypeOK, Left, c2s # <<>>, Head(c2s).role \in {"select", "data"}
    PROVE  srv.cur = Head(c2s).stream
  <1>1. /\ c2s \in Seq(Command) /\ Len(c2s) \in Nat \ {0} /\ Head(c2s) = c2s[1]
    BY AfterHead DEF TypeOK, WireTypeOK
  <1>2. CASE c2s \in Seq(Stationless)
    BY <1>2, AfterHead DEF Stationless
  <1>3. ASSUME NEW c \in Command, LastIs(c2s, c), srv.cur = c.stream
        PROVE  srv.cur = Head(c2s).stream
    <2>1. Head(c2s) # ByeCommand
      BY DEF ByeCommand, Generic
    <2>2. ASSUME Len(c2s) # 1 PROVE FALSE
      <3>1. PICK n \in Nat \ {0} : n = Len(c2s)
        BY <1>1
      <3>2. 1 \in 1..n /\ 1 < n
        BY <2>2, <3>1
      <3>3. c2s[1] = ByeCommand
        BY <1>3, <3>1, <3>2 DEF LastIs
      <3>4. QED
        BY <1>1, <2>1, <3>3
    <2>3. QED
      BY <1>1, <1>3, <2>2 DEF LastIs
  <1>4. QED
    BY <1>2, <1>3 DEF Left

LEMMA OnIt ==
    ASSUME Agreed, Core, StationInv
    PROVE  OnItsStation
  <1> SUFFICES ASSUME up, c2s # <<>>, Head(c2s).role \in {"select", "data"}, srv.multi, ~srv.batch
               PROVE  srv.cur = Head(c2s).stream
    BY DEF OnItsStation
  <1>1. TypeOK /\ Inv /\ ProtoInv /\ UniInv /\ NamedInv /\ PlanInv /\ WalkInv
    BY DEF Agreed
  <1>2. sock /\ pc \notin Before /\ ~UniNow
    BY <1>1 DEF ProtoInv, UniInv, Inv, LinkInv, Before
  <1>3. pc \in {"idle", "plan", "walk", "reply", "ask", "frames", "loop", "yield"}
    BY <1>1, <1>2 DEF TypeOK, ClientTypeOK, Steps, Before, Handshake
  <1>4. Left
    <2>1. Flows => Left
      BY <1>1, <1>2, FlowsLeft DEF Before
    <2>2. (Calm => Left) /\ (Spent => Left) /\ (Answered => Left)
      BY <1>1, CalmLeft, SpentLeft, AnsweredLeft
    <2>3. pc = "reply" /\ Awaited => Left
      BY <1>1, <1>2, AwaitedLeft
    <2>4. Given => Left
      BY <1>2 DEF StationInv
    <2>5. QED
      BY <1>2, <1>3, <2>1, <2>2, <2>3, <2>4 DEF Core, Idle
  <1>5. QED
    BY <1>1, <1>4, LeftOnIt

CarefulStation == conf.careful /\ Tame => StationInv

(* A SELECT or a DATA is handled while the server is at the station it was *)
(* meant for: those of a rejected STATION are not sent, and no reply that  *)
(* comes late is taken for a STATION's.                                    *)
THEOREM CommandsOnTheirStation ==
    Spec => [](~(conf.dialup /\ conf.keepalive) => OnItsStation)
  <1>1. Init => CarefulInv /\ CarefulStation
    BY CoreInit DEF CarefulInv, CarefulStation, Init, ClientInit, StationInv, WireInit
  <1>2. Agreed /\ Agreed' /\ CarefulInv /\ CarefulStation /\ [Next]_vars => CarefulStation'
    <2> SUFFICES ASSUME Agreed, Agreed', CarefulInv, CarefulStation, [Next]_vars,
                        conf'.careful, Tame'
                 PROVE  StationInv'
      BY DEF CarefulStation
    <2>1. conf.careful /\ Tame
      BY ConfStays DEF Tame
    <2>2. QED
      BY <2>1, StationStep DEF CarefulInv, CarefulStation
  <1>3. Agreed /\ CarefulInv /\ CarefulStation =>
           (~(conf.dialup /\ conf.keepalive) => OnItsStation)
    BY OnIt DEF CarefulInv, CarefulStation, Tame, OnItsStation
  <1>4. QED
    BY <1>1, <1>2, <1>3, AgreedInit, AgreedStep, CarefulStep, PTL DEF Spec

-----------------------------------------------------------------------------
(* The asyncio client.                                                     *)

(* A step of AioNext that is none of Session's closes the connection,      *)
Severed ==
    /\ Disconnected /\ UNCHANGED <<conf, identVars, planVars, dataVars, faults, serverVars>>
    /\ calls' = calls /\ outcome' \in Outcomes /\ call' \in Methods
    /\ pc' \in {"idle", "delay", "loop"}
    /\ call' = "none" <=> pc' = "idle"
    /\ call' = "collect" => conf.reconnect

(* or leaves it as it is.                                                  *)
Frozen == /\ UNCHANGED <<up, c2s, s2c, clientVars, serverVars>>
          /\ faults' \in 0..MaxFaults

(* Its user negotiates on a connection where nothing is under way, and a   *)
(* read that expires closes.                                               *)
LEMMA AioMannered ==
    ASSUME TypeOK, Inv, AioMoving
    PROVE  Mannered
  <1>1. ASSUME ReadTimesOut PROVE FALSE
    <2>0. faults' # faults /\ pc \in {"identity", "greeting", "reply", "frames"} /\ s2c = <<>>
      BY <1>1 DEF ReadTimesOut, Fault, Reading, TypeOK, WireTypeOK
    <2>1. ~AioUser
      BY <2>0 DEF AioUser, AioConnect, AioReconnect, AioNegotiate, AioInfo, AioCollect, AioClose,
         AioBye, AioBreak, CallConnect, CallReconnect, CallNegotiate, CallInfo, CallCollect,
         Close, Bye, Break, wireVars
    <2>2. ~(AioHello \/ AioHandshake \/ AioWalk)
      BY <2>0 DEF AioHello, AioHandshake, AioWalk, SendHello, ReadIdentity, SendGreeting,
         ReadGreeting, Connected, StartPlan, SkipCommand, SendCommand, ReadReply, FinishWalk,
         wireVars
    <2>3. ~(AioReply \/ AioRetry \/ AioFrame \/ Resume \/ Keepalive)
      BY <2>0 DEF AioReply, AioRetry, AioFrame, SendInfo, ReadInfo, Delay, LoopDisconnected,
         RecvData, RecvInfo, RecvEnd, RecvTrouble, Resume, Keepalive, wireVars
    <2>4. ~(AioSendFails \/ AioGarbled \/ AioRefused \/ GoneQuiet \/ GoneLate)
      BY <2>0 DEF AioSendFails, AioGarbled, AioRefused, SendFails, ReadGarbled, ConnectRefused,
         GoneQuiet, GoneLate, IdleTimeout
    <2>5. QED
      BY <2>1, <2>2, <2>3, <2>4 DEF AioMoving, AioProgress
  <1>2. ASSUME CallNegotiate \/ CallCollect PROVE AioNegotiate \/ AioCollect
    <2>0. /\ pc = "idle" /\ pc' # "idle" /\ call' \in {"negotiate", "start", "collect"}
          /\ UNCHANGED wireVars
      BY <1>2 DEF CallNegotiate, CallCollect, Enter, Inv, CallInv
    <2>1. ~(AioConnect \/ AioReconnect \/ AioInfo \/ AioClose \/ AioBye \/ AioBreak)
      BY <2>0 DEF AioConnect, AioReconnect, AioInfo, AioClose, AioBye, AioBreak, CallConnect,
         CallReconnect, CallInfo, Enter, Close, Bye, Break
    <2>2. ~(AioHello \/ AioHandshake \/ AioWalk)
      BY <2>0 DEF AioHello, AioHandshake, AioWalk, SendHello, ReadIdentity, SendGreeting,
         ReadGreeting, Connected, StartPlan, SkipCommand, SendCommand, ReadReply, FinishWalk
    <2>3. ~(AioReply \/ AioRetry \/ AioFrame \/ Resume \/ Keepalive)
      BY <2>0 DEF AioReply, AioRetry, AioFrame, SendInfo, ReadInfo, Delay, LoopDisconnected,
         RecvData, RecvInfo, RecvEnd, RecvTrouble, Resume, Keepalive
    <2>4. ~(AioSendFails \/ AioGarbled \/ AioRefused \/ GoneQuiet \/ GoneLate)
      BY <2>0 DEF AioSendFails, AioGarbled, AioRefused, SendFails, ReadGarbled, ConnectRefused,
         GoneQuiet, GoneLate, IdleTimeout
    <2>5. QED
      BY <2>1, <2>2, <2>3, <2>4 DEF AioMoving, AioProgress, AioUser
  <1>3. ASSUME CallNegotiate PROVE ~streaming /\ ~EndSent
    <2>1. call' = "negotiate"
      BY <1>3 DEF CallNegotiate, Enter
    <2>2. ~AioCollect
      BY <2>1 DEF AioCollect, CallCollect, Enter
    <2>3. QED
      BY <1>2, <1>3, <2>2 DEF AioNegotiate
  <1>4. ASSUME CallCollect PROVE streaming \/ ~EndSent
    <2>1. call' \in {"start", "collect"}
      BY <1>4 DEF CallCollect, Enter
    <2>2. ~AioNegotiate
      BY <2>1 DEF AioNegotiate, CallNegotiate, Enter
    <2>3. QED
      BY <1>2, <1>4, <2>2 DEF AioCollect
  <1>5. QED
    BY <1>1, <1>3, <1>4 DEF Mannered

(* So of a step of neither client nor user.                                *)
LEMMA OthersMannered ==
    ASSUME TypeOK, Inv, (ConnectSocket /\ Accept) \/ UNCHANGED clientVars
    PROVE  Mannered
  <1>1. ASSUME ReadTimesOut PROVE FALSE
    <2>1. pc \in {"identity", "greeting", "reply", "frames"} /\ pc' \in {"idle", "delay"}
      BY <1>1 DEF ReadTimesOut, ConnectRaises, NegotiateRaises, Goto, Return
    <2>2. QED
      BY <2>1 DEF ConnectSocket, clientVars
  <1>2. ~CallNegotiate /\ ~CallCollect
    BY DEF CallNegotiate, CallCollect, Enter, ConnectSocket, clientVars, Inv, CallInv
  <1>3. QED
    BY <1>1, <1>2 DEF Mannered

LEMMA AioSteps ==
    ASSUME TypeOK, Inv, LeaveInv, [AioNext]_aioVars
    PROVE  ([Next]_vars /\ Mannered) \/ Severed \/ Frozen
  <1> USE DEF Outcomes, Methods
  <1>1. CASE ConnectSocket /\ Accept
    BY <1>1, OthersMannered DEF Next
  <1>2. CASE AioMoving /\ UNCHANGED serverVars
    <2>1. ClientStep \/ GoneQuiet \/ GoneLate
      BY <1>2 DEF AioMoving, AioUser, AioConnect, AioReconnect, AioNegotiate, AioInfo, AioCollect,
         AioClose, AioBye, AioBreak, AioProgress, AioHello, AioHandshake, AioWalk, AioReply,
         AioRetry, AioFrame, AioSendFails, AioGarbled, AioRefused, ClientStep, User, Call,
         Progress, ConnectStep, NegotiateStep, CollectStep, Mishap
    <2>2. QED
      BY <1>2, <2>1, AioMannered DEF Next
  <1>3. CASE (AioEof \/ Expire \/ Cancel) /\ UNCHANGED serverVars
    <2>1. ASSUME NEW how \in Outcomes, Disconnected, Return(how),
                 UNCHANGED <<conf, identVars, planVars, dataVars, faults, serverVars>>
          PROVE  Severed
      BY <2>1 DEF Severed, Return
    <2>2. ASSUME NEW step \in {"delay", "loop"}, Disconnected, Goto(step), call = "collect",
                 conf.reconnect,
                 UNCHANGED <<conf, identVars, planVars, dataVars, faults, serverVars>>
          PROVE  Severed
      BY <2>2 DEF Severed, Goto, TypeOK, ClientTypeOK
    <2>3. pc \in {"identity", "greeting", "reply", "socket"} /\ call = "collect" => conf.reconnect
      BY DEF LeaveInv
    <2>4. CASE AioEof
      <3>1. CASE pc \in {"identity", "greeting"} /\ ConnectRaises("error")
        BY <1>3, <2>1, <2>2, <2>3, <2>4, <3>1 DEF AioEof, ReadFails, ConnectRaises
      <3>2. CASE pc = "reply" /\ NegotiateRaises(FALSE, <<>>)
        BY <1>3, <2>1, <2>2, <2>3, <2>4, <3>2 DEF AioEof, ReadFails, NegotiateRaises
      <3>3. CASE pc = "frames" /\ Disconnected /\ Return("error")
        BY <1>3, <2>1, <2>4, <3>3 DEF AioEof, ReadFails
      <3>4. CASE pc = "loop" /\ LoopRaises
        <4>1. CASE ~conf.reconnect
          BY <1>3, <2>1, <2>4, <3>4, <4>1 DEF AioEof, ReadFails, LoopRaises
        <4>2. CASE conf.reconnect
          <5>1. Disconnected /\ Goto("loop")
            BY <3>4, <4>2 DEF LoopRaises
          <5>2. QED
            BY <1>3, <2>4, <3>4, <4>2, <5>1
            DEF AioEof, ReadFails, Severed, Goto, TypeOK, ClientTypeOK, Inv, CallInv
        <4>3. QED
          BY <4>1, <4>2
      <3>5. QED
        BY <2>4, <3>1, <3>2, <3>3, <3>4 DEF AioEof, ReadFails
    <2>5. CASE Expire
      <3>1. CASE InConnect /\ ConnectRaises("error")
        BY <1>3, <2>1, <2>2, <2>3, <2>5, <3>1 DEF Expire, InConnect, ConnectRaises
      <3>2. CASE pc = "reply" /\ NegotiateRaises(FALSE, <<>>)
        BY <1>3, <2>1, <2>2, <2>3, <2>5, <3>2 DEF Expire, NegotiateRaises
      <3>3. CASE Disconnected /\ Return("error")
        BY <1>3, <2>1, <2>5, <3>3 DEF Expire
      <3>4. QED
        BY <2>5, <3>1, <3>2, <3>3 DEF Expire, Deadline
    <2>6. CASE Cancel
      BY <1>3, <2>1, <2>6 DEF Cancel, CancelClose
    <2>7. QED
      BY <1>3, <2>4, <2>5, <2>6
  <1>4. CASE Stall /\ UNCHANGED serverVars
    <2>1. faults' \in 0..MaxFaults
      BY <1>4, WireAssumption DEF Stall, Fault, TypeOK, WireTypeOK
    <2>2. QED
      BY <1>4, <2>1 DEF Stall, Frozen
  <1>5. CASE UNCHANGED clientVars /\ (ServerNext \/ (Drop /\ UNCHANGED serverVars))
    BY <1>5, OthersMannered DEF Next
  <1>6. CASE UNCHANGED vars
    <2>1. UNCHANGED clientVars
      BY <1>6 DEF vars
    <2>2. QED
      BY <1>6, <2>1, OthersMannered
  <1>7. QED
    BY <1>1, <1>2, <1>3, <1>4, <1>5, <1>6 DEF AioNext, aioVars, Terminated

(* A connection that is closed agrees,                                     *)
LEMMA SeveredAgrees ==
    ASSUME Agreed, Severed
    PROVE  Agreed' /\ Core'
  <1>1. /\ up' = FALSE /\ c2s' = <<>> /\ s2c' = <<>> /\ ~sock' /\ ~streaming' /\ ~batch_active'
        /\ sock' = FALSE /\ streaming' = FALSE /\ batch_active' = FALSE
        /\ UNCHANGED <<conf, srv, protocol, capable, cmd, pos, walk, streams, delivered, faults>>
        /\ pc' \in {"idle", "delay", "loop"}
    BY DEF Severed, Disconnected, Shut, identVars, planVars, dataVars, serverVars
  <1>2. pc' \notin Handshake \cup {"plan", "walk", "reply", "ask", "frames"}
    BY <1>1 DEF Handshake
  <1>3. \A S : c2s' \in Seq(S) /\ s2c' \in Seq(S)
    BY <1>1
  <1>4. TypeOK'
    <2>1. WireTypeOK'
      BY <1>1, <1>3 DEF WireTypeOK, Agreed, TypeOK
    <2>2. ServerTypeOK'
      BY DEF Severed, serverVars, Agreed, TypeOK, ServerTypeOK
    <2>3. ClientTypeOK'
      BY <1>1 DEF Severed, Agreed, TypeOK, ClientTypeOK, Steps
    <2>4. QED
      BY <2>1, <2>2, <2>3 DEF TypeOK
  <1>5. Inv'
    BY <1>1, <1>2, CutKeepsInv DEF Severed
  <1>6. LeaveInv'
    BY <1>1 DEF Severed, LeaveInv
  <1>7. ProtoInv'
    BY <1>2, ProtoCut DEF Severed
  <1>8. StreamingInv'
    BY <1>1 DEF StreamingInv
  <1>9. DialInv'
    <2>1. c2s' \in Seq(Told(conf.dialup)) /\ s2c' \in Seq(Endless)
      BY <1>3
    <2>2. QED
      BY <1>1, <2>1 DEF DialInv, Agreed
  <1>10. PlanInv' /\ UniInv'
    <2>1. c2s' \in Seq(Unaddressed)
      BY <1>3
    <2>2. QED
      BY <1>1, <1>2, <2>1 DEF PlanInv, UniInv
  <1>11. NamedInv'
    BY <1>3 DEF NamedInv
  <1>12. BatchV3' /\ Greeted' /\ WalkInv'
    BY <1>1 DEF BatchV3, Greeted, WalkInv
  <1>13. Core'
    BY <1>2, CoreCut DEF Severed
  <1>14. QED
    BY <1>4, <1>5, <1>6, <1>7, <1>8, <1>9, <1>10, <1>11, <1>12, <1>13 DEF Agreed

(* and one that is left as it is.                                          *)
LEMMA FrozenAgrees ==
    ASSUME Agreed, Frozen
    PROVE  Agreed' /\ (Core => Core')
  <1> USE DEF Frozen, clientVars, serverVars
  <1>0. UniNow' = UniNow /\ Done' = Done /\ Current' = Current /\ Given' = Given
    BY DEF UniNow, Done, Current, Given
  <1>1. TypeOK'
    BY DEF Agreed, TypeOK, WireTypeOK, ServerTypeOK, ClientTypeOK
  <1>2. Inv'
    BY DEF Agreed, Inv, CallInv, LinkInv, Lockstep, InFlight, BatchInv, BatchReplyTells,
       BatchAgrees
  <1>3. LeaveInv' /\ StreamingInv'
    BY DEF Agreed, LeaveInv, StreamingInv
  <1>4. ProtoInv'
    BY DEF Agreed, ProtoInv, Accepted
  <1>5. DialInv' /\ PlanInv' /\ UniInv' /\ NamedInv'
    BY <1>0 DEF Agreed, DialInv, PlanInv, UniInv, NamedInv
  <1>6. BatchV3' /\ Greeted' /\ WalkInv'
    BY <1>0 DEF Agreed, BatchV3, Greeted, WalkInv
  <1>7. Core => Core'
    <2>1. /\ (Calm => Calm') /\ (Awaited => Awaited') /\ (Answered => Answered')
          /\ (Flows => Flows') /\ (Spent => Spent')
      BY NothingNew
    <2>2. QED
      BY <1>0, <2>1 DEF Core, Idle
  <1>8. QED
    BY <1>1, <1>2, <1>3, <1>4, <1>5, <1>6, <1>7 DEF Agreed

MannersInv == Tame => Core

LEMMA AioStep == Agreed /\ MannersInv /\ [AioNext]_aioVars => Agreed' /\ MannersInv'
  <1> SUFFICES ASSUME Agreed, MannersInv, [AioNext]_aioVars PROVE Agreed' /\ MannersInv'
    OBVIOUS
  <1>1. CASE [Next]_vars /\ Mannered
    <2>1. Agreed' /\ conf' = conf
      BY <1>1, AgreedStep, ConfStays
    <2>2. ASSUME Tame' PROVE Core'
      <3>1. Tame /\ Core
        BY <2>1, <2>2 DEF Tame, MannersInv
      <3>2. QED
        BY <1>1, <3>1, CoreStep DEF Agreed
    <2>3. QED
      BY <2>1, <2>2 DEF MannersInv
  <1>2. CASE Severed
    BY <1>2, SeveredAgrees DEF MannersInv
  <1>3. CASE Frozen
    <2>1. Agreed' /\ (Core => Core') /\ conf' = conf
      BY <1>3, FrozenAgrees DEF Frozen, clientVars
    <2>2. QED
      BY <2>1 DEF MannersInv, Tame
  <1>4. QED
    BY <1>1, <1>2, <1>3, AioSteps DEF Agreed

(* The asyncio client keeps to the types of the blocking one, its servers  *)
(* and its wire, across deadlines, cancellations and stalls,               *)
THEOREM AioTypeCorrect == AioSpec => []TypeOK
  <1>1. AioInit => Agreed /\ MannersInv
    BY AgreedInit, CoreInit DEF AioInit, MannersInv
  <1>2. Agreed => TypeOK
    BY DEF Agreed
  <1>3. QED
    BY <1>1, <1>2, AioStep, PTL DEF AioSpec

(* and stays aligned, also for a user who goes on after a failed call      *)
(* without closing the client: an expired or cancelled call leaves no      *)
(* connection on which its reply could come late (aio.py: "a single        *)
(* deadline across an entire connect/negotiate/info call").  Again this    *)
(* says nothing of a dial-up transfer with a keepalive.                    *)
THEOREM AioRepliesAligned ==
    AioSpec => [](~(conf.dialup /\ conf.keepalive) => ReplyAligned)
  <1>1. AioInit => Agreed /\ MannersInv
    BY AgreedInit, CoreInit DEF AioInit, MannersInv
  <1>2. Agreed /\ MannersInv => (~(conf.dialup /\ conf.keepalive) => ReplyAligned)
    BY Aligned DEF Agreed, MannersInv, Tame
  <1>3. QED
    BY <1>1, <1>2, AioStep, PTL DEF AioSpec

-----------------------------------------------------------------------------
(* Where a reconnect resumes.                                              *)

(* A data frame of one of some stations.                                   *)
Of(x, C) == x.kind = "data" /\ x.station \in C

(* Before the m-th thing of q the k-th packet of st is behind the stream:  *)
(* not after its position p, or on its way earlier, or before the first    *)
(* of a station that the feed h of has not begun.                          *)
Behind(L, p, h, q, st, k, m) ==
    \/ p \in Nat /\ L[st][k] <= p
    \/ \E n \in 1..Len(q) : n < m /\ Of(q[n], {st}) /\ q[n].index = k
    \/ h[st] = 0 /\ \A n \in 1..Len(q) : n < m /\ Of(q[n], {st}) => k < q[n].index

(* The numbers of each station grow, and no two stations of C share one.   *)
Logged(C, L) ==
    /\ \A st \in C : \A j, k \in 1..Len(L[st]) : j < k => L[st][j] < L[st][k]
    /\ \A s, t \in C : \A j \in 1..Len(L[s]) : \A k \in 1..Len(L[t]) :
          s # t => L[s][j] # L[t][k]

(* The position p is the number of a packet of C, and of each station that *)
(* the feed has begun it parts the packets yielded from those to come.     *)
Placed(C, L, p, h) ==
    /\ \A st \in C : h[st] # 0 =>
          /\ p \in Nat /\ h[st] \in 1..Len(L[st])
          /\ \A k \in 1..Len(L[st]) : L[st][k] <= p <=> k <= h[st]
    /\ p \in Nat => \E st \in C : \E k \in 1..Len(L[st]) : L[st][k] = p

(* What is on its way of C comes after the position, in the order of its   *)
(* numbers, with nothing left out before it.                               *)
Chained(C, L, p, h, q) ==
    \A m \in 1..Len(q) : Of(q[m], C) =>
        /\ q[m].index \in 1..Len(L[q[m].station])
        /\ q[m].seqnum = L[q[m].station][q[m].index]
        /\ p \in Nat => p < q[m].seqnum
        /\ \A n \in 1..Len(q) : n < m /\ Of(q[n], C) => q[n].seqnum < q[m].seqnum
        /\ \A st \in C : \A k \in 1..Len(L[st]) :
              L[st][k] < q[m].seqnum => Behind(L, p, h, q, st, k, m)

(* The server goes on where what is on its way ends: what is before its    *)
(* cursor is behind, what is not comes after all of the queue.             *)
Pointed(C, L, p, h, q, cur) ==
    /\ \A st \in C : cur[st] # 0 =>
          /\ cur[st] <= Len(L[st]) + 1
          /\ \A k \in 1..Len(L[st]) :
                IF k < cur[st] THEN Behind(L, p, h, q, st, k, Len(q) + 1)
                ELSE /\ p \in Nat => p < L[st][k]
                     /\ \A n \in 1..Len(q) : Of(q[n], C) => q[n].seqnum < L[st][k]
    /\ \A s, t \in C : cur[s] = 0 <=> cur[t] = 0

-----------------------------------------------------------------------------
(* Places in a queue, and the numbers there.                               *)
LEMMA Places ==
    /\ \A a \in Nat : \A n \in 1..(a + 1) : n \in 1..a \/ n = a + 1
    /\ \A a \in Nat : \A n \in 1..a : n \in 1..(a + 1) /\ n < a + 1 /\ n < (a + 1) + 1
    /\ \A a \in Nat : \A n \in 1..(a + 1) : n < a + 1 => n \in 1..a
    /\ \A a \in Nat : \A m \in 1..a : \A n \in 1..(a + 1) : n < m => n \in 1..a
  OBVIOUS

LEMMA Orders ==
    /\ \A a, b \in Nat : a < b => a <= b /\ a # b /\ ~(b < a)
    /\ \A a, b, c \in Nat : a <= b /\ a # b /\ (b = c \/ b < c) => a < c
    /\ \A a, b \in Nat : a < b + 1 /\ a # b => a < b
    /\ \A a, b \in Nat : ~(a < b + 1) => ~(a < b) /\ a # b
    /\ \A a, b \in Nat : a <= b => a <= b + 1
  OBVIOUS

LEMMA Numbers ==
    \A s \in Seq(Nat) : Len(s) \in Nat /\ \A k \in 1..Len(s) : s[k] \in Nat /\ k \in Nat
  OBVIOUS

(* What is behind stays so when the queue is cut after it, or grows.       *)
LEMMA BehindAlike ==
    ASSUME NEW L, NEW p, NEW h, NEW st, NEW k, NEW q, NEW r, NEW m \in Nat, NEW l \in Nat,
           m <= l, Len(q) \in Nat, Len(r) \in Nat, Behind(L, p, h, q, st, k, m),
           \A n \in Nat \ {0} : n < m /\ n <= Len(q) => n <= Len(r) /\ r[n] = q[n],
           \A n \in 1..Len(r) : n < l /\ Of(r[n], {st}) => n < m /\ n <= Len(q)
    PROVE  Behind(L, p, h, r, st, k, l)
  <1>1. CASE \E n \in 1..Len(q) : n < m /\ Of(q[n], {st}) /\ q[n].index = k
    <2>1. PICK n \in 1..Len(q) : n < m /\ Of(q[n], {st}) /\ q[n].index = k
      BY <1>1
    <2>2. n \in 1..Len(r) /\ r[n] = q[n] /\ n < l
      BY <2>1
    <2>3. QED
      BY <2>1, <2>2 DEF Behind
  <1>2. CASE h[st] = 0 /\ \A n \in 1..Len(q) : n < m /\ Of(q[n], {st}) => k < q[n].index
    <2>1. ASSUME NEW n \in 1..Len(r), n < l, Of(r[n], {st}) PROVE k < r[n].index
      <3>1. n < m /\ n \in 1..Len(q) /\ r[n] = q[n]
        BY <2>1
      <3>2. QED
        BY <1>2, <2>1, <3>1
    <2>2. QED
      BY <1>2, <2>1 DEF Behind
  <1>3. QED
    BY <1>1, <1>2 DEF Behind

(* So a queue cut short keeps its order,                                   *)
LEMMA ChainCut ==
    ASSUME NEW C, NEW L, NEW p, NEW h, NEW q, NEW r, Len(q) \in Nat, Len(r) \in Nat,
           Chained(C, L, p, h, q), Len(r) <= Len(q), \A n \in 1..Len(r) : r[n] = q[n]
    PROVE  Chained(C, L, p, h, r)
  <1> SUFFICES ASSUME NEW m \in 1..Len(r), Of(r[m], C)
               PROVE  /\ r[m].index \in 1..Len(L[r[m].station])
                      /\ r[m].seqnum = L[r[m].station][r[m].index]
                      /\ p \in Nat => p < r[m].seqnum
                      /\ \A n \in 1..Len(r) : n < m /\ Of(r[n], C) => r[n].seqnum < r[m].seqnum
                      /\ \A st \in C : \A k \in 1..Len(L[st]) :
                            L[st][k] < r[m].seqnum => Behind(L, p, h, r, st, k, m)
    BY DEF Chained
  <1>1. m \in 1..Len(q) /\ m \in Nat /\ r[m] = q[m] /\ \A n \in 1..Len(r) : n \in 1..Len(q)
    OBVIOUS
  <1>2. ASSUME NEW st \in C, NEW k \in 1..Len(L[st]), L[st][k] < r[m].seqnum
        PROVE  Behind(L, p, h, r, st, k, m)
    <2>1. Behind(L, p, h, q, st, k, m)
      BY <1>1, <1>2 DEF Chained
    <2>2. \A n \in Nat \ {0} : n < m /\ n <= Len(q) => n <= Len(r) /\ r[n] = q[n]
      BY <1>1
    <2>3. \A n \in 1..Len(r) : n < m /\ Of(r[n], {st}) => n < m /\ n <= Len(q)
      BY <1>1
    <2>4. m \in Nat /\ m <= m
      BY <1>1
    <2>5. QED
      BY <2>1, <2>2, <2>3, <2>4, BehindAlike
  <1>3. QED
    BY <1>1, <1>2 DEF Chained

(* and so does one that something else joins;                              *)
LEMMA ChainJoined ==
    ASSUME NEW C, NEW L, NEW p, NEW h, NEW q, NEW r, NEW cur, Len(q) \in Nat, Len(r) \in Nat,
           Chained(C, L, p, h, q), Len(q) <= Len(r), \A n \in 1..Len(q) : r[n] = q[n],
           \A n \in 1..Len(r) : Len(q) < n => ~Of(r[n], C)
    PROVE  /\ Chained(C, L, p, h, r)
           /\ Pointed(C, L, p, h, q, cur) => Pointed(C, L, p, h, r, cur)
  <1>1. \A n \in 1..Len(r) : Of(r[n], C) => n \in 1..Len(q) /\ r[n] = q[n]
    OBVIOUS
  <1>2. \A st \in C : \A n \in 1..Len(r) : Of(r[n], {st}) => n \in 1..Len(q) /\ r[n] = q[n]
    BY <1>1 DEF Of
  <1>3. ASSUME NEW st \in C, NEW k, NEW m \in Nat, NEW l \in Nat, m <= l,
               l <= m \/ m = Len(q) + 1, Behind(L, p, h, q, st, k, m)
        PROVE  Behind(L, p, h, r, st, k, l)
    <2>1. \A n \in Nat \ {0} : n < m /\ n <= Len(q) => n <= Len(r) /\ r[n] = q[n]
      OBVIOUS
    <2>2. ASSUME NEW n \in 1..Len(r), n < l, Of(r[n], {st}) PROVE n < m /\ n <= Len(q)
      <3>1. n \in 1..Len(q)
        BY <1>2, <2>2
      <3>2. QED
        BY <1>3, <2>2, <3>1
    <2>3. QED
      BY <1>3, <2>1, <2>2, BehindAlike
  <1>4. Chained(C, L, p, h, r)
    <2>1. ASSUME NEW m \in 1..Len(r), Of(r[m], C)
          PROVE  /\ r[m].index \in 1..Len(L[r[m].station])
                 /\ r[m].seqnum = L[r[m].station][r[m].index]
                 /\ p \in Nat => p < r[m].seqnum
                 /\ \A n \in 1..Len(r) : n < m /\ Of(r[n], C) => r[n].seqnum < r[m].seqnum
                 /\ \A st \in C : \A k \in 1..Len(L[st]) :
                       L[st][k] < r[m].seqnum => Behind(L, p, h, r, st, k, m)
      <3>1. m \in 1..Len(q) /\ m \in Nat /\ r[m] = q[m]
        BY <1>1, <2>1
      <3>2. ASSUME NEW st \in C, NEW k \in 1..Len(L[st]), L[st][k] < r[m].seqnum
            PROVE  Behind(L, p, h, r, st, k, m)
        <4>1. Behind(L, p, h, q, st, k, m)
          BY <2>1, <3>1, <3>2 DEF Chained
        <4>2. QED
          BY <1>3, <3>1, <4>1
      <3>3. QED
        BY <1>1, <2>1, <3>1, <3>2 DEF Chained
    <2>2. QED
      BY <2>1 DEF Chained
  <1>5. ASSUME Pointed(C, L, p, h, q, cur) PROVE Pointed(C, L, p, h, r, cur)
    <2>1. ASSUME NEW st \in C, cur[st] # 0, NEW k \in 1..Len(L[st])
          PROVE  IF k < cur[st] THEN Behind(L, p, h, r, st, k, Len(r) + 1)
                 ELSE /\ p \in Nat => p < L[st][k]
                      /\ \A n \in 1..Len(r) : Of(r[n], C) => r[n].seqnum < L[st][k]
      <3>1. CASE k < cur[st]
        <4>1. Behind(L, p, h, q, st, k, Len(q) + 1)
          BY <1>5, <2>1, <3>1 DEF Pointed
        <4>2. QED
          BY <1>3, <3>1, <4>1
      <3>2. CASE ~(k < cur[st])
        BY <1>1, <1>5, <2>1, <3>2 DEF Pointed
      <3>3. QED
        BY <3>1, <3>2
    <2>2. QED
      BY <1>5, <2>1 DEF Pointed
  <1>6. QED
    BY <1>4, <1>5

(* What is behind stays so when something else at the head is gone,        *)
LEMMA BehindPassed ==
    ASSUME NEW L, NEW p, NEW h, NEW st, NEW k, NEW q, NEW r, NEW m \in Nat,
           Len(q) \in Nat \ {0}, Len(r) = Len(q) - 1, Behind(L, p, h, q, st, k, m + 1),
           \A n \in 1..Len(r) : r[n] = q[n + 1], ~Of(q[1], {st})
    PROVE  Behind(L, p, h, r, st, k, m)
  <1>1. CASE \E n \in 1..Len(q) : n < m + 1 /\ Of(q[n], {st}) /\ q[n].index = k
    <2>1. PICK n \in 1..Len(q) : n < m + 1 /\ Of(q[n], {st}) /\ q[n].index = k
      BY <1>1
    <2>2. n # 1
      BY <2>1
    <2>3. n - 1 \in 1..Len(r) /\ n - 1 < m /\ (n - 1) + 1 = n
      BY <2>1, <2>2
    <2>4. r[n - 1] = q[n]
      BY <2>3
    <2>5. QED
      BY <2>1, <2>3, <2>4 DEF Behind
  <1>2. CASE h[st] = 0 /\ \A n \in 1..Len(q) : n < m + 1 /\ Of(q[n], {st}) => k < q[n].index
    <2>1. ASSUME NEW n \in 1..Len(r), n < m, Of(r[n], {st}) PROVE k < r[n].index
      <3>1. n + 1 \in 1..Len(q) /\ n + 1 < m + 1 /\ r[n] = q[n + 1]
        BY <2>1
      <3>2. QED
        BY <1>2, <2>1, <3>1
    <2>2. QED
      BY <1>2, <2>1 DEF Behind
  <1>3. QED
    BY <1>1, <1>2 DEF Behind

(* so the order of the rest is that of the queue.                          *)
LEMMA ChainPassed ==
    ASSUME NEW C, NEW L, NEW p, NEW h, NEW q, NEW r, NEW cur, Len(q) \in Nat \ {0},
           Len(r) = Len(q) - 1, \A n \in 1..Len(r) : r[n] = q[n + 1], ~Of(q[1], C),
           Chained(C, L, p, h, q)
    PROVE  /\ Chained(C, L, p, h, r)
           /\ Pointed(C, L, p, h, q, cur) => Pointed(C, L, p, h, r, cur)
  <1>0. Len(r) \in Nat /\ \A n \in 1..Len(r) : n + 1 \in 1..Len(q)
    OBVIOUS
  <1>1. \A st \in C : ~Of(q[1], {st})
    BY DEF Of
  <1>2. ASSUME NEW st \in C, NEW k, NEW m \in Nat, Behind(L, p, h, q, st, k, m + 1)
        PROVE  Behind(L, p, h, r, st, k, m)
    BY <1>1, <1>2, BehindPassed
  <1>3. ASSUME NEW m \in 1..Len(r), Of(r[m], C)
        PROVE  /\ r[m].index \in 1..Len(L[r[m].station])
               /\ r[m].seqnum = L[r[m].station][r[m].index]
               /\ p \in Nat => p < r[m].seqnum
               /\ \A n \in 1..Len(r) : n < m /\ Of(r[n], C) => r[n].seqnum < r[m].seqnum
               /\ \A st \in C : \A k \in 1..Len(L[st]) :
                     L[st][k] < r[m].seqnum => Behind(L, p, h, r, st, k, m)
    <2>1. m + 1 \in 1..Len(q) /\ m \in Nat /\ r[m] = q[m + 1]
      BY <1>0
    <2>2. ASSUME NEW st \in C, NEW k \in 1..Len(L[st]), L[st][k] < r[m].seqnum
          PROVE  Behind(L, p, h, r, st, k, m)
      <3>1. Behind(L, p, h, q, st, k, m + 1)
        BY <1>3, <2>1, <2>2 DEF Chained
      <3>2. QED
        BY <1>2, <2>1, <3>1
    <2>3. ASSUME NEW n \in 1..Len(r), n < m, Of(r[n], C) PROVE r[n].seqnum < r[m].seqnum
      <3>1. n + 1 \in 1..Len(q) /\ n + 1 < m + 1 /\ r[n] = q[n + 1]
        BY <1>0, <2>1, <2>3
      <3>2. QED
        BY <1>3, <2>1, <2>3, <3>1 DEF Chained
    <2>4. QED
      BY <1>3, <2>1, <2>2, <2>3 DEF Chained
  <1>4. ASSUME Pointed(C, L, p, h, q, cur) PROVE Pointed(C, L, p, h, r, cur)
    <2>1. ASSUME NEW st \in C, cur[st] # 0, NEW k \in 1..Len(L[st])
          PROVE  IF k < cur[st] THEN Behind(L, p, h, r, st, k, Len(r) + 1)
                 ELSE /\ p \in Nat => p < L[st][k]
                      /\ \A n \in 1..Len(r) : Of(r[n], C) => r[n].seqnum < L[st][k]
      <3>1. CASE k < cur[st]
        <4>1. Behind(L, p, h, q, st, k, Len(q) + 1)
          BY <1>4, <2>1, <3>1 DEF Pointed
        <4>2. Len(r) + 1 \in Nat /\ (Len(r) + 1) + 1 = Len(q) + 1
          BY <1>0
        <4>3. Behind(L, p, h, q, st, k, (Len(r) + 1) + 1)
          BY <4>1, <4>2
        <4>4. QED
          BY <1>2, <3>1, <4>2, <4>3
      <3>2. CASE ~(k < cur[st])
        BY <1>0, <1>4, <2>1, <3>2 DEF Pointed
      <3>3. QED
        BY <3>1, <3>2
    <2>2. QED
      BY <1>4, <2>1 DEF Pointed
  <1>5. QED
    BY <1>3, <1>4 DEF Chained

(* When a packet at the head is taken, what was behind it still is: the     *)
(* position is now that of this packet.                                    *)
Counting(h, x, g) == g = [h EXCEPT ![x.station] = x.index]

LEMMA BehindTaken ==
    ASSUME NEW C, NEW S, C \subseteq S, NEW L \in [S -> Seq(Nat)], NEW p, NEW h \in [S -> Nat],
           NEW q, NEW r, NEW st \in C, NEW k \in 1..Len(L[st]), NEW m \in Nat \ {0},
           Logged(C, L), Chained(C, L, p, h, q), Len(q) \in Nat \ {0}, Of(q[1], C),
           Len(r) = Len(q) - 1, \A n \in 1..Len(r) : r[n] = q[n + 1],
           Behind(L, p, h, q, st, k, m + 1), NEW v, v = q[1].seqnum,
           NEW g, Counting(h, q[1], g)
    PROVE  Behind(L, v, g, r, st, k, m)
  <1>00. 1 \in 1..Len(q)
    <2>1. PICK n \in Nat \ {0} : n = Len(q)
      OBVIOUS
    <2>2. QED
      BY <2>1
  <1>0. /\ q[1].station \in C /\ q[1].index \in 1..Len(L[q[1].station])
        /\ q[1].seqnum = L[q[1].station][q[1].index]
        /\ p \in Nat => p < q[1].seqnum
    BY <1>00 DEF Chained, Of
  <1>1. PICK t \in C : t = q[1].station
    BY <1>0
  <1>2. PICK j \in 1..Len(L[t]) : j = q[1].index
    BY <1>0, <1>1
  <1>3. v \in Nat /\ v = L[t][j]
    <2>1. L[t] \in Seq(Nat)
      OBVIOUS
    <2>2. L[t][j] \in Nat
      BY <2>1, Numbers, Zenon
    <2>3. QED
      BY <1>0, <1>1, <1>2, <2>2
  <1>4. L[st][k] \in Nat /\ L[st] \in Seq(Nat) /\ Len(L[st]) \in Nat
    <2>1. L[st] \in Seq(Nat)
      OBVIOUS
    <2>2. QED
      BY <2>1, Numbers, Zenon
  <1>5. \A i \in 1..Len(L[t]) : i < j => L[t][i] < v
    BY <1>3 DEF Logged
  <1>6. CASE p \in Nat /\ L[st][k] <= p
    <2>1. p < v
      BY <1>0, <1>6
    <2>2. L[st][k] <= v
      <3>1. PICK a \in Nat : a = L[st][k]
        BY <1>4
      <3>2. PICK b \in Nat : b = p
        BY <1>6
      <3>3. PICK w \in Nat : w = v
        BY <1>3
      <3>4. a <= b
        BY <1>6, <3>1, <3>2, Zenon
      <3>5. b < w
        BY <2>1, <3>2, <3>3, Zenon
      <3>6. a <= w
        BY <3>4, <3>5
      <3>7. QED
        BY <3>1, <3>3, <3>6, Zenon
    <2>3. QED
      BY <1>3, <2>2 DEF Behind
  <1>7. CASE \E n \in 1..Len(q) : n < m + 1 /\ Of(q[n], {st}) /\ q[n].index = k
    <2>1. PICK n \in 1..Len(q) : n < m + 1 /\ Of(q[n], {st}) /\ q[n].index = k
      BY <1>7
    <2>2. CASE n = 1
      <3>1. st = t /\ k = j
        BY <1>1, <1>2, <2>1, <2>2 DEF Of
      <3>2. QED
        BY <1>3, <3>1 DEF Behind
    <2>3. CASE n # 1
      <3>1. n - 1 \in 1..Len(r) /\ n - 1 < m /\ (n - 1) + 1 = n
        BY <2>1, <2>3
      <3>2. r[n - 1] = q[n]
        BY <3>1
      <3>3. QED
        BY <2>1, <3>1, <3>2 DEF Behind
    <2>4. QED
      BY <2>2, <2>3
  <1>8. CASE h[st] = 0 /\ \A n \in 1..Len(q) : n < m + 1 /\ Of(q[n], {st}) => k < q[n].index
    <2>1. CASE st = t
      <3>1. k < j
        <4>1. Of(q[1], {st}) /\ 1 < m + 1
          BY <1>1, <2>1 DEF Of
        <4>2. QED
          BY <1>00, <1>2, <1>8, <4>1
      <3>2. L[st][k] <= v
        BY <1>3, <1>4, <1>5, <2>1, <3>1, Orders, Zenon
      <3>3. QED
        BY <1>3, <3>2 DEF Behind
    <2>2. CASE st # t
      <3>1. g[st] = 0
        BY <1>1, <1>8, <2>2 DEF Counting
      <3>2. ASSUME NEW n \in 1..Len(r), n < m, Of(r[n], {st}) PROVE k < r[n].index
        <4>0. n \in Nat /\ n <= Len(r) /\ n >= 1
          OBVIOUS
        <4>1. n + 1 \in 1..Len(q) /\ n + 1 < m + 1 /\ r[n] = q[n + 1]
          BY <3>2, <4>0
        <4>2. QED
          BY <1>8, <3>2, <4>1
      <3>3. QED
        BY <3>1, <3>2 DEF Behind
    <2>3. QED
      BY <2>1, <2>2
  <1>9. QED
    BY <1>6, <1>7, <1>8 DEF Behind

(* So a packet that is taken is the next one of its station, and the order *)
(* is kept.                                                                *)
Taking(C, S, L, p, h, q, r, v, g) ==
    /\ C \subseteq S /\ L \in [S -> Seq(Nat)] /\ h \in [S -> Nat]
    /\ Len(q) \in Nat \ {0} /\ Of(q[1], C)
    /\ Len(r) = Len(q) - 1 /\ \A n \in 1..Len(r) : r[n] = q[n + 1]
    /\ Logged(C, L) /\ Placed(C, L, p, h) /\ Chained(C, L, p, h, q)
    /\ v = q[1].seqnum /\ Counting(h, q[1], g)

LEMMA ChainTaken ==
    ASSUME NEW C, NEW S, NEW L, NEW p, NEW h, NEW q, NEW r, NEW v, NEW g,
           Taking(C, S, L, p, h, q, r, v, g)
    PROVE  /\ h[q[1].station] # 0 => q[1].index = h[q[1].station] + 1
           /\ q[1].index \in 1..Len(L[q[1].station])
           /\ Placed(C, L, v, g)
           /\ Chained(C, L, v, g, r)
           /\ \A cur : Pointed(C, L, p, h, q, cur) => Pointed(C, L, v, g, r, cur)
  <1> SUFFICES ASSUME C \subseteq S, L \in [S -> Seq(Nat)], h \in [S -> Nat],
                      Len(q) \in Nat \ {0}, Of(q[1], C),
                      Len(r) = Len(q) - 1, \A n \in 1..Len(r) : r[n] = q[n + 1],
                      Logged(C, L), Placed(C, L, p, h), Chained(C, L, p, h, q),
                      v = q[1].seqnum, Counting(h, q[1], g)
               PROVE  /\ h[q[1].station] # 0 => q[1].index = h[q[1].station] + 1
                      /\ q[1].index \in 1..Len(L[q[1].station])
                      /\ Placed(C, L, v, g)
                      /\ Chained(C, L, v, g, r)
                      /\ \A cur : Pointed(C, L, p, h, q, cur) => Pointed(C, L, v, g, r, cur)
    BY DEF Taking
  <1>00. 1 \in 1..Len(q) /\ Len(r) \in Nat
    <2>1. PICK n \in Nat \ {0} : n = Len(q)
      OBVIOUS
    <2>2. QED
      BY <2>1
  <1>a. \A n \in 1..Len(r) : n + 1 \in 1..Len(q) /\ r[n] = q[n + 1]
    BY <1>00
  <1>0. /\ q[1].station \in C /\ q[1].index \in 1..Len(L[q[1].station])
        /\ q[1].seqnum = L[q[1].station][q[1].index]
        /\ p \in Nat => p < q[1].seqnum
        /\ \A st \in C : \A k \in 1..Len(L[st]) :
              L[st][k] < q[1].seqnum => Behind(L, p, h, q, st, k, 1)
    BY <1>00 DEF Chained, Of
  <1>1. PICK t \in C : t = q[1].station
    BY <1>0
  <1>2. PICK j \in 1..Len(L[t]) : j = q[1].index
    BY <1>0, <1>1
  <1>3. v \in Nat /\ v = L[t][j]
    <2>1. L[t] \in Seq(Nat)
      OBVIOUS
    <2>2. L[t][j] \in Nat
      BY <2>1, Numbers, Zenon
    <2>3. QED
      BY <1>0, <1>1, <1>2, <2>2
  <1>4. /\ \A st \in C : \A k \in 1..Len(L[st]) : L[st][k] \in Nat
        /\ \A st \in C : Len(L[st]) \in Nat /\ h[st] \in Nat
    <2>1. ASSUME NEW st \in C
          PROVE  Len(L[st]) \in Nat /\ h[st] \in Nat /\ \A k \in 1..Len(L[st]) : L[st][k] \in Nat
      <3>1. st \in S /\ L[st] \in Seq(Nat)
        OBVIOUS
      <3>2. QED
        BY <3>1, Numbers, Zenon
    <2>2. QED
      BY <2>1
  <1>5. /\ \A i \in 1..Len(L[t]) : L[t][i] <= v <=> i <= j
        /\ \A i \in 1..Len(L[t]) : L[t][i] < v <=> i < j
    <2>1. ASSUME NEW i \in 1..Len(L[t])
          PROVE  /\ i < j => L[t][i] < v
                 /\ j < i => v < L[t][i]
      BY <1>3 DEF Logged
    <2>2. ASSUME NEW i \in 1..Len(L[t])
          PROVE (L[t][i] <= v <=> i <= j) /\ (L[t][i] < v <=> i < j)
      <3>1. L[t][i] \in Nat /\ i \in Nat /\ j \in Nat
        BY <1>4
      <3>2. CASE i = j
        BY <1>3, <3>1, <3>2
      <3>3. CASE i # j
        BY <1>3, <2>1, <3>1, <3>3
      <3>4. QED
        BY <3>2, <3>3
    <2>3. QED
      BY <2>2
  <1>6. g[t] = j /\ \A st \in C : st # t => g[st] = h[st]
    BY <1>1, <1>2 DEF Counting
  <1>7. ASSUME NEW st \in C, h[st] # 0, NEW k \in 1..Len(L[st]), L[st][k] < v
        PROVE  p \in Nat /\ L[st][k] <= p
    <2>1. Behind(L, p, h, q, st, k, 1)
      BY <1>0, <1>7
    <2>2. ~\E n \in 1..Len(q) : n < 1
      OBVIOUS
    <2>3. QED
      BY <1>7, <2>1, <2>2 DEF Behind
  <1>8. ASSUME h[t] # 0 PROVE j = h[t] + 1
    <2>1. /\ p \in Nat /\ h[t] \in 1..Len(L[t]) /\ p < v
          /\ \A k \in 1..Len(L[t]) : L[t][k] <= p <=> k <= h[t]
      BY <1>0, <1>8 DEF Placed
    <2>2. h[t] < j
      <3>1. ~(L[t][j] <= p)
        BY <1>3, <2>1
      <3>2. QED
        BY <1>4, <2>1, <3>1
    <2>3. ASSUME h[t] + 1 < j PROVE FALSE
      <3>1. h[t] + 1 \in 1..Len(L[t])
        BY <2>1, <2>3
      <3>2. L[t][h[t] + 1] < v
        BY <1>5, <2>3, <3>1
      <3>3. L[t][h[t] + 1] <= p
        BY <1>7, <1>8, <3>1, <3>2
      <3>4. h[t] + 1 <= h[t]
        BY <2>1, <3>1, <3>3
      <3>5. QED
        BY <1>4, <3>4
    <2>4. QED
      BY <1>4, <2>1, <2>2, <2>3
  <1>9. Placed(C, L, v, g)
    <2>1. ASSUME NEW st \in C, g[st] # 0
          PROVE  g[st] \in 1..Len(L[st]) /\ \A k \in 1..Len(L[st]) : L[st][k] <= v <=> k <= g[st]
      <3>1. CASE st = t
        BY <1>5, <1>6, <3>1
      <3>2. CASE st # t
        <4>1. h[st] # 0 /\ g[st] = h[st]
          BY <1>6, <2>1, <3>2
        <4>2. /\ p \in Nat /\ h[st] \in 1..Len(L[st]) /\ p < v
              /\ \A k \in 1..Len(L[st]) : L[st][k] <= p <=> k <= h[st]
          BY <1>0, <4>1 DEF Placed
        <4>3. ASSUME NEW k \in 1..Len(L[st]) PROVE L[st][k] <= v <=> L[st][k] <= p
          <5>1. L[st][k] \in Nat /\ L[st][k] # v
            BY <1>3, <1>4, <3>2 DEF Logged
          <5>2. L[st][k] < v => L[st][k] <= p
            BY <1>7, <4>1
          <5>3. PICK a \in Nat : a = L[st][k]
            BY <5>1
          <5>4. PICK b \in Nat : b = p
            BY <4>2
          <5>5. PICK w \in Nat : w = v
            BY <1>3
          <5>6. b < w /\ a # w /\ (a < w => a <= b)
            BY <4>2, <5>1, <5>2, <5>3, <5>4, <5>5, Zenon
          <5>7. a <= w <=> a <= b
            BY <5>6
          <5>8. QED
            BY <5>3, <5>4, <5>5, <5>7, Zenon
        <4>4. QED
          BY <4>1, <4>2, <4>3
      <3>3. QED
        BY <3>1, <3>2
    <2>2. QED
      BY <1>3, <2>1 DEF Placed
  <1>10. ASSUME NEW st \in C, NEW k \in 1..Len(L[st]), NEW m \in Nat \ {0},
                Behind(L, p, h, q, st, k, m + 1)
         PROVE  Behind(L, v, g, r, st, k, m)
    BY <1>10, BehindTaken
  <1>11. Chained(C, L, v, g, r)
    <2>1. ASSUME NEW m \in 1..Len(r), Of(r[m], C)
          PROVE  /\ r[m].index \in 1..Len(L[r[m].station])
                 /\ r[m].seqnum = L[r[m].station][r[m].index]
                 /\ v \in Nat => v < r[m].seqnum
                 /\ \A n \in 1..Len(r) : n < m /\ Of(r[n], C) => r[n].seqnum < r[m].seqnum
                 /\ \A st \in C : \A k \in 1..Len(L[st]) :
                       L[st][k] < r[m].seqnum => Behind(L, v, g, r, st, k, m)
      <3>1. m + 1 \in 1..Len(q) /\ m \in Nat \ {0} /\ 1 < m + 1 /\ r[m] = q[m + 1]
        <4>1. m + 1 \in 1..Len(q) /\ r[m] = q[m + 1]
          BY <1>a
        <4>2. m \in Nat \ {0} /\ 1 < m + 1
          OBVIOUS
        <4>3. QED
          BY <4>1, <4>2
      <3>2. /\ r[m].index \in 1..Len(L[r[m].station])
            /\ r[m].seqnum = L[r[m].station][r[m].index]
            /\ q[1].seqnum < r[m].seqnum
            /\ \A st \in C : \A k \in 1..Len(L[st]) :
                  L[st][k] < r[m].seqnum => Behind(L, p, h, q, st, k, m + 1)
        BY <1>00, <2>1, <3>1 DEF Chained
      <3>3. ASSUME NEW n \in 1..Len(r), n < m, Of(r[n], C) PROVE r[n].seqnum < r[m].seqnum
        <4>1. n + 1 \in 1..Len(q) /\ n + 1 < m + 1 /\ r[n] = q[n + 1]
          BY <1>00, <3>1, <3>3
        <4>2. QED
          BY <2>1, <3>1, <3>3, <4>1 DEF Chained
      <3>4. QED
        BY <1>10, <3>1, <3>2, <3>3
    <2>2. QED
      BY <2>1 DEF Chained
  <1>12. ASSUME NEW cur, Pointed(C, L, p, h, q, cur) PROVE Pointed(C, L, v, g, r, cur)
    <2>1. ASSUME NEW st \in C, cur[st] # 0, NEW k \in 1..Len(L[st])
          PROVE  IF k < cur[st] THEN Behind(L, v, g, r, st, k, Len(r) + 1)
                 ELSE /\ v \in Nat => v < L[st][k]
                      /\ \A n \in 1..Len(r) : Of(r[n], C) => r[n].seqnum < L[st][k]
      <3>1. CASE k < cur[st]
        <4>1. Behind(L, p, h, q, st, k, Len(q) + 1)
          BY <1>12, <2>1, <3>1 DEF Pointed
        <4>2. Len(r) + 1 \in Nat \ {0} /\ (Len(r) + 1) + 1 = Len(q) + 1
          BY <1>00
        <4>3. Behind(L, p, h, q, st, k, (Len(r) + 1) + 1)
          BY <4>1, <4>2
        <4>4. QED
          BY <1>10, <3>1, <4>2, <4>3
      <3>2. CASE ~(k < cur[st])
        <4>1. \A n \in 1..Len(q) : Of(q[n], C) => q[n].seqnum < L[st][k]
          BY <1>12, <2>1, <3>2 DEF Pointed
        <4>2. ASSUME NEW n \in 1..Len(r), Of(r[n], C) PROVE r[n].seqnum < L[st][k]
          <5>1. n + 1 \in 1..Len(q) /\ r[n] = q[n + 1]
            BY <1>a
          <5>2. QED
            BY <4>1, <4>2, <5>1
        <4>3. v < L[st][k]
          BY <1>00, <4>1
        <4>4. QED
          BY <3>2, <4>2, <4>3
      <3>3. QED
        BY <3>1, <3>2
    <2>2. QED
      BY <1>12, <2>1 DEF Pointed
  <1>13. QED
    BY <1>0, <1>1, <1>2, <1>8, <1>9, <1>11, <1>12

(* The packet a server sends of the stations it is asked for is the first  *)
(* of those not yet sent.                                                  *)
LEMMA ChainSent ==
    ASSUME NEW C, NEW S, C \subseteq S, NEW L \in [S -> Seq(Nat)], NEW p, NEW h,
           NEW cur \in [S -> Nat], NEW q, NEW r, NEW t \in C,
           Len(q) \in Nat, Len(r) = Len(q) + 1, \A n \in 1..Len(q) : r[n] = q[n],
           r[Len(q) + 1] = DataFrame(t, cur[t], L[t][cur[t]]),
           cur[t] \in 1..Len(L[t]),
           \A o \in C : cur[o] \in 1..Len(L[o]) => L[t][cur[t]] <= L[o][cur[o]],
           Logged(C, L), Chained(C, L, p, h, q), Pointed(C, L, p, h, q, cur)
    PROVE  /\ Chained(C, L, p, h, r)
           /\ Pointed(C, L, p, h, r, [cur EXCEPT ![t] = @ + 1])
  <1>0. PICK j \in 1..Len(L[t]) : j = cur[t]
    OBVIOUS
  <1>1. PICK x : x = DataFrame(t, cur[t], L[t][cur[t]])
    OBVIOUS
  <1>2. /\ x.kind = "data" /\ x.station = t /\ x.index = j /\ x.seqnum = L[t][j]
        /\ Of(x, C) /\ r[Len(q) + 1] = x
    BY <1>0, <1>1 DEF DataFrame, Of
  <1>3. /\ \A st \in C : \A k \in 1..Len(L[st]) : L[st][k] \in Nat /\ k \in Nat
        /\ \A st \in C : Len(L[st]) \in Nat /\ cur[st] \in Nat
    <2>1. ASSUME NEW st \in C
          PROVE  Len(L[st]) \in Nat /\ cur[st] \in Nat
                 /\ \A k \in 1..Len(L[st]) : L[st][k] \in Nat /\ k \in Nat
      <3>1. st \in S /\ L[st] \in Seq(Nat)
        OBVIOUS
      <3>2. QED
        BY <3>1, Numbers, Zenon
    <2>2. QED
      BY <2>1
  <1>4. cur[t] # 0 /\ j # 0
    BY <1>0
  <1>5. /\ p \in Nat => p < L[t][j]
        /\ \A n \in 1..Len(q) : Of(q[n], C) => q[n].seqnum < L[t][j]
    <2>1. ~(j < cur[t])
      BY <1>0
    <2>2. QED
      BY <1>0, <1>4, <2>1 DEF Pointed
  <1>6. ASSUME NEW st \in C, NEW k \in 1..Len(L[st]), cur[st] # 0 => ~(k < cur[st])
        PROVE  L[t][j] < L[st][k] \/ (st = t /\ k = j)
    <2>1. cur[st] # 0
      BY <1>4 DEF Pointed
    <2>a. /\ k \in Nat /\ Len(L[st]) \in Nat /\ cur[st] \in Nat /\ k <= Len(L[st])
          /\ L[st][k] \in Nat /\ L[t][j] \in Nat
      BY <1>3
    <2>b. cur[st] <= k /\ cur[st] \in 1..Len(L[st])
      <3>1. ~(k < cur[st])
        BY <1>6, <2>1
      <3>2. PICK c \in Nat : c = cur[st]
        BY <2>a
      <3>3. PICK n \in Nat : n = Len(L[st])
        BY <2>a
      <3>4. c # 0 /\ ~(k < c) /\ k \in Nat /\ k <= n
        BY <2>1, <2>a, <3>1, <3>2, <3>3, Zenon
      <3>5. c <= k /\ c \in 1..n
        BY <3>4
      <3>6. QED
        BY <3>2, <3>3, <3>5, Zenon
    <2>2. CASE st = t
      <3>1. k = j \/ j < k
        BY <1>0, <2>a, <2>b, <2>2
      <3>2. QED
        BY <2>2, <3>1 DEF Logged
    <2>3. CASE st # t
      <3>1. PICK i \in 1..Len(L[st]) : i = cur[st]
        BY <2>b
      <3>2. L[t][j] <= L[st][i] /\ L[t][j] # L[st][i] /\ L[st][i] \in Nat
        <4>1. L[t][j] <= L[st][i]
          BY <1>0, <2>b, <3>1, Zenon
        <4>2. L[t][j] # L[st][i]
          BY <2>3, Zenon DEF Logged
        <4>3. QED
          BY <1>3, <4>1, <4>2, Zenon
      <3>3. L[st][i] = L[st][k] \/ L[st][i] < L[st][k]
        <4>1. i = k \/ i < k
          BY <2>a, <2>b, <3>1
        <4>2. i < k => L[st][i] < L[st][k]
          BY DEF Logged
        <4>3. QED
          BY <4>1, <4>2
      <3>4. PICK a \in Nat, b \in Nat, c \in Nat :
               a = L[t][j] /\ b = L[st][i] /\ c = L[st][k]
        BY <2>a, <3>2
      <3>5. a <= b /\ a # b /\ (b = c \/ b < c)
        BY <3>2, <3>3, <3>4
      <3>6. a < c
        BY <3>5, Orders, Zenon
      <3>7. QED
        BY <3>4, <3>6, Zenon
    <2>4. QED
      BY <2>2, <2>3
  <1>7. ASSUME NEW st \in C, NEW k, NEW m \in Nat, m <= Len(q) + 1, Behind(L, p, h, q, st, k, m)
        PROVE  Behind(L, p, h, r, st, k, m)
    <2>1. \A n \in Nat \ {0} : n < m /\ n <= Len(q) => n <= Len(r) /\ r[n] = q[n]
      OBVIOUS
    <2>2. \A n \in 1..Len(r) : n < m /\ Of(r[n], {st}) => n < m /\ n <= Len(q)
      BY <1>7
    <2>3. m <= m /\ Len(r) \in Nat
      BY <1>7
    <2>4. QED
      BY <1>7, <2>1, <2>2, <2>3, BehindAlike
  <1>8. Chained(C, L, p, h, r)
    <2>1. ASSUME NEW m \in 1..Len(q), Of(r[m], C)
          PROVE  /\ r[m].index \in 1..Len(L[r[m].station])
                 /\ r[m].seqnum = L[r[m].station][r[m].index]
                 /\ p \in Nat => p < r[m].seqnum
                 /\ \A n \in 1..Len(r) : n < m /\ Of(r[n], C) => r[n].seqnum < r[m].seqnum
                 /\ \A st \in C : \A k \in 1..Len(L[st]) :
                       L[st][k] < r[m].seqnum => Behind(L, p, h, r, st, k, m)
      <3>1. /\ r[m].index \in 1..Len(L[r[m].station])
            /\ r[m].seqnum = L[r[m].station][r[m].index]
            /\ p \in Nat => p < r[m].seqnum
            /\ \A n \in 1..Len(q) : n < m /\ Of(q[n], C) => q[n].seqnum < q[m].seqnum
            /\ \A st \in C : \A k \in 1..Len(L[st]) :
                  L[st][k] < r[m].seqnum => Behind(L, p, h, q, st, k, m)
        BY <2>1 DEF Chained
      <3>2. m \in Nat /\ m <= Len(q) + 1 /\ r[m] = q[m]
        OBVIOUS
      <3>3. ASSUME NEW n \in 1..Len(r), n < m, Of(r[n], C) PROVE r[n].seqnum < r[m].seqnum
        <4>1. n \in 1..Len(q) /\ r[n] = q[n]
          BY <3>3, Places, Zenon
        <4>2. QED
          BY <3>1, <3>2, <3>3, <4>1
      <3>4. QED
        BY <1>7, <3>1, <3>2, <3>3
    <2>2. ASSUME NEW m, m = Len(q) + 1
          PROVE  /\ r[m].index \in 1..Len(L[r[m].station])
                 /\ r[m].seqnum = L[r[m].station][r[m].index]
                 /\ p \in Nat => p < r[m].seqnum
                 /\ \A n \in 1..Len(r) : n < m /\ Of(r[n], C) => r[n].seqnum < r[m].seqnum
                 /\ \A st \in C : \A k \in 1..Len(L[st]) :
                       L[st][k] < r[m].seqnum => Behind(L, p, h, r, st, k, m)
      <3>1. r[m] = x
        BY <1>2, <2>2
      <3>2. ASSUME NEW n \in 1..Len(r), n < m, Of(r[n], C) PROVE r[n].seqnum < L[t][j]
        <4>1. n \in 1..Len(q) /\ r[n] = q[n]
          BY <2>2, <3>2, Places, Zenon
        <4>2. QED
          BY <1>5, <3>2, <4>1
      <3>3. ASSUME NEW st \in C, NEW k \in 1..Len(L[st]), L[st][k] < L[t][j]
            PROVE  Behind(L, p, h, r, st, k, m)
        <4>1. cur[st] # 0
          BY <1>4 DEF Pointed
        <4>2. k < cur[st]
          <5>1. L[t][j] \in Nat /\ L[st][k] \in Nat
            BY <1>3
          <5>2. ~(L[t][j] < L[st][k]) /\ ~(st = t /\ k = j)
            BY <3>3, <5>1, Orders, Zenon
          <5>3. QED
            BY <1>6, <5>2
        <4>3. Behind(L, p, h, q, st, k, Len(q) + 1)
          BY <4>1, <4>2 DEF Pointed
        <4>4. QED
          BY <1>7, <2>2, <4>3
      <3>4. QED
        BY <1>0, <1>2, <1>5, <3>1, <3>2, <3>3
    <2>3. \A m \in 1..Len(r) : m \in 1..Len(q) \/ m = Len(q) + 1
      BY Places, Zenon
    <2>4. QED
      BY <2>1, <2>2, <2>3 DEF Chained
  <1>9. PICK new : new = [cur EXCEPT ![t] = @ + 1]
    OBVIOUS
  <1>10. new[t] = j + 1 /\ \A st \in C : st # t => new[st] = cur[st]
    BY <1>0, <1>9
  <1>11. ASSUME NEW st \in C
         PROVE  /\ cur[st] # 0 /\ new[st] # 0
                /\ new[st] <= Len(L[st]) + 1
                /\ \A k \in 1..Len(L[st]) :
                      IF k < new[st] THEN Behind(L, p, h, r, st, k, Len(r) + 1)
                      ELSE /\ p \in Nat => p < L[st][k]
                           /\ \A n \in 1..Len(r) : Of(r[n], C) => r[n].seqnum < L[st][k]
    <2>1. cur[st] # 0 /\ cur[st] <= Len(L[st]) + 1
      BY <1>4 DEF Pointed
    <2>2. new[st] # 0 /\ new[st] <= Len(L[st]) + 1
      <3>1. CASE st = t
        BY <1>0, <1>3, <1>10, <3>1
      <3>2. CASE st # t
        BY <1>10, <2>1, <3>2
      <3>3. QED
        BY <3>1, <3>2
    <2>3. ASSUME NEW k \in 1..Len(L[st]), k < new[st]
          PROVE  Behind(L, p, h, r, st, k, Len(r) + 1)
      <3>1. CASE st = t /\ k = j
        <4>1. Len(q) + 1 \in 1..Len(r) /\ Len(q) + 1 < Len(r) + 1
          OBVIOUS
        <4>2. Of(r[Len(q) + 1], {st}) /\ r[Len(q) + 1].index = k
          BY <1>2, <3>1 DEF Of
        <4>3. QED
          BY <4>1, <4>2 DEF Behind
      <3>2. CASE ~(st = t /\ k = j)
        <4>1. k < cur[st]
          <5>1. CASE st = t
            <6>1. k < j + 1 /\ k # j
              BY <1>10, <2>3, <3>2, <5>1, Zenon
            <6>2. k \in Nat /\ j \in Nat
              BY <1>3, Zenon
            <6>3. k < j
              BY <6>1, <6>2, Orders, Zenon
            <6>4. QED
              BY <1>0, <5>1, <6>3, Zenon
          <5>2. CASE st # t
            BY <1>10, <2>3, <5>2, Zenon
          <5>3. QED
            BY <5>1, <5>2, Zenon
        <4>2. Behind(L, p, h, q, st, k, Len(q) + 1)
          BY <2>1, <4>1 DEF Pointed
        <4>3. QED
          <5>1. CASE \E n \in 1..Len(q) : n < Len(q) + 1 /\ Of(q[n], {st}) /\ q[n].index = k
            <6>1. PICK n \in 1..Len(q) : Of(q[n], {st}) /\ q[n].index = k
              BY <5>1
            <6>2. n \in 1..Len(r) /\ n < Len(r) + 1 /\ r[n] = q[n]
              BY Places, Zenon
            <6>3. QED
              BY <6>1, <6>2 DEF Behind
          <5>2. CASE h[st] = 0 /\ \A n \in 1..Len(q) : n < Len(q) + 1 /\ Of(q[n], {st}) => k < q[n].index
            <6>1. ASSUME NEW n \in 1..Len(r), Of(r[n], {st}) PROVE k < r[n].index
              <7>1. CASE n \in 1..Len(q)
                <8>1. n < Len(q) + 1 /\ r[n] = q[n]
                  BY <7>1, Places, Zenon
                <8>2. QED
                  BY <5>2, <6>1, <7>1, <8>1
              <7>2. CASE n = Len(q) + 1
                <8>1. st = t
                  BY <1>2, <6>1, <7>2 DEF Of
                <8>2. r[n].index = j /\ k < j
                  BY <1>0, <1>2, <4>1, <7>2, <8>1
                <8>3. QED
                  BY <8>2
              <7>3. n \in 1..Len(q) \/ n = Len(q) + 1
                BY Places, Zenon
              <7>4. QED
                BY <7>1, <7>2, <7>3
            <6>2. QED
              BY <5>2, <6>1 DEF Behind
          <5>3. QED
            BY <4>2, <5>1, <5>2 DEF Behind
      <3>3. QED
        BY <3>1, <3>2
    <2>4. ASSUME NEW k \in 1..Len(L[st]), ~(k < new[st])
          PROVE  /\ p \in Nat => p < L[st][k]
                 /\ \A n \in 1..Len(r) : Of(r[n], C) => r[n].seqnum < L[st][k]
      <3>1. ~(k < cur[st]) /\ ~(st = t /\ k = j)
        <4>1. CASE st = t
          <5>1. ~(k < j + 1)
            BY <1>10, <2>4, <4>1, Zenon
          <5>2. k \in Nat /\ j \in Nat
            BY <1>3, Zenon
          <5>3. ~(k < j) /\ k # j
            BY <5>1, <5>2, Orders, Zenon
          <5>4. QED
            BY <1>0, <4>1, <5>3, Zenon
        <4>2. CASE st # t
          BY <1>10, <2>4, <4>2, Zenon
        <4>3. QED
          BY <4>1, <4>2, Zenon
      <3>2. L[t][j] < L[st][k]
        BY <1>6, <3>1
      <3>3. /\ p \in Nat => p < L[st][k]
            /\ \A n \in 1..Len(q) : Of(q[n], C) => q[n].seqnum < L[st][k]
        BY <2>1, <3>1 DEF Pointed
      <3>4. ASSUME NEW n \in 1..Len(r), Of(r[n], C) PROVE r[n].seqnum < L[st][k]
        <4>1. CASE n \in 1..Len(q)
          BY <3>3, <3>4, <4>1
        <4>2. CASE n = Len(q) + 1
          <5>1. r[n] = x /\ x.seqnum = L[t][j]
            BY <1>2, <4>2, Zenon
          <5>2. QED
            BY <3>2, <5>1, Zenon
        <4>3. QED
          BY <4>1, <4>2, Places, Zenon
      <3>5. QED
        BY <3>3, <3>4
    <2>5. QED
      BY <2>1, <2>2, <2>3, <2>4
  <1>12. Pointed(C, L, p, h, r, new)
    BY <1>11 DEF Pointed
  <1>13. QED
    BY <1>8, <1>9, <1>12

(* A packet that is published has the largest number of its stations, and  *)
(* changes nothing for those before.                                       *)
LEMMA ChainLogged ==
    ASSUME NEW C, NEW S, C \subseteq S, NEW L \in [S -> Seq(Nat)], NEW K \in [S -> Seq(Nat)],
           NEW p, NEW h \in [S -> Nat], NEW q, NEW s \in S, NEW w \in Nat, Len(q) \in Nat,
           K = [L EXCEPT ![s] = Append(@, w)],
           s \in C => \A st \in C : \A k \in 1..Len(L[st]) : L[st][k] < w,
           Logged(C, L), Placed(C, L, p, h)
    PROVE  /\ Logged(C, K)
           /\ Placed(C, K, p, h)
           /\ Chained(C, L, p, h, q) => Chained(C, K, p, h, q)
           /\ \A cur \in [S -> Nat] :
                 Chained(C, L, p, h, q) /\ Pointed(C, L, p, h, q, cur) => Pointed(C, K, p, h, q, cur)
  <1>1. ASSUME NEW st \in C
        PROVE  /\ Len(L[st]) \in Nat /\ Len(K[st]) \in Nat /\ Len(L[st]) <= Len(K[st])
               /\ \A k \in 1..Len(L[st]) :
                     k \in 1..Len(K[st]) /\ K[st][k] = L[st][k] /\ L[st][k] \in Nat
               /\ \A k \in 1..Len(K[st]) :
                     k \in 1..Len(L[st]) \/ (st = s /\ k = Len(L[st]) + 1 /\ K[st][k] = w)
    <2>1. L[st] \in Seq(Nat) /\ st \in S
      OBVIOUS
    <2>2. CASE st = s
      <3>1. K[st] = Append(L[st], w)
        BY <2>1, <2>2
      <3>2. /\ Len(K[st]) = Len(L[st]) + 1 /\ Len(L[st]) \in Nat
            /\ K[st][Len(L[st]) + 1] = w
            /\ \A k \in 1..Len(L[st]) : K[st][k] = L[st][k]
        BY <2>1, <3>1, WithLast
      <3>3. QED
        BY <2>1, <2>2, <3>2
    <2>3. CASE st # s
      BY <2>1, <2>3
    <2>4. QED
      BY <2>2, <2>3
  <1>2. ASSUME NEW st \in C, NEW k \in 1..Len(K[st]), k \notin 1..Len(L[st])
        PROVE  /\ k = Len(L[st]) + 1 /\ K[st][k] = w
               /\ \A t \in C : \A j \in 1..Len(L[t]) : L[t][j] < w
    BY <1>1, <1>2
  <1>3. Logged(C, K)
    <2>1. ASSUME NEW st \in C, NEW j \in 1..Len(K[st]), NEW k \in 1..Len(K[st]), j < k
          PROVE  K[st][j] < K[st][k]
      <3>1. CASE k \in 1..Len(L[st])
        <4>1. j \in 1..Len(L[st])
          BY <1>1, <2>1, <3>1
        <4>2. QED
          BY <1>1, <2>1, <3>1, <4>1 DEF Logged
      <3>2. CASE k \notin 1..Len(L[st])
        <4>1. j \in 1..Len(L[st])
          BY <1>1, <1>2, <2>1, <3>2
        <4>2. QED
          BY <1>1, <1>2, <3>2, <4>1
      <3>3. QED
        BY <3>1, <3>2
    <2>2. ASSUME NEW st \in C, NEW t \in C,
                 NEW j \in 1..Len(K[st]), NEW k \in 1..Len(K[t]), st # t
          PROVE  K[st][j] # K[t][k]
      <3>1. j \in 1..Len(L[st]) \/ k \in 1..Len(L[t])
        BY <1>1, <2>2
      <3>2. CASE j \in 1..Len(L[st]) /\ k \in 1..Len(L[t])
        <4>1. K[st][j] = L[st][j] /\ K[t][k] = L[t][k]
          BY <1>1, <3>2, Zenon
        <4>2. L[st][j] # L[t][k]
          BY <2>2, <3>2, Zenon DEF Logged
        <4>3. QED
          BY <4>1, <4>2, Zenon
      <3>3. CASE j \notin 1..Len(L[st])
        <4>1. K[st][j] = w /\ k \in 1..Len(L[t]) /\ L[t][k] < w
          BY <1>2, <3>1, <3>3, Zenon
        <4>2. K[t][k] = L[t][k] /\ L[t][k] \in Nat
          BY <1>1, <4>1, Zenon
        <4>3. QED
          BY <4>1, <4>2, Orders, Zenon
      <3>4. CASE k \notin 1..Len(L[t])
        <4>1. K[t][k] = w /\ j \in 1..Len(L[st]) /\ L[st][j] < w
          BY <1>2, <3>1, <3>4, Zenon
        <4>2. K[st][j] = L[st][j] /\ L[st][j] \in Nat
          BY <1>1, <4>1, Zenon
        <4>3. QED
          BY <4>1, <4>2, Orders, Zenon
      <3>5. QED
        BY <3>2, <3>3, <3>4
    <2>3. \A st \in C : \A j, k \in 1..Len(K[st]) : j < k => K[st][j] < K[st][k]
      BY <2>1
    <2>4. \A st, t \in C : \A j \in 1..Len(K[st]) : \A k \in 1..Len(K[t]) :
             st # t => K[st][j] # K[t][k]
      BY <2>2
    <2>5. QED
      BY <2>3, <2>4, Zenon DEF Logged
  <1>4. ASSUME p \in Nat, NEW st \in C, NEW k \in 1..Len(K[st]), k \notin 1..Len(L[st])
        PROVE  p < K[st][k]
    <2>1. PICK t \in C : \E j \in 1..Len(L[t]) : L[t][j] = p
      BY <1>4 DEF Placed
    <2>2. QED
      BY <1>2, <1>4, <2>1
  <1>5. Placed(C, K, p, h)
    <2>1. ASSUME NEW st \in C, h[st] # 0
          PROVE  /\ p \in Nat /\ h[st] \in 1..Len(K[st])
                 /\ \A k \in 1..Len(K[st]) : K[st][k] <= p <=> k <= h[st]
      <3>1. /\ p \in Nat /\ h[st] \in 1..Len(L[st])
            /\ \A k \in 1..Len(L[st]) : L[st][k] <= p <=> k <= h[st]
        BY <2>1 DEF Placed
      <3>2. ASSUME NEW k \in 1..Len(K[st]) PROVE K[st][k] <= p <=> k <= h[st]
        <4>1. CASE k \in 1..Len(L[st])
          BY <1>1, <3>1, <4>1
        <4>2. CASE k \notin 1..Len(L[st])
          <5>1. p < K[st][k] /\ k = Len(L[st]) + 1 /\ K[st][k] = w
            BY <1>2, <1>4, <3>1, <4>2
          <5>2. ~(K[st][k] <= p)
            BY <3>1, <5>1
          <5>3. ~(k <= h[st])
            BY <1>1, <3>1, <5>1
          <5>4. QED
            BY <5>2, <5>3
        <4>3. QED
          BY <4>1, <4>2
      <3>3. QED
        BY <1>1, <3>1, <3>2
    <2>2. ASSUME p \in Nat PROVE \E st \in C : \E k \in 1..Len(K[st]) : K[st][k] = p
      <3>1. PICK st \in C : \E k \in 1..Len(L[st]) : L[st][k] = p
        BY <2>2 DEF Placed
      <3>2. QED
        BY <1>1, <3>1
    <2>3. QED
      BY <2>1, <2>2 DEF Placed
  <1>6. ASSUME NEW st \in C, NEW k \in 1..Len(L[st]), NEW m, Behind(L, p, h, q, st, k, m)
        PROVE  Behind(K, p, h, q, st, k, m)
    <2>1. K[st][k] = L[st][k]
      BY <1>1
    <2>2. QED
      BY <1>6, <2>1, Zenon DEF Behind
  <1>7. ASSUME Chained(C, L, p, h, q) PROVE Chained(C, K, p, h, q)
    <2>1. ASSUME NEW m \in 1..Len(q), Of(q[m], C)
          PROVE  /\ q[m].index \in 1..Len(K[q[m].station])
                 /\ q[m].seqnum = K[q[m].station][q[m].index]
                 /\ p \in Nat => p < q[m].seqnum
                 /\ \A n \in 1..Len(q) : n < m /\ Of(q[n], C) => q[n].seqnum < q[m].seqnum
                 /\ \A st \in C : \A k \in 1..Len(K[st]) :
                       K[st][k] < q[m].seqnum => Behind(K, p, h, q, st, k, m)
      <3>1. PICK t \in C : t = q[m].station
        BY <2>1 DEF Of
      <3>2. PICK j \in 1..Len(L[t]) : j = q[m].index
        BY <1>7, <2>1, <3>1 DEF Chained
      <3>3. /\ q[m].seqnum = L[t][j]
            /\ p \in Nat => p < q[m].seqnum
            /\ \A n \in 1..Len(q) : n < m /\ Of(q[n], C) => q[n].seqnum < q[m].seqnum
            /\ \A st \in C : \A k \in 1..Len(L[st]) :
                  L[st][k] < q[m].seqnum => Behind(L, p, h, q, st, k, m)
        BY <1>7, <2>1, <3>1, <3>2 DEF Chained
      <3>4. ASSUME NEW st \in C, NEW k \in 1..Len(K[st]), K[st][k] < q[m].seqnum
            PROVE  Behind(K, p, h, q, st, k, m)
        <4>1. k \in 1..Len(L[st])
          <5>1. ASSUME k \notin 1..Len(L[st]) PROVE FALSE
            <6>1. K[st][k] = w /\ L[t][j] < w /\ L[t][j] \in Nat
              BY <1>1, <1>2, <5>1
            <6>2. w < L[t][j]
              BY <3>3, <3>4, <6>1
            <6>3. QED
              BY <6>1, <6>2
          <5>2. QED
            BY <5>1
        <4>2. K[st][k] = L[st][k]
          BY <1>1, <4>1
        <4>3. QED
          BY <1>6, <3>3, <3>4, <4>1, <4>2
      <3>5. j \in 1..Len(K[t]) /\ K[t][j] = L[t][j]
        BY <1>1
      <3>6. QED
        BY <3>1, <3>2, <3>3, <3>4, <3>5
    <2>2. QED
      BY <2>1 DEF Chained
  <1>8. ASSUME Chained(C, L, p, h, q), NEW cur \in [S -> Nat], Pointed(C, L, p, h, q, cur)
        PROVE  Pointed(C, K, p, h, q, cur)
    <2>1. ASSUME NEW st \in C, cur[st] # 0
          PROVE  /\ cur[st] <= Len(K[st]) + 1
                 /\ \A k \in 1..Len(K[st]) :
                       IF k < cur[st] THEN Behind(K, p, h, q, st, k, Len(q) + 1)
                       ELSE /\ p \in Nat => p < K[st][k]
                            /\ \A n \in 1..Len(q) : Of(q[n], C) => q[n].seqnum < K[st][k]
      <3>1. /\ cur[st] <= Len(L[st]) + 1 /\ cur[st] \in Nat
            /\ \A k \in 1..Len(L[st]) :
                  IF k < cur[st] THEN Behind(L, p, h, q, st, k, Len(q) + 1)
                  ELSE /\ p \in Nat => p < L[st][k]
                       /\ \A n \in 1..Len(q) : Of(q[n], C) => q[n].seqnum < L[st][k]
        BY <1>8, <2>1 DEF Pointed
      <3>2. ASSUME NEW k \in 1..Len(K[st])
            PROVE  IF k < cur[st] THEN Behind(K, p, h, q, st, k, Len(q) + 1)
                   ELSE /\ p \in Nat => p < K[st][k]
                        /\ \A n \in 1..Len(q) : Of(q[n], C) => q[n].seqnum < K[st][k]
        <4>1. CASE k \in 1..Len(L[st])
          BY <1>1, <1>6, <3>1, <4>1
        <4>2. CASE k \notin 1..Len(L[st])
          <5>1. ~(k < cur[st])
            BY <1>1, <1>2, <3>1, <4>2
          <5>2. p \in Nat => p < K[st][k]
            BY <1>4, <4>2
          <5>3. ASSUME NEW n \in 1..Len(q), Of(q[n], C) PROVE q[n].seqnum < K[st][k]
            <6>1. PICK t \in C : t = q[n].station
              BY <5>3 DEF Of
            <6>2. PICK j \in 1..Len(L[t]) : q[n].seqnum = L[t][j]
              BY <1>8, <5>3, <6>1 DEF Chained
            <6>3. QED
              <7>1. K[st][k] = w /\ L[t][j] < w
                BY <1>2, <4>2, Zenon
              <7>2. QED
                BY <6>2, <7>1, Zenon
          <5>4. QED
            BY <5>1, <5>2, <5>3
        <4>3. QED
          BY <4>1, <4>2
      <3>3. cur[st] <= Len(K[st]) + 1
        BY <1>1, <3>1
      <3>4. QED
        BY <3>2, <3>3
    <2>2. QED
      BY <1>8, <2>1 DEF Pointed
  <1>9. QED
    BY <1>3, <1>5, <1>7, <1>8

(* A server that is asked for what follows the position begins there.      *)
LEMMA PointedAt ==
    ASSUME NEW C, NEW S, C \subseteq S, NEW L \in [S -> Seq(Nat)], NEW p, NEW h,
           NEW q, NEW cur \in [S -> Nat],
           Placed(C, L, p, h), \A n \in 1..Len(q) : ~Of(q[n], C),
           \A st \in C : /\ cur[st] \in 1..Len(L[st]) + 1
                         /\ p \in Nat => \A k \in 1..Len(L[st]) : k < cur[st] <=> L[st][k] <= p
    PROVE  Pointed(C, L, p, h, q, cur)
  <1>1. ASSUME NEW st \in C
        PROVE  /\ cur[st] # 0 /\ cur[st] <= Len(L[st]) + 1
               /\ \A k \in 1..Len(L[st]) :
                     IF k < cur[st] THEN Behind(L, p, h, q, st, k, Len(q) + 1)
                     ELSE /\ p \in Nat => p < L[st][k]
                          /\ \A n \in 1..Len(q) : Of(q[n], C) => q[n].seqnum < L[st][k]
    <2>1. cur[st] # 0 /\ cur[st] <= Len(L[st]) + 1
      OBVIOUS
    <2>2. ASSUME NEW k \in 1..Len(L[st]), k < cur[st]
          PROVE  Behind(L, p, h, q, st, k, Len(q) + 1)
      <3>1. CASE p \in Nat
        BY <2>2, <3>1 DEF Behind
      <3>2. CASE p \notin Nat
        <4>1. h[st] = 0
          BY <3>2 DEF Placed
        <4>2. \A n \in 1..Len(q) : ~Of(q[n], {st})
          BY DEF Of
        <4>3. QED
          BY <4>1, <4>2 DEF Behind
      <3>3. QED
        BY <3>1, <3>2
    <2>3. ASSUME NEW k \in 1..Len(L[st]), ~(k < cur[st]), p \in Nat PROVE p < L[st][k]
      <3>1. L[st] \in Seq(Nat)
        OBVIOUS
      <3>2. L[st][k] \in Nat /\ ~(L[st][k] <= p)
        BY <2>3, <3>1
      <3>3. QED
        BY <2>3, <3>2
    <2>4. QED
      BY <2>1, <2>2, <2>3
  <1>2. QED
    BY <1>1 DEF Pointed

(* In a growing sequence the numbers below a bound come first, so their     *)
(* count tells how far they reach.                                         *)
LEMMA CountedBelow ==
    ASSUME NEW s \in Seq(Nat), NEW b \in Nat,
           \A j, k \in 1..Len(s) : j < k => s[j] < s[k]
    PROVE  LET c == Cardinality({k \in 1..Len(s) : s[k] < b})
           IN  c \in 0..Len(s) /\ \A k \in 1..Len(s) : k <= c <=> s[k] < b
  <1> DEFINE D == {k \in 1..Len(s) : s[k] < b}
             T == (1..Len(s) + 1) \ D
  <1>1. Len(s) \in Nat /\ \A k \in 1..Len(s) : s[k] \in Nat
    OBVIOUS
  <1>2. Len(s) + 1 \in T
    BY <1>1
  <1>3. T \subseteq Nat
    BY <1>1
  <1>4. PICK m \in T : \A y \in T : ~(<<y, m>> \in OpToRel(<, Nat))
    BY <1>2, <1>3, NatLessThanWellFounded, WFMin
  <1>5. \A y \in T : ~(y < m)
    BY <1>3, <1>4 DEF OpToRel
  <1>6. m \in 1..Len(s) + 1 /\ m \notin D
    BY <1>4
  <1>7. \A k \in 1..Len(s) : k <= m - 1 <=> s[k] < b
    <2>1. ASSUME NEW k \in 1..Len(s), k < m PROVE s[k] < b
      <3>1. k \notin T
        BY <1>5, <2>1
      <3>2. QED
        BY <1>1, <3>1
    <2>2. ASSUME NEW k \in 1..Len(s), ~(k < m) PROVE ~(s[k] < b)
      <3>1. m \in 1..Len(s)
        BY <1>1, <1>6, <2>2
      <3>2. ~(s[m] < b) /\ s[m] \in Nat /\ s[k] \in Nat
        BY <1>1, <1>6, <3>1
      <3>3. m = k \/ s[m] < s[k]
        BY <1>6, <2>2, <3>1
      <3>4. QED
        BY <3>2, <3>3
    <2>3. QED
      BY <1>6, <2>1, <2>2
  <1>8. D = 1..(m - 1)
    BY <1>1, <1>6, <1>7
  <1>9. Cardinality(1..(m - 1)) = m - 1
    <2>1. 1 \in Int /\ m - 1 \in Int /\ (1 > m - 1 => m - 1 = 0)
      BY <1>1, <1>6
    <2>2. QED
      BY <2>1, FS_Interval
  <1>10. m - 1 \in 0..Len(s)
    BY <1>1, <1>6
  <1>11. QED
    BY <1>7, <1>8, <1>9, <1>10

(* What one station more or less of other streams has had is no matter.    *)
LEMMA HadElsewhere ==
    ASSUME NEW C, NEW L, NEW p, NEW h, NEW g, NEW q, \A st \in C : g[st] = h[st]
    PROVE  /\ Placed(C, L, p, h) => Placed(C, L, p, g)
           /\ Chained(C, L, p, h, q) => Chained(C, L, p, g, q)
           /\ \A cur : Pointed(C, L, p, h, q, cur) => Pointed(C, L, p, g, q, cur)
  <1>1. \A st \in C : \A k, m : Behind(L, p, h, q, st, k, m) <=> Behind(L, p, g, q, st, k, m)
    BY DEF Behind
  <1>2. QED
    BY <1>1 DEF Placed, Chained, Pointed

-----------------------------------------------------------------------------
(* The feed.                                                               *)

(* The last packet of each station that was yielded.                       *)
Had == [st \in Stations |-> Latest(st)]

(* What the data center publishes: numbers that grow, of all stations      *)
(* together or of each apart.                                              *)
LogInv ==
    /\ \A st \in Stations : Len(log[st]) <= MaxPackets
    /\ \A i \in StreamIds : Logged(Covers[i], log)
    /\ \A st \in Stations : \A k \in 1..Len(log[st]) :
          IF peer.global THEN log[st][k] <= newest ELSE log[st][k] = k

(* Each stream is at the last packet it yielded.                           *)
PlaceInv ==
    /\ \A st \in Stations : delivered[st] # <<>> => Latest(st) # 0
    /\ \A i \in StreamIds : Placed(Covers[i], log, streams[i].seqnum, Had)

(* A request for what follows the position, or for all when there is none. *)
Asks(r, p) == IF p = None THEN r.from \in {"next", "all"} ELSE r.from = "seq" /\ r.seq = p + 1

Wanted(c) == c.role = "data" =>
    c.stream \in StreamIds /\ Asks(c.req, streams[c.stream].seqnum)

Requested == \A k \in 1..Len(c2s) : Wanted(c2s[k])

(* What is on its way, and what the server is to send, go on from the      *)
(* position of each stream.                                                *)
QueueFed ==
    /\ \A m \in 1..Len(s2c) : s2c[m].kind = "data" =>
          \E i \in StreamIds : s2c[m].station \in Covers[i]
    /\ \A i \in StreamIds : Chained(Covers[i], log, streams[i].seqnum, Had, s2c)

ServerFed ==
    /\ \A st \in Stations : cursor[st] # 0 => \E i \in StreamIds : st \in Covers[i]
    /\ \A i \in StreamIds : Pointed(Covers[i], log, streams[i].seqnum, Had, s2c, cursor)

(* As long as the connection is of use.                                    *)
FeedInv == sock /\ ~Given => QueueFed /\ (up => ServerFed /\ Requested)

(* No station belongs to two streams; and the packets of a stream of several*)
(* stations are numbered all together.                                     *)
Separate == \A i, j \in StreamIds : i # j => Covers[i] \cap Covers[j] = {}
Numbered == \A p \in Peers : p.global \/ \A i \in StreamIds : \A s, t \in Covers[i] : s = t

(* Nothing the feed rests on changes, but the queue.                       *)
SamePlaces == /\ UNCHANGED <<log, delivered>>
              /\ \A i \in StreamIds : streams'[i].seqnum = streams[i].seqnum

LEMMA HadOK ==
    ASSUME TypeOK, PlaceInv
    PROVE  /\ Had \in [Stations -> Nat]
           /\ \A st \in Stations : /\ Had[st] = Latest(st)
                                   /\ delivered[st] # <<>> => Had[st] # 0
  <1>1. ASSUME NEW st \in Stations PROVE Latest(st) \in Nat
    <2>1. delivered[st] \in Seq(Nat)
      BY <1>1 DEF TypeOK, ClientTypeOK
    <2>2. CASE delivered[st] = <<>>
      BY <2>2 DEF Latest
    <2>3. CASE delivered[st] # <<>>
      <3>1. PICK d \in Seq(Nat) : d = delivered[st]
        BY <2>1
      <3>2. PICK n \in Nat \ {0} : n = Len(d)
        BY <2>3, <3>1, AfterHead
      <3>3. d[n] \in Nat
        BY <3>1, <3>2
      <3>4. QED
        BY <2>3, <3>1, <3>2, <3>3 DEF Latest
    <2>4. QED
      BY <2>2, <2>3
  <1>2. QED
    BY <1>1 DEF Had, PlaceInv

LEMMA SameHad ==
    ASSUME UNCHANGED delivered
    PROVE  Had' = Had
  BY DEF Had, Latest

LEMMA LogTypes ==
    ASSUME TypeOK
    PROVE  /\ log \in [Stations -> Seq(Nat)] /\ cursor \in [Stations -> Nat]
           /\ \A i \in StreamIds : Covers[i] \subseteq Stations
           /\ \A i \in StreamIds : streams[i].seqnum \in Nat \cup {None}
           /\ s2c \in Seq(Item) /\ Len(s2c) \in Nat
           /\ c2s \in Seq(Command) /\ Len(c2s) \in Nat
  <1>1. /\ log \in [Stations -> Seq(Nat)] /\ cursor \in [Stations -> Nat]
        /\ s2c \in Seq(Item) /\ c2s \in Seq(Command)
    BY DEF TypeOK, ServerTypeOK, WireTypeOK
  <1>2. \A i \in StreamIds : streams[i].seqnum \in Nat \cup {None}
    BY DEF TypeOK, ClientTypeOK, Position
  <1>3. QED
    BY <1>1, <1>2, WireAssumption, LenProperties

(* The connection is closed or cut: what came first is left.               *)
LEMMA FeedCut ==
    ASSUME TypeOK, QueueFed, SamePlaces, NEW n \in 0..Len(s2c), s2c' = SubSeq(s2c, 1, n)
    PROVE  QueueFed'
  <1>1. s2c \in Seq(Item) /\ Len(s2c) \in Nat
    BY LogTypes
  <1>2. PICK q \in Seq(Item) : q = s2c
    BY <1>1
  <1>3. PICK r \in Seq(Item) : /\ r = s2c' /\ Len(r) = n
                               /\ \A k \in 1..Len(r) : k \in 1..Len(q) /\ r[k] = q[k]
    BY <1>1, <1>2, Prefix
  <1>4. Len(q) \in Nat /\ Len(r) \in Nat /\ Len(r) <= Len(q)
    BY <1>1, <1>2, <1>3
  <1>5. ASSUME NEW i \in StreamIds
        PROVE  Chained(Covers[i], log, streams[i].seqnum, Had, r)
    <2>1. Chained(Covers[i], log, streams[i].seqnum, Had, q)
      BY <1>2 DEF QueueFed
    <2>2. QED
      BY <1>3, <1>4, <2>1, ChainCut
  <1>6. Had' = Had /\ log' = log
    BY SameHad DEF SamePlaces
  <1>7. \A i \in StreamIds : Chained(Covers[i], log', streams'[i].seqnum, Had', s2c')
    BY <1>3, <1>5, <1>6 DEF SamePlaces
  <1>8. \A m \in 1..Len(s2c') : s2c'[m].kind = "data" =>
           \E i \in StreamIds : s2c'[m].station \in Covers[i]
    BY <1>2, <1>3 DEF QueueFed
  <1>9. QED
    BY <1>7, <1>8 DEF QueueFed

(* What joins a queue is not data.                                         *)
Joins == /\ Len(s2c) <= Len(s2c') /\ Len(s2c') \in Nat
         /\ \A n \in 1..Len(s2c) : s2c'[n] = s2c[n]
         /\ \A n \in 1..Len(s2c') : Len(s2c) < n => s2c'[n].kind # "data"

LEMMA FeedJoined ==
    ASSUME TypeOK, QueueFed, SamePlaces, Joins
    PROVE  QueueFed' /\ (ServerFed /\ UNCHANGED cursor => ServerFed')
  <1>1. PICK q : q = s2c
    OBVIOUS
  <1>2. PICK r : r = s2c'
    OBVIOUS
  <1>3. /\ Len(q) \in Nat /\ Len(r) \in Nat /\ Len(q) <= Len(r)
        /\ \A n \in 1..Len(q) : r[n] = q[n]
        /\ \A n \in 1..Len(r) : Len(q) < n => r[n].kind # "data"
    BY <1>1, <1>2, LogTypes DEF Joins
  <1>4. ASSUME NEW i \in StreamIds
        PROVE  /\ Chained(Covers[i], log, streams[i].seqnum, Had, r)
               /\ Pointed(Covers[i], log, streams[i].seqnum, Had, q, cursor) =>
                     Pointed(Covers[i], log, streams[i].seqnum, Had, r, cursor)
    <2>1. Chained(Covers[i], log, streams[i].seqnum, Had, q)
      BY <1>1 DEF QueueFed
    <2>2. \A n \in 1..Len(r) : Len(q) < n => ~Of(r[n], Covers[i])
      BY <1>3 DEF Of
    <2>3. QED
      BY <1>3, <2>1, <2>2, ChainJoined
  <1>5. Had' = Had /\ log' = log
    BY SameHad DEF SamePlaces
  <1>6. QueueFed'
    <2>1. \A i \in StreamIds : Chained(Covers[i], log', streams'[i].seqnum, Had', s2c')
      BY <1>2, <1>4, <1>5 DEF SamePlaces
    <2>2. ASSUME NEW m \in 1..Len(s2c'), s2c'[m].kind = "data"
          PROVE  \E i \in StreamIds : s2c'[m].station \in Covers[i]
      <3>1. m \in 1..Len(q) /\ r[m] = q[m]
        BY <1>2, <1>3, <2>2
      <3>2. QED
        BY <1>1, <1>2, <2>2, <3>1 DEF QueueFed
    <2>3. QED
      BY <2>1, <2>2 DEF QueueFed
  <1>7. ASSUME ServerFed, UNCHANGED cursor PROVE ServerFed'
    <2>1. \A i \in StreamIds : Pointed(Covers[i], log', streams'[i].seqnum, Had', s2c', cursor')
      BY <1>1, <1>2, <1>4, <1>5, <1>7 DEF ServerFed, SamePlaces
    <2>2. QED
      BY <1>7, <2>1 DEF ServerFed
  <1>8. QED
    BY <1>6, <1>7

(* What is read is not data.                                               *)
LEMMA FeedPassed ==
    ASSUME TypeOK, QueueFed, SamePlaces, s2c # <<>>, s2c' = Tail(s2c), Head(s2c).kind # "data"
    PROVE  QueueFed' /\ (ServerFed /\ UNCHANGED cursor => ServerFed')
  <1>1. PICK q \in Seq(Item) : q = s2c
    BY LogTypes
  <1>a. q # <<>>
    BY <1>1
  <1>2. PICK r \in Seq(Item) :
           /\ r = s2c' /\ Len(q) \in Nat \ {0} /\ Len(r) = Len(q) - 1
           /\ \A n \in 1..Len(r) : n + 1 \in 1..Len(q) /\ r[n] = q[n + 1]
    <2>1. PICK r : r = Tail(q)
      OBVIOUS
    <2>2. /\ r \in Seq(Item) /\ Len(q) \in Nat \ {0} /\ Len(r) = Len(q) - 1
          /\ \A n \in 1..Len(r) : n + 1 \in 1..Len(q) /\ r[n] = q[n + 1]
      BY <1>a, <2>1, AfterHead, Zenon
    <2>3. QED
      BY <1>1, <2>1, <2>2, Zenon
  <1>3. q[1].kind # "data"
    BY <1>1, AfterHead
  <1>4. ASSUME NEW i \in StreamIds
        PROVE  /\ Chained(Covers[i], log, streams[i].seqnum, Had, r)
               /\ Pointed(Covers[i], log, streams[i].seqnum, Had, q, cursor) =>
                     Pointed(Covers[i], log, streams[i].seqnum, Had, r, cursor)
    <2>1. Chained(Covers[i], log, streams[i].seqnum, Had, q)
      BY <1>1 DEF QueueFed
    <2>2. ~Of(q[1], Covers[i])
      BY <1>3 DEF Of
    <2>3. QED
      BY <1>2, <2>1, <2>2, ChainPassed
  <1>5. Had' = Had /\ log' = log
    BY SameHad DEF SamePlaces
  <1>6. QueueFed'
    <2>1. \A i \in StreamIds : Chained(Covers[i], log', streams'[i].seqnum, Had', s2c')
      BY <1>2, <1>4, <1>5 DEF SamePlaces
    <2>2. \A m \in 1..Len(s2c') : s2c'[m].kind = "data" =>
             \E i \in StreamIds : s2c'[m].station \in Covers[i]
      BY <1>1, <1>2 DEF QueueFed
    <2>3. QED
      BY <2>1, <2>2 DEF QueueFed
  <1>7. ASSUME ServerFed, UNCHANGED cursor PROVE ServerFed'
    <2>1. \A i \in StreamIds : Pointed(Covers[i], log', streams'[i].seqnum, Had', s2c', cursor')
      BY <1>1, <1>2, <1>4, <1>5, <1>7 DEF ServerFed, SamePlaces
    <2>2. QED
      BY <1>7, <2>1 DEF ServerFed
  <1>8. QED
    BY <1>6, <1>7

(* An empty queue feeds nobody.                                            *)
LEMMA FeedEmpty ==
    ASSUME s2c' = <<>>
    PROVE  QueueFed'
  <1>1. 1..Len(s2c') = {}
    OBVIOUS
  <1>2. QED
    BY <1>1 DEF QueueFed, Chained

(* A packet the server sends is the next of its stream.                    *)
LEMMA FeedSent ==
    ASSUME TypeOK, LogInv, Numbered, Separate, QueueFed, ServerFed, NEW t \in Stations,
           SendPacket(t), UNCHANGED clientVars
    PROVE  QueueFed' /\ ServerFed'
  <1>a. /\ log \in [Stations -> Seq(Nat)] /\ cursor \in [Stations -> Nat]
        /\ \A i \in StreamIds : Covers[i] \subseteq Stations
        /\ s2c \in Seq(Item) /\ Len(s2c) \in Nat
    BY LogTypes
  <1>b. PICK x : x = DataFrame(t, cursor[t], log[t][cursor[t]])
    OBVIOUS
  <1>c. /\ cursor[t] \in 1..Len(log[t]) /\ s2c' = Append(s2c, x)
        /\ cursor' = [cursor EXCEPT ![t] = @ + 1] /\ log' = log
        /\ peer.global => \A o \in Stations : Waiting(o) => log[t][cursor[t]] <= log[o][cursor[o]]
    BY <1>b DEF SendPacket, Waiting
  <1>d. x.kind = "data" /\ x.station = t /\ x \in Item
    <2>1. log[t] \in Seq(Nat)
      BY <1>a
    <2>2. log[t][cursor[t]] \in Nat
      BY <1>c, <2>1
    <2>3. cursor[t] \in Nat
      BY <1>a
    <2>4. QED
      BY <1>b, <2>2, <2>3 DEF DataFrame, Item
  <1>e. PICK q \in Seq(Item) : q = s2c
    BY <1>a
  <1>f. PICK r \in Seq(Item) : /\ r = s2c' /\ Len(r) = Len(q) + 1 /\ Len(q) \in Nat
                               /\ r[Len(q) + 1] = x /\ \A n \in 1..Len(q) : r[n] = q[n]
    <2>1. /\ Append(q, x) \in Seq(Item) /\ Len(Append(q, x)) = Len(q) + 1 /\ Len(q) \in Nat
          /\ Append(q, x)[Len(q) + 1] = x /\ \A n \in 1..Len(q) : Append(q, x)[n] = q[n]
      BY <1>d, WithLast
    <2>2. s2c' = Append(q, x)
      BY <1>c, <1>e
    <2>3. QED
      BY <2>1, <2>2, Zenon
  <1>g. cursor[t] # 0
    BY <1>c
  <1>h. PICK i \in StreamIds : t \in Covers[i]
    BY <1>g DEF ServerFed
  <1>i. ASSUME NEW o \in Covers[i], cursor[o] \in 1..Len(log[o])
        PROVE  log[t][cursor[t]] <= log[o][cursor[o]]
    <2>1. o \in Stations
      BY <1>a
    <2>2. CASE peer.global
      BY <1>c, <1>i, <2>1, <2>2 DEF Waiting
    <2>3. CASE ~peer.global
      <3>1. peer \in Peers
        BY DEF TypeOK, ServerTypeOK
      <3>2. o = t
        BY <1>h, <2>3, <3>1 DEF Numbered
      <3>3. log[t][cursor[t]] \in Nat
        BY <1>a, <1>c
      <3>4. QED
        BY <3>2, <3>3
    <2>4. QED
      BY <2>2, <2>3
  <1>1. /\ Chained(Covers[i], log, streams[i].seqnum, Had, r)
        /\ Pointed(Covers[i], log, streams[i].seqnum, Had, r, cursor')
    <2>1. /\ Logged(Covers[i], log)
          /\ Chained(Covers[i], log, streams[i].seqnum, Had, q)
          /\ Pointed(Covers[i], log, streams[i].seqnum, Had, q, cursor)
      BY <1>e DEF LogInv, QueueFed, ServerFed
    <2>2. PICK cur : cur = [cursor EXCEPT ![t] = @ + 1]
      OBVIOUS
    <2>3. /\ Chained(Covers[i], log, streams[i].seqnum, Had, r)
          /\ Pointed(Covers[i], log, streams[i].seqnum, Had, r, [cursor EXCEPT ![t] = @ + 1])
      BY <1>a, <1>b, <1>c, <1>f, <1>h, <1>i, <2>1, ChainSent
    <2>4. QED
      BY <1>c, <2>3, Zenon
  <1>2. ASSUME NEW j \in StreamIds, j # i
        PROVE  /\ Chained(Covers[j], log, streams[j].seqnum, Had, r)
               /\ Pointed(Covers[j], log, streams[j].seqnum, Had, r, cursor')
    <2>1. t \notin Covers[j]
      BY <1>h, <1>2 DEF Separate
    <2>2. \A n \in 1..Len(r) : Len(q) < n => ~Of(r[n], Covers[j])
      <3>1. ASSUME NEW n \in 1..Len(r), Len(q) < n PROVE ~Of(r[n], Covers[j])
        <4>1. n = Len(q) + 1
          BY <1>f, <3>1
        <4>2. QED
          BY <1>d, <1>f, <2>1, <4>1 DEF Of
      <3>2. QED
        BY <3>1
    <2>3. /\ Chained(Covers[j], log, streams[j].seqnum, Had, q)
          /\ Pointed(Covers[j], log, streams[j].seqnum, Had, q, cursor)
      BY <1>e DEF QueueFed, ServerFed
    <2>4. Len(q) <= Len(r) /\ Len(r) \in Nat
      BY <1>f
    <2>5. /\ Chained(Covers[j], log, streams[j].seqnum, Had, r)
          /\ Pointed(Covers[j], log, streams[j].seqnum, Had, r, cursor)
      BY <1>f, <2>2, <2>3, <2>4, ChainJoined
    <2>6. \A st \in Covers[j] : cursor'[st] = cursor[st]
      BY <1>a, <1>c, <2>1
    <2>7. QED
      BY <2>5, <2>6 DEF Pointed
  <1>3. UNCHANGED <<streams, delivered, log>> /\ Had' = Had
    BY <1>c, SameHad DEF clientVars
  <1>4. QueueFed'
    <2>1. \A j \in StreamIds : Chained(Covers[j], log', streams'[j].seqnum, Had', s2c')
      BY <1>1, <1>2, <1>3, <1>f
    <2>2. ASSUME NEW m \in 1..Len(s2c'), s2c'[m].kind = "data"
          PROVE  \E j \in StreamIds : s2c'[m].station \in Covers[j]
      <3>1. m \in 1..Len(q) \/ m = Len(q) + 1
        BY <1>f
      <3>2. CASE m \in 1..Len(q)
        BY <1>e, <1>f, <2>2, <3>2 DEF QueueFed
      <3>3. CASE m = Len(q) + 1
        BY <1>d, <1>f, <1>h, <3>3
      <3>4. QED
        BY <3>1, <3>2, <3>3
    <2>3. QED
      BY <2>1, <2>2 DEF QueueFed
  <1>5. ServerFed'
    <2>1. \A j \in StreamIds : Pointed(Covers[j], log', streams'[j].seqnum, Had', s2c', cursor')
      BY <1>1, <1>2, <1>3, <1>f
    <2>2. ASSUME NEW st \in Stations, cursor'[st] # 0 PROVE \E j \in StreamIds : st \in Covers[j]
      <3>1. CASE st = t
        BY <1>h, <3>1
      <3>2. CASE st # t
        <4>1. cursor'[st] = cursor[st]
          BY <1>a, <1>c, <3>2
        <4>2. QED
          BY <2>2, <4>1 DEF ServerFed
      <3>3. QED
        BY <3>1, <3>2
    <2>3. QED
      BY <2>1, <2>2 DEF ServerFed
  <1>6. QED
    BY <1>4, <1>5

(* What is published follows all that was.                                 *)
LEMMA FeedLogged ==
    ASSUME TypeOK, TypeOK', LogInv, PlaceInv, Numbered, NEW t \in Stations, Publish(t),
           UNCHANGED clientVars
    PROVE  /\ LogInv' /\ PlaceInv'
           /\ QueueFed => QueueFed'
           /\ QueueFed /\ ServerFed => ServerFed'
  <1>a. /\ log \in [Stations -> Seq(Nat)] /\ cursor \in [Stations -> Nat]
        /\ \A i \in StreamIds : Covers[i] \subseteq Stations
        /\ Len(s2c) \in Nat /\ newest \in Nat
    BY LogTypes DEF TypeOK, ServerTypeOK
  <1>b. log' \in [Stations -> Seq(Nat)]
    BY DEF TypeOK, ServerTypeOK
  <1>c. PICK w : w = IF peer.global THEN newest + 1 ELSE Len(log[t]) + 1
    OBVIOUS
  <1>d. /\ log' = [log EXCEPT ![t] = Append(@, w)] /\ newest' = newest + 1
        /\ Len(log[t]) < MaxPackets
        /\ UNCHANGED <<s2c, cursor, peer, streams, delivered>>
    BY <1>c DEF Publish, wireVars, clientVars
  <1>e. w \in Nat
    <2>1. log[t] \in Seq(Nat)
      BY <1>a
    <2>2. Len(log[t]) \in Nat
      BY <2>1
    <2>3. QED
      BY <1>a, <1>c, <2>2
  <1>f. ASSUME NEW i \in StreamIds, t \in Covers[i], NEW st \in Covers[i],
               NEW k \in 1..Len(log[st])
        PROVE  log[st][k] < w
    <2>1. st \in Stations
      BY <1>a
    <2>2. log[st] \in Seq(Nat)
      BY <1>a, <2>1
    <2>3. log[st][k] \in Nat /\ Len(log[st]) \in Nat /\ k \in Nat /\ k <= Len(log[st])
      BY <2>2
    <2>4. CASE peer.global
      <3>1. log[st][k] <= newest
        BY <2>1, <2>4 DEF LogInv
      <3>2. QED
        BY <1>a, <1>c, <2>3, <2>4, <3>1
    <2>5. CASE ~peer.global
      <3>1. st = t
        <4>1. peer \in Peers
          BY DEF TypeOK, ServerTypeOK
        <4>2. QED
          BY <1>f, <2>5, <4>1 DEF Numbered
      <3>2. log[st][k] = k
        BY <2>1, <2>5 DEF LogInv
      <3>3. QED
        BY <1>c, <2>3, <2>5, <3>1, <3>2
    <2>6. QED
      BY <2>4, <2>5
  <1>g. Had' = Had /\ Had \in [Stations -> Nat]
    BY <1>d, SameHad, HadOK
  <1>1. ASSUME NEW i \in StreamIds
        PROVE  /\ Logged(Covers[i], log') /\ Placed(Covers[i], log', streams[i].seqnum, Had)
               /\ Chained(Covers[i], log, streams[i].seqnum, Had, s2c) =>
                     Chained(Covers[i], log', streams[i].seqnum, Had, s2c)
               /\ /\ Chained(Covers[i], log, streams[i].seqnum, Had, s2c)
                  /\ Pointed(Covers[i], log, streams[i].seqnum, Had, s2c, cursor)
                  => Pointed(Covers[i], log', streams[i].seqnum, Had, s2c, cursor)
    <2>1. Logged(Covers[i], log) /\ Placed(Covers[i], log, streams[i].seqnum, Had)
      BY DEF LogInv, PlaceInv
    <2>2. PICK K \in [Stations -> Seq(Nat)] : K = log' /\ K = [log EXCEPT ![t] = Append(@, w)]
      BY <1>b, <1>d
    <2>3. t \in Covers[i] => \A st \in Covers[i] : \A k \in 1..Len(log[st]) : log[st][k] < w
      BY <1>f
    <2>4. Covers[i] \subseteq Stations
      BY <1>a
    <2>5. PICK p : p = streams[i].seqnum
      OBVIOUS
    <2>6. PICK h \in [Stations -> Nat] : h = Had
      BY <1>g
    <2>7. Placed(Covers[i], log, p, h)
      BY <2>1, <2>5, <2>6
    <2>8. /\ Logged(Covers[i], K) /\ Placed(Covers[i], K, p, h)
          /\ Chained(Covers[i], log, p, h, s2c) => Chained(Covers[i], K, p, h, s2c)
          /\ \A cur \in [Stations -> Nat] :
                Chained(Covers[i], log, p, h, s2c) /\ Pointed(Covers[i], log, p, h, s2c, cur)
                   => Pointed(Covers[i], K, p, h, s2c, cur)
      BY <1>a, <1>e, <2>1, <2>2, <2>3, <2>4, <2>7, ChainLogged
    <2>9. QED
      BY <1>a, <2>2, <2>5, <2>6, <2>8, Zenon
  <1>2. LogInv'
    <2>1. ASSUME NEW st \in Stations
          PROVE  /\ Len(log'[st]) <= MaxPackets
                 /\ \A k \in 1..Len(log'[st]) :
                       IF peer.global THEN log'[st][k] <= newest + 1 ELSE log'[st][k] = k
      <3>1. log[st] \in Seq(Nat)
        BY <1>a
      <3>2. Len(log[st]) \in Nat /\ \A k \in 1..Len(log[st]) : log[st][k] \in Nat
        BY <3>1
      <3>3. /\ Len(log[st]) <= MaxPackets
            /\ \A k \in 1..Len(log[st]) :
                  IF peer.global THEN log[st][k] <= newest ELSE log[st][k] = k
        BY DEF LogInv
      <3>4. CASE st # t
        <4>1. log'[st] = log[st]
          BY <1>d, <3>4
        <4>2. \A k \in 1..Len(log[st]) : peer.global => log[st][k] <= newest + 1
          BY <1>a, <3>2, <3>3
        <4>3. QED
          BY <3>3, <4>1, <4>2
      <3>5. CASE st = t
        <4>1. log'[st] = Append(log[st], w)
          BY <1>a, <1>d, <3>5
        <4>2. /\ Len(log'[st]) = Len(log[st]) + 1
              /\ log'[st][Len(log[st]) + 1] = w
              /\ \A k \in 1..Len(log[st]) : log'[st][k] = log[st][k]
          BY <1>e, <3>1, <4>1, WithLast
        <4>3. Len(log'[st]) <= MaxPackets
          BY <1>d, <3>2, <3>5, <4>2, WireAssumption
        <4>4. ASSUME NEW k \in 1..Len(log'[st])
              PROVE  IF peer.global THEN log'[st][k] <= newest + 1 ELSE log'[st][k] = k
          <5>1. CASE k \in 1..Len(log[st])
            <6>1. log'[st][k] = log[st][k] /\ log[st][k] \in Nat
              BY <3>2, <4>2, <5>1, Zenon
            <6>2. IF peer.global THEN log[st][k] <= newest ELSE log[st][k] = k
              BY <3>3, <5>1, Zenon
            <6>3. newest \in Nat
              BY <1>a
            <6>4. QED
              BY <6>1, <6>2, <6>3, Orders, Zenon
          <5>2. CASE k = Len(log[st]) + 1
            BY <1>a, <1>c, <3>5, <4>2, <5>2
          <5>3. QED
            BY <3>2, <4>2, <5>1, <5>2
        <4>5. QED
          BY <4>3, <4>4
      <3>6. QED
        BY <3>4, <3>5
    <2>2. QED
      BY <1>1, <1>d, <2>1 DEF LogInv
  <1>3. PlaceInv'
    <2>1. \A i \in StreamIds : Placed(Covers[i], log', streams'[i].seqnum, Had')
      BY <1>1, <1>d, <1>g
    <2>2. \A st \in Stations : delivered'[st] # <<>> => Latest(st)' # 0
      BY <1>d DEF PlaceInv, Latest
    <2>3. QED
      BY <2>1, <2>2 DEF PlaceInv
  <1>4. ASSUME QueueFed PROVE QueueFed'
    BY <1>1, <1>4, <1>d, <1>g DEF QueueFed
  <1>5. ASSUME QueueFed, ServerFed PROVE ServerFed'
    BY <1>1, <1>5, <1>d, <1>g DEF QueueFed, ServerFed
  <1>6. QED
    BY <1>2, <1>3, <1>4, <1>5

(* What the server says of itself joins the queue and is not data.         *)
LEMMA OneJoins ==
    ASSUME TypeOK, s2c' = s2c \/ \E x \in Item : x.kind # "data" /\ s2c' = Append(s2c, x)
    PROVE  Joins
  <1>a. s2c \in Seq(Item) /\ Len(s2c) \in Nat
    BY LogTypes
  <1>1. CASE s2c' = s2c
    BY <1>a, <1>1 DEF Joins
  <1>2. ASSUME NEW x \in Item, x.kind # "data", s2c' = Append(s2c, x) PROVE Joins
    <2>1. /\ Len(s2c') = Len(s2c) + 1 /\ s2c'[Len(s2c) + 1] = x
          /\ \A k \in 1..Len(s2c) : s2c'[k] = s2c[k]
      BY <1>a, <1>2, WithLast
    <2>2. \A n \in 1..Len(s2c') : Len(s2c) < n => n = Len(s2c) + 1
      BY <1>a, <2>1
    <2>3. QED
      BY <1>a, <1>2, <2>1, <2>2 DEF Joins
  <1>3. QED
    BY <1>1, <1>2

LEMMA ServeJoins ==
    ASSUME TypeOK, NamedInv, Serve
    PROVE  Joins
  <1>a. s2c \in Seq(Item) /\ Len(s2c) \in Nat /\ c2s \in Seq(Named)
    BY LogTypes DEF NamedInv
  <1>b. ASSUME NEW c \in Command, NEW ok \in BOOLEAN, Answer(c, ok)
        PROVE  s2c' = s2c \/ \E x \in Item : x.kind # "data" /\ s2c' = Append(s2c, x)
    <2>1. Line(c.name, ok) \in Item /\ Line(c.name, ok).kind # "data"
      <3>1. c.name \in CommandNames
        BY DEF Command
      <3>2. c.name \in CommandNames \cup {""}
        BY <3>1, Zenon
      <3>3. QED
        BY <3>2 DEF Line, Item
    <2>2. s2c' = s2c \/ s2c' = Append(s2c, Line(c.name, ok))
      BY <1>b DEF Answer
    <2>3. QED
      BY <2>1, <2>2, Zenon
  <1>c. CASE ServeBye \/ ServeEnd
    BY <1>c, OneJoins DEF ServeBye, ServeEnd
  <1>d. ASSUME ~ServeBye PROVE c2s # <<>> /\ Head(c2s) \in Named /\ Head(c2s) \in Command
    <2>1. c2s # <<>>
      BY <1>d DEF Serve, ServeHello, ServeSetting, ServeStation, ServeSelect, ServeRequest,
         ServeEnd, ServeInfo, ServeUntimely, Handling
    <2>2. Head(c2s) \in Named
      BY <1>a, <2>1, AfterHead
    <2>3. QED
      BY <2>1, <2>2 DEF Named
  <1>1. CASE ServeHello
    <2>1. peer \in Peer
      BY ServerAssumption DEF TypeOK, ServerTypeOK
    <2>2. Identity(peer.majors, peer.cap) \in Item /\ Identity(peer.majors, peer.cap).kind # "data"
      BY <2>1 DEF Identity, Item, Peer
    <2>3. QED
      BY <1>1, <2>2, OneJoins DEF ServeHello
  <1>2. CASE ~ServeBye /\ (ServeSetting \/ ServeStation \/ ServeSelect)
    <2>1. \E ok \in BOOLEAN : Answer(Head(c2s), ok)
      BY <1>2 DEF ServeSetting, ServeStation, ServeSelect, Obey, Refuse
    <2>2. QED
      BY <1>b, <1>d, <1>2, <2>1, OneJoins
  <1>3. CASE ~ServeBye /\ ServeRequest
    <2>1. s2c' = s2c \/ \E ok \in BOOLEAN : Answer(Head(c2s), ok)
      BY <1>3 DEF ServeRequest, Obey, Refuse
    <2>2. QED
      BY <1>b, <1>d, <1>3, <2>1, OneJoins
  <1>4. CASE ~ServeBye /\ ServeInfo
    <2>1. Handles /\ Head(c2s).name \in {"INFO", "KEEPALIVE"}
      BY <1>4 DEF ServeInfo, Handling, Handles
    <2>2. CASE \E n \in Nat \ {0} : s2c' = s2c \o [j \in 1..n |-> InfoFrame(Head(c2s).name, j < n)]
      <3>0. PICK n \in Nat \ {0} : s2c' = s2c \o [j \in 1..n |-> InfoFrame(Head(c2s).name, j < n)]
        BY <2>2
      <3>1. PICK r : r = [j \in 1..n |-> InfoFrame(Head(c2s).name, j < n)] /\ s2c' = s2c \o r
        BY <3>0
      <3>2. r \in Seq(Unended) /\ Len(r) = n /\ \A k \in 1..n : r[k].kind = "info"
        BY <2>1, <3>1, FramesOK
      <3>3. r \in Seq(Item)
        BY <3>2, Wider DEF Unended, Heard
      <3>4. /\ Len(s2c') = Len(s2c) + n
            /\ \A k \in 1..Len(s2c') : s2c'[k] = IF k <= Len(s2c) THEN s2c[k] ELSE r[k - Len(s2c)]
        BY <1>a, <3>1, <3>2, <3>3, ConcatProperties
      <3>5. ASSUME NEW k \in 1..Len(s2c'), Len(s2c) < k PROVE s2c'[k].kind # "data"
        <4>1. k - Len(s2c) \in 1..n /\ ~(k <= Len(s2c))
          BY <1>a, <3>4, <3>5
        <4>2. QED
          BY <3>2, <3>4, <4>1
      <3>6. \A k \in 1..Len(s2c) : s2c'[k] = s2c[k]
        BY <1>a, <3>4
      <3>7. Len(s2c) <= Len(s2c') /\ Len(s2c') \in Nat
        BY <1>a, <3>4
      <3>8. QED
        BY <3>5, <3>6, <3>7 DEF Joins
    <2>3. CASE \E name \in {"INFO", "KEEPALIVE"} : s2c' = Append(s2c, Line(name, FALSE))
      <3>1. PICK name \in {"INFO", "KEEPALIVE"} : s2c' = Append(s2c, Line(name, FALSE))
        BY <2>3
      <3>2. Line(name, FALSE) \in Item /\ Line(name, FALSE).kind # "data"
        BY HeardItems DEF Unended, Heard, Line
      <3>3. QED
        BY <3>1, <3>2, OneJoins
    <2>4. QED
      BY <1>4, <2>1, <2>2, <2>3, HandledInfo DEF Serve
  <1>5. CASE ServeUntimely
    <2>1. Line("", FALSE) \in Item
      BY HeardItems DEF Unended, Heard
    <2>2. Line("", FALSE).kind # "data"
      BY DEF Line
    <2>3. s2c' = Append(s2c, Line("", FALSE))
      BY <1>5 DEF ServeUntimely
    <2>4. QED
      BY <2>1, <2>2, <2>3, OneJoins, Zenon
  <1>6. QED
    BY <1>c, <1>1, <1>2, <1>3, <1>4, <1>5 DEF Serve

(* Of the steps of the server only a request moves what it sends next.     *)
LEMMA ServeKeeps ==
    ASSUME Serve
    PROVE  /\ UNCHANGED <<log, peer, newest>>
           /\ UNCHANGED cursor \/ ServeRequest
           /\ up' => up
  BY DEF Serve, ServeHello, ServeSetting, ServeStation, ServeSelect, ServeRequest,
     ServeEnd, ServeInfo, ServeBye, ServeUntimely, Handling, serverVars

(* A server that is asked for nothing has nothing to send.                 *)
LEMMA FeedUnasked ==
    ASSUME TypeOK, QueueFed, SamePlaces, Joins, cursor' = Unasked
    PROVE  QueueFed' /\ ServerFed'
  <1>1. QueueFed'
    BY FeedJoined
  <1>2. \A st \in Stations : cursor'[st] = 0
    BY DEF Unasked
  <1>3. ASSUME NEW i \in StreamIds, NEW L, NEW p, NEW h, NEW q
        PROVE  Pointed(Covers[i], L, p, h, q, cursor')
    <2>1. \A st \in Covers[i] : cursor'[st] = 0
      BY <1>2, LogTypes
    <2>2. QED
      BY <2>1 DEF Pointed
  <1>4. QED
    BY <1>1, <1>2, <1>3 DEF ServerFed

(* A request that follows the position is answered from the packet after.  *)
LEMMA FirstFromAfter ==
    ASSUME TypeOK, LogInv, NEW i \in StreamIds, NEW st \in Covers[i], NEW r \in Request,
           NEW p \in Nat \cup {None}, Asks(r, p)
    PROVE  /\ FirstFrom(r, st) \in 1..Len(log[st]) + 1
           /\ p \in Nat => \A k \in 1..Len(log[st]) : k < FirstFrom(r, st) <=> log[st][k] <= p
  <1>1. st \in Stations /\ log[st] \in Seq(Nat)
    BY LogTypes
  <1>2. Len(log[st]) \in Nat /\ \A k \in 1..Len(log[st]) : log[st][k] \in Nat
    BY <1>1
  <1>3. CASE p = None
    <2>1. p \notin Nat /\ r.from \in {"next", "all"}
      BY <1>3, CommandsAssumption DEF Asks
    <2>2. FirstFrom(r, st) = 1 \/ FirstFrom(r, st) = Len(log[st]) + 1
      BY <2>1 DEF FirstFrom
    <2>3. QED
      BY <1>2, <2>1, <2>2
  <1>4. CASE p # None
    <2>1. p \in Nat /\ r.from = "seq" /\ r.seq = p + 1
      BY <1>4 DEF Asks
    <2>2. PICK b \in Nat : b = p + 1
      BY <2>1
    <2>3. PICK s \in Seq(Nat) : s = log[st]
      BY <1>1
    <2>4. \A j, k \in 1..Len(s) : j < k => s[j] < s[k]
      BY <2>3 DEF LogInv, Logged
    <2>5. PICK c : c = Cardinality({k \in 1..Len(s) : s[k] < b})
      OBVIOUS
    <2>6. c \in 0..Len(s) /\ \A k \in 1..Len(s) : k <= c <=> s[k] < b
      BY <2>4, <2>5, CountedBelow
    <2>7. FirstFrom(r, st) = 1 + c
      BY <2>1, <2>2, <2>3, <2>5 DEF FirstFrom
    <2>8. Len(s) \in Nat /\ c \in Nat /\ c <= Len(s)
      BY <2>6
    <2>9. 1 + c \in 1..Len(s) + 1
      BY <2>8
    <2>10. ASSUME NEW k \in 1..Len(s) PROVE k < 1 + c <=> s[k] <= p
      <3>1. s[k] \in Nat /\ k \in Nat
        BY <2>8
      <3>2. k <= c <=> s[k] < b
        BY <2>6
      <3>3. QED
        BY <2>1, <2>2, <2>8, <3>1, <3>2
    <2>11. QED
      BY <2>3, <2>7, <2>9, <2>10
  <1>5. QED
    BY <1>3, <1>4

(* So the server that takes the request goes on where the stream is.       *)
LEMMA FeedAsked ==
    ASSUME TypeOK, LogInv, PlaceInv, Separate, QueueFed, ServerFed, SamePlaces, Joins,
           NEW i \in StreamIds, NEW r \in Request, Asks(r, streams[i].seqnum), Subscribe(i, r),
           \A n \in 1..Len(s2c) : s2c[n].kind # "data"
    PROVE  QueueFed' /\ ServerFed'
  <1>a. /\ log \in [Stations -> Seq(Nat)] /\ cursor \in [Stations -> Nat]
        /\ \A j \in StreamIds : Covers[j] \subseteq Stations
        /\ s2c \in Seq(Item) /\ Len(s2c) \in Nat
        /\ \A j \in StreamIds : streams[j].seqnum \in Nat \cup {None}
    BY LogTypes
  <1>b. PICK p \in Nat \cup {None} : p = streams[i].seqnum
    BY <1>a
  <1>c. PICK cur : cur = cursor'
    OBVIOUS
  <1>d. cur = [st \in Stations |-> IF st \in Covers[i] THEN FirstFrom(r, st) ELSE cursor[st]]
    BY <1>c DEF Subscribe
  <1>e. \A st \in Covers[i] : /\ cur[st] \in 1..Len(log[st]) + 1
                              /\ p \in Nat => \A k \in 1..Len(log[st]) : k < cur[st] <=> log[st][k] <= p
    <2>1. ASSUME NEW st \in Covers[i]
          PROVE  /\ cur[st] \in 1..Len(log[st]) + 1
                 /\ p \in Nat => \A k \in 1..Len(log[st]) : k < cur[st] <=> log[st][k] <= p
      <3>1. cur[st] = FirstFrom(r, st)
        BY <1>a, <1>d
      <3>2. Asks(r, p)
        BY <1>b
      <3>3. /\ FirstFrom(r, st) \in 1..Len(log[st]) + 1
            /\ p \in Nat => \A k \in 1..Len(log[st]) : k < FirstFrom(r, st) <=> log[st][k] <= p
        BY <3>2, FirstFromAfter
      <3>4. QED
        BY <3>1, <3>3
    <2>2. QED
      BY <2>1
  <1>f. cur \in [Stations -> Nat]
    <2>1. ASSUME NEW st \in Covers[i] PROVE cur[st] \in Nat
      <3>1. st \in Stations
        BY <1>a
      <3>2. log[st] \in Seq(Nat)
        BY <1>a, <3>1
      <3>3. Len(log[st]) \in Nat
        BY <3>2
      <3>4. QED
        BY <1>e, <3>3
    <2>2. QED
      BY <1>a, <1>d, <2>1
  <1>1. QueueFed'
    BY FeedJoined
  <1>2. PICK q : q = s2c'
    OBVIOUS
  <1>3. Len(q) \in Nat /\ \A n \in 1..Len(q) : q[n].kind # "data"
    <2>1. Len(q) \in Nat /\ Len(s2c) <= Len(q)
      BY <1>2 DEF Joins
    <2>2. ASSUME NEW n \in 1..Len(q) PROVE q[n].kind # "data"
      <3>1. CASE n <= Len(s2c)
        <4>1. n \in 1..Len(s2c)
          BY <1>a, <2>1, <3>1
        <4>2. QED
          BY <1>2, <4>1 DEF Joins
      <3>2. CASE Len(s2c) < n
        BY <1>2, <3>2 DEF Joins
      <3>3. QED
        BY <1>a, <2>1, <3>1, <3>2
    <2>3. QED
      BY <2>1, <2>2
  <1>4. Had' = Had /\ log' = log
    BY SameHad DEF SamePlaces
  <1>5. Pointed(Covers[i], log, streams[i].seqnum, Had, q, cur)
    <2>1. Placed(Covers[i], log, p, Had)
      BY <1>b DEF PlaceInv
    <2>2. \A n \in 1..Len(q) : ~Of(q[n], Covers[i])
      BY <1>3 DEF Of
    <2>3. Covers[i] \subseteq Stations
      BY <1>a
    <2>4. Pointed(Covers[i], log, p, Had, q, cur)
      BY <1>a, <1>e, <1>f, <2>1, <2>2, <2>3, PointedAt
    <2>5. QED
      BY <1>b, <2>4
  <1>6. ASSUME NEW j \in StreamIds, j # i
        PROVE  Pointed(Covers[j], log, streams[j].seqnum, Had, q, cur)
    <2>1. /\ Chained(Covers[j], log, streams[j].seqnum, Had, s2c)
          /\ Pointed(Covers[j], log, streams[j].seqnum, Had, s2c, cursor)
      BY DEF QueueFed, ServerFed
    <2>2. /\ Len(s2c) <= Len(q) /\ \A n \in 1..Len(s2c) : q[n] = s2c[n]
          /\ \A n \in 1..Len(q) : Len(s2c) < n => ~Of(q[n], Covers[j])
      BY <1>2 DEF Joins, Of
    <2>3. Pointed(Covers[j], log, streams[j].seqnum, Had, q, cursor)
      BY <1>a, <1>3, <2>1, <2>2, ChainJoined
    <2>4. \A st \in Covers[j] : cur[st] = cursor[st]
      BY <1>a, <1>d, <1>6 DEF Separate
    <2>5. QED
      BY <2>3, <2>4 DEF Pointed
  <1>7. \A j \in StreamIds : Pointed(Covers[j], log', streams'[j].seqnum, Had', s2c', cursor')
    BY <1>c, <1>2, <1>4, <1>5, <1>6 DEF SamePlaces
  <1>8. ASSUME NEW st \in Stations, cursor'[st] # 0 PROVE \E j \in StreamIds : st \in Covers[j]
    <2>1. CASE st \in Covers[i]
      BY <2>1
    <2>2. CASE st \notin Covers[i]
      <3>1. cursor'[st] = cursor[st]
        BY <1>c, <1>d, <2>2
      <3>2. QED
        BY <1>8, <3>1 DEF ServerFed
    <2>3. QED
      BY <2>1, <2>2
  <1>9. ServerFed'
    BY <1>7, <1>8 DEF ServerFed
  <1>10. QED
    BY <1>1, <1>9

(* What is logged and where the streams are stay as they were.             *)
LEMMA PlacesKept ==
    ASSUME LogInv, PlaceInv, SamePlaces, UNCHANGED <<peer, newest>>
    PROVE  LogInv' /\ PlaceInv'
  <1>1. Had' = Had /\ log' = log /\ delivered' = delivered
    BY SameHad DEF SamePlaces
  <1>2. LogInv'
    BY <1>1 DEF LogInv
  <1>3. \A i \in StreamIds : Placed(Covers[i], log', streams'[i].seqnum, Had')
    BY <1>1 DEF PlaceInv, SamePlaces
  <1>4. \A st \in Stations : Latest(st)' = Latest(st)
    BY <1>1 DEF Latest
  <1>5. QED
    BY <1>1, <1>2, <1>3, <1>4 DEF PlaceInv

(* The requests under way ask for what follows the positions, as long as   *)
(* these stay and those that are sent do.                                  *)
LEMMA RequestsKept ==
    ASSUME TypeOK, Requested, SamePlaces,
           \/ c2s' = <<>> \/ c2s' = c2s \/ (c2s # <<>> /\ c2s' = Tail(c2s))
           \/ \E c \in Command : Wanted(c) /\ Send(c)
    PROVE  Requested'
  <1>1. c2s \in Seq(Command) /\ Len(c2s) \in Nat
    BY LogTypes
  <1>2. PICK S : S = {c \in Command : Wanted(c)}
    OBVIOUS
  <1>3. \A k \in 1..Len(c2s) : c2s[k] \in S
    BY <1>1, <1>2 DEF Requested
  <1>4. c2s \in Seq(S)
    BY <1>1, <1>3, AllIn
  <1>5. c2s' \in Seq(S)
    <2>1. CASE c2s' = <<>>
      BY <2>1
    <2>2. CASE c2s' = c2s
      BY <1>4, <2>2
    <2>3. CASE c2s # <<>> /\ c2s' = Tail(c2s)
      BY <1>4, <2>3, AfterHead
    <2>4. ASSUME NEW c \in Command, Wanted(c), Send(c) PROVE c2s' \in Seq(S)
      <3>1. c2s' = Append(c2s, c) \/ c2s' = c2s
        BY <2>4 DEF Send
      <3>2. c \in S
        BY <1>2, <2>4
      <3>3. Append(c2s, c) \in Seq(S)
        BY <1>4, <3>2, WithLast
      <3>4. QED
        BY <1>4, <3>1, <3>3
    <2>5. QED
      BY <2>1, <2>2, <2>3, <2>4
  <1>6. ASSUME NEW k \in 1..Len(c2s') PROVE Wanted(c2s[k])'
    <2>1. PICK c : c = c2s'[k]
      OBVIOUS
    <2>2. c \in S
      BY <1>5, <2>1
    <2>3. c.role = "data" => c.stream \in StreamIds /\ Asks(c.req, streams[c.stream].seqnum)
      BY <1>2, <2>2 DEF Wanted
    <2>4. c.role = "data" => c.stream \in StreamIds /\ Asks(c.req, streams'[c.stream].seqnum)
      BY <2>3 DEF SamePlaces
    <2>5. QED
      BY <2>1, <2>4 DEF Wanted
  <1>7. QED
    BY <1>6 DEF Requested

(* A request is handled when the transfer has not begun, and is for the    *)
(* stream whose station the server is at.                                  *)
Facing == up /\ c2s # <<>> /\ Head(c2s).role = "data" /\ srv.phase = "command" =>
    /\ s2c = <<>>
    /\ (srv.proto = "V4" \/ srv.multi) /\ srv.cur # 0 => srv.cur = Head(c2s).stream

LEMMA FeedHandled ==
    ASSUME TypeOK, NamedInv, LogInv, PlaceInv, Separate, QueueFed, ServerFed, Requested, Facing,
           Serve, up', UNCHANGED clientVars
    PROVE  QueueFed' /\ ServerFed'
  <1>1. Joins /\ SamePlaces
    BY ServeJoins, ServeKeeps DEF SamePlaces, clientVars
  <1>2. CASE UNCHANGED cursor
    BY <1>1, <1>2, FeedJoined
  <1>3. CASE ServeRequest
    <2>1. c2s # <<>> /\ Head(c2s).name \in {"DATA", "FETCH", "TIME"} /\ srv.phase = "command" /\ up
      BY <1>3 DEF ServeRequest, Handling
    <2>2. PICK c \in Named : c = Head(c2s) /\ c = c2s[1] /\ 1 \in 1..Len(c2s)
      <3>1. c2s \in Seq(Named)
        BY DEF NamedInv
      <3>2. Head(c2s) \in Named /\ Head(c2s) = c2s[1] /\ Len(c2s) \in Nat \ {0}
        BY <2>1, <3>1, AfterHead
      <3>3. PICK n \in Nat \ {0} : n = Len(c2s)
        BY <3>2
      <3>4. 1 \in 1..n
        OBVIOUS
      <3>5. QED
        BY <3>2, <3>3, <3>4
    <2>3. c.role = "data" /\ c \in Command /\ c.req \in Request
      BY <2>1, <2>2 DEF Named, Command
    <2>4. c.stream \in StreamIds /\ Asks(c.req, streams[c.stream].seqnum)
      BY <2>2, <2>3 DEF Requested, Wanted
    <2>5. /\ s2c = <<>>
          /\ (srv.proto = "V4" \/ srv.multi) /\ srv.cur # 0 => srv.cur = c.stream
      BY <2>1, <2>2, <2>3 DEF Facing
    <2>6. \A n \in 1..Len(s2c) : s2c[n].kind # "data"
      <3>1. 1..Len(s2c) = {}
        BY <2>5
      <3>2. QED
        BY <3>1
    <2>7. srv.proto \in {"V3", "V4"}
      BY DEF TypeOK, ServerTypeOK, ServerState
    <2>8. \/ UNCHANGED cursor
          \/ Subscribe(c.stream, c.req)
          \/ ~(srv.proto = "V3" /\ ~srv.multi) /\ srv.cur # 0 /\ Subscribe(srv.cur, c.req)
      BY <1>3, <2>2 DEF ServeRequest
    <2>9. UNCHANGED cursor \/ Subscribe(c.stream, c.req)
      BY <2>5, <2>7, <2>8
    <2>10. CASE Subscribe(c.stream, c.req)
      BY <1>1, <2>3, <2>4, <2>6, <2>10, FeedAsked
    <2>11. QED
      BY <1>2, <2>9, <2>10
  <1>4. QED
    BY <1>2, <1>3, ServeKeeps

(* The server, and the network, keep the feed in order.                    *)
LEMMA FeedServed ==
    ASSUME TypeOK, TypeOK', NamedInv, LogInv, PlaceInv, Separate, Numbered, Facing,
           QueueFed, up => ServerFed /\ Requested,
           ServerNext \/ (Drop /\ UNCHANGED serverVars), UNCHANGED clientVars
    PROVE  QueueFed' /\ (up' => ServerFed' /\ Requested')
  <1>0. /\ s2c \in Seq(Item) /\ Len(s2c) \in Nat
        /\ UNCHANGED <<streams, delivered>>
    BY LogTypes DEF clientVars
  <1>1. CASE Drop /\ UNCHANGED serverVars
    <2>1. PICK n \in 0..Len(s2c) : s2c' = SubSeq(s2c, 1, n)
      BY <1>1 DEF Drop
    <2>2. SamePlaces /\ up' = FALSE
      BY <1>0, <1>1 DEF Drop, serverVars, SamePlaces
    <2>3. QED
      BY <2>1, <2>2, FeedCut
  <1>2. CASE Serve
    <2>1. SamePlaces /\ Joins
      BY <1>0, <1>2, ServeKeeps, ServeJoins DEF SamePlaces
    <2>2. QueueFed'
      BY <2>1, FeedJoined
    <2>3. ASSUME up' PROVE ServerFed' /\ Requested'
      <3>1. up
        BY <1>2, <2>3, ServeKeeps
      <3>2. c2s' = <<>> \/ c2s' = c2s \/ (c2s # <<>> /\ c2s' = Tail(c2s))
        BY <1>2, ServerQueue DEF ServerNext
      <3>3. QED
        BY <1>2, <2>1, <2>3, <3>1, <3>2, FeedHandled, RequestsKept
    <2>4. QED
      BY <2>2, <2>3
  <1>3. CASE SendEnd
    <2>1. Mark("end") \in Item /\ Mark("end").kind # "data"
      BY DEF Mark, Item
    <2>2. Joins /\ SamePlaces /\ cursor' = Unasked /\ up /\ c2s' = c2s
      BY <1>0, <1>3, <2>1, OneJoins DEF SendEnd, SamePlaces
    <2>3. QED
      BY <2>2, FeedUnasked, RequestsKept
  <1>4. CASE SendTrouble
    <2>1. \A x \in {Line("", FALSE), Mark("jsonerror"), Mark("junk")} :
             x \in Item /\ x.kind # "data"
      <3>1. Line("", FALSE) \in Item
        BY HeardItems DEF Unended, Heard
      <3>2. Line("", FALSE).kind # "data"
        BY DEF Line
      <3>3. \A k \in {"jsonerror", "junk"} : Mark(k) \in Item /\ Mark(k).kind # "data"
        BY DEF Mark, Item
      <3>4. QED
        BY <3>1, <3>2, <3>3, Zenon
    <2>2. \E x \in {Line("", FALSE), Mark("jsonerror"), Mark("junk")} : s2c' = Append(s2c, x)
      BY <1>4, Zenon DEF SendTrouble
    <2>3. \E x \in Item : x.kind # "data" /\ s2c' = Append(s2c, x)
      BY <2>1, <2>2, Zenon
    <2>4. up /\ UNCHANGED <<up, c2s, serverVars>>
      BY <1>4 DEF SendTrouble
    <2>5. Joins /\ SamePlaces /\ UNCHANGED cursor
      BY <1>0, <2>3, <2>4, OneJoins DEF serverVars, SamePlaces
    <2>6. QED
      BY <2>4, <2>5, FeedJoined, RequestsKept
  <1>5. ASSUME NEW st \in Stations, SendPacket(st) PROVE QueueFed' /\ ServerFed' /\ Requested'
    <2>1. up /\ c2s' = c2s /\ SamePlaces
      BY <1>0, <1>5 DEF SendPacket, SamePlaces
    <2>2. QED
      BY <1>5, <2>1, FeedSent, RequestsKept
  <1>6. ASSUME NEW st \in Stations, Publish(st)
        PROVE  QueueFed' /\ (up => ServerFed' /\ Requested') /\ up' = up
    <2>1. UNCHANGED <<up, c2s, streams>>
      BY <1>0, <1>6 DEF Publish, wireVars
    <2>2. QueueFed' /\ (up => ServerFed')
      BY <1>6, FeedLogged
    <2>3. Requested => Requested'
      BY <2>1 DEF Requested, Wanted
    <2>4. QED
      BY <2>1, <2>2, <2>3
  <1>7. QED
    BY <1>1, <1>2, <1>3, <1>4, <1>5, <1>6 DEF ServerNext

(* and so is what it has logged.                                           *)
LEMMA PlacesServed ==
    ASSUME TypeOK, TypeOK', LogInv, PlaceInv, Numbered, UNCHANGED clientVars,
           ServerNext \/ (Drop /\ UNCHANGED serverVars)
    PROVE  LogInv' /\ PlaceInv'
  <1>0. UNCHANGED <<streams, delivered>>
    BY DEF clientVars
  <1>1. CASE \E st \in Stations : Publish(st)
    BY <1>1, FeedLogged
  <1>2. CASE UNCHANGED <<log, peer, newest>>
    BY <1>0, <1>2, PlacesKept DEF SamePlaces
  <1>3. ASSUME NEW st \in Stations, SendPacket(st) PROVE UNCHANGED <<log, peer, newest>>
    BY <1>3 DEF SendPacket
  <1>4. SendEnd \/ SendTrouble \/ (Drop /\ UNCHANGED serverVars) => UNCHANGED <<log, peer, newest>>
    BY DEF SendEnd, SendTrouble, serverVars
  <1>5. QED
    BY <1>1, <1>2, <1>3, <1>4, ServeKeeps DEF ServerNext

(* The packet that is yielded is the next one of its station.              *)
NextOf(st, k) == /\ st \in Stations /\ k \in 1..MaxPackets
                 /\ delivered[st] # <<>> => k = Latest(st) + 1
                 /\ delivered' = [delivered EXCEPT ![st] = Append(@, k)]

LEMMA LastOf ==
    ASSUME NEW d \in Seq(Nat), NEW k \in Nat
    PROVE  Append(d, k) # <<>> /\ Append(d, k)[Len(Append(d, k))] = k
  <1>1. Append(d, k) # <<>> /\ Len(Append(d, k)) = Len(d) + 1 /\ Append(d, k)[Len(d) + 1] = k
    BY WithLast
  <1>2. QED
    BY <1>1

LEMMA LatestIs ==
    ASSUME TypeOK, NEW t \in Stations, NEW k \in Nat,
           delivered' = [delivered EXCEPT ![t] = Append(@, k)]
    PROVE  delivered'[t] # <<>> /\ Latest(t)' = k
  <1>1. PICK d \in Seq(Nat) : d = delivered[t] /\ delivered'[t] = Append(d, k)
    BY DEF TypeOK, ClientTypeOK
  <1>2. Append(d, k) # <<>> /\ Append(d, k)[Len(Append(d, k))] = k
    BY LastOf
  <1>3. delivered'[t] # <<>> /\ delivered'[t][Len(delivered'[t])] = k
    BY <1>1, <1>2, Zenon
  <1>4. QED
    BY <1>3 DEF Latest

LEMMA FeedTaken ==
    ASSUME TypeOK, LogInv, PlaceInv, Separate, QueueFed, RecvData, UNCHANGED serverVars
    PROVE  /\ \E st, k : NextOf(st, k)
           /\ LogInv' /\ PlaceInv' /\ QueueFed'
           /\ ServerFed => ServerFed'
  <1>a. /\ log \in [Stations -> Seq(Nat)] /\ cursor \in [Stations -> Nat]
        /\ \A i \in StreamIds : Covers[i] \subseteq Stations
        /\ s2c \in Seq(Item) /\ Len(s2c) \in Nat
        /\ UNCHANGED <<log, peer, newest, cursor>>
    BY LogTypes DEF serverVars
  <1>b. s2c # <<>> /\ s2c' = Tail(s2c) /\ Head(s2c).kind = "data"
    BY DEF RecvData, Take
  <1>c. PICK q \in Seq(Item) : q = s2c
    BY <1>a
  <1>d. PICK r \in Seq(Item) :
           /\ r = s2c' /\ Len(q) \in Nat \ {0} /\ Len(r) = Len(q) - 1
           /\ \A n \in 1..Len(r) : n + 1 \in 1..Len(q) /\ r[n] = q[n + 1]
    <2>1. q # <<>> /\ s2c' = Tail(q)
      BY <1>b, <1>c
    <2>2. /\ Tail(q) \in Seq(Item) /\ Len(q) \in Nat \ {0} /\ Len(Tail(q)) = Len(q) - 1
          /\ \A n \in 1..Len(Tail(q)) : n + 1 \in 1..Len(q) /\ Tail(q)[n] = q[n + 1]
      BY <2>1, AfterHead
    <2>3. QED
      BY <2>1, <2>2, Zenon
  <1>e. PICK x \in Item : x = q[1] /\ x = Head(s2c)
    BY <1>b, <1>c, AfterHead
  <1>f. PICK t : t = x.station
    OBVIOUS
  <1>g. PICK k : k = x.index
    OBVIOUS
  <1>h. PICK v : v = x.seqnum
    OBVIOUS
  <1>i. PICK i \in StreamIds : t \in Covers[i]
    <2>1. PICK n \in Nat \ {0} : n = Len(q)
      BY <1>d
    <2>2. 1 \in 1..n
      OBVIOUS
    <2>3. QED
      BY <1>b, <1>c, <1>e, <1>f, <2>1, <2>2 DEF QueueFed
  <1>j. t \in Stations
    BY <1>a, <1>i
  <1>k. PICK h \in [Stations -> Nat] : /\ h = Had
                                       /\ \A st \in Stations : /\ h[st] = Latest(st)
                                                               /\ delivered[st] # <<>> => h[st] # 0
    BY HadOK
  <1>l. PICK g : g = [h EXCEPT ![q[1].station] = q[1].index]
    OBVIOUS
  <1>m. PICK p : p = streams[i].seqnum
    OBVIOUS
  <1>1. /\ h[t] # 0 => k = h[t] + 1
        /\ k \in 1..Len(log[t])
        /\ Placed(Covers[i], log, v, g)
        /\ Chained(Covers[i], log, v, g, r)
        /\ Pointed(Covers[i], log, p, h, q, cursor) => Pointed(Covers[i], log, v, g, r, cursor)
    <2>1. /\ Logged(Covers[i], log) /\ Placed(Covers[i], log, p, h)
          /\ Chained(Covers[i], log, p, h, q)
      BY <1>c, <1>k, <1>m DEF LogInv, PlaceInv, QueueFed
    <2>2. Of(q[1], Covers[i])
      BY <1>b, <1>e, <1>f, <1>i DEF Of
    <2>3. Covers[i] \subseteq Stations
      BY <1>a
    <2>4. v = q[1].seqnum
      BY <1>e, <1>h
    <2>a. Len(q) \in Nat \ {0} /\ Len(r) = Len(q) - 1
      BY <1>d
    <2>b. \A n \in 1..Len(r) : r[n] = q[n + 1]
      BY <1>d
    <2>c. log \in [Stations -> Seq(Nat)] /\ h \in [Stations -> Nat]
      BY <1>a, <1>k
    <2>5. /\ h[q[1].station] # 0 => q[1].index = h[q[1].station] + 1
          /\ q[1].index \in 1..Len(log[q[1].station])
          /\ Placed(Covers[i], log, v, g)
          /\ Chained(Covers[i], log, v, g, r)
          /\ \A cur : Pointed(Covers[i], log, p, h, q, cur) => Pointed(Covers[i], log, v, g, r, cur)
      <3>1. PICK C : C = Covers[i]
        OBVIOUS
      <3>2. /\ C \subseteq Stations /\ Of(q[1], C)
            /\ Logged(C, log) /\ Placed(C, log, p, h) /\ Chained(C, log, p, h, q)
        BY <2>1, <2>2, <2>3, <3>1
      <3>0. Counting(h, q[1], g)
        BY <1>l DEF Counting
      <3>3. /\ h[q[1].station] # 0 => q[1].index = h[q[1].station] + 1
            /\ q[1].index \in 1..Len(log[q[1].station])
            /\ Placed(C, log, v, g)
            /\ Chained(C, log, v, g, r)
            /\ \A cur : Pointed(C, log, p, h, q, cur) => Pointed(C, log, v, g, r, cur)
        <4>1. Taking(C, Stations, log, p, h, q, r, v, g)
          BY <2>4, <2>a, <2>b, <2>c, <3>2, <3>0 DEF Taking
        <4>2. QED
          BY <4>1, ChainTaken
      <3>4. QED
        BY <3>1, <3>3, Zenon
    <2>6. QED
      BY <1>e, <1>f, <1>g, <2>5
  <1>n. /\ Len(log[t]) \in Nat /\ Len(log[t]) <= MaxPackets /\ MaxPackets \in Nat
        /\ k \in Nat \ {0} /\ k <= Len(log[t])
    <2>1. log[t] \in Seq(Nat)
      BY <1>a, <1>j
    <2>2. Len(log[t]) \in Nat
      BY <2>1
    <2>3. QED
      BY <1>1, <1>j, <2>2, WireAssumption DEF LogInv
  <1>2. delivered' = [delivered EXCEPT ![t] = Append(@, k)]
    BY <1>e, <1>f, <1>g DEF RecvData
  <1>3. NextOf(t, k)
    <2>1. k \in 1..MaxPackets
      BY <1>n
    <2>2. delivered[t] # <<>> => k = Latest(t) + 1
      BY <1>1, <1>j, <1>k
    <2>3. QED
      BY <1>2, <1>j, <2>1, <2>2 DEF NextOf
  <1>4. /\ \A st \in Stations : Latest(st)' = g[st]
        /\ \A st \in Stations : delivered'[st] # <<>> => g[st] # 0
    <2>0. delivered \in [Stations -> Seq(Nat)]
      BY DEF TypeOK, ClientTypeOK
    <2>1. g[t] = k
      BY <1>e, <1>f, <1>g, <1>j, <1>k, <1>l
    <2>2. ASSUME NEW st \in Stations, st # t
          PROVE  Latest(st)' = g[st] /\ (delivered'[st] # <<>> => g[st] # 0)
      <3>1. delivered'[st] = delivered[st] /\ g[st] = h[st]
        BY <1>2, <1>e, <1>f, <1>j, <1>k, <1>l, <2>0, <2>2
      <3>2. QED
        BY <1>k, <3>1 DEF Latest
    <2>3. delivered'[t] # <<>> /\ Latest(t)' = k
      BY <1>2, <1>j, <1>n, LatestIs
    <2>4. QED
      BY <1>n, <2>1, <2>2, <2>3
  <1>5. Had' = g
    <2>1. Had' = [st \in Stations |-> g[st]]
      BY <1>4 DEF Had
    <2>2. g = [st \in Stations |-> g[st]]
      BY <1>k, <1>l
    <2>3. QED
      BY <2>1, <2>2
  <1>6. /\ streams'[i].seqnum = v
        /\ \A j \in StreamIds : j # i => streams'[j].seqnum = streams[j].seqnum
    <2>0. streams \in [StreamIds -> Position]
      BY DEF TypeOK, ClientTypeOK
    <2>1. streams' = [j \in StreamIds |->
                         IF t \in Covers[j] THEN [streams[j] EXCEPT !.seqnum = v, !.pending = v]
                         ELSE streams[j]]
      BY <1>e, <1>f, <1>h DEF RecvData, Advance
    <2>2. streams'[i].seqnum = v
      <3>1. streams'[i] = [streams[i] EXCEPT !.seqnum = v, !.pending = v]
        BY <1>i, <2>1
      <3>2. QED
        BY <2>0, <3>1 DEF Position
    <2>3. \A j \in StreamIds : j # i => streams'[j].seqnum = streams[j].seqnum
      BY <1>i, <2>1 DEF Separate
    <2>4. QED
      BY <2>2, <2>3
  <1>7. ASSUME NEW j \in StreamIds, j # i
        PROVE  /\ Placed(Covers[j], log, streams[j].seqnum, g)
               /\ Chained(Covers[j], log, streams[j].seqnum, g, r)
               /\ Pointed(Covers[j], log, streams[j].seqnum, Had, q, cursor) =>
                     Pointed(Covers[j], log, streams[j].seqnum, g, r, cursor)
    <2>1. t \notin Covers[j]
      BY <1>i, <1>7 DEF Separate
    <2>2. \A st \in Covers[j] : g[st] = h[st]
      BY <1>a, <1>e, <1>f, <1>k, <1>l, <2>1
    <2>3. /\ Placed(Covers[j], log, streams[j].seqnum, h)
          /\ Chained(Covers[j], log, streams[j].seqnum, h, q)
      BY <1>c, <1>k DEF PlaceInv, QueueFed
    <2>4. ~Of(q[1], Covers[j])
      BY <1>e, <1>f, <2>1 DEF Of
    <2>5. /\ Chained(Covers[j], log, streams[j].seqnum, h, r)
          /\ Pointed(Covers[j], log, streams[j].seqnum, h, q, cursor) =>
                Pointed(Covers[j], log, streams[j].seqnum, h, r, cursor)
      BY <1>d, <2>3, <2>4, ChainPassed
    <2>6. QED
      BY <1>k, <2>2, <2>3, <2>5, HadElsewhere
  <1>8. LogInv'
    BY <1>a DEF LogInv
  <1>9. PlaceInv'
    <2>1. \A j \in StreamIds : Placed(Covers[j], log', streams'[j].seqnum, Had')
      BY <1>1, <1>5, <1>6, <1>7, <1>a
    <2>2. \A st \in Stations : delivered'[st] # <<>> => Latest(st)' # 0
      BY <1>4
    <2>3. QED
      BY <2>1, <2>2 DEF PlaceInv
  <1>10. QueueFed'
    <2>1. \A j \in StreamIds : Chained(Covers[j], log', streams'[j].seqnum, Had', s2c')
      BY <1>1, <1>5, <1>6, <1>7, <1>a, <1>d
    <2>2. \A m \in 1..Len(s2c') : s2c'[m].kind = "data" =>
             \E j \in StreamIds : s2c'[m].station \in Covers[j]
      BY <1>c, <1>d DEF QueueFed
    <2>3. QED
      BY <2>1, <2>2 DEF QueueFed
  <1>11. ASSUME ServerFed PROVE ServerFed'
    <2>1. \A j \in StreamIds : Pointed(Covers[j], log, streams[j].seqnum, Had, q, cursor)
      BY <1>11, <1>c DEF ServerFed
    <2>2. \A j \in StreamIds : Pointed(Covers[j], log', streams'[j].seqnum, Had', s2c', cursor')
      BY <1>1, <1>5, <1>6, <1>7, <1>a, <1>d, <1>k, <1>m, <2>1
    <2>3. QED
      BY <1>11, <1>a, <2>2 DEF ServerFed
  <1>12. QED
    BY <1>3, <1>8, <1>9, <1>10, <1>11

(* No request is under way while packets are read.                         *)
LEMMA NothingAsked ==
    ASSUME TypeOK, Inv, Core, RecvData, up
    PROVE  \A k \in 1..Len(c2s) : c2s[k].role # "data"
  <1>1. streaming /\ sock /\ s2c # <<>>
    BY DEF Core, RecvData, Take
  <1>2. Begun \/ Over
    BY <1>1 DEF Core, Flows, ToCome
  <1>3. c2s \in Seq(Between(conf.keepalive)) \/ c2s \in Seq({ByeCommand})
    BY <1>2 DEF Begun, Over
  <1>4. \A c \in Between(conf.keepalive) \cup {ByeCommand} : c.role # "data"
    BY DEF Between, ByeCommand, PingCommand, Generic
  <1>5. QED
    BY <1>3, <1>4

(* A request that is sent asks for what follows its stream's position.     *)
LEMMA SendsWanted ==
    ASSUME TypeOK, ~conf.window, NEW c, Sends(c)
    PROVE  Wanted(c)
  <1>1. CASE c = Current /\ c.role = "data"
    <2>1. pos.s \in StreamIds /\ ~(pos.k <= NSel[pos.s]) /\ pos.k # 0
      BY <1>1, CurrentIs, CurrentEnds
    <2>2. PICK st \in Position : st = streams[pos.s]
      BY <2>1 DEF TypeOK, ClientTypeOK
    <2>3. c = DataCommand(pos.s, protocol, conf, batch_active, st)
      BY <1>1, <2>1, <2>2 DEF Current, CmdAt
    <2>4. c.stream = pos.s
      BY <1>1, <2>1, CurrentIs
    <2>5. Asks(c.req, st.seqnum)
      <3>1. CASE protocol = "V4"
        <4>1. c.req = DataV4Request(st, AllData[pos.s], conf.window)
          BY <2>3, <3>1 DEF DataCommand, ForStream
        <4>2. QED
          BY <4>1 DEF DataV4Request, FromSeq, FromAll, FromNext, ResumeSeqnum, Asks
      <3>2. CASE protocol # "V4"
        <4>1. c.req = DataV3Request(st, conf.window)
          BY <2>3, <3>2 DEF DataCommand, ForStream
        <4>2. QED
          BY <4>1 DEF DataV3Request, FromSeq, FromAll, FromNext, ResumeSeqnum, Asks
      <3>3. QED
        BY <3>1, <3>2
    <2>6. QED
      BY <2>1, <2>2, <2>4, <2>5 DEF Wanted
  <1>2. CASE c # Current
    <2>1. c.role = "generic"
      BY <1>2 DEF Sends, Hello, NextGreeting, HandshakeAfter, AfterV3, AfterV4, Generic
    <2>2. QED
      BY <2>1 DEF Wanted
  <1>3. QED
    BY <1>1, <1>2 DEF Wanted

(* The STATION last before the k-th place of q, or the one the server is   *)
(* at when there is none, is that of stream i, or was refused.             *)
Under(q, k, i, cur) ==
    /\ \A n \in 1..Len(q) :
          /\ n < k /\ q[n].role = "station"
          /\ \A m \in 1..Len(q) : n < m /\ m < k => q[m].role # "station"
          => q[n].stream = i
    /\ (\A n \in 1..Len(q) : n < k => q[n].role # "station") => cur \in {0, i}

(* A server at a station was given one; in batch mode the requests under   *)
(* way, and those that are sent next, come after the STATION of their      *)
(* stream.                                                                 *)
UnderInv ==
    /\ srv.cur # 0 => srv.multi
    /\ up /\ srv.batch /\ srv.phase = "command" /\ ~UniNow /\ pc \notin Handshake /\ ~Given =>
          /\ \A k \in 1..Len(c2s) : c2s[k].role = "data" =>
                Under(c2s, k, c2s[k].stream, srv.cur)
          /\ pc = "walk" /\ pos.s \in StreamIds /\ pos.k # 0 =>
                Under(c2s, Len(c2s) + 1, pos.s, srv.cur)

(* What is under a STATION stays so when the command at the head is gone,  *)
LEMMA UnderPassed ==
    ASSUME NEW q, NEW r, NEW k \in Nat, NEW i, NEW cur, NEW new, Len(q) \in Nat \ {0},
           Len(r) = Len(q) - 1, \A n \in 1..Len(r) : r[n] = q[n + 1],
           Under(q, k + 1, i, cur), k # 0,
           IF q[1].role = "station" THEN new \in {0, q[1].stream} ELSE new = cur
    PROVE  Under(r, k, i, new)
  <1>0. /\ Len(r) \in Nat /\ \A n \in 1..Len(r) : n \in Nat /\ n + 1 \in 1..Len(q)
        /\ 1 \in 1..Len(q) /\ 1 < k + 1
    <2>1. PICK l \in Nat \ {0} : l = Len(q)
      OBVIOUS
    <2>2. QED
      BY <2>1
  <1>a. ASSUME NEW m \in 1..Len(q), m # 1
        PROVE  m - 1 \in 1..Len(r) /\ r[m - 1] = q[m]
    <2>1. m - 1 \in 1..Len(r) /\ (m - 1) + 1 = m
      BY <1>0, <1>a
    <2>2. QED
      BY <2>1
  <1>1. ASSUME NEW n \in 1..Len(r), n < k, r[n].role = "station",
               \A m \in 1..Len(r) : n < m /\ m < k => r[m].role # "station"
        PROVE  r[n].stream = i
    <2>1. n + 1 \in 1..Len(q) /\ n + 1 < k + 1 /\ q[n + 1] = r[n]
      BY <1>0, <1>1
    <2>2. ASSUME NEW m \in 1..Len(q), n + 1 < m, m < k + 1 PROVE q[m].role # "station"
      <3>1. m # 1 /\ n < m - 1 /\ m - 1 < k
        BY <1>0, <2>2
      <3>2. QED
        BY <1>1, <1>a, <3>1
    <2>3. QED
      BY <1>1, <2>1, <2>2 DEF Under
  <1>2. ASSUME \A n \in 1..Len(r) : n < k => r[n].role # "station"
        PROVE  new \in {0, i}
    <2>1. ASSUME NEW m \in 1..Len(q), m < k + 1, m # 1 PROVE q[m].role # "station"
      <3>1. m - 1 < k
        BY <2>1
      <3>2. QED
        BY <1>2, <1>a, <2>1, <3>1
    <2>2. CASE q[1].role = "station"
      <3>1. \A m \in 1..Len(q) : 1 < m /\ m < k + 1 => q[m].role # "station"
        BY <2>1
      <3>2. q[1].stream = i
        BY <1>0, <2>2, <3>1 DEF Under
      <3>3. QED
        BY <2>2, <3>2
    <2>3. CASE q[1].role # "station"
      <3>1. \A m \in 1..Len(q) : m < k + 1 => q[m].role # "station"
        BY <2>1, <2>3
      <3>2. QED
        BY <2>3, <3>1 DEF Under
    <2>4. QED
      BY <2>2, <2>3
  <1>3. QED
    BY <1>1, <1>2 DEF Under

(* and when commands join the queue.                                       *)
LEMMA UnderJoined ==
    ASSUME NEW q, NEW r, NEW k \in Nat, NEW i, NEW cur, Len(q) \in Nat, Len(r) = Len(q) + 1,
           \A n \in 1..Len(q) : r[n] = q[n], k <= Len(q) + 1, Under(q, k, i, cur)
    PROVE  Under(r, k, i, cur)
  <1>1. \A n \in 1..Len(r) : n < k => n \in 1..Len(q) /\ r[n] = q[n]
    OBVIOUS
  <1>2. \A n \in 1..Len(q) : n \in 1..Len(r) /\ r[n] = q[n]
    OBVIOUS
  <1>3. QED
    BY <1>1, <1>2 DEF Under

(* After the STATION of a stream, and after what follows that, is more of   *)
(* that stream.                                                            *)
LEMMA UnderLast ==
    ASSUME NEW q, NEW r, NEW i, NEW cur, Len(q) \in Nat, Len(r) = Len(q) + 1,
           \A n \in 1..Len(q) : r[n] = q[n],
           IF r[Len(q) + 1].role = "station" THEN r[Len(q) + 1].stream = i
           ELSE Under(q, Len(q) + 1, i, cur)
    PROVE  Under(r, Len(r) + 1, i, cur)
  <1>0. PICK l \in Nat : l = Len(q)
    OBVIOUS
  <1>1. /\ l + 1 \in 1..Len(r) /\ Len(r) = l + 1
        /\ \A n \in 1..Len(r) : n \in 1..l \/ n = l + 1
        /\ \A n \in 1..l : n \in 1..Len(r) /\ n < l + 1 /\ n < Len(r) + 1 /\ r[n] = q[n]
    BY <1>0
  <1>2. CASE r[l + 1].role = "station"
    <2>1. r[l + 1].stream = i
      BY <1>0, <1>2
    <2>2. \A n \in 1..l : ~ \A m \in 1..Len(r) : n < m /\ m < Len(r) + 1 => r[m].role # "station"
      BY <1>1, <1>2
    <2>3. ~ \A n \in 1..Len(r) : n < Len(r) + 1 => r[n].role # "station"
      BY <1>1, <1>2
    <2>4. QED
      BY <1>1, <2>1, <2>2, <2>3 DEF Under
  <1>3. CASE r[l + 1].role # "station"
    <2>1. Under(q, l + 1, i, cur)
      BY <1>0, <1>3
    <2>2. ASSUME NEW n \in 1..Len(r), r[n].role = "station",
                 \A m \in 1..Len(r) : n < m /\ m < Len(r) + 1 => r[m].role # "station"
          PROVE  r[n].stream = i
      <3>1. n \in 1..l
        BY <1>1, <1>3, <2>2
      <3>2. \A m \in 1..l : n < m => q[m].role # "station"
        BY <1>1, <2>2
      <3>3. QED
        BY <1>0, <1>1, <2>1, <2>2, <3>1, <3>2 DEF Under
    <2>3. ASSUME \A n \in 1..Len(r) : n < Len(r) + 1 => r[n].role # "station"
          PROVE  cur \in {0, i}
      BY <1>0, <1>1, <2>1, <2>3 DEF Under
    <2>4. QED
      BY <2>2, <2>3 DEF Under
  <1>4. QED
    BY <1>2, <1>3

(* The server goes from station to station as it is told.                  *)
LEMMA AtStation ==
    ASSUME TypeOK, NamedInv, Handles, Serve
    PROVE  /\ (srv.cur # 0 => srv.multi) => (srv'.cur # 0 => srv'.multi)
           /\ srv'.phase = "command" =>
                 /\ srv.phase = "command"
                 /\ IF Head(c2s).role = "station" THEN srv'.cur \in {0, Head(c2s).stream}
                    ELSE srv'.cur = srv.cur
  <1>a. srv \in ServerState /\ c2s # <<>>
    BY DEF TypeOK, ServerTypeOK, Handles
  <1>b. PICK c \in Named : c = Head(c2s)
    BY <1>a, AfterHead DEF NamedInv
  <1>c. srv.phase \in {"command", "stream"}
    BY <1>a DEF ServerState
  <1>1. CASE UNCHANGED srv /\ ~(c.role = "station" /\ srv.phase = "command")
    BY <1>b, <1>1, <1>c
  <1>2. CASE ServeStation
    <2>1. c.role = "station" /\ srv.phase = "command"
      BY <1>b, <1>2 DEF ServeStation, Handling, Named
    <2>2. \/ srv' = [srv EXCEPT !.multi = TRUE, !.cur = c.stream]
          \/ srv' = [srv EXCEPT !.multi = TRUE, !.cur = 0]
      BY <1>b, <1>2 DEF ServeStation
    <2>3. srv'.multi = TRUE /\ srv'.cur \in {0, c.stream}
      BY <1>a, <2>2 DEF ServerState
    <2>4. QED
      BY <1>b, <2>1, <2>3
  <1>3. CASE ServeSetting
    <2>1. c.role # "station" /\ srv.phase = "command"
      BY <1>b, <1>3 DEF ServeSetting, Handling, Named
    <2>2. PICK v, b : /\ v = IF c.name = "SLPROTO" THEN "V4" ELSE srv.proto
                      /\ b = IF c.name = "BATCH" THEN TRUE ELSE srv.batch
      OBVIOUS
    <2>3. srv' = srv \/ srv' = [srv EXCEPT !.proto = v, !.batch = b]
      BY <1>b, <1>3, <2>2 DEF ServeSetting
    <2>4. srv'.cur = srv.cur /\ srv'.multi = srv.multi
      BY <1>a, <2>3 DEF ServerState
    <2>5. QED
      BY <1>b, <2>1, <2>4
  <1>4. CASE ServeRequest
    <2>1. c.role # "station" /\ srv.phase = "command"
      BY <1>b, <1>4 DEF ServeRequest, Handling, Named
    <2>2. PICK d : d = (srv.dial \/ c.name = "FETCH")
      OBVIOUS
    <2>3. \/ srv' = srv \/ srv' = [srv EXCEPT !.dial = d]
          \/ srv' = [srv EXCEPT !.phase = "stream", !.dial = d]
      BY <1>b, <1>4, <2>2 DEF ServeRequest
    <2>4. srv'.cur = srv.cur /\ srv'.multi = srv.multi
      BY <1>a, <2>3 DEF ServerState
    <2>5. QED
      BY <1>b, <2>1, <2>4
  <1>5. CASE ServeEnd
    <2>1. c.role # "station" /\ srv.phase = "command"
      BY <1>b, <1>5 DEF ServeEnd, Handling, Named
    <2>2. PICK d : d = (srv.dial \/ c.name = "ENDFETCH")
      OBVIOUS
    <2>3. srv' = [srv EXCEPT !.phase = "stream", !.dial = d]
      BY <1>b, <1>5, <2>2 DEF ServeEnd
    <2>4. srv'.cur = srv.cur /\ srv'.multi = srv.multi
      BY <1>a, <2>3 DEF ServerState
    <2>5. QED
      BY <1>b, <2>1, <2>4
  <1>6. CASE ServeHello \/ ServeSelect \/ ServeInfo
    <2>1. c.role # "station" /\ UNCHANGED srv
      BY <1>b, <1>6 DEF ServeHello, ServeSelect, ServeInfo, Handling, Named
    <2>2. QED
      BY <1>1, <2>1
  <1>7. CASE ServeUntimely
    BY <1>1, <1>7 DEF ServeUntimely
  <1>8. CASE ServeBye
    BY <1>8 DEF ServeBye, Handles
  <1>9. QED
    BY <1>2, <1>3, <1>4, <1>5, <1>6, <1>7, <1>8 DEF Serve

(* No request is under way, nor sent, while a transfer is.                 *)
LEMMA NoneInTransfer ==
    ASSUME TypeOK, Inv, ProtoInv, Core, up, srv.phase = "stream", ~Given
    PROVE  /\ \A k \in 1..Len(c2s) : c2s[k].role # "data"
           /\ ~(pc = "walk" /\ pos.s \in StreamIds)
  <1>1. sock /\ pc \notin Before
    BY DEF ProtoInv, Inv, LinkInv, Before
  <1>2. pc \in {"idle", "plan", "walk", "reply", "ask", "frames", "loop", "yield"}
    BY <1>1 DEF TypeOK, ClientTypeOK, Steps, Before, Handshake
  <1>3. ~Calm /\ ~Awaited /\ ~Answered
    BY DEF Calm, Awaited, Answered
  <1>4. Flows \/ Spent
    BY <1>1, <1>2, <1>3 DEF Core, Idle
  <1>5. c2s \in Seq(Between(conf.keepalive)) \/ c2s \in Seq({ByeCommand, InfoCommand})
    BY <1>4 DEF Flows, ToCome, Begun, Over, Spent
  <1>6. \A c \in Between(conf.keepalive) \cup {ByeCommand, InfoCommand} : c.role # "data"
    BY DEF Between, ByeCommand, PingCommand, InfoCommand, Generic
  <1>7. ASSUME pc = "walk", pos.s \in StreamIds PROVE FALSE
    <2>1. ~Done
      BY <1>7, CommandsAssumption DEF Done, PlanDone, StreamIds, TypeOK, ClientTypeOK, PlanPos
    <2>2. QED
      BY <1>1, <1>3, <1>7, <2>1 DEF Core
  <1>8. QED
    BY <1>5, <1>6, <1>7

(* The server keeps the requests under their STATION,                      *)
LEMMA UnderServed ==
    ASSUME TypeOK, Inv, Inv', ProtoInv, NamedInv, Core, UnderInv, UNCHANGED clientVars,
           ServerNext \/ (Drop /\ UNCHANGED serverVars)
    PROVE  UnderInv'
  <1>0. /\ UNCHANGED <<pc, pos, conf, protocol, sock, batch_active, outcome>>
        /\ UniNow' = UniNow /\ Given' = Given /\ Len(c2s) \in Nat
    BY LogTypes DEF clientVars, UniNow, Given
  <1>1. srv'.cur # 0 => srv'.multi
    <2>1. srv.cur # 0 => srv.multi
      BY DEF UnderInv
    <2>2. CASE UNCHANGED srv
      BY <2>1, <2>2
    <2>3. CASE SendEnd
      <3>1. srv'.cur = 0
        BY <2>3 DEF SendEnd, TypeOK, ServerTypeOK, ServerState
      <3>2. QED
        BY <3>1
    <2>4. CASE Handles /\ Serve
      BY <2>1, <2>4, AtStation
    <2>5. QED
      BY <2>2, <2>3, <2>4, ServerSteps DEF Drop, serverVars, Pours
  <1> SUFFICES ASSUME up', srv'.batch, srv'.phase = "command", ~UniNow, pc \notin Handshake, ~Given
               PROVE  /\ \A k \in 1..Len(c2s') : c2s'[k].role = "data" =>
                            Under(c2s', k, c2s'[k].stream, srv'.cur)
                      /\ pc = "walk" /\ pos.s \in StreamIds /\ pos.k # 0 =>
                            Under(c2s', Len(c2s') + 1, pos.s, srv'.cur)
    BY <1>0, <1>1 DEF UnderInv
  <1>2. ServerNext /\ up
    BY ServerSteps DEF Drop, Pours, SendEnd, Handles
  <1>3. srv.batch
    <2>1. sock /\ pc # "greeting"
      BY <1>2 DEF ProtoInv, Handshake
    <2>2. QED
      BY <1>0, <1>2, <2>1 DEF Inv, BatchAgrees
  <1>4. srv.phase = "command" =>
           /\ \A k \in 1..Len(c2s) : c2s[k].role = "data" =>
                 Under(c2s, k, c2s[k].stream, srv.cur)
           /\ pc = "walk" /\ pos.s \in StreamIds /\ pos.k # 0 =>
                 Under(c2s, Len(c2s) + 1, pos.s, srv.cur)
    BY <1>2, <1>3 DEF UnderInv
  <1>5. CASE UNCHANGED <<c2s, srv>>
    BY <1>4, <1>5
  <1>6. CASE SendEnd
    <2>1. c2s' = c2s /\ srv.phase = "stream"
      BY <1>6 DEF SendEnd
    <2>2. QED
      BY <1>2, <2>1, NoneInTransfer
  <1>7. CASE Handles /\ Serve
    <2>1. PICK q \in Seq(Command) : q = c2s
      BY LogTypes
    <2>2. PICK r \in Seq(Command) :
             /\ r = c2s' /\ Len(q) \in Nat \ {0} /\ Len(r) = Len(q) - 1 /\ Head(c2s) = q[1]
             /\ \A n \in 1..Len(r) : n + 1 \in 1..Len(q) /\ r[n] = q[n + 1]
      <3>1. q # <<>> /\ c2s' = Tail(q)
        BY <1>7, <2>1 DEF Handles
      <3>2. /\ Tail(q) \in Seq(Command) /\ Len(q) \in Nat \ {0} /\ Len(Tail(q)) = Len(q) - 1
            /\ Head(q) = q[1]
            /\ \A n \in 1..Len(Tail(q)) : n + 1 \in 1..Len(q) /\ Tail(q)[n] = q[n + 1]
        BY <3>1, AfterHead
      <3>3. QED
        BY <2>1, <3>1, <3>2, Zenon
    <2>3. /\ srv.phase = "command"
          /\ IF q[1].role = "station" THEN srv'.cur \in {0, q[1].stream} ELSE srv'.cur = srv.cur
      BY <1>7, <2>2, AtStation
    <2>4. ASSUME NEW k \in Nat \ {0}, NEW i, Under(q, k + 1, i, srv.cur)
          PROVE  Under(r, k, i, srv'.cur)
      <3>1. \A n \in 1..Len(r) : r[n] = q[n + 1]
        BY <2>2
      <3>2. PICK cur : cur = srv.cur
        OBVIOUS
      <3>3. PICK new : new = srv'.cur
        OBVIOUS
      <3>4. QED
        BY <2>2, <2>3, <2>4, <3>1, <3>2, <3>3, UnderPassed
    <2>5. ASSUME NEW k \in 1..Len(r), r[k].role = "data" PROVE Under(r, k, r[k].stream, srv'.cur)
      <3>1. k \in Nat \ {0} /\ k + 1 \in 1..Len(q) /\ r[k] = q[k + 1]
        BY <2>2, <2>5
      <3>2. Under(q, k + 1, r[k].stream, srv.cur)
        BY <1>4, <2>1, <2>3, <2>5, <3>1
      <3>3. QED
        BY <2>4, <3>1, <3>2
    <2>6. ASSUME pc = "walk", pos.s \in StreamIds, pos.k # 0
          PROVE  Under(r, Len(r) + 1, pos.s, srv'.cur)
      <3>1. Under(q, Len(q) + 1, pos.s, srv.cur)
        BY <1>4, <2>1, <2>3, <2>6
      <3>2. PICK n \in Nat \ {0} : n = Len(q) /\ n = Len(r) + 1
        BY <2>2
      <3>3. Under(r, n, pos.s, srv'.cur)
        BY <2>4, <3>1, <3>2
      <3>4. QED
        BY <3>2, <3>3
    <2>7. QED
      BY <2>2, <2>5, <2>6
  <1>8. QED
    BY <1>2, <1>5, <1>6, <1>7, ServerSteps DEF Pours

(* A client that is to be closed after a failed call does nothing else.    *)
LEMMA GivenUp ==
    ASSUME TypeOK, Inv, Given, sock, ClientStep \/ GoneQuiet \/ GoneLate
    PROVE  Disconnected
  <1>1. pc = "idle" /\ call = "none" /\ conf.careful /\ outcome \in Failed
    BY DEF Given, Inv, CallInv
  <1>2. CASE Call
    BY <1>1, <1>2 DEF Call, CallConnect, CallReconnect, CallNegotiate, CallInfo, CallCollect, Enter
  <1>3. CASE Close \/ Bye
    BY <1>1, <1>3 DEF Close, Bye
  <1>4. CASE Break \/ Resume \/ PollNothing \/ Keepalive \/ GoneQuiet \/ GoneLate
    BY <1>1, <1>4 DEF Break, Resume, PollNothing, Keepalive, GoneQuiet, GoneLate, IdleTimeout
  <1>5. CASE Progress
    BY <1>1, <1>5 DEF Progress, ConnectStep, SendHello, ReadIdentity, SendGreeting, ReadGreeting,
       Connected, NegotiateStep, StartPlan, SkipCommand, SendCommand, ReadReply, FinishWalk,
       CollectStep, Delay, LoopDisconnected, RecvData, RecvInfo, RecvEnd, RecvTrouble, SendInfo,
       ReadInfo, ReadEof, Reading
  <1>6. CASE Mishap
    BY <1>1, <1>6 DEF Mishap, SendFails, ReadStalls, ReadTimesOut, ReadGarbled, ConnectRefused,
       Reading
  <1>7. QED
    BY <1>2, <1>3, <1>4, <1>5, <1>6 DEF ClientStep, User

(* the client sends them there,                                            *)
LEMMA UnderClient ==
    ASSUME TypeOK, Inv, ProtoInv, NamedInv, PlanInv, BatchV3, WalkInv, UnderInv,
           ClientStep \/ GoneQuiet \/ GoneLate, UNCHANGED srv
    PROVE  UnderInv'
  <1>1. srv.cur # 0 => srv.multi
    BY DEF UnderInv
  <1> SUFFICES ASSUME up', srv.batch, srv.phase = "command", ~UniNow', pc' \notin Handshake,
                      ~Given'
               PROVE  /\ \A k \in 1..Len(c2s') : c2s'[k].role = "data" =>
                            Under(c2s', k, c2s'[k].stream, srv.cur)
                      /\ pc' = "walk" /\ pos'.s \in StreamIds /\ pos'.k # 0 =>
                            Under(c2s', Len(c2s') + 1, pos'.s, srv.cur)
    BY <1>1 DEF UnderInv
  <1>2. CASE pc \in Handshake
    <2>1. Connected
      <3>1. ~Disconnected
        BY DEF Disconnected, Shut
      <3>2. ~(SendHello \/ ReadIdentity \/ SendGreeting \/ ReadGreeting)
        BY <3>1 DEF SendHello, ReadIdentity, SendGreeting, ReadGreeting, ConnectRaises, Goto,
           Handshake
      <3>3. QED
        BY <1>2, <3>1, <3>2, Inside
    <2>2. c2s' = <<>> /\ pc' \in {"idle", "plan"}
      BY <2>1 DEF Connected, Return, Goto, wireVars, Inv, Lockstep
    <2>3. 1..Len(c2s') = {}
      BY <2>2
    <2>4. QED
      BY <2>2, <2>3
  <1>3. CASE pc \notin Handshake
    <2>1. up /\ sock /\ UNCHANGED <<conf, protocol>> /\ UniNow' = UniNow /\ ~UniNow
      <3>1. up => sock
        BY DEF ProtoInv
      <3>2. up /\ UNCHANGED <<conf, protocol>>
        BY <1>3, <3>1, Outside
      <3>3. QED
        BY <3>1, <3>2 DEF UniNow
    <2>2. ~Given
      BY <2>1, GivenUp DEF Disconnected, Shut
    <2>3. /\ \A k \in 1..Len(c2s) : c2s[k].role = "data" =>
                Under(c2s, k, c2s[k].stream, srv.cur)
          /\ pc = "walk" /\ pos.s \in StreamIds /\ pos.k # 0 =>
                Under(c2s, Len(c2s) + 1, pos.s, srv.cur)
      BY <1>3, <2>1, <2>2 DEF UnderInv
    <2>4. PICK q \in Seq(Command) : q = c2s /\ Len(q) \in Nat
      BY LogTypes
    <2>5. batch_active /\ protocol # "V4"
      BY <1>3, <2>1 DEF Inv, BatchAgrees, BatchV3, Handshake
    <2>6. pc # "reply"
      <3>1. ASSUME pc = "reply" PROVE FALSE
        <4>1. pos.s \in StreamIds /\ Current.parse # "none"
          BY <3>1 DEF PlanInv, WalkInv
        <4>2. Current.parse = LineParse(protocol, batch_active)
          BY <2>1, <4>1, CurrentIs
        <4>3. QED
          BY <2>5, <4>1, <4>2 DEF LineParse
      <3>2. QED
        BY <3>1
    <2>7. c2s' = c2s \/ \E c : Sends(c)
      <3>1. pc # "socket"
        BY <2>1 DEF Inv, LinkInv
      <3>2. QED
        BY <3>1, ClientQueue
    <2>8. CASE c2s' = c2s
      <3>1. ASSUME pc' = "walk", pos'.s \in StreamIds, pos'.k # 0
            PROVE  pc = "walk" /\ pos.s = pos'.s /\ pos.k # 0
        <4>1. CASE StartPlan
          BY <2>1, <3>1, <4>1 DEF StartPlan, PlanStart, UniNow
        <4>2. CASE SkipCommand
          <5>1. pc = "walk" /\ pos' = PlanNext(pos) /\ Current.role # "station"
            BY <4>2 DEF SkipCommand, WalkSends
          <5>2. pos.s \in StreamIds
            BY <3>1, <5>1 DEF PlanNext
          <5>3. pos'.s = pos.s
            BY <3>1, <5>1, <5>2, NextPlace
          <5>4. QED
            BY <5>1, <5>2, <5>3, CurrentIs
        <4>3. CASE SendCommand
          <5>1. c2s' = Append(c2s, Current) /\ Current \in Command
            BY <2>1, <4>3, CurrentNamed DEF SendCommand, Send, Named
          <5>2. Append(q, Current) # q
            BY <2>4, <5>1, WithLast
          <5>3. QED
            BY <2>4, <2>8, <5>1, <5>2
        <4>4. CASE ReadReply
          BY <2>6, <4>4 DEF ReadReply
        <4>5. QED
          BY <3>1, <4>1, <4>2, <4>3, <4>4, PlanSteps
      <3>2. QED
        BY <2>3, <2>8, <3>1
    <2>9. ASSUME NEW c, Sends(c)
          PROVE  /\ \A k \in 1..Len(c2s') : c2s'[k].role = "data" =>
                       Under(c2s', k, c2s'[k].stream, srv.cur)
                 /\ pc' = "walk" /\ pos'.s \in StreamIds /\ pos'.k # 0 =>
                       Under(c2s', Len(c2s') + 1, pos'.s, srv.cur)
      <3>1. c \in Command /\ c \in Named
        BY <2>9, SendsNamed DEF Named
      <3>2. PICK r \in Seq(Command) :
               /\ r = c2s' /\ Len(r) = Len(q) + 1 /\ r[Len(q) + 1] = c
               /\ \A n \in 1..Len(q) : r[n] = q[n]
        <4>1. /\ Append(q, c) \in Seq(Command) /\ Len(Append(q, c)) = Len(q) + 1
              /\ Append(q, c)[Len(q) + 1] = c /\ \A n \in 1..Len(q) : Append(q, c)[n] = q[n]
          BY <3>1, WithLast
        <4>2. c2s' = Append(q, c)
          BY <2>1, <2>4, <2>9 DEF Sends, Send
        <4>3. QED
          BY <4>1, <4>2, Zenon
      <3>3. PICK cur : cur = srv.cur
        OBVIOUS
      <3>4. ASSUME NEW k \in Nat, NEW i, k <= Len(q) + 1, Under(q, k, i, cur)
            PROVE  Under(r, k, i, cur)
        <4>1. \A n \in 1..Len(q) : r[n] = q[n]
          BY <3>2
        <4>2. QED
          BY <2>4, <3>2, <3>4, <4>1, UnderJoined
      <3>5. pc = "walk" => Sendable /\ c = Current
        BY <2>9 DEF Sends
      <3>6. ASSUME pc = "walk", pos.s \in StreamIds
            PROVE  /\ c.stream = pos.s
                   /\ pos.k = 0 => c.role = "station"
                   /\ pos.k # 0 => c.role # "station" /\ Under(q, Len(q) + 1, pos.s, cur)
        <4>1. c = Current
          BY <3>5, <3>6
        <4>2. pos.k # 0 => Current.role # "station"
          BY <3>6, CurrentIs
        <4>3. QED
          BY <2>3, <2>4, <3>3, <3>6, <4>1, <4>2, CurrentIs
      <3>7. ASSUME c.role = "data" PROVE Under(r, Len(q) + 1, c.stream, cur)
        <4>1. c = Current /\ pc = "walk"
          <5>1. ASSUME c # Current PROVE FALSE
            BY <2>9, <3>7, <5>1 DEF Sends, Hello, NextGreeting, HandshakeAfter, AfterV3, AfterV4,
               Generic
          <5>2. CASE pc # "walk"
            BY <2>9, <3>7, <5>2 DEF Sends, Hello, NextGreeting, HandshakeAfter, AfterV3, AfterV4,
               Generic
          <5>3. QED
            BY <5>1, <5>2
        <4>2. pos.s \in StreamIds
          BY <3>7, <4>1, CurrentEnds
        <4>3. Under(q, Len(q) + 1, c.stream, cur)
          BY <3>6, <3>7, <4>1, <4>2
        <4>4. Len(q) + 1 \in Nat /\ Len(q) + 1 <= Len(q) + 1
          BY <2>4
        <4>5. QED
          BY <3>4, <4>3, <4>4
      <3>8. ASSUME NEW k \in 1..Len(r), r[k].role = "data" PROVE Under(r, k, r[k].stream, cur)
        <4>1. CASE k \in 1..Len(q)
          <5>1. r[k] = q[k] /\ k \in Nat /\ k <= Len(q) + 1
            BY <2>4, <3>2, <4>1
          <5>2. Under(q, k, r[k].stream, cur)
            BY <2>3, <2>4, <3>3, <3>8, <4>1, <5>1
          <5>3. QED
            BY <3>4, <5>1, <5>2
        <4>2. CASE k \notin 1..Len(q)
          <5>1. k = Len(q) + 1
            BY <2>4, <3>2, <4>2
          <5>2. QED
            BY <3>2, <3>7, <3>8, <5>1
        <4>3. QED
          BY <4>1, <4>2
      <3>9. ASSUME pc' = "walk", pos'.s \in StreamIds, pos'.k # 0
            PROVE  Under(r, Len(r) + 1, pos'.s, cur)
        <4>1. c2s' # c2s
          <5>1. Len(r) # Len(q)
            BY <2>4, <3>2
          <5>2. QED
            BY <2>4, <3>2, <5>1
        <4>2. SendCommand
          <5>1. ~StartPlan /\ ~SkipCommand
            BY <4>1 DEF StartPlan, SkipCommand, wireVars
          <5>2. ~ReadReply
            BY <2>6 DEF ReadReply
          <5>3. QED
            BY <3>9, <5>1, <5>2, PlanSteps
        <4>3. pc = "walk" /\ pos' = PlanNext(pos)
          BY <3>9, <4>2 DEF SendCommand, Goto
        <4>4. pos.s \in StreamIds
          BY <3>9, <4>3 DEF PlanNext
        <4>5. pos'.s = pos.s
          BY <3>9, <4>3, <4>4, NextPlace
        <4>6. IF r[Len(q) + 1].role = "station" THEN r[Len(q) + 1].stream = pos.s
              ELSE Under(q, Len(q) + 1, pos.s, cur)
          BY <3>2, <3>6, <4>3, <4>4
        <4>7. Under(r, Len(r) + 1, pos.s, cur)
          <5>1. \A n \in 1..Len(q) : r[n] = q[n]
            BY <3>2
          <5>2. PICK i : i = pos.s
            OBVIOUS
          <5>3. QED
            BY <2>4, <3>2, <4>6, <5>1, <5>2, UnderLast
        <4>8. QED
          BY <4>5, <4>7
      <3>10. QED
        BY <3>2, <3>3, <3>8, <3>9
    <2>10. QED
      BY <2>7, <2>8, <2>9
  <1>4. QED
    BY <1>2, <1>3

LEMMA UnderStep ==
    ASSUME Agreed, Agreed', Core, UnderInv, [Next]_vars
    PROVE  UnderInv'
  <1>1. CASE ConnectSocket /\ Accept
    BY <1>1 DEF ConnectSocket, Accept, Fresh, Goto, UnderInv, Handshake
  <1>2. CASE (ClientStep \/ GoneQuiet \/ GoneLate) /\ UNCHANGED serverVars
    BY <1>2, UnderClient DEF Agreed, serverVars
  <1>3. CASE UNCHANGED clientVars /\ (ServerNext \/ (Drop /\ UNCHANGED serverVars))
    BY <1>3, UnderServed DEF Agreed
  <1>4. CASE UNCHANGED vars
    BY <1>4 DEF vars, clientVars, wireVars, serverVars, UnderInv, Given, UniNow
  <1>5. QED
    BY <1>1, <1>2, <1>3, <1>4 DEF Next, Terminated

(* so that a server that is at a station is asked for that one's stream.   *)
LEMMA Faces ==
    ASSUME Agreed, Core, StationInv, UnderInv, ~Given, conf.careful
    PROVE  Facing
  <1> SUFFICES ASSUME up, c2s # <<>>, Head(c2s).role = "data", srv.phase = "command"
               PROVE  /\ s2c = <<>>
                      /\ srv.cur # 0 => srv.cur = Head(c2s).stream
    BY DEF Facing
  <1>1. TypeOK /\ Inv /\ ProtoInv /\ UniInv /\ NamedInv /\ PlanInv /\ WalkInv
    BY DEF Agreed
  <1>2. PICK q \in Seq(Command) : q = c2s /\ Len(q) \in Nat \ {0} /\ Head(c2s) = q[1]
    <2>1. c2s \in Seq(Command)
      BY <1>1, LogTypes
    <2>2. QED
      BY <2>1, AfterHead
  <1>3. 1 \in 1..Len(q)
    <2>1. PICK n \in Nat \ {0} : n = Len(q)
      BY <1>2
    <2>2. QED
      BY <2>1
  <1>4. sock /\ pc \notin Before
    <2>1. sock /\ pc \notin {"socket", "delay"}
      BY <1>1 DEF ProtoInv, Inv, LinkInv
    <2>2. ASSUME pc \in Handshake PROVE FALSE
      <3>1. CASE pc \in {"hello", "greet"}
        BY <1>1, <3>1 DEF Inv, Lockstep
      <3>2. CASE pc \in {"identity", "greeting"}
        <4>1. cmd.role = "generic" /\ c2s = <<cmd>>
          BY <1>1, <3>2 DEF Inv, Lockstep, InFlight, Hello, Generic
        <4>2. QED
          BY <4>1
      <3>3. QED
        BY <2>2, <3>1, <3>2 DEF Handshake
    <2>3. QED
      BY <2>1, <2>2 DEF Before
  <1>5. pc \in {"idle", "plan", "walk", "reply", "ask", "frames", "loop", "yield"}
    BY <1>1, <1>4 DEF TypeOK, ClientTypeOK, Steps, Before, Handshake
  <1>6. s2c = <<>>
    <2>1. Calm \/ Awaited \/ Spent => s2c = <<>>
      BY DEF Calm, Awaited, Spent
    <2>2. Flows => s2c = <<>>
      <3>1. ~Over
        <4>1. ByeCommand.role # "data"
          BY DEF ByeCommand, Generic
        <4>2. QED
          BY <1>2, <1>3, <4>1 DEF Over
      <3>2. QED
        BY <3>1 DEF Flows, ToCome, Begun
    <2>3. Answered => s2c = <<>>
      BY DEF Answered
    <2>4. QED
      BY <1>4, <1>5, <2>1, <2>2, <2>3 DEF Core, Idle
  <1>7. ASSUME srv.cur # 0 PROVE srv.cur = Head(c2s).stream
    <2>1. srv.multi
      BY <1>7 DEF UnderInv
    <2>2. ~UniNow
      BY <1>1, <1>4, <2>1 DEF UniInv, Before
    <2>3. CASE ~srv.batch
      <3>1. OnItsStation
        BY OnIt
      <3>2. conf.careful => srv.cur = Head(c2s).stream
        BY <2>1, <2>3, <3>1 DEF OnItsStation
      <3>3. QED
        BY <3>2
    <2>4. CASE srv.batch
      <3>1. Under(q, 1, q[1].stream, srv.cur)
        BY <1>2, <1>3, <1>4, <2>2, <2>4 DEF UnderInv, Before
      <3>2. \A n \in 1..Len(q) : n < 1 => q[n].role # "station"
        OBVIOUS
      <3>3. QED
        BY <1>2, <1>7, <3>1, <3>2 DEF Under
    <2>5. QED
      BY <2>3, <2>4
  <1>8. QED
    BY <1>6, <1>7

(* The client does not open a connection by itself,                        *)
LEMMA NoneOpens ==
    ASSUME ClientStep \/ GoneQuiet \/ GoneLate
    PROVE  (sock' => sock) /\ (up' => up)
  <1> USE DEF wireVars, linkVars
  <1>0. ASSUME Disconnected PROVE (sock' => sock) /\ (up' => up)
    BY <1>0 DEF Disconnected, Shut
  <1>1. CASE CallConnect \/ CallNegotiate \/ CallInfo \/ CallCollect \/ Resume \/ PollNothing
             \/ Connected \/ StartPlan \/ SkipCommand \/ Delay \/ LoopDisconnected
    BY <1>1 DEF CallConnect, CallNegotiate, CallInfo, CallCollect, Resume, PollNothing,
       Connected, StartPlan, SkipCommand, Delay, LoopDisconnected, clientVars
  <1>2. CASE CallReconnect \/ Close \/ Break \/ ConnectRefused
    BY <1>0, <1>2 DEF CallReconnect, Close, Break, ConnectRefused, ConnectRaises
  <1>3. CASE RecvData \/ RecvInfo \/ RecvEnd \/ ReadInfo
    BY <1>3 DEF RecvData, RecvInfo, RecvEnd, ReadInfo, Take, clientVars
  <1>4. CASE ReadIdentity \/ ReadGreeting
    BY <1>0, <1>4 DEF ReadIdentity, ReadGreeting, ConnectRaises, Take
  <1>5. CASE Bye \/ Keepalive
    <2>1. UNCHANGED <<up, sock>> \/ Disconnected
      BY <1>5 DEF Bye, Keepalive, Send
    <2>2. QED
      BY <1>0, <2>1
  <1>6. CASE SendHello \/ SendGreeting \/ SendInfo \/ SendCommand
    <2>1. UNCHANGED <<up, sock>>
      BY <1>6 DEF SendHello, SendGreeting, SendInfo, SendCommand, Send
    <2>2. QED
      BY <2>1
  <1>9. ASSUME NEW open, NEW rest, NegotiateRaises(open, rest)
        PROVE  (sock' => sock) /\ (up' => up)
    BY <1>0, <1>9 DEF NegotiateRaises
  <1>10. CASE ReadReply \/ FinishWalk
    BY <1>9, <1>10 DEF ReadReply, FinishWalk, Take
  <1>11. CASE ReadFails
    BY <1>0, <1>9, <1>11 DEF ReadFails, ConnectRaises, LoopRaises
  <1>12. CASE SendFails
    BY <1>0, <1>9, <1>12 DEF SendFails, ConnectRaises
  <1>13. CASE ReadTimesOut
    <2>1. CASE pc = "frames" /\ UNCHANGED <<up, sock>>
      BY <2>1
    <2>2. CASE \/ ConnectRaises("error")
               \/ NegotiateRaises(TRUE, s2c)
      BY <1>0, <1>9, <2>2 DEF ConnectRaises
    <2>3. QED
      BY <1>13, <2>1, <2>2 DEF ReadTimesOut
  <1>14. CASE ReadEof \/ ReadStalls \/ ReadGarbled
    BY <1>11, <1>14 DEF ReadEof, ReadStalls, ReadGarbled
  <1>15. CASE GoneQuiet \/ GoneLate \/ RecvTrouble
    BY <1>0, <1>15 DEF GoneQuiet, GoneLate, IdleTimeout, RecvTrouble, LoopRaises
  <1>16. QED
    BY <1>1, <1>2, <1>3, <1>4, <1>5, <1>6, <1>10, <1>12, <1>13, <1>14, <1>15
    DEF ClientStep, User, Call, Progress, ConnectStep, NegotiateStep, CollectStep, Mishap

(* and only a packet moves a stream's position.                            *)
LEMMA PositionsStay ==
    ASSUME TypeOK, ConnectSocket \/ ClientStep \/ GoneQuiet \/ GoneLate, ~RecvData
    PROVE  /\ UNCHANGED delivered
           /\ \A i \in StreamIds : streams'[i].seqnum = streams[i].seqnum
  <1>1. UNCHANGED dataVars \/ (StartPlan /\ UNCHANGED delivered)
    BY DEF ClientStep, User, Call, Progress, ConnectStep, NegotiateStep, CollectStep, Mishap,
       ConnectSocket, CallConnect, CallReconnect, CallNegotiate, CallInfo, CallCollect, Close,
       Bye, Break, SendHello, ReadIdentity, SendGreeting, ReadGreeting, Connected, StartPlan,
       SkipCommand, SendCommand, ReadReply, FinishWalk, Delay, LoopDisconnected, RecvInfo,
       RecvEnd, RecvTrouble, SendInfo, ReadInfo, ReadEof, Keepalive, Resume, PollNothing,
       SendFails, ReadStalls, ReadTimesOut, ReadGarbled, ConnectRefused, ReadFails, GoneQuiet,
       GoneLate, IdleTimeout, clientVars, dataVars
  <1>2. CASE UNCHANGED dataVars
    BY <1>2 DEF dataVars
  <1>3. CASE StartPlan /\ UNCHANGED delivered
    <2>1. ASSUME NEW i \in StreamIds PROVE streams'[i].seqnum = streams[i].seqnum
      <3>1. PICK st \in Position : st = streams[i]
        BY DEF TypeOK, ClientTypeOK
      <3>2. streams'[i] = st \/ streams'[i] = ResolveTimestamp(st)
        BY <1>3, <3>1 DEF StartPlan, Planned
      <3>3. ResolveTimestamp(st).seqnum = st.seqnum
        BY DEF ResolveTimestamp, Position
      <3>4. QED
        BY <3>1, <3>2, <3>3
    <2>2. QED
      BY <1>3, <2>1
  <1>4. QED
    BY <1>1, <1>2, <1>3

(* What is read elsewhere is no packet.                                    *)
LEMMA NoDataRead ==
    ASSUME TypeOK, Inv, Greeted, Core, conf.careful, sock, ~Given,
           ClientStep \/ GoneQuiet \/ GoneLate, ~RecvData
    PROVE  \/ s2c' = <<>> /\ ~up'
           \/ s2c' = s2c
           \/ s2c # <<>> /\ s2c' = Tail(s2c) /\ Head(s2c).kind # "data"
  <1>1. pc # "socket"
    BY DEF Inv, LinkInv
  <1>2. \/ s2c' = <<>> /\ ~up'
        \/ s2c' = s2c
        \/ /\ s2c # <<>> /\ s2c' = Tail(s2c)
           /\ \/ pc \in {"identity", "greeting", "reply", "frames"}
              \/ RecvEnd
              \/ Head(s2c).kind # "data"
    BY <1>1, ClientItems
  <1>3. ASSUME s2c # <<>>, pc \in {"identity", "greeting"} PROVE Head(s2c).kind # "data"
    BY <1>3 DEF Greeted, Line
  <1>4. ASSUME s2c # <<>>, pc = "reply" PROVE Head(s2c).kind # "data"
    <2>1. \E ok \in BOOLEAN : s2c = <<Line(cmd.name, ok)>>
      BY <1>4 DEF Core, Awaited
    <2>2. QED
      BY <2>1 DEF Line
  <1>5. ASSUME s2c # <<>>, pc = "frames" PROVE Head(s2c).kind # "data"
    <2>1. s2c = <<Line("INFO", FALSE)>> \/ Infos
      BY <1>5 DEF Core, Answered
    <2>2. CASE s2c = <<Line("INFO", FALSE)>>
      BY <2>2 DEF Line
    <2>3. CASE Infos
      <3>1. s2c \in Seq(Item)
        BY LogTypes
      <3>2. Len(s2c) \in Nat \ {0} /\ Head(s2c) = s2c[1]
        BY <1>5, <3>1, AfterHead
      <3>3. PICK n \in Nat \ {0} : n = Len(s2c)
        BY <3>2
      <3>4. 1 \in 1..n
        OBVIOUS
      <3>5. s2c[1].kind = "info"
        BY <2>3, <3>3, <3>4 DEF Infos
      <3>6. QED
        BY <3>2, <3>5
    <2>4. QED
      BY <2>1, <2>2, <2>3
  <1>6. RecvEnd => Head(s2c).kind # "data"
    BY DEF RecvEnd
  <1>7. QED
    BY <1>2, <1>3, <1>4, <1>5, <1>6

(* The client's steps keep the feed in order: a packet that is yielded is   *)
(* the next one of its station.                                            *)
LEMMA FeedClient ==
    ASSUME Agreed, Core, LogInv, PlaceInv, FeedInv, Separate, conf.careful, ~conf.window,
           ClientStep \/ GoneQuiet \/ GoneLate, UNCHANGED serverVars
    PROVE  /\ LogInv' /\ PlaceInv' /\ FeedInv'
           /\ UNCHANGED delivered \/ \E st, k : NextOf(st, k)
  <1>1. TypeOK /\ Inv /\ Greeted
    BY DEF Agreed
  <1>2. CASE RecvData
    <2>1. sock /\ ~Given /\ c2s' = c2s
      BY <1>2 DEF RecvData, Take, Given
    <2>2. QueueFed /\ (up => ServerFed /\ Requested)
      BY <2>1 DEF FeedInv
    <2>3. /\ \E st, k : NextOf(st, k)
          /\ LogInv' /\ PlaceInv' /\ QueueFed'
          /\ ServerFed => ServerFed'
      BY <1>1, <1>2, <2>2, FeedTaken
    <2>4. ASSUME up' PROVE ServerFed' /\ Requested'
      <3>1. up
        BY <2>4, NoneOpens
      <3>2. Requested'
        BY <1>1, <1>2, <2>1, <3>1, NothingAsked DEF Requested, Wanted
      <3>3. QED
        BY <2>2, <2>3, <3>1, <3>2
    <2>5. QED
      BY <2>3, <2>4 DEF FeedInv
  <1>3. CASE ~RecvData
    <2>1. SamePlaces /\ UNCHANGED <<delivered, cursor, log, peer, newest>>
      BY <1>1, <1>3, PositionsStay DEF SamePlaces, serverVars
    <2>2. LogInv' /\ PlaceInv'
      BY <2>1, PlacesKept
    <2>3. ASSUME sock', ~Given' PROVE QueueFed' /\ (up' => ServerFed' /\ Requested')
      <3>1. sock /\ ~Given
        BY <1>1, <2>3, NoneOpens, GivenUp DEF Disconnected
      <3>2. QueueFed /\ (up => ServerFed /\ Requested)
        BY <3>1 DEF FeedInv
      <3>3. \/ s2c' = <<>> /\ ~up'
            \/ s2c' = s2c
            \/ s2c # <<>> /\ s2c' = Tail(s2c) /\ Head(s2c).kind # "data"
        BY <1>1, <1>3, <3>1, NoDataRead
      <3>4. ASSUME up' PROVE Requested'
        <4>1. up /\ pc # "socket"
          BY <1>1, <3>1, <3>4, NoneOpens DEF Inv, LinkInv
        <4>2. c2s' = <<>> \/ c2s' = c2s \/ \E c \in Command : Wanted(c) /\ Send(c)
          <5>1. c2s' = <<>> \/ c2s' = c2s \/ \E c : Sends(c)
            BY <1>1, ClientQueue
          <5>2. ASSUME NEW c, Sends(c) PROVE c \in Command /\ Wanted(c) /\ Send(c)
            BY <1>1, <5>2, SendsNamed, SendsWanted DEF Named, Sends
          <5>3. QED
            BY <5>1, <5>2
        <4>3. QED
          BY <1>1, <2>1, <3>2, <4>1, <4>2, RequestsKept
      <3>5. QueueFed' /\ (up' /\ ServerFed => ServerFed')
        <4>1. CASE s2c' = <<>> /\ ~up'
          BY <4>1, FeedEmpty
        <4>2. CASE s2c' = s2c
          BY <1>1, <2>1, <3>2, <4>2, OneJoins, FeedJoined
        <4>3. CASE s2c # <<>> /\ s2c' = Tail(s2c) /\ Head(s2c).kind # "data"
          BY <1>1, <2>1, <3>2, <4>3, FeedPassed
        <4>4. QED
          BY <3>3, <4>1, <4>2, <4>3
      <3>6. QED
        BY <3>2, <3>4, <3>5, NoneOpens
    <2>4. QED
      BY <2>1, <2>2, <2>3 DEF FeedInv
  <1>4. QED
    BY <1>2, <1>3

(* A connection begins with nothing under way and nothing asked.           *)
LEMMA FeedOpens ==
    ASSUME TypeOK, LogInv, PlaceInv, ConnectSocket, Accept
    PROVE  LogInv' /\ PlaceInv' /\ FeedInv' /\ UNCHANGED delivered
  <1>1. s2c' = <<>> /\ c2s' = <<>> /\ cursor' = Unasked /\ UNCHANGED <<log, peer, newest>>
    BY DEF ConnectSocket, Accept, Open
  <1>2. SamePlaces /\ UNCHANGED delivered
    BY <1>1 DEF ConnectSocket, dataVars, SamePlaces
  <1>3. LogInv' /\ PlaceInv'
    BY <1>1, <1>2, PlacesKept
  <1>4. QueueFed'
    BY <1>1, FeedEmpty
  <1>5. Requested'
    <2>1. 1..Len(c2s') = {}
      BY <1>1
    <2>2. QED
      BY <2>1 DEF Requested
  <1>6. ServerFed'
    <2>1. \A st \in Stations : cursor'[st] = 0
      BY <1>1 DEF Unasked
    <2>2. \A i \in StreamIds : \A st \in Covers[i] : st \in Stations
      BY LogTypes
    <2>3. QED
      BY <2>1, <2>2 DEF ServerFed, Pointed
  <1>7. QED
    BY <1>2, <1>3, <1>4, <1>5, <1>6 DEF FeedInv

(* What the promise rests on, of a careful user's client.                  *)
FedInv == /\ Agreed /\ Core /\ StationInv /\ UnderInv
          /\ LogInv /\ PlaceInv /\ FeedInv

(* The clients the promise is made to: the user closes a client after a    *)
(* failed call, asks for no time window, and for no dial-up transfer that  *)
(* is kept alive.                                                          *)
Resumable(c) == c.careful /\ ~c.window /\ ~(c.dialup /\ c.keepalive)

LEMMA FedInit == Init => FedInv
  <1> SUFFICES ASSUME Init PROVE FedInv
    OBVIOUS
  <1>1. Agreed /\ Core
    BY AgreedInit, CoreInit
  <1>2. ~up /\ ~sock /\ srv.cur = 0 /\ srv = Fresh
    BY DEF Init, WireInit, ClientInit, ServerInit, Fresh
  <1>3. StationInv /\ UnderInv /\ FeedInv
    BY <1>2 DEF StationInv, UnderInv, FeedInv
  <1>4. \A st \in Stations : log[st] = <<>> /\ delivered[st] = <<>> /\ Had[st] = 0
    BY DEF Init, ClientInit, ServerInit, Had, Latest
  <1>5. \A i \in StreamIds : streams[i].seqnum = None
    BY DEF Init, ClientInit, NoPosition
  <1>6. \A i \in StreamIds : \A st \in Covers[i] : st \in Stations
    BY <1>1, LogTypes DEF Agreed
  <1>7. LogInv
    <2>1. Len(<<>>) = 0 /\ 1..0 = {} /\ MaxPackets \in Nat
      BY WireAssumption
    <2>2. \A st \in Stations : Len(log[st]) = 0 /\ 1..Len(log[st]) = {}
      BY <1>4, <2>1
    <2>3. \A i \in StreamIds : Logged(Covers[i], log)
      BY <1>6, <2>2 DEF Logged
    <2>4. QED
      BY <2>1, <2>2, <2>3 DEF LogInv
  <1>8. PlaceInv
    <2>1. None \notin Nat
      BY CommandsAssumption
    <2>2. \A i \in StreamIds : Placed(Covers[i], log, streams[i].seqnum, Had)
      BY <1>4, <1>5, <1>6, <2>1 DEF Placed
    <2>3. QED
      BY <1>4, <2>2 DEF PlaceInv
  <1>9. QED
    BY <1>1, <1>3, <1>7, <1>8 DEF FedInv

LEMMA FedStep ==
    ASSUME Separate, Numbered, FedInv, Resumable(conf), [Next]_vars
    PROVE  FedInv' /\ (UNCHANGED delivered \/ \E st, k : NextOf(st, k))
  <1>1. Agreed /\ Core /\ StationInv /\ UnderInv /\ LogInv /\ PlaceInv /\ FeedInv
    BY DEF FedInv
  <1>2. conf.careful /\ ~conf.window /\ Tame
    BY DEF Resumable, Tame
  <1>3. Agreed'
    BY <1>1, AgreedStep
  <1>4. Core'
    <2>1. Mannered
      BY <1>2 DEF Mannered, CallNegotiate
    <2>2. QED
      BY <1>1, <1>2, <2>1, CoreStep DEF Agreed
  <1>5. StationInv' /\ UnderInv'
    BY <1>1, <1>2, <1>3, StationStep, UnderStep
  <1>6. TypeOK /\ TypeOK' /\ NamedInv
    BY <1>1, <1>3 DEF Agreed
  <1>7. LogInv' /\ PlaceInv' /\ FeedInv' /\ (UNCHANGED delivered \/ \E st, k : NextOf(st, k))
    <2>1. CASE ConnectSocket /\ Accept
      BY <1>1, <1>6, <2>1, FeedOpens
    <2>2. CASE (ClientStep \/ GoneQuiet \/ GoneLate) /\ UNCHANGED serverVars
      BY <1>1, <1>2, <2>2, FeedClient
    <2>3. CASE UNCHANGED clientVars /\ (ServerNext \/ (Drop /\ UNCHANGED serverVars))
      <3>1. UNCHANGED delivered /\ sock' = sock /\ Given' = Given
        BY <2>3 DEF clientVars, Given
      <3>2. LogInv' /\ PlaceInv'
        BY <1>1, <1>6, <2>3, PlacesServed
      <3>3. ASSUME sock, ~Given PROVE QueueFed' /\ (up' => ServerFed' /\ Requested')
        <4>1. Facing
          BY <1>1, <1>2, <3>3, Faces
        <4>2. QueueFed /\ (up => ServerFed /\ Requested)
          BY <1>1, <3>3 DEF FeedInv
        <4>3. QED
          BY <1>1, <1>6, <2>3, <4>1, <4>2, FeedServed
      <3>4. QED
        BY <3>1, <3>2, <3>3 DEF FeedInv
    <2>4. CASE UNCHANGED vars
      <3>1. SamePlaces /\ UNCHANGED <<delivered, peer, newest, cursor, s2c, c2s, up, sock>>
            /\ UNCHANGED <<streams, conf, pc, outcome>>
        BY <2>4 DEF vars, clientVars, serverVars, wireVars, SamePlaces
      <3>2. LogInv' /\ PlaceInv'
        BY <1>1, <3>1, PlacesKept
      <3>3. (QueueFed => QueueFed') /\ (QueueFed /\ ServerFed => ServerFed')
        BY <1>6, <3>1, OneJoins, FeedJoined
      <3>4. (Requested => Requested') /\ Given' = Given
        BY <3>1 DEF Requested, Wanted, Given
      <3>5. QED
        BY <1>1, <3>1, <3>2, <3>3, <3>4 DEF FeedInv
    <2>5. QED
      BY <2>1, <2>2, <2>3, <2>4 DEF Next, Terminated
  <1>8. QED
    BY <1>1, <1>3, <1>4, <1>5, <1>7 DEF FedInv

(* "A reconnect resumes where it left off" (client.py, aio.py): of every    *)
(* station the packets reach the consumer of collect() in order, each once *)
(* and none left out, however often the connection is lost, so long as no  *)
(* station belongs to two streams, and a stream of several stations is of  *)
(* a server that numbers the packets of all of them together.              *)
THEOREM ResumesInOrder ==
    ASSUME Separate, Numbered
    PROVE  Spec /\ Resumable(conf) => ResumesWhereItLeftOff
  <1>1. Init => FedInv
    BY FedInit
  <1>2. FedInv /\ Resumable(conf) /\ [Next]_vars => FedInv' /\ Resumable(conf)'
    BY FedStep, ConfStays DEF Resumable
  <1>3. Init => Feed!Init
    BY DEF Init, ClientInit, Feed!Init
  <1>4. FedInv /\ Resumable(conf) /\ [Next]_vars => [Feed!Next]_delivered
    <2> SUFFICES ASSUME FedInv, Resumable(conf), [Next]_vars
                 PROVE  (\E st \in Stations, k \in 1..MaxPackets : Feed!Deliver(st, k))
                        \/ UNCHANGED delivered
      BY DEF Feed!Next
    <2>1. ASSUME NEW st, NEW k, NextOf(st, k)
          PROVE  st \in Stations /\ k \in 1..MaxPackets /\ Feed!Deliver(st, k)
      BY <2>1 DEF NextOf, Latest, Feed!Deliver
    <2>2. QED
      BY <2>1, FedStep
  <1>5. QED
    BY <1>1, <1>2, <1>3, <1>4, PTL DEF Spec, ResumesWhereItLeftOff, Feed!Spec
=============================================================================
