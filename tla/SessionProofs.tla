--------------------------- MODULE SessionProofs ----------------------------
(***************************************************************************)
(* For every set of stations, streams, configurations, servers and faults: *)
(* client, server and network keep to their types; client and server agree *)
(* on batch mode and on the framing of a transfer; a transfer that is      *)
(* waited for was asked for, from one packet; and collect() ends as        *)
(* documented.                                                             *)
(***************************************************************************)
EXTENDS Session, TLAPS, FiniteSetTheorems, SequenceTheorems

-----------------------------------------------------------------------------
(* What the planners return.                                               *)

(* A command outside any stream is a command.                              *)
LEMMA GenericOK ==
    ASSUME NEW n \in CommandNames, NEW p \in {"none", "reply", "ok", "auth"}
    PROVE  Generic(n, p) \in Command
  BY DEF Generic, Command, NoRequest, Request

(* So is one that belongs to a stream.                                     *)
LEMMA ForStreamOK ==
    ASSUME NEW n \in CommandNames,
           NEW role \in {"generic", "station", "select", "data", "end"},
           NEW i \in StreamIds \cup {0}, NEW r \in Request,
           NEW p \in {"none", "reply", "ok", "auth"}
    PROVE  ForStream(n, role, i, r, p) \in Command
  BY DEF ForStream, Command

(* Parsing a deferred packet time yields a position.                       *)
LEMMA ResolvedOK ==
    ASSUME NEW st \in Position
    PROVE  ResolveTimestamp(st) \in Position
  BY DEF ResolveTimestamp, Position

(* The DATA, FETCH or TIME of a stream is a command, in either version.    *)
LEMMA DataCommandOK ==
    ASSUME NEW i \in StreamIds, NEW proto, NEW c \in Config, NEW b \in BOOLEAN,
           NEW st \in Position
    PROVE  DataCommand(i, proto, c, b, st) \in Command
  <1>1. ResumeSeqnum(st) \in Nat \cup {None}
    BY DEF ResumeSeqnum, Position
  <1>2. ResolveTimestamp(st).timestamp \in Nat \cup {None}
    BY ResolvedOK DEF Position
  <1>3. DataV4Request(st, AllData[i], c.window) \in Request
    BY <1>1 DEF DataV4Request, FromSeq, FromAll, FromNext, Request
  <1>4. DataV3Request(st, c.window) \in Request
    BY <1>1, <1>2 DEF DataV3Request, FromSeq, FromAll, FromNext, Request
  <1>5. DataV3Name(c) \in CommandNames /\ "DATA" \in CommandNames
    BY DEF DataV3Name, CommandNames
  <1>6. LineParse(proto, b) \in {"none", "reply", "ok", "auth"}
    BY DEF LineParse
  <1> QED BY <1>3, <1>4, <1>5, <1>6, ForStreamOK DEF DataCommand

(* plan_negotiation() yields commands, at every position of the plan.      *)
LEMMA CmdAtOK ==
    ASSUME NEW p \in PlanPos, NEW proto, NEW c \in Config, NEW b \in BOOLEAN,
           NEW s \in [StreamIds -> Position]
    PROVE  CmdAt(p, proto, c, b, s) \in Command
  <1>1. EndCommand(proto, c) \in Command
    BY DEF EndCommand, ForStream, Command, CommandNames, NoRequest, Request
  <1>2. LineParse(proto, b) \in {"none", "reply", "ok", "auth"}
    BY DEF LineParse
  <1>3. {"STATION", "SELECT"} \subseteq CommandNames /\ NoRequest \in Request
    BY DEF CommandNames, NoRequest, Request
  <1>4. CASE p.s \notin StreamIds
    BY <1>1, <1>4 DEF CmdAt
  <1>5. CASE p.s \in StreamIds
    <2>1. DataCommand(p.s, proto, c, b, s[p.s]) \in Command
      BY <1>5, DataCommandOK
    <2> QED BY <1>5, <2>1, <1>2, <1>3, ForStreamOK DEF CmdAt
  <1> QED BY <1>4, <1>5

(* plan_handshake() yields commands.                                       *)
LEMMA HandshakeOK ==
    ASSUME NEW done, NEW proto, NEW c \in Config, NEW cap \in BOOLEAN,
           HandshakeAfter(done, proto, c, cap) # None
    PROVE  HandshakeAfter(done, proto, c, cap) \in Command
  <1>1. /\ Generic("SLPROTO", "ok") \in Command /\ Generic("USERAGENT", "ok") \in Command
        /\ Generic("AUTH", "auth") \in Command
        /\ Generic("CAPABILITIES", "ok") \in Command /\ Generic("BATCH", "reply") \in Command
    BY GenericOK DEF CommandNames
  <1> QED BY <1>1 DEF HandshakeAfter, AfterV3, AfterV4

(* Making a plan leaves a position in every stream.                        *)
LEMMA PlannedOK ==
    ASSUME NEW proto, NEW c \in Config, NEW s \in [StreamIds -> Position]
    PROVE  Planned(proto, c, s) \in [StreamIds -> Position]
  BY ResolvedOK DEF Planned

(* NegotiationWalk stays one through every command and reply.              *)
LEMMA WalkOK ==
    ASSUME NEW w \in Walk, NEW c \in Command, NEW r \in BOOLEAN
    PROVE  WalkEnter(w, c) \in Walk /\ WalkRecord(w, c, r) \in Walk
  BY DEF WalkEnter, WalkRecord, Walk

(* The plan moves from position to position.                               *)
LEMMA PlanPosOK ==
    ASSUME NEW p \in PlanPos, NEW proto, NEW c \in Config
    PROVE  PlanStart(proto, c) \in PlanPos /\ PlanNext(p) \in PlanPos
  BY DEF PlanPos, PlanStart, PlanNext

-----------------------------------------------------------------------------
(* The network.                                                            *)
LinkOK == up \in BOOLEAN /\ c2s \in Seq(Command) /\ s2c \in Seq(Item)

(* An emptied queue is well typed.                                         *)
LEMMA EmptyOK == <<>> \in Seq(Command) /\ <<>> \in Seq(Item)
  OBVIOUS

(* Sending a command keeps the connection well typed.                      *)
LEMMA SendOK ==
    ASSUME WireTypeOK, NEW c \in Command, Send(c)
    PROVE  LinkOK'
  BY DEF WireTypeOK, Send, LinkOK

(* So does reading a line or a frame,                                      *)
LEMMA TakeOK ==
    ASSUME WireTypeOK, Take
    PROVE  LinkOK'
  BY DEF WireTypeOK, Take, LinkOK

(* closing,                                                                *)
LEMMA ShutOK ==
    ASSUME Shut \/ Open
    PROVE  LinkOK'
  BY EmptyOK, Zenon DEF Shut, Open, LinkOK

(* counting a fault,                                                       *)
LEMMA FaultOK ==
    ASSUME WireTypeOK, NEW k, Fault(k)
    PROVE  faults' \in 0..MaxFaults
  BY WireAssumption DEF WireTypeOK, Fault

(* and a cut by the network.                                               *)
LEMMA DropOK ==
    ASSUME WireTypeOK, Drop
    PROVE  WireTypeOK'
  <1>1. PICK n \in 0..Len(s2c) : s2c' = SubSeq(s2c, 1, n)
    BY DEF Drop
  <1>2. s2c' \in Seq(Item)
    <2>1. /\ n \in Nat
          /\ \A i \in 1..n : s2c[i] \in Item
      BY LenProperties DEF WireTypeOK
    <2> QED BY <1>1, <2>1, SubSeqProperties
  <1>3. faults' \in 0..MaxFaults
    BY FaultOK DEF Drop
  <1>4. c2s' \in Seq(Command)
    BY EmptyOK DEF Drop
  <1> QED BY <1>2, <1>3, <1>4 DEF Drop, WireTypeOK

-----------------------------------------------------------------------------
(* The client.                                                             *)

(* the connection's variables, then how a method goes on or ends           *)
ConnOK == /\ LinkOK
          /\ sock \in BOOLEAN /\ streaming \in BOOLEAN /\ batch_active \in BOOLEAN
CtlOK  == /\ call \in Methods /\ pc \in Steps
          /\ outcome \in Outcomes /\ calls \in 0..MaxCalls

(* A closed client is well typed.                                          *)
LEMMA DisconnectedOK == Disconnected => ConnOK'
  BY ShutOK DEF Disconnected, ConnOK

(* Going on to another step keeps the client's control well typed.         *)
LEMMA GotoOK ==
    ASSUME ClientTypeOK, NEW st \in Steps, Goto(st)
    PROVE  CtlOK'
  BY DEF ClientTypeOK, CtlOK, Goto

(* So does returning from a call.                                          *)
LEMMA ReturnOK ==
    ASSUME ClientTypeOK, NEW how \in Outcomes, Return(how)
    PROVE  CtlOK'
  BY DEF ClientTypeOK, CtlOK, Return, Methods, Steps

(* So does entering one.                                                   *)
LEMMA EnterOK ==
    ASSUME ClientTypeOK, NEW m \in Methods, NEW st \in Steps, Enter(m, st)
    PROVE  CtlOK'
  BY ClientAssumption DEF ClientTypeOK, CtlOK, Enter, Outcomes

(* An exception in connect() leaves client and connection well typed,      *)
LEMMA ConnectRaisesOK ==
    ASSUME ClientTypeOK, NEW how \in Failed, ConnectRaises(how)
    PROVE  ConnOK' /\ CtlOK'
  <1>1. ConnOK'
    BY DisconnectedOK DEF ConnectRaises
  <1>2. CtlOK'
    BY GotoOK, ReturnOK DEF ConnectRaises, Failed, Outcomes, Steps
  <1> QED BY <1>1, <1>2

(* one in negotiate() does,                                                *)
LEMMA NegotiateRaisesOK ==
    ASSUME TypeOK, NEW open \in BOOLEAN, NEW rest \in Seq(Item),
           NegotiateRaises(open, rest)
    PROVE  ConnOK' /\ CtlOK'
  <1>1. ConnOK'
    BY DisconnectedOK
    DEF NegotiateRaises, TypeOK, WireTypeOK, ClientTypeOK, ConnOK, LinkOK, linkVars
  <1>2. CtlOK'
    BY GotoOK, ReturnOK DEF NegotiateRaises, Outcomes, Steps, TypeOK
  <1> QED BY <1>1, <1>2

(* one in the loop of collect(),                                           *)
LEMMA LoopRaisesOK ==
    ASSUME ClientTypeOK, LoopRaises
    PROVE  ConnOK' /\ CtlOK'
  <1>1. ConnOK'
    BY DisconnectedOK DEF LoopRaises
  <1>2. CtlOK'
    BY GotoOK, ReturnOK DEF LoopRaises, Outcomes, Steps
  <1> QED BY <1>1, <1>2

(* and a failed read in any of them.                                       *)
LEMMA ReadFailsOK ==
    ASSUME TypeOK, ReadFails
    PROVE  ConnOK' /\ CtlOK' /\ UNCHANGED <<conf, identVars, planVars, dataVars>>
  <1>1. CASE pc \in {"identity", "greeting"} /\ ConnectRaises("error")
    BY <1>1, ConnectRaisesOK DEF Failed, ReadFails, TypeOK
  <1>2. CASE pc = "reply" /\ NegotiateRaises(FALSE, <<>>)
    BY <1>2, EmptyOK, NegotiateRaisesOK DEF ReadFails
  <1>3. CASE pc = "frames" /\ Disconnected /\ Return("error")
    BY <1>3, DisconnectedOK, ReturnOK DEF ReadFails, TypeOK, Outcomes
  <1>4. CASE pc = "loop" /\ LoopRaises
    BY <1>4, LoopRaisesOK DEF ReadFails, TypeOK
  <1> QED BY <1>1, <1>2, <1>3, <1>4 DEF ReadFails

(* One step per action, and for each what it changes of the types.         *)
LEMMA ClientStepOK ==
    ASSUME TypeOK, ConnectSocket \/ ClientStep \/ GoneQuiet \/ GoneLate
    PROVE  WireTypeOK' /\ ClientTypeOK'
  <1> USE DEF linkVars, ctlVars, planVars, identVars, dataVars, wireVars
  <1> DEFINE Stay == UNCHANGED conf /\ UNCHANGED identVars /\ UNCHANGED planVars
                     /\ UNCHANGED dataVars
  <1>0. ASSUME ConnOK', CtlOK', Stay, faults' \in 0..MaxFaults
        PROVE  WireTypeOK' /\ ClientTypeOK'
    BY <1>0 DEF TypeOK, WireTypeOK, ClientTypeOK, ConnOK, CtlOK, LinkOK
  <1>a. faults \in 0..MaxFaults /\ ConnOK
    BY DEF TypeOK, WireTypeOK, ClientTypeOK, ConnOK, LinkOK
  <1>b. UNCHANGED <<linkVars, up, c2s, s2c>> => ConnOK'
    BY <1>a DEF ConnOK, LinkOK
  <1>c. UNCHANGED linkVars /\ LinkOK' => ConnOK'
    BY <1>a DEF ConnOK
  <1>1. CASE CallConnect
    <2>1. CtlOK'
      BY <1>1, EnterOK DEF CallConnect, TypeOK, Methods, Steps
    <2> QED BY <1>0, <1>a, <1>b, <1>1, <2>1 DEF CallConnect
  <1>2. CASE CallReconnect
    <2>1. CtlOK' /\ ConnOK'
      BY <1>2, EnterOK, DisconnectedOK DEF CallReconnect, TypeOK, Methods, Steps
    <2> QED BY <1>0, <1>a, <1>2, <2>1 DEF CallReconnect
  <1>3. CASE CallNegotiate
    <2>1. CtlOK'
      BY <1>3, EnterOK DEF CallNegotiate, TypeOK, Methods, Steps
    <2> QED BY <1>0, <1>a, <1>b, <1>3, <2>1 DEF CallNegotiate
  <1>4. CASE CallInfo
    <2>1. CtlOK'
      BY <1>4, EnterOK DEF CallInfo, TypeOK, Methods, Steps
    <2> QED BY <1>0, <1>a, <1>b, <1>4, <2>1 DEF CallInfo
  <1>5. CASE CallCollect
    <2>1. CtlOK'
      BY <1>5, EnterOK DEF CallCollect, TypeOK, Methods, Steps
    <2> QED BY <1>0, <1>a, <1>b, <1>5, <2>1 DEF CallCollect
  <1>6. CASE Close
    <2>1. ConnOK'
      BY <1>6, DisconnectedOK DEF Close
    <2>2. CtlOK'
      BY <1>6 DEF Close, TypeOK, ClientTypeOK, CtlOK, Outcomes
    <2> QED BY <1>0, <1>a, <1>6, <2>1, <2>2 DEF Close
  <1>7. CASE Bye
    <2>1. CtlOK'
      <3>1. calls' \in 0..MaxCalls
        BY <1>7, ClientAssumption DEF Bye, TypeOK, ClientTypeOK
      <3>2. outcome' \in Outcomes
        BY <1>7 DEF Bye, TypeOK, ClientTypeOK, Outcomes
      <3> QED BY <1>7, <3>1, <3>2 DEF Bye, TypeOK, ClientTypeOK, CtlOK
    <2>2. Generic("BYE", "none") \in Command
      BY GenericOK DEF CommandNames
    <2>3. ASSUME Send(Generic("BYE", "none")), UNCHANGED linkVars
          PROVE  ConnOK'
      BY <1>c, <2>2, <2>3, SendOK DEF TypeOK
    <2>4. ConnOK'
      BY <1>7, <2>3, DisconnectedOK DEF Bye
    <2> QED BY <1>0, <1>a, <1>7, <2>1, <2>4 DEF Bye
  <1>8. CASE ConnectSocket
    <2>1. CtlOK'
      BY <1>8, GotoOK DEF ConnectSocket, TypeOK, Steps
    <2>2. ConnOK'
      BY <1>8, <1>a, ShutOK DEF ConnectSocket, ConnOK
    <2> QED BY <1>0, <1>a, <1>8, <2>1, <2>2 DEF ConnectSocket
  <1>9. CASE ConnectRefused
    <2>1. CtlOK' /\ ConnOK'
      BY <1>9, ConnectRaisesOK DEF ConnectRefused, TypeOK, Failed
    <2>2. faults' \in 0..MaxFaults
      BY <1>9, FaultOK DEF ConnectRefused, TypeOK
    <2> QED BY <1>0, <1>9, <2>1, <2>2 DEF ConnectRefused
  <1>10. CASE SendHello
    <2>1. Hello \in Command
      BY GenericOK DEF Hello, CommandNames
    <2>2. CtlOK' /\ ConnOK'
      BY <1>10, <1>c, <2>1, GotoOK, SendOK DEF SendHello, TypeOK, Steps
    <2> QED BY <1>10, <2>1, <2>2
        DEF SendHello, TypeOK, WireTypeOK, ClientTypeOK, CtlOK, ConnOK, LinkOK
  <1>11. CASE ReadIdentity
    <2>1. Head(s2c) \in Item
      BY <1>11, HeadTailProperties DEF ReadIdentity, TypeOK, WireTypeOK
    <2>2. Head(s2c).cap \in BOOLEAN
      BY <1>11, <2>1 DEF ReadIdentity, Item
    <2>3. capable' \in BOOLEAN /\ protocol' \in {None, "V3", "V4"}
      BY <1>11, <2>2 DEF ReadIdentity, Identified, SelectProtocol, TypeOK, ClientTypeOK
    <2>4. CtlOK' /\ ConnOK'
      BY <1>11, <1>c, ConnectRaisesOK, DisconnectedOK, ReturnOK, GotoOK, TakeOK
      DEF ReadIdentity, TypeOK, Failed, Outcomes, Steps
    <2> QED BY <1>11, <2>3, <2>4
        DEF ReadIdentity, TypeOK, WireTypeOK, ClientTypeOK, CtlOK, ConnOK, LinkOK
  <1>12. CASE SendGreeting
    <2>1. NextGreeting \in Command
      BY <1>12, HandshakeOK, ClientAssumption
      DEF SendGreeting, NextGreeting, TypeOK, ClientTypeOK
    <2>2. CtlOK' /\ ConnOK'
      BY <1>12, <1>c, <2>1, GotoOK, SendOK DEF SendGreeting, TypeOK, Steps
    <2> QED BY <1>12, <2>1, <2>2
        DEF SendGreeting, TypeOK, WireTypeOK, ClientTypeOK, CtlOK, ConnOK, LinkOK
  <1>13. CASE ReadGreeting
    <2>1. Head(s2c) \in Item
      BY <1>13, HeadTailProperties DEF ReadGreeting, TypeOK, WireTypeOK
    <2>2. Accepted(Head(s2c)) \in BOOLEAN
      BY <2>1 DEF Accepted, Item
    <2>3. BatchReply(Accepted(Head(s2c))) \in BOOLEAN
      BY <1>a, <2>2 DEF BatchReply, ConnOK
    <2>4. CASE ConnectRaises("auth") \/ ConnectRaises("error")
      BY <1>0, <1>a, <1>13, <2>4, ConnectRaisesOK DEF ReadGreeting, TypeOK, Failed
    <2>5. CASE /\ Take /\ Goto("greet") /\ batch_active' = BatchReply(Accepted(Head(s2c)))
               /\ UNCHANGED <<sock, streaming>>
      <3>1. CtlOK' /\ ConnOK'
        BY <1>a, <2>3, <2>5, GotoOK, TakeOK DEF TypeOK, ConnOK, Steps
      <3> QED BY <1>0, <1>a, <1>13, <3>1 DEF ReadGreeting
    <2> QED BY <1>13, <2>4, <2>5 DEF ReadGreeting
  <1>14. CASE Connected
    <2>1. CtlOK'
      BY <1>14, GotoOK, ReturnOK DEF Connected, TypeOK, Steps, Outcomes
    <2> QED BY <1>0, <1>a, <1>b, <1>14, <2>1 DEF Connected
  <1>15. CASE StartPlan
    <2>1. CtlOK'
      BY <1>15, GotoOK DEF StartPlan, TypeOK, Steps
    <2>2. /\ streams' \in [StreamIds -> Position] /\ pos' \in PlanPos
          /\ walk' \in Walk
      BY <1>15, PlannedOK, PlanPosOK, ClientAssumption
      DEF StartPlan, TypeOK, ClientTypeOK, NewWalk, Walk
    <2> QED BY <1>15, <2>1, <2>2 DEF StartPlan, TypeOK, WireTypeOK, ClientTypeOK, CtlOK
  <1>16. CASE SkipCommand
    <2>1. pos' \in PlanPos
      BY <1>16, PlanPosOK, ClientAssumption DEF SkipCommand, TypeOK, ClientTypeOK
    <2> QED BY <1>16, <2>1 DEF SkipCommand, TypeOK, WireTypeOK, ClientTypeOK
  <1>17. CASE SendCommand
    <2> DEFINE c == Current
               w == WalkEnter(walk, c)
    <2>1. c \in Command
      BY CmdAtOK, ClientAssumption DEF Current, TypeOK, ClientTypeOK
    <2>2. w \in Walk /\ WalkRecord(w, c, FALSE) \in Walk
      BY <2>1, WalkOK DEF TypeOK, ClientTypeOK
    <2>3. PlanNext(pos) \in PlanPos
      BY <1>17, PlanPosOK, ClientAssumption
      DEF TypeOK, ClientTypeOK
    <2>4. cmd' \in Command /\ walk' \in Walk /\ pos' \in PlanPos
      BY <1>17, <2>1, <2>2, <2>3 DEF SendCommand, TypeOK, ClientTypeOK
    <2>5. CtlOK'
      BY <1>17, GotoOK DEF SendCommand, TypeOK, Steps
    <2>6. ConnOK'
      BY <1>17, <1>c, <2>1, SendOK DEF SendCommand, TypeOK
    <2> QED BY <1>17, <2>4, <2>5, <2>6
        DEF SendCommand, TypeOK, WireTypeOK, ClientTypeOK, CtlOK, ConnOK, LinkOK
  <1>18. CASE ReadReply
    <2> DEFINE ok == Accepted(Head(s2c))
    <2>1. s2c # <<>> /\ Head(s2c) \in Item /\ Tail(s2c) \in Seq(Item)
      BY <1>18, HeadTailProperties DEF ReadReply, TypeOK, WireTypeOK
    <2>2. ok \in BOOLEAN
      BY <2>1 DEF Accepted, Item
    <2>3. CASE /\ Take /\ Goto("walk") /\ UNCHANGED linkVars
               /\ walk' = WalkRecord(walk, cmd, ~ok) /\ pos' = PlanNext(pos)
      <3>1. CtlOK' /\ ConnOK'
        BY <1>c, <2>3, GotoOK, TakeOK DEF TypeOK, Steps
      <3>2. walk' \in Walk
        BY <2>2, <2>3, WalkOK DEF TypeOK, ClientTypeOK
      <3>3. pos' \in PlanPos
        BY <2>3, PlanPosOK, ClientAssumption DEF TypeOK, ClientTypeOK
      <3> QED BY <1>18, <3>1, <3>2, <3>3
          DEF ReadReply, TypeOK, WireTypeOK, ClientTypeOK, CtlOK, ConnOK, LinkOK
    <2>4. CASE NegotiateRaises(TRUE, Tail(s2c)) /\ UNCHANGED <<walk, pos>>
      <3>1. CtlOK' /\ ConnOK'
        BY <2>1, <2>4, NegotiateRaisesOK
      <3> QED BY <1>0, <1>a, <1>18, <2>4, <3>1 DEF ReadReply
    <2> QED BY <1>18, <2>3, <2>4 DEF ReadReply
  <1>19. CASE ReadGarbled
    BY <1>0, <1>a, <1>19, ReadFailsOK DEF ReadGarbled
  <1>20. CASE FinishWalk
    <2>1. CASE NegotiateRaises(TRUE, s2c)
      <3>1. CtlOK' /\ ConnOK'
        BY <2>1, NegotiateRaisesOK DEF TypeOK, WireTypeOK
      <3> QED BY <1>0, <1>a, <1>20, <3>1 DEF FinishWalk
    <2>2. CASE ~NegotiateRaises(TRUE, s2c)
      <3>1. CtlOK'
        BY <1>20, <2>2, ReturnOK
        DEF FinishWalk, TypeOK, ClientTypeOK, CtlOK, Methods, Steps, Outcomes
      <3>2. ConnOK'
        BY <1>20, <2>2, <1>a DEF FinishWalk, ConnOK, LinkOK
      <3> QED BY <1>0, <1>a, <1>20, <2>2, <3>1, <3>2 DEF FinishWalk
    <2> QED BY <2>1, <2>2
  <1>21. CASE SendFails
    <2>2. CtlOK' /\ ConnOK'
      BY <1>21, EmptyOK, ConnectRaisesOK, NegotiateRaisesOK, DisconnectedOK, ReturnOK
      DEF SendFails, Failed, Outcomes, TypeOK
    <2> QED BY <1>0, <1>a, <1>21, <2>2 DEF SendFails
  <1>22. CASE ReadEof
    BY <1>0, <1>a, <1>22, ReadFailsOK DEF ReadEof
  <1>23. CASE ReadStalls
    BY <1>0, <1>23, ReadFailsOK, FaultOK DEF ReadStalls, TypeOK
  <1>24. CASE ReadTimesOut
    <2>1. faults' \in 0..MaxFaults
      BY <1>24, FaultOK DEF ReadTimesOut, TypeOK
    <2>2. CtlOK' /\ ConnOK'
      BY <1>24, <1>b, ConnectRaisesOK, NegotiateRaisesOK, ReturnOK
      DEF ReadTimesOut, TypeOK, WireTypeOK, Failed, Outcomes
    <2> QED BY <1>0, <1>24, <2>1, <2>2 DEF ReadTimesOut
  <1>25. CASE SendInfo
    <2>1. Generic("INFO", "none") \in Command
      BY GenericOK DEF CommandNames
    <2>2. CtlOK' /\ ConnOK'
      BY <1>25, <1>c, <2>1, GotoOK, SendOK DEF SendInfo, TypeOK, Steps
    <2> QED BY <1>0, <1>a, <1>25, <2>2 DEF SendInfo
  <1>26. CASE ReadInfo
    <2>1. CtlOK'
      BY <1>26, GotoOK, ReturnOK DEF ReadInfo, TypeOK, Steps, Outcomes
    <2>2. ConnOK'
      BY <1>26, <1>b, <1>c, TakeOK DEF ReadInfo, TypeOK
    <2> QED BY <1>0, <1>a, <1>26, <2>1, <2>2 DEF ReadInfo
  <1>27. CASE Delay \/ LoopDisconnected
    <2>1. CtlOK'
      BY <1>27, GotoOK, ReturnOK DEF Delay, LoopDisconnected, TypeOK, Steps, Outcomes
    <2> QED BY <1>0, <1>a, <1>b, <1>27, <2>1 DEF Delay, LoopDisconnected
  <1>28. CASE GoneQuiet
    BY <1>0, <1>a, <1>28, LoopRaisesOK DEF GoneQuiet, IdleTimeout, TypeOK
  <1>29. CASE GoneLate
    BY <1>0, <1>29, LoopRaisesOK, FaultOK DEF GoneLate, IdleTimeout, TypeOK
  <1>30. CASE PollNothing
    BY <1>30 DEF PollNothing, TypeOK, WireTypeOK, ClientTypeOK, clientVars
  <1>31. CASE Keepalive
    <2>1. Generic("KEEPALIVE", "none") \in Command
      BY GenericOK DEF CommandNames
    <2>2. ASSUME Send(Generic("KEEPALIVE", "none")), UNCHANGED linkVars
          PROVE  ConnOK'
      BY <1>c, <2>1, <2>2, SendOK DEF TypeOK
    <2>3. ConnOK'
      BY <1>31, <2>2, DisconnectedOK DEF Keepalive
    <2>4. CtlOK'
      BY <1>31 DEF Keepalive, TypeOK, ClientTypeOK, CtlOK
    <2> QED BY <1>0, <1>a, <1>31, <2>3, <2>4 DEF Keepalive
  <1>32. CASE RecvData
    <2> DEFINE item == Head(s2c)
    <2>1. item \in Item
      BY <1>32, HeadTailProperties DEF RecvData, TypeOK, WireTypeOK
    <2>2. item.station \in Stations /\ item.index \in Nat /\ item.seqnum \in Nat
      BY <1>32, <2>1 DEF RecvData, Item
    <2>3. streams' \in [StreamIds -> Position]
      BY <1>32, <2>2 DEF RecvData, Advance, Position, TypeOK, ClientTypeOK
    <2>4. delivered' \in [Stations -> Seq(Nat)]
      BY <1>32, <2>2 DEF RecvData, TypeOK, ClientTypeOK
    <2>5. CtlOK' /\ ConnOK'
      BY <1>32, <1>c, GotoOK, TakeOK DEF RecvData, TypeOK, Steps
    <2> QED BY <1>32, <2>3, <2>4, <2>5
        DEF RecvData, TypeOK, WireTypeOK, ClientTypeOK, CtlOK, ConnOK, LinkOK
  <1>33. CASE RecvInfo
    <2>1. CtlOK' /\ ConnOK'
      BY <1>33, <1>c, TakeOK DEF RecvInfo, TypeOK, ClientTypeOK, CtlOK, clientVars
    <2> QED BY <1>0, <1>a, <1>33, <2>1 DEF RecvInfo, clientVars
  <1>34. CASE RecvEnd
    <2>1. CtlOK' /\ ConnOK'
      BY <1>34, <1>a, ReturnOK, TakeOK DEF RecvEnd, TypeOK, Outcomes, ConnOK
    <2> QED BY <1>0, <1>a, <1>34, <2>1 DEF RecvEnd
  <1>35. CASE RecvTrouble
    BY <1>0, <1>a, <1>35, LoopRaisesOK DEF RecvTrouble, TypeOK
  <1>36. CASE Resume
    <2>1. CtlOK'
      BY <1>36, GotoOK DEF Resume, TypeOK, Steps
    <2> QED BY <1>0, <1>a, <1>b, <1>36, <2>1 DEF Resume
  <1>37. CASE Break
    BY <1>0, <1>a, <1>37, ReturnOK, DisconnectedOK DEF Break, TypeOK, Outcomes
  <1> QED
    BY <1>1, <1>2, <1>3, <1>4, <1>5, <1>6, <1>7, <1>8, <1>9, <1>10, <1>11, <1>12,
       <1>13, <1>14, <1>15, <1>16, <1>17, <1>18, <1>19, <1>20, <1>21, <1>22, <1>23,
       <1>24, <1>25, <1>26, <1>27, <1>28, <1>29, <1>30, <1>31, <1>32, <1>33, <1>34,
       <1>35, <1>36, <1>37
    DEF ClientStep, User, Call, Progress, ConnectStep, NegotiateStep, CollectStep, Mishap

-----------------------------------------------------------------------------
(* The server.                                                             *)
LEMMA FirstFromOK ==
    ASSUME NEW r, ServerTypeOK, NEW st \in Stations
    PROVE  FirstFrom(r, st) \in Nat
  <1> DEFINE before == {k \in 1..Len(log[st]) : log[st][k] < r.seq}
  <1>1. Len(log[st]) \in Nat
    BY DEF ServerTypeOK
  <1>2. IsFiniteSet(1..Len(log[st]))
    BY <1>1, FS_Interval
  <1>3. IsFiniteSet(before)
    BY <1>2, FS_Subset
  <1>4. Cardinality(before) \in Nat
    BY <1>3, FS_CardinalityType
  <1> QED BY <1>1, <1>4 DEF FirstFrom

(* A subscription points every station at some packet.                     *)
LEMMA SubscribeOK ==
    ASSUME NEW i, NEW r, ServerTypeOK, Subscribe(i, r)
    PROVE  cursor' \in [Stations -> Nat]
  BY FirstFromOK DEF Subscribe, ServerTypeOK

(* The command being handled is a command.                                 *)
LEMMA HeadOK ==
    ASSUME WireTypeOK, c2s # <<>>
    PROVE  /\ Head(c2s) \in Command /\ Tail(c2s) \in Seq(Command)
           /\ Head(c2s).name \in CommandNames
           /\ Head(c2s).stream \in StreamIds \cup {0}
  <1>1. Head(c2s) \in Command /\ Tail(c2s) \in Seq(Command)
    BY HeadTailProperties DEF WireTypeOK
  <1> QED BY <1>1 DEF Command

(* An item joins the items under way.                                      *)
LEMMA AppendOK ==
    ASSUME WireTypeOK, NEW x \in Item
    PROVE  Append(s2c, x) \in Seq(Item)
  BY DEF WireTypeOK

(* Answering keeps what is under way well typed,                           *)
LEMMA AnswerOK ==
    ASSUME WireTypeOK, NEW c \in Command, NEW ok \in BOOLEAN, Answer(c, ok)
    PROVE  s2c' \in Seq(Item)
  <1>1. Line(c.name, ok) \in Item
    BY DEF Line, Item, Command
  <1> QED BY <1>1 DEF Answer, WireTypeOK

(* whether the command is obeyed or refused.                               *)
LEMMA ObeyOK ==
    ASSUME WireTypeOK, NEW c \in Command, Obey(c) \/ Refuse(c)
    PROVE  s2c' \in Seq(Item) /\ faults' \in 0..MaxFaults
  BY AnswerOK, FaultOK DEF Obey, Refuse, WireTypeOK

(* Every step of the server keeps server and connection well typed.        *)
LEMMA ServerStepOK ==
    ASSUME TypeOK, ServerNext
    PROVE  WireTypeOK' /\ ServerTypeOK'
  <1> USE DEF serverVars, wireVars
  <1>a. WireTypeOK /\ ServerTypeOK
    BY DEF TypeOK
  (* A command that is handled: what is left to show.                      *)
  <1>b. ASSUME NEW names, Handling(names),
               s2c' \in Seq(Item), faults' \in 0..MaxFaults,
               srv' \in ServerState, cursor' \in [Stations -> Nat]
        PROVE  WireTypeOK' /\ ServerTypeOK'
    <2>1. c2s' \in Seq(Command)
      BY <1>a, <1>b, HeadOK DEF Handling
    <2> QED BY <1>a, <1>b, <2>1 DEF Handling, WireTypeOK, ServerTypeOK
  <1>c. ASSUME NEW names, Handling(names)
        PROVE  /\ Head(c2s) \in Command /\ Head(c2s).name \in CommandNames
               /\ Head(c2s).stream \in StreamIds \cup {0}
    BY <1>a, <1>c, HeadOK DEF Handling
  <1>d. /\ faults \in 0..MaxFaults /\ s2c \in Seq(Item)
        /\ srv \in ServerState /\ cursor \in [Stations -> Nat]
    BY <1>a DEF WireTypeOK, ServerTypeOK
  <1>1. CASE ServeHello
    <2>1. Identity(peer.majors, peer.cap) \in Item
      BY <1>a, ServerAssumption DEF ServerTypeOK, Identity, Item, Peer
    <2>2. s2c' \in Seq(Item)
      BY <1>1, <1>d, <2>1 DEF ServeHello
    <2> QED BY <1>b, <1>d, <1>1, <2>2 DEF ServeHello
  <1>2. CASE ServeSetting
    <2>1. s2c' \in Seq(Item) /\ faults' \in 0..MaxFaults
      BY <1>a, <1>c, <1>2, ObeyOK DEF ServeSetting
    <2>2. srv' \in ServerState
      BY <1>d, <1>2 DEF ServeSetting, ServerState
    <2> QED BY <1>b, <1>d, <1>2, <2>1, <2>2 DEF ServeSetting
  <1>3. CASE ServeStation
    <2>1. s2c' \in Seq(Item) /\ faults' \in 0..MaxFaults
      BY <1>a, <1>c, <1>3, ObeyOK DEF ServeStation
    <2>2. srv' \in ServerState
      BY <1>c, <1>d, <1>3 DEF ServeStation, ServerState
    <2> QED BY <1>b, <1>d, <1>3, <2>1, <2>2 DEF ServeStation
  <1>4. CASE ServeSelect
    <2>1. s2c' \in Seq(Item) /\ faults' \in 0..MaxFaults
      BY <1>a, <1>c, <1>4, ObeyOK DEF ServeSelect
    <2> QED BY <1>b, <1>d, <1>4, <2>1 DEF ServeSelect
  <1>5. CASE ServeRequest
    <2>1. s2c' \in Seq(Item) /\ faults' \in 0..MaxFaults
      BY <1>a, <1>c, <1>d, <1>5, ObeyOK, AnswerOK DEF ServeRequest
    <2>2. srv' \in ServerState
      BY <1>d, <1>5 DEF ServeRequest, ServerState
    <2>3. cursor' \in [Stations -> Nat]
      BY <1>a, <1>d, <1>5, SubscribeOK DEF ServeRequest
    <2> QED BY <1>b, <1>5, <2>1, <2>2, <2>3 DEF ServeRequest
  <1>6. CASE ServeEnd
    <2>1. srv' \in ServerState
      BY <1>d, <1>6 DEF ServeEnd, ServerState
    <2> QED BY <1>b, <1>d, <1>6, <2>1 DEF ServeEnd
  <1>7. CASE ServeInfo
    <2>1. s2c' \in Seq(Item) /\ faults' \in 0..MaxFaults
      <3>1. CASE Refuse(Head(c2s))
        BY <1>a, <1>c, <1>7, <3>1, ObeyOK DEF ServeInfo
      <3>2. CASE ~Refuse(Head(c2s))
        <4>1. PICK n \in 1..(IF srv.proto = "V3" THEN MaxInfo ELSE 1) :
                 s2c' = s2c \o [j \in 1..n |-> InfoFrame(Head(c2s).name, j < n)]
          BY <1>7, <3>2 DEF ServeInfo
        <4>2. n \in Nat
          BY <4>1, ServerAssumption
        <4>3. \A j \in 1..n : InfoFrame(Head(c2s).name, j < n) \in Item
          BY <1>c, <1>7 DEF ServeInfo, InfoFrame, Item
        <4>4. [j \in 1..n |-> InfoFrame(Head(c2s).name, j < n)] \in Seq(Item)
          BY <4>2, <4>3
        <4>5. s2c' \in Seq(Item)
          BY <1>d, <4>1, <4>4, ConcatProperties
        <4> QED BY <1>d, <1>7, <3>2, <4>5 DEF ServeInfo
      <3> QED BY <3>1, <3>2
    <2> QED BY <1>b, <1>d, <1>7, <2>1 DEF ServeInfo
  <1>8. CASE ServeBye
    BY <1>a, <1>8, EmptyOK DEF ServeBye, WireTypeOK, ServerTypeOK
  <1>9. CASE ServeUntimely
    <2>1. Line("", FALSE) \in Item
      BY DEF Line, Item
    <2>2. Append(s2c, Line("", FALSE)) \in Seq(Item)
      BY <1>a, <2>1, AppendOK, Zenon
    <2>3. s2c' \in Seq(Item)
      BY <1>9, <2>2, Zenon DEF ServeUntimely
    <2> QED BY <1>b, <1>d, <1>9, <2>3 DEF ServeUntimely
  <1>10. CASE SendEnd
    <2>1. Mark("end") \in Item
      BY DEF Mark, Item
    <2>2. srv' \in ServerState
      BY <1>d, <1>10 DEF SendEnd, ServerState
    <2>3. cursor' \in [Stations -> Nat]
      BY <1>10 DEF SendEnd, Unasked
    <2> QED BY <1>a, <1>10, <2>1, <2>2, <2>3 DEF SendEnd, WireTypeOK, ServerTypeOK
  <1>11. CASE SendTrouble
    <2>1. {Line("", FALSE), Mark("jsonerror"), Mark("junk")} \subseteq Item
      BY DEF Line, Mark, Item
    <2>2. \A x \in {Line("", FALSE), Mark("jsonerror"), Mark("junk")} :
             Append(s2c, x) \in Seq(Item)
      BY <1>a, <2>1, AppendOK, Zenon
    <2>3. s2c' \in Seq(Item)
      BY <1>11, <2>2, Zenon DEF SendTrouble
    <2>4. faults' \in 0..MaxFaults
      BY <1>a, <1>11, FaultOK DEF SendTrouble
    <2> QED BY <1>a, <1>11, <2>3, <2>4 DEF SendTrouble, WireTypeOK, ServerTypeOK
  <1>12. ASSUME NEW st \in Stations, SendPacket(st)
         PROVE  WireTypeOK' /\ ServerTypeOK'
    <2>1. cursor[st] \in 1..Len(log[st])
      BY <1>12 DEF SendPacket, Waiting
    <2>2. log[st][cursor[st]] \in Nat
      BY <1>a, <2>1 DEF ServerTypeOK
    <2>3. DataFrame(st, cursor[st], log[st][cursor[st]]) \in Item
      BY <1>a, <2>2 DEF DataFrame, Item, ServerTypeOK
    <2>4. s2c' \in Seq(Item)
      BY <1>d, <1>12, <2>3 DEF SendPacket
    <2>5. cursor' \in [Stations -> Nat]
      BY <1>d, <1>12 DEF SendPacket
    <2> QED BY <1>a, <1>12, <2>4, <2>5 DEF SendPacket, WireTypeOK, ServerTypeOK
  <1>13. ASSUME NEW st \in Stations, Publish(st)
         PROVE  WireTypeOK' /\ ServerTypeOK'
    <2>1. log' \in [Stations -> Seq(Nat)] /\ newest' \in Nat
      BY <1>a, <1>13 DEF Publish, ServerTypeOK
    <2> QED BY <1>a, <1>13, <2>1 DEF Publish, WireTypeOK, ServerTypeOK
  <1> QED BY <1>1, <1>2, <1>3, <1>4, <1>5, <1>6, <1>7, <1>8, <1>9, <1>10, <1>11,
             <1>12, <1>13 DEF ServerNext, Serve

(* Client, server and network begin well typed.                            *)
LEMMA TypeInit == Init => TypeOK
  <1> SUFFICES ASSUME Init PROVE TypeOK
    OBVIOUS
  <1>1. WireTypeOK
    <2>1. 0 \in 0..MaxFaults
      BY WireAssumption
    <2> QED BY <2>1, EmptyOK, Zenon DEF Init, WireInit, WireTypeOK
  <1>2. ServerTypeOK
    <2>1. Fresh \in ServerState
      BY DEF Fresh, ServerState
    <2>2. Unasked \in [Stations -> Nat] /\ [st \in Stations |-> <<>>] \in [Stations -> Seq(Nat)]
      BY DEF Unasked
    <2> QED BY <2>1, <2>2 DEF Init, ServerInit, ServerTypeOK
  <1>3. ClientTypeOK
    <2>1. Hello \in Command
      BY GenericOK DEF Hello, CommandNames
    <2>2. [i \in StreamIds |-> NoPosition] \in [StreamIds -> Position]
      BY DEF NoPosition, Position
    <2>3. NewWalk \in Walk /\ [s |-> 1, k |-> 0] \in PlanPos
      BY DEF NewWalk, Walk, PlanPos
    <2>4. [st \in Stations |-> <<>>] \in [Stations -> Seq(Nat)]
      OBVIOUS
    <2>5. 0 \in 0..MaxCalls
      BY ClientAssumption
    <2>6. "none" \in Methods /\ "idle" \in Steps /\ "none" \in Outcomes
      BY DEF Methods, Steps, Outcomes
    <2> QED BY <2>1, <2>2, <2>3, <2>4, <2>5, <2>6 DEF Init, ClientInit, ClientTypeOK
  <1> QED BY <1>1, <1>2, <1>3 DEF TypeOK

(* Every step keeps them so.                                               *)
LEMMA TypeStep == TypeOK /\ [Next]_vars => TypeOK'
  <1> SUFFICES ASSUME TypeOK, [Next]_vars PROVE TypeOK'
    OBVIOUS
  <1> USE DEF TypeOK
  <1>1. CASE ConnectSocket /\ Accept
    <2>1. WireTypeOK' /\ ClientTypeOK'
      BY <1>1, ClientStepOK
    <2>2. ServerTypeOK'
      BY <1>1 DEF Accept, ServerTypeOK, Fresh, ServerState, Unasked
    <2> QED BY <2>1, <2>2
  <1>2. CASE (ClientStep \/ GoneQuiet \/ GoneLate) /\ UNCHANGED serverVars
    <2>1. WireTypeOK' /\ ClientTypeOK'
      BY <1>2, ClientStepOK
    <2>2. ServerTypeOK'
      BY <1>2 DEF serverVars, ServerTypeOK
    <2> QED BY <2>1, <2>2
  <1>3. CASE ServerNext /\ UNCHANGED clientVars
    <2>1. WireTypeOK' /\ ServerTypeOK'
      BY <1>3, ServerStepOK
    <2>2. ClientTypeOK'
      BY <1>3 DEF clientVars, ClientTypeOK
    <2> QED BY <2>1, <2>2
  <1>4. CASE Drop /\ UNCHANGED <<serverVars, clientVars>>
    <2>1. WireTypeOK'
      BY <1>4, DropOK
    <2> QED BY <1>4, <2>1 DEF serverVars, clientVars, ServerTypeOK, ClientTypeOK
  <1>5. CASE UNCHANGED vars
    BY <1>5 DEF vars, wireVars, serverVars, clientVars, WireTypeOK, ServerTypeOK,
                ClientTypeOK
  <1> QED BY <1>1, <1>2, <1>3, <1>4, <1>5 DEF Next, Terminated

(* Whatever the constants are, client, server and network keep to their    *)
(* types: every record sent is a command or an item the other side knows.  *)
THEOREM TypeCorrect == Spec => []TypeOK
  BY TypeInit, TypeStep, PTL DEF Spec

-----------------------------------------------------------------------------
(* Batch mode.  BatchAgrees is not inductive: that the reply to BATCH tells *)
(* the server's state depends on the handshake being in lockstep, one       *)
(* command or one reply under way, and on nobody else sending BATCH.        *)

Settings  == {"SLPROTO", "USERAGENT", "AUTH", "CAPABILITIES", "BATCH"}
Handshake == {"hello", "identity", "greet", "greeting"}
Before    == {"socket", "delay"} \cup Handshake

(* A call is running exactly while its method is at some step.             *)
CallInv == call = "none" <=> pc = "idle"

(* A cut loses the commands; close() forgets batch mode; a handshake runs   *)
(* over an open socket to a server that takes commands.                    *)
LinkInv == /\ ~up => c2s = <<>>
           /\ ~sock => ~batch_active
           /\ pc \in {"socket", "delay"} => ~sock
           /\ pc \in Handshake => sock /\ srv.phase = "command"

(* The command last sent is under way, is lost, or has its one reply.      *)
InFlight == \/ c2s = <<cmd>> /\ s2c = <<>>
            \/ c2s = <<>> /\ s2c = <<>>
            \/ c2s = <<>> /\ \E x \in Item : s2c = <<x>>

(* In the handshake nothing else is ever under way.                        *)
Lockstep == /\ pc \in {"hello", "greet"} => c2s = <<>> /\ s2c = <<>>
            /\ pc = "identity" => cmd = Hello /\ InFlight
            /\ pc = "greeting" => /\ cmd.name \in Settings /\ cmd.role = "generic"
                                  /\ InFlight

(* The reply to BATCH on its way back says what the server did with it.    *)
BatchReplyTells == c2s = <<>> /\ s2c # <<>> =>
    Head(s2c).kind = "line" /\ Head(s2c).ok = srv.batch

(* BATCH is the last command of the handshake, and nobody else sends it.   *)
BatchInv == /\ pc \in {"hello", "identity"} => ~srv.batch /\ ~batch_active
            /\ pc = "greet" => /\ batch_active = srv.batch
                               /\ cmd.name # "BATCH" => ~srv.batch
            /\ pc = "greeting" =>
                  /\ ~batch_active
                  /\ cmd.name # "BATCH" \/ c2s # <<>> => ~srv.batch
                  /\ cmd.name = "BATCH" => BatchReplyTells
            /\ pc # "greeting" => \A k \in 1..Len(c2s) : c2s[k].name # "BATCH"

Inv == CallInv /\ LinkInv /\ Lockstep /\ BatchInv /\ BatchAgrees

(* A step that closes the connection establishes the invariant.            *)
LEMMA CutKeepsInv ==
    ASSUME Disconnected, UNCHANGED srv, (call = "none" <=> pc = "idle")',
           pc' \notin Handshake
    PROVE  Inv'
  <1>1. c2s' = <<>> /\ up' = FALSE /\ sock' = FALSE /\ batch_active' = FALSE
    BY DEF Disconnected, Shut
  <1>2. Len(c2s') = 0
    BY <1>1
  <1> QED BY <1>1, <1>2
      DEF Inv, CallInv, LinkInv, Lockstep, BatchInv, BatchAgrees, Handshake

(* So does one outside the handshake that leaves the connection as it is,  *)
(* or sends something else than BATCH.                                     *)
LEMMA StayKeepsInv ==
    ASSUME TypeOK, Inv, UNCHANGED <<sock, batch_active, up, srv>>,
           pc \notin Before, pc' \notin Before, (call = "none" <=> pc = "idle")',
           \/ UNCHANGED c2s
           \/ \E c \in Command : c.name # "BATCH" /\ Send(c)
    PROVE  Inv'
  <1>1. /\ ~up => c2s' = <<>>
        /\ \A k \in 1..Len(c2s') : (c2s')[k].name # "BATCH"
    <2>1. \A k \in 1..Len(c2s) : c2s[k].name # "BATCH"
      BY DEF Inv, BatchInv, Before, Handshake
    <2>2. CASE UNCHANGED c2s
      BY <2>1, <2>2 DEF Inv, LinkInv
    <2>3. ASSUME NEW c \in Command, c.name # "BATCH", Send(c)
          PROVE  /\ ~up => c2s' = <<>>
                 /\ \A k \in 1..Len(c2s') : (c2s')[k].name # "BATCH"
      BY <2>1, <2>3 DEF Send, TypeOK, WireTypeOK, Inv, LinkInv
    <2> QED BY <2>2, <2>3
  <1>2. (sock /\ up => batch_active = srv.batch) /\ (~sock => ~batch_active)
    BY DEF Inv, LinkInv, BatchAgrees, Before, Handshake
  <1> QED BY <1>1, <1>2
      DEF Inv, CallInv, LinkInv, Lockstep, BatchInv, BatchAgrees, Before, Handshake

(* A reply taken in lockstep is the only thing that was under way.         *)
LEMMA TakeInFlight ==
    ASSUME InFlight, s2c # <<>>, Take
    PROVE  c2s = <<>> /\ c2s' = <<>> /\ s2c' = <<>>
  <1>1. c2s = <<>> /\ \E x \in Item : s2c = <<x>>
    BY DEF InFlight
  <1>2. PICK x \in Item : s2c = <<x>>
    BY <1>1
  <1>3. Tail(s2c) = <<>>
    BY <1>2
  <1> QED BY <1>1, <1>3 DEF Take

(* An exception in connect() closes the connection.                        *)
LEMMA ConnectRaisesInv ==
    ASSUME NEW how, ConnectRaises(how), UNCHANGED srv
    PROVE  Inv'
  <1>1. /\ (call = "none" <=> pc = "idle")'
        /\ pc' \notin Handshake
    BY DEF ConnectRaises, Goto, Return, Handshake
  <1> QED BY <1>1, CutKeepsInv DEF ConnectRaises

(* One in negotiate() comes after the handshake.                           *)
LEMMA NegotiateRaisesInv ==
    ASSUME TypeOK, Inv, pc \notin Before,
           NEW open, NEW rest, NegotiateRaises(open, rest), UNCHANGED srv
    PROVE  Inv'
  <1>1. /\ (call = "none" <=> pc = "idle")'
        /\ pc' \in {"idle", "delay"}
        /\ pc' = "delay" => Disconnected
    BY DEF NegotiateRaises, Goto, Return
  <1>2. CASE Disconnected
    BY <1>1, <1>2, CutKeepsInv DEF Handshake
  <1>3. CASE ~Disconnected
    <2>1. UNCHANGED <<sock, batch_active, up, c2s>>
      BY <1>3 DEF NegotiateRaises, linkVars
    <2> QED BY <1>1, <1>3, <2>1, StayKeepsInv DEF Before, Handshake
  <1> QED BY <1>2, <1>3

(* One in the loop of collect() closes it.                                 *)
LEMMA LoopRaisesInv ==
    ASSUME Inv, pc = "loop", LoopRaises, UNCHANGED srv
    PROVE  Inv'
  <1>1. /\ (call = "none" <=> pc = "idle")'
        /\ pc' \notin Handshake
    BY DEF LoopRaises, Goto, Return, Handshake, Inv, CallInv
  <1> QED BY <1>1, CutKeepsInv DEF LoopRaises

(* A failed read closes the connection, whichever method it strikes.       *)
LEMMA ReadFailsInv ==
    ASSUME TypeOK, Inv, ReadFails, UNCHANGED srv
    PROVE  Inv'
  <1>1. CASE pc \in {"identity", "greeting"} /\ ConnectRaises("error")
    BY <1>1, ConnectRaisesInv
  <1>2. CASE pc = "reply" /\ NegotiateRaises(FALSE, <<>>)
    BY <1>2, NegotiateRaisesInv DEF Before, Handshake
  <1>3. CASE pc = "frames" /\ Disconnected /\ Return("error")
    BY <1>3, CutKeepsInv DEF Return, Handshake
  <1>4. CASE pc = "loop" /\ LoopRaises
    BY <1>4, LoopRaisesInv
  <1> QED BY <1>1, <1>2, <1>3, <1>4 DEF ReadFails

(* The client's steps inside the handshake ...                             *)
LEMMA HandshakeKeepsInv ==
    ASSUME TypeOK, Inv, UNCHANGED srv,
           SendHello \/ ReadIdentity \/ SendGreeting \/ ReadGreeting \/ Connected
    PROVE  Inv'
  <1> USE DEF linkVars, planVars, identVars, dataVars, wireVars
  <1>a. srv.batch \in BOOLEAN /\ batch_active \in BOOLEAN
    BY DEF TypeOK, ServerTypeOK, ClientTypeOK, ServerState
  <1>1. CASE SendHello
    <2>1. /\ pc = "hello" /\ pc' = "identity" /\ cmd' = Hello
          /\ UNCHANGED <<sock, batch_active, up, s2c, call>>
          /\ c2s' = IF up THEN <<Hello>> ELSE <<>>
      BY <1>1 DEF SendHello, Send, Goto, Inv, Lockstep
    <2>2. Hello.name # "BATCH" /\ Hello \in Command
      BY GenericOK DEF Hello, Generic, CommandNames
    <2> QED BY <2>1, <2>2
        DEF Inv, CallInv, LinkInv, Lockstep, InFlight, BatchInv, BatchAgrees, Handshake
  <1>2. CASE ReadIdentity
    <2>1. CASE ConnectRaises("error")
      BY <2>1, ConnectRaisesInv
    <2>2. CASE Disconnected /\ Return("ok")
      BY <2>2, CutKeepsInv DEF Return, Handshake
    <2>3. CASE Take /\ Goto("greet") /\ UNCHANGED linkVars
      <3>1. pc = "identity" /\ s2c # <<>>
        BY <1>2 DEF ReadIdentity
      <3>2. c2s = <<>> /\ c2s' = <<>> /\ s2c' = <<>>
        BY <2>3, <3>1, TakeInFlight DEF Inv, Lockstep
      <3>3. /\ pc' = "greet" /\ cmd' = cmd
            /\ UNCHANGED <<sock, batch_active, up, call>>
        BY <1>2, <2>3 DEF ReadIdentity, Take, Goto
      <3>4. Len(c2s') = 0
        BY <3>2
      <3> QED BY <1>a, <3>1, <3>2, <3>3, <3>4
          DEF Inv, CallInv, LinkInv, Lockstep, BatchInv, BatchAgrees, Handshake
    <2> QED BY <1>2, <2>1, <2>2, <2>3 DEF ReadIdentity
  <1>3. CASE SendGreeting
    <2>1. /\ NextGreeting.name \in Settings /\ NextGreeting.role = "generic"
          /\ NextGreeting.name = "BATCH" => cmd.name # "BATCH"
      BY <1>3 DEF SendGreeting, NextGreeting, HandshakeAfter, AfterV3, AfterV4,
                  Generic, Settings
    <2>2. /\ pc = "greet" /\ pc' = "greeting" /\ cmd' = NextGreeting
          /\ UNCHANGED <<sock, batch_active, up, s2c, call>>
          /\ c2s' = IF up THEN <<NextGreeting>> ELSE <<>>
      BY <1>3 DEF SendGreeting, Send, Goto, Inv, Lockstep
    <2>3. cmd.name # "BATCH"
      BY <1>3, <2>1 DEF SendGreeting, NextGreeting, HandshakeAfter, AfterV3, AfterV4
    <2> QED BY <2>1, <2>2, <2>3
        DEF Inv, CallInv, LinkInv, Lockstep, InFlight, BatchInv, BatchReplyTells,
            BatchAgrees, Handshake
  <1>4. CASE ReadGreeting
    <2>1. CASE ConnectRaises("auth") \/ ConnectRaises("error")
      BY <2>1, ConnectRaisesInv
    <2>2. CASE /\ Take /\ Goto("greet") /\ batch_active' = BatchReply(Accepted(Head(s2c)))
               /\ UNCHANGED <<sock, streaming>>
      <3>1. pc = "greeting" /\ s2c # <<>>
        BY <1>4 DEF ReadGreeting
      <3>2. c2s = <<>> /\ c2s' = <<>> /\ s2c' = <<>>
        BY <2>2, <3>1, TakeInFlight DEF Inv, Lockstep
      <3>3. pc' = "greet" /\ cmd' = cmd /\ UNCHANGED <<sock, up, call>>
        BY <1>4, <2>2 DEF ReadGreeting, Take, Goto
      <3>4. batch_active' = srv.batch /\ (cmd.name # "BATCH" => ~srv.batch)
        BY <1>a, <2>2, <3>1, <3>2
        DEF Inv, BatchInv, BatchReplyTells, BatchReply, Accepted
      <3>5. Len(c2s') = 0
        BY <3>2
      <3> QED BY <3>1, <3>2, <3>3, <3>4, <3>5
          DEF Inv, CallInv, LinkInv, Lockstep, BatchInv, BatchAgrees, Handshake
    <2> QED BY <1>4, <2>1, <2>2 DEF ReadGreeting
  <1>5. CASE Connected
    <2>1. /\ pc = "greet" /\ pc' \in {"idle", "plan"}
          /\ (call = "none" <=> pc = "idle")'
          /\ UNCHANGED <<sock, batch_active, up, c2s, s2c>>
      BY <1>5 DEF Connected, Return, Goto, Inv, CallInv
    <2>2. Len(c2s') = 0
      BY <2>1 DEF Inv, Lockstep
    <2> QED BY <2>1, <2>2
        DEF Inv, CallInv, LinkInv, Lockstep, BatchInv, BatchAgrees, Handshake
  <1> QED BY <1>1, <1>2, <1>3, <1>4, <1>5

(* ... and outside it.                                                     *)
LEMMA ClientKeepsInv ==
    ASSUME TypeOK, Inv, UNCHANGED srv, ClientStep \/ GoneQuiet \/ GoneLate
    PROVE  Inv'
  <1> USE DEF linkVars, ctlVars, planVars, identVars, dataVars, wireVars
  <1>a. ASSUME UNCHANGED <<sock, batch_active, up, c2s>>, pc \notin Before,
               pc' \notin Before, (call = "none" <=> pc = "idle")'
        PROVE  Inv'
    BY <1>a, StayKeepsInv
  <1>b. call = "none" <=> pc = "idle"
    BY DEF Inv, CallInv
  <1>1. CASE CallConnect
    <2>1. /\ ~sock /\ pc = "idle" /\ pc' = "socket" /\ call' # "none"
          /\ UNCHANGED <<sock, batch_active, up, c2s, s2c>>
      BY <1>1, <1>b DEF CallConnect, Enter
    <2> QED BY <2>1
        DEF Inv, CallInv, LinkInv, Lockstep, BatchInv, BatchAgrees, Handshake
  <1>2. CASE CallReconnect
    BY <1>2, CutKeepsInv DEF CallReconnect, Enter, Handshake
  <1>3. CASE CallNegotiate \/ CallInfo \/ CallCollect
    BY <1>3, <1>a, <1>b
    DEF CallNegotiate, CallInfo, CallCollect, Enter, Before, Handshake
  <1>4. CASE Close
    <2>1. pc' \in {"idle", "yield"} /\ (call = "none" <=> pc = "idle")'
      BY <1>4, <1>b DEF Close
    <2> QED BY <1>4, <2>1, CutKeepsInv DEF Close, Handshake
  <1>5. CASE Bye
    <2>1. /\ pc \in {"idle", "yield"} /\ pc' = pc
          /\ (call = "none" <=> pc = "idle")'
      BY <1>5, <1>b DEF Bye
    <2>2. Generic("BYE", "none") \in Command /\ Generic("BYE", "none").name # "BATCH"
      BY GenericOK DEF Generic, CommandNames
    <2>3. CASE Send(Generic("BYE", "none")) /\ UNCHANGED linkVars
      BY <1>5, <2>1, <2>2, <2>3, StayKeepsInv DEF Send, Before, Handshake
    <2>4. CASE Disconnected
      BY <2>1, <2>4, CutKeepsInv DEF Handshake
    <2> QED BY <1>5, <2>3, <2>4 DEF Bye
  <1>6. CASE ConnectRefused
    BY <1>6, ConnectRaisesInv DEF ConnectRefused
  <1>7. CASE SendHello \/ ReadIdentity \/ SendGreeting \/ ReadGreeting \/ Connected
    BY <1>7, HandshakeKeepsInv
  <1>8. CASE StartPlan \/ SkipCommand \/ Resume
    BY <1>8, <1>a, <1>b DEF StartPlan, SkipCommand, Resume, Goto, Before, Handshake
  <1>9. CASE SendCommand
    <2>1. Current \in Command
      BY CmdAtOK, ClientAssumption DEF Current, TypeOK, ClientTypeOK
    <2>2. Current.name # "BATCH"
      BY DEF Current, CmdAt, EndCommand, DataCommand, DataV3Name, ForStream
    <2>3. /\ pc = "walk" /\ pc' \in {"walk", "reply"} /\ call' = call
          /\ Send(Current) /\ UNCHANGED <<sock, batch_active, up>>
      BY <1>9 DEF SendCommand, Goto, Send
    <2> QED BY <1>b, <2>1, <2>2, <2>3, StayKeepsInv DEF Before, Handshake
  <1>10. CASE ReadReply
    <2>1. pc = "reply"
      BY <1>10 DEF ReadReply
    <2>2. CASE NegotiateRaises(TRUE, Tail(s2c))
      BY <2>1, <2>2, NegotiateRaisesInv DEF Before, Handshake
    <2>3. CASE Take /\ Goto("walk") /\ UNCHANGED linkVars
      BY <1>a, <1>b, <2>1, <2>3 DEF Take, Goto, Before, Handshake
    <2> QED BY <1>10, <2>2, <2>3 DEF ReadReply
  <1>11. CASE FinishWalk
    <2>1. pc = "walk"
      BY <1>11 DEF FinishWalk
    <2>2. CASE NegotiateRaises(TRUE, s2c)
      BY <2>1, <2>2, NegotiateRaisesInv DEF Before, Handshake
    <2>3. CASE ~NegotiateRaises(TRUE, s2c)
      BY <1>a, <1>11, <2>1, <2>3 DEF FinishWalk, Return, Before, Handshake
    <2> QED BY <2>2, <2>3
  <1>12. CASE SendFails
    <2>1. CASE ConnectRaises("error")
      BY <2>1, ConnectRaisesInv
    <2>2. CASE pc = "walk" /\ NegotiateRaises(FALSE, <<>>)
      BY <2>2, NegotiateRaisesInv DEF Before, Handshake
    <2>3. CASE Disconnected /\ Return("error")
      BY <2>3, CutKeepsInv DEF Return, Handshake
    <2> QED BY <1>12, <2>1, <2>2, <2>3 DEF SendFails
  <1>13. CASE ReadGarbled \/ ReadEof \/ ReadStalls
    BY <1>13, ReadFailsInv DEF ReadGarbled, ReadEof, ReadStalls
  <1>14. CASE ReadTimesOut
    <2>1. CASE ConnectRaises("error")
      BY <2>1, ConnectRaisesInv
    <2>2. CASE pc = "reply" /\ NegotiateRaises(TRUE, s2c)
      BY <2>2, NegotiateRaisesInv DEF Before, Handshake
    <2>3. CASE pc = "frames" /\ Return("error") /\ UNCHANGED <<linkVars, up, c2s, s2c>>
      BY <1>a, <2>3 DEF Return, Before, Handshake
    <2> QED BY <1>14, <2>1, <2>2, <2>3 DEF ReadTimesOut
  <1>15. CASE SendInfo
    <2>1. Generic("INFO", "none") \in Command /\ Generic("INFO", "none").name # "BATCH"
      BY GenericOK DEF Generic, CommandNames
    <2>2. /\ pc = "ask" /\ pc' = "frames" /\ call' = call
          /\ Send(Generic("INFO", "none")) /\ UNCHANGED <<sock, batch_active, up>>
      BY <1>15 DEF SendInfo, Goto, Send
    <2> QED BY <1>b, <2>1, <2>2, StayKeepsInv DEF Before, Handshake
  <1>16. CASE ReadInfo
    BY <1>16, <1>a, <1>b DEF ReadInfo, Take, Goto, Return, Before, Handshake
  <1>17. CASE Delay
    <2>1. /\ pc = "delay" /\ pc' = "socket" /\ call' = call
          /\ UNCHANGED <<sock, batch_active, up, c2s, s2c>>
      BY <1>17 DEF Delay, Goto
    <2> QED BY <1>b, <2>1
        DEF Inv, CallInv, LinkInv, Lockstep, BatchInv, BatchAgrees, Handshake
  <1>18. CASE LoopDisconnected
    <2>1. /\ ~sock /\ pc = "loop" /\ pc' \in {"delay", "idle"}
          /\ (call = "none" <=> pc = "idle")'
          /\ UNCHANGED <<sock, batch_active, up, c2s, s2c>>
      BY <1>18, <1>b DEF LoopDisconnected, Goto, Return
    <2> QED BY <2>1
        DEF Inv, CallInv, LinkInv, Lockstep, BatchInv, BatchAgrees, Handshake
  <1>19. CASE GoneQuiet \/ GoneLate \/ RecvTrouble
    BY <1>19, LoopRaisesInv DEF GoneQuiet, GoneLate, IdleTimeout, RecvTrouble
  <1>20. CASE PollNothing \/ RecvInfo
    BY <1>20, <1>a, <1>b DEF PollNothing, RecvInfo, Take, clientVars, Before, Handshake
  <1>21. CASE Keepalive
    <2>1. pc = "loop" /\ pc' = "loop" /\ call' = call
      BY <1>21 DEF Keepalive
    <2>2. /\ Generic("KEEPALIVE", "none") \in Command
          /\ Generic("KEEPALIVE", "none").name # "BATCH"
      BY GenericOK DEF Generic, CommandNames
    <2>3. CASE Send(Generic("KEEPALIVE", "none")) /\ UNCHANGED linkVars
      BY <1>b, <2>1, <2>2, <2>3, StayKeepsInv DEF Send, Before, Handshake
    <2>4. CASE Disconnected
      BY <1>b, <2>1, <2>4, CutKeepsInv DEF Handshake
    <2> QED BY <1>21, <2>3, <2>4 DEF Keepalive
  <1>22. CASE RecvData \/ RecvEnd
    BY <1>22, <1>a, <1>b DEF RecvData, RecvEnd, Take, Goto, Return, Before, Handshake
  <1>23. CASE Break
    BY <1>23, CutKeepsInv DEF Break, Return, Handshake
  <1> QED
    BY <1>1, <1>2, <1>3, <1>4, <1>5, <1>6, <1>7, <1>8, <1>9, <1>10, <1>11, <1>12,
       <1>13, <1>14, <1>15, <1>16, <1>17, <1>18, <1>19, <1>20, <1>21, <1>22, <1>23
    DEF ClientStep, User, Call, Progress, ConnectStep, NegotiateStep, CollectStep, Mishap

(* Opening a connection: both ends begin outside batch mode.               *)
LEMMA OpenKeepsInv ==
    ASSUME TypeOK, Inv, ConnectSocket, Accept
    PROVE  Inv'
  <1>1. /\ pc = "socket" /\ pc' = "hello" /\ call' = call /\ sock' = TRUE
        /\ batch_active' = batch_active /\ up' = TRUE /\ c2s' = <<>> /\ s2c' = <<>>
        /\ srv' = Fresh
    BY DEF ConnectSocket, Accept, Open, Goto
  <1>2. srv'.batch = FALSE /\ srv'.phase = "command" /\ batch_active \in BOOLEAN
    BY <1>1 DEF Fresh, TypeOK, ClientTypeOK
  <1>3. Len(c2s') = 0
    BY <1>1
  <1>4. call # "none" /\ ~batch_active /\ ~batch_active'
    BY <1>1 DEF Inv, CallInv, LinkInv
  <1>5. CallInv' /\ LinkInv' /\ Lockstep'
    BY <1>1, <1>2, <1>4 DEF CallInv, LinkInv, Lockstep, Handshake
  <1>6. BatchInv'
    <2>1. \A k \in 1..Len(c2s') : (c2s')[k].name # "BATCH"
      BY <1>3
    <2> QED BY <1>1, <1>2, <1>4, <2>1 DEF BatchInv
  <1>7. BatchAgrees'
    BY <1>1, <1>2, <1>4, Zenon DEF BatchAgrees
  <1> QED BY <1>5, <1>6, <1>7 DEF Inv

(* The server.  In the handshake it has one command to answer, and that is *)
(* no command that starts a transfer; outside it, no BATCH.                *)
LEMMA HandleKeepsInv ==
    ASSUME TypeOK, Inv, UNCHANGED clientVars, NEW names, Handling(names),
           pc \notin Handshake, srv'.batch = srv.batch
    PROVE  Inv'
  <1>1. /\ c2s # <<>> /\ c2s' = Tail(c2s) /\ up' = up
        /\ c2s \in Seq(Command)
    BY DEF Handling, TypeOK, WireTypeOK
  <1>2. \A k \in 1..Len(c2s') : (c2s')[k].name # "BATCH"
    <2>1. \A k \in 1..Len(c2s) : c2s[k].name # "BATCH"
      BY DEF Inv, BatchInv, Handshake
    <2> QED BY <1>1, <2>1, HeadTailProperties
  <1>3. up
    BY DEF Handling
  <1> QED BY <1>1, <1>2, <1>3
      DEF Inv, CallInv, LinkInv, Lockstep, BatchInv, BatchAgrees, Handshake, clientVars

(* The sequences of one element.                                           *)
LEMMA OneOK ==
    ASSUME NEW x
    PROVE  /\ Head(<<x>>) = x /\ Tail(<<x>>) = <<>> /\ Append(<<>>, x) = <<x>>
           /\ Len(<<x>>) = 1
  OBVIOUS

(* What is the head of the queue, by the state of the client.              *)
LEMMA HeadInv ==
    ASSUME TypeOK, Inv, up, c2s # <<>>
    PROVE  /\ pc \notin Handshake => Head(c2s).name # "BATCH"
           /\ pc \in Handshake =>
                /\ pc \in {"identity", "greeting"}
                /\ c2s = <<cmd>> /\ s2c = <<>> /\ Head(c2s) = cmd /\ Tail(c2s) = <<>>
                /\ cmd.name \in Settings \cup {"HELLO"} /\ cmd.role = "generic"
                /\ pc = "greeting" => cmd.name # "HELLO"
                /\ pc = "identity" => cmd.name = "HELLO"
                /\ ~srv.batch
  <1>1. ASSUME pc \notin Handshake
        PROVE  Head(c2s).name # "BATCH"
    <2>1. Len(c2s) \in Nat \ {0} /\ Head(c2s) = c2s[1]
      BY DEF TypeOK, WireTypeOK
    <2> QED BY <1>1, <2>1 DEF Inv, BatchInv, Handshake
  <1>2. ASSUME pc \in Handshake
        PROVE  pc \in {"identity", "greeting"} /\ c2s = <<cmd>> /\ s2c = <<>>
    BY <1>2 DEF Inv, Lockstep, InFlight, Handshake
  <1>3. Hello.name = "HELLO" /\ Hello.role = "generic"
    BY DEF Hello, Generic
  <1>4. ASSUME pc \in Handshake
        PROVE  Head(c2s) = cmd /\ Tail(c2s) = <<>>
    BY <1>2, <1>4, OneOK, Zenon
  <1>5. ASSUME pc \in Handshake
        PROVE  ~srv.batch
    BY <1>2, <1>5 DEF Inv, BatchInv
  <1> QED BY <1>1, <1>2, <1>3, <1>4, <1>5 DEF Inv, Lockstep, Settings

(* Every step of the server keeps client and server in agreement.          *)
LEMMA ServerKeepsInv ==
    ASSUME TypeOK, Inv, UNCHANGED clientVars, ServerNext
    PROVE  Inv'
  <1> USE DEF serverVars, wireVars
  <1>a. srv \in ServerState /\ srv.batch \in BOOLEAN /\ batch_active \in BOOLEAN
    BY DEF TypeOK, ServerTypeOK, ClientTypeOK, ServerState
  <1>b. ASSUME UNCHANGED <<up, c2s>>, srv'.batch = srv.batch, pc \notin Handshake
        PROVE  Inv'
    BY <1>b DEF Inv, CallInv, LinkInv, Lockstep, BatchInv, BatchAgrees, Handshake,
                clientVars
  <1>c. ASSUME srv.phase = "stream"
        PROVE  pc \notin Handshake
    BY <1>c DEF Inv, LinkInv
  <1>1. CASE ServeHello
    <2>1. CASE pc \in Handshake
      <3>1. /\ pc = "identity" /\ s2c' = <<Identity(peer.majors, peer.cap)>>
            /\ c2s' = <<>> /\ UNCHANGED <<up, srv>>
        BY <1>1, <2>1, HeadInv DEF ServeHello, Handling, Settings
      <3>2. Identity(peer.majors, peer.cap) \in Item
        BY ServerAssumption DEF TypeOK, ServerTypeOK, Identity, Item, Peer
      <3>3. InFlight' /\ Len(c2s') = 0
        BY <3>1, <3>2 DEF InFlight
      <3> QED BY <3>1, <3>3
          DEF Inv, CallInv, LinkInv, Lockstep, BatchInv, BatchAgrees, Handshake,
              clientVars
    <2>2. CASE pc \notin Handshake
      BY <1>1, <2>2, HandleKeepsInv DEF ServeHello
    <2> QED BY <2>1, <2>2
  <1>2. CASE ServeSetting
    <2>1. CASE pc \in Handshake
      <3>1. /\ pc = "greeting" /\ c2s = <<cmd>> /\ Head(c2s) = cmd /\ s2c = <<>>
            /\ ~srv.batch /\ cmd.role = "generic" /\ c2s' = <<>> /\ up' = up
        BY <1>2, <2>1, HeadInv DEF ServeSetting, Handling
      <3>2. PICK ok \in BOOLEAN :
               /\ s2c' = Append(s2c, Line(cmd.name, ok))
               /\ srv'.phase = srv.phase
               /\ srv'.batch = IF ok /\ cmd.name = "BATCH" THEN TRUE ELSE srv.batch
        BY <1>a, <1>2, <3>1
        DEF ServeSetting, Obey, Refuse, Answer, Quiet, ServerState
      <3>3. s2c' = <<Line(cmd.name, ok)>>
        BY <3>1, <3>2, OneOK, Zenon
      <3>a. cmd.name \in CommandNames
        BY DEF TypeOK, ClientTypeOK, Command
      <3>b. Line(cmd.name, ok) \in Item
        BY <3>a DEF Line, Item
      <3>4. InFlight' /\ Len(c2s') = 0
        BY <3>1, <3>3, <3>b DEF InFlight
      <3>5. cmd.name = "BATCH" =>
               (Head(s2c)).kind' = "line" /\ (Head(s2c).ok)' = srv'.batch
        <4>1. Head(s2c') = Line(cmd.name, ok)
          BY <3>3, OneOK, Zenon
        <4>2. Line(cmd.name, ok).kind = "line" /\ Line(cmd.name, ok).ok = ok
          BY DEF Line
        <4>3. cmd.name = "BATCH" => srv'.batch = ok
          BY <1>a, <3>1, <3>2
        <4> QED BY <4>1, <4>2, <4>3
      <3> QED BY <3>1, <3>2, <3>4, <3>5
          DEF Inv, CallInv, LinkInv, Lockstep, BatchInv, BatchReplyTells, BatchAgrees,
              Handshake, clientVars
    <2>2. CASE pc \notin Handshake
      <3>1. srv'.batch = srv.batch
        BY <1>a, <1>2, <2>2, HeadInv DEF ServeSetting, Handling, ServerState
      <3> QED BY <1>2, <2>2, <3>1, HandleKeepsInv DEF ServeSetting
    <2> QED BY <2>1, <2>2
  <1>3. CASE ServeStation \/ ServeSelect \/ ServeRequest \/ ServeEnd \/ ServeInfo
    <2>1. \/ Handling({"STATION"}) \/ Handling({"SELECT"})
          \/ Handling({"DATA", "FETCH", "TIME"}) \/ Handling({"END", "ENDFETCH"})
          \/ Handling({"INFO", "KEEPALIVE"})
      BY <1>3 DEF ServeStation, ServeSelect, ServeRequest, ServeEnd, ServeInfo
    <2>2. pc \notin Handshake
      <3>1. up /\ c2s # <<>> /\ Head(c2s).name \notin Settings \cup {"HELLO"}
        BY <2>1 DEF Handling, Settings
      <3> QED BY <3>1, HeadInv
    <2>3. srv'.batch = srv.batch
      BY <1>a, <1>3
      DEF ServeStation, ServeSelect, ServeRequest, ServeEnd, ServeInfo, ServerState
    <2> QED BY <2>1, <2>2, <2>3, HandleKeepsInv, Zenon
  <1>4. CASE ServeBye
    <2>1. pc \notin Handshake
      BY <1>4, HeadInv DEF ServeBye, Settings
    <2>2. up' = FALSE /\ c2s' = <<>> /\ srv' = srv
      BY <1>4 DEF ServeBye
    <2>3. Len(c2s') = 0
      BY <2>2
    <2> QED BY <2>1, <2>2, <2>3
        DEF Inv, CallInv, LinkInv, Lockstep, BatchInv, BatchAgrees, Handshake, clientVars
  <1>5. CASE ServeUntimely
    BY <1>5, <1>c, HandleKeepsInv DEF ServeUntimely
  <1>6. CASE SendEnd
    BY <1>a, <1>6, <1>b, <1>c DEF SendEnd, ServerState
  <1>7. CASE SendTrouble
    BY <1>7, <1>b, <1>c DEF SendTrouble
  <1>8. ASSUME NEW st \in Stations, SendPacket(st)
        PROVE  Inv'
    BY <1>8, <1>b, <1>c DEF SendPacket
  <1>9. ASSUME NEW st \in Stations, Publish(st)
        PROVE  Inv'
    BY <1>9 DEF Publish, Inv, CallInv, LinkInv, Lockstep, InFlight, BatchInv,
                BatchReplyTells, BatchAgrees, clientVars
  <1> QED BY <1>1, <1>2, <1>3, <1>4, <1>5, <1>6, <1>7, <1>8, <1>9
      DEF ServerNext, Serve

(* A cut leaves no more replies than there were.                           *)
LEMMA DropKeepsInv ==
    ASSUME TypeOK, Inv, Drop, UNCHANGED <<serverVars, clientVars>>
    PROVE  Inv'
  <1>1. PICK n \in 0..Len(s2c) : s2c' = SubSeq(s2c, 1, n)
    BY DEF Drop
  <1>2. up' = FALSE /\ c2s' = <<>> /\ Len(c2s') = 0
    BY DEF Drop
  <1>3. CASE s2c = <<>>
    <2>1. s2c' = <<>>
      BY <1>1, <1>3
    <2> QED BY <1>2, <1>3, <2>1
        DEF Inv, CallInv, LinkInv, Lockstep, InFlight, BatchInv, BatchReplyTells,
            BatchAgrees, serverVars, clientVars
  <1>4. ASSUME NEW x \in Item, s2c = <<x>>
        PROVE  s2c' = <<>> \/ s2c' = s2c
    <2>1. s2c \in Seq(Item) /\ Len(s2c) = 1
      BY <1>4, OneOK DEF TypeOK, WireTypeOK
    <2>2. CASE n = 0
      BY <1>1, <2>2, SubSeqEmpty
    <2>3. CASE n = 1
      BY <1>1, <2>1, <2>3, SubSeqFull
    <2> QED BY <1>1, <2>1, <2>2, <2>3
  <1>5. CASE s2c # <<>>
    <2>1. pc \in Handshake => s2c' = <<>> \/ s2c' = s2c
      BY <1>4, <1>5 DEF Inv, Lockstep, InFlight, Handshake
    <2>2. pc \in Handshake => c2s = <<>>
      BY <1>5 DEF Inv, Lockstep, InFlight, Handshake
    <2> QED BY <1>2, <2>1, <2>2
        DEF Inv, CallInv, LinkInv, Lockstep, InFlight, BatchInv, BatchReplyTells,
            BatchAgrees, Handshake, serverVars, clientVars
  <1> QED BY <1>3, <1>5

(* Nothing is connected at first.                                          *)
LEMMA InvInit == Init => Inv
  <1> SUFFICES ASSUME Init PROVE Inv
    OBVIOUS
  <1>1. /\ up = FALSE /\ c2s = <<>> /\ sock = FALSE /\ batch_active = FALSE
        /\ call = "none" /\ pc = "idle"
    BY DEF Init, WireInit, ClientInit
  <1>2. Len(c2s) = 0
    BY <1>1
  <1> QED BY <1>1, <1>2
      DEF Inv, CallInv, LinkInv, Lockstep, BatchInv, BatchAgrees, Handshake

(* Every step of client, server or network keeps the invariant.            *)
LEMMA InvStep == TypeOK /\ Inv /\ [Next]_vars => Inv'
  <1> SUFFICES ASSUME TypeOK, Inv, [Next]_vars PROVE Inv'
    OBVIOUS
  <1>1. CASE ConnectSocket /\ Accept
    BY <1>1, OpenKeepsInv
  <1>2. CASE (ClientStep \/ GoneQuiet \/ GoneLate) /\ UNCHANGED serverVars
    BY <1>2, ClientKeepsInv DEF serverVars
  <1>3. CASE ServerNext /\ UNCHANGED clientVars
    BY <1>3, ServerKeepsInv
  <1>4. CASE Drop /\ UNCHANGED <<serverVars, clientVars>>
    BY <1>4, DropKeepsInv
  <1>5. CASE UNCHANGED vars
    BY <1>5 DEF vars, wireVars, serverVars, clientVars, Inv, CallInv, LinkInv, Lockstep,
                InFlight, BatchInv, BatchReplyTells, BatchAgrees
  <1> QED BY <1>1, <1>2, <1>3, <1>4, <1>5 DEF Next, Terminated

(* Whatever servers, streams, calls and faults there are: outside the      *)
(* exchange of BATCH itself, _batch_active says what the server of the open *)
(* connection does.                                                        *)
THEOREM BatchModeAgrees == Spec => []BatchAgrees
  <1>1. Inv => BatchAgrees
    BY DEF Inv
  <1> QED BY <1>1, TypeInit, TypeStep, InvInit, InvStep, PTL DEF Spec

-----------------------------------------------------------------------------
(* Where a call ends.                                                      *)

(* info() alone waits for frames, and negotiate() runs over a socket.  A   *)
(* collect() that is not to reconnect stays in its loop, and is without a  *)
(* socket there only if the user closed the client or a keepalive could    *)
(* not be sent.                                                            *)
LeaveInv ==
    /\ pc \in {"ask", "frames"} => call = "info"
    /\ pc \in {"plan", "walk", "reply", "hello", "identity", "greet", "greeting"} => sock
    /\ call = "collect" /\ ~conf.reconnect => pc \in {"loop", "yield"}
    /\ call = "collect" /\ ~conf.reconnect /\ ~sock => outcome = "closed" \/ conf.keepalive

(* What EndsAsDocumented says of a step.                                   *)
EndsWell ==
    call = "collect" /\ call' = "none" =>
        IF conf.reconnect THEN outcome' \in {"end", "break", "auth"}
        ELSE outcome' = "silent" => outcome = "closed" \/ conf.keepalive

(* Every step of the client keeps it so, and ends a call as documented.    *)
LEMMA ClientLeaves ==
    ASSUME TypeOK, Inv, LeaveInv, ConnectSocket \/ ClientStep \/ GoneQuiet \/ GoneLate
    PROVE  LeaveInv' /\ EndsWell
  <1> USE DEF LeaveInv, EndsWell
  <1>1. UNCHANGED conf
    BY DEF ConnectSocket, ClientStep, User, Call, CallConnect, CallReconnect, CallNegotiate,
       CallInfo, CallCollect, Close, Bye, Break, Progress, ConnectStep, SendHello,
       ReadIdentity, SendGreeting, ReadGreeting, Connected, NegotiateStep, StartPlan,
       SkipCommand, SendCommand, ReadReply, FinishWalk, CollectStep, Delay, LoopDisconnected,
       RecvData, RecvInfo, RecvEnd, RecvTrouble, SendInfo, ReadInfo, ReadEof, Keepalive,
       Resume, PollNothing, Mishap, SendFails, ReadStalls, ReadTimesOut, ReadGarbled,
       ConnectRefused, ReadFails, GoneQuiet, GoneLate, IdleTimeout, clientVars
  <1>2. CASE Call \/ Close \/ Bye \/ Break \/ Resume \/ PollNothing
    BY <1>1, <1>2 DEF Call, CallConnect, CallReconnect, CallNegotiate, CallInfo, CallCollect,
       Close, Bye, Break, Enter, Return, Goto, Resume, PollNothing, clientVars, linkVars,
       Disconnected, Inv, CallInv
  <1>3. CASE ConnectSocket \/ SendHello \/ SendGreeting \/ Connected \/ Delay
    BY <1>1, <1>3 DEF ConnectSocket, SendHello, SendGreeting, Connected, Delay, Goto, Return,
       linkVars
  <1>4. CASE ConnectRefused \/ ReadIdentity \/ ReadGreeting
    BY <1>1, <1>4 DEF ConnectRefused, ReadIdentity, ReadGreeting, ConnectRaises, Disconnected,
       Goto, Return, linkVars
  <1>5. CASE StartPlan \/ SkipCommand \/ SendCommand \/ SendInfo \/ RecvData \/ RecvInfo
             \/ RecvEnd \/ ReadInfo
    BY <1>1, <1>5 DEF StartPlan, SkipCommand, SendCommand, SendInfo, RecvData, RecvInfo,
       RecvEnd, ReadInfo, Goto, Return, linkVars, clientVars, ctlVars
  <1>6. ASSUME NEW open, NEW rest, NegotiateRaises(open, rest), pc \in {"walk", "reply"}
        PROVE  LeaveInv' /\ EndsWell
    BY <1>1, <1>6 DEF NegotiateRaises, Disconnected, Goto, Return, linkVars
  <1>7. CASE ReadReply
    BY <1>1, <1>6, <1>7 DEF ReadReply, Goto, linkVars
  <1>8. CASE FinishWalk
    BY <1>1, <1>6, <1>8 DEF FinishWalk, Return
  <1>9. CASE LoopDisconnected
    BY <1>1, <1>9 DEF LoopDisconnected, Goto, Return, linkVars
  <1>10. CASE Keepalive
    BY <1>1, <1>10 DEF Keepalive, Disconnected, linkVars, ctlVars
  <1>11. ASSUME LoopRaises, pc = "loop" PROVE LeaveInv' /\ EndsWell
    BY <1>1, <1>11 DEF LoopRaises, Disconnected, Goto, Return
  <1>12. ASSUME ReadFails PROVE LeaveInv' /\ EndsWell
    <2>1. CASE pc \in {"identity", "greeting"} /\ ConnectRaises("error")
      BY <1>1, <2>1 DEF ConnectRaises, Disconnected, Goto, Return
    <2>2. CASE pc = "frames" /\ Disconnected /\ Return("error")
      BY <1>1, <2>2 DEF Disconnected, Return
    <2>3. QED
      BY <1>6, <1>11, <1>12, <2>1, <2>2 DEF ReadFails
  <1>13. CASE SendFails
    BY <1>1, <1>6, <1>13 DEF SendFails, ConnectRaises, Disconnected, Goto, Return
  <1>14. CASE ReadTimesOut
    BY <1>1, <1>6, <1>14 DEF ReadTimesOut, ConnectRaises, Disconnected, Goto, Return, linkVars
  <1>15. CASE ReadEof \/ ReadStalls \/ ReadGarbled
    BY <1>12, <1>15 DEF ReadEof, ReadStalls, ReadGarbled
  <1>16. CASE GoneQuiet \/ GoneLate \/ RecvTrouble
    BY <1>11, <1>16 DEF GoneQuiet, GoneLate, IdleTimeout, RecvTrouble
  <1>17. QED
    BY <1>2, <1>3, <1>4, <1>5, <1>7, <1>8, <1>9, <1>10, <1>13, <1>14, <1>15, <1>16
    DEF ClientStep, User, Progress, ConnectStep, NegotiateStep, CollectStep, Mishap

(* So does every step.                                                     *)
LEMMA LeaveStep == TypeOK /\ Inv /\ LeaveInv /\ [Next]_vars => LeaveInv' /\ EndsWell
  <1> SUFFICES ASSUME TypeOK, Inv, LeaveInv, [Next]_vars PROVE LeaveInv' /\ EndsWell
    OBVIOUS
  <1>1. CASE ConnectSocket \/ ClientStep \/ GoneQuiet \/ GoneLate
    BY <1>1, ClientLeaves
  <1>2. CASE UNCHANGED clientVars
    BY <1>2 DEF clientVars, LeaveInv, EndsWell
  <1>3. QED
    BY <1>1, <1>2 DEF Next, Terminated, vars

(* collect() ends as its documentation says (client.py:427-429), whatever  *)
(* happens to the connection.                                              *)
THEOREM CollectEndsWell == Spec => EndsAsDocumented
  <1>1. Init => LeaveInv
    BY DEF Init, ClientInit, LeaveInv
  <1>2. QED
    BY <1>1, TypeInit, TypeStep, InvInit, InvStep, LeaveStep, PTL
    DEF Spec, EndsAsDocumented, EndsWell

-----------------------------------------------------------------------------
(* What is sent and when; every step sends one command or none.            *)
Sends(c) ==
    /\ Send(c)
    /\ \/ pc = "hello" /\ c = Hello
       \/ pc = "greet" /\ NextGreeting # None /\ c = NextGreeting
       \/ pc = "walk" /\ Sendable /\ c = Current
       \/ pc = "ask" /\ c = Generic("INFO", "none")
       \/ pc = "loop" /\ conf.keepalive /\ c = Generic("KEEPALIVE", "none")
       \/ pc \in {"idle", "yield"} /\ c = Generic("BYE", "none")

(* A step of the client sends one of these or none, or closes.             *)
LEMMA ClientQueue ==
    ASSUME TypeOK, Inv, ConnectSocket \/ ClientStep \/ GoneQuiet \/ GoneLate
    PROVE  \/ c2s' = <<>> /\ (up' => pc = "socket")
           \/ c2s' = c2s
           \/ \E c : Sends(c)
  <1> USE DEF wireVars
  <1>1. CASE CallConnect \/ CallNegotiate \/ CallInfo \/ CallCollect \/ Resume \/ PollNothing
             \/ Connected \/ StartPlan \/ SkipCommand \/ Delay \/ LoopDisconnected
    BY <1>1 DEF CallConnect, CallNegotiate, CallInfo, CallCollect, Resume, PollNothing,
       Connected, StartPlan, SkipCommand, Delay, LoopDisconnected
  <1>2. CASE CallReconnect \/ Close \/ Break \/ ConnectSocket \/ ConnectRefused
    BY <1>2 DEF CallReconnect, Close, Break, Disconnected, Shut, ConnectSocket, Open,
       ConnectRefused, ConnectRaises
  <1>3. CASE RecvData \/ RecvInfo \/ RecvEnd \/ ReadInfo
    BY <1>3 DEF RecvData, RecvInfo, RecvEnd, ReadInfo, Take
  <1>4. CASE ReadIdentity \/ ReadGreeting
    BY <1>4 DEF ReadIdentity, ReadGreeting, ConnectRaises, Disconnected, Shut, Take
  <1>5. CASE Bye
    BY <1>5 DEF Bye, Sends, Disconnected, Shut, Inv, CallInv
  <1>6. CASE SendHello \/ SendGreeting \/ SendInfo
    BY <1>6 DEF SendHello, SendGreeting, SendInfo, Sends
  <1>7. CASE SendCommand
    BY <1>7 DEF SendCommand, Sends
  <1>8. CASE Keepalive
    BY <1>8 DEF Keepalive, Sends, Disconnected, Shut
  <1>9. ASSUME NEW open, NEW rest, NegotiateRaises(open, rest)
        PROVE  (c2s' = <<>> /\ ~up') \/ c2s' = c2s
    BY <1>9 DEF NegotiateRaises, Disconnected, Shut
  <1>10. CASE ReadReply \/ FinishWalk
    BY <1>9, <1>10 DEF ReadReply, FinishWalk, Take
  <1>11. CASE ReadFails
    BY <1>9, <1>11 DEF ReadFails, ConnectRaises, LoopRaises, Disconnected, Shut
  <1>12. CASE SendFails
    BY <1>9, <1>12 DEF SendFails, ConnectRaises, Disconnected, Shut
  <1>13. CASE ReadTimesOut
    BY <1>9, <1>13 DEF ReadTimesOut, ConnectRaises, Disconnected, Shut
  <1>14. CASE ReadEof \/ ReadStalls \/ ReadGarbled
    BY <1>11, <1>14 DEF ReadEof, ReadStalls, ReadGarbled
  <1>15. CASE GoneQuiet \/ GoneLate \/ RecvTrouble
    BY <1>15 DEF GoneQuiet, GoneLate, IdleTimeout, RecvTrouble, LoopRaises, Disconnected, Shut
  <1>16. QED
    BY <1>1, <1>2, <1>3, <1>4, <1>5, <1>6, <1>7, <1>8, <1>10, <1>12, <1>13, <1>14, <1>15
    DEF ClientStep, User, Call, Progress, ConnectStep, NegotiateStep, CollectStep, Mishap

(* The server takes the command at the head, or the cut takes them all.    *)
LEMMA ServerQueue ==
    ASSUME ServerNext \/ Drop
    PROVE  c2s' = <<>> \/ c2s' = c2s \/ (c2s # <<>> /\ c2s' = Tail(c2s))
  BY DEF ServerNext, Drop, Serve, ServeHello, ServeSetting, ServeStation, ServeSelect,
     ServeRequest, ServeEnd, ServeInfo, ServeUntimely, ServeBye, Handling, SendEnd,
     SendTrouble, SendPacket, Publish, wireVars

(* So if every command that is sent is in S, so are those under way.       *)
LEMMA QueueOK ==
    ASSUME NEW S, TypeOK, Inv, [Next]_vars, c2s \in Seq(S), \A c : Sends(c) => c \in S
    PROVE  c2s' \in Seq(S)
  <1>1. \/ c2s' = <<>> \/ c2s' = c2s \/ (c2s # <<>> /\ c2s' = Tail(c2s))
        \/ \E c \in S : Send(c)
    <2>1. CASE ConnectSocket \/ ClientStep \/ GoneQuiet \/ GoneLate
      BY <2>1, ClientQueue DEF Sends
    <2>2. CASE ServerNext \/ Drop
      BY <2>2, ServerQueue
    <2>3. CASE UNCHANGED vars
      BY <2>3 DEF vars, wireVars
    <2>4. QED
      BY <2>1, <2>2, <2>3 DEF Next, Terminated
  <1>2. ASSUME NEW c \in S, Send(c) PROVE c2s' \in Seq(S)
    <2>1. c2s' = Append(c2s, c) \/ c2s' = c2s
      BY <1>2 DEF Send
    <2>2. Append(c2s, c) \in Seq(S)
      OBVIOUS
    <2>3. QED
      BY <2>1, <2>2
  <1>3. CASE c2s # <<>> /\ c2s' = Tail(c2s)
    BY <1>3
  <1>4. CASE c2s' = <<>>
    BY <1>4
  <1>5. QED
    BY <1>1, <1>2, <1>3, <1>4

-----------------------------------------------------------------------------
(* The pair a DATA command resumes from.                                   *)

Paired(r) == r.from = "seq" /\ r.time # None => r.seq = r.time + 1

PairedCommands == {c \in Command : Paired(c.req)}

(* Once resolved, the time of a stream is that of its last packet.         *)
OwnTime(st) == ResolveTimestamp(st).timestamp \in {None, st.seqnum}

PairInv == /\ \A i \in StreamIds : OwnTime(streams[i])
           /\ c2s \in Seq(PairedCommands)

(* Parsing a packet again changes nothing,                                 *)
LEMMA OwnTimeKept ==
    ASSUME NEW st \in Position, OwnTime(st)
    PROVE  OwnTime(ResolveTimestamp(st))
  BY DEF OwnTime, ResolveTimestamp, Position

(* so what a plan asks for is a pair of one packet.                        *)
LEMMA CurrentPaired ==
    ASSUME TypeOK, PairInv, Current \in Command
    PROVE  Current \in PairedCommands
  <1>1. Paired(NoRequest)
    BY DEF Paired, NoRequest
  <1>2. ASSUME NEW i \in StreamIds, NEW st \in Position, OwnTime(st), NEW c, NEW b, NEW p
        PROVE  Paired(DataCommand(i, p, c, b, st).req)
    <2>1. Paired(DataV4Request(st, AllData[i], c.window))
      BY DEF Paired, DataV4Request, FromSeq, FromAll, FromNext
    <2>2. Paired(DataV3Request(st, c.window))
      <3>1. CASE c.window \/ st.seqnum = None
        BY <3>1 DEF Paired, DataV3Request, FromAll, FromNext
      <3>2. CASE ~c.window /\ st.seqnum # None
        <4>1. PICK t : t = ResolveTimestamp(st).timestamp
          OBVIOUS
        <4>2. DataV3Request(st, c.window) = [from |-> "seq", seq |-> st.seqnum + 1, time |-> t]
          BY <3>2, <4>1 DEF DataV3Request, FromSeq, ResumeSeqnum
        <4>3. t \in {None, st.seqnum}
          BY <1>2, <4>1 DEF OwnTime
        <4>4. QED
          BY <4>2, <4>3 DEF Paired
      <3>3. QED
        BY <3>1, <3>2
    <2>3. QED
      BY <2>1, <2>2 DEF DataCommand, ForStream
  <1>3. Paired(Current.req)
    <2>1. CASE pos.s \notin StreamIds
      BY <1>1, <2>1 DEF Current, CmdAt, EndCommand, ForStream
    <2>2. CASE pos.s \in StreamIds
      <3>1. streams[pos.s] \in Position /\ OwnTime(streams[pos.s])
        BY <2>2 DEF TypeOK, ClientTypeOK, PairInv
      <3>2. Paired(DataCommand(pos.s, protocol, conf, batch_active, streams[pos.s]).req)
        BY <1>2, <2>2, <3>1
      <3>3. QED
        BY <1>1, <2>2, <3>2 DEF Current, CmdAt, ForStream
    <2>3. QED
      BY <2>1, <2>2
  <1>4. QED
    BY <1>3 DEF PairedCommands

(* Every step keeps the positions and the commands paired.                 *)
LEMMA PairStep == TypeOK /\ Inv /\ PairInv /\ [Next]_vars => PairInv'
  <1> SUFFICES ASSUME TypeOK, Inv, PairInv, [Next]_vars PROVE PairInv'
    OBVIOUS
  <1>1. ASSUME NEW c, Sends(c) PROVE c \in PairedCommands
    <2>1. ASSUME NEW n \in CommandNames, NEW p \in {"none", "reply", "ok", "auth"}
          PROVE  Generic(n, p) \in PairedCommands
      <3>1. Generic(n, p) \in Command
        BY GenericOK
      <3>2. QED
        BY <3>1 DEF PairedCommands, Paired, Generic, NoRequest
    <2>2. CASE c = Current /\ pc = "walk"
      <3>1. Current \in Command
        BY CmdAtOK, ClientAssumption DEF Current, TypeOK, ClientTypeOK
      <3>2. QED
        BY <2>2, <3>1, CurrentPaired
    <2>3. CASE pc = "greet" /\ NextGreeting # None /\ c = NextGreeting
      BY <2>1, <2>3 DEF NextGreeting, HandshakeAfter, AfterV3, AfterV4, CommandNames
    <2>4. QED
      BY <1>1, <2>1, <2>2, <2>3 DEF Sends, Hello, CommandNames
  <1>2. c2s' \in Seq(PairedCommands)
    BY <1>1, QueueOK DEF PairInv
  <1>3. \A i \in StreamIds : streams[i] \in Position /\ OwnTime(streams[i])
    BY DEF TypeOK, ClientTypeOK, PairInv
  <1>4. \A i \in StreamIds : OwnTime(streams'[i])
    <2>1. CASE UNCHANGED streams
      BY <1>3, <2>1
    <2>2. CASE StartPlan
      <3>1. ASSUME NEW i \in StreamIds PROVE OwnTime(streams'[i])
        <4>1. streams'[i] \in {streams[i], ResolveTimestamp(streams[i])}
          BY <2>2 DEF StartPlan, Planned
        <4>2. QED
          BY <1>3, <4>1, OwnTimeKept
      <3>2. QED
        BY <3>1
    <2>3. CASE RecvData
      <3>1. ASSUME NEW i \in StreamIds PROVE OwnTime(streams'[i])
        <4>1. PICK n : n = Head(s2c).seqnum
          OBVIOUS
        <4>2. \/ streams'[i] = streams[i]
              \/ streams'[i] = [streams[i] EXCEPT !.seqnum = n, !.pending = n]
          BY <2>3, <4>1 DEF RecvData, Advance
        <4>3. n \in Nat
          <5>1. Head(s2c) \in Item /\ Head(s2c).kind = "data"
            BY <2>3, HeadTailProperties DEF RecvData, TypeOK, WireTypeOK
          <5>2. QED
            BY <4>1, <5>1 DEF Item
        <4>4. CASE streams'[i] = [streams[i] EXCEPT !.seqnum = n, !.pending = n]
          <5>1. /\ streams'[i].seqnum = n /\ streams'[i].pending = n
                /\ streams'[i] \in Position
            BY <1>3, <4>3, <4>4 DEF Position
          <5>2. n # None
            BY <4>3, CommandsAssumption
          <5>3. QED
            BY <5>1, <5>2 DEF OwnTime, ResolveTimestamp, Position
        <4>5. QED
          BY <1>3, <4>2, <4>4
      <3>2. QED
        BY <3>1
    <2>4. QED
      BY <2>1, <2>2, <2>3
      DEF Next, Terminated, vars, clientVars, dataVars, ConnectSocket, ClientStep, User, Call,
       CallConnect, CallReconnect, CallNegotiate,
       CallInfo, CallCollect, Close, Bye, Break, Progress, ConnectStep, SendHello,
       ReadIdentity, SendGreeting, ReadGreeting, Connected, NegotiateStep,
       SkipCommand, SendCommand, ReadReply, FinishWalk, CollectStep, Delay, LoopDisconnected,
       RecvInfo, RecvEnd, RecvTrouble, SendInfo, ReadInfo, ReadEof, Keepalive,
       Resume, PollNothing, Mishap, SendFails, ReadStalls, ReadTimesOut, ReadGarbled,
       ConnectRefused, ReadFails, GoneQuiet, GoneLate, IdleTimeout
  <1>5. QED
    BY <1>2, <1>4 DEF PairInv

(* The sequence number and the time that a v3 DATA command resumes from    *)
(* are of one packet (data_v3(), after packets that nobody parsed too).    *)
THEOREM ResumesFromOnePacket == Spec => []ResumePair
  <1>1. Init => PairInv
    <2> SUFFICES ASSUME Init PROVE PairInv
      OBVIOUS
    <2>1. c2s \in Seq(PairedCommands)
      BY DEF Init, WireInit
    <2>2. ASSUME NEW i \in StreamIds PROVE OwnTime(streams[i])
      BY DEF Init, ClientInit, OwnTime, ResolveTimestamp, NoPosition
    <2>3. QED
      BY <2>1, <2>2 DEF PairInv
  <1>2. PairInv => ResumePair
    BY DEF PairInv, PairedCommands, Paired, ResumePair
  <1>3. QED
    BY <1>1, <1>2, TypeInit, TypeStep, InvInit, InvStep, PairStep, PTL DEF Spec

-----------------------------------------------------------------------------
(* The framing in force.                                                   *)

(* Outside the handshake the client keeps its protocol and does not enter   *)
(* it; nobody opens a connection.                                          *)
LEMMA Outside ==
    ASSUME TypeOK, Inv, up => sock, ClientStep \/ GoneQuiet \/ GoneLate, pc \notin Handshake
    PROVE  /\ pc' \notin Handshake /\ UNCHANGED <<conf, protocol>>
           /\ up' => up /\ sock'
  <1> USE DEF Handshake, wireVars, linkVars, identVars
  <1>1. CASE CallConnect \/ CallNegotiate \/ CallInfo \/ CallCollect \/ Resume \/ PollNothing
    BY <1>1 DEF CallConnect, CallNegotiate, CallInfo, CallCollect, Resume, PollNothing,
       Enter, Goto, clientVars
  <1>2. CASE StartPlan \/ SkipCommand \/ Delay \/ LoopDisconnected
    BY <1>2 DEF StartPlan, SkipCommand, Delay, LoopDisconnected, Goto, Return, ctlVars
  <1>3. CASE CallReconnect \/ Close \/ Break \/ ConnectRefused
    BY <1>3 DEF CallReconnect, Enter, Close, Break, Disconnected, Shut, Return,
       ConnectRefused, ConnectRaises, Goto
  <1>4. CASE RecvData \/ RecvInfo \/ RecvEnd \/ ReadInfo
    BY <1>4 DEF RecvData, RecvInfo, RecvEnd, ReadInfo, Take, Goto, Return, clientVars
  <1>5. CASE SendHello \/ SendGreeting \/ ReadIdentity \/ ReadGreeting \/ Connected
    BY <1>5 DEF SendHello, SendGreeting, ReadIdentity, ReadGreeting, Connected
  <1>6. CASE Bye \/ SendInfo \/ SendCommand \/ Keepalive
    <2>1. UNCHANGED <<up, sock>> \/ Disconnected
      BY <1>6 DEF Bye, SendInfo, SendCommand, Keepalive, Send
    <2>2. up' => up /\ sock'
      BY <2>1 DEF Disconnected, Shut
    <2>3. pc' \notin Handshake /\ UNCHANGED <<conf, protocol>>
      BY <1>6 DEF Bye, SendInfo, SendCommand, Keepalive, Goto, ctlVars
    <2>4. QED
      BY <2>2, <2>3
  <1>7. ASSUME NEW open, NEW rest, NegotiateRaises(open, rest)
        PROVE  pc' \notin Handshake /\ (up' => up /\ sock')
    BY <1>7 DEF NegotiateRaises, Disconnected, Shut, Goto, Return
  <1>8. CASE ReadReply \/ FinishWalk
    BY <1>7, <1>8 DEF ReadReply, FinishWalk, Take, Goto, Return
  <1>9. CASE ReadFails
    BY <1>7, <1>9 DEF ReadFails, ConnectRaises, LoopRaises, Disconnected, Shut, Goto, Return
  <1>10. CASE SendFails
    BY <1>7, <1>10 DEF SendFails, ConnectRaises, Disconnected, Shut, Goto, Return
  <1>11. CASE ReadTimesOut
    <2>1. CASE pc = "frames"
      <3>1. UNCHANGED <<up, sock>> /\ pc' = "idle"
        BY <1>11, <2>1 DEF ReadTimesOut, Return
      <3>2. QED
        BY <1>11, <3>1 DEF ReadTimesOut
    <2>2. CASE pc # "frames"
      BY <1>7, <1>11, <2>2 DEF ReadTimesOut, ConnectRaises, Disconnected, Shut, Goto, Return
    <2>3. QED
      BY <2>1, <2>2
  <1>12. CASE ReadEof \/ ReadStalls \/ ReadGarbled
    BY <1>9, <1>12 DEF ReadEof, ReadStalls, ReadGarbled
  <1>13. CASE GoneQuiet \/ GoneLate \/ RecvTrouble
    BY <1>13 DEF GoneQuiet, GoneLate, IdleTimeout, RecvTrouble, LoopRaises, Disconnected,
       Shut, Goto, Return
  <1>14. QED
    BY <1>1, <1>2, <1>3, <1>4, <1>5, <1>6, <1>8, <1>10, <1>11, <1>12, <1>13
    DEF ClientStep, User, Call, Progress, ConnectStep, NegotiateStep, CollectStep, Mishap

(* Inside, it goes on or closes the connection.                            *)
LEMMA Inside ==
    ASSUME TypeOK, Inv, ClientStep \/ GoneQuiet \/ GoneLate, pc \in Handshake
    PROVE  \/ SendHello \/ ReadIdentity \/ SendGreeting \/ ReadGreeting \/ Connected
           \/ Disconnected /\ pc' \notin Handshake /\ UNCHANGED <<conf, protocol>>
  <1> USE DEF Handshake, Inv, CallInv, LinkInv
  <1>1. ASSUME NEW how, ConnectRaises(how) PROVE Disconnected /\ pc' \notin Handshake
    BY <1>1 DEF ConnectRaises, Goto, Return
  <1>2. CASE ReadFails
    BY <1>1, <1>2 DEF ReadFails, identVars
  <1>3. CASE SendFails \/ ReadTimesOut
    BY <1>1, <1>3 DEF SendFails, ReadTimesOut, identVars
  <1>4. CASE ReadEof \/ ReadStalls \/ ReadGarbled
    BY <1>2, <1>4 DEF ReadEof, ReadStalls, ReadGarbled
  <1>5. CASE \/ Call \/ Close \/ Bye \/ Break \/ Resume \/ PollNothing \/ Keepalive
             \/ NegotiateStep \/ CollectStep \/ SendInfo \/ ReadInfo \/ ConnectRefused
             \/ GoneQuiet \/ GoneLate
    BY <1>5 DEF Call, CallConnect, CallReconnect, CallNegotiate, CallInfo, CallCollect,
       Enter, Close, Bye, Break, Resume, PollNothing, Keepalive, NegotiateStep, StartPlan,
       SkipCommand, SendCommand, ReadReply, FinishWalk, CollectStep, Delay, LoopDisconnected,
       RecvData, RecvInfo, RecvEnd, RecvTrouble, SendInfo, ReadInfo, ConnectRefused,
       GoneQuiet, GoneLate, IdleTimeout
  <1>6. QED
    BY <1>3, <1>4, <1>5 DEF ClientStep, User, Progress, ConnectStep, Mishap

Unversioned == {c \in Command : c.name # "SLPROTO"}

(* The server frames as v3 until it has accepted SLPROTO; its answer to     *)
(* SLPROTO says whether it did; and a client that goes on after that        *)
(* answer, or sends no SLPROTO, has that same protocol.                     *)
ProtoInv ==
    /\ up => sock
    /\ pc \in {"greet", "greeting"} => protocol \in {"V3", "V4"}
    /\ pc # "greeting" => c2s \in Seq(Unversioned)
    /\ pc = "greeting" /\ cmd.name = "SLPROTO" => cmd.parse = "ok" /\ protocol = "V4"
    /\ up /\ pc \in {"hello", "identity"} => srv.proto = "V3"
    /\ up /\ pc = "greet" => srv.proto = IF cmd.name = "HELLO" THEN "V3" ELSE protocol
    /\ up /\ pc = "greeting" /\ cmd.name # "SLPROTO" => srv.proto = protocol
    /\ up /\ pc = "greeting" /\ cmd.name = "SLPROTO" =>
          IF c2s # <<>> THEN srv.proto = "V3"
          ELSE s2c # <<>> /\ (Accepted(Head(s2c)) <=> srv.proto = "V4")
    /\ up /\ pc \notin Handshake => srv.proto = protocol

(* A connection that is cut frames nothing any more.                       *)
LEMMA ProtoCut ==
    ASSUME Disconnected \/ (up' = FALSE /\ c2s' = <<>>),
           pc' \notin Handshake
    PROVE  ProtoInv'
  <1>1. up' = FALSE /\ c2s' = <<>>
    BY DEF Disconnected, Shut
  <1>2. c2s' \in Seq(Unversioned)
    BY <1>1
  <1>3. QED
    BY <1>1, <1>2 DEF ProtoInv, Handshake

(* The client's steps keep the versions agreed,                            *)
LEMMA ProtoClient ==
    ASSUME TypeOK, Inv, ProtoInv, ClientStep \/ GoneQuiet \/ GoneLate, UNCHANGED serverVars,
           [Next]_vars
    PROVE  ProtoInv'
  <1>0. UNCHANGED srv
    BY DEF serverVars
  <1>1. CASE pc \notin Handshake
    <2>1. /\ pc' \notin Handshake /\ UNCHANGED <<conf, protocol>>
          /\ up' => up /\ sock'
      BY <1>1, Outside DEF ProtoInv
    <2>2. ASSUME NEW c, Sends(c) PROVE c \in Unversioned
      <3>1. CASE c = Current
        <4>1. Current \in Command
          BY CmdAtOK, ClientAssumption DEF Current, TypeOK, ClientTypeOK
        <4>2. Current.name # "SLPROTO"
          BY DEF Current, CmdAt, EndCommand, DataCommand, DataV3Name, ForStream
        <4>3. QED
          BY <3>1, <4>1, <4>2 DEF Unversioned
      <3>2. QED
        BY <1>1, <2>2, <3>1, GenericOK DEF Sends, Handshake, Generic, Unversioned, CommandNames
    <2>3. c2s' \in Seq(Unversioned)
      BY <1>1, <2>2, QueueOK DEF ProtoInv, Handshake
    <2>4. QED
      BY <1>0, <1>1, <2>1, <2>3 DEF ProtoInv, Handshake
  <1>2. CASE SendHello
    <2>1. /\ pc = "hello" /\ pc' = "identity" /\ c2s' = IF up THEN <<Hello>> ELSE <<>>
          /\ UNCHANGED <<up, sock>>
      BY <1>2 DEF SendHello, Send, Goto, linkVars, Inv, Lockstep
    <2>2. Hello \in Unversioned
      BY GenericOK DEF Hello, Unversioned, CommandNames, Generic
    <2>3. c2s' \in Seq(Unversioned)
      BY <2>1, <2>2
    <2>4. QED
      BY <1>0, <2>1, <2>3 DEF ProtoInv, Handshake
  <1>3. CASE ReadIdentity
    <2>1. CASE Disconnected
      <3>1. pc \in Handshake /\ sock /\ ~sock'
        BY <1>3, <2>1 DEF ReadIdentity, Handshake, Inv, LinkInv, Disconnected
      <3>2. pc' \notin Handshake
        BY <1>3, <3>1 DEF ReadIdentity, ConnectRaises, Goto, Return, Handshake, linkVars
      <3>3. QED
        BY <2>1, <3>2, ProtoCut
    <2>2. CASE ~Disconnected
      <3>1. /\ pc = "identity" /\ pc' = "greet" /\ Take /\ UNCHANGED <<sock, cmd>>
            /\ protocol' \in {"V3", "V4"}
        BY <1>3, <2>2 DEF ReadIdentity, ConnectRaises, Goto, linkVars, planVars, SelectProtocol,
           Identified
      <3>2. cmd.name = "HELLO" /\ c2s' = c2s /\ up' = up
        BY <3>1 DEF Inv, Lockstep, Hello, Generic, Take
      <3>3. QED
        BY <1>0, <3>1, <3>2 DEF ProtoInv, Handshake
    <2>3. QED
      BY <2>1, <2>2
  <1>4. CASE SendGreeting
    <2>1. /\ pc = "greet" /\ pc' = "greeting" /\ cmd' = NextGreeting
          /\ UNCHANGED <<up, sock, protocol>> /\ c2s' = IF up THEN <<NextGreeting>> ELSE <<>>
      BY <1>4 DEF SendGreeting, Send, Goto, linkVars, identVars, Inv, Lockstep
    <2>2. /\ NextGreeting.name = "SLPROTO" =>
                NextGreeting.parse = "ok" /\ protocol = "V4" /\ cmd.name = "HELLO"
          /\ NextGreeting.name # "SLPROTO" => protocol # "V4" \/ cmd.name # "HELLO"
      BY <1>4 DEF SendGreeting, NextGreeting, HandshakeAfter, AfterV3, AfterV4, Generic
    <2>3. QED
      BY <1>0, <2>1, <2>2 DEF ProtoInv, Handshake
  <1>5. CASE ReadGreeting
    <2>1. CASE Disconnected
      <3>1. pc \in Handshake /\ sock /\ ~sock'
        BY <1>5, <2>1 DEF ReadGreeting, Handshake, Inv, LinkInv, Disconnected
      <3>2. pc' \notin Handshake
        BY <1>5, <3>1 DEF ReadGreeting, ConnectRaises, Goto, Return, Handshake
      <3>3. QED
        BY <2>1, <3>2, ProtoCut
    <2>2. CASE ~Disconnected
      <3>1. /\ pc = "greeting" /\ pc' = "greet" /\ Take /\ s2c # <<>>
            /\ UNCHANGED <<sock, cmd, protocol>>
            /\ Accepted(Head(s2c)) \/ cmd.parse = "reply"
        BY <1>5, <2>2 DEF ReadGreeting, ConnectRaises, Goto, planVars, identVars
      <3>2. c2s = <<>> /\ c2s' = <<>> /\ up' = up /\ cmd.name # "HELLO"
        BY <3>1, TakeInFlight DEF Inv, Lockstep, Take, Settings
      <3>3. up => srv.proto = protocol
        BY <3>1, <3>2 DEF ProtoInv
      <3>4. c2s' \in Seq(Unversioned)
        BY <3>2
      <3>5. QED
        BY <1>0, <3>1, <3>2, <3>3, <3>4 DEF ProtoInv, Handshake
    <2>3. QED
      BY <2>1, <2>2
  <1>6. CASE Connected
    <2>1. /\ pc = "greet" /\ pc' \notin Handshake /\ UNCHANGED <<up, sock, c2s, protocol>>
      BY <1>6 DEF Connected, Goto, Return, Handshake, linkVars, wireVars, identVars
    <2>2. cmd.name = "HELLO" => protocol # "V4"
      <3>1. Generic("SLPROTO", "ok") # None
        BY GenericOK, NoneIsNoCommand DEF CommandNames
      <3>2. QED
        BY <1>6, <3>1 DEF Connected, NextGreeting, HandshakeAfter, AfterV4
    <2>3. QED
      BY <1>0, <2>1, <2>2 DEF ProtoInv, Handshake
  <1>7. QED
    BY <1>1, <1>2, <1>3, <1>4, <1>5, <1>6, Inside, ProtoCut

(* the server's do,                                                        *)
LEMMA ProtoServer ==
    ASSUME TypeOK, Inv, ProtoInv, ServerNext, UNCHANGED clientVars, [Next]_vars
    PROVE  ProtoInv'
  <1>0. UNCHANGED <<conf, protocol, sock, pc, cmd>>
    BY DEF clientVars
  <1>a. srv \in ServerState
    BY DEF TypeOK, ServerTypeOK
  <1>1. CASE pc \notin Handshake
    <2>1. c2s' \in Seq(Unversioned)
      <3>1. c2s \in Seq(Unversioned)
        BY <1>1 DEF ProtoInv, Handshake
      <3>2. c2s # <<>> => Tail(c2s) \in Seq(Unversioned)
        BY <3>1
      <3>3. CASE c2s' = <<>>
        BY <3>3
      <3>4. CASE c2s' = c2s
        BY <3>1, <3>4
      <3>5. CASE c2s # <<>> /\ c2s' = Tail(c2s)
        BY <3>2, <3>5
      <3>6. QED
        BY <3>3, <3>4, <3>5, ServerQueue
    <2>2. srv'.proto = srv.proto
      <3>1. c2s # <<>> => Head(c2s).name # "SLPROTO"
        BY <1>1, HeadTailProperties DEF ProtoInv, Handshake, Unversioned
      <3>2. CASE ServeSetting
        BY <1>a, <3>1, <3>2 DEF ServeSetting, Handling, ServerState
      <3>3. CASE ~ServeSetting
        BY <1>a, <3>3 DEF ServerNext, Serve, ServeHello, ServeStation, ServeSelect,
           ServeRequest, ServeEnd, ServeInfo, ServeBye, ServeUntimely, SendEnd, SendTrouble,
           SendPacket, Publish, serverVars, ServerState
      <3>4. QED
        BY <3>2, <3>3
    <2>3. up' => up
      BY DEF ServerNext, Serve, ServeHello, ServeSetting, ServeStation, ServeSelect,
         ServeRequest, ServeEnd, ServeInfo, ServeBye, ServeUntimely, Handling, SendEnd,
         SendTrouble, SendPacket, Publish, wireVars
    <2>4. QED
      BY <1>0, <1>1, <2>1, <2>2, <2>3 DEF ProtoInv, Handshake
  <1>2. CASE pc \in Handshake
    <2>1. srv.phase = "command"
      BY <1>2 DEF Inv, LinkInv
    <2>2. CASE \E st \in Stations : Publish(st)
      <3>1. UNCHANGED <<srv, up, c2s, s2c>>
        BY <2>2 DEF Publish, wireVars
      <3>2. QED
        BY <1>0, <3>1 DEF ProtoInv
    <2>3. ASSUME up, c2s # <<>>, Serve PROVE ProtoInv'
      <3>1. /\ pc \in {"identity", "greeting"}
            /\ c2s = <<cmd>> /\ s2c = <<>> /\ Head(c2s) = cmd /\ Tail(c2s) = <<>>
            /\ cmd.name \in Settings \cup {"HELLO"} /\ cmd.role = "generic"
            /\ pc = "greeting" => cmd.name # "HELLO"
            /\ pc = "identity" => cmd.name = "HELLO"
            /\ ~srv.batch
        BY <1>2, <2>3, HeadInv
      <3>2. CASE ServeHello
        <4>1. UNCHANGED <<srv, up>> /\ c2s' = <<>> /\ pc = "identity"
          BY <3>1, <3>2 DEF ServeHello, Handling
        <4>2. c2s' \in Seq(Unversioned)
          BY <4>1
        <4>3. QED
          BY <1>0, <4>1, <4>2 DEF ProtoInv, Handshake
      <3>3. CASE ServeSetting
        <4>1. /\ pc = "greeting" /\ c2s' = <<>> /\ up' = up
          BY <3>1, <3>3 DEF ServeSetting, Handling
        <4>2. PICK ok \in BOOLEAN :
                 /\ s2c' = Append(s2c, Line(cmd.name, ok))
                 /\ srv'.proto = IF ok /\ cmd.name = "SLPROTO" THEN "V4" ELSE srv.proto
          BY <1>a, <3>1, <3>3 DEF ServeSetting, Obey, Refuse, Answer, Quiet, ServerState
        <4>3. s2c' = <<Line(cmd.name, ok)>>
          BY <3>1, <4>2, OneOK, Zenon
        <4>4. Head(s2c') = Line(cmd.name, ok) /\ s2c' # <<>>
          BY <4>3, OneOK
        <4>5. Accepted(Head(s2c')) <=> ok
          BY <4>4 DEF Accepted, Line
        <4>6. cmd.name # "SLPROTO" => srv'.proto = protocol
          BY <2>3, <4>1, <4>2 DEF ProtoInv
        <4>7. cmd.name = "SLPROTO" => srv'.proto = IF ok THEN "V4" ELSE "V3"
          BY <2>3, <3>1, <4>1, <4>2 DEF ProtoInv
        <4>8. cmd.name = "SLPROTO" => (Accepted(Head(s2c))' <=> srv'.proto = "V4")
          BY <4>4, <4>5, <4>7 DEF Accepted
        <4>9. QED
          BY <1>0, <4>1, <4>4, <4>6, <4>8 DEF ProtoInv, Handshake
      <3>4. CASE ~ServeHello /\ ~ServeSetting
        BY <2>1, <2>3, <3>1, <3>4 DEF Serve, ServeStation, ServeSelect, ServeRequest, ServeEnd,
           ServeInfo, ServeBye, ServeUntimely, Handling, Settings
      <3>5. QED
        BY <3>2, <3>3, <3>4
    <2>4. QED
      BY <2>1, <2>2, <2>3 DEF ServerNext, Serve, ServeHello, ServeSetting, ServeStation,
         ServeSelect, ServeRequest, ServeEnd, ServeInfo, ServeBye, ServeUntimely, Handling,
         SendEnd, SendTrouble, SendPacket
  <1>3. QED
    BY <1>1, <1>2

(* and the network's.                                                      *)
LEMMA ProtoStep == TypeOK /\ Inv /\ ProtoInv /\ [Next]_vars => ProtoInv'
  <1> SUFFICES ASSUME TypeOK, Inv, ProtoInv, [Next]_vars PROVE ProtoInv'
    OBVIOUS
  <1>1. CASE ConnectSocket /\ Accept
    <2>1. /\ pc' = "hello" /\ sock' /\ srv' = Fresh /\ c2s' = <<>>
      BY <1>1 DEF ConnectSocket, Accept, Open, Goto
    <2>2. c2s' \in Seq(Unversioned) /\ srv'.proto = "V3"
      BY <2>1 DEF Fresh
    <2>3. QED
      BY <2>1, <2>2 DEF ProtoInv, Handshake
  <1>2. CASE (ClientStep \/ GoneQuiet \/ GoneLate) /\ UNCHANGED serverVars
    BY <1>2, ProtoClient
  <1>3. CASE ServerNext /\ UNCHANGED clientVars
    BY <1>3, ProtoServer
  <1>4. CASE Drop /\ UNCHANGED <<serverVars, clientVars>>
    <2>1. up' = FALSE /\ c2s' = <<>> /\ UNCHANGED <<sock, pc, protocol, cmd>>
      BY <1>4 DEF Drop, clientVars
    <2>2. c2s' \in Seq(Unversioned)
      BY <2>1
    <2>3. QED
      BY <2>1, <2>2 DEF ProtoInv
  <1>5. CASE UNCHANGED vars
    BY <1>5 DEF vars, wireVars, serverVars, clientVars, ProtoInv, Accepted
  <1>6. QED
    BY <1>1, <1>2, <1>3, <1>4, <1>5 DEF Next, Terminated

(* Nothing is streamed into a handshake, and info() and a careful          *)
(* negotiate() are not called over a running transfer.                     *)
StreamingInv ==
    /\ ~sock => ~streaming
    /\ pc \in Handshake \cup {"ask", "frames"} => ~streaming
    /\ conf.careful /\ pc \in {"plan", "walk", "reply"} => ~streaming

(* The client's steps keep it so,                                          *)
LEMMA StreamingClient ==
    ASSUME TypeOK, Inv, LeaveInv, StreamingInv,
           ConnectSocket \/ ClientStep \/ GoneQuiet \/ GoneLate
    PROVE  StreamingInv'
  <1> USE DEF StreamingInv, Handshake
  <1>0. streaming \in BOOLEAN /\ sock \in BOOLEAN
    BY DEF TypeOK, ClientTypeOK
  <1>1. CASE CallConnect \/ CallNegotiate \/ CallInfo \/ CallCollect
    BY <1>0, <1>1 DEF CallConnect, CallNegotiate, CallInfo, CallCollect, Enter, linkVars
  <1>2. CASE Disconnected
    <2>1. ~streaming'
      BY <1>2 DEF Disconnected
    <2>2. QED
      BY <2>1
  <1>3. CASE ConnectSocket
    <2>1. ~streaming /\ streaming' = streaming /\ sock' /\ pc' = "hello"
      BY <1>3 DEF ConnectSocket, Goto, Inv, LinkInv
    <2>2. QED
      BY <2>1
  <1>4. CASE SendHello \/ SendGreeting \/ Connected \/ Delay \/ LoopDisconnected
    BY <1>4 DEF SendHello, SendGreeting, Connected, Delay, LoopDisconnected, Goto, Return,
       linkVars, Inv, LinkInv
  <1>5. CASE ReadIdentity \/ ReadGreeting
    BY <1>2, <1>5 DEF ReadIdentity, ReadGreeting, ConnectRaises, Goto, linkVars
  <1>6. CASE StartPlan \/ SkipCommand \/ SendCommand \/ SendInfo \/ Resume \/ PollNothing
             \/ RecvData \/ RecvInfo \/ ReadInfo
    <2>1. /\ UNCHANGED <<sock, streaming, conf>>
          /\ \/ pc' = pc \/ pc' \in {"loop", "yield", "idle"}
             \/ pc = "ask" /\ pc' = "frames"
             \/ pc \in {"plan", "walk"} /\ pc' \in {"walk", "reply"}
      BY <1>6 DEF StartPlan, SkipCommand, SendCommand, SendInfo, Resume, PollNothing, RecvData,
         RecvInfo, ReadInfo, Goto, Return, linkVars, clientVars, ctlVars
    <2>2. QED
      BY <2>1
  <1>7. CASE RecvEnd
    BY <1>7 DEF RecvEnd
  <1>8. CASE Bye
    BY <1>2, <1>8 DEF Bye, linkVars, Inv, CallInv
  <1>9. CASE Keepalive
    BY <1>2, <1>9 DEF Keepalive, linkVars, ctlVars
  <1>10. ASSUME NEW open, NEW rest, NegotiateRaises(open, rest), UNCHANGED conf
         PROVE  StreamingInv'
    BY <1>2, <1>10 DEF NegotiateRaises, Return, linkVars
  <1>11. CASE ReadReply
    BY <1>10, <1>11 DEF ReadReply, Goto, linkVars
  <1>12. CASE FinishWalk
    <2>1. CASE WalkFails(walk)
      BY <1>10, <1>12, <2>1 DEF FinishWalk
    <2>2. CASE ~WalkFails(walk)
      <3>1. pc' \in {"idle", "loop"} /\ sock'
        BY <1>12, <2>2 DEF FinishWalk, Return, LeaveInv
      <3>2. QED
        BY <3>1
    <2>3. QED
      BY <2>1, <2>2
  <1>13. CASE ReadFails
    BY <1>2, <1>10, <1>13 DEF ReadFails, ConnectRaises, LoopRaises
  <1>14. CASE SendFails
    BY <1>2, <1>10, <1>14 DEF SendFails, ConnectRaises
  <1>15. CASE ReadTimesOut
    <2>1. CASE pc = "frames"
      <3>1. UNCHANGED linkVars /\ pc' = "idle"
        BY <1>15, <2>1 DEF ReadTimesOut, Return
      <3>2. QED
        BY <3>1 DEF linkVars
    <2>2. CASE pc # "frames"
      BY <1>2, <1>10, <1>15, <2>2 DEF ReadTimesOut, ConnectRaises
    <2>3. QED
      BY <2>1, <2>2
  <1>16. CASE ReadEof \/ ReadStalls \/ ReadGarbled
    BY <1>13, <1>16 DEF ReadEof, ReadStalls, ReadGarbled
  <1>17. CASE CallReconnect \/ Close \/ Break \/ ConnectRefused \/ GoneQuiet \/ GoneLate
              \/ RecvTrouble
    BY <1>2, <1>17 DEF CallReconnect, Close, Break, ConnectRefused, ConnectRaises, GoneQuiet,
       GoneLate, IdleTimeout, RecvTrouble, LoopRaises
  <1>18. QED
    BY <1>1, <1>3, <1>4, <1>5, <1>6, <1>7, <1>8, <1>9, <1>11, <1>12, <1>14, <1>15, <1>16, <1>17
    DEF ClientStep, User, Call, Progress, ConnectStep, NegotiateStep, CollectStep, Mishap

(* and nobody else touches _streaming.                                     *)
LEMMA StreamingStep ==
    TypeOK /\ Inv /\ LeaveInv /\ StreamingInv /\ [Next]_vars => StreamingInv'
  <1> SUFFICES ASSUME TypeOK, Inv, LeaveInv, StreamingInv, [Next]_vars PROVE StreamingInv'
    OBVIOUS
  <1>1. CASE ConnectSocket \/ ClientStep \/ GoneQuiet \/ GoneLate
    BY <1>1, StreamingClient
  <1>2. CASE UNCHANGED clientVars
    BY <1>2 DEF clientVars, StreamingInv
  <1>3. QED
    BY <1>1, <1>2 DEF Next, Terminated, vars

(* A transfer is read in the framing the server sends it in.               *)
THEOREM FramedAlike == Spec => []FramingAgrees
  <1>1. Init => LeaveInv /\ StreamingInv
    BY DEF Init, ClientInit, LeaveInv, StreamingInv, Handshake
  <1>2. Init => ProtoInv
    <2> SUFFICES ASSUME Init PROVE ProtoInv
      OBVIOUS
    <2>1. c2s \in Seq(Unversioned)
      BY DEF Init, WireInit
    <2>2. QED
      BY <2>1 DEF Init, WireInit, ClientInit, ProtoInv, Handshake
  <1>3. ProtoInv /\ StreamingInv => FramingAgrees
    BY DEF ProtoInv, StreamingInv, FramingAgrees
  <1>4. QED
    BY <1>1, <1>2, <1>3, TypeInit, TypeStep, InvInit, InvStep, LeaveStep, ProtoStep,
       StreamingStep, PTL DEF Spec

-----------------------------------------------------------------------------
(* The configuration is given once.                                        *)
LEMMA ConfStays == [Next]_vars => UNCHANGED conf
  BY DEF Next, vars, Terminated, clientVars, ConnectSocket, ClientStep, User, Call, CallConnect,
     CallReconnect, CallNegotiate,
     CallInfo, CallCollect, Close, Bye, Break, Progress, ConnectStep, SendHello,
     ReadIdentity, SendGreeting, ReadGreeting, Connected, NegotiateStep, StartPlan,
     SkipCommand, SendCommand, ReadReply, FinishWalk, CollectStep, Delay, LoopDisconnected,
     RecvData, RecvInfo, RecvEnd, RecvTrouble, SendInfo, ReadInfo, ReadEof, Keepalive,
     Resume, PollNothing, Mishap, SendFails, ReadStalls, ReadTimesOut, ReadGarbled,
     ConnectRefused, ReadFails, GoneQuiet, GoneLate, IdleTimeout

(* What the client reads it reads in order, and forgets when it closes.    *)
LEMMA ClientItems ==
    ASSUME TypeOK, Inv, ConnectSocket \/ ClientStep \/ GoneQuiet \/ GoneLate
    PROVE  \/ s2c' = <<>> /\ (up' => pc = "socket")
           \/ s2c' = s2c
           \/ /\ s2c # <<>> /\ s2c' = Tail(s2c)
              /\ \/ pc \in {"identity", "greeting", "reply", "frames"}
                 \/ RecvEnd
                 \/ Head(s2c).kind # "end" /\ (RecvData \/ Head(s2c).kind # "data")
  <1> USE DEF wireVars
  <1>1. CASE CallConnect \/ CallNegotiate \/ CallInfo \/ CallCollect \/ Resume \/ PollNothing
             \/ Connected \/ StartPlan \/ SkipCommand \/ Delay \/ LoopDisconnected
    BY <1>1 DEF CallConnect, CallNegotiate, CallInfo, CallCollect, Resume, PollNothing,
       Connected, StartPlan, SkipCommand, Delay, LoopDisconnected
  <1>2. CASE CallReconnect \/ Close \/ Break \/ ConnectSocket \/ ConnectRefused
    BY <1>2 DEF CallReconnect, Close, Break, Disconnected, Shut, ConnectSocket, Open,
       ConnectRefused, ConnectRaises
  <1>3. CASE RecvData \/ RecvInfo \/ RecvEnd \/ ReadInfo
    BY <1>3 DEF RecvData, RecvInfo, RecvEnd, ReadInfo, Take
  <1>4. CASE ReadIdentity \/ ReadGreeting
    BY <1>4 DEF ReadIdentity, ReadGreeting, ConnectRaises, Disconnected, Shut, Take
  <1>5. CASE Bye \/ Keepalive
    BY <1>5 DEF Bye, Keepalive, Send, Disconnected, Shut
  <1>6. CASE SendHello \/ SendGreeting \/ SendInfo \/ SendCommand
    BY <1>6 DEF SendHello, SendGreeting, SendInfo, SendCommand, Send
  <1>9. ASSUME NEW open, NEW rest, NegotiateRaises(open, rest)
        PROVE  (s2c' = <<>> /\ ~up') \/ (open /\ s2c' = rest)
    BY <1>9 DEF NegotiateRaises, Disconnected, Shut
  <1>10. CASE ReadReply \/ FinishWalk
    BY <1>9, <1>10 DEF ReadReply, FinishWalk, Take
  <1>11. CASE ReadFails
    BY <1>9, <1>11 DEF ReadFails, ConnectRaises, LoopRaises, Disconnected, Shut
  <1>12. CASE SendFails
    BY <1>9, <1>12 DEF SendFails, ConnectRaises, Disconnected, Shut
  <1>13. CASE ReadTimesOut
    BY <1>9, <1>13 DEF ReadTimesOut, ConnectRaises, Disconnected, Shut
  <1>14. CASE ReadEof \/ ReadStalls \/ ReadGarbled
    BY <1>11, <1>14 DEF ReadEof, ReadStalls, ReadGarbled
  <1>15. CASE GoneQuiet \/ GoneLate \/ RecvTrouble
    BY <1>15 DEF GoneQuiet, GoneLate, IdleTimeout, RecvTrouble, LoopRaises, Disconnected, Shut
  <1>16. QED
    BY <1>1, <1>2, <1>3, <1>4, <1>5, <1>6, <1>10, <1>12, <1>13, <1>14, <1>15
    DEF ClientStep, User, Call, Progress, ConnectStep, NegotiateStep, CollectStep, Mishap

(* What the server sends; END alone after the packets of a dial-up.        *)
Replies(r) == \E n \in Nat : \E name \in CommandNames :
                 r = [j \in 1..n |-> InfoFrame(name, j < n)]

(* A step of the server sends one item, the packets of an INFO, or none.   *)
LEMMA ServerItems ==
    ASSUME TypeOK, ServerNext
    PROVE  \/ s2c' = s2c
           \/ \E x \in Item : /\ s2c' = Append(s2c, x)
                              /\ x.kind = "end" => SendEnd
           \/ \E r : Replies(r) /\ s2c' = s2c \o r
  <1>a. WireTypeOK /\ ServerTypeOK
    BY DEF TypeOK
  <1>1. CASE ServeHello
    <2>1. Identity(peer.majors, peer.cap) \in Item
      BY <1>a, ServerAssumption DEF ServerTypeOK, Identity, Item, Peer
    <2>2. Identity(peer.majors, peer.cap).kind # "end"
      BY DEF Identity
    <2>3. QED
      BY <1>1, <2>1, <2>2 DEF ServeHello
  <1>2. ASSUME NEW c \in Command, NEW ok \in BOOLEAN, Answer(c, ok)
        PROVE  \/ s2c' = s2c
               \/ \E x \in Item : s2c' = Append(s2c, x) /\ x.kind # "end"
    <2>1. Line(c.name, ok) \in Item /\ Line(c.name, ok).kind # "end"
      BY DEF Line, Item, Command
    <2>2. QED
      BY <1>2, <2>1 DEF Answer
  <1>3. CASE ServeSetting \/ ServeStation \/ ServeSelect \/ ServeRequest
    <2>1. Head(c2s) \in Command
      BY <1>3, <1>a, HeadOK DEF ServeSetting, ServeStation, ServeSelect, ServeRequest, Handling
    <2>2. s2c' = s2c \/ Answer(Head(c2s), TRUE) \/ Answer(Head(c2s), FALSE)
      BY <1>3 DEF ServeSetting, ServeStation, ServeSelect, ServeRequest, Obey, Refuse
    <2>3. QED
      BY <1>2, <2>1, <2>2
  <1>4. CASE ServeEnd \/ ServeBye
    BY <1>4 DEF ServeEnd, ServeBye
  <1>5. CASE ServeInfo
    <2>1. Head(c2s) \in Command /\ Head(c2s).name \in CommandNames
      BY <1>5, <1>a, HeadOK DEF ServeInfo, Handling
    <2>2. CASE Refuse(Head(c2s))
      BY <1>2, <2>1, <2>2 DEF Refuse
    <2>3. CASE ~Refuse(Head(c2s))
      <3>1. PICK n \in 1..(IF srv.proto = "V3" THEN MaxInfo ELSE 1) :
               s2c' = s2c \o [j \in 1..n |-> InfoFrame(Head(c2s).name, j < n)]
        BY <1>5, <2>3 DEF ServeInfo
      <3>2. n \in Nat
        BY <3>1, ServerAssumption
      <3>3. Replies([j \in 1..n |-> InfoFrame(Head(c2s).name, j < n)])
        BY <2>1, <3>2 DEF Replies
      <3>4. QED
        BY <3>1, <3>3
    <2>4. QED
      BY <2>2, <2>3
  <1>6. CASE ServeUntimely \/ SendTrouble
    <2>1. {Line("", FALSE), Mark("jsonerror"), Mark("junk")} \subseteq Item
      BY DEF Line, Mark, Item
    <2>2. \A x \in {Line("", FALSE), Mark("jsonerror"), Mark("junk")} : x.kind # "end"
      <3>1. \A n, ok : Line(n, ok).kind # "end"
        BY DEF Line
      <3>2. Mark("jsonerror").kind # "end" /\ Mark("junk").kind # "end"
        BY DEF Mark
      <3>3. QED
        BY <3>1, <3>2, Zenon
    <2>3. \E x \in {Line("", FALSE), Mark("jsonerror"), Mark("junk")} : s2c' = Append(s2c, x)
      BY <1>6, Zenon DEF ServeUntimely, SendTrouble
    <2>4. QED
      BY <2>1, <2>2, <2>3, Zenon
  <1>7. CASE SendEnd
    <2>1. Mark("end") \in Item
      BY DEF Mark, Item
    <2>2. QED
      BY <1>7, <2>1 DEF SendEnd
  <1>8. ASSUME NEW st \in Stations, SendPacket(st)
        PROVE  \E x \in Item : s2c' = Append(s2c, x) /\ x.kind # "end"
    <2>1. cursor[st] \in 1..Len(log[st])
      BY <1>8 DEF SendPacket, Waiting
    <2>2. log[st][cursor[st]] \in Nat
      BY <1>a, <2>1 DEF ServerTypeOK
    <2>3. DataFrame(st, cursor[st], log[st][cursor[st]]) \in Item
      BY <1>a, <2>2 DEF DataFrame, Item, ServerTypeOK
    <2>4. DataFrame(st, cursor[st], log[st][cursor[st]]).kind # "end"
      BY DEF DataFrame
    <2>5. QED
      BY <1>8, <2>3, <2>4 DEF SendPacket
  <1>9. ASSUME NEW st \in Stations, Publish(st)
        PROVE  s2c' = s2c
    BY <1>9 DEF Publish, wireVars
  <1>10. QED
    BY <1>1, <1>3, <1>4, <1>5, <1>6, <1>7, <1>8, <1>9 DEF ServerNext, Serve

(* The packets of an INFO are INFO packets.                                *)
LEMMA RepliesOK ==
    ASSUME NEW r, Replies(r), NEW S, \A x \in Item : x.kind = "info" => x \in S
    PROVE  r \in Seq(S)
  <1>1. PICK n \in Nat : \E name \in CommandNames : r = [j \in 1..n |-> InfoFrame(name, j < n)]
    BY DEF Replies
  <1>2. PICK name \in CommandNames : r = [j \in 1..n |-> InfoFrame(name, j < n)]
    BY <1>1
  <1>3. \A m \in BOOLEAN : InfoFrame(name, m) \in S
    <2>1. \A m \in BOOLEAN : InfoFrame(name, m) \in Item /\ InfoFrame(name, m).kind = "info"
      BY DEF InfoFrame, Item
    <2>2. QED
      BY <2>1
  <1>4. ASSUME NEW j \in 1..n PROVE InfoFrame(name, j < n) \in S
    <2>1. (j < n) \in BOOLEAN
      OBVIOUS
    <2>2. QED
      BY <1>3, <2>1, Zenon
  <1>5. QED
    BY <1>2, <1>4

(* So if every item that may arrive is in S, so are those under way.       *)
LEMMA ItemsOK ==
    ASSUME NEW S, TypeOK, Inv, [Next]_vars, s2c \in Seq(S),
           \A x \in Item : (x.kind = "end" => SendEnd) => x \in S
    PROVE  s2c' \in Seq(S)
  <1>1. CASE s2c' = <<>> \/ s2c' = s2c
    <2>1. <<>> \in Seq(S)
      OBVIOUS
    <2>2. QED
      BY <1>1, <2>1, Zenon
  <1>2. CASE s2c # <<>> /\ s2c' = Tail(s2c)
    BY <1>2
  <1>3. ASSUME NEW x \in Item, s2c' = Append(s2c, x), x.kind = "end" => SendEnd
        PROVE  s2c' \in Seq(S)
    <2>1. x \in S
      BY <1>3
    <2>2. QED
      BY <1>3, <2>1
  <1>4. ASSUME NEW r, Replies(r), s2c' = s2c \o r PROVE s2c' \in Seq(S)
    <2>1. \A x \in Item : x.kind = "info" => x \in S
      OBVIOUS
    <2>2. r \in Seq(S)
      BY <1>4, <2>1, RepliesOK
    <2>3. QED
      BY <1>4, <2>2, ConcatProperties
  <1>5. CASE Drop
    <2>1. PICK n \in 0..Len(s2c) : s2c' = SubSeq(s2c, 1, n)
      BY <1>5 DEF Drop
    <2>2. n \in Nat /\ \A i \in 1..n : s2c[i] \in S
      BY LenProperties
    <2>3. QED
      BY <2>1, <2>2, SubSeqProperties
  <1>6. CASE ConnectSocket \/ ClientStep \/ GoneQuiet \/ GoneLate
    BY <1>1, <1>2, <1>6, ClientItems
  <1>7. CASE ServerNext
    BY <1>1, <1>3, <1>4, <1>7, ServerItems
  <1>8. CASE UNCHANGED vars
    BY <1>1, <1>8 DEF vars, wireVars
  <1>9. QED
    BY <1>5, <1>6, <1>7, <1>8 DEF Next, Terminated

(* Commands that say what they are; those of a dial-up are sent by a        *)
(* dialling client alone.                                                  *)
Told(dialup) ==
    {c \in Command :
        /\ c.role = "end"  => c.name \in {"END", "ENDFETCH"}
        /\ c.role = "data" => c.name \in {"DATA", "FETCH", "TIME"}
        /\ dialup \/ c.name \notin {"FETCH", "ENDFETCH"}}

Endless == {x \in Item : x.kind # "end"}

(* So END is sent to nobody else.                                          *)
DialInv == /\ c2s \in Seq(Told(conf.dialup))
           /\ ~conf.dialup => ~srv.dial /\ s2c \in Seq(Endless)

(* A plan consists of such commands,                                       *)
LEMMA CurrentTold == Current \in Command => Current \in Told(conf.dialup)
  <1> SUFFICES ASSUME Current \in Command PROVE Current \in Told(conf.dialup)
    OBVIOUS
  <1>1. /\ Current.role = "end"  => Current.name \in {"END", "ENDFETCH"}
        /\ Current.role = "data" => Current.name \in {"DATA", "FETCH", "TIME"}
        /\ Current.name \in {"FETCH", "ENDFETCH"} => conf.dialup
    BY DEF Current, CmdAt, EndCommand, DataCommand, DataV3Name, ForStream
  <1>2. QED
    BY <1>1 DEF Told

(* and so does what is sent at all.                                        *)
LEMMA DialStep == TypeOK /\ Inv /\ DialInv /\ [Next]_vars => DialInv'
  <1> SUFFICES ASSUME TypeOK, Inv, DialInv, [Next]_vars PROVE DialInv'
    OBVIOUS
  <1>0. conf' = conf
    BY ConfStays
  <1>1. ASSUME NEW c, Sends(c) PROVE c \in Told(conf.dialup)
    <2>1. CASE c = Current
      <3>1. Current \in Command
        BY CmdAtOK, ClientAssumption DEF Current, TypeOK, ClientTypeOK
      <3>2. QED
        BY <2>1, <3>1, CurrentTold
    <2>2. ASSUME NEW n \in CommandNames \ {"FETCH", "ENDFETCH"},
                 NEW p \in {"none", "reply", "ok", "auth"}
          PROVE  Generic(n, p) \in Told(conf.dialup)
      <3>1. Generic(n, p) \in Command
        BY <2>2, GenericOK
      <3>2. Generic(n, p).role = "generic" /\ Generic(n, p).name = n
        BY DEF Generic
      <3>3. QED
        BY <2>2, <3>1, <3>2 DEF Told
    <2>3. CASE pc = "greet" /\ NextGreeting # None /\ c = NextGreeting
      BY <2>2, <2>3 DEF NextGreeting, HandshakeAfter, AfterV3, AfterV4, CommandNames
    <2>4. QED
      BY <1>1, <2>1, <2>2, <2>3 DEF Sends, Hello, CommandNames
  <1>2. c2s' \in Seq(Told(conf.dialup))
    BY <1>1, QueueOK DEF DialInv
  <1>3. ASSUME ~conf.dialup PROVE ~srv'.dial
    <2>1. c2s # <<>> => Head(c2s).name \notin {"FETCH", "ENDFETCH"}
      BY <1>3, HeadTailProperties DEF DialInv, Told
    <2>2. ~srv.dial /\ srv \in ServerState
      BY <1>3 DEF DialInv, TypeOK, ServerTypeOK
    <2>3. CASE ServerNext
      <3>1. CASE ServeRequest
        <4>1. PICK dial : dial = (srv.dial \/ Head(c2s).name = "FETCH")
          OBVIOUS
        <4>2. \/ srv' = srv
              \/ srv' = [srv EXCEPT !.phase = "stream", !.dial = dial]
              \/ srv' = [srv EXCEPT !.dial = dial]
          BY <3>1, <4>1 DEF ServeRequest
        <4>3. srv'.dial = srv.dial \/ srv'.dial = dial
          BY <2>2, <4>2 DEF ServerState
        <4>4. Head(c2s).name # "FETCH"
          BY <2>1, <3>1 DEF ServeRequest, Handling
        <4>5. dial = FALSE
          BY <2>2, <4>1, <4>4
        <4>6. QED
          BY <2>2, <4>3, <4>5
      <3>2. CASE ServeEnd
        BY <2>1, <2>2, <3>2 DEF ServeEnd, Handling, ServerState
      <3>3. CASE ~ServeRequest /\ ~ServeEnd
        BY <2>2, <2>3, <3>3 DEF ServerNext, Serve, ServeHello, ServeSetting, ServeStation,
           ServeSelect, ServeInfo, ServeBye, ServeUntimely, SendEnd, SendTrouble,
           SendPacket, Publish, serverVars, ServerState
      <3>4. QED
        BY <3>1, <3>2, <3>3
    <2>4. CASE ~ServerNext
      <3>1. srv' = srv \/ srv' = Fresh
        BY <2>4 DEF Next, Terminated, vars, serverVars, Accept
      <3>2. QED
        BY <2>2, <3>1 DEF Fresh
    <2>5. QED
      BY <2>3, <2>4
  <1>4. ASSUME ~conf.dialup PROVE s2c' \in Seq(Endless)
    <2>1. ~SendEnd
      BY <1>4 DEF DialInv, SendEnd
    <2>2. \A x \in Item : (x.kind = "end" => SendEnd) => x \in Endless
      BY <2>1 DEF Endless
    <2>3. s2c \in Seq(Endless)
      BY <1>4 DEF DialInv
    <2>4. QED
      BY <2>2, <2>3, ItemsOK
  <1>5. QED
    BY <1>0, <1>2, <1>3, <1>4 DEF DialInv

-----------------------------------------------------------------------------
(* A uni-station plan holds no STATION, so nothing of it is skipped, its    *)
(* DATA has no reply, and the server never leaves uni-station mode.  Every *)
(* reply awaited is one of a stream's commands.                            *)
Unaddressed == {c \in Command : c.name # "STATION"}

UniNow == Uni(protocol, conf)

UniInv ==
    /\ pc \in Handshake => ~srv.multi /\ c2s \in Seq(Unaddressed)
    /\ up /\ UniNow /\ pc \notin Handshake => ~srv.multi /\ c2s \in Seq(Unaddressed)

PlanInv ==
    /\ UniNow /\ pc \in {"walk", "reply"} => ~walk.skip /\ (pos.s = 1 => pos.k # 0)
    /\ pc = "reply" => pos.s \in StreamIds
    /\ pc = "reply" /\ UniNow => pos.k <= NSel[pos.s] /\ cmd.role # "station"

(* A uni-station plan asks for one stream and has no STATION.              *)
LEMMA UniPlan ==
    ASSUME TypeOK, UniNow, ~Done
    PROVE  /\ pos.s = 1 /\ NStreams = 1 /\ pos.s \in StreamIds
           /\ pos.k # 0 => Current.role \in {"select", "data"} /\ Current.name # "STATION"
           /\ pos.k # 0 /\ Current.parse # "none" => pos.k <= NSel[pos.s]
           /\ PlanNext(pos).s = 1 => PlanNext(pos).k # 0
  <1>1. conf \in Configs /\ ~conf.multistation /\ protocol # "V4"
    BY DEF UniNow, Uni, TypeOK, ClientTypeOK
  <1>2. NStreams = 1 /\ pos.s \in Nat \ {0} /\ pos.k \in Nat
    BY <1>1, ClientAssumption DEF TypeOK, ClientTypeOK, PlanPos
  <1>3. pos.s = 1 /\ pos.s \in StreamIds
    BY <1>2 DEF Done, PlanDone, UniNow, StreamIds
  <1>4. ASSUME pos.k # 0
        PROVE  /\ Current.role \in {"select", "data"} /\ Current.name # "STATION"
               /\ Current.parse # "none" => pos.k <= NSel[pos.s]
    BY <1>3, <1>4 DEF Current, CmdAt, DataCommand, DataV3Name, ForStream, UniNow, Uni
  <1>5. PlanNext(pos).s = 1 => PlanNext(pos).k # 0
    <2>1. CASE pos.k <= NSel[pos.s]
      BY <1>2, <1>3, <2>1 DEF PlanNext, TypeOK, ClientTypeOK, PlanPos
    <2>2. CASE ~(pos.k <= NSel[pos.s])
      BY <1>2, <1>3, <2>2 DEF PlanNext
    <2>3. QED
      BY <2>1, <2>2
  <1>6. QED
    BY <1>2, <1>3, <1>4, <1>5

(* Only negotiate()'s own steps lead to its next command or reply,         *)
LEMMA PlanSteps ==
    ASSUME TypeOK, Inv, ConnectSocket \/ ClientStep \/ GoneQuiet \/ GoneLate,
           pc' \in {"walk", "reply"}
    PROVE  StartPlan \/ SkipCommand \/ SendCommand \/ ReadReply
  <1>1. ASSUME NEW how, Return(how) PROVE FALSE
    BY <1>1 DEF Return
  <1>2. ASSUME NEW open, NEW rest, NegotiateRaises(open, rest) PROVE FALSE
    BY <1>1, <1>2 DEF NegotiateRaises, Goto
  <1>3. ASSUME NEW how, ConnectRaises(how) PROVE FALSE
    BY <1>1, <1>3 DEF ConnectRaises, Goto
  <1>4. ASSUME LoopRaises PROVE FALSE
    BY <1>1, <1>4 DEF LoopRaises, Goto
  <1>5. ~(Call \/ Close \/ Bye \/ Break \/ Resume \/ PollNothing \/ Keepalive)
    BY <1>1 DEF Inv, CallInv, Call, CallConnect, CallReconnect, CallNegotiate, CallInfo, CallCollect,
       Enter, Close, Bye, Break, Resume, PollNothing, Keepalive, Goto, clientVars, ctlVars
  <1>6. ~(ConnectSocket \/ ConnectRefused \/ SendHello \/ SendGreeting \/ ReadIdentity
          \/ ReadGreeting \/ Connected)
    BY <1>1, <1>3 DEF ConnectSocket, ConnectRefused, SendHello, SendGreeting, ReadIdentity,
       ReadGreeting, Connected, Goto
  <1>7. ~(FinishWalk \/ SendInfo \/ ReadInfo)
    BY <1>1, <1>2 DEF FinishWalk, SendInfo, ReadInfo, Goto
  <1>8. ~ReadFails
    BY <1>1, <1>2, <1>3, <1>4 DEF ReadFails
  <1>9. ~(SendFails \/ ReadTimesOut \/ ReadEof \/ ReadStalls \/ ReadGarbled)
    BY <1>1, <1>2, <1>3, <1>8 DEF SendFails, ReadTimesOut, ReadEof, ReadStalls, ReadGarbled
  <1>10. ~(Delay \/ LoopDisconnected \/ RecvData \/ RecvInfo \/ RecvEnd \/ RecvTrouble
           \/ GoneQuiet \/ GoneLate)
    BY <1>1, <1>4 DEF Delay, LoopDisconnected, RecvData, RecvInfo, RecvEnd, RecvTrouble,
       GoneQuiet, GoneLate, IdleTimeout, Goto, clientVars
  <1>11. QED
    BY <1>5, <1>6, <1>7, <1>9, <1>10
    DEF ClientStep, User, Progress, ConnectStep, NegotiateStep, CollectStep, Mishap

(* and they keep to the plan.                                              *)
LEMMA PlanStep ==
    ASSUME TypeOK, Inv, PlanInv, ConnectSocket \/ ClientStep \/ GoneQuiet \/ GoneLate
    PROVE  PlanInv'
  <1>a. CASE pc' \notin {"walk", "reply"}
    BY <1>a DEF PlanInv
  <1>1. CASE StartPlan
    <2>1. /\ pc' = "walk" /\ UNCHANGED <<protocol, conf>>
          /\ walk' = NewWalk /\ pos' = PlanStart(protocol, conf)
      BY <1>1 DEF StartPlan, Goto, identVars
    <2>2. UniNow' => UniNow
      BY <2>1 DEF UniNow
    <2>3. ~walk'.skip /\ (UniNow => pos'.k # 0)
      BY <2>1 DEF NewWalk, PlanStart, UniNow
    <2>4. QED
      BY <2>1, <2>2, <2>3 DEF PlanInv
  <1>2. CASE SkipCommand
    <2>1. /\ pc = "walk" /\ pc' = "walk" /\ ~Done /\ ~WalkSends(walk, Current)
          /\ UNCHANGED <<protocol, conf>>
      BY <1>2 DEF SkipCommand, ctlVars, identVars
    <2>2. ~UniNow
      BY <2>1, UniPlan DEF PlanInv, WalkSends
    <2>3. ~UniNow'
      BY <2>1, <2>2 DEF UniNow
    <2>4. QED
      BY <2>1, <2>3 DEF PlanInv
  <1>3. CASE SendCommand
    <2>1. /\ pc = "walk" /\ ~Done /\ UNCHANGED <<protocol, conf>>
          /\ \/ /\ pc' = "walk" /\ pos' = PlanNext(pos)
                /\ walk' = WalkRecord(WalkEnter(walk, Current), Current, FALSE)
             \/ /\ pc' = "reply" /\ Current.parse # "none" /\ pos' = pos /\ cmd' = Current
                /\ walk' = WalkEnter(walk, Current)
      BY <1>3 DEF SendCommand, Sendable, Goto, identVars
    <2>2. UniNow' => UniNow
      BY <2>1 DEF UniNow
    <2>3. ASSUME UniNow PROVE ~walk'.skip /\ (pos'.s = 1 => pos'.k # 0)
      <3>1. pos.s = 1 /\ pos.k # 0 /\ ~walk.skip /\ Current.role \in {"select", "data"}
        BY <2>1, <2>3, UniPlan DEF PlanInv
      <3>2. walk' = walk
        BY <2>1, <3>1 DEF WalkEnter, WalkRecord
      <3>3. QED
        BY <2>1, <2>3, <3>1, <3>2, UniPlan
    <2>4. CASE pc' = "reply"
      <3>1. Current.parse # "none" /\ pos' = pos
        BY <2>1, <2>4
      <3>2. pos.s \in StreamIds
        BY <3>1 DEF Current, CmdAt, EndCommand, ForStream
      <3>3. UniNow => pos.k <= NSel[pos.s] /\ Current.role # "station"
        <4>1. UniNow => pos.s = 1 /\ pos.k # 0
          BY <2>1, UniPlan DEF PlanInv
        <4>2. QED
          BY <2>1, <3>1, <4>1, UniPlan
      <3>4. QED
        BY <2>1, <2>2, <2>3, <2>4, <3>1, <3>2, <3>3 DEF PlanInv
    <2>5. QED
      BY <2>1, <2>2, <2>3, <2>4 DEF PlanInv
  <1>4. CASE ReadReply /\ pc' = "walk"
    <2>1. /\ pc = "reply" /\ UNCHANGED <<protocol, conf>> /\ pos' = PlanNext(pos)
          /\ \E ok : walk' = WalkRecord(walk, cmd, ok)
      BY <1>4 DEF ReadReply, NegotiateRaises, Return, Goto, identVars
    <2>2. UniNow' => UniNow
      BY <2>1 DEF UniNow
    <2>3. ASSUME UniNow PROVE ~walk'.skip /\ (pos'.s = 1 => pos'.k # 0)
      <3>1. pos.s \in StreamIds /\ ~walk.skip /\ cmd.role # "station"
        BY <2>1, <2>3 DEF PlanInv
      <3>2. ~Done
        BY <2>3, <3>1, CommandsAssumption DEF Done, PlanDone, UniNow, StreamIds
      <3>3. walk' = walk
        BY <2>1, <3>1 DEF WalkRecord
      <3>4. QED
        BY <2>1, <2>3, <3>1, <3>2, <3>3, UniPlan
    <2>4. QED
      BY <1>4, <2>2, <2>3 DEF PlanInv
  <1>5. CASE ReadReply /\ pc' = "reply"
    BY <1>5 DEF ReadReply, NegotiateRaises, Return, Goto
  <1>6. QED
    BY <1>a, <1>1, <1>2, <1>3, <1>4, <1>5, PlanSteps

(* The client's part: what it sends in uni-station mode is no STATION.     *)
LEMMA UniClient ==
    ASSUME TypeOK, Inv, ProtoInv, PlanInv, UniInv, ClientStep \/ GoneQuiet \/ GoneLate,
           UNCHANGED serverVars, [Next]_vars
    PROVE  UniInv'
  <1>0. UNCHANGED <<srv, conf>>
    BY ConfStays DEF serverVars
  <1>a. ASSUME NEW n \in CommandNames \ {"STATION"}, NEW p \in {"none", "reply", "ok", "auth"}
        PROVE  Generic(n, p) \in Unaddressed
    <2>1. Generic(n, p) \in Command
      BY <1>a, GenericOK
    <2>2. Generic(n, p).name = n
      BY DEF Generic
    <2>3. QED
      BY <1>a, <2>1, <2>2 DEF Unaddressed
  <1>1. CASE pc \notin Handshake
    <2>1. /\ pc' \notin Handshake /\ UNCHANGED protocol
          /\ up' => up
      BY <1>1, Outside DEF ProtoInv
    <2>2. ASSUME up, UniNow PROVE c2s' \in Seq(Unaddressed)
      <3>1. ASSUME NEW c, Sends(c) PROVE c \in Unaddressed
        <4>1. CASE pc = "walk" /\ Sendable /\ c = Current
          <5>1. Current \in Command
            BY CmdAtOK, ClientAssumption DEF Current, TypeOK, ClientTypeOK
          <5>2. pos.s = 1 /\ Current.name # "STATION"
            BY <2>2, <4>1, UniPlan DEF Sendable, PlanInv
          <5>3. QED
            BY <4>1, <5>1, <5>2 DEF Unaddressed
        <4>2. QED
          BY <1>1, <1>a, <3>1, <4>1 DEF Sends, Handshake, CommandNames
      <3>2. QED
        BY <1>1, <2>2, <3>1, QueueOK DEF UniInv
    <2>3. UniNow' = UniNow
      BY <1>0, <2>1 DEF UniNow
    <2>4. QED
      BY <1>0, <1>1, <2>1, <2>2, <2>3 DEF UniInv
  <1>2. CASE pc \in Handshake
    <2>1. ~srv.multi /\ c2s \in Seq(Unaddressed)
      BY <1>2 DEF UniInv
    <2>2. ASSUME NEW c, Sends(c) PROVE c \in Unaddressed
      BY <1>2, <1>a, <2>2 DEF Sends, Hello, NextGreeting, HandshakeAfter, AfterV3, AfterV4,
         Handshake, CommandNames
    <2>3. c2s' \in Seq(Unaddressed)
      BY <2>1, <2>2, QueueOK
    <2>4. QED
      BY <1>0, <2>1, <2>3 DEF UniInv
  <1>3. QED
    BY <1>1, <1>2

(* The server's part: it stays in the mode nobody takes it out of.         *)
LEMMA UniServer ==
    ASSUME TypeOK, Inv, UniInv, ServerNext, UNCHANGED clientVars, [Next]_vars
    PROVE  UniInv'
  <1>0. UNCHANGED <<conf, protocol, pc>>
    BY DEF clientVars
  <1>1. ASSUME ~srv.multi, c2s \in Seq(Unaddressed)
        PROVE  ~srv'.multi /\ c2s' \in Seq(Unaddressed)
    <2>1. c2s' \in Seq(Unaddressed)
      <3>1. CASE c2s' = <<>>
        BY <3>1
      <3>2. CASE c2s' = c2s
        BY <1>1, <3>2
      <3>3. CASE c2s # <<>> /\ c2s' = Tail(c2s)
        BY <1>1, <3>3
      <3>4. QED
        BY <3>1, <3>2, <3>3, ServerQueue
    <2>2. c2s # <<>> => Head(c2s).name # "STATION"
      BY <1>1, HeadTailProperties DEF Unaddressed
    <2>3. srv \in ServerState
      BY DEF TypeOK, ServerTypeOK
    <2>4. ~ServeStation
      BY <2>2 DEF ServeStation, Handling
    <2>5. CASE ServeRequest
      <3>1. PICK dial : dial = (srv.dial \/ Head(c2s).name = "FETCH")
        OBVIOUS
      <3>2. \/ srv' = srv
            \/ srv' = [srv EXCEPT !.phase = "stream", !.dial = dial]
            \/ srv' = [srv EXCEPT !.dial = dial]
        BY <2>5, <3>1 DEF ServeRequest
      <3>3. QED
        BY <1>1, <2>1, <2>3, <3>2 DEF ServerState
    <2>6. CASE ServeSetting
      <3>1. \/ srv' = srv
            \/ \E p, b : srv' = [srv EXCEPT !.proto = p, !.batch = b]
        BY <2>6 DEF ServeSetting
      <3>2. QED
        BY <1>1, <2>1, <2>3, <3>1 DEF ServerState
    <2>7. CASE ServeEnd
      <3>1. \E d : srv' = [srv EXCEPT !.phase = "stream", !.dial = d]
        BY <2>7 DEF ServeEnd
      <3>2. QED
        BY <1>1, <2>1, <2>3, <3>1 DEF ServerState
    <2>8. CASE SendEnd
      BY <2>1, <2>3, <2>8 DEF SendEnd, ServerState
    <2>9. CASE ~(ServeStation \/ ServeRequest \/ ServeSetting \/ ServeEnd \/ SendEnd)
      <3>1. srv' = srv
        BY <2>9 DEF ServerNext, Serve, ServeHello, ServeSelect, ServeInfo, ServeBye,
           ServeUntimely, SendTrouble, SendPacket, Publish, serverVars
      <3>2. QED
        BY <1>1, <2>1, <3>1
    <2>10. QED
      BY <2>4, <2>5, <2>6, <2>7, <2>8, <2>9
  <1>2. up' => up
    BY DEF ServerNext, Serve, ServeHello, ServeSetting, ServeStation, ServeSelect,
       ServeRequest, ServeEnd, ServeInfo, ServeBye, ServeUntimely, Handling, SendEnd,
       SendTrouble, SendPacket, Publish, wireVars
  <1>3. UniNow' = UniNow
    BY <1>0 DEF UniNow
  <1>4. QED
    BY <1>0, <1>1, <1>2, <1>3 DEF UniInv

(* Every step keeps the plan and the mode.                                 *)
LEMMA UniStep ==
    TypeOK /\ Inv /\ ProtoInv /\ PlanInv /\ UniInv /\ [Next]_vars => PlanInv' /\ UniInv'
  <1> SUFFICES ASSUME TypeOK, Inv, ProtoInv, PlanInv, UniInv, [Next]_vars
               PROVE  PlanInv' /\ UniInv'
    OBVIOUS
  <1>1. PlanInv'
    <2>1. CASE ConnectSocket \/ ClientStep \/ GoneQuiet \/ GoneLate
      BY <2>1, PlanStep
    <2>2. CASE UNCHANGED clientVars
      BY <2>2 DEF clientVars, PlanInv, UniNow
    <2>3. QED
      BY <2>1, <2>2 DEF Next, Terminated, vars
  <1>2. CASE ConnectSocket /\ Accept
    <2>1. /\ pc' = "hello" /\ srv' = Fresh /\ c2s' = <<>>
      BY <1>2 DEF ConnectSocket, Accept, Open, Goto
    <2>2. c2s' \in Seq(Unaddressed) /\ ~srv'.multi
      BY <2>1 DEF Fresh
    <2>3. QED
      BY <1>1, <2>1, <2>2 DEF UniInv, Handshake
  <1>3. CASE (ClientStep \/ GoneQuiet \/ GoneLate) /\ UNCHANGED serverVars
    BY <1>1, <1>3, UniClient
  <1>4. CASE ServerNext /\ UNCHANGED clientVars
    BY <1>1, <1>4, UniServer
  <1>5. CASE Drop /\ UNCHANGED <<serverVars, clientVars>>
    <2>1. up' = FALSE /\ c2s' = <<>> /\ UNCHANGED <<srv, pc>>
      BY <1>5 DEF Drop, clientVars, serverVars
    <2>2. c2s' \in Seq(Unaddressed)
      BY <2>1
    <2>3. QED
      BY <1>1, <2>1, <2>2 DEF UniInv
  <1>6. CASE UNCHANGED vars
    BY <1>1, <1>6 DEF vars, wireVars, serverVars, clientVars, UniInv, UniNow
  <1>7. QED
    BY <1>2, <1>3, <1>4, <1>5, <1>6 DEF Next, Terminated

-----------------------------------------------------------------------------
(* The server has been told to start.                                      *)

Heeded == conf.careful \/ ~conf.dialup

Asked == \/ srv.phase = "stream"
         \/ \E k \in 1..Len(c2s) : Starts(c2s[k])
         \/ \E k \in 1..Len(s2c) : s2c[k].kind = "end"

(* The last command of a plan is the one that starts the transfer: once    *)
(* negotiate() is through, it is under way.                                *)
AskedInv == Heeded /\ up /\ (streaming \/ (pc = "walk" /\ Done)) => Asked

(* What joins a queue leaves the others where they are,                    *)
LEMMA Joining ==
    ASSUME NEW S, NEW q \in Seq(S), NEW r \in Seq(S), NEW x \in S, NEW k \in 1..Len(q)
    PROVE  /\ k \in 1..Len(Append(q, x)) /\ Append(q, x)[k] = q[k]
           /\ k \in 1..Len(q \o r) /\ (q \o r)[k] = q[k]
  BY AppendProperties, ConcatProperties, LenProperties

(* and is there itself;                                                    *)
LEMMA Joined ==
    ASSUME NEW S, NEW q \in Seq(S), NEW x \in S
    PROVE  Len(q) + 1 \in 1..Len(Append(q, x)) /\ Append(q, x)[Len(q) + 1] = x
  BY AppendProperties, LenProperties

(* what is taken from it is its head.                                      *)
LEMMA Leaving ==
    ASSUME NEW S, NEW q \in Seq(S), NEW k \in 1..Len(q), q[k] # Head(q)
    PROVE  q # <<>> /\ k - 1 \in 1..Len(Tail(q)) /\ Tail(q)[k - 1] = q[k]
  <1>1. q # <<>> /\ Head(q) = q[1] /\ Len(q) \in Nat
    BY LenProperties
  <1>2. k # 1
    BY <1>1
  <1>3. Len(Tail(q)) = Len(q) - 1 /\ \A i \in 1..Len(Tail(q)) : Tail(q)[i] = q[i + 1]
    BY <1>1, HeadTailProperties
  <1>4. k - 1 \in 1..Len(Tail(q)) /\ (k - 1) + 1 = k
    BY <1>1, <1>2, <1>3
  <1>5. QED
    BY <1>1, <1>3, <1>4

(* A command that starts a transfer is obeyed.                             *)
LEMMA Started ==
    ASSUME TypeOK, ProtoInv, DialInv, UniInv, ServerNext, UNCHANGED clientVars,
           up, up', pc \notin Handshake, c2s # <<>>, c2s' = Tail(c2s), Starts(Head(c2s))
    PROVE  srv'.phase = "stream"
  <1>1. Head(c2s) \in Told(conf.dialup)
    BY HeadTailProperties DEF DialInv
  <1>2. srv \in ServerState /\ c2s \in Seq(Command)
    BY DEF TypeOK, ServerTypeOK, WireTypeOK
  <1>3. c2s' # c2s
    BY <1>2, HeadTailProperties
  <1>4. CASE Head(c2s).role = "end"
    <2>1. Head(c2s).name \in {"END", "ENDFETCH"}
      BY <1>1, <1>4 DEF Told
    <2>2. ServeEnd \/ ServeUntimely
      BY <1>3, <2>1 DEF ServerNext, Serve, ServeHello, ServeSetting, ServeStation, ServeSelect,
         ServeRequest, ServeInfo, ServeBye, Handling, SendEnd, SendTrouble, SendPacket,
         Publish, wireVars
    <2>3. CASE ServeEnd
      <3>1. \E d : srv' = [srv EXCEPT !.phase = "stream", !.dial = d]
        BY <2>3 DEF ServeEnd
      <3>2. QED
        BY <1>2, <3>1 DEF ServerState
    <2>4. CASE ServeUntimely
      BY <2>4 DEF ServeUntimely
    <2>5. QED
      BY <2>2, <2>3, <2>4
  <1>5. CASE Head(c2s).role = "data" /\ protocol = "V3" /\ ~conf.multistation
    <2>1. Head(c2s).name \in {"DATA", "FETCH", "TIME"}
      BY <1>1, <1>5 DEF Told
    <2>2. ServeRequest \/ ServeUntimely
      BY <1>3, <2>1 DEF ServerNext, Serve, ServeHello, ServeSetting, ServeStation, ServeSelect,
         ServeEnd, ServeInfo, ServeBye, Handling, SendEnd, SendTrouble, SendPacket,
         Publish, wireVars
    <2>3. srv.proto = "V3" /\ ~srv.multi
      BY <1>5 DEF ProtoInv, UniInv, UniNow, Uni
    <2>4. CASE ServeRequest
      <3>1. \E d : srv' = [srv EXCEPT !.phase = "stream", !.dial = d]
        BY <2>3, <2>4 DEF ServeRequest
      <3>2. QED
        BY <1>2, <3>1 DEF ServerState
    <2>5. CASE ServeUntimely
      BY <2>5 DEF ServeUntimely
    <2>6. QED
      BY <2>2, <2>4, <2>5
  <1>6. QED
    BY <1>4, <1>5 DEF Starts

(* So what the server does leaves it asked, streaming, or at its END.      *)
LEMMA AskedServer ==
    ASSUME TypeOK, Inv, ProtoInv, DialInv, UniInv, ServerNext, UNCHANGED clientVars,
           up, up', pc \notin Handshake, Asked
    PROVE  Asked'
  <1>0. /\ UNCHANGED <<conf, protocol>> /\ srv \in ServerState
        /\ c2s \in Seq(Command) /\ s2c \in Seq(Item)
    BY DEF clientVars, TypeOK, ServerTypeOK, WireTypeOK
  <1>1. ASSUME SendEnd PROVE Asked'
    <2>1. s2c' = Append(s2c, Mark("end")) /\ Mark("end") \in Item /\ Mark("end").kind = "end"
      BY <1>1 DEF SendEnd, Mark, Item
    <2>2. Len(s2c) + 1 \in 1..Len(s2c') /\ s2c'[Len(s2c) + 1].kind = "end"
      BY <1>0, <2>1, Joined
    <2>3. QED
      BY <2>2 DEF Asked
  <1>2. CASE srv.phase = "stream"
    <2>1. srv' = srv \/ SendEnd \/ srv'.phase = "stream"
      BY <1>2 DEF ServerNext, Serve, ServeHello, ServeSetting, ServeStation, ServeSelect,
         ServeRequest, ServeEnd, ServeInfo, ServeBye, ServeUntimely, SendTrouble, SendPacket,
         Publish, serverVars
    <2>2. QED
      BY <1>1, <1>2, <2>1 DEF Asked
  <1>3. ASSUME NEW k \in 1..Len(c2s), Starts(c2s[k]) PROVE Asked'
    <2>1. CASE c2s' = c2s
      <3>1. Starts(c2s[k])'
        BY <1>0, <1>3, <2>1 DEF Starts
      <3>2. QED
        BY <1>3, <2>1, <3>1 DEF Asked, Starts
    <2>2. CASE c2s # <<>> /\ c2s' = Tail(c2s) /\ c2s[k] = Head(c2s)
      <3>1. srv'.phase = "stream"
        BY <1>3, <2>2, Started
      <3>2. QED
        BY <3>1 DEF Asked
    <2>3. CASE c2s # <<>> /\ c2s' = Tail(c2s) /\ c2s[k] # Head(c2s)
      <3>1. k - 1 \in 1..Len(c2s') /\ c2s'[k - 1] = c2s[k]
        BY <1>0, <2>3, Leaving
      <3>2. PICK c : c = c2s[k]
        OBVIOUS
      <3>3. c2s'[k - 1] = c /\ Starts(c2s'[k - 1])
        BY <1>3, <3>1, <3>2
      <3>4. \E j \in 1..Len(c2s') :
               \/ c2s'[j].role = "end"
               \/ c2s'[j].role = "data" /\ protocol' = "V3" /\ ~conf'.multistation
        BY <1>0, <3>1, <3>3 DEF Starts
      <3>5. QED
        BY <3>4 DEF Asked, Starts
    <2>4. CASE c2s' = <<>> /\ c2s' # c2s /\ c2s' # Tail(c2s)
      BY <2>4 DEF ServerNext, Serve, ServeHello, ServeSetting, ServeStation, ServeSelect,
         ServeRequest, ServeEnd, ServeInfo, ServeBye, ServeUntimely, Handling, SendEnd,
         SendTrouble, SendPacket, Publish, wireVars
    <2>5. QED
      BY <2>1, <2>2, <2>3, <2>4, ServerQueue
  <1>4. ASSUME NEW k \in 1..Len(s2c), s2c[k].kind = "end" PROVE Asked'
    <2>1. ASSUME NEW x \in Item, s2c' = Append(s2c, x)
          PROVE  k \in 1..Len(s2c') /\ s2c'[k] = s2c[k]
      BY <1>0, <2>1, Joining
    <2>2. ASSUME NEW r, Replies(r), s2c' = s2c \o r
          PROVE  k \in 1..Len(s2c') /\ s2c'[k] = s2c[k]
      <3>1. r \in Seq(Item)
        BY <2>2, RepliesOK
      <3>2. s2c[k] \in Item
        BY <1>0
      <3>3. QED
        BY <1>0, <2>2, <3>1, <3>2, Joining
    <2>3. k \in 1..Len(s2c') /\ s2c'[k] = s2c[k]
      BY <2>1, <2>2, ServerItems
    <2>4. QED
      BY <1>4, <2>3 DEF Asked
  <1>5. QED
    BY <1>2, <1>3, <1>4 DEF Asked

(* A plan is through with the command that starts the transfer.            *)
LEMMA PlanEnds ==
    ASSUME TypeOK, PlanInv, pc = "walk", ~Done, PlanDone(PlanNext(pos), protocol, conf)
    PROVE  /\ WalkSends(walk, Current)
           /\ \/ Current.role = "end"
              \/ Current.role = "data" /\ UniNow
  <1>0. NStreams \in Nat \ {0} /\ pos.s \in Nat \ {0} /\ pos.k \in Nat
    BY CommandsAssumption DEF TypeOK, ClientTypeOK, PlanPos
  <1>1. CASE UniNow
    <2>1. pos.s = 1 /\ NStreams = 1 /\ pos.s \in StreamIds /\ pos.k # 0 /\ ~walk.skip
      BY <1>1, UniPlan DEF PlanInv
    <2>2. ~(pos.k <= NSel[pos.s])
      BY <1>0, <1>1, <2>1 DEF PlanDone, PlanNext, UniNow, TypeOK, ClientTypeOK, PlanPos
    <2>3. Current.role = "data"
      BY <2>1, <2>2 DEF Current, CmdAt, DataCommand, ForStream
    <2>4. QED
      BY <1>1, <2>1, <2>3 DEF WalkSends
  <1>2. CASE ~UniNow
    <2>1. pos.s \notin StreamIds
      BY <1>0, <1>2 DEF PlanDone, PlanNext, UniNow, StreamIds, TypeOK, ClientTypeOK, PlanPos
    <2>2. Current.role = "end"
      BY <2>1 DEF Current, CmdAt, EndCommand, ForStream
    <2>3. QED
      BY <2>2 DEF WalkSends
  <1>3. QED
    BY <1>1, <1>2

(* It is not over before, nor at a reply.                                  *)
LEMMA PlanGoesOn ==
    ASSUME TypeOK, PlanInv, pc = "reply"
    PROVE  ~PlanDone(PlanNext(pos), protocol, conf)
  <1>0. NStreams \in Nat \ {0} /\ pos.s \in 1..NStreams /\ pos.k \in Nat
    BY CommandsAssumption DEF PlanInv, StreamIds, TypeOK, ClientTypeOK, PlanPos
  <1>1. CASE UniNow
    <2>1. PlanNext(pos).s = pos.s
      BY <1>0, <1>1 DEF PlanInv, PlanNext, StreamIds, TypeOK, ClientTypeOK, PlanPos
    <2>2. QED
      BY <1>0, <1>1, <2>1 DEF PlanDone, UniNow
  <1>2. CASE ~UniNow
    <2>1. PlanNext(pos).s \in {pos.s, pos.s + 1}
      BY <1>0 DEF PlanNext, StreamIds, TypeOK, ClientTypeOK, PlanPos
    <2>2. QED
      BY <1>0, <1>2, <2>1 DEF PlanDone, UniNow
  <1>3. QED
    BY <1>1, <1>2

(* A plan is not over when it begins.                                      *)
LEMMA PlanStarts == ~PlanDone(PlanStart(protocol, conf), protocol, conf)
  BY CommandsAssumption DEF PlanDone, PlanStart

(* _streaming is set by a negotiate() that is through.                     *)
LEMMA StreamingBegins ==
    ASSUME TypeOK, ConnectSocket \/ ClientStep \/ GoneQuiet \/ GoneLate, streaming', ~streaming
    PROVE  pc = "walk" /\ Done /\ UNCHANGED wireVars
  <1>0. streaming \in BOOLEAN
    BY DEF TypeOK, ClientTypeOK
  <1>1. ASSUME Disconnected PROVE FALSE
    BY <1>1 DEF Disconnected
  <1>2. CASE FinishWalk
    BY <1>1, <1>2 DEF FinishWalk, NegotiateRaises, wireVars, linkVars
  <1>3. ASSUME ~FinishWalk PROVE FALSE
    <2>1. ASSUME NEW how, ConnectRaises(how) PROVE FALSE
      BY <1>1, <2>1 DEF ConnectRaises
    <2>2. ASSUME NEW open, NEW rest, NegotiateRaises(open, rest) PROVE FALSE
      BY <1>1, <2>2 DEF NegotiateRaises, linkVars
    <2>3. ~ReadFails
      BY <1>1, <2>1, <2>2 DEF ReadFails, LoopRaises
    <2>4. ~(Call \/ Close \/ Bye \/ Break \/ Resume \/ PollNothing \/ Keepalive \/ ConnectSocket)
      BY <1>1 DEF Call, CallConnect, CallReconnect, CallNegotiate, CallInfo, CallCollect,
         Close, Bye, Break, Resume, PollNothing, Keepalive, ConnectSocket, linkVars, clientVars
    <2>5. ~(ConnectRefused \/ SendHello \/ SendGreeting \/ ReadIdentity \/ ReadGreeting
            \/ Connected)
      BY <1>1, <2>1 DEF ConnectRefused, SendHello, SendGreeting, ReadIdentity, ReadGreeting,
         Connected, linkVars
    <2>6. ~(StartPlan \/ SkipCommand \/ SendCommand \/ ReadReply \/ SendInfo \/ ReadInfo)
      BY <2>2 DEF StartPlan, SkipCommand, SendCommand, ReadReply, SendInfo, ReadInfo, linkVars
    <2>7. ~(SendFails \/ ReadTimesOut \/ ReadEof \/ ReadStalls \/ ReadGarbled)
      BY <1>1, <2>1, <2>2, <2>3 DEF SendFails, ReadTimesOut, ReadEof, ReadStalls, ReadGarbled,
         linkVars
    <2>8. ~(Delay \/ LoopDisconnected \/ RecvData \/ RecvInfo \/ RecvEnd \/ RecvTrouble
            \/ GoneQuiet \/ GoneLate)
      BY <1>1 DEF Delay, LoopDisconnected, RecvData, RecvInfo, RecvEnd, RecvTrouble,
         GoneQuiet, GoneLate, IdleTimeout, LoopRaises, linkVars, clientVars
    <2>9. QED
      BY <1>3, <2>4, <2>5, <2>6, <2>7, <2>8
      DEF ClientStep, User, Progress, ConnectStep, NegotiateStep, CollectStep, Mishap
  <1>4. QED
    BY <1>2, <1>3

(* What the client does outside the handshake does not undo it.            *)
LEMMA AskedKept ==
    ASSUME TypeOK, Inv, ProtoInv, DialInv, StreamingInv, ClientStep \/ GoneQuiet \/ GoneLate,
           UNCHANGED serverVars, [Next]_vars, pc \notin Handshake \cup {"socket"}, up',
           Heeded, streaming \/ pc = "walk", ~RecvEnd, Asked
    PROVE  Asked'
  <1>0. /\ UNCHANGED <<srv, conf, protocol>>
        /\ c2s \in Seq(Command) /\ s2c \in Seq(Item)
    BY Outside, ConfStays DEF ProtoInv, serverVars, TypeOK, WireTypeOK
  <1>1. CASE srv.phase = "stream"
    BY <1>0, <1>1 DEF Asked
  <1>2. ASSUME NEW k \in 1..Len(c2s), Starts(c2s[k]) PROVE Asked'
    <2>1. c2s' = c2s \/ \E c : Sends(c)
      BY ClientQueue
    <2>2. ASSUME NEW c, Sends(c) PROVE k \in 1..Len(c2s') /\ c2s'[k] = c2s[k]
      <3>1. c \in Command
        BY <2>2, GenericOK, CmdAtOK, ClientAssumption DEF Sends, Current, TypeOK, ClientTypeOK,
           CommandNames, Handshake
      <3>2. c2s' = Append(c2s, c) \/ c2s' = c2s
        BY <2>2 DEF Sends, Send
      <3>3. QED
        BY <1>0, <3>1, <3>2, Joining
    <2>3. k \in 1..Len(c2s') /\ c2s'[k] = c2s[k]
      BY <2>1, <2>2
    <2>4. PICK c : c = c2s[k]
      OBVIOUS
    <2>5. c2s'[k] = c /\ (c.role = "end" \/ (c.role = "data" /\ protocol' = "V3" /\ ~conf'.multistation))
      BY <1>0, <1>2, <2>3, <2>4 DEF Starts
    <2>6. QED
      BY <2>3, <2>5 DEF Asked, Starts
  <1>3. ASSUME NEW k \in 1..Len(s2c), s2c[k].kind = "end" PROVE Asked'
    <2>1. conf.dialup
      <3>1. s2c \in Seq(Endless) => s2c[k] \in Endless
        BY <1>3
      <3>2. QED
        BY <1>3, <3>1 DEF DialInv, Endless
    <2>2. pc \notin {"identity", "greeting", "reply", "frames"}
      BY <2>1 DEF Heeded, StreamingInv, Handshake
    <2>3. \/ s2c' = s2c
          \/ s2c # <<>> /\ s2c' = Tail(s2c) /\ Head(s2c).kind # "end"
      BY <2>2, ClientItems
    <2>4. CASE s2c' = s2c
      BY <1>3, <2>4 DEF Asked
    <2>5. CASE s2c # <<>> /\ s2c' = Tail(s2c) /\ Head(s2c).kind # "end"
      <3>1. s2c[k] # Head(s2c)
        BY <1>3, <2>5
      <3>2. k - 1 \in 1..Len(s2c') /\ s2c'[k - 1] = s2c[k]
        BY <1>0, <2>5, <3>1, Leaving
      <3>3. QED
        BY <1>3, <3>2 DEF Asked
    <2>6. QED
      BY <2>3, <2>4, <2>5
  <1>4. QED
    BY <1>1, <1>2, <1>3 DEF Asked

(* A negotiate() that is through has asked, and _streaming follows it.     *)
LEMMA AskedClient ==
    ASSUME TypeOK, Inv, LeaveInv, ProtoInv, DialInv, PlanInv, StreamingInv, AskedInv,
           ClientStep \/ GoneQuiet \/ GoneLate, UNCHANGED serverVars, [Next]_vars
    PROVE  AskedInv'
  <1> SUFFICES ASSUME Heeded', up', streaming' \/ (pc = "walk" /\ Done)' PROVE Asked'
    BY DEF AskedInv
  <1>0. UNCHANGED conf /\ Heeded /\ streaming \in BOOLEAN
    BY ConfStays DEF Heeded, TypeOK, ClientTypeOK
  <1>1. pc \notin Handshake \cup {"socket"}
    <2>1. CASE pc \in Handshake \cup {"socket"}
      <3>1. ~streaming
        BY <2>1 DEF StreamingInv, Inv, LinkInv
      <3>2. ~streaming'
        BY <2>1, <3>1, StreamingBegins DEF Handshake
      <3>3. pc' # "walk"
        BY <2>1, PlanSteps DEF StartPlan, SkipCommand, SendCommand, ReadReply, Handshake
      <3>4. QED
        BY <3>2, <3>3
    <2>2. QED
      BY <2>1
  <1>2. up /\ UNCHANGED protocol
    BY <1>1, Outside DEF ProtoInv
  <1>3. CASE streaming' /\ streaming
    <2>1. ~RecvEnd
      BY <1>3 DEF RecvEnd
    <2>2. QED
      BY <1>0, <1>1, <1>2, <1>3, <2>1, AskedKept DEF AskedInv
  <1>4. CASE streaming' /\ ~streaming
    <2>1. pc = "walk" /\ Done
      BY <1>4, StreamingBegins
    <2>2. ~RecvEnd
      BY <2>1 DEF RecvEnd
    <2>3. QED
      BY <1>0, <1>1, <1>2, <2>1, <2>2, AskedKept DEF AskedInv
  <1>5. CASE pc' = "walk" /\ Done'
    <2>0. PlanDone(pos', protocol, conf)
      BY <1>0, <1>2, <1>5 DEF Done
    <2>1. StartPlan \/ SkipCommand \/ SendCommand \/ ReadReply
      BY <1>5, PlanSteps
    <2>2. ~StartPlan
      BY <2>0, PlanStarts DEF StartPlan
    <2>3. ~SkipCommand
      BY <2>0, PlanEnds DEF SkipCommand
    <2>4. ~ReadReply
      <3>1. ReadReply => pc = "reply" /\ pos' = PlanNext(pos)
        BY <1>5 DEF ReadReply, NegotiateRaises, Goto, Return
      <3>2. QED
        BY <2>0, <3>1, PlanGoesOn
    <2>5. CASE SendCommand
      <3>1. /\ pc = "walk" /\ ~Done /\ pos' = PlanNext(pos)
            /\ Send(Current)
        BY <1>5, <2>5 DEF SendCommand, Sendable, Goto
      <3>2. Current.role = "end" \/ (Current.role = "data" /\ UniNow)
        BY <2>0, <3>1, PlanEnds
      <3>3. protocol = "V4" \/ protocol = "V3"
        BY <1>1, <1>2 DEF ProtoInv, TypeOK, ServerTypeOK, ServerState
      <3>4. PICK c : c = Current
        OBVIOUS
      <3>5. c.role = "end" \/ (c.role = "data" /\ protocol' = "V3" /\ ~conf'.multistation)
        BY <1>0, <1>2, <3>2, <3>3, <3>4 DEF UniNow, Uni
      <3>6. c \in Command /\ c2s \in Seq(Command)
        BY <3>4, CmdAtOK, ClientAssumption DEF Current, TypeOK, ClientTypeOK, WireTypeOK
      <3>7. c2s' = Append(c2s, c)
        BY <1>2, <3>1, <3>4 DEF Send
      <3>8. Len(c2s) + 1 \in 1..Len(c2s') /\ c2s'[Len(c2s) + 1] = c
        BY <3>6, <3>7, Joined
      <3>9. QED
        BY <3>5, <3>8 DEF Asked, Starts
    <2>6. QED
      BY <2>1, <2>2, <2>3, <2>4, <2>5
  <1>6. QED
    BY <1>3, <1>4, <1>5

(* Every step keeps a transfer that is waited for asked for.               *)
LEMMA AskedStep ==
    TypeOK /\ Inv /\ LeaveInv /\ ProtoInv /\ DialInv /\ UniInv /\ PlanInv /\ StreamingInv
       /\ AskedInv /\ [Next]_vars => AskedInv'
  <1> SUFFICES ASSUME TypeOK, Inv, LeaveInv, ProtoInv, DialInv, UniInv, PlanInv, StreamingInv,
                      AskedInv, [Next]_vars
               PROVE  AskedInv'
    OBVIOUS
  <1>1. CASE ConnectSocket /\ Accept
    <2>1. ~streaming /\ streaming' = streaming /\ pc' = "hello"
      BY <1>1 DEF ConnectSocket, Goto, Inv, LinkInv, StreamingInv
    <2>2. QED
      BY <2>1 DEF AskedInv
  <1>2. CASE (ClientStep \/ GoneQuiet \/ GoneLate) /\ UNCHANGED serverVars
    BY <1>2, AskedClient
  <1>3. CASE ServerNext /\ UNCHANGED clientVars
    <2>1. UNCHANGED <<conf, streaming, pc, pos, protocol>>
      BY <1>3 DEF clientVars
    <2>2. up' => up
      BY <1>3 DEF ServerNext, Serve, ServeHello, ServeSetting, ServeStation, ServeSelect,
         ServeRequest, ServeEnd, ServeInfo, ServeBye, ServeUntimely, Handling, SendEnd,
         SendTrouble, SendPacket, Publish, wireVars
    <2>3. streaming => pc \notin Handshake
      BY DEF StreamingInv
    <2>4. ASSUME Heeded', up', streaming' \/ (pc = "walk" /\ Done)' PROVE Asked'
      <3>1. Heeded /\ up /\ (streaming \/ (pc = "walk" /\ Done)) /\ pc \notin Handshake
        BY <2>1, <2>2, <2>3, <2>4 DEF Heeded, Done, Handshake
      <3>2. QED
        BY <1>3, <2>4, <3>1, AskedServer DEF AskedInv
    <2>5. QED
      BY <2>4 DEF AskedInv
  <1>4. CASE Drop /\ UNCHANGED <<serverVars, clientVars>>
    BY <1>4 DEF Drop, AskedInv
  <1>5. CASE UNCHANGED vars
    BY <1>5 DEF vars, wireVars, serverVars, clientVars, AskedInv, Heeded, Asked, Done, Starts
  <1>6. QED
    BY <1>1, <1>2, <1>3, <1>4, <1>5 DEF Next, Terminated

(* collect() never waits on a server that was not told to start, for a     *)
(* client without dial-up or a user who does not negotiate over a running  *)
(* transfer: with both, the END of the old transfer may be read as a reply *)
(* of the new negotiation.                                                 *)
THEOREM StreamsOnRequest ==
    Spec => [](conf.careful \/ ~conf.dialup => StreamingWasAsked)
  <1>1. Init => LeaveInv /\ StreamingInv /\ PlanInv /\ AskedInv
    BY DEF Init, ClientInit, WireInit, LeaveInv, StreamingInv, PlanInv, AskedInv, Handshake
  <1>2. Init => ProtoInv /\ DialInv /\ UniInv
    <2> SUFFICES ASSUME Init PROVE ProtoInv /\ DialInv /\ UniInv
      OBVIOUS
    <2>1. /\ c2s \in Seq(Unversioned) /\ c2s \in Seq(Told(conf.dialup))
          /\ c2s \in Seq(Unaddressed) /\ s2c \in Seq(Endless)
      BY DEF Init, WireInit
    <2>2. QED
      BY <2>1 DEF Init, WireInit, ServerInit, Fresh, ClientInit, ProtoInv, DialInv, UniInv,
         Handshake
  <1>3. AskedInv => (conf.careful \/ ~conf.dialup => StreamingWasAsked)
    BY DEF AskedInv, Heeded, Asked, StreamingWasAsked
  <1>4. QED
    BY <1>1, <1>2, <1>3, TypeInit, TypeStep, InvInit, InvStep, LeaveStep, ProtoStep,
       StreamingStep, DialStep, UniStep, AskedStep, PTL DEF Spec
=============================================================================
