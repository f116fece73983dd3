----------------------------- MODULE AioSession -----------------------------
(***************************************************************************)
(* AsyncSeedLink, the asyncio client of aio.py, in one task, and its       *)
(* server.  The methods take the steps of the blocking client (SyncClient) *)
(* with three differences.  A read has no timeout of its own: one deadline *)
(* covers a whole connect(), negotiate(), ping() or info(), and closes the *)
(* connection when it expires.  Every await may be cancelled, which closes *)
(* it too.  And collect() has no deadline at all once a frame has begun.   *)
(***************************************************************************)
EXTENDS Session

VARIABLE stuck    \* the rest of what is being read does not come

aioVars == <<vars, stuck>>

AioTypeOK == TypeOK /\ stuck \in BOOLEAN /\ (stuck => Reading)

AioInit == Init /\ stuck = FALSE

-----------------------------------------------------------------------------
(* What the user calls.  This user does not negotiate over a running       *)
(* transfer, whose END could be read as a reply line, nor again after all  *)
(* stations were rejected: END has been sent on that connection.           *)
EndSent == srv.phase = "stream" \/ \E k \in 1..Len(c2s) : c2s[k].role = "end"

AioConnect   == CallConnect
AioReconnect == CallReconnect
AioNegotiate == ~streaming /\ ~EndSent /\ CallNegotiate
AioInfo      == CallInfo
AioCollect   == (streaming \/ ~EndSent) /\ CallCollect
AioClose     == Close
AioBye       == Bye
AioBreak     == Break

(* What the methods do, an await or less at a time.                        *)
AioHello     == SendHello \/ ReadIdentity
AioHandshake == SendGreeting \/ ReadGreeting \/ Connected
AioWalk      == StartPlan \/ SkipCommand \/ SendCommand \/ ReadReply \/ FinishWalk
AioReply     == SendInfo \/ ReadInfo
AioRetry     == Delay \/ LoopDisconnected
AioFrame     == RecvData \/ RecvInfo \/ RecvEnd \/ RecvTrouble

AioProgress == AioHello \/ AioHandshake \/ AioWalk \/ AioReply \/ AioRetry \/ AioFrame

(* ... which meets a connection that is gone, or a line without an end.    *)
AioSendFails == SendFails
AioGarbled   == ReadGarbled
AioRefused   == ConnectRefused

(* A frame or a line begins to arrive and stops: _ensure() waits on.       *)
Stall ==
    /\ Reading /\ up /\ s2c = <<>>
    /\ Fault("stall") /\ stuck' = TRUE
    /\ UNCHANGED <<up, c2s, s2c, clientVars>>

(* End of file, also in the middle of a frame.                             *)
AioEof ==
    /\ Reading /\ ~up /\ (stuck \/ s2c = <<>>)
    /\ ReadFails /\ UNCHANGED faults

-----------------------------------------------------------------------------
(* The deadlines.  A method is at an await while it opens the connection   *)
(* or reads; a deadline may pass there even if the answer has just come.   *)
InConnect   == pc \in {"socket", "identity", "greeting"}

(* Mutant: negotiate() is left without a deadline.                         *)
DeadlineOfConnect ==
    /\ conf.timeout
    /\ \/ InConnect /\ ConnectRaises("error")
       \/ pc = "frames" /\ Disconnected /\ Return("error")

Deadline ==
    /\ conf.timeout
    /\ \/ InConnect /\ ConnectRaises("error")
       \/ pc = "reply" /\ NegotiateRaises(FALSE, <<>>)
       \/ pc = "frames" /\ Disconnected /\ Return("error")

Expire ==
    /\ Deadline
    /\ UNCHANGED <<conf, identVars, planVars, dataVars, faults>>

(* The task is cancelled at an await: every method closes and lets         *)
(* CancelledError out, whatever reconnect says.                            *)
Awaits == InConnect \/ pc \in {"reply", "frames", "loop", "delay"}

(* Mutant: only the streaming loop closes.                                 *)
CancelCloseLoop ==
    IF call = "collect" THEN Disconnected ELSE UNCHANGED <<linkVars, up, c2s, s2c>>

CancelClose == Disconnected

Cancel ==
    /\ Awaits
    /\ CancelClose /\ Return("closed")
    /\ UNCHANGED <<conf, identVars, planVars, dataVars, faults>>

-----------------------------------------------------------------------------
(* A connection that goes takes the stall with it.                         *)
Unstuck == stuck' = (stuck /\ sock')

AioUser == \/ AioConnect \/ AioReconnect \/ AioNegotiate \/ AioInfo \/ AioCollect
           \/ AioClose \/ AioBye \/ AioBreak

AioMoving == \/ AioUser \/ AioProgress \/ Resume \/ Keepalive
             \/ AioSendFails \/ AioGarbled \/ AioRefused
             \/ GoneQuiet \/ GoneLate

AioNext == \/ ConnectSocket /\ Accept /\ UNCHANGED stuck
           \/ ~stuck /\ AioMoving /\ UNCHANGED <<serverVars, stuck>>
           \/ (AioEof \/ Expire \/ Cancel) /\ Unstuck /\ UNCHANGED serverVars
           \/ Stall /\ ~stuck /\ UNCHANGED serverVars
           \/ ServerNext /\ UNCHANGED <<clientVars, stuck>>
           \/ Drop /\ UNCHANGED <<serverVars, clientVars, stuck>>
           \/ Terminated /\ UNCHANGED stuck

AioSpec == AioInit /\ [][AioNext]_aioVars

(***************************************************************************)
(* A task that can go on goes on, and a deadline that was set passes.  The *)
(* server owes nothing: neither answers, nor data, nor an accepted         *)
(* connection.                                                             *)
(***************************************************************************)
AioFairness ==
    /\ WF_aioVars(~stuck /\ AioProgress /\ UNCHANGED <<serverVars, stuck>>)
    /\ WF_aioVars(~stuck /\ AioSendFails /\ UNCHANGED <<serverVars, stuck>>)
    /\ WF_aioVars(AioEof /\ Unstuck /\ UNCHANGED serverVars)
    /\ WF_aioVars(Expire /\ Unstuck /\ UNCHANGED serverVars)

AioFairSpec == AioSpec /\ AioFairness

-----------------------------------------------------------------------------
(* The safety properties are Session's, here of a user who goes on after a *)
(* failed call without closing the client: ReplyAligned, for an expired or *)
(* cancelled call leaves no connection on which its answer could come      *)
(* late; ResumesWhereItLeftOff, across deadlines, cancellations and new    *)
(* calls of collect().                                                     *)

(* With a timeout no method but a streaming collect() waits for ever,      *)
(* whatever the server does or leaves undone (aio.py: "a single deadline   *)
(* across an entire connect/negotiate/info call").                         *)
AioReturns ==
    (conf.timeout /\ call \notin {"none", "collect"}) ~> (call \in {"none", "collect"})
=============================================================================
