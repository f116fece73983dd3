------------------------------ MODULE Session -------------------------------
(***************************************************************************)
(* A blocking client and its server over one connection at a time.  Every  *)
(* step is a step of the client, of the server, or of the network; opening *)
(* the connection is a step of both.                                       *)
(***************************************************************************)
EXTENDS SyncClient, Server

vars == <<wireVars, serverVars, clientVars>>

TypeOK == WireTypeOK /\ ServerTypeOK /\ ClientTypeOK

Init == WireInit /\ ServerInit /\ ClientInit

ClientStep == User \/ Progress \/ Keepalive \/ Resume \/ PollNothing \/ Mishap

(* The idle timeout strikes when the server has no data to send, whatever  *)
(* keepalives go back and forth, or, a fault, when data is late.           *)
NothingDue == /\ up
              /\ \A st \in Stations : ~Waiting(st)
              /\ \A k \in 1..Len(c2s) : c2s[k].name = "KEEPALIVE"
              /\ \A k \in 1..Len(s2c) : s2c[k].kind = "info"
GoneQuiet == IdleTimeout /\ NothingDue /\ UNCHANGED faults
GoneLate  == IdleTimeout /\ Fault("idle")

(* Between calls the user may stop.                                        *)
Terminated == call = "none" /\ UNCHANGED vars

Next == \/ ConnectSocket /\ Accept
        \/ (ClientStep \/ GoneQuiet \/ GoneLate) /\ UNCHANGED serverVars
        \/ ServerNext /\ UNCHANGED clientVars
        \/ Drop /\ UNCHANGED <<serverVars, clientVars>>
        \/ Terminated

Spec == Init /\ [][Next]_vars

(***************************************************************************)
(* A running method keeps running and its idle timer expires, the server   *)
(* answers what it has read and sends what it was asked for, and a         *)
(* consumer that holds a packet asks for the next one or leaves its loop.  *)
(* Neither calls nor faults are owed.                                      *)
(***************************************************************************)
Fairness ==
    /\ WF_vars(ConnectSocket /\ Accept)
    /\ WF_vars(Progress /\ UNCHANGED serverVars)
    /\ WF_vars(GoneQuiet /\ UNCHANGED serverVars)
    /\ WF_vars((Resume \/ Break) /\ UNCHANGED serverVars)
    /\ WF_vars(Serve /\ UNCHANGED clientVars)
    /\ \A st \in Stations : WF_vars(SendPacket(st) /\ UNCHANGED clientVars)
    /\ WF_vars(SendEnd /\ UNCHANGED clientVars)

FairSpec == Spec /\ Fairness

-----------------------------------------------------------------------------
(* Safety.                                                                 *)

Awaiting == pc \in {"identity", "greeting", "reply"}

(* A reply line; an INFO is answered by frames, or refused by an ERROR      *)
(* line that _recv_frame() reads.                                          *)
IsReply(item) ==
    item.kind = "hello" \/ (item.kind = "line" /\ item.name \notin {"", "INFO", "KEEPALIVE"})

Expects(c) == c.parse # "none"

(* Every command is answered by its own reply: the replies still to come   *)
(* are those of the commands the client is waiting on, one or none, and    *)
(* the line about to be read was sent for the command that reads it        *)
(* (_commands.py: "send a text line ... read back exactly one reply line").  *)
Outstanding == Cardinality({k \in 1..Len(s2c) : IsReply(s2c[k])})
                 + Cardinality({k \in 1..Len(c2s) : Expects(c2s[k])})

ReplyAligned ==
    Reading =>
        /\ Outstanding <= (IF Awaiting THEN 1 ELSE 0)
        /\ (up /\ Awaiting) => Outstanding = 1
        /\ Awaiting => \A k \in 1..Len(s2c) :
              IsReply(s2c[k]) => \/ s2c[k].kind = "hello" /\ cmd.name = "HELLO"
                                 \/ s2c[k].kind = "line" /\ s2c[k].name = cmd.name

(* ... which is so of a user who closes the client after a failed call,    *)
(* before using it again.                                                  *)
AlignedIfCareful == conf.careful => ReplyAligned

(* The client and the server agree on whether negotiation commands are     *)
(* acknowledged, whatever BATCH replies and reconnects came before.        *)
BatchAgrees ==
    sock /\ up /\ pc \notin {"greeting"} => batch_active = srv.batch

(* A transfer is read in the framing the server sends it in.               *)
FramingAgrees ==
    streaming /\ up /\ (srv.phase = "stream" \/ s2c # <<>>) => srv.proto = protocol

(* _streaming is true only of the connection whose server was told to      *)
(* start, so collect() never waits on a server that was not asked for      *)
(* data.                                                                   *)
Starts(c) == \/ c.role = "end"
             \/ c.role = "data" /\ protocol = "V3" /\ ~conf.multistation
StreamingWasAsked ==
    streaming /\ up =>
      \/ srv.phase = "stream"
      \/ \E k \in 1..Len(c2s) : Starts(c2s[k])
      \/ \E k \in 1..Len(s2c) : s2c[k].kind = "end"

(* A SELECT or DATA is never applied to another stream's station: those of *)
(* a rejected STATION are not sent, and no late reply is taken for its     *)
(* STATION's.                                                              *)
OnItsStation ==
    conf.careful /\ up /\ c2s # <<>> /\ Head(c2s).role \in {"select", "data"} /\ srv.multi /\ ~srv.batch
        => srv.cur = Head(c2s).stream

(* The time a v3 DATA command gives is that of the packet before the one   *)
(* it asks for, also after packets arrived that nobody parsed.             *)
ResumePair ==
    \A k \in 1..Len(c2s) :
        LET r == c2s[k].req
        IN  r.from = "seq" /\ r.time # None => r.seq = r.time + 1

-----------------------------------------------------------------------------
(* Steps.                                                                  *)

(* With reconnect set, collect()'s loop ends only because the transfer was *)
(* over, the consumer left, or the credentials were refused.  Without it,  *)
(* a connection that was lost is raised: the loop returns in silence only  *)
(* if the user closed the client (client.py:427-429, "If False, raise      *)
(* instead").  Not so of a client with a keepalive, whose failure to send  *)
(* ends the loop in silence.                                               *)
EndsAsDocumented ==
    [][call = "collect" /\ call' = "none" =>
          IF conf.reconnect THEN outcome' \in {"end", "break", "auth"}
          ELSE outcome' = "silent" => outcome = "closed" \/ conf.keepalive]_vars

(* The consumer of collect() sees each station's packets in order, each    *)
(* once and none skipped, across every loss of the connection.             *)
Feed == INSTANCE ResumableFeed WITH Indices <- 1..MaxPackets
ResumesWhereItLeftOff == Feed!Spec

-----------------------------------------------------------------------------
(* Liveness.                                                               *)

(* collect(reconnect=True) that lost its connection gets it back: it is    *)
(* streaming again in the end, unless the credentials are refused or the   *)
(* consumer leaves.                                                        *)
Recovers ==
    (call = "collect" /\ ~sock /\ conf.reconnect)
        ~> ((call = "collect" /\ streaming) \/ outcome \in {"auth", "break"})

(* No method waits for ever on a server that answers: every call but       *)
(* collect() returns.                                                      *)
CallsReturn ==
    (call \notin {"none", "collect"}) ~> (call \in {"none", "collect"})

(* Once a station's feed has begun, every later packet of that station     *)
(* reaches the consumer of a collect() that keeps running.                 *)
Latest(st) == IF delivered[st] = <<>> THEN 0 ELSE delivered[st][Len(delivered[st])]

FeedAdvances ==
    \A st \in Stations : \A k \in 1..MaxPackets :
        (call = "collect" /\ conf.reconnect /\ Latest(st) = k /\ Len(log[st]) > k)
          ~> (call # "collect" \/ Latest(st) > k)
=============================================================================
