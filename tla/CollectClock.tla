---------------------------- MODULE CollectClock ----------------------------
(***************************************************************************)
(* The timers of collect(), read off a clock: last_data_time against       *)
(* idle_timeout, next_keepalive, the poll interval, the socket timeout in  *)
(* the middle of a frame, the delay before a reconnect.  Session leaves    *)
(* the clock out and has these things happen at any time; here they happen *)
(* when the code has them happen.                                          *)
(*                                                                         *)
(* Time is whole ticks and passes only while the program waits; what it    *)
(* computes between two waits takes none.  An instant that the code keeps  *)
(* is kept as the ticks since it, or until it.                             *)
(***************************************************************************)
EXTENDS Integers, Sequences

CONSTANTS Confs,      \* configurations considered
          Poll,       \* _POLL_INTERVAL
          MaxQueue,   \* bound: frames waiting in the socket
          MaxPieces,  \* bound: pieces a frame arrives in, beyond the first
          MaxTicks    \* bound: ticks are counted up to here

(* idle, keep, delay, timeout: the options of that name, keep and timeout  *)
(* 0 for None (the asyncio client has no timeout in collect()); reconnect: *)
(* collect(reconnect=); hold: how long the consumer may hold a packet.     *)
ClockConf == [idle : Nat \ {0}, keep : Nat, delay : Nat \ {0}, timeout : Nat,
              reconnect : BOOLEAN, hold : Nat]

ASSUME ClockAssumption ==
    /\ Confs \subseteq ClockConf
    /\ Poll \in Nat \ {0} /\ MaxQueue \in Nat \ {0} /\ MaxPieces \in Nat
    /\ MaxTicks \in Nat
    /\ \A c \in Confs : /\ c.keep + c.hold + c.delay < MaxTicks
                       /\ c.idle + Poll + (MaxPieces + 1) * c.timeout < MaxTicks

(* What collect() tells apart; a "packet" carries data.                    *)
Frames == {"packet", "info", "error", "end"}

VARIABLES conf,
          pc,          \* "check", "poll", "frame", "yield", "sleep", "done"
          lastData,    \* now - last_data_time
          toKeep,      \* next_keepalive - now, 0 once it has passed
          blocked,     \* ticks in the wait that is under way
          inbox,       \* frames that have arrived whole
          partial,     \* the frame behind them that has not, or "none"
          pieces,      \* ... and how many pieces more of it came
          starved,     \* history: ticks the loop has been without a packet
          silence,     \* history: ticks since a packet arrived whole
          quiet        \* history: ticks since anything was sent or arrived

timers  == <<lastData, toKeep>>
socket  == <<inbox, partial, pieces>>
history == <<starved, silence, quiet>>
vars    == <<conf, pc, blocked, timers, socket, history>>

(* Beyond MaxTicks one more tick makes no difference to any comparison.    *)
Later(t)   == IF t < MaxTicks THEN t + 1 ELSE t
Sooner(t)  == IF t > 0 THEN t - 1 ELSE t

readable  == inbox # <<>> \/ partial # "none"
connected == pc \in {"check", "poll", "frame", "yield"}

(* negotiate() has returned and the loop begins.                           *)
Init ==
    /\ conf \in Confs
    /\ pc = "check" /\ lastData = 0 /\ toKeep = conf.keep /\ blocked = 0
    /\ inbox = <<>> /\ partial = "none" /\ pieces = 0
    /\ starved = 0 /\ silence = 0 /\ quiet = 0

Go(place) == pc' = place /\ blocked' = 0

(* self.close(): then the exception is raised, or the next pass goes into  *)
(* _reconnect_after_delay().                                               *)
Close ==
    /\ Go(IF conf.reconnect THEN "sleep" ELSE "done")
    /\ inbox' = <<>> /\ partial' = "none" /\ pieces' = 0

(* Mutant: the timers are set once, before the loop.                       *)
DialUnset ==
    /\ pc = "sleep" /\ blocked = conf.delay
    /\ Go("check")
    /\ UNCHANGED timers
    /\ starved' = 0 /\ silence' = 0 /\ quiet' = 0
    /\ UNCHANGED <<conf, socket>>

(* _reconnect_after_delay() has slept, connects and negotiates.            *)
Dial ==
    /\ pc = "sleep" /\ blocked = conf.delay
    /\ Go("check")
    /\ lastData' = 0 /\ toKeep' = conf.keep
    /\ starved' = 0 /\ silence' = 0 /\ quiet' = 0
    /\ UNCHANGED <<conf, socket>>

(* ... which fails: it closes, sleeps and tries again.                     *)
DialFails ==
    /\ pc = "sleep" /\ blocked = conf.delay
    /\ Go("sleep")
    /\ UNCHANGED <<conf, timers, socket, starved, silence, quiet>>

-----------------------------------------------------------------------------
(* Mutant: looked at only when nothing is readable.                        *)
CheckUnreadable ==
    /\ pc = "check"
    /\ IF lastData > conf.idle /\ ~readable
       THEN Close
       ELSE Go("poll") /\ UNCHANGED socket
    /\ UNCHANGED <<conf, timers, history>>

(* The head of a pass: now - last_data_time > self._idle_timeout.          *)
Check ==
    /\ pc = "check"
    /\ IF lastData > conf.idle
       THEN Close
       ELSE Go("poll") /\ UNCHANGED socket
    /\ UNCHANGED <<conf, timers, history>>

(* _poll_readable(), or wait_for(self._ensure(1)).                         *)
PollFinds ==
    /\ pc = "poll" /\ readable
    /\ Go("frame")
    /\ UNCHANGED <<conf, timers, socket, history>>

pollEnds == pc = "poll" /\ ~readable /\ blocked = Poll
keepaliveDue == conf.keep # 0 /\ toKeep = 0

(* Mutant: next_keepalive moves on whether or not one was due.             *)
NothingMovesOn ==
    /\ pollEnds /\ ~keepaliveDue
    /\ Go("check") /\ toKeep' = conf.keep
    /\ UNCHANGED <<conf, lastData, socket, history>>

Nothing ==
    /\ pollEnds /\ ~keepaliveDue
    /\ Go("check")
    /\ UNCHANGED <<conf, timers, socket, history>>

Keepalive ==
    /\ pollEnds /\ keepaliveDue
    /\ Go("check") /\ toKeep' = conf.keep
    /\ quiet' = 0
    /\ UNCHANGED <<conf, lastData, socket, starved, silence>>

(* The INFO cannot be sent: close(), and the next pass finds _sock None,   *)
(* where reconnect=False returns.                                          *)
KeepaliveFails ==
    /\ pollEnds /\ keepaliveDue
    /\ Close /\ toKeep' = conf.keep
    /\ UNCHANGED <<conf, lastData, history>>

Info ==
    /\ pc = "frame" /\ inbox # <<>> /\ Head(inbox) = "info"
    /\ Go("check") /\ inbox' = Tail(inbox)
    /\ UNCHANGED <<conf, timers, partial, pieces, history>>

Packet ==
    /\ pc = "frame" /\ inbox # <<>> /\ Head(inbox) = "packet"
    /\ Go("yield") /\ lastData' = 0 /\ starved' = 0
    /\ inbox' = Tail(inbox)
    /\ UNCHANGED <<conf, toKeep, partial, pieces, silence, quiet>>

Error ==
    /\ pc = "frame" /\ inbox # <<>> /\ Head(inbox) = "error"
    /\ Close
    /\ UNCHANGED <<conf, timers, history>>

(* The end of a dial-up transfer; what comes after it is left out.         *)
End ==
    /\ pc = "frame" /\ inbox # <<>> /\ Head(inbox) = "end"
    /\ Go("done") /\ inbox' = <<>> /\ partial' = "none" /\ pieces' = 0
    /\ UNCHANGED <<conf, timers, history>>

(* recv_into() waits for the rest of a frame: socket timeout, then close().*)
ReadTimesOut ==
    /\ pc = "frame" /\ inbox = <<>>
    /\ conf.timeout # 0 /\ blocked = conf.timeout
    /\ Close
    /\ UNCHANGED <<conf, timers, history>>

(* The consumer comes back for the next packet.                            *)
Resume ==
    /\ pc = "yield"
    /\ Go("check")
    /\ UNCHANGED <<conf, timers, socket, history>>

-----------------------------------------------------------------------------
(* The server sends a frame at once, or begins, continues and ends one;    *)
(* each piece restarts the wait of a recv_into().                          *)
Arrive(f) ==
    /\ connected /\ partial = "none" /\ Len(inbox) < MaxQueue
    /\ inbox' = Append(inbox, f)
    /\ silence' = IF f = "packet" THEN 0 ELSE silence
    /\ quiet' = 0
    /\ UNCHANGED <<conf, pc, blocked, timers, partial, pieces, starved>>

ArrivePiece(f) ==
    /\ connected /\ Len(inbox) < MaxQueue
    /\ \/ partial = "none" /\ pieces' = 0
       \/ partial = f /\ pieces < MaxPieces /\ pieces' = pieces + 1
    /\ partial' = f
    /\ blocked' = IF pc = "frame" THEN 0 ELSE blocked
    /\ quiet' = 0
    /\ UNCHANGED <<conf, pc, timers, inbox, starved, silence>>

ArriveRest ==
    /\ connected /\ partial # "none"
    /\ inbox' = Append(inbox, partial)
    /\ partial' = "none" /\ pieces' = 0
    /\ silence' = IF partial = "packet" THEN 0 ELSE silence
    /\ quiet' = 0
    /\ UNCHANGED <<conf, pc, blocked, timers, starved>>

(* The wait under way may go on for another tick.                          *)
Waits ==
    \/ pc = "poll"  /\ ~readable /\ blocked < Poll
    \/ pc = "frame" /\ inbox = <<>> /\ (conf.timeout = 0 \/ blocked < conf.timeout)
    \/ pc = "yield" /\ blocked < conf.hold
    \/ pc = "sleep" /\ blocked < conf.delay

Tick ==
    /\ Waits
    /\ blocked' = Later(blocked)
    /\ lastData' = Later(lastData) /\ toKeep' = Sooner(toKeep)
    /\ silence' = Later(silence)
    /\ starved' = IF pc = "yield" THEN starved ELSE Later(starved)
    /\ quiet' = IF pc = "yield" THEN quiet ELSE Later(quiet)
    /\ UNCHANGED <<conf, pc, socket>>

Ended == pc = "done" /\ UNCHANGED vars

Next ==
    \/ Dial \/ DialFails
    \/ Check \/ PollFinds \/ Nothing \/ Keepalive \/ KeepaliveFails
    \/ Packet \/ Info \/ Error \/ End \/ ReadTimesOut \/ Resume
    \/ \E f \in Frames : Arrive(f)
    \/ \E f \in {"packet", "info"} : ArrivePiece(f)
    \/ ArriveRest
    \/ Tick
    \/ Ended

Spec == Init /\ [][Next]_vars

-----------------------------------------------------------------------------
TypeOK ==
    /\ conf \in Confs
    /\ pc \in {"check", "poll", "frame", "yield", "sleep", "done"}
    /\ inbox \in Seq(Frames) /\ Len(inbox) <= MaxQueue
    /\ partial \in {"none", "packet", "info"} /\ pieces \in 0..MaxPieces
    /\ lastData \in 0..MaxTicks /\ toKeep \in 0..conf.keep /\ blocked \in 0..MaxTicks
    /\ starved \in 0..MaxTicks /\ silence \in 0..MaxTicks /\ quiet \in 0..MaxTicks
    /\ (~connected => ~readable)

(* A connection without data is given up, and no server can prevent it: an *)
(* endless row of INFO replies does not, nor frames that arrive bit by     *)
(* bit.  It takes idle_timeout, one poll, and the frame being read then    *)
(* (client.py:450-455).  With timeout=None that frame may never end.       *)
SilentServerIsLeft ==
    connected /\ conf.timeout # 0
        => starved <= conf.idle + Poll + (MaxPieces + 1) * conf.timeout

(* The idle timeout strikes no connection on which a packet came within    *)
(* idle_timeout, that of this very instant excepted: timers of an earlier  *)
(* connection, time spent on other frames, the time the consumer takes are *)
(* not held against the server (client.py:446-447, 500).  A consumer that  *)
(* keeps a packet longer than idle_timeout forfeits this: the clock runs   *)
(* while it does (client.py:455).                                          *)
OnlySilenceIsIdle ==
    [][pc = "check" /\ pc' \in {"sleep", "done"} /\ conf.hold <= conf.idle
           => silence > conf.idle \/ silence = 0]_vars

(* While the loop runs, the link is never quiet for longer than keepalive  *)
(* and one poll, and what it takes to give up a frame (client.py:462-470). *)
LinkKeptAlive ==
    connected /\ conf.keep # 0
        => quiet <= conf.keep + Poll
           \/ (pc = "frame" /\ (conf.timeout = 0 \/ quiet <= conf.timeout))
=============================================================================
