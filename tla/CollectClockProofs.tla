------------------------- MODULE CollectClockProofs -------------------------
(***************************************************************************)
(* For every configuration, poll interval and number of pieces a frame may *)
(* arrive in: collect() gives up a connection without data in bounded      *)
(* time, keeps the link from falling quiet, and drops none for being idle  *)
(* that is not.                                                            *)
(***************************************************************************)
EXTENDS CollectClock, TLAPS

(* A frame that has begun to arrive has its place in the queue.            *)
Room == partial # "none" => Len(inbox) < MaxQueue

(* In the middle of a frame: recv_into() waits for its rest.               *)
Reading == pc = "frame" /\ inbox = <<>>

(* No wait lasts longer than it may.                                       *)
WaitInv ==
    /\ pc = "poll"  => blocked <= Poll
    /\ Reading      => partial # "none" /\ (conf.timeout # 0 => blocked <= conf.timeout)
    /\ pc = "yield" => blocked <= conf.hold /\ lastData <= blocked

(* Where the time without a packet goes: it counts against idle_timeout up *)
(* to the head of a pass, which leaves one poll and one frame, and each    *)
(* piece of that frame one socket timeout.                                 *)
Budget == conf.idle + Poll + (MaxPieces + 1) * conf.timeout

StarvedInv ==
    connected =>
    /\ starved <= lastData
    /\ pc = "poll" => starved <= conf.idle + blocked
    /\ conf.timeout # 0 =>
         /\ starved <= Budget
         /\ Reading => starved <= conf.idle + Poll + pieces * conf.timeout + blocked

(* Until next_keepalive the link is quiet no longer than that timer runs;  *)
(* then for the rest of a poll.  What can be read has ended the quiet.     *)
QuietInv ==
    connected =>
    /\ conf.keep # 0 /\ toKeep > 0 => quiet <= conf.keep - toKeep
    /\ conf.keep # 0 /\ pc \in {"check", "yield"} => quiet <= conf.keep
    /\ conf.keep # 0 /\ pc = "poll" => quiet <= conf.keep + blocked
    /\ Reading => quiet <= blocked
    /\ readable /\ ~Reading => quiet = 0

(* Only a packet that waits unread may be younger than last_data_time      *)
(* says: it has just come, or came while the consumer held another one.    *)
HasPacket == \E i \in 1..Len(inbox) : inbox[i] = "packet"

SilenceInv ==
    connected =>
       \/ lastData <= silence
       \/ HasPacket /\ (silence = 0 \/ pc = "yield" \/ lastData <= conf.hold)

Inv == TypeOK /\ Room /\ WaitInv /\ StarvedInv /\ QuietInv /\ SilenceInv

-----------------------------------------------------------------------------
(* The clock counts by ones and stops at MaxTicks.                         *)
LEMMA LaterOK ==
    ASSUME NEW t \in 0..MaxTicks
    PROVE  /\ t \in Nat /\ Later(t) \in Nat /\ Later(t) \in 0..MaxTicks
           /\ t <= Later(t) /\ Later(t) <= t + 1
  BY ClockAssumption DEF Later

LEMMA LaterKeepsOrder ==
    ASSUME NEW s \in 0..MaxTicks, NEW t \in 0..MaxTicks, s <= t
    PROVE  Later(s) <= Later(t)
  BY ClockAssumption DEF Later

LEMMA LaterKeepsBound ==
    ASSUME NEW s \in 0..MaxTicks, NEW t \in 0..MaxTicks, NEW k \in Nat, s <= k + t
    PROVE  Later(s) <= k + Later(t)
  BY ClockAssumption DEF Later

(* What a configuration of Confs is.                                       *)
LEMMA ConfOK ==
    ASSUME TypeOK
    PROVE  /\ conf.idle \in Nat /\ conf.keep \in Nat /\ conf.delay \in Nat
           /\ conf.timeout \in Nat /\ conf.hold \in Nat /\ conf.reconnect \in BOOLEAN
           /\ conf.keep < MaxTicks
  <1>1. conf \in ClockConf /\ conf.keep + conf.hold + conf.delay < MaxTicks
    BY ClockAssumption DEF TypeOK
  <1>2. /\ conf.idle \in Nat /\ conf.keep \in Nat /\ conf.delay \in Nat
        /\ conf.timeout \in Nat /\ conf.hold \in Nat /\ conf.reconnect \in BOOLEAN
    BY <1>1 DEF ClockConf
  <1> QED BY <1>1, <1>2, ClockAssumption

(* A frame takes at most one socket timeout for each of its pieces.        *)
LEMMA BudgetOK ==
    ASSUME TypeOK
    PROVE  /\ Budget \in Nat
           /\ conf.idle + Poll <= Budget
           /\ (pieces + 1) * conf.timeout = pieces * conf.timeout + conf.timeout
           /\ pieces * conf.timeout \in Nat
           /\ conf.idle + Poll + pieces * conf.timeout + conf.timeout <= Budget
  <1>1. PICK n \in Nat : n = conf.timeout
    BY ConfOK
  <1>2. PICK p \in 0..MaxPieces : p = pieces
    BY DEF TypeOK
  <1>3. /\ (MaxPieces + 1) * n = MaxPieces * n + n
        /\ MaxPieces * n \in Nat /\ p * n \in Nat
        /\ p * n <= MaxPieces * n
        /\ (p + 1) * n = p * n + n
    <2>1. PICK d \in Nat : MaxPieces = p + d
      BY ClockAssumption
    <2>2. p * n \in Nat /\ d * n \in Nat
      OBVIOUS
    <2>3. (p + d) * n = p * n + d * n /\ (p + d + 1) * n = p * n + d * n + n
      OBVIOUS
    <2> QED BY <2>1, <2>2, <2>3
  <1> QED BY <1>1, <1>2, <1>3, ConfOK, ClockAssumption DEF Budget

(* The queue, read from the front and filled at the back.                  *)
LEMMA QueueOK ==
    ASSUME TypeOK
    PROVE  /\ Len(inbox) \in Nat
           /\ inbox # <<>> => /\ Tail(inbox) \in Seq(Frames)
                              /\ Len(Tail(inbox)) = Len(inbox) - 1
           /\ \A f \in Frames : /\ Append(inbox, f) \in Seq(Frames)
                                /\ Len(Append(inbox, f)) = Len(inbox) + 1
                                /\ Append(inbox, f) # <<>>
           /\ <<>> \in Seq(Frames) /\ Len(<<>>) = 0
  BY DEF TypeOK

(* A packet stays in the queue while other frames are read or come.        *)
LEMMA PacketStays ==
    ASSUME TypeOK
    PROVE  /\ HasPacket /\ inbox # <<>> /\ Head(inbox) # "packet" /\ inbox' = Tail(inbox)
                => HasPacket'
           /\ \A f \in Frames : inbox' = Append(inbox, f) /\ (HasPacket \/ f = "packet")
                => HasPacket'
  <1>1. ASSUME HasPacket, inbox # <<>>, Head(inbox) # "packet", inbox' = Tail(inbox)
        PROVE  HasPacket'
    <2>1. PICK i \in 1..Len(inbox) : inbox[i] = "packet"
      BY <1>1 DEF HasPacket
    <2>2. i # 1
      BY <1>1, <2>1 DEF TypeOK
    <2>3. i - 1 \in 1..Len(inbox') /\ inbox'[i - 1] = "packet"
      BY <1>1, <2>1, <2>2 DEF TypeOK
    <2> QED BY <2>3 DEF HasPacket
  <1>2. ASSUME NEW f \in Frames, inbox' = Append(inbox, f), HasPacket \/ f = "packet"
        PROVE  HasPacket'
    <2>1. CASE HasPacket
      <3>1. PICK i \in 1..Len(inbox) : inbox[i] = "packet"
        BY <2>1 DEF HasPacket
      <3>2. i \in 1..Len(inbox') /\ inbox'[i] = "packet"
        BY <1>2, <3>1 DEF TypeOK
      <3> QED BY <3>2 DEF HasPacket
    <2>2. CASE f = "packet"
      <3>1. Len(inbox) + 1 \in 1..Len(inbox') /\ inbox'[Len(inbox) + 1] = "packet"
        BY <1>2, <2>2 DEF TypeOK
      <3> QED BY <3>1 DEF HasPacket
    <2> QED BY <1>2, <2>1, <2>2
  <1> QED BY <1>1, <1>2

-----------------------------------------------------------------------------
LEMMA InitOK == Init => Inv
  <1> SUFFICES ASSUME Init PROVE Inv
    OBVIOUS
  <1>1. TypeOK
    <2>1. conf \in ClockConf
      BY ClockAssumption DEF Init
    <2> QED BY <2>1, ClockAssumption DEF Init, TypeOK, ClockConf, readable
  <1>2. Room /\ WaitInv /\ QuietInv /\ SilenceInv
    BY <1>1, ConfOK DEF Init, Room, Reading, WaitInv, QuietInv, SilenceInv, readable
  <1>3. StarvedInv
    BY <1>1, BudgetOK DEF Init, StarvedInv, Reading
  <1> QED BY <1>1, <1>2, <1>3 DEF Inv

(* The types, and the place that a frame under way has in the queue.       *)
LEMMA TypesKept == ASSUME Inv, [Next]_vars PROVE TypeOK' /\ Room'
  <1> USE ClockAssumption DEF Go, connected, readable
  <1> USE DEF socket, timers, history
  <1>a. TypeOK /\ Room
    BY DEF Inv
  <1>1. CASE Dial
    BY <1>a, <1>1, ConfOK, QueueOK DEF Dial, TypeOK, Room
  <1>2. CASE DialFails
    BY <1>a, <1>2 DEF DialFails, TypeOK, Room
  <1>3. CASE Check
    <2>1. CASE lastData > conf.idle
      <3>1. Close /\ UNCHANGED <<conf, timers, history>>
        BY <1>3, <2>1 DEF Check
      <3> QED BY <1>a, <3>1, QueueOK DEF Close, TypeOK, Room
    <2>2. CASE ~(lastData > conf.idle)
      BY <1>a, <1>3, <2>2 DEF Check, TypeOK, Room
    <2> QED BY <2>1, <2>2
  <1>4. CASE PollFinds
    BY <1>a, <1>4 DEF PollFinds, TypeOK, Room
  <1>5. CASE Nothing
    BY <1>a, <1>5 DEF Nothing, pollEnds, TypeOK, Room
  <1>6. CASE Keepalive
    BY <1>a, <1>6, ConfOK DEF Keepalive, pollEnds, TypeOK, Room
  <1>7. CASE KeepaliveFails
    BY <1>a, <1>7, ConfOK, QueueOK DEF KeepaliveFails, pollEnds, Close, TypeOK, Room
  <1>8. CASE Packet
    BY <1>a, <1>8, QueueOK DEF Packet, TypeOK, Room
  <1>9. CASE Info
    BY <1>a, <1>9, QueueOK DEF Info, TypeOK, Room
  <1>10. CASE Error
    BY <1>a, <1>10, QueueOK DEF Error, Close, TypeOK, Room
  <1>11. CASE End
    BY <1>a, <1>11, QueueOK DEF End, TypeOK, Room
  <1>12. CASE ReadTimesOut
    BY <1>a, <1>12, QueueOK DEF ReadTimesOut, Close, TypeOK, Room
  <1>13. CASE Resume
    BY <1>a, <1>13 DEF Resume, TypeOK, Room
  <1>14. ASSUME NEW f \in Frames, Arrive(f) PROVE TypeOK' /\ Room'
    BY <1>a, <1>14, QueueOK DEF Arrive, TypeOK, Room
  <1>15. ASSUME NEW f \in {"packet", "info"}, ArrivePiece(f) PROVE TypeOK' /\ Room'
    BY <1>a, <1>15 DEF ArrivePiece, TypeOK, Room
  <1>16. CASE ArriveRest
    BY <1>a, <1>16, QueueOK DEF ArriveRest, TypeOK, Room, Frames
  <1>17. CASE Tick
    <2>1. /\ Later(blocked) \in 0..MaxTicks /\ Later(lastData) \in 0..MaxTicks
          /\ Later(silence) \in 0..MaxTicks /\ Later(starved) \in 0..MaxTicks
          /\ Later(quiet) \in 0..MaxTicks
      BY <1>a, LaterOK DEF TypeOK
    <2>2. Sooner(toKeep) \in 0..conf.keep
      BY <1>a, ConfOK, SMTT(30) DEF Sooner, TypeOK
    <2> QED BY <1>a, <1>17, <2>1, <2>2 DEF Tick, TypeOK, Room
  <1>18. CASE UNCHANGED vars
    BY <1>a, <1>18 DEF vars, TypeOK, Room
  <1> QED BY <1>1, <1>2, <1>3, <1>4, <1>5, <1>6, <1>7, <1>8, <1>9, <1>10, <1>11, <1>12,
             <1>13, <1>14, <1>15, <1>16, <1>17, <1>18 DEF Next, Ended
(* Waits end on time, and a consumer's time counts from the packet it got. *)
LEMMA WaitsKept == ASSUME Inv, [Next]_vars PROVE WaitInv'
  <1> USE ClockAssumption DEF Go, connected, readable
  <1> USE DEF socket, timers, history
  <1>a. TypeOK /\ WaitInv /\ TypeOK'
    BY TypesKept DEF Inv
  <1>b. conf.timeout \in Nat /\ conf.hold \in Nat
    BY <1>a, ConfOK
  <1>1. CASE Dial
    BY <1>1 DEF Dial, WaitInv, Reading
  <1>2. CASE DialFails
    BY <1>2 DEF DialFails, WaitInv, Reading
  <1>3. CASE Check
    BY <1>3 DEF Check, Close, WaitInv, Reading
  <1>4. CASE PollFinds
    BY <1>a, <1>b, <1>4 DEF PollFinds, WaitInv, Reading
  <1>5. CASE Nothing
    BY <1>5 DEF Nothing, WaitInv, Reading
  <1>6. CASE Keepalive
    BY <1>6 DEF Keepalive, WaitInv, Reading
  <1>7. CASE KeepaliveFails
    BY <1>7 DEF KeepaliveFails, Close, WaitInv, Reading
  <1>8. CASE Packet
    BY <1>b, <1>8 DEF Packet, WaitInv, Reading
  <1>9. CASE Info
    BY <1>9 DEF Info, WaitInv, Reading
  <1>10. CASE Error
    BY <1>10 DEF Error, Close, WaitInv, Reading
  <1>11. CASE End
    BY <1>11 DEF End, WaitInv, Reading
  <1>12. CASE ReadTimesOut
    BY <1>12 DEF ReadTimesOut, Close, WaitInv, Reading
  <1>13. CASE Resume
    BY <1>13 DEF Resume, WaitInv, Reading
  <1>14. ASSUME NEW f \in Frames, Arrive(f) PROVE WaitInv'
    BY <1>a, <1>14, QueueOK DEF Arrive, WaitInv, Reading
  <1>15. ASSUME NEW f \in {"packet", "info"}, ArrivePiece(f) PROVE WaitInv'
    BY <1>a, <1>b, <1>15 DEF ArrivePiece, WaitInv, Reading
  <1>16. CASE ArriveRest
    <2>1. partial \in Frames
      BY <1>a, <1>16 DEF ArriveRest, TypeOK, Frames
    <2>2. inbox' # <<>>
      BY <1>a, <1>16, <2>1, QueueOK DEF ArriveRest
    <2> QED BY <1>a, <1>16, <2>2 DEF ArriveRest, WaitInv, Reading
  <1>17. CASE Tick
    <2>1. blocked \in Nat /\ lastData \in Nat
      BY <1>a DEF TypeOK
    <2>2. Later(blocked) \in Nat /\ Later(blocked) <= blocked + 1
      BY <1>a, LaterOK DEF TypeOK
    <2>3. lastData <= blocked => Later(lastData) <= Later(blocked)
      BY <1>a, LaterKeepsOrder DEF TypeOK
    <2> QED BY <1>a, <1>b, <1>17, <2>1, <2>2, <2>3 DEF Tick, Waits, WaitInv, Reading
  <1>18. CASE UNCHANGED vars
    BY <1>a, <1>18 DEF vars, WaitInv, Reading
  <1> QED BY <1>1, <1>2, <1>3, <1>4, <1>5, <1>6, <1>7, <1>8, <1>9, <1>10, <1>11, <1>12,
             <1>13, <1>14, <1>15, <1>16, <1>17, <1>18 DEF Next, Ended

(* The time without a packet stays within the budget.                      *)
LEMMA StarvedKept == ASSUME Inv, [Next]_vars PROVE StarvedInv'
  <1> USE ClockAssumption DEF Go, connected, readable
  <1> USE DEF socket, timers, history
  <1>a. TypeOK /\ WaitInv /\ StarvedInv /\ TypeOK' /\ WaitInv'
    BY TypesKept, WaitsKept DEF Inv
  <1>b. /\ conf.timeout \in Nat /\ conf.idle \in Nat
        /\ Budget \in Nat /\ pieces * conf.timeout \in Nat
        /\ conf.idle + Poll <= Budget
        /\ (pieces + 1) * conf.timeout = pieces * conf.timeout + conf.timeout
        /\ conf.idle + Poll + pieces * conf.timeout + conf.timeout <= Budget
    BY <1>a, ConfOK, BudgetOK
  <1>c. /\ starved \in Nat /\ lastData \in Nat /\ blocked \in Nat
    BY <1>a DEF TypeOK
  <1>d. conf' = conf => Budget' = Budget
    BY DEF Budget
  <1>1. CASE Dial
    <2>1. conf' = conf /\ starved' = 0 /\ lastData' = 0 /\ pc' = "check"
      BY <1>1 DEF Dial
    <2> QED BY <1>b, <1>d, <2>1 DEF StarvedInv, Reading
  <1>2. CASE DialFails
    BY <1>2 DEF DialFails, StarvedInv
  <1>3. CASE Check
    <2>1. CASE lastData > conf.idle
      BY <1>3, <2>1 DEF Check, Close, StarvedInv
    <2>2. CASE ~(lastData > conf.idle)
      <3>1. /\ conf' = conf /\ starved' = starved /\ lastData' = lastData
            /\ pc' = "poll" /\ blocked' = 0 /\ starved <= lastData /\ starved <= conf.idle
        BY <1>a, <1>b, <1>c, <1>3, <2>2 DEF Check, StarvedInv
      <3> QED BY <1>b, <1>c, <1>d, <3>1 DEF StarvedInv, Reading
    <2> QED BY <2>1, <2>2
  <1>4. CASE PollFinds
    <2>1. /\ conf' = conf /\ starved' = starved /\ lastData' = lastData /\ pieces' = pieces
          /\ pc' = "frame" /\ blocked' = 0 /\ starved <= lastData
          /\ starved <= conf.idle + blocked /\ blocked <= Poll
      BY <1>a, <1>4 DEF PollFinds, StarvedInv, WaitInv
    <2> QED BY SMTT(30), <1>b, <1>c, <1>d, <2>1 DEF StarvedInv, Reading
  <1>5. CASE Nothing
    <2>1. /\ conf' = conf /\ starved' = starved /\ lastData' = lastData
          /\ pc' = "check" /\ connected
      BY <1>5 DEF Nothing, pollEnds
    <2> QED BY <1>a, <1>d, <2>1 DEF StarvedInv, Reading
  <1>6. CASE Keepalive
    <2>1. /\ conf' = conf /\ starved' = starved /\ lastData' = lastData
          /\ pc' = "check" /\ connected
      BY <1>6 DEF Keepalive, pollEnds
    <2> QED BY <1>a, <1>d, <2>1 DEF StarvedInv, Reading
  <1>7. CASE KeepaliveFails
    BY <1>7 DEF KeepaliveFails, Close, StarvedInv
  <1>8. CASE Packet
    <2>1. conf' = conf /\ starved' = 0 /\ lastData' = 0 /\ pc' = "yield"
      BY <1>8 DEF Packet
    <2> QED BY <1>b, <1>d, <2>1 DEF StarvedInv, Reading
  <1>9. CASE Info
    <2>1. /\ conf' = conf /\ starved' = starved /\ lastData' = lastData
          /\ pc' = "check" /\ connected
      BY <1>9 DEF Info
    <2> QED BY <1>a, <1>d, <2>1 DEF StarvedInv, Reading
  <1>10. CASE Error
    BY <1>10 DEF Error, Close, StarvedInv
  <1>11. CASE End
    BY <1>11 DEF End, StarvedInv
  <1>12. CASE ReadTimesOut
    BY <1>12 DEF ReadTimesOut, Close, StarvedInv
  <1>13. CASE Resume
    <2>1. /\ conf' = conf /\ starved' = starved /\ lastData' = lastData
          /\ pc' = "check" /\ connected
      BY <1>13 DEF Resume
    <2> QED BY <1>a, <1>d, <2>1 DEF StarvedInv, Reading
  <1>14. ASSUME NEW f \in Frames, Arrive(f) PROVE StarvedInv'
    <2>1. /\ conf' = conf /\ starved' = starved /\ lastData' = lastData
          /\ pc' = pc /\ blocked' = blocked /\ inbox' # <<>>
      BY <1>a, <1>14, QueueOK DEF Arrive
    <2> QED BY <1>a, <1>d, <2>1 DEF StarvedInv, Reading
  <1>15. ASSUME NEW f \in {"packet", "info"}, ArrivePiece(f) PROVE StarvedInv'
    <2>1. /\ conf' = conf /\ starved' = starved /\ lastData' = lastData
          /\ pc' = pc /\ inbox' = inbox /\ connected
          /\ blocked' = IF pc = "frame" THEN 0 ELSE blocked
      BY <1>15 DEF ArrivePiece
    <2>2. Reading => pieces' = pieces + 1
      BY <1>a, <1>15 DEF ArrivePiece, WaitInv
    <2>3. ASSUME Reading, conf.timeout # 0
          PROVE  starved <= conf.idle + Poll + pieces' * conf.timeout + 0
      <3>1. /\ blocked <= conf.timeout
            /\ starved <= conf.idle + Poll + pieces * conf.timeout + blocked
        BY <1>a, <2>3 DEF WaitInv, StarvedInv, Reading
      <3>2. PICK q \in Nat : q = pieces * conf.timeout
        BY <1>b
      <3>3. pieces' * conf.timeout = (pieces + 1) * conf.timeout
        BY <2>2, <2>3, Zenon
      <3>4. PICK r \in Nat : r = pieces' * conf.timeout /\ r = q + conf.timeout
        BY <1>b, <3>2, <3>3
      <3>5. starved <= conf.idle + Poll + r + 0
        BY <1>b, <1>c, <3>1, <3>2, <3>4
      <3> QED BY <3>4, <3>5
    <2>4. /\ starved' <= lastData' /\ (pc' = "poll" => starved' <= conf'.idle + blocked')
          /\ (conf'.timeout # 0 => starved' <= Budget')
      BY <1>a, <1>c, <1>d, <2>1 DEF StarvedInv
    <2>5. ASSUME Reading', conf'.timeout # 0
          PROVE  starved' <= conf'.idle + Poll + pieces' * conf'.timeout + blocked'
      <3>1. Reading /\ blocked' = 0 /\ starved' = starved /\ conf' = conf
        BY <2>1, <2>5 DEF Reading
      <3>2. starved <= conf.idle + Poll + pieces' * conf.timeout + 0
        BY <2>3, <2>5, <3>1
      <3> QED BY <3>1, <3>2, Zenon
    <2> QED BY <2>4, <2>5 DEF StarvedInv
  <1>16. CASE ArriveRest
    <2>1. partial \in Frames
      BY <1>a, <1>16 DEF ArriveRest, TypeOK, Frames
    <2>2. /\ conf' = conf /\ starved' = starved /\ lastData' = lastData
          /\ pc' = pc /\ blocked' = blocked /\ inbox' # <<>>
      BY <1>a, <1>16, <2>1, QueueOK DEF ArriveRest
    <2> QED BY <1>a, <1>d, <2>2 DEF StarvedInv, Reading
  <1>17. CASE Tick
    <2>1. /\ conf' = conf /\ pc' = pc /\ pieces' = pieces /\ inbox' = inbox
          /\ blocked' = Later(blocked) /\ lastData' = Later(lastData)
          /\ starved' = IF pc = "yield" THEN starved ELSE Later(starved)
      BY <1>17 DEF Tick
    <2>2. /\ Later(starved) <= starved + 1 /\ Later(starved) \in Nat
          /\ Later(lastData) \in Nat /\ lastData <= Later(lastData)
          /\ Later(blocked) \in Nat
      BY <1>a, LaterOK DEF TypeOK
    <2>3. starved <= lastData => Later(starved) <= Later(lastData)
      BY <1>a, LaterKeepsOrder DEF TypeOK
    <2>4. CASE pc = "yield"
      BY <1>a, <1>c, <1>d, <2>1, <2>2, <2>4 DEF StarvedInv, Reading
    <2>5. CASE pc = "poll"
      <3>1. starved <= conf.idle + blocked /\ starved <= lastData
        BY <1>a, <2>5 DEF StarvedInv
      <3>2. Later(starved) <= conf.idle + Later(blocked)
        BY <1>a, <1>b, <3>1, LaterKeepsBound DEF TypeOK
      <3>3. Later(blocked) <= Poll
        BY <1>a, <2>1, <2>5 DEF WaitInv
      <3> QED BY <1>b, <1>d, <2>1, <2>2, <2>3, <2>5, <3>1, <3>2, <3>3 DEF StarvedInv, Reading
    <2>6. CASE pc = "frame"
      <3>1. inbox = <<>> /\ Reading /\ starved <= lastData
        BY <1>a, <1>17, <2>6 DEF Tick, Waits, Reading, StarvedInv
      <3>2. ASSUME conf.timeout # 0
            PROVE  /\ Later(starved) <= conf.idle + Poll + pieces * conf.timeout + Later(blocked)
                   /\ Later(starved) <= Budget
        <4>1. starved <= conf.idle + Poll + pieces * conf.timeout + blocked
          BY <1>a, <2>6, <3>1, <3>2 DEF StarvedInv
        <4>2. PICK k \in Nat : k = conf.idle + Poll + pieces * conf.timeout
          BY <1>b
        <4>3. Later(starved) <= k + Later(blocked)
          BY <1>a, <4>1, <4>2, LaterKeepsBound DEF TypeOK
        <4>4. Later(blocked) <= conf.timeout
          BY <1>a, <2>1, <2>6, <3>1, <3>2 DEF WaitInv, Reading
        <4> QED BY <1>b, <2>2, <4>2, <4>3, <4>4
      <3> QED BY <1>d, <2>1, <2>3, <2>6, <3>1, <3>2 DEF StarvedInv, Reading
    <2>7. CASE pc = "sleep"
      BY <2>1, <2>7 DEF StarvedInv
    <2> QED BY <1>17, <2>4, <2>5, <2>6, <2>7 DEF Tick, Waits
  <1>18. CASE UNCHANGED vars
    BY <1>a, <1>18 DEF vars, StarvedInv, Reading, Budget
  <1> QED BY <1>1, <1>2, <1>3, <1>4, <1>5, <1>6, <1>7, <1>8, <1>9, <1>10, <1>11, <1>12,
             <1>13, <1>14, <1>15, <1>16, <1>17, <1>18 DEF Next, Ended
(* What the link has been quiet for stays within the timer's reach.        *)
LEMMA QuietKept == ASSUME Inv, [Next]_vars PROVE QuietInv'
  <1> USE ClockAssumption DEF Go, connected, readable
  <1> USE DEF socket, timers, history
  <1>a. TypeOK /\ WaitInv /\ QuietInv /\ TypeOK' /\ WaitInv'
    BY TypesKept, WaitsKept DEF Inv
  <1>b. conf.keep \in Nat /\ quiet \in Nat /\ blocked \in Nat /\ toKeep \in Nat
    BY <1>a, ConfOK DEF TypeOK
  <1>1. CASE Dial
    BY <1>a, <1>b, <1>1 DEF Dial, QuietInv, Reading, TypeOK
  <1>2. CASE DialFails
    BY <1>2 DEF DialFails, QuietInv
  <1>3. CASE Check
    <2>1. CASE lastData > conf.idle
      BY <1>3, <2>1 DEF Check, Close, QuietInv
    <2>2. CASE ~(lastData > conf.idle)
      BY <1>a, <1>b, <1>3, <2>2 DEF Check, QuietInv, Reading
    <2> QED BY <2>1, <2>2
  <1>4. CASE PollFinds
    BY <1>a, <1>b, <1>4 DEF PollFinds, QuietInv, Reading
  <1>5. CASE Nothing
    BY <1>a, <1>b, <1>5 DEF Nothing, pollEnds, keepaliveDue, QuietInv, Reading
  <1>6. CASE Keepalive
    BY <1>a, <1>b, <1>6 DEF Keepalive, pollEnds, QuietInv, Reading
  <1>7. CASE KeepaliveFails
    BY <1>7 DEF KeepaliveFails, Close, QuietInv
  <1>8. CASE Packet
    BY <1>a, <1>b, <1>8 DEF Packet, QuietInv, Reading
  <1>9. CASE Info
    BY <1>a, <1>b, <1>9 DEF Info, QuietInv, Reading
  <1>10. CASE Error
    BY <1>10 DEF Error, Close, QuietInv
  <1>11. CASE End
    BY <1>11 DEF End, QuietInv
  <1>12. CASE ReadTimesOut
    BY <1>12 DEF ReadTimesOut, Close, QuietInv
  <1>13. CASE Resume
    BY <1>a, <1>b, <1>13 DEF Resume, QuietInv, Reading
  <1>14. ASSUME NEW f \in Frames, Arrive(f) PROVE QuietInv'
    BY <1>a, <1>b, <1>14 DEF Arrive, QuietInv, TypeOK
  <1>15. ASSUME NEW f \in {"packet", "info"}, ArrivePiece(f) PROVE QuietInv'
    BY <1>a, <1>b, <1>15 DEF ArrivePiece, QuietInv, TypeOK
  <1>16. CASE ArriveRest
    BY <1>a, <1>b, <1>16 DEF ArriveRest, QuietInv, TypeOK
  <1>17. CASE Tick
    <2>1. /\ conf' = conf /\ pc' = pc /\ inbox' = inbox /\ partial' = partial
          /\ blocked' = Later(blocked) /\ toKeep' = Sooner(toKeep)
          /\ quiet' = IF pc = "yield" THEN quiet ELSE Later(quiet)
      BY <1>17 DEF Tick
    <2>2. Later(quiet) <= quiet + 1 /\ Later(quiet) \in Nat
      BY <1>a, LaterOK DEF TypeOK
    <2>3. /\ quiet <= blocked => Later(quiet) <= Later(blocked)
          /\ quiet <= conf.keep + blocked => Later(quiet) <= conf.keep + Later(blocked)
      BY <1>a, <1>b, LaterKeepsOrder, LaterKeepsBound DEF TypeOK
    <2>4. toKeep > 0 /\ quiet <= conf.keep - toKeep =>
             (Sooner(toKeep) > 0 => Later(quiet) <= conf.keep - Sooner(toKeep))
      BY <1>b, <2>2 DEF Sooner
    <2>5. Sooner(toKeep) > 0 => toKeep > 0 /\ Sooner(toKeep) = toKeep - 1
      BY <1>b DEF Sooner
    <2>6. CASE pc = "yield"
      BY <1>a, <1>b, <2>1, <2>5, <2>6 DEF QuietInv, Reading
    <2>7. CASE pc = "poll"
      BY <1>a, <1>b, <1>17, <2>1, <2>3, <2>4, <2>5, <2>7 DEF Tick, Waits, QuietInv, Reading
    <2>8. CASE pc = "frame"
      BY <1>a, <1>b, <1>17, <2>1, <2>3, <2>4, <2>5, <2>8 DEF Tick, Waits, QuietInv, Reading
    <2>9. CASE pc = "sleep"
      BY <2>1, <2>9 DEF QuietInv
    <2> QED BY <1>17, <2>6, <2>7, <2>8, <2>9 DEF Tick, Waits
  <1>18. CASE UNCHANGED vars
    BY <1>a, <1>18 DEF vars, QuietInv, Reading
  <1> QED BY <1>1, <1>2, <1>3, <1>4, <1>5, <1>6, <1>7, <1>8, <1>9, <1>10, <1>11, <1>12,
             <1>13, <1>14, <1>15, <1>16, <1>17, <1>18 DEF Next, Ended

(* last_data_time stays the time of the last packet, or one is waiting.    *)
LEMMA SilenceKept == ASSUME Inv, [Next]_vars PROVE SilenceInv'
  <1> USE ClockAssumption DEF Go, connected, readable
  <1> USE DEF socket, timers, history
  <1>a. TypeOK /\ WaitInv /\ SilenceInv /\ TypeOK'
    BY TypesKept DEF Inv
  <1>b. conf.hold \in Nat /\ lastData \in Nat /\ silence \in Nat /\ blocked \in Nat
    BY <1>a, ConfOK DEF TypeOK
  <1>c. inbox' = inbox => (HasPacket' <=> HasPacket)
    BY DEF HasPacket
  <1>d. HasPacket => inbox # <<>>
    BY QueueOK, <1>a DEF HasPacket
  <1>1. CASE Dial
    BY <1>1 DEF Dial, SilenceInv
  <1>2. CASE DialFails
    BY <1>2 DEF DialFails, SilenceInv
  <1>3. CASE Check
    <2>1. CASE lastData > conf.idle
      BY <1>3, <2>1 DEF Check, Close, SilenceInv
    <2>2. CASE ~(lastData > conf.idle)
      BY <1>a, <1>c, <1>3, <2>2 DEF Check, SilenceInv
    <2> QED BY <2>1, <2>2
  <1>4. CASE PollFinds
    BY <1>a, <1>c, <1>4 DEF PollFinds, SilenceInv
  <1>5. CASE Nothing
    BY <1>a, <1>c, <1>5 DEF Nothing, pollEnds, SilenceInv
  <1>6. CASE Keepalive
    BY <1>a, <1>c, <1>6 DEF Keepalive, pollEnds, SilenceInv
  <1>7. CASE KeepaliveFails
    BY <1>7 DEF KeepaliveFails, Close, SilenceInv
  <1>8. CASE Packet
    BY <1>b, <1>8 DEF Packet, SilenceInv
  <1>9. CASE Info
    <2>1. HasPacket => HasPacket'
      BY <1>a, <1>9, PacketStays DEF Info
    <2> QED BY <1>a, <1>9, <2>1 DEF Info, SilenceInv
  <1>10. CASE Error
    BY <1>10 DEF Error, Close, SilenceInv
  <1>11. CASE End
    BY <1>11 DEF End, SilenceInv
  <1>12. CASE ReadTimesOut
    BY <1>12 DEF ReadTimesOut, Close, SilenceInv
  <1>13. CASE Resume
    BY <1>a, <1>b, <1>c, <1>13 DEF Resume, SilenceInv, WaitInv
  <1>14. ASSUME NEW f \in Frames, Arrive(f) PROVE SilenceInv'
    <2>1. HasPacket \/ f = "packet" => HasPacket'
      BY <1>a, <1>14, PacketStays DEF Arrive
    <2> QED BY <1>a, <1>14, <2>1 DEF Arrive, SilenceInv
  <1>15. ASSUME NEW f \in {"packet", "info"}, ArrivePiece(f) PROVE SilenceInv'
    BY <1>a, <1>c, <1>15 DEF ArrivePiece, SilenceInv
  <1>16. CASE ArriveRest
    <2>1. partial \in Frames
      BY <1>a, <1>16 DEF ArriveRest, TypeOK, Frames
    <2>2. HasPacket \/ partial = "packet" => HasPacket'
      BY <1>a, <1>16, <2>1, PacketStays DEF ArriveRest
    <2> QED BY <1>a, <1>16, <2>2 DEF ArriveRest, SilenceInv
  <1>17. CASE Tick
    <2>1. /\ conf' = conf /\ pc' = pc /\ inbox' = inbox
          /\ lastData' = Later(lastData) /\ silence' = Later(silence)
      BY <1>17 DEF Tick
    <2>2. lastData <= silence => Later(lastData) <= Later(silence)
      BY <1>a, LaterKeepsOrder DEF TypeOK
    <2>3. CASE pc = "yield"
      BY <1>a, <1>c, <2>1, <2>2, <2>3 DEF SilenceInv
    <2>4. CASE pc \in {"poll", "frame"}
      BY <1>a, <1>c, <1>d, <1>17, <2>1, <2>2, <2>4 DEF Tick, Waits, SilenceInv
    <2>5. CASE pc = "sleep"
      BY <2>1, <2>5 DEF SilenceInv
    <2> QED BY <1>17, <2>3, <2>4, <2>5 DEF Tick, Waits
  <1>18. CASE UNCHANGED vars
    BY <1>a, <1>c, <1>18 DEF vars, SilenceInv
  <1> QED BY <1>1, <1>2, <1>3, <1>4, <1>5, <1>6, <1>7, <1>8, <1>9, <1>10, <1>11, <1>12,
             <1>13, <1>14, <1>15, <1>16, <1>17, <1>18 DEF Next, Ended

-----------------------------------------------------------------------------
(* The invariant holds throughout (client.py:442-503).                     *)
THEOREM InvAlways == Spec => []Inv
  <1>1. Inv /\ [Next]_vars => Inv'
    BY TypesKept, WaitsKept, StarvedKept, QuietKept, SilenceKept DEF Inv
  <1> QED BY <1>1, InitOK, PTL DEF Spec

(* A connection that brings no packet is given up within idle_timeout, one *)
(* poll and one frame (client.py:450-460), for every configuration.        *)
THEOREM SilentServerLeft == Spec => []SilentServerIsLeft
  <1>1. Inv => SilentServerIsLeft
    BY DEF Inv, StarvedInv, Budget, SilentServerIsLeft
  <1> QED BY <1>1, InvAlways, PTL

(* The link is never quiet for longer than keepalive and one poll, but for *)
(* a frame that is given up (client.py:462-470).                           *)
THEOREM LinkStaysAlive == Spec => []LinkKeptAlive
  <1>1. Inv => LinkKeptAlive
    <2> SUFFICES ASSUME Inv, connected, conf.keep # 0
                 PROVE  \/ quiet <= conf.keep + Poll
                        \/ pc = "frame" /\ (conf.timeout = 0 \/ quiet <= conf.timeout)
      BY DEF LinkKeptAlive
    <2>1. /\ conf.keep \in Nat /\ conf.timeout \in Nat /\ quiet \in Nat /\ blocked \in Nat
      BY ConfOK DEF Inv, TypeOK
    <2>2. CASE pc \in {"check", "yield"}
      BY <2>1, <2>2, ClockAssumption DEF Inv, QuietInv
    <2>3. CASE pc = "poll"
      BY <2>1, <2>3, ClockAssumption DEF Inv, QuietInv, WaitInv
    <2>4. CASE Reading
      BY <2>1, <2>4 DEF Inv, QuietInv, WaitInv, Reading
    <2>5. CASE pc = "frame" /\ ~Reading
      BY <2>1, <2>5, ClockAssumption DEF Inv, QuietInv, Reading, readable
    <2> QED BY <2>2, <2>3, <2>4, <2>5 DEF connected, Reading
  <1> QED BY <1>1, InvAlways, PTL

(* The idle timeout strikes no connection on which a packet came within    *)
(* idle_timeout (client.py:446-447, 455, 500), if the consumer keeps none  *)
(* for longer.                                                             *)
THEOREM OnlySilence == Spec => OnlySilenceIsIdle
  <1>1. ASSUME Inv, Next, pc = "check", pc' \in {"sleep", "done"}, conf.hold <= conf.idle
        PROVE  silence > conf.idle \/ silence = 0
    <2>1. Check /\ lastData > conf.idle
      BY <1>1 DEF Next, Dial, DialFails, Check, PollFinds, Nothing, Keepalive, KeepaliveFails,
         pollEnds, Packet, Info, Error, End, ReadTimesOut, Resume, Arrive, ArrivePiece,
         ArriveRest, Tick, Ended, Go
    <2>2. /\ conf.hold \in Nat /\ conf.idle \in Nat
          /\ lastData \in Nat /\ silence \in Nat
      BY <1>1, ConfOK DEF Inv, TypeOK
    <2> QED BY <1>1, <2>1, <2>2 DEF Inv, SilenceInv, connected
  <1>2. Inv /\ [Next]_vars =>
          [pc = "check" /\ pc' \in {"sleep", "done"} /\ conf.hold <= conf.idle
             => silence > conf.idle \/ silence = 0]_vars
    BY <1>1
  <1> QED BY <1>2, InvAlways, PTL DEF Spec, OnlySilenceIsIdle
=============================================================================
