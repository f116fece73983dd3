---------------------------- MODULE CliRunProofs -----------------------------
(***************************************************************************)
(* What a program that is killed or interrupted, or whose files cannot be  *)
(* written, leaves behind it at any step: the position in the state file   *)
(* and the packets in the dump, for any number of runs and packets.        *)
(***************************************************************************)
EXTENDS CliRun, TLAPS, SequenceTheorems

-----------------------------------------------------------------------------
(* One stream, one line, one position.                                     *)

Place == IF streams = <<>> \/ streams[1].seqnum = None THEN 0 ELSE streams[1].seqnum

Recorded == PositionIn(file)

Written == dump \o dumpbuf

Unread == {"off", "connect", "streams", "window", "recover"}

Reading == {"collect", "body", "periodic", "close"}

(* The stream list while main() runs.                                      *)
OneStream ==
    /\ Len(streams) <= 1
    /\ \A i \in Positions : streams[i].id = Id /\ streams[i].seqnum # 0
    /\ pc \in {"off", "connect", "streams"} => streams = <<>>
    /\ pc \in {"window", "recover", "start"} \cup Reading => streams # <<>>
    /\ match_cache \in [Stations -> {None, {1}}]
    /\ streams = <<>> => match_cache = Uncached
    /\ pc \in Unread => recovered = Nothing /\ Place = 0

(* The files: at most one line each, the one under way true to the stream. *)
OneLine ==
    /\ file # None => Len(file) = 1 /\ file[1].id = Id /\ file[1].at.seqnum # 0
    /\ temp # None =>
           /\ Saving /\ Len(temp) <= 1
           /\ \A k \in DOMAIN temp :
                 temp[k].id = Id /\ temp[k].at.seqnum = streams[1].seqnum

(* Packets are counted from one; nothing is buffered but in the loop.       *)
InStep ==
    /\ pc \in {"collect", "body", "periodic"} => wanted >= 1
    /\ pc \notin Reading => dumpbuf = <<>>

One == CliTypeOK /\ OneStream /\ OneLine /\ InStep

(* Where the run is in the numbering of the server.                        *)
Places ==
    /\ Recorded \in 0..newest /\ Place \in 0..newest
    /\ pc \in {"collect", "periodic"} =>
           (Place # 0 => wanted = Place + 1)
    /\ pc = "body" => packet = Place /\ wanted = packet + 1 /\ packet # 0

(* A run that has recovered is never behind the file.                      *)
Progress ==
    Without({"badwindow", "unreadable", "interrupt_setup"}) =>
        (streams # <<>> /\ pc \notin Unread => Place >= Recorded)

In(n, q) == \E k \in DOMAIN q : q[k] = n

(* What is recorded, and what is about to be, has been received.           *)
Known ==
    /\ Recorded # 0 => In(Recorded, received)
    /\ Place # 0 => In(Place, received)

(* What has been received is written, but for the packet in the loop body. *)
Whole ==
    Without({"kill", "dumpfails", "printfails", "interrupt"}) =>
        received = IF pc = "body" THEN Append(Written, packet) ELSE Written

(* No run has lost more than the packet in hand, none before it lost it.   *)
Intact == {"connect", "streams", "window", "recover", "start", "collect", "periodic"}

Tally ==
    Without({"kill", "dumpfails"}) =>
        Len(received) <= Len(Written) + runs - (IF pc \in Intact THEN 1 ELSE 0)

Rising(q) == \A k \in 1..Len(q)-1 : q[k] < q[k+1]

NoneBeyond(q, n) == \A k \in DOMAIN q : q[k] <= n

(* All written packets precede the next one, in this run or another.       *)
Ordered ==
    Without({"kill", "savefails", "interrupt_exit"}) =>
        /\ Rising(Written) /\ NoneBeyond(Written, newest)
        /\ pc \in Unread \/ streams = <<>> =>
               (Recorded # 0 => NoneBeyond(Written, Recorded))
        /\ Place # 0 => NoneBeyond(Written, Place)
        /\ pc \in {"collect", "periodic"} => NoneBeyond(Written, wanted - 1)
        /\ pc = "body" => NoneBeyond(Written, packet - 1)

Unbroken(q) == \A k \in 1..Len(q)-1 : q[k+1] <= q[k] + 1

EndsAt(q, n) == IF q = <<>> THEN n = 0 ELSE n # 0 /\ q[Len(q)] = n

(* Without trouble, the last packet written is the one recorded.           *)
Complete ==
    happened = {} =>
        /\ Unbroken(Written)
        /\ pc \in Unread \/ streams = <<>> => EndsAt(Written, Recorded)
        /\ pc \notin Unread \cup {"body"} /\ streams # <<>> => EndsAt(Written, Place)
        /\ pc = "body" => Written = <<>> \/ EndsAt(Written, packet - 1)

-----------------------------------------------------------------------------
(* Types.                                                                  *)

USE StreamStateAssumption, CliAssumption

LEMMA Here == St \in Stations /\ Id \in Ids /\ Matches[Id] = {St}
  OBVIOUS

LEMMA NotEmpty ==
    ASSUME NEW q, Len(q) = 1
    PROVE  q # <<>>
  <1>1. SUFFICES ASSUME q = <<>> PROVE FALSE
    OBVIOUS
  <1>2. PICK n : n = Len(q)
    OBVIOUS
  <1>3. n = 0
    BY Zenon, <1>1, <1>2, EmptySeq
  <1>4. n = 1
    BY <1>2
  <1>5. QED
    BY <1>3, <1>4

LEMMA OneLong ==
    ASSUME NEW S, NEW q \in Seq(S), Len(q) <= 1, q # <<>>
    PROVE  Len(q) = 1 /\ q[1] \in S /\ 1 \in DOMAIN q /\ q = <<q[1]>>
  <1>1. Len(q) = 1
    <2>1. PICK n \in Nat : n = Len(q)
      OBVIOUS
    <2>2. n # 0
      BY <2>1, EmptySeq
    <2>3. QED
      BY <2>1, <2>2
  <1>2. q[1] \in S /\ 1 \in DOMAIN q
    BY <1>1
  <1>3. QED
    BY <1>1, <1>2

LEMMA Listed ==
    ASSUME CliTypeOK, OneStream, streams # <<>>
    PROVE  \E s \in Stream : streams = <<s>> /\ s.id = Id /\ s.seqnum # 0
  <1>1. streams \in Seq(Stream) /\ Len(streams) <= 1
    BY DEF CliTypeOK, TypeOK, OneStream
  <1>2. Len(streams) = 1 /\ streams[1] \in Stream /\ 1 \in Positions
    BY <1>1, OneLong DEF Positions
  <1>3. streams = <<streams[1]>>
    BY <1>1, <1>2
  <1>4. streams[1].id = Id /\ streams[1].seqnum # 0
    BY <1>2 DEF OneStream
  <1>5. QED
    BY <1>2, <1>3, <1>4

LEMMA Filed ==
    ASSUME CliTypeOK, OneLine, file # None
    PROVE  \E l \in FileLine : file = <<l>> /\ l.id = Id /\ l.at.seqnum # 0
  <1>1. file \in Seq(FileLine) /\ Len(file) = 1 /\ file[1].id = Id /\ file[1].at.seqnum # 0
    BY DEF CliTypeOK, TypeOK, OneLine
  <1>4. file # <<>>
    BY <1>1, NotEmpty
  <1>2. file[1] \in FileLine /\ file = <<file[1]>>
    BY <1>1, <1>4, OneLong
  <1>3. QED
    BY <1>1, <1>2

(* A new stream, and what a line or a packet makes of one.                 *)
LEMMA NewOne ==
    /\ NewStream(Id) \in Stream /\ NewStream(Id).id = Id /\ NewStream(Id).seqnum = None
    /\ Applied(NewStream(Id), Nothing) = NewStream(Id)
  BY DEF NewStream, Stream, Applied, Nothing

LEMMA AppliedOne ==
    ASSUME NEW s \in Stream, s.id = Id, NEW at \in Saved
    PROVE  LET t == Applied(s, [id \in {Id} |-> at])
           IN  t \in Stream /\ t.id = Id /\ t.seqnum = at.seqnum
  BY DEF Stream, Saved, Applied

LEMMA ResolvedOne ==
    ASSUME NEW s \in Stream
    PROVE  Resolved(s) \in Stream /\ Resolved(s).id = s.id /\ Resolved(s).seqnum = s.seqnum
  <1>1. CASE s.pending = None
    BY <1>1 DEF Resolved
  <1>2. CASE s.pending # None /\ s.pending \in Unparsable
    BY <1>2 DEF Resolved, Stream
  <1>3. CASE s.pending # None /\ s.pending \notin Unparsable
    BY <1>3 DEF Resolved, Stream
  <1>4. QED
    BY <1>1, <1>2, <1>3

LEMMA LineOne ==
    ASSUME NEW s \in Stream
    PROVE  /\ LineFor(s) \in FileLine /\ LineFor(s).id = s.id
           /\ LineFor(s).at.seqnum = s.seqnum
  <1>1. PICK t \in Nat \cup {None} : t = Resolved(s).timestamp
    BY ResolvedOne DEF Stream
  <1>2. LineFor(s) = [id |-> s.id, at |-> [seqnum |-> s.seqnum, timestamp |-> t]]
    BY <1>1 DEF LineFor
  <1>3. s.id \in Ids /\ s.seqnum \in Nat \cup {None}
    BY DEF Stream
  <1>4. QED
    BY <1>1, <1>2, <1>3 DEF FileLine, Saved

LEMMA UpdatedOne ==
    ASSUME NEW s \in Stream, s.id = Id, streams = <<s>>,
           match_cache \in [Stations -> {None, {1}}], NEW n \in Nat
    PROVE  /\ Matching(St) = {1}
           /\ Updated(St, n) = <<[s EXCEPT !.seqnum = n, !.pending = n]>>
           /\ [s EXCEPT !.seqnum = n, !.pending = n] \in Stream
  <1>1. Positions = {1} /\ streams[1] = s
    BY DEF Positions
  <1>2. {i \in Positions : St \in Matches[streams[i].id]} = {1}
    BY <1>1, Here
  <1>3. Matching(St) = {1}
    BY <1>2, Here DEF Matching
  <1>4. Updated(St, n) = [i \in {1} |-> [s EXCEPT !.seqnum = n, !.pending = n]]
    BY <1>1, <1>3 DEF Updated
  <1>5. PICK t : t = [s EXCEPT !.seqnum = n, !.pending = n]
    OBVIOUS
  <1>6. t \in Stream
    BY <1>5 DEF Stream
  <1>7. [i \in {1} |-> t] = <<t>>
    OBVIOUS
  <1>8. QED
    BY <1>3, <1>4, <1>5, <1>6, <1>7

LEMMA MergedOne ==
    ASSUME NEW l \in FileLine, l.id = Id, file = <<l>>, recovered = Nothing
    PROVE  Merged(Loaded(file)) = [id \in {Id} |-> l.at]
  <1>1. DOMAIN file = {1} /\ file[1] = l
    OBVIOUS
  <1>2. {file[k].id : k \in DOMAIN file} = {Id}
    BY <1>1
  <1>3. LineOf(file, Id) = 1
    <2>1. {k \in DOMAIN file : file[k].id = Id} = {1}
      BY <1>1
    <2>2. \A k \in {1} : (\A j \in {1} : j <= k) /\ k = 1
      OBVIOUS
    <2>3. QED
      BY <2>1, <2>2 DEF LineOf
  <1>4. Loaded(file) = [id \in {Id} |-> l.at]
    BY <1>1, <1>2, <1>3 DEF Loaded
  <1>5. DOMAIN recovered = {}
    BY DEF Nothing
  <1>6. QED
    BY <1>4, <1>5 DEF Merged

-----------------------------------------------------------------------------
(* What a step leaves of the types and the shape of the state.             *)

Steps == {"off", "connect", "streams", "window", "recover", "start", "collect",
          "body", "periodic", "close", "final"}

LoopOK ==
    /\ pc \in Steps /\ wanted \in Nat /\ packet \in Nat
    /\ dump \in Seq(Nat) /\ dumpbuf \in Seq(Nat)
    /\ runs \in 0..MaxRuns /\ happened \subseteq Trouble /\ received \in Seq(Nat)

LEMMA CliTypes == CliTypeOK <=> TypeOK /\ LoopOK
  BY DEF CliTypeOK, LoopOK, Steps

LEMMA Unsaved ==
    ASSUME OneLine, pc \notin {"periodic", "final"}
    PROVE  temp = None
  BY DEF OneLine, Saving

LEMMA Unmoved ==
    ASSUME One, ClientKept, LoopOK', InStep',
           pc' \in {"off", "connect", "streams"} => streams = <<>>,
           pc' \in {"window", "recover", "start"} \cup Reading => streams # <<>>,
           pc' \in Unread => pc \in Unread,
           temp = None \/ pc' = pc
    PROVE  One'
  <1>1. UNCHANGED <<streams, match_cache, recovered, multistation, all_stations,
                    negotiated, seen, newest, temp, file>>
    BY DEF ClientKept, memVars
  <1>2. TypeOK'
    <2>1. TypeOK
      BY DEF One, CliTypeOK
    <2>2. QED
      BY <1>1, <2>1 DEF TypeOK, Positions
  <1>3. Place' = Place
    BY <1>1 DEF Place
  <1>4. OneStream'
    BY <1>1, <1>3 DEF One, OneStream, Positions, Uncached, Nothing
  <1>5. OneLine'
    BY <1>1 DEF One, OneLine, Saving
  <1>6. CliTypeOK'
    BY <1>2 DEF CliTypeOK, LoopOK, Steps
  <1>7. QED
    BY <1>4, <1>5, <1>6 DEF One

LEMMA PlaceOf ==
    ASSUME NEW s \in Stream
    PROVE  /\ streams = <<s>> => Place = IF s.seqnum = None THEN 0 ELSE s.seqnum
           /\ streams' = <<s>> => Place' = IF s.seqnum = None THEN 0 ELSE s.seqnum
           /\ streams' = <<s>> => streams' # <<>>
  <1>1. <<s>> # <<>> /\ <<s>>[1] = s
    OBVIOUS
  <1>2. QED
    BY SMTT(30), <1>1 DEF Place

LEMMA SavingOne ==
    ASSUME One, Saving
    PROVE  \E s \in Stream : streams = <<s>> /\ s.id = Id /\ s.seqnum # 0
  <1>1. streams # <<>>
    BY DEF Saving, One, OneStream, Reading
  <1>2. QED
    BY <1>1, Listed DEF One

(* A state file that is complete holds the place of the stream.            *)
LEMMA PlaceSaved ==
    ASSUME One, temp # None, Len(temp) = Len(streams), file' = temp
    PROVE  /\ Recorded' = Place /\ file' \in Seq(FileLine)
           /\ Len(file') = 1 /\ file'[1].id = Id /\ file'[1].at.seqnum # 0
  <1>1. Saving
    BY DEF One, OneLine
  <1>2. PICK s \in Stream : streams = <<s>> /\ s.id = Id /\ s.seqnum # 0
    BY <1>1, SavingOne
  <1>3. Len(temp) = 1 /\ temp \in Seq(FileLine)
    BY <1>2 DEF One, CliTypeOK, TypeOK
  <1>4. 1 \in DOMAIN temp /\ temp # <<>>
    <2>1. temp # <<>>
      BY <1>3, NotEmpty
    <2>2. 1 \in DOMAIN temp
      BY <1>3
    <2>3. QED
      BY <2>1, <2>2
  <1>5. temp[1].id = Id /\ temp[1].at.seqnum = s.seqnum
    BY <1>2, <1>4 DEF One, OneLine
  <1>6. Recorded' = IF temp = None \/ temp = <<>> \/ temp[1].at.seqnum = None THEN 0
                    ELSE temp[1].at.seqnum
    BY DEF Recorded, PositionIn
  <1>7. Recorded' = IF s.seqnum = None THEN 0 ELSE s.seqnum
    BY <1>4, <1>5, <1>6
  <1>8. QED
    BY <1>2, <1>3, <1>5, <1>7, PlaceOf

LEMMA NothingOK ==
    /\ Uncached \in [Stations -> {None, {1}}]
    /\ DOMAIN Nothing \subseteq Ids /\ \A id \in DOMAIN Nothing : Nothing[id] \in Saved
  BY DEF Uncached, Nothing

LEMMA Emptied ==
    ASSUME One, Gone, UNCHANGED <<newest, dump, runs>>, happened' \subseteq Trouble, received' \in Seq(Nat),
           file' = file \/ (file' = temp /\ temp # None /\ Len(temp) = Len(streams))
    PROVE  One'
  <1>1. /\ streams' = <<>> /\ match_cache' = Uncached /\ recovered' = Nothing
        /\ multistation' = FALSE /\ all_stations' = FALSE
        /\ negotiated' = FALSE /\ seen' = {}
        /\ temp' = None /\ packet' = 0 /\ wanted' = 0 /\ dumpbuf' = <<>>
        /\ pc' = "off"
    BY DEF Gone, To
  <1>2. /\ file' = None \/ file' \in Seq(FileLine)
        /\ file' # None => Len(file') = 1 /\ file'[1].id = Id /\ file'[1].at.seqnum # 0
    <2>1. CASE file' = file
      BY <2>1 DEF One, CliTypeOK, TypeOK, OneLine
    <2>2. CASE file' = temp /\ temp # None /\ Len(temp) = Len(streams)
      <3>1. QED
        BY <2>2, PlaceSaved
    <2>3. QED
      BY <2>1, <2>2
  <1>3. LoopOK'
    <2>1. LoopOK
      BY CliTypes DEF One
    <2>2. QED
      BY <1>1, <2>1 DEF LoopOK, Steps
  <1>4. TypeOK'
    <2>1. newest' \in Nat
      BY DEF One, CliTypeOK, TypeOK
    <2>2. streams' \in Seq(Stream) /\ match_cache' \in [Stations -> (SUBSET Positions') \cup {None}]
      BY <1>1 DEF Uncached
    <2>3. QED
      BY <1>1, <1>2, <2>1, <2>2, NothingOK DEF TypeOK
  <1>5. OneStream'
    <2>1. Place' = 0
      BY <1>1 DEF Place
    <2>2. Len(streams') = 0 /\ Positions' = {}
      BY <1>1 DEF Positions
    <2>3. QED
      BY <1>1, <2>1, <2>2, NothingOK DEF OneStream, Reading, Uncached, Nothing
  <1>6. OneLine'
    BY <1>1, <1>2 DEF OneLine
  <1>7. CliTypeOK'
    BY <1>3, <1>4 DEF CliTypeOK, LoopOK, Steps
  <1>8. InStep'
    BY <1>1 DEF InStep
  <1>9. QED
    BY <1>5, <1>6, <1>7, <1>8 DEF One

(* The steps that change the stream list, or write to a file.              *)
LEMMA Listing ==
    ASSUME One, LoopOK', InStep', NEW s \in Stream, s.id = Id, s.seqnum # 0, streams' = <<s>>,
           match_cache' \in [Stations -> {None, {1}}],
           multistation' \in BOOLEAN, negotiated' \in BOOLEAN, seen' \subseteq Stations,
           DOMAIN recovered' \subseteq Ids /\ \A id \in DOMAIN recovered' : recovered'[id] \in Saved,
           UNCHANGED <<all_stations, newest, temp, file>>, temp = None,
           pc' \notin {"off", "connect", "streams"},
           pc' \in Unread => recovered' = Nothing /\ s.seqnum = None
    PROVE  One'
  <1>1. Positions' = {1} /\ Len(streams') = 1 /\ streams'[1] = s /\ streams' \in Seq(Stream)
    BY DEF Positions
  <1>2. TypeOK'
    <2>1. TypeOK
      BY DEF One, CliTypeOK
    <2>2. match_cache' \in [Stations -> (SUBSET Positions') \cup {None}]
      <3>1. {None, {1}} \subseteq (SUBSET {1}) \cup {None}
        OBVIOUS
      <3>2. QED
        BY <1>1, <3>1
    <2>3. newest' \in Nat /\ all_stations' \in BOOLEAN
      BY <2>1 DEF TypeOK
    <2>4. (temp' = None \/ temp' \in Seq(FileLine)) /\ (file' = None \/ file' \in Seq(FileLine))
      BY <2>1 DEF TypeOK
    <2>5. QED
      BY <1>1, <2>2, <2>3, <2>4 DEF TypeOK
  <1>3. CliTypeOK'
    BY <1>2 DEF CliTypeOK, LoopOK, Steps
  <1>4. OneStream'
    <2>1. streams' # <<>>
      OBVIOUS
    <2>2. pc' \in Unread => Place' = 0
      BY <1>1 DEF Place
    <2>3. QED
      BY <1>1, <2>1, <2>2 DEF OneStream
  <1>5. OneLine'
    BY DEF One, OneLine
  <1>6. QED
    BY <1>3, <1>4, <1>5 DEF One

LEMMA AddedOne ==
    ASSUME One, ConfigureStreams, happened' \subseteq Trouble, received' \in Seq(Nat)
    PROVE  One' /\ Place' = 0 /\ streams' # <<>>
  <1>1. /\ pc = "streams" /\ pc' = "window" /\ temp = None
        /\ streams' = Append(streams, Applied(NewStream(Id), recovered))
        /\ multistation' = TRUE /\ match_cache' = Uncached
        /\ UNCHANGED <<recovered, all_stations, negotiated, seen, newest, temp, file>>
        /\ UNCHANGED <<wanted, packet, dump, dumpbuf, runs>>
    BY DEF ConfigureStreams, AddStream, Idle, To
  <1>2. streams = <<>> /\ recovered = Nothing
    BY <1>1 DEF One, OneStream, Unread
  <1>3. PICK s \in Stream : s = NewStream(Id)
    BY NewOne
  <1>4. s.id = Id /\ s.seqnum = None /\ streams' = <<s>>
    BY <1>1, <1>2, <1>3, NewOne
  <1>5. LoopOK' /\ InStep'
    BY <1>1 DEF One, CliTypeOK, LoopOK, Steps, InStep, Reading
  <1>6. /\ multistation' \in BOOLEAN /\ negotiated' \in BOOLEAN /\ seen' \subseteq Stations
        /\ DOMAIN recovered' \subseteq Ids
        /\ \A id \in DOMAIN recovered' : recovered'[id] \in Saved
    BY <1>1 DEF One, CliTypeOK, TypeOK
  <1>7. One'
    BY <1>1, <1>2, <1>4, <1>5, <1>6, NothingOK, Listing
  <1>8. streams'[1] = s /\ streams' # <<>>
    BY <1>4
  <1>9. QED
    BY <1>4, <1>7, <1>8 DEF Place

(* The recovered stream has the position of the file.                      *)
LEMMA RecoveredOne ==
    ASSUME One, pc = "recover", RecoverState
    PROVE  \E s \in Stream :
              /\ s.id = Id /\ s.seqnum # 0 /\ streams' = <<s>>
              /\ s.seqnum = file[1].at.seqnum /\ file # None /\ file # <<>>
              /\ DOMAIN recovered' \subseteq Ids
              /\ \A id \in DOMAIN recovered' : recovered'[id] \in Saved
  <1>1. streams # <<>> /\ recovered = Nothing
    BY DEF One, OneStream, Unread
  <1>2. PICK s \in Stream : streams = <<s>> /\ s.id = Id
    BY <1>1, Listed DEF One
  <1>3. file # None
    BY DEF RecoverState
  <1>4. PICK l \in FileLine : file = <<l>> /\ l.id = Id /\ l.at.seqnum # 0
    BY <1>3, Filed DEF One
  <1>5. PICK rec : rec = [id \in {Id} |-> l.at]
    OBVIOUS
  <1>6. Merged(Loaded(file)) = rec
    BY <1>1, <1>4, <1>5, MergedOne
  <1>7. recovered' = rec /\ streams' = [i \in Positions |-> Applied(streams[i], rec)]
    BY <1>6 DEF RecoverState
  <1>8. l.at \in Saved
    BY DEF FileLine
  <1>9. PICK t \in Stream : t = Applied(s, rec) /\ t.id = Id /\ t.seqnum = l.at.seqnum
    <2>1. PICK at \in Saved : at = l.at
      BY <1>8
    <2>2. rec = [id \in {Id} |-> at]
      BY <1>5, <2>1
    <2>3. PICK t : t = Applied(s, [id \in {Id} |-> at])
      OBVIOUS
    <2>4. t \in Stream /\ t.id = Id /\ t.seqnum = at.seqnum
      BY <1>2, <2>3, AppliedOne
    <2>5. QED
      BY <2>1, <2>2, <2>3, <2>4
  <1>10. streams' = <<t>>
    <2>1. Positions = {1} /\ streams[1] = s
      BY <1>2 DEF Positions
    <2>2. streams' = [i \in {1} |-> t]
      BY <1>7, <1>9, <2>1
    <2>3. QED
      BY <2>2
  <1>11. DOMAIN recovered' = {Id} /\ recovered'[Id] \in Saved
    BY <1>5, <1>7, <1>8
  <1>12. file # <<>> /\ file[1] = l
    BY <1>4
  <1>13. QED
    BY <1>3, <1>4, <1>9, <1>10, <1>11, <1>12, Here

LEMMA ConfiguredOne ==
    ASSUME One, ConfigureRecover, happened' \subseteq Trouble, received' \in Seq(Nat)
    PROVE  One' /\ Place' = Recorded /\ streams' # <<>>
  <1>1. pc = "recover" /\ pc' = "start" /\ UNCHANGED <<wanted, packet, dump, dumpbuf, runs>>
    BY DEF ConfigureRecover, To
  <1>2. LoopOK' /\ InStep'
    BY <1>1 DEF One, CliTypeOK, LoopOK, Steps, InStep, Reading
  <1>3. temp = None /\ streams # <<>> /\ Place = 0
    BY <1>1, Unsaved DEF One, OneStream, Unread
  <1>4. CASE RecoverState
    <2>1. PICK s \in Stream :
              /\ s.id = Id /\ s.seqnum # 0 /\ streams' = <<s>>
              /\ s.seqnum = file[1].at.seqnum /\ file # None /\ file # <<>>
              /\ DOMAIN recovered' \subseteq Ids
              /\ \A id \in DOMAIN recovered' : recovered'[id] \in Saved
      BY <1>1, <1>4, RecoveredOne
    <2>2. UNCHANGED <<match_cache, multistation, all_stations, negotiated, seen,
                      newest, temp, file>>
      BY <1>4 DEF RecoverState
    <2>3. /\ match_cache' \in [Stations -> {None, {1}}]
          /\ multistation' \in BOOLEAN /\ negotiated' \in BOOLEAN /\ seen' \subseteq Stations
      BY <2>2 DEF One, CliTypeOK, TypeOK, OneStream
    <2>4. One'
      BY <1>1, <1>2, <1>3, <2>1, <2>2, <2>3, Listing DEF Unread
    <2>5. Place' = Recorded
      BY <2>1, PlaceOf DEF Recorded, PositionIn
    <2>6. QED
      BY <2>1, <2>4, <2>5, PlaceOf
  <1>5. CASE file = None /\ ClientKept
    <2>1. One'
      BY <1>1, <1>2, <1>3, <1>5, Unmoved DEF Unread
    <2>2. streams' = streams
      BY <1>5 DEF ClientKept, memVars
    <2>3. Place' = 0 /\ Recorded = 0
      BY <1>3, <1>5, <2>2 DEF Place, Recorded, PositionIn
    <2>4. QED
      BY <1>3, <2>1, <2>2, <2>3
  <1>6. QED
    BY <1>4, <1>5 DEF ConfigureRecover

LEMMA StartedOne ==
    ASSUME One, Start, happened' \subseteq Trouble, received' \in Seq(Nat)
    PROVE  /\ One' /\ Place' = Place /\ streams' # <<>>
           /\ wanted' = IF Place = 0 THEN newest + 1 ELSE Place + 1
  <1>1. /\ pc = "start" /\ pc' = "collect" /\ match_cache' = Uncached
        /\ streams' = DefaultStream /\ negotiated' = TRUE
        /\ UNCHANGED <<recovered, multistation, all_stations, seen, newest, temp, file>>
        /\ UNCHANGED <<packet, dump, dumpbuf, runs>>
        /\ wanted' = From(streams[1])
    BY DEF Start, Negotiate, To
  <1>2. streams # <<>> /\ temp = None
    BY <1>1, Unsaved DEF One, OneStream
  <1>3. PICK s \in Stream : streams = <<s>> /\ s.id = Id /\ s.seqnum # 0
    BY <1>2, Listed DEF One
  <1>4. streams' = <<s>> /\ streams[1] = s
    BY <1>1, <1>2, <1>3 DEF DefaultStream
  <1>5. newest \in Nat /\ s.seqnum \in Nat \cup {None}
    BY DEF One, CliTypeOK, TypeOK, Stream
  <1>6. wanted' = IF s.seqnum = None THEN newest + 1 ELSE s.seqnum + 1
    BY <1>1, <1>4 DEF From
  <1>7. wanted' \in Nat /\ wanted' >= 1
    BY <1>5, <1>6
  <1>8. LoopOK' /\ InStep'
    BY <1>1, <1>7 DEF One, CliTypeOK, LoopOK, Steps, InStep, Reading
  <1>9. /\ multistation' \in BOOLEAN /\ negotiated' \in BOOLEAN /\ seen' \subseteq Stations
        /\ DOMAIN recovered' \subseteq Ids
        /\ \A id \in DOMAIN recovered' : recovered'[id] \in Saved
    BY <1>1 DEF One, CliTypeOK, TypeOK
  <1>10. One'
    BY <1>1, <1>2, <1>3, <1>4, <1>8, <1>9, NothingOK, Listing DEF Unread
  <1>11. QED
    BY <1>3, <1>4, <1>6, <1>10, PlaceOf

LEMMA YieldedOne ==
    ASSUME One, Yield, happened' \subseteq Trouble, received' \in Seq(Nat)
    PROVE  One' /\ Place' = wanted /\ streams' # <<>>
  <1>1. /\ pc = "collect" /\ pc' = "body" /\ wanted <= newest
        /\ streams' = Updated(St, wanted)
        /\ match_cache' = [match_cache EXCEPT ![St] = Matching(St)]
        /\ seen' = seen \cup {St} /\ packet' = wanted /\ wanted' = wanted + 1
        /\ UNCHANGED <<recovered, multistation, all_stations, negotiated, newest, temp,
                       file, dump, dumpbuf, runs>>
    BY DEF Yield, To
  <1>2. streams # <<>> /\ temp = None /\ wanted \in Nat /\ wanted >= 1
    BY <1>1, Unsaved DEF One, OneStream, Reading, CliTypeOK, InStep
  <1>3. PICK s \in Stream : streams = <<s>> /\ s.id = Id
    BY <1>2, Listed DEF One
  <1>4. match_cache \in [Stations -> {None, {1}}]
    BY DEF One, OneStream
  <1>5. /\ Matching(St) = {1}
        /\ Updated(St, wanted) = <<[s EXCEPT !.seqnum = wanted, !.pending = wanted]>>
        /\ [s EXCEPT !.seqnum = wanted, !.pending = wanted] \in Stream
    BY <1>2, <1>3, <1>4, UpdatedOne
  <1>6. PICK t \in Stream : t = [s EXCEPT !.seqnum = wanted, !.pending = wanted]
    BY <1>5
  <1>7. t.id = Id /\ t.seqnum = wanted /\ t.seqnum # 0 /\ streams' = <<t>>
    BY <1>1, <1>2, <1>3, <1>5, <1>6 DEF Stream
  <1>8. match_cache' \in [Stations -> {None, {1}}]
    BY <1>1, <1>4, <1>5, Here
  <1>9. LoopOK' /\ InStep'
    BY <1>1, <1>2 DEF One, CliTypeOK, LoopOK, Steps, InStep, Reading
  <1>10. /\ multistation' \in BOOLEAN /\ negotiated' \in BOOLEAN /\ seen' \subseteq Stations
         /\ DOMAIN recovered' \subseteq Ids
         /\ \A id \in DOMAIN recovered' : recovered'[id] \in Saved
    BY <1>1, Here DEF One, CliTypeOK, TypeOK
  <1>11. One'
    BY <1>1, <1>2, <1>7, <1>8, <1>9, <1>10, Listing DEF Unread
  <1>12. wanted # None
    BY <1>2
  <1>13. QED
    BY <1>7, <1>11, <1>12, PlaceOf

(* Beginning a state file, and writing its line.                           *)
LEMMA SavedOne ==
    ASSUME One, SaveSteps, happened' \subseteq Trouble, received' \in Seq(Nat)
    PROVE  One' /\ Place' = Place /\ (streams' = <<>> <=> streams = <<>>)
  <1>1. Saving /\ UNCHANGED cliVars
    BY DEF SaveSteps
  <1>2. UNCHANGED <<pc, wanted, packet, dump, dumpbuf, runs>>
    BY <1>1 DEF cliVars
  <1>3. LoopOK' /\ InStep'
    BY <1>2 DEF One, CliTypeOK, LoopOK, Steps, InStep
  <1>4. PICK s \in Stream : streams = <<s>> /\ s.id = Id /\ s.seqnum # 0
    BY <1>1, SavingOne
  <1>5. CASE SaveBegin
    <2>1. temp' = <<>> /\ UNCHANGED <<memVars, newest, file>>
      BY <1>5 DEF SaveBegin
    <2>2. UNCHANGED <<streams, match_cache, recovered, multistation, all_stations,
                      negotiated, seen, newest, file>>
      BY <2>1 DEF memVars
    <2>3. TypeOK'
      BY <2>1, <2>2 DEF One, CliTypeOK, TypeOK, Positions
    <2>4. Place' = Place
      BY <2>2 DEF Place
    <2>5. OneStream'
      BY <1>2, <2>2, <2>4 DEF One, OneStream, Positions, Uncached, Nothing
    <2>6. Saving'
      BY <1>1, <1>2, <2>2 DEF Saving
    <2>7. OneLine'
      <3>1. Len(temp') <= 1 /\ DOMAIN temp' = {}
        BY <2>1
      <3>2. file' # None => Len(file') = 1 /\ file'[1].id = Id /\ file'[1].at.seqnum # 0
        BY <2>2 DEF One, OneLine
      <3>3. QED
        BY <2>6, <3>1, <3>2 DEF OneLine
    <2>8. QED
      BY <1>3, <2>2, <2>3, <2>4, <2>5, <2>7 DEF One, CliTypeOK, LoopOK, Steps
  <1>6. CASE SaveLine
    <2>1. /\ temp # None /\ Len(temp) < Len(streams)
          /\ temp' = Append(temp, LineFor(streams[Len(temp) + 1]))
          /\ streams' = [streams EXCEPT ![Len(temp) + 1] = Resolved(@)]
          /\ UNCHANGED <<match_cache, recovered, multistation, all_stations, negotiated,
                         seen, newest, file>>
      BY <1>6 DEF SaveLine, Idle
    <2>2. temp \in Seq(FileLine) /\ Len(streams) = 1
      BY <1>4, <2>1 DEF One, CliTypeOK, TypeOK
    <2>3. Len(temp) = 0
      <3>1. PICK n \in Nat : n = Len(temp)
        BY <2>2
      <3>2. n < 1
        BY <2>1, <2>2, <3>1
      <3>3. QED
        BY <3>1, <3>2
    <2>4. temp = <<>>
      BY <2>2, <2>3, EmptySeq
    <2>5. PICK l \in FileLine : l = LineFor(s) /\ l.id = Id /\ l.at.seqnum = s.seqnum
      BY <1>4, LineOne
    <2>6. PICK t \in Stream : t = Resolved(s) /\ t.id = Id /\ t.seqnum = s.seqnum
      BY <1>4, ResolvedOne
    <2>7. temp' = <<l>> /\ streams' = <<t>>
      <3>1. streams[1] = s /\ Len(temp) + 1 = 1
        BY <1>4, <2>3
      <3>2. temp' = Append(<<>>, l)
        BY <2>1, <2>4, <2>5, <3>1
      <3>3. streams' = [<<s>> EXCEPT ![1] = t]
        BY <1>4, <2>1, <2>6, <3>1
      <3>4. QED
        BY <3>2, <3>3
    <2>8. /\ Positions' = {1} /\ Len(streams') = 1 /\ streams'[1] = t
          /\ streams' \in Seq(Stream) /\ streams' # <<>>
      BY <2>7 DEF Positions
    <2>9. Place' = Place
      BY <1>4, <2>6, <2>7, PlaceOf
    <2>10. TypeOK'
      <3>1. Positions = {1}
        BY <1>4 DEF Positions
      <3>2. match_cache' \in [Stations -> (SUBSET Positions') \cup {None}]
        BY <2>1, <2>8, <3>1 DEF One, CliTypeOK, TypeOK
      <3>3. temp' \in Seq(FileLine)
        BY <2>7
      <3>4. QED
        BY <2>1, <2>8, <3>2, <3>3 DEF One, CliTypeOK, TypeOK
    <2>11. OneStream'
      <3>5. t.seqnum # 0
        BY <1>4, <2>6
      <3>1. pc \notin {"off", "connect", "streams"}
        BY <1>1 DEF Saving, One, OneStream
      <3>2. pc \notin Unread
        BY <1>1 DEF Saving, Unread
      <3>3. match_cache' \in [Stations -> {None, {1}}]
        BY <2>1 DEF One, OneStream
      <3>4. QED
        BY <1>2, <2>6, <2>8, <3>1, <3>2, <3>3, <3>5 DEF OneStream
    <2>12. OneLine'
      <3>1. Saving'
        BY <1>1, <1>2, <2>8 DEF Saving
      <3>2. /\ Len(temp') <= 1
            /\ \A k \in DOMAIN temp' :
                  temp'[k].id = Id /\ temp'[k].at.seqnum = streams'[1].seqnum
        BY <2>5, <2>6, <2>7, <2>8
      <3>3. file' # None => Len(file') = 1 /\ file'[1].id = Id /\ file'[1].at.seqnum # 0
        BY <2>1 DEF One, OneLine
      <3>4. QED
        BY <3>1, <3>2, <3>3 DEF OneLine
    <2>13. streams # <<>>
      BY <1>4
    <2>14. QED
      BY <1>3, <2>8, <2>9, <2>10, <2>11, <2>12, <2>13 DEF One, CliTypeOK, LoopOK, Steps
  <1>7. QED
    BY <1>5, <1>6 DEF SaveSteps

(* The temporary file is gone: renamed, or removed.                        *)
LEMMA Dropped ==
    ASSUME One, UNCHANGED <<memVars, newest>>, temp' = None, LoopOK', InStep', pc' \notin Unread,
           pc' = "final" \/ streams # <<>>,
           file' = file \/ (file' = temp /\ temp # None /\ Len(temp) = Len(streams))
    PROVE  One' /\ Place' = Place /\ (streams' = <<>> <=> streams = <<>>)
  <1>1. UNCHANGED <<streams, match_cache, recovered, multistation, all_stations,
                    negotiated, seen, newest>>
    BY DEF memVars
  <1>2. /\ file' = None \/ file' \in Seq(FileLine)
        /\ file' # None => Len(file') = 1 /\ file'[1].id = Id /\ file'[1].at.seqnum # 0
    <2>1. CASE file' = file
      BY <2>1 DEF One, CliTypeOK, TypeOK, OneLine
    <2>2. CASE file' = temp /\ temp # None /\ Len(temp) = Len(streams)
      BY <2>2, PlaceSaved
    <2>3. QED
      BY <2>1, <2>2
  <1>3. TypeOK'
    <2>1. TypeOK
      BY DEF One, CliTypeOK
    <2>2. QED
      BY <1>1, <1>2, <2>1 DEF TypeOK, Positions
  <1>4. Place' = Place
    BY <1>1 DEF Place
  <1>5. OneStream'
    <2>1. pc' \notin {"off", "connect", "streams"}
      BY DEF Unread
    <2>2. pc' \in {"window", "recover", "start"} \cup Reading => streams' # <<>>
      BY <1>1 DEF Reading
    <2>3. QED
      BY <1>1, <2>1, <2>2 DEF One, OneStream, Positions, Uncached
  <1>6. OneLine'
    BY <1>2 DEF OneLine
  <1>7. QED
    BY <1>1, <1>3, <1>4, <1>5, <1>6 DEF One, CliTypeOK, LoopOK, Steps

-----------------------------------------------------------------------------
(* What the steps do to the two places, the packets written and the next   *)
(* one: all that the properties are about.                                 *)

Still == Place' = Place /\ Recorded' = Recorded /\ Written' = Written

SameList == streams' = <<>> <=> streams = <<>>

(* Up to the recovery of the state file; and out of it, in trouble if there *)
(* are streams.                                                            *)
Preparing ==
    /\ pc \in Unread /\ pc' \in Unread /\ Still /\ newest' = newest

Leaving ==
    /\ pc \in Unread \cup {"start"} /\ pc' = "final" /\ Still /\ newest' = newest
    /\ \/ streams' = <<>>
       \/ happened' \cap {"badwindow", "interrupt_setup"} # {}
       \/ pc = "start" /\ happened' # {}
    /\ SameList

Recovering ==
    /\ pc = "recover" /\ pc' = "start" /\ streams' # <<>>
    /\ Place' = Recorded \/ (Place' = 0 /\ "unreadable" \in happened')
    /\ Recorded' = Recorded /\ Written' = Written /\ newest' = newest

Starting ==
    /\ pc = "start" /\ pc' = "collect" /\ Still /\ newest' = newest /\ streams' # <<>>
    /\ wanted' = IF Place = 0 THEN newest + 1 ELSE Place + 1

Yielding ==
    /\ pc = "collect" /\ pc' = "body" /\ streams' # <<>>
    /\ wanted <= newest /\ wanted >= 1
    /\ Place' = wanted /\ packet' = wanted /\ wanted' = wanted + 1
    /\ Recorded' = Recorded /\ Written' = Written /\ newest' = newest

Writing ==
    /\ pc = "body" /\ pc' \in {"collect", "periodic"} /\ streams' # <<>>
    /\ Written' = Append(Written, packet)
    /\ Place' = Place /\ Recorded' = Recorded /\ UNCHANGED <<newest, wanted>>

(* Out of the loop; between a packet's position and its payload only in    *)
(* trouble.                                                                *)
Unwritten == {"interrupt", "printfails", "dumpfails"}

Ending ==
    /\ pc \in Reading /\ pc' \in {"close", "final"} /\ Still /\ newest' = newest
    /\ streams' # <<>>
    /\ pc = "body" => happened' \cap Unwritten # {}

(* The end of what was buffered does not get to the disk.                  *)
Begins(q, r) ==
    q \in Seq(Nat) /\ Len(q) <= Len(r) /\ \A k \in 1..Len(q) : q[k] = r[k]

Cutting ==
    /\ pc = "close" /\ pc' = "final" /\ streams' # <<>>
    /\ Begins(Written', Written)
    /\ Place' = Place /\ Recorded' = Recorded /\ newest' = newest
    /\ "dumpfails" \in happened'

Recording ==
    /\ pc = "periodic" /\ pc' = "collect" /\ streams' # <<>>
    /\ Recorded' = Place /\ Place' = Place /\ Written' = Written
    /\ UNCHANGED <<newest, wanted>>

Staying ==
    /\ pc' = pc /\ Still /\ SameList /\ newest' \in {newest, newest + 1}
    /\ UNCHANGED <<wanted, packet>>

Exiting ==
    /\ pc = "final" /\ pc' = "off" /\ Place' = 0 /\ Written' = Written
    /\ newest' = newest
    /\ \/ streams # <<>> /\ Recorded' = Place
       \/ /\ Recorded' = Recorded
          /\ streams = <<>> \/ happened' \cap {"savefails", "interrupt_exit", "kill"} # {}

Dying ==
    /\ pc' = "off" /\ Place' = 0 /\ Recorded' = Recorded /\ newest' = newest
    /\ "kill" \in happened'

Moves ==
    \/ Preparing \/ Leaving \/ Recovering \/ Starting \/ Yielding \/ Writing
    \/ Ending \/ Cutting \/ Recording \/ Staying \/ Exiting \/ Dying

LEMMA WrittenKept ==
    ASSUME CliTypeOK
    PROVE  /\ UNCHANGED <<dump, dumpbuf>> => Written' = Written
           /\ dump' = dump /\ dumpbuf' = <<>> /\ dumpbuf = <<>> => Written' = Written
  BY DEF Written

LEMMA Together ==
    \A s, t, u \in Seq(Nat) : (s \o t) \o u = s \o (t \o u)
  <1>1. TAKE s, t, u \in Seq(Nat)
  <1>2. QED
    BY SMTT(40)

LEMMA Joined ==
    ASSUME NEW s \in Seq(Nat), NEW t \in Seq(Nat)
    PROVE  /\ s \o t \in Seq(Nat) /\ Len(s \o t) = Len(s) + Len(t)
           /\ \A k \in 1..Len(s) : (s \o t)[k] = s[k]
           /\ \A k \in 1..Len(t) : (s \o t)[Len(s) + k] = t[k]
  OBVIOUS

(* Moving packets to the disk loses none of them.                          *)
LEMMA OnDiskKeeps ==
    ASSUME CliTypeOK, NEW q \in Seq(Nat), NEW n \in 0..Len(q), OnDisk(q, n)
    PROVE  /\ Written' = dump \o q /\ dump' \in Seq(Nat) /\ dumpbuf' \in Seq(Nat)
           /\ n = Len(q) => dumpbuf' = <<>>
  <1>1. dump \in Seq(Nat) /\ Len(q) \in Nat
    BY DEF CliTypeOK
  <1>2. PICK a, b : a = SubSeq(q, 1, n) /\ b = SubSeq(q, n + 1, Len(q))
    OBVIOUS
  <1>3. \A i \in 1..Len(q) : q[i] \in Nat
    OBVIOUS
  <1>4. a \in Seq(Nat) /\ b \in Seq(Nat)
    BY <1>1, <1>2, <1>3, SubSeqProperties
  <1>5. a \o b = q
    <2>1. /\ 1 \in 1..Len(q) + 1 /\ n \in 1 - 1..Len(q) /\ Len(q) \in n..Len(q)
      BY <1>1
    <2>2. SubSeq(q, 1, n) \o SubSeq(q, n + 1, Len(q)) = SubSeq(q, 1, Len(q))
      BY <2>1, ConcatAdjacentSubSeq
    <2>3. SubSeq(q, 1, Len(q)) = q
      BY SubSeqFull
    <2>4. QED
      BY Zenon, <1>2, <2>2, <2>3
  <1>6. dump' = dump \o a /\ dumpbuf' = b
    BY <1>2 DEF OnDisk
  <1>7. Written' = dump \o q
    <2>1. (dump \o a) \o b = dump \o (a \o b)
      <3>1. dump \in Seq(Nat) /\ a \in Seq(Nat) /\ b \in Seq(Nat)
        BY Zenon, <1>1, <1>4
      <3>2. QED
        BY ZenonT(60), <3>1, Together
    <2>2. QED
      BY Zenon, <1>5, <1>6, <2>1 DEF Written
  <1>8. n = Len(q) => b = <<>>
    BY <1>1, <1>2, SubSeqEmpty
  <1>9. QED
    BY <1>1, <1>4, <1>6, <1>7, <1>8

LEMMA BodyWrites ==
    ASSUME CliTypeOK, Body
    PROVE  Written' = Append(Written, packet) /\ dump' \in Seq(Nat) /\ dumpbuf' \in Seq(Nat)
  <1>1. dump \in Seq(Nat) /\ dumpbuf \in Seq(Nat) /\ packet \in Nat
    BY DEF CliTypeOK
  <1>2. PICK q : q = Append(dumpbuf, packet)
    OBVIOUS
  <1>3. q \in Seq(Nat) /\ Len(q) = Len(dumpbuf) + 1 /\ q = dumpbuf \o <<packet>>
    BY <1>1, <1>2, AppendIsConcat
  <1>4. PICK n \in 0..Len(q) : OnDisk(q, n)
    <2>1. PICK n \in {0, Len(dumpbuf), Len(dumpbuf) + 1} : OnDisk(q, n)
      BY <1>2 DEF Body
    <2>2. n \in 0..Len(q)
      BY <1>1, <1>3
    <2>3. QED
      BY <2>1, <2>2
  <1>5. Written' = dump \o q /\ dump' \in Seq(Nat) /\ dumpbuf' \in Seq(Nat)
    BY <1>3, <1>4, OnDiskKeeps
  <1>6. dump \o (dumpbuf \o <<packet>>) = (dump \o dumpbuf) \o <<packet>>
    BY <1>1, ConcatAssociative
  <1>7. (dump \o dumpbuf) \o <<packet>> = Append(dump \o dumpbuf, packet)
    BY <1>1, AppendIsConcat
  <1>8. QED
    BY <1>3, <1>5, <1>6, <1>7 DEF Written

(* A failed write, and the end of a dump file, keep what was written.      *)
LEMMA BufferKept ==
    ASSUME CliTypeOK, WriteFails \/ CloseDump
    PROVE  /\ Written' = Written /\ dump' \in Seq(Nat) /\ dumpbuf' \in Seq(Nat)
           /\ CloseDump => dumpbuf' = <<>>
  <1>1. dumpbuf \in Seq(Nat) /\ Len(dumpbuf) \in Nat
    BY DEF CliTypeOK
  <1>2. CASE WriteFails
    <2>1. PICK n \in 0..Len(dumpbuf) : OnDisk(dumpbuf, n)
      BY <1>2 DEF WriteFails
    <2>2. Written' = Written /\ dump' \in Seq(Nat) /\ dumpbuf' \in Seq(Nat)
      BY <1>1, <2>1, OnDiskKeeps DEF Written
    <2>3. ~CloseDump
      BY <1>2 DEF WriteFails, CloseDump
    <2>4. QED
      BY <2>2, <2>3
  <1>3. CASE CloseDump
    <2>1. OnDisk(dumpbuf, Len(dumpbuf)) /\ Len(dumpbuf) \in 0..Len(dumpbuf)
      BY <1>1, <1>3 DEF CloseDump
    <2>2. QED
      BY <1>1, <2>1, OnDiskKeeps DEF Written
  <1>4. QED
    BY <1>2, <1>3

LEMMA BufferCut ==
    ASSUME CliTypeOK, CloseFails
    PROVE  Begins(Written', Written) /\ dump' \in Seq(Nat) /\ dumpbuf' = <<>>
  <1>1. PICK c \in Nat, d \in Nat : c = Len(dump) /\ d = Len(dumpbuf)
    BY DEF CliTypeOK
  <1>2. dump \in Seq(Nat) /\ dumpbuf \in Seq(Nat)
    BY DEF CliTypeOK
  <1>3. PICK n \in 0..d : dump' = dump \o SubSeq(dumpbuf, 1, n)
    BY <1>1 DEF CloseFails
  <1>4. PICK a : a = SubSeq(dumpbuf, 1, n)
    OBVIOUS
  <1>5. \A i \in 1..n : dumpbuf[i] \in Nat
    BY <1>1, <1>2
  <1>6. a \in Seq(Nat) /\ Len(a) = n /\ \A i \in 1..n : a[i] = dumpbuf[i]
    <2>1. n \in Int /\ 1 \in Int /\ (IF 1 <= n THEN n - 1 + 1 ELSE 0) = n
      OBVIOUS
    <2>2. a \in Seq(Nat) /\ Len(a) = n /\ \A i \in 1..n - 1 + 1 : a[i] = dumpbuf[1 + i - 1]
      BY <1>4, <1>5, <2>1, SubSeqProperties
    <2>3. QED
      BY <2>1, <2>2
  <1>7. dumpbuf' = <<>> /\ dump' = dump \o a /\ dump' \in Seq(Nat)
    <2>1. dump \o a \in Seq(Nat)
      BY <1>2, <1>6
    <2>2. dumpbuf' = <<>>
      BY DEF CloseFails
    <2>3. QED
      BY Zenon, <1>3, <1>4, <2>1, <2>2
  <1>8. Written' = dump \o a
    BY <1>7, ConcatEmptySeq DEF Written
  <1>9. /\ Len(dump \o a) = c + n /\ Len(Written) = c + d
        /\ \A k \in 1..c : (dump \o a)[k] = dump[k] /\ Written[k] = dump[k]
        /\ \A k \in 1..n : (dump \o a)[c + k] = a[k]
        /\ \A k \in 1..d : Written[c + k] = dumpbuf[k]
    <2>1. /\ Len(dump \o a) = Len(dump) + Len(a)
          /\ \A k \in 1..Len(dump) : (dump \o a)[k] = dump[k]
          /\ \A k \in 1..Len(a) : (dump \o a)[Len(dump) + k] = a[k]
      BY Zenon, <1>2, <1>6, Joined
    <2>2. /\ Len(dump \o dumpbuf) = Len(dump) + Len(dumpbuf)
          /\ \A k \in 1..Len(dump) : (dump \o dumpbuf)[k] = dump[k]
          /\ \A k \in 1..Len(dumpbuf) : (dump \o dumpbuf)[Len(dump) + k] = dumpbuf[k]
      BY Zenon, <1>2, Joined
    <2>3. Len(a) = n /\ Len(dump) = c /\ Len(dumpbuf) = d /\ Written = dump \o dumpbuf
      BY <1>1, <1>6 DEF Written
    <2>4. QED
      BY Zenon, <2>1, <2>2, <2>3
  <1>10. ASSUME NEW k \in 1..c + n PROVE (dump \o a)[k] = Written[k]
    <2>1. CASE k \in 1..c
      BY <1>9, <2>1
    <2>2. CASE k \notin 1..c
      <3>1. PICK m \in 1..n : k = c + m
        <4>1. k - c \in 1..n /\ k = c + (k - c)
          BY <1>1, <1>3, <2>2
        <4>2. QED
          BY <4>1
      <3>2. m \in 1..d
        BY <1>1, <1>3, <3>1
      <3>3. QED
        BY <1>6, <1>9, <3>1, <3>2
    <2>3. QED
      BY <2>1, <2>2
  <1>11. QED
    BY <1>7, <1>8, <1>9, <1>10 DEF Begins

LEMMA ClientStill ==
    ASSUME ClientKept
    PROVE  Place' = Place /\ Recorded' = Recorded /\ newest' = newest /\ streams' = streams
  BY DEF ClientKept, memVars, Place, Recorded

LEMMA Struck ==
    ASSUME CliTypeOK, [CliNext]_allVars
    PROVE  happened \subseteq happened' /\ happened' \subseteq Trouble /\ received' \in Seq(Nat)
  <1>1. happened \subseteq Trouble /\ received \in Seq(Nat) /\ wanted \in Nat
    BY DEF CliTypeOK
  <1>2. CASE CliNext
    <2>1. received' = received \/ received' = Append(received, wanted)
      BY <1>2 DEF CliNext
    <2>2. received' \in Seq(Nat)
      BY <1>1, <2>1
    <2>3. happened \subseteq happened' /\ happened' \subseteq Trouble
      BY <1>1, <1>2 DEF CliNext, Troubled, Happens
    <2>4. QED
      BY <2>2, <2>3
  <1>3. CASE UNCHANGED allVars
    BY <1>1, <1>3 DEF allVars
  <1>4. QED
    BY <1>2, <1>3

(* The history: what collect() hands over is received, runs are launched.  *)
Heard ==
    received' = IF pc = "collect" /\ pc' = "body" THEN Append(received, wanted) ELSE received

Counted ==
    runs' = IF pc = "off" /\ pc' # "off" THEN runs + 1 ELSE runs

LEMMA History ==
    ASSUME [CliNext]_allVars
    PROVE  Heard /\ Counted
  <1>1. CASE Yield /\ received' = Append(received, wanted)
    BY <1>1 DEF Yield, To, Heard, Counted
  <1>2. CASE Orderly /\ received' = received
    <2>1. ~(pc = "collect" /\ pc' = "body")
      BY <1>2 DEF Orderly, Launch, ConnectStep, ConfigureStreams, ConfigureWindow,
         ConfigureRecover, Start, Body, CollectEnds, CloseDump, SaveSteps, SaveDone, Saving,
         ExitUnsaved, Publish, Stopped, cliVars, Gone, To
    <2>2. Counted
      BY <1>2 DEF Orderly, Launch, ConnectStep, ConfigureStreams, ConfigureWindow,
         ConfigureRecover, Start, Body, CollectEnds, CloseDump, SaveSteps, SaveDone, Saving,
         ExitUnsaved, Publish, Stopped, cliVars, Gone, To, Counted
    <2>3. QED
      BY <1>2, <2>1, <2>2 DEF Heard
  <1>3. CASE Troubled /\ received' = received
    <2>1. ~(pc = "collect" /\ pc' = "body")
      BY <1>3 DEF Troubled, WindowRefused, RecoverFails, SaveError, Saving, PrintFails,
         OpenFails, WriteFails, CloseFails, InterruptSetup, Interrupt, InterruptExit, Kill,
         Gone, To
    <2>2. Counted
      BY <1>3 DEF Troubled, WindowRefused, RecoverFails, SaveError, Saving, PrintFails,
         OpenFails, WriteFails, CloseFails, InterruptSetup, Interrupt, InterruptExit, Kill,
         Gone, To, Counted
    <2>3. QED
      BY <1>3, <2>1, <2>2 DEF Heard
  <1>4. CASE UNCHANGED allVars
    BY <1>4 DEF allVars, cliVars, Heard, Counted
  <1>5. QED
    BY <1>1, <1>2, <1>3, <1>4 DEF CliNext

(* A step before the loop, within it, or out of it that leaves the client  *)
(* alone.                                                                  *)
LEMMA QuietOne ==
    ASSUME One, happened' \subseteq Trouble, received' \in Seq(Nat),
           \/ Launch \/ ConnectStep \/ ConfigureWindow
           \/ CollectEnds \/ CloseDump \/ CloseFails
           \/ Body \/ PrintFails \/ WriteFails
    PROVE  One'
  <1>1. LoopOK
    BY DEF One, CliTypeOK, LoopOK, Steps
  <1>3. CASE Launch
    <2>1. pc = "off" /\ runs < MaxRuns /\ runs' = runs + 1 /\ pc' = "connect" /\ ClientKept
          /\ UNCHANGED <<wanted, packet, dump, dumpbuf>>
      BY <1>3 DEF Launch, To
    <2>2. LoopOK' /\ InStep'
      BY <1>1, <2>1 DEF LoopOK, Steps, One, InStep, Reading
    <2>3. streams = <<>> /\ temp = None
      BY <2>1, Unsaved DEF One, OneStream
    <2>4. QED
      BY <2>1, <2>2, <2>3, Unmoved DEF Unread, Reading
  <1>4. CASE ConnectStep
    <2>1. pc = "connect" /\ pc' \in {"streams", "final"} /\ ClientKept
          /\ UNCHANGED <<wanted, packet, dump, dumpbuf, runs>>
      BY <1>4 DEF ConnectStep
    <2>2. LoopOK' /\ InStep'
      BY <1>1, <2>1 DEF LoopOK, Steps, One, InStep, Reading
    <2>3. streams = <<>> /\ temp = None
      BY <2>1, Unsaved DEF One, OneStream
    <2>4. QED
      BY <2>1, <2>2, <2>3, Unmoved DEF Unread, Reading
  <1>5. CASE ConfigureWindow
    <2>1. pc = "window" /\ pc' = "recover" /\ ClientKept
          /\ UNCHANGED <<wanted, packet, dump, dumpbuf, runs>>
      BY <1>5 DEF ConfigureWindow, To
    <2>2. LoopOK' /\ InStep'
      BY <1>1, <2>1 DEF LoopOK, Steps, One, InStep, Reading
    <2>3. streams # <<>> /\ temp = None
      BY <2>1, Unsaved DEF One, OneStream
    <2>4. QED
      BY <2>1, <2>2, <2>3, Unmoved DEF Unread, Reading
  <1>6. CASE PrintFails
    <2>1. pc = "body" /\ pc' = "close" /\ ClientKept
          /\ UNCHANGED <<wanted, packet, dump, dumpbuf, runs>>
      BY <1>6 DEF PrintFails, To
    <2>2. LoopOK' /\ InStep'
      BY <1>1, <2>1 DEF LoopOK, Steps, One, InStep, Reading
    <2>3. streams # <<>> /\ temp = None
      BY <2>1, Unsaved DEF One, OneStream, Reading
    <2>4. QED
      BY <2>1, <2>2, <2>3, Unmoved DEF Unread, Reading
  <1>7. CASE CollectEnds
    <2>1. pc = "collect" /\ pc' = "close" /\ ClientKept
          /\ UNCHANGED <<wanted, packet, dump, dumpbuf, runs>>
      BY <1>7 DEF CollectEnds, To
    <2>2. LoopOK' /\ InStep'
      BY <1>1, <2>1 DEF LoopOK, Steps, One, InStep, Reading
    <2>3. streams # <<>> /\ temp = None
      BY <2>1, Unsaved DEF One, OneStream, Reading
    <2>4. QED
      BY <2>1, <2>2, <2>3, Unmoved DEF Unread, Reading
  <1>8. CASE CloseDump \/ CloseFails
    <2>1. pc = "close" /\ pc' = "final" /\ ClientKept /\ UNCHANGED <<wanted, packet, runs>>
      BY <1>8 DEF CloseDump, CloseFails, To
    <2>2. dump' \in Seq(Nat) /\ dumpbuf' = <<>>
      BY <1>8, BufferKept, BufferCut DEF One
    <2>3. LoopOK' /\ InStep'
      BY <1>1, <2>1, <2>2 DEF LoopOK, Steps, One, InStep, Reading
    <2>4. streams # <<>> /\ temp = None
      BY <2>1, Unsaved DEF One, OneStream, Reading
    <2>5. QED
      BY <2>1, <2>3, <2>4, Unmoved DEF Unread, Reading
  <1>9. CASE Body \/ WriteFails
    <2>1. pc = "body" /\ pc' \in {"collect", "periodic", "close"} /\ ClientKept
          /\ UNCHANGED <<wanted, packet, runs>>
      BY <1>9 DEF Body, WriteFails, To
    <2>2. dump' \in Seq(Nat) /\ dumpbuf' \in Seq(Nat)
      BY <1>9, BodyWrites, BufferKept DEF One
    <2>3. LoopOK' /\ InStep'
      BY <1>1, <2>1, <2>2 DEF LoopOK, Steps, One, InStep, Reading
    <2>4. streams # <<>> /\ temp = None
      BY <2>1, Unsaved DEF One, OneStream, Reading
    <2>5. QED
      BY <2>1, <2>3, <2>4, Unmoved DEF Unread, Reading
  <1>10. QED
    BY <1>3, <1>4, <1>5, <1>6, <1>7, <1>8, <1>9

(* Out of setup, with the stream list as it is.                            *)
LEMMA LeftOne ==
    ASSUME One, happened' \subseteq Trouble, received' \in Seq(Nat),
           WindowRefused \/ InterruptSetup \/ OpenFails
    PROVE  /\ One' /\ Still /\ SameList /\ newest' = newest
           /\ pc \in Unread \cup {"start"} /\ pc' = "final"
           /\ OpenFails => pc = "start"
  <1>1. /\ pc \in {"connect", "streams", "window", "recover", "start"} /\ pc' = "final"
        /\ ClientKept /\ UNCHANGED <<wanted, packet, dump, dumpbuf, runs>>
        /\ OpenFails => pc = "start"
    BY DEF WindowRefused, InterruptSetup, OpenFails, To
  <1>2. LoopOK' /\ InStep'
    BY <1>1 DEF One, CliTypeOK, LoopOK, Steps, InStep, Reading
  <1>3. temp = None
    BY <1>1, Unsaved DEF One
  <1>4. One'
    BY <1>1, <1>2, <1>3, Unmoved DEF Unread, Reading
  <1>5. Still /\ newest' = newest /\ SameList
    BY <1>1, ClientStill, WrittenKept DEF One, Still, SameList
  <1>6. QED
    BY <1>1, <1>4, <1>5 DEF Unread

(* Interrupt, and the steps on the temporary file but for its lines.       *)
LEMMA InterruptedOne ==
    ASSUME One, Interrupt, happened' \subseteq Trouble, received' \in Seq(Nat)
    PROVE  /\ One' /\ Still /\ SameList /\ newest' = newest
           /\ IF pc \in Reading THEN pc' = "close" /\ streams' # <<>>
              ELSE pc = "start" /\ pc' = "final"
  <1>1. /\ pc \in Reading \cup {"start"} /\ temp' = None
        /\ pc' = IF pc \in Reading THEN "close" ELSE "final"
        /\ UNCHANGED <<memVars, newest, file, wanted, packet, dump, dumpbuf, runs>>
    BY DEF Interrupt, To, Reading
  <1>2. LoopOK' /\ InStep'
    BY <1>1 DEF One, CliTypeOK, LoopOK, Steps, InStep, Reading
  <1>3. pc' \notin Unread /\ (pc' = "final" \/ streams # <<>>)
    BY <1>1 DEF Unread, Reading, One, OneStream
  <1>4. One' /\ Place' = Place /\ (streams' = <<>> <=> streams = <<>>)
    BY <1>1, <1>2, <1>3, Dropped
  <1>5. Written' = Written
    BY <1>1 DEF Written
  <1>6. Recorded' = Recorded
    BY <1>1 DEF Recorded
  <1>7. QED
    BY <1>1, <1>3, <1>4, <1>5, <1>6 DEF Still, SameList, Reading

LEMMA PeriodicOne ==
    ASSUME One, pc = "periodic", SaveDone \/ SaveError, happened' \subseteq Trouble, received' \in Seq(Nat)
    PROVE  /\ One' /\ streams' # <<>> /\ Place' = Place /\ Written' = Written
           /\ UNCHANGED <<newest, wanted>>
           /\ SaveDone => pc' = "collect" /\ Recorded' = Place
           /\ SaveError => pc' = "close" /\ Recorded' = Recorded
  <1>1. /\ temp # None /\ temp' = None
        /\ UNCHANGED <<memVars, newest, wanted, packet, dump, dumpbuf, runs>>
        /\ \/ SaveDone /\ pc' = "collect" /\ file' = temp /\ Len(temp) = Len(streams)
           \/ SaveError /\ pc' = "close" /\ file' = file
    BY DEF SaveDone, SaveError, To
  <1>2. streams # <<>>
    BY DEF One, OneStream, Reading
  <1>3. LoopOK' /\ InStep'
    BY <1>1 DEF One, CliTypeOK, LoopOK, Steps, InStep, Reading
  <1>4. One' /\ Place' = Place /\ (streams' = <<>> <=> streams = <<>>)
    BY <1>1, <1>2, <1>3, Dropped DEF Unread
  <1>5. Written' = Written
    BY <1>1 DEF Written
  <1>6. SaveDone => pc' = "collect" /\ Recorded' = Place
    <2>1. ASSUME SaveDone PROVE pc' = "collect" /\ file' = temp /\ Len(temp) = Len(streams)
      BY <2>1 DEF SaveDone, To
    <2>2. QED
      BY <1>1, <2>1, PlaceSaved
  <1>7. SaveError => pc' = "close" /\ Recorded' = Recorded
    BY DEF SaveError, To, Recorded
  <1>8. QED
    BY <1>1, <1>2, <1>4, <1>5, <1>6, <1>7

(* The process is gone.                                                    *)
LEMMA GoneOne ==
    ASSUME One, happened' \subseteq Trouble, received' \in Seq(Nat),
           \/ Kill \/ InterruptExit \/ ExitUnsaved
           \/ pc # "periodic" /\ (SaveDone \/ SaveError)
    PROVE  /\ One' /\ pc' = "off" /\ Place' = 0 /\ newest' = newest
           /\ pc = "final" => Written' = Written
           /\ Kill \/ InterruptExit \/ ExitUnsaved \/ SaveError => Recorded' = Recorded
           /\ SaveDone => streams # <<>> /\ Recorded' = Place
           /\ pc # "final" => Kill
  <1>1. Gone /\ UNCHANGED <<newest, dump, runs>>
    BY DEF Kill, InterruptExit, ExitUnsaved, SaveDone, SaveError
  <1>2. file' = file \/ (file' = temp /\ temp # None /\ Len(temp) = Len(streams))
    BY DEF Kill, InterruptExit, ExitUnsaved, SaveDone, SaveError
  <1>3. One'
    BY <1>1, <1>2, Emptied
  <1>4. streams' = <<>> /\ dumpbuf' = <<>> /\ pc' = "off"
    BY <1>1 DEF Gone, To
  <1>5. Place' = 0
    BY <1>4 DEF Place
  <1>6. ASSUME pc = "final" PROVE Written' = Written
    <2>1. dumpbuf = <<>>
      BY <1>6 DEF One, InStep, Reading
    <2>2. QED
      BY <1>1, <1>4, <2>1, WrittenKept DEF One
  <1>7. Kill \/ InterruptExit \/ ExitUnsaved \/ SaveError => Recorded' = Recorded
    BY DEF Kill, InterruptExit, ExitUnsaved, SaveError, Recorded
  <1>8. ASSUME SaveDone PROVE streams # <<>> /\ Recorded' = Place
    <2>1. Saving /\ temp # None /\ Len(temp) = Len(streams) /\ file' = temp
      BY <1>8 DEF SaveDone
    <2>2. streams # <<>>
      BY <2>1, SavingOne
    <2>3. QED
      BY <2>1, <2>2, PlaceSaved
  <1>9. pc # "final" => Kill
    BY DEF InterruptExit, ExitUnsaved, SaveDone, SaveError, Saving
  <1>10. QED
    BY <1>1, <1>3, <1>4, <1>5, <1>6, <1>7, <1>8, <1>9

LEMMA StayingOne ==
    ASSUME One, happened' \subseteq Trouble, received' \in Seq(Nat), Publish \/ Stopped \/ UNCHANGED allVars
    PROVE  One' /\ Staying
  <1>1. /\ UNCHANGED <<memVars, temp, file>>
        /\ UNCHANGED <<pc, wanted, packet, dump, dumpbuf, runs>>
        /\ newest' \in {newest, newest + 1}
    BY DEF Publish, Stopped, vars, cliVars, allVars
  <1>2. UNCHANGED <<streams, match_cache, recovered, multistation, all_stations,
                    negotiated, seen>>
    BY <1>1 DEF memVars
  <1>3. TypeOK'
    <2>1. TypeOK /\ newest' \in Nat
      BY <1>1 DEF One, CliTypeOK, TypeOK
    <2>2. QED
      BY <1>1, <1>2, <2>1 DEF TypeOK, Positions
  <1>4. Place' = Place
    BY <1>2 DEF Place
  <1>5. LoopOK' /\ InStep'
    BY <1>1 DEF One, CliTypeOK, LoopOK, Steps, InStep, Reading
  <1>6. OneStream'
    BY <1>1, <1>2, <1>4 DEF One, OneStream, Positions, Uncached, Nothing
  <1>7. OneLine'
    BY <1>1, <1>2 DEF One, OneLine, Saving
  <1>8. Recorded' = Recorded /\ Written' = Written
    BY <1>1 DEF Recorded, Written
  <1>9. QED
    BY <1>1, <1>2, <1>3, <1>4, <1>5, <1>6, <1>7, <1>8
       DEF One, CliTypeOK, LoopOK, Steps, Staying, Still, SameList

LEMMA StepOne ==
    ASSUME One, [CliNext]_allVars
    PROVE  One' /\ Moves /\ happened \subseteq happened'
  <1>1. happened \subseteq happened' /\ happened' \subseteq Trouble /\ received' \in Seq(Nat)
    BY Struck DEF One
  <1>2. CASE Launch \/ ConnectStep \/ ConfigureWindow
    <2>1. One'
      BY <1>1, <1>2, QuietOne
    <2>2. Still /\ newest' = newest /\ streams' = streams
      <3>1. ClientKept /\ UNCHANGED <<dump, dumpbuf>>
        BY <1>2 DEF Launch, ConnectStep, ConfigureWindow
      <3>2. QED
        BY <3>1, ClientStill, WrittenKept DEF One, Still
    <2>3. CASE ConnectStep /\ pc' = "final"
      <3>1. pc = "connect"
        BY <2>3 DEF ConnectStep
      <3>2. streams = <<>>
        BY <3>1 DEF One, OneStream
      <3>3. Leaving
        BY <2>2, <2>3, <3>1, <3>2 DEF Leaving, Unread, SameList
      <3>4. QED
        BY <1>1, <2>1, <3>3 DEF Moves
    <2>4. CASE ~(ConnectStep /\ pc' = "final")
      <3>1. pc \in Unread /\ pc' \in Unread
        BY <1>2, <2>4 DEF Launch, ConnectStep, ConfigureWindow, To, Unread
      <3>2. Preparing
        BY <2>2, <3>1 DEF Preparing
      <3>3. QED
        BY <1>1, <2>1, <3>2 DEF Moves
    <2>5. QED
      BY <2>3, <2>4
  <1>3. CASE ConfigureStreams
    <2>1. One' /\ Place' = 0
      BY <1>1, <1>3, AddedOne
    <2>2. pc = "streams" /\ pc' = "window" /\ UNCHANGED <<newest, file, dump, dumpbuf>>
      BY <1>3 DEF ConfigureStreams, AddStream, To
    <2>3. Place = 0
      BY <2>2 DEF One, OneStream, Unread
    <2>4. Preparing
      BY <2>1, <2>2, <2>3 DEF Preparing, Still, Recorded, Written, Unread
    <2>5. QED
      BY <1>1, <2>1, <2>4 DEF Moves
  <1>4. CASE \/ WindowRefused /\ Happens("badwindow")
             \/ InterruptSetup /\ Happens("interrupt_setup")
             \/ OpenFails /\ Happens("dumpfails")
    <2>1. /\ One' /\ Still /\ SameList /\ newest' = newest
          /\ pc \in Unread \cup {"start"} /\ pc' = "final"
          /\ OpenFails => pc = "start"
      BY <1>1, <1>4, LeftOne
    <2>2. \/ "badwindow" \in happened' \/ "interrupt_setup" \in happened'
          \/ OpenFails /\ "dumpfails" \in happened'
      BY <1>4 DEF Happens
    <2>3. \/ happened' \cap {"badwindow", "interrupt_setup"} # {}
          \/ pc = "start" /\ happened' # {}
      BY <2>1, <2>2
    <2>4. Leaving
      BY <2>1, <2>3 DEF Leaving
    <2>5. QED
      BY <1>1, <2>1, <2>4 DEF Moves
  <1>5. CASE ConfigureRecover
    <2>1. One' /\ Place' = Recorded /\ streams' # <<>>
      BY <1>1, <1>5, ConfiguredOne
    <2>2. /\ pc = "recover" /\ pc' = "start" /\ UNCHANGED <<dump, dumpbuf>>
          /\ UNCHANGED <<newest, file>>
      BY <1>5 DEF ConfigureRecover, To, RecoverState, ClientKept
    <2>3. Recovering
      BY <2>1, <2>2 DEF Recovering, Recorded, Written
    <2>4. QED
      BY <1>1, <2>1, <2>3 DEF Moves
  <1>6. CASE RecoverFails /\ Happens("unreadable")
    <2>1. pc = "recover" /\ pc' = "start" /\ ClientKept
          /\ UNCHANGED <<wanted, packet, dump, dumpbuf, runs>>
      BY <1>6 DEF RecoverFails, To
    <2>2. LoopOK' /\ InStep'
      BY <1>1, <2>1 DEF One, CliTypeOK, LoopOK, Steps, InStep, Reading
    <2>3. temp = None /\ streams # <<>> /\ Place = 0
      BY <2>1, Unsaved DEF One, OneStream, Unread
    <2>4. One'
      BY <2>1, <2>2, <2>3, Unmoved DEF Unread
    <2>5. Still /\ newest' = newest /\ streams' = streams
      BY <2>1, ClientStill, WrittenKept DEF One, Still
    <2>6. "unreadable" \in happened'
      BY <1>6 DEF Happens
    <2>7. Recovering
      BY <2>1, <2>3, <2>5, <2>6 DEF Recovering, Still
    <2>8. QED
      BY <1>1, <2>4, <2>7 DEF Moves
  <1>7. CASE Start
    <2>1. /\ One' /\ Place' = Place /\ streams' # <<>>
          /\ wanted' = IF Place = 0 THEN newest + 1 ELSE Place + 1
      BY <1>1, <1>7, StartedOne
    <2>2. pc = "start" /\ pc' = "collect" /\ UNCHANGED <<newest, file, dump, dumpbuf>>
      BY <1>7 DEF Start, Negotiate, To
    <2>3. Starting
      BY <2>1, <2>2 DEF Starting, Still, Recorded, Written
    <2>4. QED
      BY <1>1, <2>1, <2>3 DEF Moves
  <1>8. CASE Yield
    <2>1. One' /\ Place' = wanted /\ streams' # <<>>
      BY <1>1, <1>8, YieldedOne
    <2>2. /\ pc = "collect" /\ pc' = "body" /\ wanted <= newest /\ packet' = wanted
          /\ wanted' = wanted + 1 /\ UNCHANGED <<newest, file, dump, dumpbuf>>
      BY <1>8 DEF Yield, To
    <2>3. wanted >= 1
      BY <2>2 DEF One, InStep
    <2>4. Yielding
      BY <2>1, <2>2, <2>3 DEF Yielding, Recorded, Written
    <2>5. QED
      BY <1>1, <2>1, <2>4 DEF Moves
  <1>9. CASE Body
    <2>1. One'
      BY <1>1, <1>9, QuietOne
    <2>2. /\ pc = "body" /\ pc' \in {"collect", "periodic"} /\ ClientKept /\ wanted' = wanted
          /\ Written' = Append(Written, packet)
      BY <1>9, BodyWrites DEF Body, One
    <2>3. streams # <<>>
      BY <2>2 DEF One, OneStream, Reading
    <2>4. Writing
      BY <2>2, <2>3, ClientStill DEF Writing
    <2>5. QED
      BY <1>1, <2>1, <2>4 DEF Moves
  <1>10. CASE \/ PrintFails /\ Happens("printfails")
              \/ (WriteFails \/ CloseFails) /\ Happens("dumpfails")
    <2>1. One'
      BY <1>1, <1>10, QuietOne
    <2>2. /\ pc \in {"body", "close"} /\ pc' \in {"close", "final"} /\ ClientKept
          /\ CloseFails => pc = "close" /\ pc' = "final"
      BY <1>10 DEF PrintFails, WriteFails, CloseFails, To
    <2>3. streams # <<>>
      BY <2>2 DEF One, OneStream, Reading
    <2>4. CASE CloseFails /\ Happens("dumpfails")
      <3>1. "dumpfails" \in happened' /\ Begins(Written', Written)
        BY <2>4, BufferCut DEF Happens, One
      <3>2. Cutting
        BY <2>2, <2>3, <2>4, <3>1, ClientStill DEF Cutting
      <3>3. QED
        BY <1>1, <2>1, <3>2 DEF Moves
    <2>5. CASE ~(CloseFails /\ Happens("dumpfails"))
      <3>1. Written' = Written
        BY <1>10, <2>5, WrittenKept, BufferKept DEF PrintFails, One
      <3>2. happened' \cap Unwritten # {}
        BY <1>10 DEF Happens, Unwritten
      <3>3. Ending
        BY <2>2, <2>3, <3>1, <3>2, ClientStill DEF Ending, Still, Reading
      <3>4. QED
        BY <1>1, <2>1, <3>3 DEF Moves
    <2>6. QED
      BY <2>4, <2>5
  <1>11. CASE CollectEnds \/ CloseDump
    <2>1. One'
      BY <1>1, <1>11, QuietOne
    <2>2. pc \in {"collect", "close"} /\ pc' \in {"close", "final"} /\ ClientKept
      BY <1>11 DEF CollectEnds, CloseDump, To
    <2>3. streams # <<>>
      BY <2>2 DEF One, OneStream, Reading
    <2>4. Written' = Written
      BY <1>11, WrittenKept, BufferKept DEF CollectEnds, One
    <2>5. Ending
      BY <2>2, <2>3, <2>4, ClientStill DEF Ending, Still, Reading
    <2>6. QED
      BY <1>1, <2>1, <2>5 DEF Moves
  <1>12. CASE SaveSteps
    <2>1. One' /\ Place' = Place /\ (streams' = <<>> <=> streams = <<>>)
      BY <1>1, <1>12, SavedOne
    <2>2. /\ UNCHANGED <<pc, wanted, packet, dump, dumpbuf>>
          /\ UNCHANGED <<newest, file>>
      BY <1>12 DEF SaveSteps, cliVars, SaveBegin, SaveLine
    <2>3. Staying
      BY <2>1, <2>2 DEF Staying, Still, SameList, Recorded, Written
    <2>4. QED
      BY <1>1, <2>1, <2>3 DEF Moves
  <1>13. CASE pc = "periodic" /\ (SaveDone \/ SaveError)
    <2>1. /\ One' /\ streams' # <<>> /\ Place' = Place /\ Written' = Written
          /\ UNCHANGED <<newest, wanted>>
          /\ SaveDone => pc' = "collect" /\ Recorded' = Place
          /\ SaveError => pc' = "close" /\ Recorded' = Recorded
      BY <1>1, <1>13, PeriodicOne
    <2>2. Recording \/ Ending
      BY <1>13, <2>1 DEF Recording, Ending, Still, Reading
    <2>3. QED
      BY <1>1, <2>1, <2>2 DEF Moves
  <1>14. CASE Interrupt /\ Happens("interrupt")
    <2>1. /\ One' /\ Still /\ SameList /\ newest' = newest
          /\ IF pc \in Reading THEN pc' = "close" /\ streams' # <<>>
             ELSE pc = "start" /\ pc' = "final"
      BY <1>1, <1>14, InterruptedOne
    <2>2. "interrupt" \in happened'
      BY <1>14 DEF Happens
    <2>3. happened' \cap Unwritten # {} /\ happened' # {}
      BY <2>2 DEF Unwritten
    <2>4. Leaving \/ Ending
      BY <2>1, <2>3 DEF Leaving, Ending
    <2>5. QED
      BY <1>1, <2>1, <2>4 DEF Moves
  <1>15. CASE \/ ExitUnsaved
              \/ InterruptExit /\ Happens("interrupt_exit")
              \/ Kill /\ Happens("kill")
              \/ pc # "periodic" /\ SaveDone
              \/ pc # "periodic" /\ SaveError /\ Happens("savefails")
    <2>1. /\ One' /\ pc' = "off" /\ Place' = 0 /\ newest' = newest
          /\ pc = "final" => Written' = Written
          /\ Kill \/ InterruptExit \/ ExitUnsaved \/ SaveError => Recorded' = Recorded
          /\ SaveDone => streams # <<>> /\ Recorded' = Place
          /\ pc # "final" => Kill
      BY <1>1, <1>15, GoneOne
    <2>2. CASE Kill /\ Happens("kill")
      <3>1. "kill" \in happened'
        BY <2>2 DEF Happens
      <3>2. Dying
        BY <2>1, <2>2, <3>1 DEF Dying
      <3>3. QED
        BY <1>1, <2>1, <3>2 DEF Moves
    <2>3. CASE ~(Kill /\ Happens("kill"))
      <3>1. pc = "final"
        BY <1>15, <2>3 DEF InterruptExit, ExitUnsaved, SaveDone, SaveError, Saving
      <3>2. CASE SaveDone
        BY <1>1, <2>1, <3>1, <3>2 DEF Exiting, Moves
      <3>3. CASE ExitUnsaved
        <4>1. streams = <<>>
          BY <3>3 DEF ExitUnsaved
        <4>2. QED
          BY <1>1, <2>1, <3>1, <3>3, <4>1 DEF Exiting, Moves
      <3>4. CASE InterruptExit /\ Happens("interrupt_exit")
        <4>1. "interrupt_exit" \in happened'
          BY <3>4 DEF Happens
        <4>2. happened' \cap {"savefails", "interrupt_exit", "kill"} # {}
          BY <4>1
        <4>3. QED
          BY <1>1, <2>1, <3>1, <3>4, <4>2 DEF Exiting, Moves
      <3>5. CASE SaveError /\ Happens("savefails")
        <4>1. "savefails" \in happened'
          BY <3>5 DEF Happens
        <4>2. happened' \cap {"savefails", "interrupt_exit", "kill"} # {}
          BY <4>1
        <4>3. QED
          BY <1>1, <2>1, <3>1, <3>5, <4>2 DEF Exiting, Moves
      <3>6. QED
        BY <1>15, <2>3, <3>2, <3>3, <3>4, <3>5
    <2>4. QED
      BY <2>2, <2>3
  <1>16. CASE Publish \/ Stopped \/ UNCHANGED allVars
    BY <1>1, <1>16, StayingOne DEF Moves
  <1>17. CASE SaveDone
    BY <1>13, <1>15, <1>17
  <1>18. CASE SaveError /\ Happens("savefails")
    BY <1>13, <1>15, <1>18
  <1>19. CASE Orderly
    BY Zenon, <1>2, <1>3, <1>5, <1>7, <1>9, <1>11, <1>12, <1>15, <1>16, <1>17, <1>19
       DEF Orderly
  <1>20. CASE Troubled
    BY Zenon, <1>4, <1>6, <1>10, <1>14, <1>15, <1>18, <1>20 DEF Troubled
  <1>21. QED
    BY <1>8, <1>16, <1>19, <1>20 DEF CliNext

-----------------------------------------------------------------------------
(* The places.                                                             *)

LEMMA Numbers ==
    ASSUME One
    PROVE  /\ newest \in Nat /\ wanted \in Nat /\ packet \in Nat /\ Written \in Seq(Nat)
           /\ pc \in Steps
           /\ pc \in {"window", "recover", "start"} \cup Reading => streams # <<>>
           /\ pc \in {"off", "connect", "streams"} => streams = <<>>
           /\ pc \in Unread => Place = 0
           /\ streams = <<>> => Place = 0
  <1>1. dump \in Seq(Nat) /\ dumpbuf \in Seq(Nat)
    BY DEF One, CliTypeOK
  <1>2. Written \in Seq(Nat)
    BY <1>1 DEF Written
  <1>3. QED
    BY <1>2 DEF One, CliTypeOK, TypeOK, OneStream, Steps, Place

LEMMA PlacesStep ==
    ASSUME One, Moves, Places
    PROVE  Places'
  <1>1. newest \in Nat /\ wanted \in Nat /\ packet \in Nat
    BY Numbers
  <1>2. CASE Preparing
    BY <1>2 DEF Preparing, Still, Places, Unread
  <1>3. CASE Leaving
    BY <1>3 DEF Leaving, Still, Places
  <1>4. CASE Recovering
    BY <1>1, <1>4 DEF Recovering, Places
  <1>5. CASE Starting
    BY <1>1, <1>5 DEF Starting, Still, Places
  <1>6. CASE Yielding
    BY <1>1, <1>6 DEF Yielding, Places
  <1>7. CASE Writing
    BY <1>1, <1>7 DEF Writing, Places
  <1>8. CASE Ending
    BY <1>8 DEF Ending, Still, Places
  <1>9. CASE Recording
    BY <1>9 DEF Recording, Places
  <1>10. CASE Staying
    BY <1>1, <1>10 DEF Staying, Still, Places
  <1>11. CASE Exiting
    BY <1>1, <1>11 DEF Exiting, Places
  <1>12. CASE Dying
    BY <1>1, <1>12 DEF Dying, Places
  <1>13. CASE Cutting
    BY <1>13 DEF Cutting, Places
  <1>14. QED
    BY <1>2, <1>3, <1>4, <1>5, <1>6, <1>7, <1>8, <1>9, <1>10, <1>11, <1>12, <1>13 DEF Moves

LEMMA Troubles ==
    ASSUME happened \subseteq happened', NEW T
    PROVE  Without(T)' => Without(T)
  BY DEF Without

LEMMA ProgressStep ==
    ASSUME One, Moves, Places, Progress, happened \subseteq happened'
    PROVE  Progress'
  <1> DEFINE T == {"badwindow", "unreadable", "interrupt_setup"}
  <1>1. SUFFICES ASSUME happened' \cap T = {}, streams' # <<>>, pc' \notin Unread
                 PROVE  Place' >= Recorded'
    BY DEF Progress, Without
  <1>2. streams # <<>> /\ pc \notin Unread => Place >= Recorded
    BY <1>1 DEF Progress, Without
  <1>3. Place \in Nat /\ Recorded \in Nat /\ newest \in Nat
    BY Numbers DEF Places
  <1>4. CASE Preparing
    BY <1>1, <1>4 DEF Preparing
  <1>5. CASE Leaving
    <2>1. pc = "start"
      BY <1>1, <1>5 DEF Leaving
    <2>2. streams # <<>> /\ pc \notin Unread
      BY <2>1, Numbers DEF Unread
    <2>3. QED
      BY <1>2, <1>5, <2>2 DEF Leaving, Still
  <1>6. CASE Recovering
    BY <1>1, <1>3, <1>6 DEF Recovering
  <1>7. CASE Starting
    <2>1. streams # <<>> /\ pc \notin Unread
      BY <1>7, Numbers DEF Starting, Unread
    <2>2. QED
      BY <1>2, <1>7, <2>1 DEF Starting, Still
  <1>8. CASE Yielding
    <2>1. streams # <<>> /\ pc \notin Unread
      BY <1>8, Numbers DEF Yielding, Unread, Reading
    <2>2. Place >= Recorded /\ (Place # 0 => wanted = Place + 1)
      BY <1>2, <1>8, <2>1 DEF Yielding, Places
    <2>3. wanted \in Nat
      BY Numbers
    <2>4. QED
      BY <1>3, <1>8, <2>2, <2>3 DEF Yielding
  <1>9. CASE Writing
    <2>1. streams # <<>> /\ pc \notin Unread
      BY <1>9, Numbers DEF Writing, Unread, Reading
    <2>2. QED
      BY <1>2, <1>9, <2>1 DEF Writing
  <1>10. CASE Ending
    <2>1. streams # <<>> /\ pc \notin Unread
      BY <1>10, Numbers DEF Ending, Unread, Reading
    <2>2. QED
      BY <1>2, <1>10, <2>1 DEF Ending, Still
  <1>11. CASE Recording
    BY <1>3, <1>11 DEF Recording
  <1>12. CASE Staying
    BY <1>1, <1>2, <1>12 DEF Staying, Still, SameList
  <1>13. CASE Exiting \/ Dying
    BY <1>1, <1>13 DEF Exiting, Dying, Unread
  <1>14. CASE Cutting
    <2>1. streams # <<>> /\ pc \notin Unread
      BY <1>14, Numbers DEF Cutting, Unread, Reading
    <2>2. QED
      BY <1>2, <1>14, <2>1 DEF Cutting
  <1>15. QED
    BY <1>4, <1>5, <1>6, <1>7, <1>8, <1>9, <1>10, <1>11, <1>12, <1>13, <1>14 DEF Moves

(* Only a run that has recovered writes its position.                      *)
LEMMA RecordedStep ==
    ASSUME One, Moves, Places, Progress, Without({"badwindow", "unreadable", "interrupt_setup"})
    PROVE  Recorded' >= Recorded
  <1>1. streams # <<>> /\ pc \notin Unread => Place >= Recorded
    BY DEF Progress
  <1>2. Place \in Nat /\ Recorded \in Nat
    BY DEF Places
  <1>3. CASE Recording
    BY <1>1, <1>3, Numbers DEF Recording, Unread, Reading
  <1>4. CASE Exiting
    BY <1>1, <1>2, <1>4 DEF Exiting, Unread
  <1>5. CASE Recorded' = Recorded
    BY <1>2, <1>5
  <1>6. QED
    BY <1>3, <1>4, <1>5
       DEF Moves, Preparing, Leaving, Recovering, Starting, Yielding, Writing, Ending,
           Cutting, Staying, Dying, Still

-----------------------------------------------------------------------------
(* The dump.                                                               *)

LEMMA OneMore ==
    ASSUME NEW q \in Seq(Nat), NEW n \in Nat
    PROVE  /\ Append(q, n) \in Seq(Nat) /\ Len(Append(q, n)) = Len(q) + 1
           /\ Append(q, n)[Len(q) + 1] = n
           /\ \A k \in 1..Len(q) : Append(q, n)[k] = q[k]
           /\ DOMAIN q = 1..Len(q) /\ DOMAIN Append(q, n) = 1..Len(q) + 1
           /\ Len(q) \in Nat /\ \A k \in DOMAIN q : q[k] \in Nat
  OBVIOUS

LEMMA InMore ==
    ASSUME NEW q \in Seq(Nat), NEW n \in Nat
    PROVE  In(n, Append(q, n)) /\ \A m \in Nat : In(m, q) => In(m, Append(q, n))
  <1>1. In(n, Append(q, n))
    <2>1. Len(q) + 1 \in 1..Len(q) + 1
      BY OneMore
    <2>2. QED
      BY <2>1, OneMore DEF In
  <1>2. ASSUME NEW m \in Nat, In(m, q) PROVE In(m, Append(q, n))
    <2>1. PICK k \in 1..Len(q) : q[k] = m
      BY <1>2, OneMore DEF In
    <2>2. k \in 1..Len(q) + 1
      BY OneMore
    <2>3. QED
      BY <2>1, <2>2, OneMore DEF In
  <1>3. QED
    BY <1>1, <1>2

LEMMA BeyondMore ==
    ASSUME NEW q \in Seq(Nat), NEW n \in Int, NEW m \in Int, n <= m, NoneBeyond(q, n)
    PROVE  NoneBeyond(q, m)
  <1>1. \A k \in DOMAIN q : q[k] \in Nat
    OBVIOUS
  <1>2. QED
    BY <1>1 DEF NoneBeyond

LEMMA RisingMore ==
    ASSUME NEW q \in Seq(Nat), NEW n \in Nat, Rising(q), NoneBeyond(q, n - 1)
    PROVE  Rising(Append(q, n)) /\ NoneBeyond(Append(q, n), n)
  <1>1. PICK r \in Seq(Nat) : r = Append(q, n)
    BY OneMore
  <1>2. PICK c \in Nat : c = Len(q)
    BY OneMore
  <1>3. /\ Len(r) = c + 1 /\ r[c + 1] = n /\ \A k \in 1..c : r[k] = q[k]
        /\ DOMAIN q = 1..c /\ DOMAIN r = 1..c + 1
        /\ \A k \in 1..c : q[k] \in Nat
    BY <1>1, <1>2, OneMore
  <1>4. \A k \in 1..c : q[k] <= n - 1
    BY <1>3 DEF NoneBeyond
  <1>5. Rising(r)
    <2>1. SUFFICES ASSUME NEW k \in 1..Len(r) - 1 PROVE r[k] < r[k+1]
      BY DEF Rising
    <2>2. CASE k = c
      BY <1>3, <1>4, <2>2
    <2>3. CASE k # c
      <3>1. k \in 1..c - 1 /\ k \in 1..c /\ k + 1 \in 1..c
        BY <1>3, <2>3
      <3>2. q[k] < q[k+1]
        BY <1>2, <3>1 DEF Rising
      <3>3. QED
        BY <1>3, <3>1, <3>2
    <2>4. QED
      BY <2>2, <2>3
  <1>6. NoneBeyond(r, n)
    <2>1. SUFFICES ASSUME NEW k \in 1..c + 1 PROVE r[k] <= n
      BY <1>3 DEF NoneBeyond
    <2>2. CASE k = c + 1
      BY <1>3, <2>2
    <2>3. CASE k \in 1..c
      BY <1>3, <1>4, <2>3
    <2>4. QED
      BY <2>2, <2>3
  <1>7. QED
    BY <1>1, <1>5, <1>6

LEMMA UnbrokenMore ==
    ASSUME NEW q \in Seq(Nat), NEW n \in Nat, n # 0, Unbroken(q),
           q = <<>> \/ EndsAt(q, n - 1)
    PROVE  Unbroken(Append(q, n)) /\ EndsAt(Append(q, n), n)
  <1>1. PICK r \in Seq(Nat) : r = Append(q, n)
    BY OneMore
  <1>2. PICK c \in Nat : c = Len(q)
    BY OneMore
  <1>3. /\ Len(r) = c + 1 /\ r[c + 1] = n /\ \A k \in 1..c : r[k] = q[k]
        /\ \A k \in 1..c : q[k] \in Nat
    BY <1>1, <1>2, OneMore
  <1>4. c # 0 => q[c] = n - 1
    <2>1. ASSUME c # 0 PROVE q # <<>>
      <3>1. Len(<<>>) = 0
        BY EmptySeq
      <3>2. QED
        BY Zenon, <1>2, <2>1, <3>1
    <2>2. QED
      BY <1>2, <2>1 DEF EndsAt
  <1>5. Unbroken(r)
    <2>1. SUFFICES ASSUME NEW k \in 1..Len(r) - 1 PROVE r[k+1] <= r[k] + 1
      BY DEF Unbroken
    <2>2. CASE k = c
      BY <1>3, <1>4, <2>2
    <2>3. CASE k # c
      <3>1. k \in 1..c - 1 /\ k \in 1..c /\ k + 1 \in 1..c
        BY <1>3, <2>3
      <3>2. q[k+1] <= q[k] + 1
        BY <1>2, <3>1 DEF Unbroken
      <3>3. QED
        BY <1>3, <3>1, <3>2
    <2>4. QED
      BY <2>2, <2>3
  <1>6. EndsAt(r, n)
    BY <1>3 DEF EndsAt
  <1>7. QED
    BY <1>1, <1>5, <1>6

LEMMA KnownStep ==
    ASSUME One, Moves, Heard, Places, Known
    PROVE  Known'
  <1>1. /\ received \in Seq(Nat) /\ wanted \in Nat
        /\ Recorded \in Nat /\ Place \in Nat /\ newest \in Nat
    BY Numbers DEF One, CliTypeOK, Places
  <1>2. \A m \in Nat : In(m, received) => In(m, received')
    BY <1>1, InMore DEF Heard
  <1>3. CASE Yielding
    <2>1. received' = Append(received, wanted)
      BY <1>3 DEF Yielding, Heard
    <2>2. In(wanted, received')
      BY <1>1, <2>1, InMore
    <2>3. QED
      BY <1>1, <1>2, <1>3, <2>2 DEF Yielding, Known
  <1>4. ASSUME Place' \in {Place, Recorded, 0}, Recorded' \in {Place, Recorded} PROVE Known'
    BY <1>1, <1>2, <1>4 DEF Known
  <1>5. CASE ~Yielding
    BY <1>4, <1>5 DEF Moves, Preparing, Leaving, Recovering, Starting, Writing, Ending,
       Cutting, Recording, Staying, Exiting, Dying, Still
  <1>6. QED
    BY <1>3, <1>5

LEMMA WholeStep ==
    ASSUME One, Moves, Heard, Places, Whole, happened \subseteq happened'
    PROVE  Whole'
  <1> DEFINE T == {"kill", "dumpfails", "printfails", "interrupt"}
  <1>1. SUFFICES ASSUME happened' \cap T = {}
        PROVE  received' = IF pc' = "body" THEN Append(Written', packet') ELSE Written'
    BY DEF Whole, Without
  <1>2. received = IF pc = "body" THEN Append(Written, packet) ELSE Written
    BY <1>1 DEF Whole, Without
  <1>3. ~(pc = "collect" /\ pc' = "body") => received' = received
    BY DEF Heard
  <1>4. CASE Preparing \/ Leaving
    <2>1. Written' = Written /\ pc \in Unread \cup {"start"} /\ pc' \in Unread \cup {"final"}
      BY <1>4 DEF Preparing, Leaving, Still
    <2>2. QED
      BY <1>2, <1>3, <2>1 DEF Unread
  <1>5. CASE Recovering \/ Starting \/ Recording
    BY <1>2, <1>3, <1>5 DEF Recovering, Starting, Recording, Still
  <1>6. CASE Yielding
    BY <1>2, <1>6 DEF Yielding, Heard
  <1>7. CASE Writing
    BY <1>2, <1>3, <1>7 DEF Writing
  <1>8. CASE Ending
    <2>1. pc # "body"
      BY <1>1, <1>8 DEF Ending, Unwritten
    <2>2. QED
      BY <1>2, <1>3, <1>8, <2>1 DEF Ending, Still
  <1>9. CASE Staying
    BY <1>2, <1>3, <1>9 DEF Staying, Still
  <1>10. CASE Exiting
    BY <1>2, <1>3, <1>10 DEF Exiting
  <1>11. CASE Cutting \/ Dying
    BY <1>1, <1>11 DEF Cutting, Dying
  <1>12. QED
    BY <1>4, <1>5, <1>6, <1>7, <1>8, <1>9, <1>10, <1>11 DEF Moves

LEMMA TallyStep ==
    ASSUME One, Moves, Heard, Counted, Tally, happened \subseteq happened'
    PROVE  Tally'
  <1> DEFINE T == {"kill", "dumpfails"}
             Last(step) == IF step \in Intact THEN 1 ELSE 0
  <1>1. SUFFICES ASSUME happened' \cap T = {}
        PROVE  Len(received') <= Len(Written') + runs' - Last(pc')
    BY DEF Tally, Without
  <1>2. Len(received) <= Len(Written) + runs - Last(pc)
    BY <1>1 DEF Tally, Without
  <1>3. PICK r \in Nat, w \in Nat, n \in Nat :
           r = Len(received) /\ w = Len(Written) /\ n = runs
    BY Numbers DEF One, CliTypeOK
  <1>4. r <= w + n - Last(pc)
    BY <1>2, <1>3
  <1>5. ~(pc = "collect" /\ pc' = "body") => Len(received') = r
    BY <1>3 DEF Heard
  <1>6. runs' = IF pc = "off" /\ pc' # "off" THEN n + 1 ELSE n
    BY <1>3 DEF Counted
  <1>7. ASSUME Len(received') = r, Len(Written') = w, pc' \in Intact => pc \in Intact \cup {"off"},
               pc = "off" => pc' # "off" \/ pc' \notin Intact
        PROVE  Tally'
    BY <1>4, <1>6, <1>7 DEF Tally, Intact
  <1>8. CASE Preparing \/ Leaving \/ Recovering \/ Starting \/ Recording \/ Ending
    <2>1. Written' = Written
      BY <1>8 DEF Preparing, Leaving, Recovering, Starting, Recording, Ending, Still
    <2>2. pc' \in Intact => pc \in Intact \cup {"off"}
      BY <1>8 DEF Preparing, Leaving, Recovering, Starting, Recording, Ending, Unread,
         Reading, Intact
    <2>3. pc' # "body"
      BY <1>8 DEF Preparing, Leaving, Recovering, Starting, Recording, Ending, Unread
    <2>4. Tally'
      BY <1>3, <1>5, <1>7, <2>1, <2>2, <2>3 DEF Intact
    <2>5. QED
      BY <1>1, <2>4 DEF Tally, Without
  <1>9. CASE Yielding
    <2>1. received' = Append(received, wanted) /\ received \in Seq(Nat) /\ wanted \in Nat
      BY <1>9, Numbers DEF Yielding, Heard, One, CliTypeOK
    <2>2. Len(received') = r + 1 /\ Len(Written') = w /\ pc = "collect" /\ pc' = "body"
      BY <1>3, <1>9, <2>1, OneMore DEF Yielding
    <2>3. QED
      BY <1>4, <1>6, <2>2 DEF Intact
  <1>10. CASE Writing
    <2>1. Len(Written') = w + 1
      BY <1>3, <1>10, Numbers, OneMore DEF Writing
    <2>2. Len(received') = r /\ pc = "body" /\ runs' = n
      BY <1>5, <1>6, <1>10 DEF Writing
    <2>3. QED
      BY <1>4, <2>1, <2>2 DEF Intact
  <1>11. CASE Staying
    <2>1. pc' = pc /\ Len(Written') = w /\ runs' = n /\ Len(received') = r
      BY <1>3, <1>5, <1>6, <1>11 DEF Staying, Still
    <2>2. QED
      BY <1>4, <2>1
  <1>12. CASE Exiting
    <2>1. pc' = "off" /\ pc = "final" /\ Len(Written') = w /\ runs' = n /\ Len(received') = r
      BY <1>3, <1>5, <1>6, <1>12 DEF Exiting
    <2>2. QED
      BY <1>4, <2>1 DEF Intact
  <1>13. CASE Cutting \/ Dying
    BY <1>1, <1>13 DEF Cutting, Dying
  <1>14. QED
    BY <1>8, <1>9, <1>10, <1>11, <1>12, <1>13 DEF Moves

LEMMA BeginsInOrder ==
    ASSUME NEW q, NEW r \in Seq(Nat), NEW n \in Int, Begins(q, r)
    PROVE  /\ Rising(r) => Rising(q)
           /\ NoneBeyond(r, n) => NoneBeyond(q, n)
  <1>1. PICK c \in Nat, d \in Nat : c = Len(q) /\ d = Len(r)
    BY DEF Begins
  <1>2. /\ c <= d /\ \A k \in 1..c : q[k] = r[k]
        /\ DOMAIN q = 1..c /\ DOMAIN r = 1..d
    BY <1>1 DEF Begins
  <1>3. ASSUME Rising(r) PROVE Rising(q)
    <2>1. SUFFICES ASSUME NEW k \in 1..c - 1 PROVE q[k] < q[k+1]
      BY <1>1 DEF Rising
    <2>2. k \in 1..c /\ k + 1 \in 1..c /\ k \in 1..d - 1
      BY <1>2
    <2>3. QED
      BY <1>1, <1>2, <1>3, <2>2 DEF Rising
  <1>4. NoneBeyond(r, n) => NoneBeyond(q, n)
    BY <1>2 DEF NoneBeyond
  <1>5. QED
    BY <1>3, <1>4

LEMMA OrderedStep ==
    ASSUME One, Moves, Places, Ordered, happened \subseteq happened'
    PROVE  Ordered'
  <1> DEFINE T == {"kill", "savefails", "interrupt_exit"}
  <1>1. SUFFICES ASSUME happened' \cap T = {}
        PROVE  /\ Rising(Written') /\ NoneBeyond(Written', newest')
               /\ pc' \in Unread \/ streams' = <<>> =>
                      (Recorded' # 0 => NoneBeyond(Written', Recorded'))
               /\ Place' # 0 => NoneBeyond(Written', Place')
               /\ pc' \in {"collect", "periodic"} => NoneBeyond(Written', wanted' - 1)
               /\ pc' = "body" => NoneBeyond(Written', packet' - 1)
    BY DEF Ordered, Without, Rising, NoneBeyond
  <1>2. /\ Rising(Written) /\ NoneBeyond(Written, newest)
        /\ pc \in Unread \/ streams = <<>> =>
               (Recorded # 0 => NoneBeyond(Written, Recorded))
        /\ Place # 0 => NoneBeyond(Written, Place)
        /\ pc \in {"collect", "periodic"} => NoneBeyond(Written, wanted - 1)
        /\ pc = "body" => NoneBeyond(Written, packet - 1)
    BY <1>1 DEF Ordered, Without
  <1>3. /\ Written \in Seq(Nat) /\ newest \in Nat /\ wanted \in Nat /\ packet \in Nat
        /\ Place \in 0..newest /\ Recorded \in 0..newest
    BY Numbers DEF Places
  <1> HIDE DEF T
  <1>4. CASE Preparing
    BY <1>2, <1>4, Numbers DEF Preparing, Still, Unread
  <1>5. CASE Leaving
    <2>1. /\ pc' = "final" /\ Written' = Written /\ Recorded' = Recorded
          /\ Place' = Place /\ newest' = newest /\ (streams' = <<>> => streams = <<>>)
      BY <1>5 DEF Leaving, Still, SameList
    <2>2. QED
      BY <1>2, <2>1 DEF Unread
  <1>6. CASE Recovering
    BY <1>2, <1>6 DEF Recovering, Unread
  <1>7. CASE Starting
    <2>1. wanted' - 1 = IF Place = 0 THEN newest ELSE Place
      BY <1>3, <1>7 DEF Starting
    <2>2. NoneBeyond(Written, wanted' - 1)
      BY <1>2, <2>1
    <2>3. QED
      BY <1>2, <1>7, <2>2 DEF Starting, Still, Unread
  <1>8. CASE Yielding
    <2>1. NoneBeyond(Written, wanted - 1) /\ wanted - 1 <= wanted
      BY <1>2, <1>3, <1>8 DEF Yielding
    <2>2. NoneBeyond(Written, wanted)
      BY <1>3, <2>1, BeyondMore
    <2>3. QED
      BY <1>2, <1>8, <2>1, <2>2 DEF Yielding, Unread
  <1>9. CASE Writing
    <2>1. packet = Place /\ wanted - 1 = packet /\ NoneBeyond(Written, packet - 1)
      BY <1>2, <1>3, <1>9 DEF Writing, Places
    <2>2. Rising(Written') /\ NoneBeyond(Written', packet) /\ Written' \in Seq(Nat)
      BY <1>2, <1>3, <1>9, <2>1, RisingMore, OneMore DEF Writing
    <2>3. NoneBeyond(Written', newest)
      BY <1>3, <2>1, <2>2, BeyondMore
    <2>4. QED
      BY <1>9, <2>1, <2>2, <2>3 DEF Writing, Unread
  <1>10. CASE Ending
    BY <1>2, <1>10 DEF Ending, Still, Unread
  <1>11. CASE Recording
    BY <1>2, <1>11 DEF Recording, Unread
  <1>12. CASE Staying
    <2>1. newest <= newest' /\ newest' \in Nat
      BY <1>3, <1>12 DEF Staying
    <2>2. NoneBeyond(Written, newest')
      BY <1>2, <1>3, <2>1, BeyondMore
    <2>3. QED
      BY <1>2, <1>12, <2>2 DEF Staying, Still, SameList
  <1>13. CASE Exiting
    <2>1. \/ Recorded' = Place
          \/ Recorded' = Recorded /\ streams = <<>>
      BY <1>1, <1>13 DEF Exiting, T
    <2>2. QED
      BY <1>2, <1>13, <2>1 DEF Exiting
  <1>14. CASE Dying
    BY <1>1, <1>14 DEF Dying, T
  <1>15. CASE Cutting
    <2>1. /\ Rising(Written') /\ Begins(Written', Written)
          /\ pc' = "final" /\ Place' = Place /\ newest' = newest /\ streams' # <<>>
      BY <1>2, <1>3, <1>15, BeginsInOrder DEF Cutting
    <2>2. NoneBeyond(Written', newest) /\ (Place # 0 => NoneBeyond(Written', Place))
      BY <1>2, <1>3, <2>1, BeginsInOrder
    <2>3. QED
      BY <2>1, <2>2 DEF Unread
  <1>16. QED
    BY <1>4, <1>5, <1>6, <1>7, <1>8, <1>9, <1>10, <1>11, <1>12, <1>13, <1>14, <1>15 DEF Moves

LEMMA CompleteStep ==
    ASSUME One, Moves, Places, Complete, happened \subseteq happened'
    PROVE  Complete'
  <1>1. SUFFICES ASSUME happened' = {}
        PROVE  /\ Unbroken(Written')
               /\ pc' \in Unread \/ streams' = <<>> => EndsAt(Written', Recorded')
               /\ pc' \notin Unread \cup {"body"} /\ streams' # <<>> => EndsAt(Written', Place')
               /\ pc' = "body" => Written' = <<>> \/ EndsAt(Written', packet' - 1)
    BY DEF Complete, Unbroken, EndsAt
  <1>2. happened = {}
    BY <1>1
  <1>3. /\ Unbroken(Written)
        /\ pc \in Unread \/ streams = <<>> => EndsAt(Written, Recorded)
        /\ pc \notin Unread \cup {"body"} /\ streams # <<>> => EndsAt(Written, Place)
        /\ pc = "body" => Written = <<>> \/ EndsAt(Written, packet - 1)
    BY <1>2 DEF Complete
  <1>4. /\ Written \in Seq(Nat) /\ newest \in Nat /\ wanted \in Nat /\ packet \in Nat
        /\ Place \in 0..newest
    BY Numbers DEF Places
  <1>5. CASE Preparing
    BY <1>3, <1>5 DEF Preparing, Still, Unread
  <1>6. CASE Leaving
    <2>1. /\ pc' = "final" /\ Written' = Written /\ Recorded' = Recorded
          /\ streams' = <<>> /\ streams = <<>>
      BY <1>1, <1>6 DEF Leaving, Still, SameList
    <2>2. QED
      BY <1>3, <2>1 DEF Unread
  <1>7. CASE Recovering
    <2>1. Place' = Recorded /\ Written' = Written /\ pc = "recover" /\ pc' = "start"
          /\ streams' # <<>>
      BY <1>1, <1>7 DEF Recovering
    <2>2. QED
      BY <1>3, <2>1 DEF Unread
  <1>8. CASE Starting
    <2>1. streams # <<>>
      BY <1>8, Numbers DEF Starting
    <2>2. QED
      BY <1>3, <1>8, <2>1 DEF Starting, Still, Unread
  <1>9. CASE Yielding
    <2>1. streams # <<>>
      BY <1>9, Numbers DEF Yielding, Reading
    <2>2. EndsAt(Written, Place)
      BY <1>3, <1>9, <2>1 DEF Yielding, Unread
    <2>3. CASE Place = 0
      <3>1. Written = <<>>
        BY <2>2, <2>3 DEF EndsAt
      <3>2. QED
        BY <1>3, <1>9, <3>1 DEF Yielding, Unread
    <2>4. CASE Place # 0
      <3>1. wanted - 1 = Place
        BY <1>4, <1>9, <2>4 DEF Yielding, Places
      <3>2. QED
        BY <1>3, <1>9, <2>2, <3>1 DEF Yielding, Unread
    <2>5. QED
      BY <2>3, <2>4
  <1>10. CASE Writing
    <2>1. packet = Place /\ packet # 0 /\ (Written = <<>> \/ EndsAt(Written, packet - 1))
      BY <1>3, <1>10 DEF Writing, Places
    <2>2. Unbroken(Written') /\ EndsAt(Written', packet)
      BY <1>3, <1>4, <1>10, <2>1, UnbrokenMore DEF Writing
    <2>3. QED
      BY <1>10, <2>1, <2>2 DEF Writing, Unread
  <1>11. CASE Ending
    <2>1. pc # "body" /\ streams # <<>> /\ pc \notin Unread
      BY <1>1, <1>11, Numbers DEF Ending, Reading, Unread
    <2>2. QED
      BY <1>3, <1>11, <2>1 DEF Ending, Still, Unread
  <1>12. CASE Recording
    <2>1. streams # <<>>
      BY <1>12, Numbers DEF Recording, Reading
    <2>2. QED
      BY <1>3, <1>12, <2>1 DEF Recording, Unread
  <1>13. CASE Staying
    BY <1>3, <1>13 DEF Staying, Still, SameList
  <1>14. CASE Exiting
    <2>1. /\ pc' = "off" /\ Written' = Written
          /\ \/ streams # <<>> /\ Recorded' = Place
             \/ Recorded' = Recorded /\ streams = <<>>
      BY <1>1, <1>14 DEF Exiting
    <2>2. QED
      BY <1>3, <1>14, <2>1 DEF Exiting, Unread
  <1>15. CASE Dying \/ Cutting
    BY <1>1, <1>15 DEF Dying, Cutting
  <1>16. QED
    BY <1>5, <1>6, <1>7, <1>8, <1>9, <1>10, <1>11, <1>12, <1>13, <1>14, <1>15 DEF Moves

-----------------------------------------------------------------------------
(* The theorems.                                                           *)

CliInv == One /\ Places /\ Progress /\ Known /\ Whole /\ Tally /\ Ordered /\ Complete

LEMMA CliStart == CliInit => CliInv
  <1> SUFFICES ASSUME CliInit PROVE CliInv
    OBVIOUS
  <1>1. /\ streams = <<>> /\ match_cache = Uncached /\ recovered = Nothing
        /\ multistation = FALSE /\ all_stations = FALSE
        /\ negotiated = FALSE /\ seen = {} /\ newest = 0
        /\ temp = None /\ file = None
        /\ pc = "off" /\ wanted = 0 /\ packet = 0
        /\ dump = <<>> /\ dumpbuf = <<>> /\ runs = 0
        /\ received = <<>> /\ happened = {}
    BY DEF CliInit, Init
  <1>2. Positions = {} /\ Len(streams) = 0 /\ Place = 0 /\ Recorded = 0
    BY <1>1 DEF Positions, Place, Recorded, PositionIn
  <1>3. Written = <<>> /\ DOMAIN Written = {} /\ Len(Written) = 0
    BY <1>1 DEF Written
  <1>4. TypeOK
    <2>1. match_cache \in [Stations -> (SUBSET Positions) \cup {None}]
      BY <1>1 DEF Uncached
    <2>2. streams \in Seq(Stream)
      BY <1>1
    <2>3. QED
      BY <1>1, <2>1, <2>2, NothingOK DEF TypeOK
  <1>5. CliTypeOK
    BY <1>1, <1>4 DEF CliTypeOK
  <1>6. OneStream
    BY <1>1, <1>2, NothingOK DEF OneStream, Reading
  <1>7. OneLine /\ InStep
    BY <1>1 DEF OneLine, InStep
  <1>8. Places /\ Progress /\ Known
    BY <1>1, <1>2 DEF Places, Progress, Known
  <1>12. Whole /\ Tally
    BY <1>1, <1>3 DEF Whole, Tally, Intact
  <1>9. Ordered
    BY <1>1, <1>2, <1>3 DEF Ordered, Rising, NoneBeyond
  <1>10. Complete
    BY <1>1, <1>2, <1>3 DEF Complete, Unbroken, EndsAt
  <1>11. QED
    BY <1>5, <1>6, <1>7, <1>8, <1>9, <1>10, <1>12 DEF One, CliInv

LEMMA CliKept == ASSUME CliInv, [CliNext]_allVars PROVE CliInv'
  BY StepOne, History, PlacesStep, ProgressStep, KnownStep, WholeStep, TallyStep,
     OrderedStep, CompleteStep DEF CliInv

LEMMA CliSafe == CliSpec => []CliInv
  BY CliStart, CliKept, PTL DEF CliSpec

(* Every variable of a run has its type, at every step.                    *)
THEOREM CliTypeCorrect == CliSpec => []CliTypeOK
  <1>1. CliInv => CliTypeOK
    BY DEF CliInv, One
  <1>2. QED
    BY <1>1, CliSafe, PTL

(* Once a run has recovered it, the saved position never goes back,         *)
(* whatever kills or interrupts the program or fills the disk (cli.py:741). *)
THEOREM ProgressIsKept == CliSpec => ProgressKeptOnceRecovered
  <1> DEFINE Sound == Without({"badwindow", "unreadable", "interrupt_setup"})
                         => PositionIn(file') >= PositionIn(file)
  <1>1. ASSUME CliInv, [CliNext]_allVars PROVE [Sound]_allVars
    <2>1. Moves
      BY <1>1, StepOne DEF CliInv
    <2>2. QED
      BY <1>1, <2>1, RecordedStep DEF CliInv, Recorded
  <1>2. QED
    BY <1>1, CliSafe, PTL DEF CliSpec, ProgressKeptOnceRecovered

(* When a run is over, all packets received are in the dump, and with them  *)
(* the one the state file names, but for one a run if its print fails or it *)
(* is interrupted, and those of a killed run or of a dump file that cannot  *)
(* be written (cli.py:860-872).                                             *)
THEOREM DumpKeepsUp == CliSpec => []DumpHoldsReceived
  <1>1. ASSUME CliInv PROVE DumpHoldsReceived
    <2>1. SUFFICES ASSUME pc = "off"
          PROVE  /\ Without({"kill", "dumpfails"}) => Len(received) <= Len(dump) + runs
                 /\ Without({"kill", "dumpfails", "printfails", "interrupt"}) =>
                        /\ dump = received
                        /\ PositionIn(file) # 0 =>
                               \E k \in DOMAIN dump : dump[k] = PositionIn(file)
      BY DEF DumpHoldsReceived
    <2>2. dumpbuf = <<>> /\ dump \in Seq(Nat) /\ runs \in Nat
      BY <1>1, <2>1 DEF CliInv, One, InStep, CliTypeOK, Reading
    <2>3. Written = dump
      BY <2>2, ConcatEmptySeq DEF Written
    <2>4. Without({"kill", "dumpfails"}) => Len(received) <= Len(dump) + runs
      BY <1>1, <2>1, <2>2, <2>3 DEF CliInv, Tally, Intact
    <2>5. Without({"kill", "dumpfails", "printfails", "interrupt"}) => dump = received
      BY <1>1, <2>1, <2>3 DEF CliInv, Whole
    <2>6. PositionIn(file) # 0 => In(PositionIn(file), received)
      BY <1>1 DEF CliInv, Known, Recorded
    <2>7. QED
      BY <2>4, <2>5, <2>6 DEF In
  <1>2. QED
    BY <1>1, CliSafe, PTL

(* The dump of all runs is in order, and without a gap if nothing struck.   *)
THEOREM DumpStaysInOrder == CliSpec => []DumpInOrder
  <1>1. ASSUME CliInv PROVE DumpInOrder
    <2>1. dump \in Seq(Nat) /\ dumpbuf \in Seq(Nat)
      BY <1>1 DEF CliInv, One, CliTypeOK
    <2>2. \A k \in 1..Len(dump) - 1 :
             /\ k \in 1..Len(Written) - 1
             /\ Written[k] = dump[k] /\ Written[k+1] = dump[k+1]
      <3>1. PICK c \in Nat, d \in Nat : c = Len(dump) /\ d = Len(dumpbuf)
        BY <2>1
      <3>2. Len(Written) = c + d /\ \A k \in 1..c : Written[k] = dump[k]
        BY <2>1, <3>1, ConcatProperties DEF Written
      <3>3. QED
        BY <3>1, <3>2
    <2>3. QED
      BY <1>1, <2>2 DEF DumpInOrder, CliInv, Ordered, Complete, Rising, Unbroken
  <1>2. QED
    BY <1>1, CliSafe, PTL
=============================================================================
