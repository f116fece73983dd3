---------------------------- MODULE AioTasksProofs ----------------------------
(***************************************************************************)
(* For every number of acts, cuts and bytes: the connections made never    *)
(* exceed those counted by MaxConns; however the tasks are interleaved,    *)
(* cancelled and closed under one another, the client holds the one        *)
(* transport that is open; and unless close() came between the arrival of  *)
(* bytes and main's next step, frames are whole and collect() never ends   *)
(* in an AttributeError.                                                   *)
(***************************************************************************)
EXTENDS AioTasks, TLAPS

Suspended == {"data", "closed", "event"}

Once(s) == \A j, k \in 1..Len(s) : s[j] = s[k] => j = k

(* A task is in the queue at most once, and only if it neither runs nor    *)
(* waits; one that has not begun does not wait.                            *)
QueueInv ==
    /\ Once(ready)
    /\ \A t \in Tasks : InSeq(t, ready) => wait[t] = "nothing" /\ t # running
    /\ running # Nobody => wait[running] = "nothing"
    /\ \A t \in {"other", "finalizer"} : pc[t] = "idle" => wait[t] = "nothing"

(* Where main cannot have been suspended, and what it waits for at a read. *)
MainInv ==
    /\ pc["main"] \in {"ensure", "loop"} => running = "main"
    /\ pc["main"] \in {"read", "reply"} =>
          wait["main"] \in {"data", "nothing"} /\ on["main"] \in 1..made
    /\ pc["main"] = "read" /\ wait["main"] = "nothing" =>
          running = "main" \/ InSeq("main", ready)

(* The connections there are.                                              *)
ConnInv ==
    /\ cur \in 0..made /\ OneConnection
    /\ eof \subseteq 1..made /\ lost \subseteq 1..made /\ lost \cap open = {}
    /\ pc["main"] \in {"connect", "opening"} => cur = 0
    /\ pc["main"] \in {"read", "reply"} => cur \in {0, on["main"]}
    /\ pc["main"] = "raised" => cur = 0 \/ cur \in eof

(* Bytes are read after they came; main is woken from a read by bytes or   *)
(* by the end of file, unless it is cancelled.                             *)
BytesInv ==
    /\ \A c \in Conns : taken[c] <= arrived[c]
    /\ pc["main"] = "reply" => taken[on["main"]] = 0
    /\ pc["main"] = "read" /\ wait["main"] = "data" =>
          arrived[on["main"]] = taken[on["main"]]
    /\ pc["main"] \in {"read", "reply"} /\ wait["main"] = "nothing" /\ ~cancelled =>
          HasSome(on["main"])

(* The connections still to be made without another act or cut: one for    *)
(* the connection that is gone or at its end, one for that which a         *)
(* finalizer will close.                                                   *)
One(b) == IF b THEN 1 ELSE 0

FinalizerDue == /\ pc["finalizer"] = "idle"
                /\ InSeq("finalizer", ready) \/ running = "finalizer"

Gone == cur = 0 \/ cur \in eof

Over == pc["main"] \in {"user", "done"}

Owed == IF Over THEN 0 ELSE One(FinalizerDue) + One(Gone)

CountInv == made + Owed <= 1 + 2 * acts + cuts

(* Main goes on with a connection: bytes it has been woken for are of the  *)
(* one it still has.                                                       *)
HeldInv ==
    ~intruded =>
    /\ pc["main"] = "loop" => cur # 0
    /\ pc["main"] = "read" /\ arrived[on["main"]] # taken[on["main"]] => cur = on["main"]

(* The buffer holds the last bytes read of the connection, and begins with *)
(* a frame ...                                                             *)
Buffered(c) ==
    /\ Len(buf) <= taken[c] /\ (taken[c] - Len(buf)) % FrameLen = 0
    /\ \A k \in 1..Len(buf) : buf[k] = [conn |-> c, n |-> taken[c] - Len(buf) + k]

(* ... whose header has been parsed once the rest of it is waited for.     *)
StreamInv ==
    ~intruded =>
    /\ IF cur = 0 THEN buf = <<>> ELSE Buffered(cur)
    /\ pc["main"] \in {"ensure", "loop", "read"} /\ need = FrameLen /\ cur # 0 =>
          Len(buf) > 0 /\ header = buf[1]

LoopInv == TypeOK /\ QueueInv /\ MainInv /\ ConnInv /\ BytesInv /\ CountInv

Inv == LoopInv /\ HeldInv /\ StreamInv /\ FramesWhole /\ NoCrashUnintruded

-----------------------------------------------------------------------------
(* Sequences of tasks.                                                     *)
LEMMA InConcat ==
    ASSUME NEW s \in Seq(Tasks), NEW r \in Seq(Tasks)
    PROVE  /\ s \o r \in Seq(Tasks)
           /\ \A t : InSeq(t, s \o r) <=> InSeq(t, s) \/ InSeq(t, r)
           /\ Once(s) /\ Once(r) /\ (\A t : ~(InSeq(t, s) /\ InSeq(t, r))) => Once(s \o r)
  <1>1. /\ s \o r \in Seq(Tasks) /\ Len(s \o r) = Len(s) + Len(r)
        /\ \A k \in 1..Len(s) + Len(r) :
              (s \o r)[k] = IF k <= Len(s) THEN s[k] ELSE r[k - Len(s)]
    OBVIOUS
  <1>2. ASSUME NEW t PROVE InSeq(t, s \o r) <=> InSeq(t, s) \/ InSeq(t, r)
    <2>1. ASSUME InSeq(t, s \o r) PROVE InSeq(t, s) \/ InSeq(t, r)
      <3>1. PICK k \in 1..Len(s) + Len(r) : (s \o r)[k] = t
        BY <2>1, <1>1 DEF InSeq
      <3>2. CASE k <= Len(s)
        BY <3>1, <3>2, <1>1 DEF InSeq
      <3>3. CASE k > Len(s)
        <4>1. k - Len(s) \in 1..Len(r) /\ r[k - Len(s)] = t
          BY <3>1, <3>3, <1>1
        <4>2. QED
          BY <4>1 DEF InSeq
      <3>4. QED
        BY <3>2, <3>3
    <2>2. ASSUME NEW k \in 1..Len(s), s[k] = t PROVE InSeq(t, s \o r)
      BY <2>2, <1>1 DEF InSeq
    <2>3. ASSUME NEW k \in 1..Len(r), r[k] = t PROVE InSeq(t, s \o r)
      <3>1. k + Len(s) \in 1..Len(s) + Len(r) /\ (s \o r)[k + Len(s)] = t
        BY <2>3, <1>1
      <3>2. QED
        BY <3>1, <1>1 DEF InSeq
    <2>4. QED
      BY <2>1, <2>2, <2>3 DEF InSeq
  <1>3. ASSUME Once(s), Once(r), \A t : ~(InSeq(t, s) /\ InSeq(t, r)),
               NEW j \in 1..Len(s \o r), NEW k \in 1..Len(s \o r),
               (s \o r)[j] = (s \o r)[k]
        PROVE  j = k
    <2>1. ASSUME NEW a \in 1..Len(s), NEW b \in 1..Len(r) PROVE s[a] # r[b]
      BY <1>3 DEF InSeq
    <2>2. CASE j <= Len(s) /\ k <= Len(s)
      BY <1>1, <1>3, <2>2 DEF Once
    <2>3. CASE j > Len(s) /\ k > Len(s)
      BY <1>1, <1>3, <2>3 DEF Once
    <2>4. CASE j <= Len(s) /\ k > Len(s)
      BY <1>1, <1>3, <2>1, <2>4
    <2>5. CASE j > Len(s) /\ k <= Len(s)
      BY <1>1, <1>3, <2>1, <2>5
    <2>6. QED
      BY <2>2, <2>3, <2>4, <2>5, <1>1
  <1>4. QED
    BY <1>1, <1>2, <1>3 DEF Once

(* Who waits for something of a connection.                                *)
LEMMA WaitingOK ==
    ASSUME NEW what, NEW c
    PROVE  /\ Waiting(what, c) \in Seq(Tasks) /\ Once(Waiting(what, c))
           /\ \A t : InSeq(t, Waiting(what, c)) <=>
                         t \in Tasks /\ wait[t] = what /\ on[t] = c
  <1>1. ASSUME NEW t \in Tasks
        PROVE  /\ Waits(t, what, c) \in Seq(Tasks) /\ Once(Waits(t, what, c))
               /\ \A u : InSeq(u, Waits(t, what, c)) <=> u = t /\ wait[t] = what /\ on[t] = c
    <2>1. CASE wait[t] = what /\ on[t] = c
      <3>1. Waits(t, what, c) = <<t>>
        BY <2>1 DEF Waits
      <3>2. QED
        BY <2>1, <3>1 DEF Once, InSeq
    <2>2. CASE ~(wait[t] = what /\ on[t] = c)
      <3>1. Waits(t, what, c) = <<>>
        BY <2>2 DEF Waits
      <3>2. QED
        BY <2>2, <3>1 DEF Once, InSeq
    <2>3. QED
      BY <2>1, <2>2
  <1> DEFINE m == Waits("main", what, c)
             o == Waits("other", what, c)
             f == Waits("finalizer", what, c)
  <1>2. "main" \in Tasks /\ "other" \in Tasks /\ "finalizer" \in Tasks
    BY DEF Tasks
  <1>3. /\ m \o o \in Seq(Tasks) /\ Once(m \o o)
        /\ \A u : InSeq(u, m \o o) <=> InSeq(u, m) \/ InSeq(u, o)
    <2>1. \A t : ~(InSeq(t, m) /\ InSeq(t, o))
      BY <1>1, <1>2
    <2>2. m \in Seq(Tasks) /\ o \in Seq(Tasks) /\ Once(m) /\ Once(o)
      BY <1>1, <1>2
    <2> HIDE DEF m, o
    <2>3. QED
      BY <2>1, <2>2, InConcat
  <1>4. /\ (m \o o) \o f \in Seq(Tasks) /\ Once((m \o o) \o f)
        /\ \A u : InSeq(u, (m \o o) \o f) <=> InSeq(u, m \o o) \/ InSeq(u, f)
    <2>1. \A t : ~(InSeq(t, m \o o) /\ InSeq(t, f))
      BY <1>1, <1>2, <1>3
    <2>2. f \in Seq(Tasks) /\ Once(f)
      BY <1>1, <1>2
    <2> HIDE DEF m, o, f
    <2>3. QED
      BY <2>1, <2>2, <1>3, InConcat
  <1>5. Waiting(what, c) = (m \o o) \o f
    BY DEF Waiting
  <1>6. ASSUME NEW t
        PROVE  InSeq(t, Waiting(what, c)) <=> t \in Tasks /\ wait[t] = what /\ on[t] = c
    <2>1. InSeq(t, Waiting(what, c)) <=> InSeq(t, m) \/ InSeq(t, o) \/ InSeq(t, f)
      BY <1>3, <1>4, <1>5
    <2>2. /\ InSeq(t, m) <=> t = "main" /\ wait["main"] = what /\ on["main"] = c
          /\ InSeq(t, o) <=> t = "other" /\ wait["other"] = what /\ on["other"] = c
          /\ InSeq(t, f) <=> t = "finalizer" /\ wait["finalizer"] = what /\ on["finalizer"] = c
      BY <1>1, <1>2
    <2> HIDE DEF m, o, f
    <2>3. QED
      BY <2>1, <2>2 DEF Tasks
  <1>7. QED
    BY <1>4, <1>5, <1>6

LEMMA AppendOK ==
    ASSUME NEW s \in Seq(Tasks), NEW t \in Tasks
    PROVE  /\ Append(s, t) \in Seq(Tasks)
           /\ \A u : InSeq(u, Append(s, t)) <=> InSeq(u, s) \/ u = t
           /\ Once(s) /\ ~InSeq(t, s) => Once(Append(s, t))
  <1>1. Append(s, t) = s \o <<t>> /\ <<t>> \in Seq(Tasks)
    OBVIOUS
  <1>2. Once(<<t>>) /\ \A u : InSeq(u, <<t>>) <=> u = t
    BY DEF Once, InSeq
  <1>3. QED
    BY ZenonT(60), <1>1, <1>2, InConcat

LEMMA HeadOK ==
    ASSUME NEW s \in Seq(Tasks), s # <<>>
    PROVE  /\ Head(s) \in Tasks /\ Tail(s) \in Seq(Tasks)
           /\ \A u : InSeq(u, s) <=> u = Head(s) \/ InSeq(u, Tail(s))
           /\ Once(s) => Once(Tail(s)) /\ ~InSeq(Head(s), Tail(s))
  <1>1. /\ Head(s) = s[1] /\ Len(s) \in Nat /\ Len(s) > 0 /\ Len(Tail(s)) = Len(s) - 1
        /\ Tail(s) \in Seq(Tasks) /\ \A k \in 1..Len(s) - 1 : Tail(s)[k] = s[k + 1]
        /\ Head(s) \in Tasks
    OBVIOUS
  <1>2. ASSUME NEW u, InSeq(u, s) PROVE u = Head(s) \/ InSeq(u, Tail(s))
    <2>1. PICK k \in 1..Len(s) : s[k] = u
      BY <1>2 DEF InSeq
    <2>2. CASE k # 1
      <3>1. k - 1 \in 1..Len(s) - 1 /\ Tail(s)[k - 1] = u
        BY <1>1, <2>1, <2>2
      <3>2. QED
        BY <1>1, <3>1 DEF InSeq
    <2>3. QED
      BY <1>1, <2>1, <2>2
  <1>3. ASSUME NEW u, u = Head(s) \/ InSeq(u, Tail(s)) PROVE InSeq(u, s)
    <2>1. CASE u = Head(s)
      <3>1. 1 \in 1..Len(s) /\ s[1] = u
        BY <1>1, <2>1
      <3>2. QED
        BY <3>1 DEF InSeq
    <2>2. CASE InSeq(u, Tail(s))
      <3>1. PICK k \in 1..Len(s) - 1 : Tail(s)[k] = u
        BY <1>1, <2>2 DEF InSeq
      <3>2. k + 1 \in 1..Len(s) /\ s[k + 1] = u
        BY <1>1, <3>1
      <3>3. QED
        BY <3>2 DEF InSeq
    <2>3. QED
      BY <1>3, <2>1, <2>2
  <1>4. ASSUME Once(s) PROVE Once(Tail(s)) /\ ~InSeq(Head(s), Tail(s))
    <2>1. ASSUME NEW j \in 1..Len(s) - 1, NEW k \in 1..Len(s) - 1, Tail(s)[j] = Tail(s)[k]
          PROVE  j = k
      <3>1. j + 1 \in 1..Len(s) /\ k + 1 \in 1..Len(s) /\ s[j + 1] = s[k + 1]
        BY <1>1, <2>1
      <3>2. j + 1 = k + 1
        BY <1>4, <3>1 DEF Once
      <3>3. QED
        BY <3>2
    <2>2. ASSUME NEW k \in 1..Len(s) - 1 PROVE Tail(s)[k] # Head(s)
      <3>1. k + 1 \in 1..Len(s) /\ 1 \in 1..Len(s) /\ s[k + 1] = Tail(s)[k]
        BY <1>1
      <3>2. QED
        BY <1>1, <1>4, <3>1 DEF Once
    <2>3. QED
      BY <1>1, <2>1, <2>2 DEF Once, InSeq
  <1>5. QED
    BY <1>1, <1>2, <1>3, <1>4

(* Tasks that are woken join the queue once, and wait no more.             *)
LEMMA WakeOK ==
    ASSUME TypeOK, QueueInv, NEW s \in Seq(Tasks), Once(s), Wake(s),
           \A t : InSeq(t, s) => t \in Tasks /\ wait[t] # "nothing"
    PROVE  /\ ready' \in Seq(Tasks) /\ Once(ready')
           /\ \A t : InSeq(t, ready') <=> InSeq(t, ready) \/ InSeq(t, s)
           /\ wait' \in [Tasks -> {"nothing"} \cup Suspended]
           /\ \A t \in Tasks : wait'[t] = IF InSeq(t, s) THEN "nothing" ELSE wait[t]
  <1>1. ready \in Seq(Tasks) /\ wait \in [Tasks -> {"nothing"} \cup Suspended]
    BY DEF TypeOK, Suspended
  <1>2. \A t : ~(InSeq(t, ready) /\ InSeq(t, s))
    BY DEF QueueInv
  <1>3. ready' = ready \o s /\ wait' = [t \in Tasks |-> IF InSeq(t, s) THEN "nothing" ELSE wait[t]]
    BY DEF Wake
  <1>4. QED
    BY <1>1, <1>2, <1>3, InConcat DEF QueueInv

(* What close() does, whoever calls it.                                    *)
LEMMA CloseThenOK ==
    ASSUME TypeOK, ConnInv, NEW t \in Tasks, NEW step, CloseThen(t, step)
    PROVE  /\ cur' = 0 /\ buf' = <<>> /\ open' = {}
           /\ pc' = [pc EXCEPT ![t] = step]
           /\ UNCHANGED <<made, eof, lost, arrived, taken, need, header, frame, ready>>
           /\ \/ UNCHANGED <<running, wait, on>>
              \/ /\ cur # 0 /\ running' = Nobody
                 /\ wait' = [wait EXCEPT ![t] = "closed"] /\ on' = [on EXCEPT ![t] = cur]
  BY DEF TypeOK, ConnInv, OneConnection, CloseThen, Clear, ResetBuffer, GoOn, WaitFor

LEMMA ConnsOK == MaxConns \in Nat /\ 1 \in Conns /\ 0 \notin Conns /\ Conns \subseteq Nat
  BY TasksAssumption DEF MaxConns, Conns

LEMMA OwedOK ==
    /\ One(TRUE) = 1 /\ One(FALSE) = 0
    /\ Owed \in 0..2
  BY DEF Owed, One, Over

LEMMA ChunkOK ==
    ASSUME TypeOK, BytesInv, NEW c \in Conns
    PROVE  /\ Chunk(c) \in Seq(Byte) /\ Len(Chunk(c)) = arrived[c] - taken[c]
           /\ \A k \in 1..Len(Chunk(c)) : Chunk(c)[k] = [conn |-> c, n |-> taken[c] + k]
           /\ Chunk(c) = <<>> <=> arrived[c] = taken[c]
  <1>1. arrived[c] \in 0..MaxBytes /\ taken[c] \in 0..MaxBytes /\ taken[c] <= arrived[c]
    BY DEF TypeOK, BytesInv
  <1> DEFINE n == arrived[c] - taken[c]
  <1>2. n \in Nat
    BY <1>1, TasksAssumption
  <1>3. \A k \in 1..n : [conn |-> c, n |-> taken[c] + k] \in Byte
    BY <1>1, TasksAssumption DEF Byte
  <1>4. Chunk(c) = [k \in 1..n |-> [conn |-> c, n |-> taken[c] + k]]
    BY DEF Chunk
  <1> HIDE DEF n
  <1>5. Chunk(c) \in Seq(Byte) /\ Len(Chunk(c)) = n
    BY <1>2, <1>3, <1>4
  <1>6. Chunk(c) = <<>> <=> n = 0
    BY <1>2, <1>5
  <1>7. n = 0 <=> arrived[c] = taken[c]
    BY <1>1, TasksAssumption DEF n
  <1>8. QED
    BY <1>4, <1>5, <1>6, <1>7 DEF n

-----------------------------------------------------------------------------
(* Each action in turn: the queue ...                                      *)
LEMMA QueueStep ==
    ASSUME TypeOK, QueueInv, ConnInv, Next
    PROVE  QueueInv'
  <1> USE DEF QueueInv
  <1>0. /\ ready \in Seq(Tasks) /\ running \in Tasks \cup {Nobody}
        /\ wait \in [Tasks -> {"nothing"} \cup Suspended] /\ pc \in [Tasks -> Steps]
    BY DEF TypeOK, Suspended
  <1>1. ASSUME NEW t \in Tasks, NEW step \in Steps, pc' = [pc EXCEPT ![t] = step],
               UNCHANGED <<ready, running, wait>>, running = t
        PROVE  QueueInv'
    BY <1>0, <1>1 DEF InSeq, Once, Tasks, Nobody
  <1>2. ASSUME NEW t \in Tasks, NEW step \in Steps \ {"idle"}, NEW what \in Suspended,
               running = t, running' = Nobody, UNCHANGED ready,
               pc' = [pc EXCEPT ![t] = step], wait' = [wait EXCEPT ![t] = what]
        PROVE  QueueInv'
    BY <1>0, <1>2 DEF InSeq, Once, Tasks, Nobody
  <1>3. ASSUME NEW t \in Tasks, NEW step \in Steps \ {"idle"}, CloseThen(t, step), running = t
        PROVE  QueueInv'
    <2>1. CASE UNCHANGED <<running, wait, on>>
      BY <1>1, <1>3, <2>1, CloseThenOK
    <2>2. CASE running' = Nobody /\ wait' = [wait EXCEPT ![t] = "closed"]
      BY <1>2, <1>3, <2>2, CloseThenOK DEF Suspended
    <2>3. QED
      BY <1>3, <2>1, <2>2, CloseThenOK
  <1>4. ASSUME NEW s \in Seq(Tasks), Once(s), Wake(s), running = Nobody, UNCHANGED running,
               \A t : InSeq(t, s) => t \in Tasks /\ wait[t] # "nothing",
               \A t \in {"other", "finalizer"} : pc'[t] = pc[t]
        PROVE  QueueInv'
    <2>1. /\ Once(ready') /\ \A t : InSeq(t, ready') <=> InSeq(t, ready) \/ InSeq(t, s)
          /\ \A t \in Tasks : wait'[t] = IF InSeq(t, s) THEN "nothing" ELSE wait[t]
      BY <1>4, WakeOK
    <2>2. Nobody \notin Tasks /\ {"other", "finalizer"} \subseteq Tasks
      BY DEF Nobody, Tasks
    <2>3. \A t \in Tasks : InSeq(t, ready)' <=> InSeq(t, ready) \/ InSeq(t, s)
      BY <2>1 DEF InSeq
    <2>4. Once(ready)'
      BY <2>1 DEF Once
    <2>5. \A t \in Tasks : InSeq(t, ready)' => wait'[t] = "nothing" /\ t # running'
      BY <1>4, <2>1, <2>2, <2>3
    <2>6. \A t \in {"other", "finalizer"} : pc'[t] = "idle" => wait'[t] = "nothing"
      BY <1>4, <2>1, <2>2
    <2>7. QED
      BY <1>4, <2>4, <2>5, <2>6
  <1>5. ASSUME NEW t \in Tasks, running # t, wait[t] = "nothing", ~InSeq(t, ready),
               UNCHANGED <<running, wait>>, ready' = Append(ready, t),
               \A u \in {"other", "finalizer"} : pc'[u] = pc[u]
        PROVE  QueueInv'
    <2>1. Once(ready') /\ \A u : InSeq(u, ready') <=> InSeq(u, ready) \/ u = t
      BY <1>0, <1>5, AppendOK
    <2>2. Once(ready)' /\ \A u : InSeq(u, ready)' <=> InSeq(u, ready) \/ u = t
      BY <2>1 DEF InSeq, Once
    <2>3. QED
      BY <1>5, <2>2
  <1>10. CASE Run
    <2>1. /\ Head(ready) \in Tasks /\ Once(Tail(ready))
          /\ \A u : InSeq(u, ready) <=> u = Head(ready) \/ InSeq(u, Tail(ready))
          /\ ~InSeq(Head(ready), Tail(ready))
      BY <1>0, <1>10, HeadOK DEF Run
    <2>2. Once(ready)' /\ \A u : InSeq(u, ready)' <=> InSeq(u, Tail(ready))
      BY <2>1, <1>10 DEF Run, InSeq, Once
    <2>3. running' = Head(ready) /\ UNCHANGED <<wait, pc>>
      BY <1>10 DEF Run
    <2>4. QED
      BY <2>1, <2>2, <2>3
  <1>11. CASE Top \/ Ensure \/ Fill \/ Caught \/ Reply \/ Refused \/ Recollect \/ Connect
              \/ Consume \/ Open
    <2>1. running = "main" /\ "main" \in Tasks
      BY <1>11 DEF Top, Ensure, Fill, Caught, Reply, Refused, Recollect, Connect, Consume,
           Open, Main, Tasks
    <2>2. ASSUME NEW step \in Steps, GoOn("main", step) PROVE QueueInv'
      BY <1>1, <2>1, <2>2 DEF GoOn
    <2>3. ASSUME NEW step \in Steps \ {"idle"}, NEW what \in Suspended, NEW c,
                 WaitFor("main", step, what, c)
          PROVE  QueueInv'
      BY <1>2, <2>1, <2>3 DEF WaitFor
    <2>4. CASE Ensure \/ Caught \/ Reply \/ Refused \/ Recollect
      BY <1>11, <2>2, <2>4 DEF Ensure, Caught, Reply, Refused, Recollect, Raise, Steps
    <2>5. CASE Connect \/ Open
      BY <2>3, <2>5 DEF Connect, Open, Steps, Suspended
    <2>6. CASE Top \/ Consume
      BY <2>2, <2>3, <2>6 DEF Top, Consume, Steps, Suspended
    <2>7. CASE Fill
      <3>1. CASE Parse
        BY <2>2, <3>1 DEF Parse, Steps
      <3>2. CASE GoOn("main", "user") \/ WaitFor("main", "read", "data", cur)
        BY <2>2, <2>3, <3>2 DEF Steps, Suspended
      <3>3. CASE pc' = [pc EXCEPT !["main"] = "read"] /\ UNCHANGED <<ready, running, wait>>
        BY <1>1, <2>1, <3>3 DEF Steps
      <3>4. QED
        BY <2>7, <3>1, <3>2, <3>3 DEF Fill, ReadMore
    <2>8. QED
      BY <1>11, <2>4, <2>5, <2>6, <2>7
  <1>12. CASE Read
    <2>1. running = "main" /\ "main" \in Tasks
      BY <1>12 DEF Read, Main, Tasks
    <2>2. CASE CloseThen("main", "raised")
      BY <1>3, <2>1, <2>2 DEF Steps
    <2>3. CASE GoOn("main", "loop")
      BY <1>1, <2>1, <2>3 DEF GoOn, Steps
    <2>4. QED
      BY <1>12, <2>2, <2>3 DEF Read, AtEof
  <1>13. CASE Raised \/ Reopen \/ Cancelled \/ Finalize \/ OtherCloses
    <2>1. ASSUME NEW t \in Tasks, running = t, NEW step \in {"caught", "connect", "user", "finish"},
                 CloseThen(t, step)
          PROVE  QueueInv'
      BY <1>3, <2>1 DEF Steps
    <2>2. QED
      BY <1>13, <2>1 DEF Raised, Reopen, Cancelled, Finalize, OtherCloses, Main, Tasks
  <1>14. CASE Break
    BY <1>5, <1>0, <1>14 DEF Break, Main, Finish, Tasks
  <1>15. CASE Leave
    BY <1>0, <1>15 DEF Leave, InSeq, Once, Tasks, Nobody
  <1>16. CASE OtherCancels
    <2>1. CASE InSeq("main", ready)
      BY <1>0, <1>16, <2>1 DEF OtherCancels, InSeq, Once, Tasks, Nobody
    <2>2. CASE ~InSeq("main", ready)
      <3>1. ready' = Append(ready, "main")
        BY <1>16, <2>2 DEF OtherCancels
      <3>2. PICK q, r : q \in Seq(Tasks) /\ q = ready /\ r = ready' /\ r = Append(q, "main")
        BY <1>0, <3>1
      <3>3. Once(r) /\ \A u : InSeq(u, r) <=> InSeq(u, q) \/ u = "main"
        BY <1>0, <2>2, <3>2, AppendOK DEF Tasks
      <3>4. Once(ready)' /\ \A u : InSeq(u, ready)' <=> InSeq(u, ready) \/ u = "main"
        BY <3>2, <3>3 DEF Once, InSeq
      <3>5. QED
        BY <1>0, <1>16, <3>4 DEF OtherCancels, Tasks, Nobody
    <2>3. QED
      BY <2>1, <2>2
  <1>17. CASE OtherNothing
    BY <1>1, <1>17 DEF OtherNothing, GoOn, Tasks, Steps
  <1>18. CASE Arrive \/ Cut
    <2>1. PICK c : Wake(Waiting("data", c))
      BY <1>18 DEF Arrive, Cut
    <2>2. QED
      BY <1>4, <1>18, <2>1, WaitingOK DEF Arrive, Cut
  <1>19. CASE Lost
    <2>1. PICK c : Wake(Waiting("data", c) \o Waiting("closed", c))
      BY <1>19 DEF Lost
    <2> DEFINE s == Waiting("data", c) \o Waiting("closed", c)
    <2>2. /\ s \in Seq(Tasks) /\ Once(s)
          /\ \A t : InSeq(t, s) => t \in Tasks /\ wait[t] # "nothing"
      BY WaitingOK, InConcat
    <2>3. Wake(s)
      BY <2>1
    <2> HIDE DEF s
    <2>4. QED
      BY <1>4, <1>19, <2>2, <2>3 DEF Lost
  <1>20. CASE Happens \/ PollTimeout
    <2>1. /\ <<"main">> \in Seq(Tasks) /\ Once(<<"main">>)
          /\ \A t : InSeq(t, <<"main">>) => t = "main"
      BY DEF Tasks, Once, InSeq
    <2>2. Wake(<<"main">>) /\ wait["main"] # "nothing" /\ running = Nobody /\ UNCHANGED running
      BY <1>20 DEF Happens, PollTimeout
    <2>3. \A t \in {"other", "finalizer"} : pc'[t] = pc[t]
      BY <1>0, <1>20 DEF Happens, PollTimeout, Tasks
    <2>4. QED
      BY <1>4, <2>1, <2>2, <2>3 DEF Tasks
  <1>21. CASE Due
    BY <1>5, <1>21 DEF Due, Tasks, Nobody
  <1>22. CASE Stop
    BY <1>0, <1>22 DEF Stop, Main, InSeq, Once, Tasks, Nobody
  <1>23. CASE Terminated
    BY <1>23 DEF Terminated, vars, loopVars, InSeq, Once
  <1>24. QED
    BY <1>10, <1>11, <1>12, <1>13, <1>14, <1>15, <1>16, <1>17, <1>18, <1>19, <1>20,
       <1>21, <1>22, <1>23 DEF Next, MainStep

(* ... main's place ...                                                    *)
LEMMA MainStepOK ==
    ASSUME TypeOK, QueueInv, MainInv, ConnInv, CountInv, Next
    PROVE  MainInv'
  <1>0. /\ pc \in [Tasks -> Steps] /\ wait \in [Tasks -> {"nothing"} \cup Suspended]
        /\ on \in [Tasks -> Conns \cup {0}] /\ ready \in Seq(Tasks)
        /\ made \in Nat /\ cur \in Nat /\ cur \in 0..made
        /\ "main" \in Tasks /\ "other" \in Tasks /\ "finalizer" \in Tasks
        /\ Nobody \notin Tasks
    BY ConnsOK DEF TypeOK, Suspended, Tasks, Nobody, ConnInv
  <1> USE DEF MainInv
  <1>1. ASSUME pc'["main"] \notin {"ensure", "loop", "read", "reply"} PROVE MainInv'
    BY <1>1
  <1>2. ASSUME UNCHANGED <<made, ready>>, pc'["main"] = pc["main"], wait'["main"] = wait["main"],
               on'["main"] = on["main"], running # "main"
        PROVE  MainInv'
    BY <1>2 DEF InSeq
  <1>3. ASSUME running = Nobody, UNCHANGED <<made, running>>, pc'["main"] = pc["main"],
               on'["main"] = on["main"], NEW s \in Seq(Tasks), Once(s), Wake(s),
               \A t : InSeq(t, s) => t \in Tasks /\ wait[t] # "nothing"
        PROVE  MainInv'
    <2>1. /\ \A t : InSeq(t, ready') <=> InSeq(t, ready) \/ InSeq(t, s)
          /\ wait'["main"] = IF InSeq("main", s) THEN "nothing" ELSE wait["main"]
      BY <1>0, <1>3, WakeOK
    <2>2. InSeq("main", ready)' <=> InSeq("main", ready) \/ InSeq("main", s)
      BY <2>1 DEF InSeq
    <2>3. QED
      BY <1>0, <1>3, <2>1, <2>2
  <1>10. CASE Run
    <2>1. \A u : InSeq(u, ready) <=> u = Head(ready) \/ InSeq(u, Tail(ready))
      BY <1>0, <1>10, HeadOK DEF Run
    <2>2. InSeq("main", ready) => running' = "main" \/ InSeq("main", ready)'
      BY <2>1, <1>10 DEF Run, InSeq
    <2>3. QED
      BY <1>0, <1>10, <2>2 DEF Run, connVars
  <1>11. CASE Top \/ Ensure \/ Caught \/ Refused \/ Recollect \/ Connect \/ Consume \/ Stop \/ Break
    <2>1. \/ pc'["main"] \in {"ensure", "loop"} /\ running' = "main"
          \/ pc'["main"] \notin {"ensure", "loop", "read", "reply"}
      BY <1>0, <1>11 DEF Top, Ensure, Caught, Refused, Recollect, Connect, Consume, Stop, Break,
         Main, Raise, GoOn, WaitFor
    <2>2. QED
      BY <2>1
  <1>12. CASE Fill
    <2>1. CASE Parse
      BY <1>0, <1>12, <2>1 DEF Fill, Main, Parse, GoOn
    <2>2. CASE ReadMore
      <3>1. CASE GoOn("main", "user")
        BY <1>0, <1>1, <3>1 DEF GoOn
      <3>2. CASE cur # 0 /\ pc' = [pc EXCEPT !["main"] = "read"] /\ on' = [on EXCEPT !["main"] = cur]
                 /\ UNCHANGED <<running, wait>>
        BY <1>0, <1>12, <2>2, <3>2 DEF Fill, Main, connVars, QueueInv, Parse, GoOn
      <3>3. CASE cur # 0 /\ WaitFor("main", "read", "data", cur)
        BY <1>0, <1>12, <3>3 DEF Fill, Main, WaitFor, connVars, Parse, GoOn
      <3>4. QED
        BY <2>2, <3>1, <3>2, <3>3 DEF ReadMore
    <2>3. QED
      BY <1>12, <2>1, <2>2 DEF Fill
  <1>13. CASE Read
    <2>1. CASE CloseThen("main", "raised")
      BY <1>0, <1>1, <2>1, CloseThenOK
    <2>2. CASE GoOn("main", "loop") /\ running = "main"
      BY <1>0, <2>2 DEF GoOn
    <2>3. QED
      BY <1>13, <2>1, <2>2 DEF Read, AtEof, Main
  <1>14. CASE Raised \/ Reopen \/ Cancelled
    <2>1. ASSUME NEW step \in {"caught", "connect", "user"}, CloseThen("main", step) PROVE MainInv'
      BY <1>0, <1>1, <2>1, CloseThenOK
    <2>2. QED
      BY <1>14, <2>1 DEF Raised, Reopen, Cancelled
  <1>15. CASE Open
    BY <1>0, <1>15 DEF Open, WaitFor
  <1>16. CASE Reply
    BY <1>0, <1>1, <1>16 DEF Reply, Raise, GoOn
  <1>17. CASE Finalize \/ OtherCloses
    <2>1. ASSUME NEW t \in {"finalizer", "other"}, running = t, CloseThen(t, "finish") PROVE MainInv'
      BY <1>0, <1>2, <2>1, CloseThenOK DEF Tasks
    <2>2. QED
      BY <1>17, <2>1 DEF Finalize, OtherCloses
  <1>18. CASE Leave \/ OtherNothing
    BY <1>0, <1>2, <1>18 DEF Leave, OtherNothing, GoOn, connVars
  <1>19. CASE OtherCancels
    <2>1. InSeq("main", ready)'
      BY <1>0, <1>19, AppendOK DEF OtherCancels, InSeq
    <2>2. QED
      BY <1>0, <1>19, <2>1 DEF OtherCancels, connVars
  <1>20. CASE Arrive \/ Cut
    <2>1. PICK c : Wake(Waiting("data", c))
      BY <1>20 DEF Arrive, Cut
    <2>2. running = Nobody /\ UNCHANGED <<made, running, pc, on>>
      BY <1>20 DEF Arrive, Cut
    <2>3. QED
      BY <1>3, <2>1, <2>2, WaitingOK
  <1>21. CASE Lost
    <2>1. PICK c : Wake(Waiting("data", c) \o Waiting("closed", c))
      BY <1>21 DEF Lost
    <2> DEFINE s == Waiting("data", c) \o Waiting("closed", c)
    <2>2. /\ s \in Seq(Tasks) /\ Once(s)
          /\ \A t : InSeq(t, s) => t \in Tasks /\ wait[t] # "nothing"
      BY WaitingOK, InConcat
    <2>3. Wake(s)
      BY <2>1
    <2>4. running = Nobody /\ UNCHANGED <<made, running, pc, on>>
      BY <1>21 DEF Lost
    <2> HIDE DEF s
    <2>5. QED
      BY <1>3, <2>2, <2>3, <2>4
  <1>22. CASE Happens
    <2>1. /\ <<"main">> \in Seq(Tasks) /\ Once(<<"main">>)
          /\ \A t : InSeq(t, <<"main">>) => t = "main"
      BY DEF Tasks, Once, InSeq
    <2>2. QED
      BY <1>0, <1>3, <1>22, <2>1 DEF Happens, connVars
  <1>23. CASE PollTimeout
    BY <1>0, <1>1, <1>23 DEF PollTimeout
  <1>24. CASE Due
    <2>1. InSeq("main", ready) => InSeq("main", ready)'
      BY <1>0, <1>24, AppendOK DEF Due, InSeq
    <2>2. QED
      BY <1>0, <1>24, <2>1 DEF Due, connVars
  <1>25. CASE Terminated
    BY <1>25 DEF Terminated, vars, loopVars, connVars, InSeq
  <1>26. QED
    BY <1>10, <1>11, <1>12, <1>13, <1>14, <1>15, <1>16, <1>17, <1>18, <1>19, <1>20,
       <1>21, <1>22, <1>23, <1>24, <1>25 DEF Next, MainStep

(* ... the connections ...                                                 *)
LEMMA ConnStep ==
    ASSUME TypeOK, QueueInv, MainInv, ConnInv, BytesInv, CountInv, Next
    PROVE  ConnInv' /\ made' \in Conns
  <1>0. /\ pc \in [Tasks -> Steps] /\ made \in Nat /\ cur \in 0..made
        /\ made \in Conns /\ Conns = 1..MaxConns /\ MaxConns \in Nat
        /\ on \in [Tasks -> Conns \cup {0}]
        /\ "main" \in Tasks /\ "other" \in Tasks /\ "finalizer" \in Tasks
    BY ConnsOK DEF TypeOK, Tasks, ConnInv, Conns
  <1> USE DEF ConnInv, OneConnection
  <1>1. ASSUME UNCHANGED <<cur, made, open>>, eof \subseteq eof', eof' \subseteq 1..made,
               lost' \subseteq 1..made, lost' \cap open = {},
               \/ pc'["main"] = pc["main"] /\ on'["main"] = on["main"]
               \/ pc'["main"] \notin {"connect", "opening", "read", "reply", "raised"}
        PROVE  ConnInv' /\ made' \in Conns
    BY <1>0, <1>1
  <1>2. ASSUME NEW t \in Tasks, NEW step \in Steps \ {"read", "reply"}, CloseThen(t, step)
        PROVE  ConnInv' /\ made' \in Conns
    <2>1. /\ cur' = 0 /\ open' = {} /\ pc' = [pc EXCEPT ![t] = step]
          /\ UNCHANGED <<made, eof, lost>>
          /\ t # "main" => on'["main"] = on["main"]
      BY <1>0, <1>2, CloseThenOK
    <2>2. QED
      BY <1>0, <1>2, <2>1
  <1>10. CASE Run \/ Due \/ Happens \/ Leave \/ OtherCancels \/ OtherNothing \/ Terminated
    BY <1>0, <1>1, <1>10 DEF Run, Due, Happens, Leave, OtherCancels, OtherNothing, Terminated,
       GoOn, vars, connVars, loopVars
  <1>11. CASE Recollect \/ Consume \/ Stop \/ Break \/ PollTimeout
    BY <1>0, <1>1, <1>11 DEF Recollect, Consume, Stop, Break, PollTimeout, GoOn, WaitFor, connVars
  <1>12. CASE Top
    BY <1>0, <1>12 DEF Top, GoOn, WaitFor, connVars
  <1>13. CASE Ensure \/ Caught \/ Refused \/ Connect
    BY <1>0, <1>13 DEF Ensure, Caught, Refused, Connect, Main, Raise, GoOn, WaitFor, connVars
  <1>14. CASE Fill
    BY <1>0, <1>14 DEF Fill, Main, Parse, ReadMore, GoOn, WaitFor, connVars
  <1>15. CASE Read
    <2>1. CASE AtEof
      BY <1>2, <2>1, <1>0 DEF AtEof, Steps
    <2>2. CASE ~AtEof
      BY <1>0, <1>1, <1>15, <2>2 DEF Read, GoOn
    <2>3. QED
      BY <2>1, <2>2
  <1>16. CASE Raised \/ Reopen \/ Cancelled \/ Finalize \/ OtherCloses
    <2>1. ASSUME NEW t \in Tasks, NEW step \in {"caught", "connect", "user", "finish"},
                 CloseThen(t, step)
          PROVE  ConnInv' /\ made' \in Conns
      BY <1>2, <2>1 DEF Steps
    <2>2. QED
      BY <1>0, <1>16, <2>1 DEF Raised, Reopen, Cancelled, Finalize, OtherCloses
  <1>17. CASE Open
    <2>1. cur = 0 /\ pc["main"] = "opening"
      BY <1>17 DEF Open, Main
    <2>2. Owed >= 1
      BY <2>1 DEF Owed, One, Over, Gone
    <2>3. made + 1 <= MaxConns
      BY <1>0, <2>2, OwedOK, TasksAssumption DEF CountInv, MaxConns, TypeOK
    <2>4. QED
      BY <1>0, <1>17, <2>1, <2>3 DEF Open, Opened, WaitFor
  <1>18. CASE Reply
    <2>1. /\ UNCHANGED <<cur, made, open, lost, eof>> /\ on' = on
          /\ pc'["main"] \in {"top", "raised"} /\ on["main"] \in 1..made
      BY <1>0, <1>18 DEF Reply, Raise, GoOn, Main, connVars, MainInv
    <2>2. CASE pc'["main"] = "raised"
      <3>1. cur # on["main"] \/ Chunk(on["main"]) = <<>>
        BY <1>0, <1>18, <2>2 DEF Reply, GoOn
      <3>2. CASE cur = on["main"]
        <4>1. ~cancelled /\ wait["main"] = "nothing" /\ pc["main"] = "reply"
          BY <1>18 DEF Reply, Main, QueueInv, Nobody
        <4>2. arrived[on["main"]] = taken[on["main"]]
          BY <1>0, <2>1, <3>1, <3>2, ChunkOK
        <4>3. on["main"] \in eof
          BY <1>0, <2>1, <4>1, <4>2 DEF BytesInv, HasSome, TypeOK
        <4>4. QED
          BY <1>0, <2>1, <2>2, <3>2, <4>3
      <3>3. CASE cur = 0
        BY <1>0, <2>1, <2>2, <3>3
      <3>4. QED
        BY <1>18, <3>2, <3>3 DEF Reply, Main
    <2>3. CASE pc'["main"] = "top"
      BY <1>0, <1>1, <2>1, <2>3
    <2>4. QED
      BY <2>1, <2>2, <2>3
  <1>19. CASE Arrive
    BY <1>1, <1>19 DEF Arrive
  <1>20. CASE Cut \/ Lost
    <2>1. PICK c \in 1..made : eof' = eof \cup {c} /\ lost' \in {lost, lost \cup {c}}
                               /\ (lost' # lost => c \notin open)
      BY <1>0, <1>20 DEF Cut, Lost
    <2>2. UNCHANGED <<cur, made, open, pc, on>>
      BY <1>20 DEF Cut, Lost
    <2>3. QED
      BY <1>0, <1>1, <2>1, <2>2
  <1>21. QED
    BY <1>10, <1>11, <1>12, <1>13, <1>14, <1>15, <1>16, <1>17, <1>18, <1>19, <1>20
       DEF Next, MainStep

(* ... the bytes ...                                                       *)
LEMMA BytesStep ==
    ASSUME TypeOK, QueueInv, MainInv, ConnInv, BytesInv, CountInv, Next
    PROVE  BytesInv'
  <1>0. /\ pc \in [Tasks -> Steps] /\ wait \in [Tasks -> {"nothing"} \cup Suspended]
        /\ on \in [Tasks -> Conns \cup {0}] /\ made \in Conns
        /\ arrived \in [Conns -> 0..MaxBytes] /\ taken \in [Conns -> 0..MaxBytes]
        /\ cur \in 0..made /\ 1..made \subseteq Conns
        /\ "main" \in Tasks /\ "other" \in Tasks /\ "finalizer" \in Tasks
        /\ MaxBytes \in Nat
    BY ConnsOK, TasksAssumption DEF TypeOK, Suspended, Tasks, ConnInv, Conns
  <1> USE DEF BytesInv, HasSome
  <1>1. ASSUME pc'["main"] \notin {"read", "reply"}, UNCHANGED <<arrived, taken>>
        PROVE  BytesInv'
    BY <1>1
  <1>2. ASSUME UNCHANGED <<arrived, taken, eof>>, pc'["main"] = pc["main"],
               wait'["main"] = wait["main"], on'["main"] = on["main"],
               cancelled' = cancelled
        PROVE  BytesInv'
    BY <1>0, <1>2
  <1>10. CASE Run \/ Due \/ Terminated
    BY <1>2, <1>10 DEF Run, Due, Terminated, vars, connVars, loopVars, progVars
  <1>11. CASE Leave \/ OtherNothing
    BY <1>0, <1>2, <1>11 DEF Leave, OtherNothing, GoOn, connVars, loopVars, progVars
  <1>12. CASE Finalize \/ OtherCloses
    <2>1. ASSUME NEW t \in {"finalizer", "other"}, CloseThen(t, "finish"), cancelled' = cancelled
          PROVE  BytesInv'
      BY <1>0, <1>2, <2>1, CloseThenOK
    <2>2. QED
      BY <1>12, <2>1 DEF Finalize, OtherCloses
  <1>13. CASE Raised \/ Reopen \/ Cancelled
    <2>1. ASSUME NEW step \in {"caught", "connect", "user"}, CloseThen("main", step)
          PROVE  BytesInv'
      BY <1>0, <1>1, <2>1, CloseThenOK
    <2>2. QED
      BY <1>13, <2>1 DEF Raised, Reopen, Cancelled
  <1>14. CASE Top \/ Ensure \/ Caught \/ Refused \/ Recollect \/ Connect \/ Consume \/ Stop \/ Break
              \/ PollTimeout
    BY <1>0, <1>1, <1>14 DEF Top, Ensure, Caught, Refused, Recollect, Connect, Consume, Stop, Break,
       PollTimeout, Raise, GoOn, WaitFor, connVars
  <1>15. CASE Fill
    <2>1. CASE Parse
      BY <1>0, <1>1, <1>15, <2>1 DEF Fill, Parse, GoOn, connVars, ReadMore, WaitFor
    <2>2. CASE GoOn("main", "user") /\ UNCHANGED connVars
      BY <1>0, <1>1, <2>2 DEF GoOn, connVars
    <2>3. CASE /\ cur # 0 /\ HasSome(cur) /\ UNCHANGED <<connVars, wait, progVars>>
               /\ pc' = [pc EXCEPT !["main"] = "read"] /\ on' = [on EXCEPT !["main"] = cur]
      <3>1. wait["main"] = "nothing"
        BY <1>15 DEF Fill, Main, QueueInv, Nobody
      <3>2. QED
        BY <1>0, <2>3, <3>1 DEF connVars
    <2>4. CASE /\ cur # 0 /\ ~HasSome(cur) /\ UNCHANGED <<connVars, progVars>>
               /\ WaitFor("main", "read", "data", cur)
      BY <1>0, <2>4 DEF connVars, WaitFor
    <2>5. QED
      BY <1>15, <2>1, <2>2, <2>3, <2>4 DEF Fill, ReadMore
  <1>16. CASE Read
    <2>1. CASE AtEof
      BY <1>0, <1>1, <2>1, CloseThenOK DEF AtEof
    <2>2. CASE ~AtEof
      <3>1. /\ pc' = [pc EXCEPT !["main"] = "loop"]
            /\ taken' = [taken EXCEPT ![on["main"]] = arrived[on["main"]]]
            /\ UNCHANGED arrived
        BY <1>16, <2>2 DEF Read, GoOn
      <3>2. QED
        BY <1>0, <3>1
    <2>3. QED
      BY <2>1, <2>2
  <1>17. CASE Open
    BY <1>0, <1>17, ConnStep DEF Open, WaitFor
  <1>18. CASE Reply
    <2>1. CASE Raise
      BY <1>0, <1>1, <2>1 DEF Raise, GoOn, connVars
    <2>2. CASE ~Raise
      <3>1. /\ pc' = [pc EXCEPT !["main"] = "top"] /\ UNCHANGED taken
            /\ arrived' = [arrived EXCEPT ![on["main"]] = 0]
            /\ taken[on["main"]] = 0
        BY <1>18, <2>2 DEF Reply, Main, GoOn
      <3>2. QED
        BY <1>0, <3>1
    <2>3. QED
      BY <2>1, <2>2
  <1>19. CASE OtherCancels
    BY <1>0, <1>19 DEF OtherCancels, connVars
  <1>20. CASE Arrive
    <2>1. PICK c \in open \ eof : /\ arrived' = [arrived EXCEPT ![c] = @ + 1]
                                  /\ Wake(Waiting("data", c))
      BY <1>20 DEF Arrive
    <2>2. c \in Conns /\ arrived'[c] = arrived[c] + 1
          /\ \A d \in Conns : d # c => arrived'[d] = arrived[d]
      BY <1>0, <2>1 DEF TypeOK
    <2>3. wait'["main"] = IF wait["main"] = "data" /\ on["main"] = c THEN "nothing" ELSE wait["main"]
      BY <1>0, <2>1, WaitingOK, WakeOK
    <2>4. UNCHANGED <<taken, eof, pc, on, cancelled>>
      BY <1>20 DEF Arrive, progVars
    <2>5. pc["main"] \in {"read", "reply"} => on["main"] \in Conns
      BY <1>0 DEF MainInv
    <2>6. QED
      BY <1>0, <2>2, <2>3, <2>4, <2>5
  <1>21. CASE Cut
    <2>1. PICK c \in open \ eof : eof' = eof \cup {c} /\ Wake(Waiting("data", c))
      BY <1>21 DEF Cut
    <2>2. wait'["main"] = IF wait["main"] = "data" /\ on["main"] = c THEN "nothing" ELSE wait["main"]
      BY <1>0, <2>1, WaitingOK, WakeOK
    <2>3. UNCHANGED <<arrived, taken, pc, on, cancelled>>
      BY <1>21 DEF Cut
    <2>4. QED
      BY <1>0, <2>1, <2>2, <2>3 DEF MainInv
  <1>22. CASE Lost
    <2>1. PICK c : eof' = eof \cup {c} /\ Wake(Waiting("data", c) \o Waiting("closed", c))
      BY <1>22 DEF Lost
    <2> DEFINE s == Waiting("data", c) \o Waiting("closed", c)
    <2>2. /\ s \in Seq(Tasks) /\ Once(s)
          /\ \A t : InSeq(t, s) <=> t \in Tasks /\ wait[t] \in {"data", "closed"} /\ on[t] = c
      BY WaitingOK, InConcat
    <2>3. Wake(s)
      BY <2>1
    <2>4. UNCHANGED <<arrived, taken, pc, on, cancelled>>
      BY <1>22 DEF Lost, progVars
    <2> HIDE DEF s
    <2>5. wait'["main"] = IF wait["main"] \in {"data", "closed"} /\ on["main"] = c THEN "nothing"
                         ELSE wait["main"]
      BY <1>0, <2>2, <2>3, WakeOK
    <2>6. QED
      BY <1>0, <2>1, <2>4, <2>5 DEF MainInv
  <1>23. CASE Happens
    <2>1. wait["main"] = "event" /\ UNCHANGED <<arrived, taken, pc, on>>
      BY <1>23 DEF Happens, connVars
    <2>2. QED
      BY <1>1, <2>1 DEF MainInv
  <1>24. QED
    BY <1>10, <1>11, <1>12, <1>13, <1>14, <1>15, <1>16, <1>17, <1>18, <1>19, <1>20,
       <1>21, <1>22, <1>23 DEF Next, MainStep

(* ... the types ...                                                       *)
LEMMA TypeStep ==
    ASSUME TypeOK, QueueInv, MainInv, ConnInv, BytesInv, CountInv, Next
    PROVE  TypeOK'
  <1>0. /\ pc \in [Tasks -> Steps] /\ wait \in [Tasks -> {"nothing"} \cup Suspended]
        /\ on \in [Tasks -> Conns \cup {0}] /\ made \in Conns /\ made \in Nat
        /\ arrived \in [Conns -> 0..MaxBytes] /\ taken \in [Conns -> 0..MaxBytes]
        /\ cur \in Conns \cup {0} /\ 1..made \subseteq Conns /\ 0 \notin Conns
        /\ ready \in Seq(Tasks) /\ running \in Tasks \cup {Nobody}
        /\ "main" \in Tasks /\ "other" \in Tasks /\ "finalizer" \in Tasks
        /\ MaxBytes \in Nat /\ MaxActs \in Nat /\ MaxCuts \in Nat
        /\ buf \in Seq(Byte) /\ Len(buf) \in Nat
    <2>1. made \in Conns /\ made \in Nat /\ 1..made \subseteq Conns /\ 0 \notin Conns
      BY ConnsOK DEF TypeOK, Conns
    <2>2. /\ MaxBytes \in Nat /\ MaxActs \in Nat /\ MaxCuts \in Nat
          /\ "main" \in Tasks /\ "other" \in Tasks /\ "finalizer" \in Tasks
      BY TasksAssumption DEF Tasks
    <2>3. QED
      BY <2>1, <2>2, SMTT(30) DEF TypeOK, Suspended
  <1> DEFINE ConnT == cur' \in Conns \cup {0} /\ made' \in Conns /\ open' \subseteq Conns
                      /\ eof' \subseteq Conns /\ lost' \subseteq Conns
             CountT == arrived' \in [Conns -> 0..MaxBytes] /\ taken' \in [Conns -> 0..MaxBytes]
             DataT == /\ buf' \in Seq(Byte) /\ need' \in 1..FrameLen
                      /\ header' \in Byte \cup {None}
                      /\ frame'.header \in Byte \cup {None} /\ frame'.bytes \in Seq(Byte)
             LoopT == /\ ready' \in Seq(Tasks) /\ running' \in Tasks \cup {Nobody}
                      /\ pc' \in [Tasks -> Steps]
                      /\ wait' \in [Tasks -> {"nothing"} \cup Suspended]
                      /\ on' \in [Tasks -> Conns \cup {0}]
                      /\ \A t \in Tasks : wait'[t] \in {"data", "closed"} => on'[t] \in Conns
             ProgT == /\ {reconnect', inside', cancelled', intruded'} \subseteq BOOLEAN
                      /\ acts' \in 0..MaxActs /\ cuts' \in 0..MaxCuts
  <1>1. ConnT
    BY <1>0, ConnStep, ConnsOK DEF ConnInv, OneConnection, Conns
  <1>2. CountT
    <2>1. CASE UNCHANGED <<arrived, taken>>
      BY <1>0, <2>1
    <2>2. CASE Read
      <3>1. on["main"] \in Conns
        BY <1>0, <2>2 DEF Read, Main, MainInv
      <3>2. UNCHANGED arrived /\ (UNCHANGED taken \/ taken' = [taken EXCEPT ![on["main"]] = arrived[on["main"]]])
        BY <1>0, <2>2, CloseThenOK DEF Read, AtEof
      <3>3. QED
        BY <1>0, <3>1, <3>2
    <2>3. CASE Open
      BY <1>0, <2>3 DEF Open
    <2>4. CASE Reply
      <3>1. UNCHANGED taken /\ (UNCHANGED arrived \/ arrived' = [arrived EXCEPT ![on["main"]] = 0])
        BY <2>4 DEF Reply, Raise, connVars
      <3>2. CASE arrived' = [arrived EXCEPT ![on["main"]] = 0]
        <4>1. arrived' \in [Conns -> 0..MaxBytes]
          <5>1. 0 \in 0..MaxBytes
            BY <1>0
          <5>2. DOMAIN arrived' = Conns /\ \A c \in Conns : arrived'[c] \in {arrived[c], 0}
            BY <1>0, <3>2
          <5>3. QED
            BY <1>0, <3>2, <5>1, <5>2
        <4>2. QED
          BY <1>0, <3>1, <4>1
      <3>3. QED
        BY <1>0, <3>1, <3>2
    <2>5. CASE Arrive
      <3>1. PICK c \in Conns : arrived[c] < MaxBytes /\ arrived' = [arrived EXCEPT ![c] = @ + 1]
        BY <2>5 DEF Arrive, TypeOK
      <3>2. arrived[c] + 1 \in 0..MaxBytes
        BY <1>0, <3>1
      <3>3. arrived' \in [Conns -> 0..MaxBytes]
        BY <1>0, <3>1, <3>2
      <3>4. QED
        BY <1>0, <2>5, <3>3 DEF Arrive
    <2>6. CASE Raised \/ Reopen \/ Cancelled \/ Finalize \/ OtherCloses
      BY <1>0, <2>1, <2>6, CloseThenOK DEF Raised, Reopen, Cancelled, Finalize, OtherCloses
    <2>7. CASE Run \/ Due \/ Terminated \/ Leave \/ OtherNothing \/ OtherCancels \/ Cut \/ Lost
               \/ Happens \/ PollTimeout
      <3>1. UNCHANGED <<arrived, taken>>
        BY <2>7 DEF Run, Due, Terminated, Leave, OtherNothing, OtherCancels, Cut, Lost,
           Happens, PollTimeout, connVars, vars
      <3>2. QED
        BY <2>1, <3>1
    <2>8. CASE Top \/ Ensure \/ Fill \/ Caught \/ Refused \/ Recollect \/ Connect \/ Consume
               \/ Stop \/ Break
      <3>1. UNCHANGED <<arrived, taken>>
        BY <2>8 DEF Top, Ensure, Fill, Caught, Refused, Recollect, Connect, Consume, Stop,
           Break, Raise, connVars
      <3>2. QED
        BY <2>1, <3>1
    <2>9. QED
      BY <2>2, <2>3, <2>4, <2>5, <2>6, <2>7, <2>8 DEF Next, MainStep
  <1>3. DataT
    <2>0. DEFINE Kept == UNCHANGED <<buf, need, header, frame>>
    <2>1. CASE Kept
      BY <2>1 DEF TypeOK
    <2>2. CASE buf' = <<>> /\ UNCHANGED <<need, header, frame>>
      BY <2>2 DEF TypeOK
    <2>3. CASE Raised \/ Reopen \/ Cancelled \/ Finalize \/ OtherCloses
      BY <1>0, <2>2, <2>3, CloseThenOK DEF Raised, Reopen, Cancelled, Finalize, OtherCloses
    <2>4. CASE Run \/ Due \/ Terminated \/ Leave \/ OtherNothing \/ OtherCancels \/ Cut \/ Lost
               \/ Happens \/ PollTimeout \/ Arrive
      BY <2>1, <2>4 DEF Run, Due, Terminated, Leave, OtherNothing, OtherCancels, Cut, Lost,
         Happens, PollTimeout, Arrive, dataVars, vars
    <2>5. CASE Ensure \/ Caught \/ Refused \/ Recollect \/ Connect \/ Stop \/ Reply
      BY <2>1, <2>5 DEF Ensure, Caught, Refused, Recollect, Connect, Stop, Reply, Raise, dataVars
    <2>6. CASE Top \/ Open
      <3>1. buf' \in {buf, <<>>} /\ need' \in {need, 1} /\ header' \in {header, None} /\ frame' = frame
        BY <2>6 DEF Top, Open, Opened, ResetBuffer, dataVars
      <3>2. buf' \in Seq(Byte) /\ need' \in 1..FrameLen
        <4>1. <<>> \in Seq(Byte) /\ 1 \in 1..FrameLen /\ need \in 1..FrameLen
          BY DEF TypeOK, FrameLen
        <4>2. QED
          BY <1>0, <3>1, <4>1
      <3>3. QED
        BY <3>1, <3>2 DEF TypeOK
    <2>7. CASE Consume \/ Break
      <3>1. NoFrame.header = None /\ NoFrame.bytes \in Seq(Byte)
        BY DEF NoFrame
      <3>2. QED
        BY <2>7, <3>1 DEF Consume, Break, dataVars, TypeOK
    <2>8. CASE Read
      <3>1. CASE AtEof
        BY <1>0, <2>2, <3>1, CloseThenOK DEF AtEof
      <3>2. CASE ~AtEof
        <4>1. buf' = buf \o Chunk(on["main"]) /\ UNCHANGED <<need, header, frame>>
              /\ on["main"] \in Conns
          BY <1>0, <2>8, <3>2 DEF Read, Main, MainInv
        <4>2. Chunk(on["main"]) \in Seq(Byte)
          BY <4>1, ChunkOK
        <4>3. buf' \in Seq(Byte)
          BY <1>0, <4>1, <4>2
        <4>4. QED
          BY <4>1, <4>3 DEF TypeOK
      <3>3. QED
        BY <3>1, <3>2
    <2>9. CASE Fill
      <3>1. CASE Len(buf) >= need
        <4>1. need \in 1..3 /\ FrameLen = 3
          BY DEF TypeOK, FrameLen
        <4>2. Head(buf) \in Byte /\ SubSeq(buf, 1, need) \in Seq(Byte)
              /\ SubSeq(buf, need + 1, Len(buf)) \in Seq(Byte)
          BY <1>0, <3>1, <4>1
        <4>3. Parse
          BY <2>9, <3>1 DEF Fill
        <4>4. /\ need' \in {need, 2, FrameLen} /\ buf' \in {buf, SubSeq(buf, FrameLen + 1, Len(buf))}
              /\ buf' # buf => need = FrameLen
              /\ header' \in {header, None, Head(buf)}
              /\ \/ frame' = frame
                 \/ need = FrameLen /\ frame' = [header |-> header, bytes |-> SubSeq(buf, 1, FrameLen)]
          BY <4>3 DEF Parse
        <4>5. header \in Byte \cup {None} /\ frame.header \in Byte \cup {None} /\ frame.bytes \in Seq(Byte)
          BY DEF TypeOK
        <4>6. need' \in 1..FrameLen /\ header' \in Byte \cup {None}
          BY <4>1, <4>2, <4>4, <4>5
        <4>7. buf' \in Seq(Byte)
          BY <1>0, <4>2, <4>4
        <4>8. frame'.header \in Byte \cup {None} /\ frame'.bytes \in Seq(Byte)
          <5>1. CASE frame' = frame
            BY <4>5, <5>1
          <5>2. CASE /\ need = FrameLen
                     /\ frame' = [header |-> header, bytes |-> SubSeq(buf, 1, FrameLen)]
            <6>1. SubSeq(buf, 1, FrameLen) \in Seq(Byte)
              BY <4>2, <5>2
            <6>2. frame'.header = header /\ frame'.bytes = SubSeq(buf, 1, FrameLen)
              BY <5>2
            <6>3. QED
              BY <4>5, <6>1, <6>2
          <5>3. QED
            BY <4>4, <5>1, <5>2
        <4>9. QED
          BY <4>6, <4>7, <4>8
      <3>2. CASE ~(Len(buf) >= need)
        BY <2>1, <2>9, <3>2 DEF Fill, dataVars
      <3>3. QED
        BY <3>1, <3>2
    <2>10. QED
      BY <2>3, <2>4, <2>5, <2>6, <2>7, <2>8, <2>9 DEF Next, MainStep
  <1>4. LoopT
    <2>0. \A t \in Tasks : wait[t] \in {"data", "closed"} => on[t] \in Conns
      BY DEF TypeOK
    <2>1. ASSUME NEW t \in Tasks, NEW step \in Steps, GoOn(t, step) PROVE LoopT
      BY <1>0, <2>0, <2>1 DEF GoOn
    <2>2. ASSUME NEW t \in Tasks, NEW step \in Steps, NEW what \in Suspended,
                 NEW c \in Conns \cup {0}, what # "event" => c \in Conns,
                 WaitFor(t, step, what, c)
          PROVE  LoopT
      BY <1>0, <2>0, <2>2 DEF WaitFor, Suspended
    <2>3. ASSUME NEW t \in Tasks, NEW step \in Steps, CloseThen(t, step) PROVE LoopT
      <3>1. CASE cur = 0 \/ cur \in lost
        BY <2>1, <2>3, <3>1 DEF CloseThen
      <3>2. CASE ~(cur = 0 \/ cur \in lost)
        BY <1>0, <2>2, <2>3, <3>2 DEF CloseThen, Suspended
      <3>3. QED
        BY <3>1, <3>2
    <2>4. ASSUME NEW s \in Seq(Tasks), Once(s), Wake(s), UNCHANGED <<running, on>>,
                 pc' \in [Tasks -> Steps],
                 \A t : InSeq(t, s) => t \in Tasks /\ wait[t] # "nothing"
          PROVE  LoopT
      BY <1>0, <2>0, <2>4, WakeOK
    <2>5. CASE Raised \/ Reopen \/ Cancelled \/ Finalize \/ OtherCloses
      <3>1. {"caught", "connect", "user", "finish"} \subseteq Steps
        BY DEF Steps
      <3>2. \E t \in Tasks, step \in {"caught", "connect", "user", "finish"} : CloseThen(t, step)
        BY <1>0, <2>5 DEF Raised, Reopen, Cancelled, Finalize, OtherCloses
      <3>3. QED
        BY <2>3, <3>1, <3>2
    <2>6. CASE Ensure \/ Caught \/ Refused \/ Recollect \/ Reply \/ OtherNothing
      BY <1>0, <2>1, <2>6 DEF Ensure, Caught, Refused, Recollect, Reply, OtherNothing, Raise, Steps
    <2>7. CASE Top \/ Connect \/ Consume
      BY <1>0, <2>1, <2>2, <2>7 DEF Top, Connect, Consume, Steps, Suspended
    <2>8. CASE Open
      <3>1. made + 1 \in Conns
        BY <2>8, ConnStep DEF Open
      <3>2. QED
        BY <1>0, <2>2, <2>8, <3>1, SMTT(30) DEF Open, Steps, Suspended
    <2>9. CASE Fill
      <3>1. CASE Parse
        BY <1>0, <2>1, <3>1 DEF Parse, Steps
      <3>2. CASE ReadMore
        <4>1. CASE GoOn("main", "user")
          BY <1>0, <2>1, <4>1 DEF Steps
        <4>2. CASE cur # 0 /\ WaitFor("main", "read", "data", cur)
          BY <1>0, <2>2, <4>2 DEF Steps, Suspended
        <4>3. CASE /\ cur # 0 /\ UNCHANGED <<ready, running, wait>>
                   /\ pc' = [pc EXCEPT !["main"] = "read"] /\ on' = [on EXCEPT !["main"] = cur]
          BY <1>0, <2>0, <4>3 DEF Steps
        <4>4. QED
          BY <3>2, <4>1, <4>2, <4>3 DEF ReadMore
      <3>3. QED
        BY <2>9, <3>1, <3>2 DEF Fill
    <2>10. CASE Read
      BY <1>0, <2>1, <2>3, <2>10 DEF Read, AtEof, Steps
    <2>11. CASE Run
      BY <1>0, <2>0, <2>11, HeadOK DEF Run
    <2>12. CASE Break \/ Due
      <3>1. PICK t \in Tasks : ready' = Append(ready, t)
        BY <1>0, <2>12 DEF Break, Due
      <3>2. ready' \in Seq(Tasks)
        BY <1>0, <3>1, AppendOK
      <3>3. pc' \in [Tasks -> Steps] /\ UNCHANGED <<running, wait, on>>
        BY <1>0, <2>12 DEF Break, Due, Steps
      <3>4. QED
        BY <1>0, <2>0, <3>2, <3>3
    <2>13. CASE Leave \/ Stop \/ Terminated
      <3>1. CASE Leave
        <4>1. running \in Tasks /\ wait[running] = "nothing"
          BY <1>0, <3>1 DEF Leave, QueueInv, Tasks, Nobody
        <4>2. QED
          BY <1>0, <2>0, <3>1, <4>1 DEF Leave, Steps
      <3>2. CASE Stop \/ Terminated
        <4>1. pc' \in [Tasks -> Steps] /\ UNCHANGED <<ready, wait, on>> /\ running' \in {running, Nobody}
          BY <1>0, <3>2 DEF Stop, Terminated, Steps, vars, loopVars
        <4>2. QED
          BY <1>0, <2>0, <4>1
      <3>3. QED
        BY <2>13, <3>1, <3>2
    <2>14. CASE OtherCancels
      <3>1. ready' \in Seq(Tasks)
        BY <1>0, <2>14, AppendOK DEF OtherCancels
      <3>2. /\ pc' \in [Tasks -> Steps] /\ UNCHANGED <<running, on>>
            /\ wait' = [wait EXCEPT !["main"] = "nothing"]
        BY <1>0, <2>14 DEF OtherCancels, Steps
      <3>3. QED
        BY <1>0, <2>0, <3>1, <3>2
    <2>15. CASE Arrive \/ Cut
      <3>1. PICK c : Wake(Waiting("data", c))
        BY <2>15 DEF Arrive, Cut
      <3>2. UNCHANGED <<running, pc, on>>
        BY <2>15 DEF Arrive, Cut
      <3> DEFINE s == Waiting("data", c)
      <3>3. /\ s \in Seq(Tasks) /\ Once(s)
            /\ \A t : InSeq(t, s) => t \in Tasks /\ wait[t] # "nothing"
        BY WaitingOK
      <3>4. Wake(s)
        BY <3>1
      <3> HIDE DEF s
      <3>5. QED
        BY <1>0, <2>4, <3>2, <3>3, <3>4
    <2>16. CASE Lost
      <3>1. PICK c : Wake(Waiting("data", c) \o Waiting("closed", c))
        BY <2>16 DEF Lost
      <3> DEFINE s == Waiting("data", c) \o Waiting("closed", c)
      <3>2. /\ s \in Seq(Tasks) /\ Once(s)
            /\ \A t : InSeq(t, s) => t \in Tasks /\ wait[t] # "nothing"
        BY WaitingOK, InConcat
      <3>3. Wake(s)
        BY <3>1
      <3>4. UNCHANGED <<running, pc, on>>
        BY <2>16 DEF Lost
      <3> HIDE DEF s
      <3>5. QED
        BY <1>0, <2>4, <3>2, <3>3, <3>4
    <2>17. CASE Happens \/ PollTimeout
      <3>1. /\ <<"main">> \in Seq(Tasks) /\ Once(<<"main">>)
            /\ \A t : InSeq(t, <<"main">>) => t = "main"
        BY DEF Tasks, Once, InSeq
      <3>2. Wake(<<"main">>) /\ wait["main"] # "nothing" /\ UNCHANGED <<running, on>>
            /\ pc' \in [Tasks -> Steps]
        BY <1>0, <2>17 DEF Happens, PollTimeout, Steps
      <3>3. QED
        BY <1>0, <2>4, <3>1, <3>2
    <2>18. QED
      BY <2>5, <2>6, <2>7, <2>8, <2>9, <2>10, <2>11, <2>12, <2>13, <2>14, <2>15, <2>16, <2>17
         DEF Next, MainStep
  <1>5. ProgT
    <2>0. /\ {reconnect, inside, cancelled, intruded} \subseteq BOOLEAN
          /\ acts \in 0..MaxActs /\ cuts \in 0..MaxCuts
      BY DEF TypeOK
    <2>1. CASE UNCHANGED progVars
      BY <2>0, <2>1 DEF progVars
    <2>2. CASE Read \/ Raised \/ Open \/ Ensure \/ Top \/ Caught \/ Fill \/ Consume \/ Connect
               \/ Break \/ Reply
      BY <2>0, <2>1, <2>2 DEF Read, AtEof, Raised, Open, Ensure, Top, Caught, Fill, Raise, Consume,
         ReadMore, Connect, Break, Reply, Finish, progVars
    <2>3. CASE Refused \/ Recollect \/ Reopen \/ Cut \/ OtherCancels \/ OtherNothing \/ Cancelled
      <3>1. /\ acts' \in {acts, acts + 1} /\ (acts' # acts => acts < MaxActs)
            /\ cuts' \in {cuts, cuts + 1} /\ (cuts' # cuts => cuts < MaxCuts)
        BY <2>3 DEF Refused, Recollect, Reopen, Cut, OtherCancels, OtherNothing, Cancelled, Act
      <3>2. /\ reconnect' = reconnect /\ inside' \in {inside, TRUE, FALSE}
            /\ cancelled' \in {cancelled, TRUE, FALSE} /\ intruded' = intruded
        BY <2>3 DEF Refused, Recollect, Reopen, Cut, OtherCancels, OtherNothing, Cancelled
      <3>3. acts' \in 0..MaxActs /\ cuts' \in 0..MaxCuts
        BY <1>0, <2>0, <3>1
      <3>4. QED
        BY <2>0, <3>2, <3>3
    <2>6. CASE Finalize \/ OtherCloses
      <3>1. intruded' \in BOOLEAN
        BY <2>6 DEF Finalize, OtherCloses, Intrude
      <3>2. /\ UNCHANGED <<reconnect, inside, cancelled, cuts>>
            /\ acts' \in {acts, acts + 1} /\ (acts' # acts => acts < MaxActs)
        BY <2>6 DEF Finalize, OtherCloses, Act
      <3>3. acts' \in 0..MaxActs
        BY <1>0, <2>0, <3>2
      <3>4. QED
        BY <2>0, <3>1, <3>2, <3>3
    <2>4. CASE Run \/ Leave \/ Stop \/ Arrive \/ Lost \/ Happens \/ PollTimeout \/ Due \/ Terminated
      BY <2>1, <2>4 DEF Run, Leave, Stop, Arrive, Lost, Happens, PollTimeout, Due, Terminated, vars
    <2>7. QED
      BY <2>2, <2>3, <2>4, <2>6 DEF Next, MainStep
  <1>6. QED
    BY <1>1, <1>2, <1>3, <1>4, <1>5 DEF TypeOK, Suspended

(* ... the connections owed ...                                            *)
LEMMA OwedLess ==
    ASSUME CountInv, TypeOK, made \in Nat,
           made' = made, acts' = acts, cuts' = cuts, Over => Over',
           FinalizerDue' => FinalizerDue \/ Over', Gone' => Gone \/ Over'
    PROVE  CountInv'
  <1>1. Owed \in Nat /\ Owed' \in Nat /\ Owed' <= Owed
    BY DEF Owed, One
  <1>2. acts \in Nat /\ cuts \in Nat
    BY TasksAssumption DEF TypeOK
  <1>3. made + Owed <= 1 + 2 * acts + cuts
    BY DEF CountInv
  <1>4. made' + Owed' <= 1 + 2 * acts' + cuts'
    <2>1. PICK o \in Nat, o2 \in Nat : o = Owed /\ o2 = Owed'
      BY <1>1
    <2>2. made + o <= 1 + 2 * acts + cuts /\ o2 <= o
      BY <1>1, <1>3, <2>1
    <2>3. made + o2 <= 1 + 2 * acts' + cuts'
      BY <1>2, <2>2
    <2>4. QED
      BY <2>1, <2>3
  <1>5. QED
    BY <1>4 DEF CountInv

LEMMA OwedByAct ==
    ASSUME CountInv, TypeOK, made \in Nat, made' = made, acts' = acts + 1, cuts' = cuts
    PROVE  CountInv'
  <1>1. Owed \in Nat /\ Owed' \in 0..2
    BY DEF Owed, One
  <1>2. acts \in Nat /\ cuts \in Nat
    BY TasksAssumption DEF TypeOK
  <1>3. made + Owed <= 1 + 2 * acts + cuts
    BY DEF CountInv
  <1>4. made' + Owed' <= 1 + 2 * acts' + cuts'
    <2>1. PICK o \in Nat, o2 \in Nat : o = Owed /\ o2 = Owed'
      BY <1>1
    <2>2. made + o <= 1 + 2 * acts + cuts /\ o2 \in 0..2
      BY <1>1, <1>3, <2>1
    <2>3. made + o2 <= 1 + 2 * acts' + cuts'
      BY <1>2, <2>2
    <2>4. QED
      BY <2>1, <2>3
  <1>5. QED
    BY <1>4 DEF CountInv

LEMMA OwedByCut ==
    ASSUME CountInv, TypeOK, made \in Nat, made' = made, acts' = acts, cuts' = cuts + 1,
           Over => Over', FinalizerDue' => FinalizerDue
    PROVE  CountInv'
  <1>1. Owed \in Nat /\ Owed' \in Nat /\ Owed' <= Owed + 1
    BY DEF Owed, One
  <1>2. acts \in Nat /\ cuts \in Nat
    BY TasksAssumption DEF TypeOK
  <1>3. made + Owed <= 1 + 2 * acts + cuts
    BY DEF CountInv
  <1>4. made' + Owed' <= 1 + 2 * acts' + cuts'
    <2>1. PICK o \in Nat, o2 \in Nat : o = Owed /\ o2 = Owed'
      BY <1>1
    <2>2. made + o <= 1 + 2 * acts + cuts /\ o2 <= o + 1
      BY <1>1, <1>3, <2>1
    <2>3. made + o2 <= 1 + 2 * acts' + cuts'
      BY <1>2, <2>2
    <2>4. QED
      BY <2>1, <2>3
  <1>5. QED
    BY <1>4 DEF CountInv

LEMMA CountStep ==
    ASSUME TypeOK, QueueInv, MainInv, ConnInv, BytesInv, CountInv, Next
    PROVE  CountInv'
  <1>0. /\ pc \in [Tasks -> Steps] /\ wait \in [Tasks -> {"nothing"} \cup Suspended]
        /\ ready \in Seq(Tasks) /\ running \in Tasks \cup {Nobody} /\ Nobody \notin Tasks
        /\ made \in Nat /\ made \in Conns
        /\ "main" \in Tasks /\ "other" \in Tasks /\ "finalizer" \in Tasks
    BY ConnsOK DEF TypeOK, Suspended, Tasks, Nobody
  <1>1. ASSUME UNCHANGED <<made, acts, cuts, ready>>, running' \in {running, Nobody},
               pc'["finalizer"] = pc["finalizer"], Over => Over', Gone' => Gone \/ Over'
        PROVE  CountInv'
    <2>1. FinalizerDue' => FinalizerDue
      BY <1>0, <1>1 DEF FinalizerDue, InSeq
    <2>2. QED
      BY <1>0, <1>1, <2>1, OwedLess
  <1>2. ASSUME UNCHANGED <<made, acts, running, pc>>, UNCHANGED cuts \/ cuts' = cuts + 1,
               cuts' = cuts => (Gone' => Gone),
               NEW s \in Seq(Tasks), Once(s), Wake(s),
               \A t : InSeq(t, s) => t \in Tasks /\ wait[t] # "nothing"
        PROVE  CountInv'
    <2>1. \A t : InSeq(t, ready') <=> InSeq(t, ready) \/ InSeq(t, s)
      BY <1>2, WakeOK
    <2>2. InSeq("finalizer", ready)' => InSeq("finalizer", ready) \/ wait["finalizer"] # "nothing"
      BY <1>2, <2>1 DEF InSeq
    <2>3. FinalizerDue' => FinalizerDue
      BY <1>2, <2>2 DEF FinalizerDue, QueueInv
    <2>4. Over' <=> Over
      BY <1>2 DEF Over
    <2>5. QED
      BY <1>0, <1>2, <2>3, <2>4, OwedLess, OwedByCut
  <1>3. ASSUME NEW t \in Tasks, NEW step \in Steps, CloseThen(t, step)
        PROVE  /\ made' = made /\ ready' = ready /\ running' \in {running, Nobody}
               /\ pc' = [pc EXCEPT ![t] = step]
    BY <1>0, <1>3, CloseThenOK
  <1>10. CASE Run
    <2>1. \A u : InSeq(u, ready) <=> u = Head(ready) \/ InSeq(u, Tail(ready))
      BY <1>0, <1>10, HeadOK DEF Run
    <2>2. FinalizerDue' => FinalizerDue
      BY <2>1, <1>10 DEF Run, FinalizerDue, InSeq
    <2>3. (Over' <=> Over) /\ (Gone' <=> Gone) /\ UNCHANGED <<made, acts, cuts>>
      BY <1>10 DEF Run, Over, Gone, connVars, progVars
    <2>4. QED
      BY <1>0, <2>2, <2>3, OwedLess
  <1>11. CASE Top \/ Ensure \/ Caught \/ Connect \/ Consume \/ Stop \/ Reply
    <2>1. UNCHANGED <<made, acts, cuts, ready, cur, eof>> /\ running' \in {running, Nobody}
      BY <1>11 DEF Top, Ensure, Caught, Connect, Consume, Stop, Reply, Raise, Finish, GoOn, WaitFor,
         connVars, progVars
    <2>2. pc'["finalizer"] = pc["finalizer"] /\ (Over => Over')
      BY <1>0, <1>11 DEF Top, Ensure, Caught, Connect, Consume, Stop, Reply, Raise, GoOn, WaitFor, Main, Over
    <2>3. QED
      BY <1>1, <2>1, <2>2 DEF Gone
  <1>12. CASE Fill
    <2>1. UNCHANGED <<made, acts, cuts, ready, cur, eof>> /\ running' \in {running, Nobody}
      BY <1>12 DEF Fill, Parse, ReadMore, Finish, GoOn, WaitFor, connVars, progVars
    <2>2. pc'["finalizer"] = pc["finalizer"] /\ (Over => Over')
      BY <1>0, <1>12 DEF Fill, Parse, ReadMore, GoOn, WaitFor, Main, Over
    <2>3. QED
      BY <1>1, <2>1, <2>2 DEF Gone
  <1>13. CASE Read
    <2>1. pc["main"] = "read" /\ ~cancelled /\ wait["main"] = "nothing" /\ on["main"] \in Conns
          /\ ~Over
      BY <1>0, <1>13 DEF Read, Main, QueueInv, Nobody, MainInv, Over, TypeOK
    <2>2. CASE Chunk(on["main"]) = <<>>
      <3>1. on["main"] \in eof
        BY <2>1, <2>2, ChunkOK DEF BytesInv, HasSome, TypeOK
      <3>2. Gone
        BY <2>1, <3>1 DEF ConnInv, Gone
      <3>3. CloseThen("main", "raised") /\ UNCHANGED progVars
        BY <1>13, <2>2 DEF Read, AtEof
      <3>4. pc'["finalizer"] = pc["finalizer"]
        BY <1>0, <1>3, <3>3 DEF Steps
      <3>5. QED
        BY <1>0, <1>1, <1>3, <2>1, <3>2, <3>3, <3>4 DEF Steps, progVars
    <2>3. CASE Chunk(on["main"]) # <<>>
      BY <1>0, <1>1, <1>13, <2>1, <2>3 DEF Read, GoOn, Gone, progVars
    <2>4. QED
      BY <2>2, <2>3
  <1>14. CASE Raised
    <2>1. CloseThen("main", "caught") /\ UNCHANGED progVars /\ pc["main"] = "raised"
      BY <1>14 DEF Raised, Main
    <2>2. Gone /\ ~Over
      BY <2>1 DEF ConnInv, Gone, Over
    <2>3. pc'["finalizer"] = pc["finalizer"]
      BY <1>0, <1>3, <2>1 DEF Steps
    <2>4. QED
      BY <1>0, <1>1, <1>3, <2>1, <2>2, <2>3 DEF Steps, progVars
  <1>15. CASE Cancelled
    <2>1. CloseThen("main", "user") /\ UNCHANGED <<acts, cuts>>
      BY <1>15 DEF Cancelled
    <2>2. pc'["finalizer"] = pc["finalizer"] /\ Over'
      BY <1>0, <1>3, <2>1 DEF Steps, Over
    <2>3. QED
      BY <1>0, <1>1, <1>3, <2>1, <2>2 DEF Steps
  <1>16. CASE Refused
    <2>1. /\ UNCHANGED <<made, acts, ready, running>> /\ cuts' = cuts + 1
          /\ pc' = [pc EXCEPT !["main"] = "raised"] /\ pc["main"] = "opening"
      BY <1>16 DEF Refused, GoOn, Main, connVars
    <2>2. FinalizerDue' => FinalizerDue
      BY <1>0, <2>1 DEF FinalizerDue, InSeq
    <2>3. QED
      BY <1>0, <2>1, <2>2, OwedByCut DEF Over
  <1>17. CASE Open
    <2>1. /\ cur = 0 /\ pc["main"] = "opening" /\ cur' = made + 1 /\ made' = made + 1 /\ eof' = eof
          /\ UNCHANGED <<acts, cuts, ready>> /\ running' = Nobody
          /\ pc' = [pc EXCEPT !["main"] = "reply"]
      BY <1>17 DEF Open, Opened, Main, WaitFor, progVars, ConnInv
    <2>2. FinalizerDue' => FinalizerDue
      BY <1>0, <2>1 DEF FinalizerDue, InSeq
    <2>3. ~Gone' /\ Gone /\ ~Over
      BY <1>0, <2>1 DEF ConnInv, Gone, Over
    <2>4. Owed' + 1 <= Owed /\ Owed' \in Nat /\ Owed \in Nat
      BY <2>2, <2>3 DEF Owed, One
    <2>5. acts \in Nat /\ cuts \in Nat
      BY TasksAssumption DEF TypeOK
    <2>6. made + Owed <= 1 + 2 * acts + cuts
      BY DEF CountInv
    <2>7. made' + Owed' <= 1 + 2 * acts' + cuts'
      <3>1. PICK o \in Nat, o2 \in Nat : o = Owed /\ o2 = Owed'
        BY <2>4
      <3>2. made + o <= 1 + 2 * acts + cuts /\ o2 + 1 <= o
        BY <2>4, <2>6, <3>1
      <3>3. made' + o2 <= 1 + 2 * acts + cuts
        BY <1>0, <2>1, <2>5, <3>2
      <3>4. QED
        BY <2>1, <3>1, <3>3
    <2>8. QED
      BY <2>7 DEF CountInv
  <1>18. CASE Break
    <2>1. Over' /\ UNCHANGED <<made, acts, cuts>>
      BY <1>0, <1>18 DEF Break, Over, Finish, connVars
    <2>2. QED
      BY <1>0, <2>1, OwedLess
  <1>19. CASE Recollect
    BY <1>0, <1>19, OwedByAct DEF Recollect, Act, connVars
  <1>20. CASE Reopen \/ OtherCloses
    <2>1. made' = made /\ acts' = acts + 1 /\ cuts' = cuts
      BY <1>0, <1>3, <1>20 DEF Reopen, OtherCloses, Act, Steps
    <2>2. QED
      BY <1>0, <2>1, OwedByAct
  <1>21. CASE OtherCancels
    BY <1>0, <1>21, OwedByAct DEF OtherCancels, Act, connVars
  <1>22. CASE OtherNothing
    <2>1. CASE acts' = acts + 1
      BY <1>0, <1>22, <2>1, OwedByAct DEF OtherNothing, connVars
    <2>2. CASE acts' = acts
      BY <1>0, <1>1, <1>22, <2>2 DEF OtherNothing, GoOn, connVars, Over, Gone
    <2>3. QED
      BY <1>22, <2>1, <2>2 DEF OtherNothing
  <1>23. CASE Finalize
    <2>1. /\ running = "finalizer" /\ pc["finalizer"] = "idle" /\ UNCHANGED <<acts, cuts>>
          /\ CloseThen("finalizer", "finish")
      BY <1>23 DEF Finalize
    <2>2. made' = made /\ pc' = [pc EXCEPT !["finalizer"] = "finish"]
      BY <1>0, <1>3, <2>1 DEF Steps
    <2>3. FinalizerDue /\ ~FinalizerDue' /\ (Over' <=> Over)
      BY <1>0, <2>1, <2>2 DEF FinalizerDue, Over
    <2>4. Owed' <= Owed /\ Owed' \in Nat /\ Owed \in Nat
      BY <2>3 DEF Owed, One
    <2>5. acts \in Nat /\ cuts \in Nat
      BY TasksAssumption DEF TypeOK
    <2>6. made + Owed <= 1 + 2 * acts + cuts
      BY DEF CountInv
    <2>7. made' + Owed' <= 1 + 2 * acts' + cuts'
      <3>1. PICK o \in Nat, o2 \in Nat : o = Owed /\ o2 = Owed'
        BY <2>4
      <3>2. made + o <= 1 + 2 * acts + cuts /\ o2 <= o
        BY <2>4, <2>6, <3>1
      <3>3. made' + o2 <= 1 + 2 * acts + cuts
        BY <1>0, <2>2, <2>5, <3>2
      <3>4. QED
        BY <2>1, <3>1, <3>3
    <2>8. QED
      BY <2>7 DEF CountInv
  <1>24. CASE Leave
    <2>1. /\ UNCHANGED <<made, acts, cuts, cur, eof, ready>> /\ running' = Nobody
          /\ pc' = [pc EXCEPT ![running] = "idle"] /\ running \in {"other", "finalizer"}
      BY <1>24 DEF Leave, connVars, progVars
    <2>2. ~InSeq(running, ready)
      BY <1>0, <2>1 DEF QueueInv
    <2>3. FinalizerDue' => FinalizerDue
      BY <1>0, <2>1, <2>2 DEF FinalizerDue, InSeq
    <2>4. QED
      BY <1>0, <2>1, <2>3, OwedLess DEF Over, Gone
  <1>25. CASE Arrive \/ Cut
    <2>1. PICK c : Wake(Waiting("data", c))
      BY <1>25 DEF Arrive, Cut
    <2>2. /\ UNCHANGED <<made, acts, running, pc, cur>>
          /\ (cuts' = cuts /\ eof' = eof) \/ cuts' = cuts + 1
      BY <1>25 DEF Arrive, Cut, progVars
    <2>3. cuts' = cuts => (Gone' => Gone)
      <3>1. cuts \in Nat
        BY TasksAssumption DEF TypeOK
      <3>2. QED
        BY <2>2, <3>1 DEF Gone
    <2> DEFINE s == Waiting("data", c)
    <2>4. /\ s \in Seq(Tasks) /\ Once(s) /\ Wake(s)
          /\ \A t : InSeq(t, s) => t \in Tasks /\ wait[t] # "nothing"
      BY <2>1, WaitingOK
    <2> HIDE DEF s
    <2>5. QED
      BY <1>2, <2>2, <2>3, <2>4
  <1>26. CASE Lost
    <2>1. PICK c \in 1..made : /\ Wake(Waiting("data", c) \o Waiting("closed", c))
                               /\ eof' = eof \cup {c} /\ c \notin open
      BY <1>26 DEF Lost
    <2> DEFINE s == Waiting("data", c) \o Waiting("closed", c)
    <2>2. /\ s \in Seq(Tasks) /\ Once(s)
          /\ \A t : InSeq(t, s) => t \in Tasks /\ wait[t] # "nothing"
      BY WaitingOK, InConcat
    <2>3. Wake(s)
      BY <2>1
    <2>4. UNCHANGED <<made, acts, cuts, running, pc, cur>>
      BY <1>26 DEF Lost, progVars
    <2>5. Gone' => Gone
      BY <2>1, <2>4 DEF Gone, ConnInv, OneConnection
    <2> HIDE DEF s
    <2>6. QED
      BY <1>2, <2>2, <2>3, <2>4, <2>5
  <1>27. CASE Happens
    <2>1. /\ <<"main">> \in Seq(Tasks) /\ Once(<<"main">>)
          /\ \A t : InSeq(t, <<"main">>) => t = "main"
      BY DEF Tasks, Once, InSeq
    <2>2. QED
      BY <1>0, <1>2, <1>27, <2>1 DEF Happens, connVars, progVars, Gone
  <1>28. CASE PollTimeout
    <2>1. /\ <<"main">> \in Seq(Tasks) /\ Once(<<"main">>)
          /\ \A t : InSeq(t, <<"main">>) <=> t = "main"
      BY DEF Tasks, Once, InSeq
    <2>2. \A t : InSeq(t, ready') <=> InSeq(t, ready) \/ InSeq(t, <<"main">>)
      BY <1>0, <1>28, <2>1, WakeOK DEF PollTimeout
    <2>3. /\ UNCHANGED <<made, acts, cuts, running, cur, eof>>
          /\ pc' = [pc EXCEPT !["main"] = "top"] /\ pc["main"] = "read"
      BY <1>28 DEF PollTimeout, connVars, progVars
    <2>4. FinalizerDue' => FinalizerDue
      BY <1>0, <2>1, <2>2, <2>3 DEF FinalizerDue, InSeq
    <2>5. QED
      BY <1>0, <2>3, <2>4, OwedLess DEF Over, Gone
  <1>29. CASE Due
    <2>1. ready' = Append(ready, "other") /\ UNCHANGED <<made, acts, cuts, running, pc, cur, eof>>
      BY <1>29 DEF Due, connVars, progVars
    <2>2. \A t : InSeq(t, ready') <=> InSeq(t, ready) \/ t = "other"
      BY <1>0, <2>1, AppendOK
    <2>3. FinalizerDue' => FinalizerDue
      BY <2>1, <2>2 DEF FinalizerDue, InSeq
    <2>4. QED
      BY <1>0, <2>1, <2>3, OwedLess DEF Over, Gone
  <1>30. CASE Terminated
    BY <1>0, <1>1, <1>30 DEF Terminated, vars, connVars, loopVars, progVars, Over, Gone
  <1>31. QED
    BY <1>10, <1>11, <1>12, <1>13, <1>14, <1>15, <1>16, <1>17, <1>18, <1>19, <1>20, <1>21,
       <1>22, <1>23, <1>24, <1>25, <1>26, <1>27, <1>28, <1>29, <1>30 DEF Next, MainStep

-----------------------------------------------------------------------------
(* What a step leaves of main and of what main reads.                      *)
(* close() called by another task: it intrudes if main has bytes.          *)
LEMMA IntrusionOK ==
    ASSUME LoopInv, NEW t \in {"other", "finalizer"}, running = t, CloseThen(t, "finish"), Intrude
    PROVE  /\ pc'["main"] = pc["main"] /\ on'["main"] = on["main"]
           /\ UNCHANGED <<arrived, taken, need, header, frame>> /\ cur' = 0 /\ buf' = <<>>
           /\ intruded => intruded'
           /\ pc["main"] = "read" /\ arrived[on["main"]] # taken[on["main"]] => intruded'
           /\ pc["main"] # "loop" /\ pc["main"] # "ensure"
  <1>0. /\ "main" \in Tasks /\ t \in Tasks /\ t # "main" /\ t # Nobody
        /\ pc \in [Tasks -> Steps] /\ on \in [Tasks -> Conns \cup {0}]
    BY DEF LoopInv, TypeOK, Tasks, Nobody
  <1>1. /\ pc' = [pc EXCEPT ![t] = "finish"] /\ cur' = 0 /\ buf' = <<>>
        /\ UNCHANGED <<arrived, taken, need, header, frame>>
        /\ on' = on \/ on' = [on EXCEPT ![t] = cur]
    BY <1>0, CloseThenOK DEF LoopInv
  <1>2. intruded => intruded'
    BY DEF Intrude
  <1>3. ASSUME pc["main"] = "read", arrived[on["main"]] # taken[on["main"]]
        PROVE  intruded'
    <2>1. wait["main"] = "nothing" /\ InSeq("main", ready) /\ on["main"] \in 1..made
      BY <1>0, <1>3 DEF LoopInv, BytesInv, MainInv
    <2>2. on["main"] \in Conns
      BY <2>1, ConnsOK DEF LoopInv, TypeOK, Conns
    <2>3. Chunk(on["main"]) # <<>>
      BY <1>3, <2>2, ChunkOK DEF LoopInv
    <2>4. MainHasBytes
      BY <1>3, <2>1, <2>3 DEF MainHasBytes
    <2>5. QED
      BY <2>4 DEF Intrude
  <1>4. pc["main"] # "loop" /\ pc["main"] # "ensure"
    BY <1>0 DEF LoopInv, MainInv
  <1>5. QED
    BY <1>0, <1>1, <1>2, <1>3, <1>4

(* Main's own close().                                                     *)
LEMMA MainClosesOK ==
    ASSUME LoopInv, NEW step \in Steps, CloseThen("main", step)
    PROVE  /\ pc'["main"] = step /\ cur' = 0 /\ buf' = <<>>
           /\ UNCHANGED <<arrived, taken, need, header, frame>>
  BY CloseThenOK DEF LoopInv, TypeOK, Tasks

LEMMA HeldStep ==
    ASSUME LoopInv, HeldInv, Next
    PROVE  HeldInv'
  <1>0. /\ pc \in [Tasks -> Steps] /\ on \in [Tasks -> Conns \cup {0}]
        /\ "main" \in Tasks /\ "other" \in Tasks /\ "finalizer" \in Tasks
        /\ arrived \in [Conns -> 0..MaxBytes] /\ taken \in [Conns -> 0..MaxBytes]
        /\ pc["main"] = "read" => on["main"] \in Conns /\ on["main"] # 0
        /\ 0 \notin Conns
    <2>1. 1..made \subseteq Conns /\ 0 \notin Conns
      BY ConnsOK DEF LoopInv, TypeOK, Conns
    <2>2. QED
      BY <2>1 DEF LoopInv, TypeOK, Tasks, MainInv
  <1>1. ASSUME intruded' = intruded, pc'["main"] \notin {"loop", "read"} PROVE HeldInv'
    BY <1>1 DEF HeldInv
  <1>2. ASSUME UNCHANGED <<cur, arrived, taken, intruded>>,
               pc'["main"] = pc["main"], on'["main"] = on["main"]
        PROVE  HeldInv'
    BY <1>2 DEF HeldInv
  <1>3. CASE Run \/ Cut \/ Lost \/ Happens \/ Due \/ Terminated
    <2>1. UNCHANGED <<cur, arrived, taken, intruded, pc, on>>
      BY <1>3 DEF Run, Cut, Lost, Happens, Due, Terminated, vars, connVars, progVars, loopVars
    <2>2. QED
      BY <1>2, <2>1
  <1>4. CASE Leave \/ OtherCancels \/ OtherNothing
    <2>1. UNCHANGED <<cur, arrived, taken, intruded>>
      BY <1>4 DEF Leave, OtherCancels, OtherNothing, connVars, progVars
    <2>2. pc'["main"] = pc["main"] /\ on'["main"] = on["main"]
      BY <1>0, <1>4 DEF Leave, OtherCancels, OtherNothing, GoOn
    <2>3. QED
      BY <1>2, <2>1, <2>2
  <1>5. CASE Top \/ Caught \/ Refused \/ Recollect \/ Connect \/ Consume \/ Stop \/ Break
             \/ PollTimeout \/ Open \/ Reply
    <2>1. intruded' = intruded
      BY <1>5 DEF Top, Caught, Refused, Recollect, Connect, Consume, Stop, Break,
         PollTimeout, Open, Reply, Raise, Finish, progVars
    <2>2. pc'["main"] \notin {"loop", "read"}
      BY <1>0, <1>5 DEF Top, Caught, Refused, Recollect, Connect, Consume, Stop, Break,
         PollTimeout, Open, Reply, Raise, GoOn, WaitFor, Main
    <2>3. QED
      BY <1>1, <2>1, <2>2
  <1>6. CASE Ensure
    BY <1>0, <1>6 DEF Ensure, Raise, GoOn, HeldInv, connVars, progVars
  <1>7. CASE Fill
    <2>1. CASE Len(buf) >= need
      <3>1. UNCHANGED progVars /\ Parse
        BY <1>7, <2>1 DEF Fill
      <3>2. pc'["main"] \notin {"loop", "read"}
        BY <1>0, <3>1 DEF Parse, GoOn
      <3>3. QED
        BY <1>1, <3>1, <3>2 DEF progVars
    <2>2. CASE ~(Len(buf) >= need)
      <3>1. CASE GoOn("main", "user") /\ Finish("crash")
        BY <1>0, <1>1, <3>1 DEF GoOn, Finish
      <3>2. CASE pc' = [pc EXCEPT !["main"] = "read"] /\ on' = [on EXCEPT !["main"] = cur]
                 /\ UNCHANGED cur
        BY <1>0, <3>2 DEF HeldInv
      <3>3. QED
        BY <1>7, <2>2, <3>1, <3>2 DEF Fill, ReadMore, WaitFor, connVars
    <2>3. QED
      BY <1>7, <2>1, <2>2 DEF Fill
  <1>8. CASE Read
    <2>1. CASE AtEof
      BY <1>1, <2>1, MainClosesOK DEF AtEof, Steps, progVars
    <2>2. CASE ~AtEof
      <3>1. on["main"] \in Conns /\ on["main"] # 0 /\ pc["main"] = "read"
        BY <1>0, <1>8 DEF Read, Main
      <3>2. arrived[on["main"]] # taken[on["main"]]
        BY <1>8, <2>2, <3>1, ChunkOK DEF Read, LoopInv
      <3>3. UNCHANGED <<cur, intruded>> /\ pc' = [pc EXCEPT !["main"] = "loop"]
        BY <1>8, <2>2 DEF Read, GoOn, progVars
      <3>4. QED
        BY <1>0, <3>1, <3>2, <3>3 DEF HeldInv
    <2>3. QED
      BY <2>1, <2>2
  <1>9. CASE Raised \/ Reopen \/ Cancelled
    <2>1. intruded' = intruded
      BY <1>9 DEF Raised, Reopen, Cancelled, progVars
    <2>2. \E step \in {"caught", "connect", "user"} : CloseThen("main", step)
      BY <1>9 DEF Raised, Reopen, Cancelled
    <2>3. QED
      BY <1>1, <2>1, <2>2, MainClosesOK DEF Steps
  <1>10. CASE Finalize \/ OtherCloses
    <2>1. \E t \in {"other", "finalizer"} : running = t /\ CloseThen(t, "finish") /\ Intrude
      BY <1>10 DEF Finalize, OtherCloses
    <2>2. QED
      BY <2>1, IntrusionOK DEF HeldInv
  <1>11. CASE Arrive
    <2>1. PICK c \in open : arrived' = [arrived EXCEPT ![c] = @ + 1]
      BY <1>11 DEF Arrive
    <2>2. c = cur
      BY <2>1 DEF LoopInv, ConnInv, OneConnection
    <2>3. UNCHANGED <<cur, taken, intruded, pc, on>>
      BY <1>11 DEF Arrive, progVars
    <2>4. QED
      BY <1>0, <2>1, <2>2, <2>3 DEF HeldInv
  <1>12. QED
    BY <1>3, <1>4, <1>5, <1>6, <1>7, <1>8, <1>9, <1>10, <1>11 DEF Next, MainStep

(* A buffer that holds the next bytes still does with those that follow.   *)
LEMMA BufferedMore ==
    ASSUME LoopInv, NEW c \in Conns, Buffered(c)
    PROVE  LET b == buf \o Chunk(c)
               t == arrived[c]
           IN  /\ Len(b) <= t /\ (t - Len(b)) % FrameLen = 0 /\ Len(b) >= Len(buf)
               /\ \A k \in 1..Len(b) : b[k] = [conn |-> c, n |-> t - Len(b) + k]
               /\ \A k \in 1..Len(buf) : b[k] = buf[k]
  <1>1. /\ buf \in Seq(Byte) /\ Chunk(c) \in Seq(Byte)
        /\ Len(Chunk(c)) = arrived[c] - taken[c] /\ arrived[c] \in Nat /\ taken[c] \in Nat
        /\ taken[c] <= arrived[c]
        /\ \A k \in 1..Len(Chunk(c)) : Chunk(c)[k] = [conn |-> c, n |-> taken[c] + k]
    BY ChunkOK, TasksAssumption, SMTT(30) DEF LoopInv, TypeOK, BytesInv
  <1> DEFINE b == buf \o Chunk(c)
  <1>2. PICK L \in Nat, t \in Nat, a \in Nat : L = Len(buf) /\ t = taken[c] /\ a = arrived[c]
    BY <1>1
  <1>3. /\ t <= a /\ L <= t /\ (t - L) % FrameLen = 0 /\ Len(b) = L + (a - t)
        /\ a - Len(b) = t - L
    <2>1. t <= a /\ L <= t /\ (t - L) % FrameLen = 0
      BY <1>1, <1>2 DEF Buffered
    <2>2. Len(b) = Len(buf) + Len(Chunk(c))
      BY <1>1
    <2>3. Len(b) = L + (a - t)
      BY <1>1, <1>2, <2>2
    <2> HIDE DEF b
    <2>4. QED
      BY <2>1, <2>3
  <1>4. \A k \in 1..L : b[k] = buf[k]
    BY <1>1, <1>2
  <1>5. ASSUME NEW k \in 1..Len(b) PROVE b[k] = [conn |-> c, n |-> a - Len(b) + k]
    <2>1. CASE k <= L
      BY <1>2, <1>3, <1>4, <2>1 DEF Buffered
    <2>2. CASE k > L
      <3>1. Len(Chunk(c)) = a - t /\ k \in Nat /\ k <= L + (a - t)
        BY <1>1, <1>2, <1>3
      <3>2. k - L \in 1..Len(Chunk(c))
        BY <2>2, <3>1
      <3>3. b[k] = Chunk(c)[k - L]
        <4>1. \A s, r \in Seq(Byte) : \A j \in 1..Len(s) + Len(r) :
                j > Len(s) => (s \o r)[j] = r[j - Len(s)]
          OBVIOUS
        <4>2. k \in 1..Len(buf) + Len(Chunk(c)) /\ k > Len(buf)
          BY <1>2, <2>2, <3>1
        <4>3. QED
          BY <1>1, <1>2, <4>1, <4>2
      <3>4. k - L \in 1..Len(Chunk(c)) /\ b[k] = Chunk(c)[k - L]
        BY <3>2, <3>3
      <3>5. t + (k - L) = a - Len(b) + k
        BY <1>3
      <3>6. QED
        BY <1>1, <1>2, <3>4, <3>5
    <2>3. QED
      BY <1>3, <2>1, <2>2
  <1>6. Len(b) <= a /\ (a - Len(b)) % FrameLen = 0 /\ Len(b) >= Len(buf)
    BY SMTT(30), <1>2, <1>3
  <1>7. QED
    BY <1>2, <1>4, <1>5, <1>6

LEMMA StreamStep ==
    ASSUME LoopInv, HeldInv, StreamInv, Next
    PROVE  StreamInv'
  <1>0. /\ pc \in [Tasks -> Steps] /\ "main" \in Tasks
        /\ on \in [Tasks -> Conns \cup {0}]
        /\ arrived \in [Conns -> 0..MaxBytes] /\ taken \in [Conns -> 0..MaxBytes]
        /\ pc["main"] = "read" => on["main"] \in Conns /\ on["main"] # 0
        /\ 0 \notin Conns /\ cur \in Conns \cup {0} /\ buf \in Seq(Byte) /\ made \in Nat
    <2>1. 1..made \subseteq Conns /\ 0 \notin Conns /\ made \in Nat
      BY ConnsOK DEF LoopInv, TypeOK, Conns
    <2>2. QED
      BY <2>1 DEF LoopInv, TypeOK, Tasks, MainInv
  <1>1. ASSUME UNCHANGED <<cur, buf, taken, header, need>>, intruded' = intruded,
               \/ pc'["main"] \notin {"ensure", "loop", "read"}
               \/ pc["main"] \in {"ensure", "loop", "read"}
        PROVE  StreamInv'
    BY <1>1 DEF StreamInv, Buffered
  <1>2. ASSUME cur' = 0, buf' = <<>> PROVE StreamInv'
    BY <1>2 DEF StreamInv
  <1>3. CASE Run \/ Cut \/ Lost \/ Happens \/ Due \/ Terminated \/ Arrive
    <2>1. UNCHANGED <<cur, buf, taken, header, need, intruded, pc>>
      BY <1>3 DEF Run, Cut, Lost, Happens, Due, Terminated, Arrive, vars, connVars, dataVars,
         progVars, loopVars
    <2>2. QED
      BY <1>1, <2>1
  <1>4. CASE Leave \/ OtherCancels \/ OtherNothing
    <2>1. UNCHANGED <<cur, buf, taken, header, need, intruded>>
      BY <1>4 DEF Leave, OtherCancels, OtherNothing, connVars, dataVars, progVars
    <2>2. pc'["main"] = pc["main"]
      BY <1>0, <1>4 DEF Leave, OtherCancels, OtherNothing, GoOn
    <2>3. QED
      BY <1>1, <2>1, <2>2
  <1>5. CASE Caught \/ Refused \/ Recollect \/ Connect \/ Consume \/ Stop \/ Break
             \/ PollTimeout \/ Reply
    <2>1. UNCHANGED <<cur, buf, taken, header, need, intruded>>
      BY <1>5 DEF Caught, Refused, Recollect, Connect, Consume, Stop, Break,
         PollTimeout, Reply, Raise, Finish, connVars, dataVars, progVars
    <2>2. pc'["main"] \notin {"ensure", "loop", "read"}
      BY <1>0, <1>5 DEF Caught, Refused, Recollect, Connect, Consume, Stop, Break,
         PollTimeout, Reply, Raise, GoOn, WaitFor, Main
    <2>3. QED
      BY <1>1, <2>1, <2>2
  <1>6. CASE Top
    <2>1. /\ UNCHANGED <<cur, buf, taken, intruded>>
          /\ need' = 1 \/ pc'["main"] \notin {"ensure", "loop", "read"}
      BY <1>0, <1>6 DEF Top, GoOn, WaitFor, Finish, connVars, dataVars, progVars
    <2>2. QED
      BY <2>1 DEF StreamInv, Buffered, FrameLen
  <1>7. CASE Ensure
    BY <1>0, <1>1, <1>7 DEF Ensure, Main, Raise, GoOn, connVars, dataVars, progVars
  <1>8. CASE Fill
    <2>1. CASE Len(buf) >= need
      <3>1. Parse /\ UNCHANGED <<connVars, progVars>> /\ pc["main"] = "loop"
        BY <1>8, <2>1 DEF Fill, Main
      <3>2. CASE need = 1
        BY <1>0, <3>1, <3>2 DEF Parse, GoOn, StreamInv, Buffered, FrameLen, connVars, progVars
      <3>3. CASE need = 2
        <4>1. Len(buf) > 0 /\ Head(buf) = buf[1]
          BY <1>0, <2>1, <3>3
        <4>2. UNCHANGED <<cur, taken, buf, intruded>> /\ header' = Head(buf)
          BY <3>1, <3>3 DEF Parse, FrameLen, connVars, progVars
        <4>3. QED
          BY <4>1, <4>2 DEF StreamInv, Buffered
      <3>4. CASE need = FrameLen
        <4>1. /\ buf' = SubSeq(buf, FrameLen + 1, Len(buf)) /\ pc' = [pc EXCEPT !["main"] = "yield"]
              /\ UNCHANGED <<cur, taken, intruded>>
          BY <3>1, <3>4 DEF Parse, FrameLen, GoOn, connVars, progVars
        <4>2. ASSUME ~intruded PROVE cur \in Conns /\ Buffered(cur)
          BY <1>0, <3>1, <4>2 DEF HeldInv, StreamInv
        <4>3. ASSUME ~intruded PROVE Buffered(cur)'
          <5>1. PICK L \in Nat, t \in Nat : L = Len(buf) /\ t = taken[cur]
            BY <1>0, <4>2, <4>3, TasksAssumption
          <5>2. L >= 3 /\ L <= t /\ (t - L) % 3 = 0
            BY <2>1, <3>4, <4>2, <4>3, <5>1 DEF Buffered, FrameLen
          <5>3. Len(buf') = L - 3 /\ \A k \in 1..L - 3 : buf'[k] = buf[k + 3]
            BY <1>0, <4>1, <5>1, <5>2 DEF FrameLen
          <5>4. \A k \in 1..L - 3 : buf[k + 3] = [conn |-> cur, n |-> t - (L - 3) + k]
            <6>1. ASSUME NEW k \in 1..L - 3 PROVE buf[k + 3] = [conn |-> cur, n |-> t - (L - 3) + k]
              <7>1. k + 3 \in 1..L /\ t - L + (k + 3) = t - (L - 3) + k
                BY <5>2
              <7>2. QED
                BY <4>2, <4>3, <5>1, <7>1 DEF Buffered
            <6>2. QED
              BY <6>1
          <5>5. L - 3 <= t /\ (t - (L - 3)) % 3 = 0
            BY <5>2
          <5>6. taken'[cur'] = t /\ cur' = cur
            BY <4>1, <5>1
          <5>7. QED
            BY <5>3, <5>4, <5>5, <5>6 DEF Buffered, FrameLen
        <4>4. pc'["main"] = "yield"
          BY <1>0, <4>1
        <4>5. intruded' = intruded /\ (~intruded => cur' # 0)
          BY <1>0, <4>1, <4>2
        <4>6. QED
          BY <4>1, <4>3, <4>4, <4>5 DEF StreamInv
      <3>5. QED
        BY <3>1, <3>2, <3>3, <3>4 DEF Parse
    <2>2. CASE ~(Len(buf) >= need)
      <3>1. UNCHANGED <<cur, buf, taken, header, need>> /\ pc["main"] = "loop" /\ intruded' = intruded
        BY <1>8, <2>2 DEF Fill, Main, ReadMore, Finish, connVars, dataVars, progVars
      <3>2. QED
        BY <1>1, <3>1
    <2>3. QED
      BY <2>1, <2>2
  <1>9. CASE Read
    <2>1. CASE AtEof
      BY <1>2, <2>1, MainClosesOK DEF AtEof, Steps
    <2>2. CASE ~AtEof
      <3>1. PICK c \in Conns : c = on["main"] /\ c # 0
        BY <1>0, <1>9 DEF Read, Main
      <3>2. /\ pc["main"] = "read" /\ Chunk(c) # <<>> /\ buf' = buf \o Chunk(c)
            /\ taken' = [taken EXCEPT ![c] = arrived[c]]
            /\ UNCHANGED <<cur, need, header, intruded>>
        BY <1>9, <2>2, <3>1 DEF Read, Main, progVars
      <3>3. ASSUME ~intruded PROVE cur = c /\ Buffered(c)
        <4>1. arrived[c] # taken[c]
          BY <3>2, ChunkOK DEF LoopInv
        <4>2. cur = c
          BY <3>1, <3>2, <3>3, <4>1 DEF HeldInv
        <4>3. QED
          BY <3>1, <3>3, <4>2 DEF StreamInv
      <3>4. taken'[c] = arrived[c]
        BY <1>0, <3>2
      <3>5. ASSUME ~intruded PROVE Buffered(cur)'
        <4>1. /\ Len(buf') <= arrived[c] /\ (arrived[c] - Len(buf')) % FrameLen = 0
              /\ \A k \in 1..Len(buf') :
                    buf'[k] = [conn |-> c, n |-> arrived[c] - Len(buf') + k]
          BY <3>2, <3>3, <3>5, BufferedMore
        <4>2. cur' = c
          BY <3>2, <3>3, <3>5
        <4>3. QED
          BY <3>4, <4>1, <4>2 DEF Buffered
      <3>6. ASSUME ~intruded, need = FrameLen PROVE Len(buf') > 0 /\ header' = buf'[1]
        <4>1. Len(buf) > 0 /\ header = buf[1]
          BY <3>1, <3>2, <3>3, <3>6 DEF StreamInv
        <4>2. Len(buf') >= Len(buf) /\ buf'[1] = buf[1]
          <5>1. Len(buf) \in Nat /\ 1 \in 1..Len(buf)
            BY <1>0, <4>1
          <5>2. QED
            BY <3>2, <3>3, <3>6, <5>1, BufferedMore
        <4>3. Len(buf') \in Nat /\ Len(buf) \in Nat
          BY <1>0, <3>2, ChunkOK, SMTT(30) DEF LoopInv
        <4>4. QED
          BY <3>2, <4>1, <4>2, <4>3
      <3>7. QED
        BY <3>1, <3>2, <3>3, <3>5, <3>6 DEF StreamInv
    <2>3. QED
      BY <2>1, <2>2
  <1>10. CASE Raised \/ Reopen \/ Cancelled
    <2>1. \E step \in {"caught", "connect", "user"} : CloseThen("main", step)
      BY <1>10 DEF Raised, Reopen, Cancelled
    <2>2. QED
      BY <1>2, <2>1, MainClosesOK DEF Steps
  <1>11. CASE Finalize \/ OtherCloses
    <2>1. \E t \in {"other", "finalizer"} : running = t /\ CloseThen(t, "finish") /\ Intrude
      BY <1>11 DEF Finalize, OtherCloses
    <2>2. QED
      BY <1>2, <2>1, IntrusionOK
  <1>12. CASE Open
    <2>1. /\ cur' = made + 1 /\ buf' = <<>> /\ taken' = [c \in Conns |-> 0] /\ need' = 1
          /\ made' = made + 1
      BY <1>12 DEF Open, Opened, ResetBuffer
    <2>2. cur' \in Conns
      BY <2>1, ConnStep DEF LoopInv
    <2>3. Buffered(cur)'
      BY <2>1, <2>2 DEF Buffered, FrameLen
    <2>4. QED
      BY <1>0, <2>1, <2>2, <2>3 DEF StreamInv, FrameLen
  <1>13. QED
    BY <1>3, <1>4, <1>5, <1>6, <1>7, <1>8, <1>9, <1>10, <1>11, <1>12 DEF Next, MainStep

(* A frame is whole when it is made, and kept as it is until it is gone.   *)
LEMMA FrameStep ==
    ASSUME LoopInv, HeldInv, StreamInv, FramesWhole, Next
    PROVE  FramesWhole'
  <1>1. ASSUME frame' = frame \/ frame' = NoFrame, ~intruded' => ~intruded
        PROVE  FramesWhole'
    BY <1>1 DEF FramesWhole, NoFrame
  <1>2. CASE Run \/ Cut \/ Lost \/ Happens \/ Due \/ Terminated \/ Arrive \/ Leave \/ OtherCancels
             \/ OtherNothing
    <2>1. UNCHANGED <<frame, intruded>>
      BY <1>2 DEF Run, Cut, Lost, Happens, Due, Terminated, Arrive, Leave, OtherCancels,
         OtherNothing, vars, dataVars, progVars
    <2>2. QED
      BY <1>1, <2>1
  <1>3. CASE Caught \/ Refused \/ Recollect \/ Connect \/ Consume \/ Stop \/ Break
             \/ PollTimeout \/ Reply \/ Top \/ Ensure \/ Open
    <2>1. intruded' = intruded /\ (frame' = frame \/ frame' = NoFrame)
      BY <1>3 DEF Caught, Refused, Recollect, Connect, Consume, Stop, Break, PollTimeout, Reply,
         Top, Ensure, Open, Raise, Finish, dataVars, progVars
    <2>2. QED
      BY <1>1, <2>1
  <1>4. CASE Raised \/ Reopen \/ Cancelled
    BY <1>1, <1>4 DEF Raised, Reopen, Cancelled, CloseThen, progVars
  <1>5. CASE Finalize \/ OtherCloses
    BY <1>1, <1>5 DEF Finalize, OtherCloses, CloseThen, Intrude
  <1>6. CASE Read
    BY <1>1, <1>6 DEF Read, AtEof, CloseThen, progVars
  <1>7. CASE Fill
    <2>1. CASE Len(buf) >= need /\ need = FrameLen
      <3>1. /\ frame' = [header |-> header, bytes |-> SubSeq(buf, 1, FrameLen)]
            /\ intruded' = intruded /\ pc["main"] = "loop"
        BY <1>7, <2>1 DEF Fill, Parse, Main, FrameLen, progVars
      <3>2. ASSUME ~intruded
            PROVE  /\ (frame'.header.n - 1) % FrameLen = 0
                   /\ \A k \in 1..FrameLen :
                         frame'.bytes[k] = [frame'.header EXCEPT !.n = @ + k - 1]
        <4>1. cur \in Conns /\ Buffered(cur) /\ header = buf[1]
          BY <2>1, <3>1, <3>2, ConnsOK DEF HeldInv, StreamInv, LoopInv, TypeOK
        <4>2. PICK L \in Nat, t \in Nat : L = Len(buf) /\ t = taken[cur]
          BY <4>1, TasksAssumption DEF LoopInv, TypeOK
        <4>3. /\ L >= 3 /\ L <= t /\ (t - L) % 3 = 0 /\ buf \in Seq(Byte)
              /\ \A k \in 1..L : buf[k] = [conn |-> cur, n |-> t - L + k]
          BY <2>1, <4>1, <4>2 DEF Buffered, FrameLen, LoopInv, TypeOK
        <4>4. header = [conn |-> cur, n |-> t - L + 1] /\ (t - L + 1) - 1 = t - L
          <5>1. 1 \in 1..L
            BY <4>2, <4>3
          <5>2. buf[1] = [conn |-> cur, n |-> t - L + 1]
            BY <4>3, <5>1
          <5>3. (t - L + 1) - 1 = t - L
            BY <4>2
          <5>4. QED
            BY <4>1, <5>2, <5>3
        <4>5. \A k \in 1..3 : SubSeq(buf, 1, 3)[k] = buf[k]
          BY <4>2, <4>3
        <4>6. ASSUME NEW k \in 1..3
              PROVE  SubSeq(buf, 1, 3)[k] = [header EXCEPT !.n = @ + k - 1]
          <5>1. SubSeq(buf, 1, 3)[k] = [conn |-> cur, n |-> t - L + k]
            BY <4>3, <4>5
          <5>2. (t - L + 1) + k - 1 = t - L + k
            OBVIOUS
          <5>3. QED
            BY <4>4, <5>1, <5>2
        <4>7. frame'.header = header /\ frame'.bytes = SubSeq(buf, 1, 3)
          BY <3>1 DEF FrameLen
        <4>8. (header.n - 1) % 3 = 0
          BY <4>3, <4>4
        <4>9. QED
          BY <4>6, <4>7, <4>8 DEF FrameLen
      <3>3. QED
        BY <3>1, <3>2 DEF FramesWhole
    <2>2. CASE ~(Len(buf) >= need /\ need = FrameLen)
      <3>1. UNCHANGED frame /\ intruded' = intruded
        BY <1>7, <2>2 DEF Fill, Parse, ReadMore, Finish, dataVars, progVars
      <3>2. QED
        BY <1>1, <3>1
    <2>3. QED
      BY <2>1, <2>2
  <1>8. QED
    BY <1>2, <1>3, <1>4, <1>5, <1>6, <1>7 DEF Next, MainStep

(* Only a read without a reader crashes.                                   *)
LEMMA CrashStep ==
    ASSUME LoopInv, HeldInv, NoCrashUnintruded, Next
    PROVE  NoCrashUnintruded'
  <1>1. ASSUME outcome' = outcome \/ outcome' # "crash", ~intruded' => ~intruded
        PROVE  NoCrashUnintruded'
    BY <1>1 DEF NoCrashUnintruded
  <1>2. CASE Run \/ Cut \/ Lost \/ Happens \/ Due \/ Terminated \/ Arrive \/ Leave \/ OtherCancels
             \/ OtherNothing
    <2>1. UNCHANGED <<outcome, intruded>>
      BY <1>2 DEF Run, Cut, Lost, Happens, Due, Terminated, Arrive, Leave, OtherCancels,
         OtherNothing, vars, progVars
    <2>2. QED
      BY <1>1, <2>1
  <1>3. CASE Caught \/ Refused \/ Recollect \/ Connect \/ Consume \/ Stop \/ Break
             \/ PollTimeout \/ Reply \/ Top \/ Ensure \/ Open
    <2>1. intruded' = intruded /\ (outcome' = outcome \/ outcome' # "crash")
      BY <1>3 DEF Caught, Refused, Recollect, Connect, Consume, Stop, Break, PollTimeout, Reply,
         Top, Ensure, Open, Raise, Finish, progVars
    <2>2. QED
      BY <1>1, <2>1
  <1>4. CASE Raised \/ Reopen \/ Cancelled
    BY <1>1, <1>4 DEF Raised, Reopen, Cancelled, progVars
  <1>5. CASE Finalize \/ OtherCloses
    BY <1>1, <1>5 DEF Finalize, OtherCloses, Intrude
  <1>6. CASE Read
    BY <1>1, <1>6 DEF Read, AtEof, progVars
  <1>7. CASE Fill
    <2>1. intruded' = intruded /\ (~intruded => cur # 0)
      BY <1>7 DEF Fill, Main, HeldInv, ReadMore, Finish, progVars
    <2>2. ~intruded => outcome' = outcome
      BY <1>7, <2>1 DEF Fill, ReadMore, progVars
    <2>3. QED
      BY <2>1, <2>2 DEF NoCrashUnintruded
  <1>8. QED
    BY <1>2, <1>3, <1>4, <1>5, <1>6, <1>7 DEF Next, MainStep

-----------------------------------------------------------------------------
LEMMA InvInit == Init => Inv
  <1> SUFFICES ASSUME Init PROVE Inv
    OBVIOUS
  <1>1. TypeOK
    <2>1. /\ FrameLen = 3 /\ MaxBytes \in Nat /\ MaxActs \in Nat /\ MaxCuts \in Nat
          /\ Reconnects \subseteq BOOLEAN
      BY TasksAssumption DEF FrameLen
    <2>2. pc \in [Tasks -> Steps] /\ ready \in Seq(Tasks)
      BY DEF Init, Tasks, Steps
    <2>3. arrived \in [Conns -> 0..MaxBytes] /\ taken \in [Conns -> 0..MaxBytes]
      BY <2>1 DEF Init
    <2>4. 1 \in Conns
      BY ConnsOK
    <2>5. need \in 1..FrameLen /\ acts \in 0..MaxActs /\ cuts \in 0..MaxCuts
      BY <2>1 DEF Init
    <2>6. /\ cur \in Conns \cup {0} /\ made \in Conns
          /\ open \subseteq Conns /\ eof \subseteq Conns /\ lost \subseteq Conns
          /\ buf \in Seq(Byte) /\ header \in Byte \cup {None}
          /\ running \in Tasks \cup {Nobody}
      BY <2>4 DEF Init
    <2>7. frame.header \in Byte \cup {None} /\ frame.bytes \in Seq(Byte)
      BY DEF Init, NoFrame
    <2>8. /\ wait \in [Tasks -> {"nothing", "data", "closed", "event"}]
          /\ on \in [Tasks -> Conns \cup {0}]
          /\ \A t \in Tasks : wait[t] \in {"data", "closed"} => on[t] \in Conns
      BY DEF Init
    <2>9. {reconnect, inside, cancelled, intruded} \subseteq BOOLEAN
      BY <2>1 DEF Init
    <2>10. QED
      BY <2>2, <2>3, <2>5, <2>6, <2>7, <2>8, <2>9 DEF TypeOK
  <1>2. QueueInv /\ MainInv
    BY DEF Init, QueueInv, MainInv, Once, InSeq, Tasks, Nobody
  <1>3. ConnInv /\ BytesInv
    BY DEF Init, ConnInv, OneConnection, BytesInv, Tasks
  <1>4. Owed = 0
    BY DEF Init, Owed, One, Over, Gone, FinalizerDue, InSeq, Tasks, Nobody
  <1>5. CountInv
    BY <1>4 DEF Init, CountInv
  <1>6. HeldInv /\ StreamInv /\ FramesWhole /\ NoCrashUnintruded
    BY ConnsOK DEF Init, HeldInv, StreamInv, Buffered, FramesWhole, NoCrashUnintruded, NoFrame,
       FrameLen, Tasks
  <1>7. QED
    BY <1>1, <1>2, <1>3, <1>5, <1>6 DEF Inv, LoopInv

LEMMA InvStep == Inv /\ [Next]_vars => Inv'
  <1> SUFFICES ASSUME Inv, [Next]_vars PROVE Inv'
    OBVIOUS
  <1>1. CASE Next
    BY <1>1, QueueStep, MainStepOK, ConnStep, BytesStep, TypeStep, CountStep, HeldStep,
       StreamStep, FrameStep, CrashStep DEF Inv, LoopInv
  <1>2. CASE UNCHANGED vars
    <2>1. (TypeOK /\ QueueInv /\ MainInv /\ BytesInv)'
      <3>1. UNCHANGED <<cur, made, open, eof, lost, arrived, taken, buf, need, header, frame,
                        ready, running, pc, wait, on, reconnect, inside, outcome, cancelled,
                        intruded, acts, cuts>>
        BY <1>2 DEF vars, connVars, dataVars, loopVars, progVars
      <3>2. TypeOK'
        BY <3>1 DEF Inv, LoopInv, TypeOK
      <3>3. QueueInv'
        BY <3>1 DEF Inv, LoopInv, QueueInv, Once, InSeq
      <3>4. (MainInv /\ BytesInv)'
        BY <3>1 DEF Inv, LoopInv, MainInv, BytesInv, HasSome, InSeq
      <3>5. QED
        BY <3>2, <3>3, <3>4
    <2>2. (ConnInv /\ CountInv)'
      BY <1>2 DEF Inv, LoopInv, ConnInv, OneConnection, CountInv, Owed, One, Over, Gone,
         FinalizerDue, InSeq, vars, connVars, dataVars, loopVars, progVars
    <2>3. (HeldInv /\ StreamInv /\ FramesWhole /\ NoCrashUnintruded)'
      BY <1>2 DEF Inv, HeldInv, StreamInv, Buffered, FramesWhole, NoCrashUnintruded,
         vars, connVars, dataVars, loopVars, progVars
    <2>4. QED
      BY <2>1, <2>2, <2>3 DEF Inv, LoopInv
  <1>3. QED
    BY <1>1, <1>2

LEMMA InvAlways == Spec => []Inv
  BY InvInit, InvStep, PTL DEF Spec

(* Every variable keeps its type; in particular no more connections are    *)
(* ever made than MaxConns: each but the first is owed to a close, a       *)
(* cancellation or a reopening by the program, to the finalizer of a       *)
(* collect() that was begun again, or to a cut.                            *)
THEOREM TypeCorrect == Spec => []TypeOK
  BY InvAlways, PTL DEF Inv, LoopInv

(* The client holds the one transport that is open, or none, whatever      *)
(* task closes or cancels it and wherever (aio.py: close() clears _reader  *)
(* and _writer before it awaits wait_closed()).                            *)
THEOREM NothingLeaked == Spec => []OneConnection
  BY InvAlways, PTL DEF Inv, LoopInv, ConnInv

(* Unless close() came between bytes and main's next step, a frame is its  *)
(* header's bytes and those behind them (aio.py: _recv_frame() over        *)
(* several awaits of _ensure()) ...                                        *)
THEOREM FramesAreWhole == Spec => []FramesWhole
  BY InvAlways, PTL DEF Inv

(* ... and _ensure() never finds its reader gone after an await.           *)
THEOREM ReaderIsThere == Spec => []NoCrashUnintruded
  BY InvAlways, PTL DEF Inv
=============================================================================
