---------------------------- MODULE FramingProofs ----------------------------
(***************************************************************************)
(* For every default size, every largest request and every length of the   *)
(* byte stream: the receive buffer stays well formed, always has room for  *)
(* the next recv_into(), and hands over the bytes of the connection in the *)
(* order they were sent.                                                   *)
(*                                                                         *)
(* For every layout of lines and frames, however it arrives: what is cut   *)
(* out of the stream begins and ends where the items do, nothing waits for *)
(* a byte behind the item it reads, and the reads are reads of RecvBuffer, *)
(* whose theorems hold of them.                                            *)
(***************************************************************************)
EXTENDS Framing, TLAPS

-----------------------------------------------------------------------------
(* The receive buffer.                                                     *)

(* The invariant the safety properties are read off.  Each part needs the  *)
(* others: compaction keeps InOrder because the window lies inside the     *)
(* bytearray, and a growing buffer stays Bounded because it only grows for *)
(* a request it cannot hold.                                               *)
Inv == /\ TypeOK /\ FillHasRoom /\ InOrder /\ EnsureDelivers /\ Bounded
       /\ need <= MaxRequest
       /\ ~connected => pc = "idle"

USE DEF available

(* _reset_recv_buf() leaves an empty window in a bytearray of the default  *)
(* size.                                                                   *)
LEMMA ResetOK ==
    ASSUME TypeOK, Reset
    PROVE  /\ cap' = DefaultSize /\ buf' \in [0..cap'-1 -> Nat]
           /\ start' = 0 /\ end' = 0
  BY BufferAssumption DEF TypeOK, Reset, Zeros

(* Moving what is buffered to the front of a bytearray that holds it keeps *)
(* every buffered byte, at its distance from the start of the window.      *)
LEMMA MoveOK ==
    ASSUME TypeOK, NEW c \in Nat, available <= c, Move(c)
    PROVE  /\ cap' = c /\ buf' \in [0..c-1 -> Nat]
           /\ start' = 0 /\ end' = available
           /\ \A i \in 0..available-1 : buf'[i] = buf[start + i]
  <1>1. \A i \in 0..c-1 : MovedTo(c)[i] \in Nat
    BY DEF MovedTo, TypeOK
  <1>2. MovedTo(c) \in [0..c-1 -> Nat]
    BY <1>1 DEF MovedTo
  <1>3. \A i \in 0..available-1 : MovedTo(c)[i] = buf[start + i]
    BY DEF MovedTo, TypeOK
  <1> QED BY <1>2, <1>3 DEF Move

(* _prepare_room(n) makes the room recv_into() needs and keeps what is     *)
(* buffered.                                                               *)
LEMMA PrepareRoomOK ==
    ASSUME TypeOK, Bounded, NEW n \in 1..MaxRequest, available < n, PrepareRoom(n)
    PROVE  /\ cap' \in Nat /\ cap' >= DefaultSize /\ Bounded'
           /\ buf' \in [0..cap'-1 -> Nat]
           /\ start' \in Nat /\ end' \in start'..cap'
           /\ end' < cap' /\ n <= cap' - start'
           /\ end' - start' = available
           /\ \A i \in 0..available-1 : buf'[start' + i] = buf[start + i]
  <1> USE BufferAssumption
  <1>1. CASE available = 0 /\ n <= DefaultSize
    <2>1. Reset
      BY <1>1 DEF PrepareRoom
    <2> QED BY <1>1, <2>1, ResetOK DEF TypeOK, Bounded
  <1>2. CASE ~(available = 0 /\ n <= DefaultSize) /\ n > cap
    <2>1. Move(Larger(n, cap))
      BY <1>2 DEF PrepareRoom
    <2>2. Larger(n, cap) \in Nat /\ Larger(n, cap) >= n /\ Larger(n, cap) > cap
          /\ Larger(n, cap) < 2 * MaxRequest
      BY <1>2 DEF Larger, TypeOK
    <2>3. PICK c \in Nat : c = Larger(n, cap)
      BY <2>2
    <2>5. n <= c /\ cap < c /\ c < 2 * MaxRequest /\ Move(c) /\ available <= c
      BY <2>1, <2>2, <2>3 DEF TypeOK
    <2>4. /\ cap' = c /\ buf' \in [0..c-1 -> Nat]
          /\ start' = 0 /\ end' = available
          /\ \A i \in 0..available-1 : buf'[i] = buf[start + i]
      BY <2>5, MoveOK
    <2> QED BY <2>5, <2>4 DEF TypeOK, Bounded
  <1>3. CASE ~(available = 0 /\ n <= DefaultSize) /\ n <= cap /\ cap - start < n
    <2>1. Move(cap)
      BY <1>3 DEF PrepareRoom, TypeOK
    <2>2. PICK c \in Nat : c = cap
      BY DEF TypeOK
    <2>3. Move(c) /\ available <= c
      BY <2>1, <2>2 DEF TypeOK
    <2>4. /\ cap' = c /\ buf' \in [0..c-1 -> Nat]
          /\ start' = 0 /\ end' = available
          /\ \A i \in 0..available-1 : buf'[i] = buf[start + i]
      BY <2>3, MoveOK
    <2> QED BY <1>3, <2>2, <2>4 DEF TypeOK, Bounded
  <1>4. CASE ~(available = 0 /\ n <= DefaultSize) /\ n <= cap /\ n <= cap - start
    <2>1. UNCHANGED bufVars
      BY <1>4 DEF PrepareRoom, TypeOK
    <2> QED BY <1>4, <2>1 DEF TypeOK, Bounded, bufVars
  <1> QED BY <1>1, <1>2, <1>3, <1>4 DEF TypeOK

(* Every reachable buffer is well formed, has room while it fills, holds   *)
(* the next bytes in order, and stays below twice the largest request.     *)
LEMMA InvStep ==
    ASSUME Inv, [Next]_vars
    PROVE  Inv'
  <1> USE BufferAssumption DEF Inv
  <1>1. CASE Connect
    <2>1. cap' = DefaultSize /\ buf' \in [0..cap'-1 -> Nat] /\ start' = 0 /\ end' = 0
      BY <1>1, ResetOK DEF Connect
    <2>2. TypeOK' /\ Bounded'
      BY <1>1, <2>1 DEF Connect, TypeOK, Bounded
    <2> QED BY <1>1, <2>1, <2>2
            DEF Connect, FillHasRoom, InOrder, EnsureDelivers
  <1>2. CASE Close
    <2>1. cap' = DefaultSize /\ buf' \in [0..cap'-1 -> Nat] /\ start' = 0 /\ end' = 0
      BY <1>2, ResetOK DEF Close
    <2>2. ~connected' /\ connected' \in BOOLEAN /\ pc' = "idle"
          /\ UNCHANGED <<need, sent, taken>>
      BY <1>2 DEF Close
    <2>3. TypeOK' /\ Bounded'
      BY <2>1, <2>2 DEF TypeOK, Bounded
    <2> QED BY <2>1, <2>2, <2>3 DEF FillHasRoom, InOrder, EnsureDelivers
  <1>3. CASE CleanTimeout
    BY <1>3 DEF CleanTimeout, bufVars, TypeOK, FillHasRoom, InOrder,
                EnsureDelivers, Bounded
  <1>4. ASSUME NEW n \in 1..MaxRequest, Ensure(n) PROVE Inv'
    <2>1. CASE available >= n
      BY <1>4, <2>1 DEF Ensure, bufVars, TypeOK, FillHasRoom, InOrder,
                        EnsureDelivers, Bounded
    <2>2. CASE available < n
      <3>1. PrepareRoom(n) /\ pc' = "fill" /\ need' = n /\ connected
            /\ UNCHANGED <<connected, sent, taken, chunk>>
        BY <1>4, <2>2 DEF Ensure, TypeOK
      <3>2. /\ cap' \in Nat /\ cap' >= DefaultSize /\ Bounded'
            /\ buf' \in [0..cap'-1 -> Nat]
            /\ start' \in Nat /\ end' \in start'..cap'
            /\ end' < cap' /\ n <= cap' - start'
            /\ end' - start' = available
            /\ \A i \in 0..available-1 : buf'[start' + i] = buf[start + i]
        BY <2>2, <3>1, PrepareRoomOK
      <3>3. TypeOK'
        <4>1. connected' \in BOOLEAN /\ need' \in Nat /\ sent' \in Nat
              /\ taken' \in Nat /\ pc' \in {"idle", "fill", "ready"}
          BY <3>1 DEF TypeOK
        <4> QED BY <3>2, <4>1 DEF TypeOK
      <3>4. FillHasRoom' /\ EnsureDelivers'
        BY <2>2, <3>1, <3>2 DEF FillHasRoom, EnsureDelivers
      <3>5. InOrder'
        <4>1. \A j \in 0..available-1 : buf[start + j] = taken + 1 + j
          BY <3>1 DEF InOrder
        <4> QED BY <3>1, <3>2, <4>1 DEF InOrder
      <3> QED BY <3>1, <3>2, <3>3, <3>4, <3>5
    <2> QED BY <2>1, <2>2 DEF TypeOK
  <1>5. ASSUME NEW k \in 1..MaxSent, RecvInto(k) PROVE Inv'
    <2>1. TypeOK'
      BY <1>5 DEF RecvInto, TypeOK
    <2>2. FillHasRoom' /\ EnsureDelivers' /\ Bounded'
      BY <1>5 DEF RecvInto, TypeOK, FillHasRoom, EnsureDelivers, Bounded
    <2>3. InOrder'
      <3>1. /\ start' = start /\ end' = end + k /\ taken' = taken /\ sent' = sent + k
            /\ connected' = connected
        BY <1>5 DEF RecvInto
      <3>2. taken + available = sent /\ connected
            /\ \A j \in 0..available-1 : buf[start + j] = taken + 1 + j
        BY <1>5 DEF InOrder, RecvInto
      <3>3. ASSUME NEW j \in 0..available+k-1
            PROVE  buf'[start + j] = taken + 1 + j
        <4>1. start + j \in 0..cap-1
          BY <1>5 DEF RecvInto, TypeOK
        <4>2. \A x \in 0..cap-1 :
                 x \in end..end+k-1 => buf'[x] = sent + 1 + (x - end)
          BY <1>5 DEF RecvInto
        <4>3. CASE j < available
          <5>1. start + j \notin end..end+k-1 /\ j \in 0..available-1
            BY <4>3 DEF TypeOK
          <5> QED BY <1>5, <3>2, <4>1, <5>1 DEF RecvInto
        <4>4. CASE j >= available
          <5>1. start + j \in end..end+k-1
            BY <4>4 DEF TypeOK
          <5>2. buf'[start + j] = sent + 1 + ((start + j) - end)
            BY <4>1, <4>2, <5>1
          <5>3. sent + 1 + ((start + j) - end) = taken + 1 + j
            BY <3>2 DEF TypeOK
          <5> QED BY <5>2, <5>3
        <4> QED BY <4>3, <4>4 DEF TypeOK
      <3> QED BY <3>1, <3>2, <3>3 DEF InOrder, TypeOK
    <2> QED BY <1>5, <2>1, <2>2, <2>3 DEF RecvInto
  <1>6. ASSUME NEW m \in 0..MaxSent, Consume(m), connected,
               start' = start + m, UNCHANGED <<buf, cap, end>>
        PROVE  Inv'
    <2>1. m \in 0..available /\ taken' = taken + m /\ pc' = "idle"
          /\ UNCHANGED <<connected, need, sent>>
      BY <1>6 DEF Consume
    <2>2. TypeOK' /\ Bounded' /\ FillHasRoom' /\ EnsureDelivers'
      BY <1>6, <2>1 DEF TypeOK, Bounded, FillHasRoom, EnsureDelivers
    <2>3. InOrder'
      <3>1. taken + available = sent
            /\ \A j \in 0..available-1 : buf[start + j] = taken + 1 + j
        BY <1>6 DEF InOrder
      <3>2. ASSUME NEW j \in 0..available-m-1
            PROVE  buf[start + m + j] = taken + m + 1 + j
        <4>1. m + j \in 0..available-1 /\ start + (m + j) = start + m + j
              /\ taken + 1 + (m + j) = taken + m + 1 + j
          BY <2>1 DEF TypeOK
        <4> QED BY <3>1, <4>1
      <3> QED BY <1>6, <2>1, <3>1, <3>2 DEF InOrder, TypeOK
    <2> QED BY <1>6, <2>1, <2>2, <2>3
  <1>7. ASSUME NEW m \in 0..MaxSent, Read(m) \/ ReadFrame(m) PROVE Inv'
    <2>1. CASE Read(m)
      BY <1>6, <2>1 DEF Read
    <2>2. CASE ReadFrame(m) /\ m # available
      BY <1>6, <2>2 DEF ReadFrame
    <2>3. CASE ReadFrame(m) /\ m = available
      <3>1. cap' = DefaultSize /\ buf' \in [0..cap'-1 -> Nat] /\ start' = 0 /\ end' = 0
        BY <2>3, ResetOK DEF ReadFrame
      <3>2. connected' = connected /\ connected /\ pc' = "idle" /\ need' = need
            /\ sent' = sent /\ taken' = taken + available
        BY <2>3 DEF ReadFrame, Consume
      <3>3. TypeOK' /\ Bounded'
        BY <3>1, <3>2 DEF TypeOK, Bounded
      <3> QED BY <3>1, <3>2, <3>3
              DEF FillHasRoom, InOrder, EnsureDelivers, TypeOK
    <2> QED BY <1>7, <2>1, <2>2, <2>3
  <1>8. CASE UNCHANGED vars
    BY <1>8 DEF vars, bufVars, TypeOK, FillHasRoom, InOrder, EnsureDelivers, Bounded
  <1> QED BY <1>1, <1>2, <1>3, <1>4, <1>5, <1>7, <1>8 DEF Next

(* The initial buffer satisfies the invariant.                             *)
LEMMA InvInit == Init => Inv
  <1> SUFFICES ASSUME Init PROVE Inv
    OBVIOUS
  <1>1. ~connected /\ connected \in BOOLEAN /\ pc = "idle" /\ cap = DefaultSize
        /\ start = 0 /\ end = 0 /\ need = 0 /\ sent = 0 /\ taken = 0
    BY DEF Init
  <1>2. buf \in [0..cap-1 -> Nat]
    BY DEF Init, Zeros
  <1> QED BY <1>1, <1>2, BufferAssumption
          DEF Inv, TypeOK, FillHasRoom, InOrder, EnsureDelivers, Bounded

(* _ensure() always has room to read into and returns what it was asked    *)
(* for, the buffered bytes are the next of the connection, and the buffer  *)
(* stays bounded, whatever is asked for and however the bytes come.        *)
THEOREM BufferSafe ==
    Spec => [](TypeOK /\ FillHasRoom /\ InOrder /\ EnsureDelivers /\ Bounded)
  <1>1. Inv => TypeOK /\ FillHasRoom /\ InOrder /\ EnsureDelivers /\ Bounded
    BY DEF Inv
  <1> QED BY <1>1, InvInit, InvStep, PTL DEF Spec

(* A step of the buffer is a read of the next bytes of the stream, a new   *)
(* connection, or nothing to its reader.                                   *)
LEMMA StepHandsOver ==
    ASSUME Inv, [Next]_vars
    PROVE  [Bytes!Next]_<<taken, chunk>>
  <1>1. ASSUME NEW m \in 0..MaxSent, connected, Consume(m)
        PROVE  Bytes!HandOver(m)
    <2>1. ASSUME NEW i \in 0..m-1 PROVE buf[start + i] = taken + 1 + i
      <3>1. i \in 0..available-1
        BY <1>1 DEF Consume, Inv, TypeOK
      <3> QED BY <1>1, <3>1 DEF Inv, InOrder
    <2>2. [i \in 0..m-1 |-> buf[start + i]] = [i \in 0..m-1 |-> taken + 1 + i]
      BY <2>1
    <2> QED BY <1>1, <2>2 DEF Consume, Bytes!HandOver
  <1>2. CASE Connect
    BY <1>2 DEF Connect, NoBytes, Bytes!Next, Bytes!NewConnection
  <1>3. CASE Close \/ CleanTimeout \/ UNCHANGED vars
    BY <1>3 DEF Close, CleanTimeout, vars
  <1>4. ASSUME NEW n \in 1..MaxRequest, Ensure(n) PROVE UNCHANGED <<taken, chunk>>
    BY <1>4 DEF Ensure
  <1>5. ASSUME NEW k \in 1..MaxSent, RecvInto(k) PROVE UNCHANGED <<taken, chunk>>
    BY <1>5 DEF RecvInto
  <1>6. ASSUME NEW m \in 0..MaxSent, Read(m) \/ ReadFrame(m) PROVE Bytes!Next
    BY <1>1, <1>6 DEF Read, ReadFrame, Bytes!Next
  <1> QED BY <1>2, <1>3, <1>4, <1>5, <1>6 DEF Next

(* The buffer implements the byte stream: what its readers are handed is   *)
(* what the peer sent, in order, without gap, repetition or leftovers.     *)
THEOREM BufferImplementsStream == Spec => HandsOverStream
  <1>1. Init => Bytes!Init
    BY DEF Init, NoBytes, Bytes!Init
  <1> QED BY <1>1, InvInit, InvStep, StepHandsOver, PTL
          DEF Spec, HandsOverStream, Bytes!Spec

HIDE DEF available

-----------------------------------------------------------------------------
(* The framing of lines and frames.                                        *)

(* A connection that is closed has no layout; one call reads at a time.    *)
LinkInv ==
    /\ sent \in 0..MaxSent
    /\ ~connected => layout = <<>> /\ at = "idle"
    /\ connected => sent <= Before(layout, Len(layout) + 1)
    /\ at = "idle" => pc = "idle"
    /\ torn => at = "idle"

(* What is read at each place.                                             *)
KindInv ==
    /\ at \notin {"idle", "signature"} => item <= Len(layout)
    /\ at = "signature" => here.kind \notin {"line", "noise"}
    /\ at = "three" => here.kind \in {"end", "error"}
    /\ at = "five" => here.kind = "error"
    /\ at = "scan" => here.kind \in {"line", "noise", "error"}
    /\ at = "head" => here.kind \in {"v3", "v4", "badhead"}
    /\ at \in {"detect", "record"} => here.kind = "v3"
    /\ at = "body" => here.kind = "v4"

(* Of an item only a v3 header is consumed before the rest is there ...    *)
PlaceInv ==
    connected /\ ~torn =>
    taken = base + IF at \in {"detect", "record"} THEN HeadV3 ELSE 0

(* ... no peek goes beyond it, and no search for its line end begins       *)
(* behind that.                                                            *)
WantInv ==
    /\ at # "scan" /\ pc # "idle" => need = Wanted
    /\ at = "detect" => size \in MinDetect..MaxRecord /\ size <= payload
    /\ at # "scan" => search = 0
    /\ search # 0 => search < available
    /\ at = "scan" /\ here.kind # "noise" => search + 2 <= length

FramingInv ==
    /\ Inv /\ FramingTypeOK /\ LinkInv /\ KindInv
    /\ ItemsWhole /\ PlaceInv /\ WantInv /\ NeverWaitsBeyond

(* All but the buffer's own part.                                          *)
ParserInv ==
    /\ FramingTypeOK /\ LinkInv /\ KindInv
    /\ ItemsWhole /\ PlaceInv /\ WantInv /\ NeverWaitsBeyond

-----------------------------------------------------------------------------
(* The constants, and the item at hand.                                    *)
LEMMA ConstOK ==
    /\ MaxRequest \in Nat /\ MaxRequest >= 5 /\ MaxSent \in Nat
    /\ HeadV3 \in 1..MaxRequest /\ HeadV4 \in 1..MaxRequest /\ MinDetect \in 1..MaxRequest
    /\ MaxRecord \in MinDetect..MaxRequest /\ MaxLine \in 1..MaxRequest
  BY BufferAssumption, FramingAssumption

LEMMA LayoutOK ==
    ASSUME NEW l \in Layouts \cup {<<>>}
    PROVE  /\ l \in Seq(Item) /\ WellLaid(l)
           /\ \A i \in 1..Len(l) + 1 : Before(l, i) \in Nat
  <1>1. l \in Seq(Item) /\ WellLaid(l)
    <2>1. CASE l \in Layouts
      BY <2>1, FramingAssumption
    <2>2. CASE l = <<>>
      BY <2>2 DEF WellLaid
    <2>3. QED
      BY <2>1, <2>2
  <1>2. ASSUME NEW i \in 1..Len(l) + 1 PROVE Before(l, i) \in Nat
    <2>1. CASE i = 1
      BY <2>1 DEF Before
    <2>2. CASE i # 1
      <3>1. l[i - 1] \in Item
        BY <1>1, <2>2
      <3>2. QED
        BY <2>2, <3>1 DEF Before, Item
    <2>3. QED
      BY <2>1, <2>2
  <1>3. QED
    BY <1>1, <1>2

LEMMA HereOK ==
    ASSUME FramingTypeOK
    PROVE  /\ Before(layout, item) \in Nat /\ here.last \in Nat /\ length \in Nat
           /\ here.last = Before(layout, item) + length
           /\ WellFormed(here, length) /\ here.found \in Nat
           /\ item <= Len(layout) =>
                 /\ here = layout[item] /\ here.last = Before(layout, item + 1)
                 /\ here.kind = "noise" => item = Len(layout)
           /\ item > Len(layout) => here.kind = "v4" /\ item = Len(layout) + 1
  <1>0. /\ item \in 1..Len(layout) + 1 /\ layout \in Seq(Item) /\ WellLaid(layout)
        /\ Before(layout, item) \in Nat
    BY LayoutOK DEF FramingTypeOK
  <1>1. CASE item <= Len(layout)
    <2>1. item \in 1..Len(layout) /\ here = layout[item] /\ layout[item] \in Item
      BY <1>0, <1>1 DEF here
    <2>2. here.last \in Nat \ {0} /\ here.found \in Nat
      BY <2>1 DEF Item
    <2>3. /\ WellFormed(here, length)
          /\ here.kind = "noise" => item = Len(layout)
      BY <1>0, <2>1 DEF WellLaid, length
    <2>4. length \in Nat /\ here.last = Before(layout, item) + length
      <3>1. length >= 2
        BY <2>3 DEF WellFormed
      <3>2. PICK b \in Nat, z \in Nat : b = Before(layout, item) /\ z = here.last
        BY <1>0, <2>2
      <3>3. length = z - b
        BY <3>2 DEF length
      <3>4. QED
        BY <3>1, <3>2, <3>3
    <2>5. Before(layout, item + 1) = here.last
      BY <1>0, <2>1 DEF Before
    <2>6. QED
      BY <1>0, <1>1, <2>1, <2>2, <2>3, <2>4, <2>5
  <1>2. CASE item > Len(layout)
    <2>1. here = [kind |-> "v4", last |-> Before(layout, item) + MaxRequest, found |-> 0]
      BY <1>0, <1>2 DEF here
    <2>2. /\ here.kind = "v4" /\ here.last = Before(layout, item) + MaxRequest
          /\ here.found = 0
      BY <2>1
    <2>3. length = MaxRequest
      BY <1>0, <2>2, ConstOK DEF length
    <2>4. WellFormed(here, length)
      BY <2>2, <2>3, ConstOK DEF WellFormed
    <2>5. QED
      BY <1>0, <1>2, <2>2, <2>3, <2>4, ConstOK
  <1>3. QED
    BY <1>0, <1>1, <1>2

LEMMA SameHere ==
    ASSUME UNCHANGED <<layout, item>>
    PROVE  here' = here /\ length' = length /\ payload' = payload
  BY DEF here, length, payload, Before

(* What is asked for is at least a byte, and no more than MaxRequest; and  *)
(* it is there when the item is.                                           *)
LEMMA WantedOK ==
    ASSUME FramingTypeOK, KindInv, WantInv, at \notin {"idle", "scan"}
    PROVE  /\ Wanted \in 1..MaxRequest
           /\ Wanted + (IF at \in {"detect", "record"} THEN HeadV3 ELSE 0) <= length
  <1>0. length \in Nat /\ WellFormed(here, length)
    BY HereOK
  <1>1. CASE at \in {"signature", "three", "five"}
    BY <1>0, <1>1, ConstOK DEF Wanted, KindInv, WellFormed
  <1>2. CASE at = "head"
    <2>1. CASE here.kind = "v4"
      BY <1>0, <1>2, <2>1, ConstOK DEF Wanted, KindInv, WellFormed
    <2>2. CASE here.kind = "v3"
      BY <1>0, <1>2, <2>2, ConstOK DEF Wanted, KindInv, WellFormed
    <2>3. CASE here.kind = "badhead"
      BY <1>0, <1>2, <2>3, ConstOK DEF Wanted, KindInv, WellFormed
    <2>4. QED
      BY <1>2, <2>1, <2>2, <2>3 DEF KindInv
  <1>3. CASE at = "detect"
    <2>1. Wanted = size /\ size \in MinDetect..MaxRecord /\ size <= payload
      BY <1>3 DEF Wanted, WantInv
    <2>2. QED
      BY <1>0, <1>3, <2>1, ConstOK DEF payload
  <1>4. CASE at = "record"
    <2>1. Wanted = length - HeadV3
      BY <1>4 DEF Wanted, payload
    <2>2. length - HeadV3 \in MinDetect..MaxRequest
      BY <1>0, <1>4 DEF WellFormed, KindInv
    <2>3. QED
      BY <1>0, <1>4, <2>1, <2>2, ConstOK
  <1>5. CASE at = "body"
    <2>1. Wanted = length
      BY <1>5 DEF Wanted
    <2>2. length \in HeadV4..MaxRequest
      BY <1>0, <1>5 DEF WellFormed, KindInv
    <2>3. QED
      BY <1>0, <1>5, <2>1, <2>2, ConstOK
  <1>6. QED
    BY <1>1, <1>2, <1>3, <1>4, <1>5 DEF FramingTypeOK

-----------------------------------------------------------------------------
(* Every step is one of the buffer, or none.                               *)
LEMMA BufferStep ==
    ASSUME FramingInv, FramingNext
    PROVE  [Next]_vars
  <1>0. ASSUME NEW m, Read(m) \/ ReadFrame(m) PROVE Next
    <2>1. m \in 0..available /\ connected
      BY <1>0 DEF Read, ReadFrame, Consume
    <2>2. available \in Nat /\ taken \in Nat /\ taken + available = sent /\ sent \in 0..MaxSent
      BY <2>1 DEF FramingInv, Inv, TypeOK, InOrder, LinkInv, available
    <2>3. PICK a \in Nat, t \in Nat : a = available /\ t = taken /\ t + a <= MaxSent
      BY <2>2, ConstOK
    <2>4. m \in 0..MaxSent
      BY <2>1, <2>3, ConstOK
    <2>5. QED
      BY <1>0, <2>4 DEF Next
  <1>1. CASE Demand
    <2>1. Wanted \in 1..MaxRequest
      BY <1>1, WantedOK DEF Demand, FramingInv
    <2>2. QED
      BY <1>1, <2>1 DEF Demand, Next
  <1>2. CASE LineGrows
    <2>1. available \in Nat
      BY DEF FramingInv, Inv, TypeOK, available
    <2>2. available + 1 \in 1..MaxRequest
      BY <1>2, <2>1, ConstOK DEF LineGrows, LineMayGrow
    <2>3. QED
      BY <1>2, <2>2 DEF LineGrows, Next
  <1>3. CASE OpenStream \/ CloseStream \/ LineTooLong \/ TimesOut
    BY <1>3 DEF OpenStream, CloseStream, LineTooLong, TimesOut, Next
  <1>4. ASSUME NEW k \in 1..MaxSent, Arrive(k) PROVE Next
    BY <1>4 DEF Arrive, Next
  <1>5. CASE StartLine \/ StartFrame
    BY <1>5 DEF StartLine, StartFrame
  <1>6. CASE Signature \/ NotEnd \/ ErrorLine \/ Rescan \/ Detected \/ DetectMore \/ NotMseed
             \/ HeaderV4
    BY <1>0, <1>6 DEF Signature, NotEnd, ErrorLine, Rescan, Detected, DetectMore, NotMseed,
       HeaderV4
  <1>7. CASE End \/ LineRead \/ HeaderV3 \/ Record \/ Body
    BY <1>0, <1>7 DEF End, LineRead, HeaderV3, Record, Body
  <1>8. QED
    BY <1>1, <1>2, <1>3, <1>4, <1>5, <1>6, <1>7 DEF FramingNext

(* No more is consumed than was received.                                  *)
LEMMA TakenOK ==
    ASSUME Inv', connected'
    PROVE  taken' \in Nat /\ taken' <= sent'
  <1>1. start' \in Nat /\ cap' \in Nat /\ end' \in start'..cap' /\ taken' \in Nat
    BY DEF Inv, TypeOK
  <1>2. taken' + (end' - start') = sent'
    BY DEF Inv, InOrder, available
  <1>3. QED
    BY <1>1, <1>2

(* The caller gets the item that ends here.                                *)
LEMMA DoneOK ==
    ASSUME FramingInv, Inv', Done, connected, item <= Len(layout), taken' = here.last,
           UNCHANGED <<connected, sent>>, pc' = "idle"
    PROVE  ParserInv'
  <1>0. /\ item \in 1..Len(layout) + 1 /\ layout \in Seq(Item) /\ WellLaid(layout)
        /\ here.last = Before(layout, item + 1) /\ here.last \in Nat
        /\ sent \in 0..MaxSent
    BY LayoutOK, HereOK DEF FramingInv, FramingTypeOK, LinkInv
  <1>1. /\ item' = item + 1 /\ base' = taken' /\ at' = "idle" /\ size' = 0 /\ search' = 0
        /\ layout' = layout /\ torn' = torn
    BY DEF Done
  <1>2. taken' <= MaxSent
    <2>1. taken' \in Nat /\ taken' <= sent'
      BY TakenOK
    <2>2. QED
      BY <1>0, <2>1, ConstOK
  <1>3. FramingTypeOK'
    BY <1>0, <1>1, <1>2, ConstOK DEF FramingInv, FramingTypeOK
  <1>4. LinkInv' /\ KindInv'
    BY <1>0, <1>1 DEF FramingInv, LinkInv, KindInv, Before
  <1>5. ItemsWhole'
    BY <1>0, <1>1 DEF ItemsWhole
  <1>6. PlaceInv' /\ WantInv' /\ NeverWaitsBeyond'
    BY <1>0, <1>1 DEF PlaceInv, WantInv, NeverWaitsBeyond
  <1>7. QED
    BY <1>3, <1>4, <1>5, <1>6 DEF ParserInv

(* The caller gets an exception.                                           *)
LEMMA RaiseOK ==
    ASSUME FramingInv, Raise, UNCHANGED <<connected, sent>>, pc' = "idle"
    PROVE  ParserInv'
  <1>1. /\ at' = "idle" /\ torn' = TRUE /\ size' = 0 /\ search' = 0
        /\ UNCHANGED <<layout, item, base>>
    BY DEF Raise
  <1>2. FramingTypeOK'
    BY <1>1, ConstOK DEF FramingInv, FramingTypeOK
  <1>3. LinkInv' /\ KindInv' /\ ItemsWhole'
    BY <1>1 DEF FramingInv, LinkInv, KindInv, ItemsWhole, Before
  <1>4. PlaceInv' /\ WantInv' /\ NeverWaitsBeyond'
    BY <1>1 DEF PlaceInv, WantInv, NeverWaitsBeyond
  <1>5. QED
    BY <1>2, <1>3, <1>4 DEF ParserInv

(* A new connection, or none.                                              *)
LEMMA ClearOK ==
    ASSUME Clear, pc' = "idle", sent' \in 0..MaxSent,
           \/ connected' /\ layout' \in Layouts /\ taken' = 0 /\ sent' = 0
           \/ ~connected' /\ layout' = <<>>
    PROVE  ParserInv'
  <1>1. /\ at' = "idle" /\ item' = 1 /\ base' = 0 /\ size' = 0 /\ search' = 0
        /\ torn' = FALSE
    BY DEF Clear
  <1>2. FramingTypeOK'
    <2>1. layout' \in Layouts \cup {<<>>}
      OBVIOUS
    <2>2. item' \in 1..Len(layout') + 1
      BY <1>1, <2>1, LayoutOK
    <2>3. base' \in 0..MaxSent /\ search' \in 0..MaxLine
      BY <1>1, ConstOK
    <2>4. QED
      BY <1>1, <2>1, <2>2, <2>3 DEF FramingTypeOK
  <1>3. Before(layout', 1) = 0 /\ Before(layout', Len(layout') + 1) \in Nat
    <2>1. layout' \in Layouts \cup {<<>>}
      OBVIOUS
    <2>2. /\ Len(layout') + 1 \in 1..Len(layout') + 1
          /\ \A i \in 1..Len(layout') + 1 : Before(layout', i) \in Nat
      BY <2>1, LayoutOK
    <2>3. QED
      BY <2>2 DEF Before
  <1>4. LinkInv'
    BY <1>1, <1>3 DEF LinkInv, Before
  <1>5. KindInv' /\ ItemsWhole' /\ PlaceInv' /\ WantInv' /\ NeverWaitsBeyond'
    BY <1>1, ConstOK DEF KindInv, ItemsWhole, PlaceInv, WantInv, NeverWaitsBeyond, Before
  <1>6. QED
    BY <1>2, <1>4, <1>5 DEF ParserInv

-----------------------------------------------------------------------------
(* What a read does, and a look at the buffer.                             *)
LEMMA ReadOK ==
    ASSUME NEW m, Read(m) \/ ReadFrame(m)
    PROVE  /\ connected /\ m \in 0..available /\ taken' = taken + m /\ pc' = "idle"
           /\ UNCHANGED <<connected, need, sent>>
  BY DEF Read, ReadFrame, Consume

LEMMA PeekOK ==
    ASSUME Inv, Read(0)
    PROVE  /\ connected /\ pc' = "idle" /\ available' = available
           /\ UNCHANGED <<connected, taken, need, sent>>
  <1>1. taken \in Nat /\ start \in Nat
    BY DEF Inv, TypeOK
  <1>2. QED
    BY <1>1 DEF Read, Consume, available

(* The reading of an item goes on at another place.                        *)
LEMMA GoOn ==
    ASSUME FramingInv, KindInv', WantInv', connected, ~torn, pc' = "idle", at' # "idle",
           UNCHANGED <<connected, sent, taken, layout, item, base, torn>>,
           at' \in {"signature", "three", "five", "scan", "head", "detect", "record", "body"},
           at' \in {"detect", "record"} <=> at \in {"detect", "record"},
           size' \in {0} \cup MinDetect..MaxRecord, search' \in 0..MaxLine
    PROVE  ParserInv'
  <1>1. FramingTypeOK'
    BY DEF FramingInv, FramingTypeOK
  <1>2. LinkInv'
    BY DEF FramingInv, LinkInv, Before
  <1>3. ItemsWhole'
    BY DEF FramingInv, ItemsWhole, Before
  <1>4. PlaceInv' /\ NeverWaitsBeyond'
    BY DEF FramingInv, PlaceInv, NeverWaitsBeyond
  <1>5. QED
    BY <1>1, <1>2, <1>3, <1>4 DEF ParserInv

LEMMA StartStep ==
    ASSUME FramingInv, StartLine \/ StartFrame
    PROVE  ParserInv'
  <1>1. /\ connected /\ ~torn /\ at = "idle" /\ pc = "idle"
        /\ UNCHANGED <<connected, sent, taken, pc, layout, item, base, torn, size, search>>
    BY DEF StartLine, StartFrame, idle, At, vars
  <1>2. here' = here /\ length' = length
    BY <1>1, SameHere
  <1>3. /\ item \in 1..Len(layout) + 1 /\ size \in {0} \cup MinDetect..MaxRecord
        /\ search = 0 /\ 0 \in 0..MaxLine
    BY <1>1, ConstOK DEF FramingInv, FramingTypeOK, WantInv
  <1>4. WellFormed(here, length) /\ (item > Len(layout) => here.kind = "v4")
    BY HereOK DEF FramingInv
  <1>5. CASE StartLine
    <2>1. at' = "scan" /\ here.kind \in {"line", "noise"}
      BY <1>5 DEF StartLine, At
    <2>2. KindInv'
      BY <1>1, <1>2, <1>3, <1>4, <2>1, LayoutOK DEF KindInv, FramingInv, FramingTypeOK
    <2>3. WantInv'
      BY <1>1, <1>2, <1>3, <1>4, <2>1 DEF WantInv, WellFormed
    <2>4. QED
      BY <1>1, <1>3, <2>1, <2>2, <2>3, GoOn
  <1>6. CASE StartFrame
    <2>1. at' = "signature" /\ here.kind \notin {"line", "noise"}
      BY <1>6 DEF StartFrame, At
    <2>2. KindInv' /\ WantInv'
      BY <1>1, <1>2, <1>3, <2>1 DEF KindInv, WantInv
    <2>3. QED
      BY <1>1, <1>3, <2>1, <2>2, GoOn
  <1>7. QED
    BY <1>5, <1>6

(* After enough of the item was seen.                                      *)
LEMMA LookStep ==
    ASSUME FramingInv,
           \/ Signature \/ NotEnd \/ ErrorLine \/ Rescan \/ Detected \/ DetectMore
           \/ NotMseed \/ HeaderV4
    PROVE  ParserInv'
  <1>1. /\ Read(0) /\ pc = "ready"
        /\ at \in {"signature", "three", "five", "scan", "head", "detect"}
    BY DEF Signature, NotEnd, ErrorLine, Rescan, Detected, DetectMore, NotMseed, HeaderV4,
       looking, scanning
  <1>2. /\ connected /\ pc' = "idle" /\ available' = available
        /\ UNCHANGED <<connected, taken, need, sent>>
    BY <1>1, PeekOK DEF FramingInv
  <1>3. ~torn
    BY <1>1 DEF FramingInv, LinkInv
  <1>4. /\ item \in 1..Len(layout) + 1 /\ size \in {0} \cup MinDetect..MaxRecord
        /\ search \in 0..MaxLine /\ (at # "scan" => search = 0) /\ 0 \in 0..MaxLine
        /\ layout \in Seq(Item)
    BY ConstOK, LayoutOK DEF FramingInv, FramingTypeOK, WantInv
  <1>5. length \in Nat /\ WellFormed(here, length) /\ (item > Len(layout) => here.kind = "v4")
        /\ (item > Len(layout) => item = Len(layout) + 1)
    BY HereOK DEF FramingInv
  <1>6. ASSUME UNCHANGED <<layout, item>> PROVE here' = here /\ length' = length /\ payload' = payload
    BY <1>6, SameHere
  <1>7. ASSUME Raise PROVE ParserInv'
    BY <1>2, <1>7, RaiseOK
  <1>8. CASE Signature
    <2>1. item <= Len(layout)
      <3>1. need = 2 /\ need <= available /\ available \in Nat
        BY <1>1, <1>8 DEF Signature, looking, FramingInv, Inv, EnsureDelivers, TypeOK, available,
           WantInv, Wanted
      <3>2. taken = Before(layout, item) /\ taken \in Nat
        BY <1>2, <1>3, <1>8, ConstOK, HereOK DEF Signature, looking, FramingInv, PlaceInv, ItemsWhole
      <3>3. taken + available = sent /\ sent <= Before(layout, Len(layout) + 1)
        BY <1>2 DEF FramingInv, Inv, InOrder, LinkInv
      <3>4. item # Len(layout) + 1
        BY <3>1, <3>2, <3>3
      <3>5. QED
        BY <1>4, <3>4
    <2>2. CASE ~Raise
      <3>1. /\ at = "signature" /\ UNCHANGED <<layout, item, base, size, search, torn>>
            /\ \/ at' = "head" /\ here.kind \in {"v3", "v4", "badhead"}
               \/ at' = "three" /\ here.kind \in {"end", "error"}
        BY <1>8, <2>2 DEF Signature, AfterSignature, looking, At
      <3>2. KindInv' /\ WantInv'
        BY <1>2, <1>4, <1>6, <2>1, <3>1 DEF KindInv, WantInv
      <3>3. at' \in {"head", "three"}
        BY <3>1
      <3>4. QED
        BY <1>2, <1>3, <1>4, <3>1, <3>2, <3>3, GoOn
    <2>3. QED
      BY <1>7, <2>2
  <1>9. CASE NotEnd
    <2>1. at = "three" /\ at' = "five" /\ UNCHANGED <<layout, item, base, size, search, torn>>
          /\ here.kind = "error" /\ item <= Len(layout)
      BY <1>9 DEF NotEnd, looking, At, FramingInv, KindInv
    <2>2. KindInv' /\ WantInv'
      BY <1>2, <1>4, <1>6, <2>1 DEF KindInv, WantInv
    <2>3. QED
      BY <1>2, <1>3, <1>4, <2>1, <2>2, GoOn
  <1>10. CASE ErrorLine
    <2>1. at = "five" /\ at' = "scan" /\ UNCHANGED <<layout, item, base, size, search, torn>>
          /\ here.kind = "error" /\ item <= Len(layout) /\ length >= 5
      BY <1>5, <1>10 DEF ErrorLine, looking, At, FramingInv, KindInv, WellFormed
    <2>2. KindInv' /\ WantInv'
      BY <1>2, <1>4, <1>5, <1>6, <2>1 DEF KindInv, WantInv
    <2>3. QED
      BY <1>2, <1>3, <1>4, <2>1, <2>2, GoOn
  <1>11. CASE Rescan
    <2>1. at = "scan" /\ at' = "scan" /\ UNCHANGED <<layout, item, base, size, search, torn>>
      BY <1>11 DEF Rescan, scanning, parserVars
    <2>2. KindInv'
      BY <1>6, <2>1 DEF FramingInv, KindInv
    <2>3. WantInv'
      BY <1>2, <1>6, <2>1 DEF FramingInv, WantInv
    <2>4. QED
      BY <1>2, <1>3, <1>4, <2>1, <2>2, <2>3, GoOn
  <1>12. CASE HeaderV4
    <2>1. at = "head" /\ at' = "body" /\ UNCHANGED <<layout, item, base, size, search, torn>>
          /\ here.kind = "v4" /\ item <= Len(layout)
      BY <1>12 DEF HeaderV4, looking, At, FramingInv, KindInv
    <2>2. KindInv' /\ WantInv'
      BY <1>2, <1>4, <1>6, <2>1 DEF KindInv, WantInv
    <2>3. QED
      BY <1>2, <1>3, <1>4, <2>1, <2>2, GoOn
  <1>13. CASE Detected
    <2>1. at = "detect" /\ at' = "record" /\ UNCHANGED <<layout, item, base, size, search, torn>>
          /\ here.kind = "v3" /\ item <= Len(layout)
      BY <1>13 DEF Detected, looking, At, FramingInv, KindInv
    <2>2. KindInv' /\ WantInv'
      BY <1>2, <1>4, <1>6, <2>1 DEF KindInv, WantInv
    <2>3. QED
      BY <1>2, <1>3, <1>4, <2>1, <2>2, GoOn
  <1>14. CASE DetectMore
    <2>1. /\ at = "detect" /\ at' = "detect" /\ UNCHANGED <<layout, item, base, search, torn>>
          /\ here.kind = "v3" /\ item <= Len(layout) /\ size' = PeekNext(size)
          /\ size < here.found /\ size \in MinDetect..MaxRecord
      BY <1>14 DEF DetectMore, looking, FramingInv, KindInv, WantInv
    <2>2. size' <= payload
      BY <1>5, <2>1 DEF WellFormed, payload
    <2>3. size' \in MinDetect..MaxRecord
      BY <2>1, ConstOK DEF PeekNext
    <2>4. KindInv' /\ WantInv'
      BY <1>2, <1>4, <1>6, <2>1, <2>2, <2>3 DEF KindInv, WantInv
    <2>5. QED
      BY <1>2, <1>3, <1>4, <2>1, <2>3, <2>4, GoOn
  <1>15. CASE NotMseed
    BY <1>7, <1>15 DEF NotMseed
  <1>16. QED
    BY <1>8, <1>9, <1>10, <1>11, <1>12, <1>13, <1>14, <1>15

(* A v3 header, or 8 bytes that are none.                                  *)
LEMMA HeaderV3Step ==
    ASSUME FramingInv, Inv', HeaderV3
    PROVE  ParserInv'
  <1>1. /\ connected /\ ~torn /\ at = "head" /\ pc' = "idle" /\ taken' = taken + HeadV3
        /\ UNCHANGED <<connected, need, sent>> /\ item <= Len(layout)
    BY ReadOK DEF HeaderV3, looking, FramingInv, LinkInv, KindInv
  <1>2. CASE here.kind # "v3"
    BY <1>1, <1>2, RaiseOK DEF HeaderV3
  <1>3. CASE here.kind = "v3"
    <2>1. at' = "detect" /\ size' = MinDetect /\ UNCHANGED <<layout, item, base, search, torn>>
      BY <1>3 DEF HeaderV3
    <2>2. here' = here /\ payload' = payload
      BY <2>1, SameHere
    <2>3. MinDetect \in MinDetect..MaxRecord
      BY ConstOK
    <2>4. MinDetect <= payload
      <3>1. length - HeadV3 \in MinDetect..MaxRequest
        BY <1>3, HereOK DEF WellFormed, FramingInv
      <3>2. QED
        BY <3>1, ConstOK DEF payload
    <2>5. FramingTypeOK'
      BY <2>1, <2>3 DEF FramingInv, FramingTypeOK
    <2>6. LinkInv' /\ ItemsWhole'
      BY <1>1, <2>1 DEF FramingInv, LinkInv, ItemsWhole, Before
    <2>7. KindInv'
      BY <1>1, <1>3, <2>1, <2>2 DEF KindInv
    <2>8. PlaceInv'
      <3>1. taken = base + 0 /\ base \in Nat /\ HeadV3 \in Nat
        BY <1>1, ConstOK DEF FramingInv, PlaceInv, FramingTypeOK
      <3>2. taken' = base + HeadV3
        BY <1>1, <3>1
      <3>3. QED
        BY <2>1, <3>2 DEF PlaceInv
    <2>9. WantInv'
      <3>1. search = 0
        BY <1>1 DEF FramingInv, WantInv
      <3>2. QED
        BY <1>1, <2>1, <2>2, <2>3, <2>4, <3>1 DEF WantInv
    <2>10. NeverWaitsBeyond'
      BY <1>1 DEF NeverWaitsBeyond
    <2>11. QED
      BY <2>5, <2>6, <2>7, <2>8, <2>9, <2>10 DEF ParserInv
  <1>4. QED
    BY <1>2, <1>3

(* The first line end found is the end of the item: those of earlier items *)
(* are behind, and noise has nothing after it.                             *)
LEMMA LineEndOK ==
    ASSUME FramingInv, connected, at = "scan", NEW e \in Found, \A f \in Found : e <= f
    PROVE  e = length
  <1>0. /\ layout \in Seq(Item) /\ WellLaid(layout) /\ item \in 1..Len(layout)
        /\ here = layout[item] /\ length \in Nat /\ search \in Nat /\ available \in Nat
        /\ here.kind \in {"line", "noise", "error"} /\ taken = Before(layout, item)
        /\ here.last = taken + length /\ taken \in Nat /\ here.last \in Nat
    <2>1. ~torn
      BY DEF FramingInv, LinkInv
    <2>2. taken = Before(layout, item)
      BY <2>1, HereOK DEF FramingInv, PlaceInv, ItemsWhole
    <2>3. search \in Nat /\ available \in Nat
      BY ConstOK DEF FramingInv, FramingTypeOK, Inv, TypeOK, available
    <2>4. /\ item \in 1..Len(layout) /\ here.kind \in {"line", "noise", "error"}
          /\ layout \in Seq(Item) /\ WellLaid(layout)
      BY LayoutOK DEF FramingInv, FramingTypeOK, KindInv
    <2>5. QED
      BY <2>2, <2>3, <2>4, HereOK DEF FramingInv
  <1>1. PICK j \in 1..Len(layout) :
           layout[j].kind \in {"line", "error"} /\ e = layout[j].last - taken
    BY DEF Found, LineEnds
  <1>2. layout[j].last \in Nat /\ search + 2 <= e /\ e <= available
    <2>1. layout[j] \in Item
      BY <1>0, <1>1
    <2>2. QED
      BY <2>1 DEF Found, Item
  <1>3. j >= item
    <2>1. SUFFICES ASSUME j < item PROVE FALSE
      BY <1>0
    <2>2. item > 1 /\ taken = layout[item - 1].last /\ item - 1 \in 1..Len(layout)
      BY <1>0, <1>1, <2>1 DEF Before
    <2>3. layout[j].last <= layout[item - 1].last
      <3>1. CASE j = item - 1
        BY <1>2, <3>1
      <3>2. CASE j < item - 1
        <4>1. layout[j].last < layout[item - 1].last
          BY <1>0, <2>2, <3>2 DEF WellLaid
        <4>2. QED
          BY SMTT(30), <1>0, <1>2, <2>2, <4>1
      <3>3. QED
        BY <1>0, <2>1, <3>1, <3>2
    <2>4. layout[j].last <= taken
      BY <2>2, <2>3
    <2>5. PICK x \in Nat, y \in Nat, z \in Nat : x = layout[j].last /\ y = taken /\ z = search
      BY <1>0, <1>2
    <2>6. x <= y /\ z + 2 <= x - y
      BY <1>1, <1>2, <2>4, <2>5
    <2>7. QED
      BY <2>6
  <1>4. here.kind # "noise"
    <2>1. here.kind = "noise" => item = Len(layout)
      BY <1>0 DEF WellLaid
    <2>2. QED
      BY <1>0, <1>1, <1>3, <2>1
  <1>5. here.last <= layout[j].last
    <2>1. CASE j = item
      BY <1>0, <2>1
    <2>2. CASE j > item
      <3>1. layout[item].last < layout[j].last
        BY <1>0, <2>2 DEF WellLaid
      <3>2. QED
        BY <1>0, <1>2, <3>1
    <2>3. QED
      BY <1>0, <1>3, <2>1, <2>2
  <1>6. length \in Found
    <2>1. length \in LineEnds
      <3>1. length = layout[item].last - taken
        BY <1>0
      <3>2. QED
        BY <1>0, <1>4, <3>1 DEF LineEnds
    <2>2. search + 2 <= length
      BY <1>4 DEF FramingInv, WantInv
    <2>3. length <= available
      BY <1>0, <1>1, <1>2, <1>5
    <2>4. QED
      BY <2>1, <2>2, <2>3 DEF Found
  <1>7. QED
    BY <1>0, <1>1, <1>2, <1>5, <1>6

(* An item is read to its end.                                             *)
LEMMA ItemStep ==
    ASSUME FramingInv, Inv', End \/ LineRead \/ Record \/ Body
    PROVE  ParserInv'
  <1>0. /\ at \in {"three", "scan", "record", "body"} /\ Done /\ connected
        /\ pc' = "idle" /\ UNCHANGED <<connected, sent>>
    BY ReadOK DEF End, LineRead, Record, Body, looking, scanning
  <1>1. /\ ~torn /\ item <= Len(layout) /\ length \in Nat /\ WellFormed(here, length)
        /\ here.last = base + length /\ base \in Nat /\ HeadV3 \in Nat
    BY <1>0, HereOK, ConstOK DEF FramingInv, LinkInv, KindInv, ItemsWhole
  <1>2. taken = base + IF at = "record" THEN HeadV3 ELSE 0
    BY <1>0, <1>1 DEF FramingInv, PlaceInv
  <1>3. CASE End
    <2>1. taken' = taken + 3 /\ at = "three" /\ here.kind = "end"
      BY <1>3, ReadOK DEF End, looking
    <2>2. taken' = here.last
      BY <1>1, <1>2, <2>1 DEF WellFormed
    <2>3. QED
      BY <1>0, <1>1, <2>2, DoneOK
  <1>4. CASE LineRead
    <2>1. PICK e \in Found : (\A f \in Found : e <= f) /\ (Read(e) \/ ReadFrame(e))
      BY <1>4 DEF LineRead
    <2>2. at = "scan" /\ e = length
      BY <1>0, <1>4, <2>1, LineEndOK DEF LineRead, scanning
    <2>3. taken' = taken + e
      BY <2>1, ReadOK
    <2>4. taken' = here.last
      BY <1>1, <1>2, <2>2, <2>3
    <2>5. QED
      BY <1>0, <1>1, <2>4, DoneOK
  <1>5. CASE Record
    <2>1. taken' = taken + payload /\ at = "record"
      BY <1>5, ReadOK DEF Record, looking
    <2>2. taken' = here.last
      BY <1>1, <1>2, <2>1 DEF payload
    <2>3. QED
      BY <1>0, <1>1, <2>2, DoneOK
  <1>6. CASE Body
    <2>1. taken' = taken + length /\ at = "body"
      BY <1>6, ReadOK DEF Body, looking
    <2>2. taken' = here.last
      BY <1>1, <1>2, <2>1
    <2>3. QED
      BY <1>0, <1>1, <2>2, DoneOK
  <1>7. QED
    BY <1>3, <1>4, <1>5, <1>6
-----------------------------------------------------------------------------
(* Bytes arrive; they are asked for; nobody sends any.                     *)
LEMMA ArriveStep ==
    ASSUME FramingInv, NEW k \in 1..MaxSent, Arrive(k)
    PROVE  ParserInv'
  <1>1. /\ pc = "fill" /\ sent' = sent + k /\ sent + k <= MaxSent /\ end' = end + k
        /\ sent + k <= Before(layout, Len(layout) + 1) /\ pc' \in {"fill", "ready"}
        /\ UNCHANGED <<start, connected, need, taken>>
        /\ UNCHANGED <<layout, item, base, at, size, search, torn>>
    BY DEF Arrive, RecvInto, parserVars
  <1>2. connected /\ at # "idle" /\ sent \in Nat
    BY <1>1 DEF FramingInv, Inv, TypeOK, LinkInv
  <1>3. available' > available
    BY <1>1 DEF FramingInv, Inv, TypeOK, available
  <1>4. here' = here /\ length' = length /\ payload' = payload /\ Wanted' = Wanted
    BY <1>1, SameHere DEF Wanted
  <1>5. FramingTypeOK' /\ ItemsWhole' /\ PlaceInv'
    BY <1>1 DEF FramingInv, FramingTypeOK, ItemsWhole, PlaceInv, Before
  <1>6. LinkInv'
    <2>1. sent' \in 0..MaxSent
      BY <1>1, <1>2, ConstOK
    <2>2. sent' <= Before(layout', Len(layout') + 1)
      BY <1>1 DEF Before
    <2>3. QED
      BY <1>1, <1>2, <2>1, <2>2 DEF FramingInv, LinkInv
  <1>7. KindInv'
    BY <1>1, <1>4 DEF FramingInv, KindInv
  <1>8. WantInv'
    <2>1. search # 0 => search < available'
      <3>1. available \in Nat /\ available' \in Int /\ search \in Nat
        BY <1>1, ConstOK DEF FramingInv, Inv, TypeOK, FramingTypeOK, available
      <3>2. search # 0 => search < available
        BY DEF FramingInv, WantInv
      <3>3. QED
        BY <1>3, <3>1, <3>2
    <2>2. QED
      BY <1>1, <1>4, <2>1 DEF FramingInv, WantInv
  <1>9. NeverWaitsBeyond'
    BY <1>1, <1>4 DEF FramingInv, NeverWaitsBeyond
  <1>10. QED
    BY <1>5, <1>6, <1>7, <1>8, <1>9 DEF ParserInv

LEMMA EnsureOK ==
    ASSUME Inv, NEW n \in 1..MaxRequest, Ensure(n)
    PROVE  /\ connected /\ pc = "idle" /\ pc' \in {"fill", "ready"} /\ need' = n
           /\ available' = available
           /\ UNCHANGED <<connected, sent, taken>>
  <1>1. CASE available >= n
    BY <1>1 DEF Ensure, bufVars, available
  <1>2. CASE ~(available >= n)
    <2>1. PrepareRoom(n) /\ available < n
      BY <1>2 DEF Ensure, Inv, TypeOK, available
    <2>2. available' = available
      BY <2>1, PrepareRoomOK DEF Inv, available
    <2>3. QED
      BY <1>2, <2>2 DEF Ensure
  <1>3. QED
    BY <1>1, <1>2

LEMMA DemandStep ==
    ASSUME FramingInv, Demand
    PROVE  ParserInv'
  <1>1. /\ at \notin {"idle", "scan"} /\ Ensure(Wanted)
        /\ UNCHANGED <<layout, item, base, at, size, search, torn>>
    BY DEF Demand, parserVars
  <1>2. /\ Wanted \in 1..MaxRequest
        /\ Wanted + (IF at \in {"detect", "record"} THEN HeadV3 ELSE 0) <= length
    BY <1>1, WantedOK DEF FramingInv
  <1>3. /\ connected /\ pc' \in {"fill", "ready"} /\ need' = Wanted /\ available' = available
        /\ UNCHANGED <<connected, sent, taken>>
    BY <1>1, <1>2, EnsureOK DEF FramingInv
  <1>4. here' = here /\ length' = length /\ payload' = payload /\ Wanted' = Wanted
    BY <1>1, SameHere DEF Wanted
  <1>5. FramingTypeOK' /\ ItemsWhole' /\ PlaceInv'
    BY <1>1, <1>3 DEF FramingInv, FramingTypeOK, ItemsWhole, PlaceInv, Before
  <1>6. LinkInv' /\ KindInv'
    BY <1>1, <1>3, <1>4 DEF FramingInv, LinkInv, KindInv, Before
  <1>7. WantInv'
    BY <1>1, <1>3, <1>4 DEF FramingInv, WantInv
  <1>8. NeverWaitsBeyond'
    <2>1. ~torn
      BY <1>1 DEF FramingInv, LinkInv
    <2>2. taken = Before(layout, item) + IF at \in {"detect", "record"} THEN HeadV3 ELSE 0
      BY <1>3, <2>1 DEF FramingInv, PlaceInv, ItemsWhole
    <2>3. /\ Before(layout, item) \in Nat /\ length \in Nat
          /\ here.last = Before(layout, item) + length
      BY HereOK DEF FramingInv
    <2>4. PICK w \in Nat, b \in Nat, n \in Nat, h \in Nat :
             /\ w = Wanted /\ b = Before(layout, item) /\ n = length
             /\ h = IF at \in {"detect", "record"} THEN HeadV3 ELSE 0
      BY <1>2, <2>3, ConstOK
    <2>5. w + h <= n
      BY <1>2, <2>4
    <2>6. taken = b + h /\ here.last = b + n
      BY <2>2, <2>3, <2>4
    <2>7. taken + w <= here.last
      BY <2>5, <2>6
    <2>8. QED
      BY <1>3, <1>4, <2>4, <2>7 DEF NeverWaitsBeyond
  <1>9. QED
    BY <1>5, <1>6, <1>7, <1>8 DEF ParserInv

(* No line end yet: the item is longer than what has arrived of it.        *)
LEMMA LineGrowsStep ==
    ASSUME FramingInv, LineGrows
    PROVE  ParserInv'
  <1>1. /\ at = "scan" /\ Found = {} /\ available < MaxLine /\ search' = Searched
        /\ Ensure(available + 1)
        /\ UNCHANGED <<layout, item, base, at, size, torn>>
    BY DEF LineGrows, scanning, LineMayGrow
  <1>2. available \in Nat /\ taken \in Nat /\ search \in Nat
    BY ConstOK DEF FramingInv, Inv, TypeOK, FramingTypeOK, available
  <1>3. PICK a \in Nat : a = available
    BY <1>2
  <1>4. a + 1 \in 1..MaxRequest /\ a < MaxLine
    BY <1>1, <1>3, ConstOK
  <1>5. /\ connected /\ pc' \in {"fill", "ready"} /\ need' = a + 1 /\ available' = a
        /\ UNCHANGED <<connected, sent, taken>>
    BY <1>1, <1>3, <1>4, EnsureOK DEF FramingInv
  <1>6. here' = here /\ length' = length /\ payload' = payload
    BY <1>1, SameHere
  <1>7. /\ ~torn /\ item \in 1..Len(layout) /\ here = layout[item] /\ layout \in Seq(Item)
        /\ here.kind \in {"line", "noise", "error"} /\ length \in Nat
        /\ WellFormed(here, length) /\ taken = Before(layout, item)
        /\ here.last = taken + length
    <2>1. /\ ~torn /\ item \in 1..Len(layout) /\ layout \in Seq(Item)
          /\ here.kind \in {"line", "noise", "error"}
      BY <1>1, LayoutOK DEF FramingInv, LinkInv, KindInv, FramingTypeOK
    <2>2. taken = Before(layout, item)
      BY <1>1, <1>5, <2>1, HereOK DEF FramingInv, PlaceInv, ItemsWhole
    <2>3. QED
      BY <2>1, <2>2, HereOK DEF FramingInv
  <1>8. a < length
    <2>1. CASE here.kind = "noise"
      BY <1>4, <1>7, <2>1, ConstOK DEF WellFormed
    <2>2. CASE here.kind # "noise"
      <3>1. length \in LineEnds
        <4>1. length = layout[item].last - taken
          BY <1>2, <1>7
        <4>2. layout[item].kind \in {"line", "error"}
          BY <1>7, <2>2
        <4>3. QED
          BY <1>7, <4>1, <4>2 DEF LineEnds
      <3>2. search + 2 <= length
        BY <1>1, <2>2 DEF FramingInv, WantInv
      <3>3. ~(length <= available)
        BY <1>1, <3>1, <3>2 DEF Found
      <3>4. QED
        BY <1>3, <1>7, <3>3
    <2>3. QED
      BY <2>1, <2>2
  <1>9. /\ search' \in 0..MaxLine /\ search' + 2 <= length
        /\ search' # 0 => search' < a
    <2>1. search' = IF a = 0 THEN 0 ELSE a - 1
      BY <1>1, <1>3 DEF Searched
    <2>2. length >= 2
      BY <1>7 DEF WellFormed
    <2>3. QED
      BY <1>4, <1>7, <1>8, <2>1, <2>2, ConstOK
  <1>10. FramingTypeOK' /\ ItemsWhole' /\ PlaceInv'
    BY <1>1, <1>5, <1>9 DEF FramingInv, FramingTypeOK, ItemsWhole, PlaceInv, Before
  <1>11. LinkInv' /\ KindInv'
    BY <1>1, <1>5, <1>6 DEF FramingInv, LinkInv, KindInv, Before
  <1>12. WantInv'
    BY <1>1, <1>5, <1>6, <1>9 DEF WantInv
  <1>13. NeverWaitsBeyond'
    <2>1. taken + (a + 1) <= here.last
      BY <1>2, <1>7, <1>8
    <2>2. QED
      BY <1>5, <1>6, <2>1 DEF NeverWaitsBeyond
  <1>14. QED
    BY <1>10, <1>11, <1>12, <1>13 DEF ParserInv

LEMMA TimesOutStep ==
    ASSUME FramingInv, TimesOut
    PROVE  ParserInv'
  <1>1. /\ pc = "fill" /\ pc' = "idle" /\ available = 0
        /\ UNCHANGED <<connected, taken, sent, need>> /\ available' = available
    BY DEF TimesOut, CleanTimeout, bufVars, available
  <1>2. CASE taken # base
    BY <1>1, <1>2, RaiseOK DEF TimesOut
  <1>3. CASE taken = base
    <2>1. /\ at' = "idle" /\ UNCHANGED <<layout, item, base, size, search, torn>>
      BY <1>3 DEF TimesOut, At
    <2>2. search = 0
      <3>1. search \in Nat /\ (search # 0 => search < available)
        BY ConstOK DEF FramingInv, FramingTypeOK, WantInv
      <3>2. QED
        BY <1>1, <3>1
    <2>3. FramingTypeOK' /\ LinkInv' /\ KindInv' /\ ItemsWhole'
      BY <1>1, <2>1 DEF FramingInv, FramingTypeOK, LinkInv, KindInv, ItemsWhole, Before
    <2>4. PlaceInv'
      <3>1. base \in Nat
        BY ConstOK DEF FramingInv, FramingTypeOK
      <3>2. QED
        BY <1>1, <1>3, <2>1, <3>1 DEF PlaceInv
    <2>5. WantInv' /\ NeverWaitsBeyond'
      BY <1>1, <2>1, <2>2 DEF WantInv, NeverWaitsBeyond
    <2>6. QED
      BY <2>3, <2>4, <2>5 DEF ParserInv
  <1>4. QED
    BY <1>2, <1>3

(* Every step keeps the invariant.                                         *)
LEMMA ParserStep ==
    ASSUME FramingInv, Inv', FramingNext
    PROVE  ParserInv'
  <1>1. CASE OpenStream
    <2>1. /\ Clear /\ layout' \in Layouts /\ connected' /\ taken' = 0 /\ sent' = 0
          /\ UNCHANGED pc /\ ~connected
      BY <1>1 DEF OpenStream, Connect
    <2>2. pc' = "idle" /\ sent' \in 0..MaxSent
      BY <2>1, ConstOK DEF FramingInv, Inv
    <2>3. QED
      BY <2>1, <2>2, ClearOK
  <1>2. CASE CloseStream \/ LineTooLong
    <2>1. /\ Clear /\ layout' = <<>> /\ ~connected' /\ pc' = "idle" /\ UNCHANGED sent
      BY <1>2 DEF CloseStream, LineTooLong, Close
    <2>2. sent' \in 0..MaxSent
      BY <2>1 DEF FramingInv, LinkInv
    <2>3. QED
      BY <2>1, <2>2, ClearOK
  <1>3. CASE TimesOut
    BY <1>3, TimesOutStep
  <1>4. ASSUME NEW k \in 1..MaxSent, Arrive(k) PROVE ParserInv'
    BY <1>4, ArriveStep
  <1>5. CASE StartLine \/ StartFrame
    BY <1>5, StartStep
  <1>6. CASE Demand
    BY <1>6, DemandStep
  <1>7. CASE End \/ LineRead \/ Record \/ Body
    BY <1>7, ItemStep
  <1>8. CASE LineGrows
    BY <1>8, LineGrowsStep
  <1>9. CASE HeaderV3
    BY <1>9, HeaderV3Step
  <1>10. CASE Signature \/ NotEnd \/ ErrorLine \/ Rescan \/ Detected \/ DetectMore \/ NotMseed
              \/ HeaderV4
    BY <1>10, LookStep
  <1>11. QED
    BY <1>1, <1>2, <1>3, <1>4, <1>5, <1>6, <1>7, <1>8, <1>9, <1>10 DEF FramingNext

LEMMA Stutters ==
    ASSUME FramingInv, UNCHANGED <<vars, parserVars>>
    PROVE  ParserInv'
  <1>1. /\ UNCHANGED <<layout, item, base, at, size, search, torn>>
        /\ UNCHANGED <<connected, pc, need, sent, taken, start, end>>
    BY DEF vars, parserVars, bufVars
  <1>2. here' = here /\ length' = length /\ payload' = payload /\ Wanted' = Wanted
        /\ available' = available
    BY <1>1, SameHere DEF Wanted, available
  <1>3. FramingTypeOK' /\ LinkInv' /\ KindInv'
    BY <1>1, <1>2 DEF FramingInv, FramingTypeOK, LinkInv, KindInv, Before
  <1>4. ItemsWhole' /\ PlaceInv' /\ WantInv' /\ NeverWaitsBeyond'
    BY <1>1, <1>2 DEF FramingInv, ItemsWhole, PlaceInv, WantInv, NeverWaitsBeyond, Before
  <1>5. QED
    BY <1>3, <1>4 DEF ParserInv

LEMMA FramingStarts == FramingInit => FramingInv
  <1> SUFFICES ASSUME FramingInit PROVE FramingInv
    OBVIOUS
  <1>1. Inv
    BY InvInit DEF FramingInit
  <1>2. /\ layout = <<>> /\ item = 1 /\ base = 0 /\ at = "idle" /\ size = 0 /\ search = 0
        /\ torn = FALSE /\ connected = FALSE /\ pc = "idle" /\ sent = 0
    BY DEF FramingInit, Init
  <1>3. FramingTypeOK
    <2>1. item \in 1..Len(layout) + 1 /\ base \in 0..MaxSent /\ search \in 0..MaxLine
      BY <1>2, ConstOK
    <2>2. torn \in BOOLEAN
      BY <1>2
    <2>3. QED
      BY <1>2, <2>1, <2>2 DEF FramingTypeOK
  <1>4. LinkInv /\ KindInv
    BY <1>2, ConstOK DEF LinkInv, KindInv
  <1>5. ItemsWhole /\ PlaceInv
    BY <1>2 DEF ItemsWhole, PlaceInv, Before
  <1>6. WantInv /\ NeverWaitsBeyond
    BY <1>2 DEF WantInv, NeverWaitsBeyond
  <1>7. QED
    BY <1>1, <1>3, <1>4, <1>5, <1>6 DEF FramingInv

LEMMA FramingStep == FramingInv /\ [FramingNext]_<<vars, parserVars>> => FramingInv'
  <1> SUFFICES ASSUME FramingInv, [FramingNext]_<<vars, parserVars>> PROVE FramingInv'
    OBVIOUS
  <1>1. CASE FramingNext
    <2>1. Inv'
      BY <1>1, BufferStep, InvStep DEF FramingInv
    <2>2. ParserInv'
      BY <1>1, <2>1, ParserStep
    <2>3. QED
      BY <2>1, <2>2 DEF ParserInv, FramingInv
  <1>2. CASE UNCHANGED <<vars, parserVars>>
    <2>1. Inv'
      BY <1>2, InvStep DEF FramingInv
    <2>2. ParserInv'
      BY <1>2, Stutters
    <2>3. QED
      BY <2>1, <2>2 DEF ParserInv, FramingInv
  <1>3. QED
    BY <1>1, <1>2

LEMMA FramingAlways == FramingSpec => []FramingInv
  BY FramingStarts, FramingStep, PTL DEF FramingSpec

-----------------------------------------------------------------------------
(* Whatever the server lays out and however it arrives: each read begins   *)
(* where an item does, and the item before it was handed over whole        *)
(* (_read_line() and _recv_frame()).                                       *)
THEOREM ItemsCutWhole == FramingSpec => []ItemsWhole
  BY FramingAlways, PTL DEF FramingInv

(* No _ensure() waits for a byte behind the item it reads, so an item that *)
(* has arrived is handed over (client.py:304-307 of a bare END).           *)
THEOREM NothingAwaitedBeyond == FramingSpec => []NeverWaitsBeyond
  BY FramingAlways, PTL DEF FramingInv

(* A timeout with an open connection leaves the stream where an item       *)
(* begins, but for a v3 packet (client.py:239-246, _read_mseed_payload()). *)
THEOREM PlaceKept == FramingSpec => TimeoutKeepsPlace
  <1>1. ASSUME FramingInv PROVE CleanTimeout /\ here.kind # "v3" => taken = base
    <2> SUFFICES ASSUME CleanTimeout, here.kind # "v3" PROVE taken = base
      OBVIOUS
    <2>1. pc = "fill" /\ at # "idle" /\ ~torn /\ connected
      BY <1>1 DEF CleanTimeout, FramingInv, LinkInv, Inv
    <2>2. at \notin {"detect", "record"}
      BY <1>1 DEF FramingInv, KindInv
    <2>3. taken = base + 0 /\ base \in Nat
      BY <1>1, <2>1, <2>2, ConstOK DEF FramingInv, PlaceInv, FramingTypeOK
    <2>4. QED
      BY <2>3
  <1>2. QED
    BY <1>1, FramingAlways, PTL DEF TimeoutKeepsPlace

(* Reading lines and frames is a use of the receive buffer: what is asked  *)
(* for is within its limits, and it is consumed from its start.            *)
THEOREM FramingUsesBuffer == FramingSpec => UsesBuffer
  <1>1. FramingInit => Init
    BY DEF FramingInit
  <1>2. ASSUME FramingInv, [FramingNext]_<<vars, parserVars>> PROVE [Next]_vars
    BY <1>2, BufferStep
  <1>3. QED
    BY <1>1, <1>2, FramingAlways, PTL DEF FramingSpec, UsesBuffer, Spec

(* So lines and frames are cut from the very bytes that were sent, in      *)
(* order, out of a buffer below twice the largest frame.                   *)
THEOREM FramingHandsOverStream == FramingSpec => HandsOverStream /\ []Bounded
  BY FramingUsesBuffer, BufferImplementsStream, BufferSafe, PTL DEF UsesBuffer
=============================================================================
