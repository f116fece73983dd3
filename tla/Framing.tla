------------------------------ MODULE Framing ------------------------------
(***************************************************************************)
(* How lines and frames are cut out of the byte stream: _read_line() and   *)
(* _recv_frame() over the receive buffer, one _ensure() at a time.         *)
(*                                                                         *)
(* The server lays items end to end, each of a kind and a length.  The     *)
(* content of a byte follows from its number, so a peek shows the kind of  *)
(* the item once enough of it is there, and no byte has a value here.  The *)
(* lengths of the code are scaled down, but for the 2, 3 and 5 bytes that  *)
(* tell a signature, "END" and "ERROR" apart.                              *)
(***************************************************************************)
EXTENDS RecvBuffer, Sequences

CONSTANTS Layouts,     \* what servers send: sequences of items
          HeadV3,      \* HEADSIZE_V3
          HeadV4,      \* HEADSIZE_V4
          MinDetect,   \* MIN_PAYLOAD_DETECT
          MaxRecord,   \* MAX_RECORD_LEN
          MaxLine      \* MAX_LINE_LEN

(* A "line" answers a command; "noise" is one that never ends.  `last' is  *)
(* the number of an item's last byte.  `found' is of v3 packets: how much  *)
(* of the payload ms3_detect() needs to tell its length, beyond MaxRecord  *)
(* if it never can.                                                        *)
Item == [kind : {"line", "noise", "end", "error", "v3", "v4", "junk", "badhead"},
         last : Nat \ {0}, found : Nat]

(* The bytes of items before the i-th.                                     *)
Before(items, i) == IF i = 1 THEN 0 ELSE items[i - 1].last

PeekNext(n) == IF 2 * n < MaxRecord THEN 2 * n ELSE MaxRecord

(* What an item x of n bytes may be.  A v3 record is at least as long as   *)
(* each peek that tells its length.                                        *)
WellFormed(x, n) ==
    /\ n >= 2
    /\ x.kind = "noise"   => n >= MaxLine
    /\ x.kind = "end"     => n = 3
    /\ x.kind = "error"   => n >= 5
    /\ x.kind = "badhead" => n >= HeadV3
    /\ x.kind = "v4"      => n \in HeadV4..MaxRequest
    /\ x.kind = "v3"      =>
          /\ n - HeadV3 \in MinDetect..MaxRequest
          /\ \A size \in MinDetect..MaxRecord : size < x.found => PeekNext(size) <= n - HeadV3

WellLaid(items) ==
    /\ \A i, j \in 1..Len(items) : i < j => items[i].last < items[j].last
    /\ \A i \in 1..Len(items) :
          /\ WellFormed(items[i], items[i].last - Before(items, i))
          /\ items[i].kind = "noise" => i = Len(items)

ASSUME FramingAssumption ==
    /\ Layouts \subseteq Seq(Item) /\ \A items \in Layouts : WellLaid(items)
    /\ {HeadV3, HeadV4, MinDetect, MaxRecord, MaxLine} \subseteq 1..MaxRequest
    /\ MinDetect <= MaxRecord /\ MaxRequest >= 5

VARIABLES layout,   \* what this connection's server sends
          item,     \* the number of the item that is read
          base,     \* bytes consumed before it
          at,       \* where in the reading of it
          size,     \* the peek of _read_mseed_payload()
          search,   \* search_from of _read_line()
          torn      \* an exception left the stream inside an item

parserVars == <<layout, item, base, at, size, search, torn>>

(* The item at hand; when all are read, one that never comes.              *)
here == IF item <= Len(layout) THEN layout[item]
        ELSE [kind |-> "v4", last |-> Before(layout, item) + MaxRequest, found |-> 0]

length == here.last - Before(layout, item)

payload == length - HeadV3

FramingInit ==
    /\ Init
    /\ layout = <<>> /\ item = 1 /\ base = 0
    /\ at = "idle" /\ size = 0 /\ search = 0 /\ torn = FALSE

-----------------------------------------------------------------------------
At(place) == at' = place /\ UNCHANGED <<layout, item, base, size, search, torn>>

(* Back to the caller with the item.                                       *)
Done == /\ at' = "idle" /\ item' = item + 1 /\ base' = taken'
        /\ size' = 0 /\ search' = 0
        /\ UNCHANGED <<layout, torn>>

(* Back to the caller with an exception that does not close().             *)
Raise == /\ at' = "idle" /\ torn' = TRUE /\ size' = 0 /\ search' = 0
         /\ UNCHANGED <<layout, item, base>>

Clear == at' = "idle" /\ item' = 1 /\ base' = 0 /\ size' = 0 /\ search' = 0 /\ torn' = FALSE

OpenStream == Connect /\ layout' \in Layouts /\ Clear

(* By the caller, an error, or end of file.                                *)
CloseStream == Close /\ layout' = <<>> /\ Clear

Arrive(k) == RecvInto(k) /\ sent + k <= Before(layout, Len(layout) + 1) /\ UNCHANGED parserVars

(* A timeout with nothing buffered leaves the connection as it is.         *)
TimesOut == CleanTimeout /\ IF taken = base THEN At("idle") ELSE Raise

idle == connected /\ at = "idle" /\ pc = "idle" /\ ~torn

StartLine == idle /\ here.kind \in {"line", "noise"} /\ UNCHANGED vars /\ At("scan")

StartFrame == idle /\ here.kind \notin {"line", "noise"} /\ UNCHANGED vars /\ At("signature")

(* What each place has _ensure()d before it looks.                         *)
Wanted ==
    CASE at = "signature" -> 2
      [] at = "three"     -> 3
      [] at = "five"      -> 5
      [] at = "head"      -> IF here.kind = "v4" THEN HeadV4 ELSE HeadV3
      [] at = "detect"    -> size
      [] at = "record"    -> payload
      [] at = "body"      -> length

Demand == at \notin {"idle", "scan"} /\ Ensure(Wanted) /\ UNCHANGED parserVars

looking(place) == at = place /\ pc = "ready"

(* Mutant: all five bytes that could matter are peeked at once.            *)
AfterSignatureFive ==
    \/ here.kind \in {"v3", "v4", "badhead"} /\ At("head")
    \/ here.kind \in {"end", "error"} /\ At("five")
    \/ here.kind \in {"line", "noise", "junk"} /\ Raise

(* is_packet_signature(), or an 'E', or neither.                           *)
AfterSignature ==
    \/ here.kind \in {"v3", "v4", "badhead"} /\ At("head")
    \/ here.kind \in {"end", "error"} /\ At("three")
    \/ here.kind \in {"line", "noise", "junk"} /\ Raise

Signature == looking("signature") /\ Read(0) /\ AfterSignature

End == looking("three") /\ here.kind = "end" /\ ReadFrame(3) /\ Done

NotEnd == looking("three") /\ here.kind # "end" /\ Read(0) /\ At("five")

ErrorLine == looking("five") /\ Read(0) /\ At("scan")

-----------------------------------------------------------------------------
(* _read_line() and scan_line().                                           *)

(* Where the lines in the stream end, counted from _recv_start.            *)
LineEnds == {layout[i].last - taken :
                 i \in {j \in 1..Len(layout) : layout[j].kind \in {"line", "error"}}}

(* find(b"\r\n", start + search_from, end)                                 *)
Found == {e \in LineEnds : search + 2 <= e /\ e <= available}

(* Mutant: a line end that arrives in two pieces is overlooked.            *)
SearchedAll == available

(* max(0, available - 1): the last byte may be half of a line end.         *)
Searched == IF available = 0 THEN 0 ELSE available - 1

scanning == at = "scan" /\ connected

(* The buffer is looked at again after each fill.                          *)
Rescan == scanning /\ pc = "ready" /\ Read(0) /\ UNCHANGED parserVars

(* A reply; or an ERROR line, after which _recv_frame() releases the buffer. *)
LineRead ==
    /\ scanning /\ pc = "idle"
    /\ \E e \in Found :
          /\ \A f \in Found : e <= f
          /\ IF here.kind = "error" THEN ReadFrame(e) ELSE Read(e)
    /\ Done

(* Mutant: no limit on a line.                                             *)
LineUnlimited == TRUE

LineMayGrow == available < MaxLine

LineGrows ==
    /\ scanning /\ pc = "idle" /\ Found = {} /\ LineMayGrow
    /\ Ensure(available + 1)
    /\ search' = Searched
    /\ UNCHANGED <<layout, item, base, at, size, torn>>

LineTooLong ==
    /\ scanning /\ pc = "idle" /\ Found = {} /\ ~LineMayGrow
    /\ CloseStream

-----------------------------------------------------------------------------
(* _recv_frame_v3() and _read_mseed_payload().                             *)

HeaderV3 ==
    /\ looking("head") /\ here.kind \in {"v3", "badhead"}
    /\ Read(HeadV3)
    /\ IF here.kind = "v3"
       THEN at' = "detect" /\ size' = MinDetect /\ UNCHANGED <<layout, item, base, search, torn>>
       ELSE Raise

Detected == looking("detect") /\ here.found <= size /\ Read(0) /\ At("record")

DetectMore ==
    /\ looking("detect") /\ here.found > size /\ size < MaxRecord
    /\ Read(0)
    /\ size' = PeekNext(size)
    /\ UNCHANGED <<layout, item, base, at, search, torn>>

NotMseed ==
    /\ looking("detect") /\ here.found > size /\ size >= MaxRecord
    /\ Read(0) /\ Raise

Record == looking("record") /\ ReadFrame(payload) /\ Done

(* Mutant: the header of a v4 frame is taken before the rest is there.     *)
HeaderV4Taken == looking("head") /\ here.kind = "v4" /\ Read(HeadV4) /\ At("body")

(* _recv_frame_v4(): nothing is consumed before all of the frame is there. *)
HeaderV4 == looking("head") /\ here.kind = "v4" /\ Read(0) /\ At("body")

Body == looking("body") /\ ReadFrame(length) /\ Done

FramingNext ==
    \/ OpenStream \/ CloseStream \/ TimesOut
    \/ \E k \in 1..MaxSent : Arrive(k)
    \/ StartLine \/ StartFrame \/ Demand
    \/ Signature \/ End \/ NotEnd \/ ErrorLine
    \/ Rescan \/ LineRead \/ LineGrows \/ LineTooLong
    \/ HeaderV3 \/ Detected \/ DetectMore \/ NotMseed \/ Record
    \/ HeaderV4 \/ Body

FramingSpec == FramingInit /\ [][FramingNext]_<<vars, parserVars>>

-----------------------------------------------------------------------------
FramingTypeOK ==
    /\ layout \in Layouts \cup {<<>>}
    /\ item \in 1..Len(layout) + 1 /\ base \in 0..MaxSent
    /\ at \in {"idle", "signature", "three", "five", "scan", "head", "detect", "record",
               "body"}
    /\ size \in {0} \cup MinDetect..MaxRecord /\ search \in 0..MaxLine
    /\ torn \in BOOLEAN

(* Each read hands over one item: it begins where the one before it ended, *)
(* however the bytes arrive, in the middle of a line end too.              *)
ItemsWhole == base = Before(layout, item)

(* An item that has arrived is handed over without waiting for a byte      *)
(* behind it: a bare END with nothing behind it does not block             *)
(* (client.py:304-307), nor does a record that is shorter than the next    *)
(* peek.  A record shorter than MIN_PAYLOAD_DETECT, or one whose length is *)
(* told only by the next record's header, would: Layouts leaves them out.  *)
NeverWaitsBeyond ==
    pc = "fill" /\ item <= Len(layout) => taken + need <= here.last

(* A timeout that keeps the connection open leaves the stream at the start *)
(* of an item, so a later call may go on (client.py:239-246).  A v3 header *)
(* is taken before its payload is waited for: there it does not.           *)
TimeoutKeepsPlace ==
    [][CleanTimeout /\ here.kind # "v3" => taken = base]_<<vars, parserVars>>

(* The reads are reads of RecvBuffer: what is proved of it holds here; no  *)
(* line or frame asks for more than MaxRequest.                            *)
UsesBuffer == Spec
=============================================================================
