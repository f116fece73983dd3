-------------------------------- MODULE Wire --------------------------------
(***************************************************************************)
(* One TCP connection between the client and a SeedLink server, at the     *)
(* grain the client works at: commands one way, whole reply lines and      *)
(* frames the other.  A connection that the server or the network cut      *)
(* still delivers what had already arrived (any prefix of it), then end of *)
(* file.                                                                   *)
(***************************************************************************)
EXTENDS Commands, Sequences

CONSTANTS Stations,     \* the stations the server holds data of
          Covers,       \* Covers[i]: the stations stream i's pattern matches
          MaxPackets,   \* bound: packets published per station
          FaultKinds,   \* the faults the environment may inject
          MaxFaults     \* bound: how many of them, in all

ASSUME WireAssumption ==
    /\ Covers \in [StreamIds -> SUBSET Stations]
    /\ MaxPackets \in Nat
    /\ MaxFaults \in Nat
    /\ FaultKinds \subseteq {"drop", "refuse", "reject", "timeout", "stall",
                             "idle", "streamerror", "garble"}

VARIABLES up,       \* the server's end of the connection is open
          c2s,      \* commands sent and not yet handled
          s2c,      \* lines and frames sent and not yet read
          faults    \* faults injected so far

wireVars == <<up, c2s, s2c, faults>>

-----------------------------------------------------------------------------
(* What the server sends.  `name' in a line and in an INFO frame says which *)
(* command it answers: no byte of it is on the wire, the properties use it. *)
Line(name, ok)      == [kind |-> "line", name |-> name, ok |-> ok]
Identity(maj, cap)  == [kind |-> "hello", majors |-> maj, cap |-> cap]
InfoFrame(name, more) == [kind |-> "info", name |-> name, more |-> more]
DataFrame(st, k, seq) ==
    [kind |-> "data", station |-> st, index |-> k, seqnum |-> seq]
Mark(kind)          == [kind |-> kind]

Item == [kind : {"line"}, name : CommandNames \cup {""}, ok : BOOLEAN]
   \cup [kind : {"hello"}, majors : SUBSET {"3", "4"}, cap : BOOLEAN]
   \cup [kind : {"info"}, name : CommandNames, more : BOOLEAN]
   \cup [kind : {"data"}, station : Stations, index : Nat, seqnum : Nat]
   \cup [kind : {"end", "jsonerror", "junk"}]

WireTypeOK == /\ up \in BOOLEAN
              /\ c2s \in Seq(Command)
              /\ s2c \in Seq(Item)
              /\ faults \in 0..MaxFaults

WireInit == up = FALSE /\ c2s = <<>> /\ s2c = <<>> /\ faults = 0

-----------------------------------------------------------------------------
Open == up' = TRUE /\ c2s' = <<>> /\ s2c' = <<>>

Shut == up' = FALSE /\ c2s' = <<>> /\ s2c' = <<>>

(* sendall(): what is sent into a connection that was cut is lost.         *)
Send(c) == /\ c2s' = IF up THEN Append(c2s, c) ELSE c2s
           /\ UNCHANGED <<up, s2c>>

Take == s2c # <<>> /\ s2c' = Tail(s2c) /\ UNCHANGED <<up, c2s>>

Fault(kind) ==
    kind \in FaultKinds /\ faults < MaxFaults /\ faults' = faults + 1

(* The server or the network cuts the connection.                          *)
Drop == /\ up
        /\ Fault("drop")
        /\ up' = FALSE
        /\ c2s' = <<>>
        /\ \E n \in 0..Len(s2c) : s2c' = SubSeq(s2c, 1, n)
=============================================================================
