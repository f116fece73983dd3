------------------------------- MODULE Server -------------------------------
(***************************************************************************)
(* The SeedLink server, as far as the client in src/ relies on it.  It is  *)
(* outside the repository: this module is an environment assumption, not a *)
(* translation.  It keeps a log of packets per station, answers commands   *)
(* in the order they arrive, and may reject any of them.                   *)
(***************************************************************************)
EXTENDS Wire, FiniteSets

CONSTANTS Peers,      \* the servers considered
          MaxQueue,   \* bound: frames in flight before the server waits
          MaxInfo     \* bound: INFO frames in one reply

Peer == [majors : SUBSET {"3", "4"},   \* SLPROTO versions it advertises
         cap    : BOOLEAN,             \* CAP among its capabilities
         global : BOOLEAN]             \* one numbering for all stations

ASSUME ServerAssumption ==
    /\ Peers \subseteq Peer
    /\ MaxQueue \in Nat \ {0} /\ MaxInfo \in Nat \ {0}

VARIABLES peer,     \* which server this is
          srv,      \* its state of the one connection
          cursor,   \* cursor[st]: next packet of st to send, 0: none asked
          log,      \* log[st]: sequence numbers of st's packets, in order
          newest    \* packets published, of all stations

serverVars == <<peer, srv, cursor, log, newest>>

(* proto: framing in force; batch: BATCH accepted; multi: a STATION was    *)
(* seen; cur: the stream SELECT and DATA apply to; dial: END after data.   *)
ServerState == [phase : {"command", "stream"}, proto : {"V3", "V4"},
                batch : BOOLEAN, multi : BOOLEAN, dial : BOOLEAN,
                cur : StreamIds \cup {0}]

Fresh == [phase |-> "command", proto |-> "V3", batch |-> FALSE,
          multi |-> FALSE, dial |-> FALSE, cur |-> 0]

Unasked == [st \in Stations |-> 0]

ServerTypeOK == /\ peer \in Peers
                /\ srv \in ServerState
                /\ cursor \in [Stations -> Nat]
                /\ log \in [Stations -> Seq(Nat)]
                /\ newest \in Nat

ServerInit == /\ peer \in Peers
              /\ srv = Fresh
              /\ cursor = Unasked
              /\ log = [st \in Stations |-> <<>>]
              /\ newest = 0

Accept == srv' = Fresh /\ cursor' = Unasked /\ UNCHANGED <<peer, log, newest>>

-----------------------------------------------------------------------------
(* The next packet of st that a request asks for: packets are logged in    *)
(* the order of their numbers.                                             *)
FirstFrom(r, st) ==
    IF r.from = "all" THEN 1
    ELSE IF r.from = "next" THEN Len(log[st]) + 1
    ELSE 1 + Cardinality({k \in 1..Len(log[st]) : log[st][k] < r.seq})

Subscribe(i, r) ==
    cursor' = [st \in Stations |-> IF st \in Covers[i] THEN FirstFrom(r, st)
                                   ELSE cursor[st]]

(* Inside a batch nothing from STATION to TIME is answered.                *)
Quiet(c) == srv.batch /\ c.role \in {"station", "select", "data"}

Answer(c, ok) ==
    s2c' = IF Quiet(c) THEN s2c ELSE Append(s2c, Line(c.name, ok))

Handling(names) == /\ up /\ c2s # <<>>
                /\ Head(c2s).name \in names
                /\ c2s' = Tail(c2s)
                /\ UNCHANGED <<up, peer, log, newest>>

Obey(c) == Answer(c, TRUE) /\ UNCHANGED faults

Refuse(c) == Answer(c, FALSE) /\ Fault("reject")

-----------------------------------------------------------------------------
ServeHello ==
    /\ Handling({"HELLO"})
    /\ s2c' = Append(s2c, Identity(peer.majors, peer.cap))
    /\ UNCHANGED <<faults, srv, cursor>>

ServeSetting ==
    /\ Handling({"SLPROTO", "USERAGENT", "AUTH", "CAPABILITIES", "BATCH"})
    /\ srv.phase = "command"
    /\ LET c == Head(c2s)
       IN  \/ /\ Obey(c)
              /\ srv' = [srv EXCEPT
                            !.proto = IF c.name = "SLPROTO" THEN "V4" ELSE @,
                            !.batch = IF c.name = "BATCH" THEN TRUE ELSE @]
           \/ Refuse(c) /\ UNCHANGED srv
    /\ UNCHANGED cursor

ServeStation ==
    /\ Handling({"STATION"})
    /\ srv.phase = "command"
    /\ LET c == Head(c2s)
       IN  \/ Obey(c) /\ srv' = [srv EXCEPT !.multi = TRUE, !.cur = c.stream]
           \/ Refuse(c) /\ srv' = [srv EXCEPT !.multi = TRUE, !.cur = 0]
    /\ UNCHANGED cursor

ServeSelect ==
    /\ Handling({"SELECT"})
    /\ srv.phase = "command"
    /\ Obey(Head(c2s)) \/ Refuse(Head(c2s))
    /\ UNCHANGED <<srv, cursor>>

(* After a STATION the request waits for END and is acknowledged; in v3    *)
(* uni-station mode it starts the transfer and is not.                     *)
ServeRequest ==
    /\ Handling({"DATA", "FETCH", "TIME"})
    /\ srv.phase = "command"
    /\ LET c    == Head(c2s)
           dial == srv.dial \/ c.name = "FETCH"
       IN  IF srv.proto = "V3" /\ ~srv.multi
           THEN /\ srv' = [srv EXCEPT !.phase = "stream", !.dial = dial]
                /\ Subscribe(c.stream, c.req)
                /\ UNCHANGED <<s2c, faults>>
           ELSE \/ /\ srv.cur # 0
                   /\ Obey(c)
                   /\ srv' = [srv EXCEPT !.dial = dial]
                   /\ Subscribe(srv.cur, c.req)
                \/ Refuse(c) /\ UNCHANGED <<srv, cursor>>
                \/ /\ srv.cur = 0 /\ Answer(c, FALSE)
                   /\ UNCHANGED <<faults, srv, cursor>>

ServeEnd ==
    /\ Handling({"END", "ENDFETCH"})
    /\ srv.phase = "command"
    /\ srv' = [srv EXCEPT !.phase = "stream",
                          !.dial = @ \/ Head(c2s).name = "ENDFETCH"]
    /\ UNCHANGED <<s2c, faults, cursor>>

(* A v3 reply may span several packets, a v4 reply is one packet.           *)
ServeInfo ==
    /\ Handling({"INFO", "KEEPALIVE"})
    /\ \/ /\ \E n \in 1..(IF srv.proto = "V3" THEN MaxInfo ELSE 1) :
                s2c' = s2c \o [j \in 1..n |-> InfoFrame(Head(c2s).name, j < n)]
          /\ UNCHANGED faults
       \/ Refuse(Head(c2s))
    /\ UNCHANGED <<srv, cursor>>

ServeBye ==
    /\ up /\ c2s # <<>> /\ Head(c2s).name = "BYE"
    /\ up' = FALSE /\ c2s' = <<>>
    /\ UNCHANGED <<s2c, faults, serverVars>>

(* Once streaming, a server has nothing to say to other commands.          *)
ServeUntimely ==
    /\ Handling(CommandNames \ {"HELLO", "INFO", "KEEPALIVE", "BYE"})
    /\ srv.phase = "stream"
    /\ s2c' = Append(s2c, Line("", FALSE))
    /\ UNCHANGED <<faults, srv, cursor>>

-----------------------------------------------------------------------------
Waiting(st) == cursor[st] \in 1..Len(log[st])

(* A server with one numbering sends in the order of that numbering.       *)
SendPacket(st) ==
    /\ up /\ srv.phase = "stream"
    /\ Len(s2c) < MaxQueue
    /\ Waiting(st)
    /\ peer.global => \A o \in Stations :
           Waiting(o) => log[st][cursor[st]] <= log[o][cursor[o]]
    /\ s2c' = Append(s2c, DataFrame(st, cursor[st], log[st][cursor[st]]))
    /\ cursor' = [cursor EXCEPT ![st] = @ + 1]
    /\ UNCHANGED <<up, c2s, faults, peer, srv, log, newest>>

(* Dial-up: everything held has been sent, the server takes commands again. *)
SendEnd ==
    /\ up /\ srv.phase = "stream" /\ srv.dial
    /\ \A st \in Stations : ~Waiting(st)
    /\ s2c' = Append(s2c, Mark("end"))
    /\ srv' = [srv EXCEPT !.phase = "command", !.multi = FALSE,
                          !.dial = FALSE, !.cur = 0]
    /\ cursor' = Unasked
    /\ UNCHANGED <<up, c2s, faults, peer, log, newest>>

(* An ERROR line, a v4 JSON ERROR packet, or bytes that are neither.       *)
SendTrouble ==
    /\ up /\ srv.phase = "stream"
    /\ \/ Fault("streamerror") /\ s2c' = Append(s2c, Line("", FALSE))
       \/ /\ srv.proto = "V4"
          /\ Fault("streamerror") /\ s2c' = Append(s2c, Mark("jsonerror"))
       \/ Fault("garble") /\ s2c' = Append(s2c, Mark("junk"))
    /\ UNCHANGED <<up, c2s, serverVars>>

(* The data acquisition behind the server: independent of any connection.  *)
Publish(st) ==
    /\ Len(log[st]) < MaxPackets
    /\ newest' = newest + 1
    /\ log' = [log EXCEPT ![st] =
                 Append(@, IF peer.global THEN newest + 1 ELSE Len(@) + 1)]
    /\ UNCHANGED <<wireVars, peer, srv, cursor>>

Serve == \/ ServeHello \/ ServeSetting \/ ServeStation \/ ServeSelect
         \/ ServeRequest \/ ServeEnd \/ ServeInfo \/ ServeBye \/ ServeUntimely

ServerNext == \/ Serve \/ SendEnd \/ SendTrouble
              \/ \E st \in Stations : SendPacket(st) \/ Publish(st)
=============================================================================
