------------------------------ MODULE Commands ------------------------------
(***************************************************************************)
(* The command vocabulary of _commands.py and the version choice of        *)
(* protocol.py: pure operators, no state.  A command keeps what the        *)
(* transports act on (its name, how the reply is parsed, its role and      *)
(* stream in a negotiation, what it asks for) and drops its text.          *)
(*                                                                         *)
(* Streams are numbered 1..NStreams in the order sort_streams() gives      *)
(* them.  plan_negotiation() is not unrolled into a list: a position       *)
(* [s, k] names the k-th command of the s-th stream, CmdAt is the command  *)
(* found there and PlanNext the position after it.                         *)
(***************************************************************************)
EXTENDS Integers

CONSTANTS None,       \* Python's None
          NStreams,   \* number of configured streams
          NSel,       \* NSel[i]: number of selectors of stream i
          AllData     \* AllData[i]: stream i was added with all_data=True

ASSUME CommandsAssumption ==
    /\ None \notin Nat /\ None \notin {"V3", "V4"}
    /\ NStreams \in Nat \ {0}
    /\ NSel \in [1..NStreams -> Nat]
    /\ AllData \in [1..NStreams -> BOOLEAN]

StreamIds == 1..NStreams

(***************************************************************************)
(* Client configuration (constructor arguments, stream selection and the   *)
(* reconnect argument of collect()), fixed for the life of a client.       *)
(***************************************************************************)
Config == [requested    : {None, "V3", "V4"},  \* protocol=
           auth         : BOOLEAN,             \* auth= is given
           batch        : BOOLEAN,             \* batch=
           dialup       : BOOLEAN,             \* dialup=
           multistation : BOOLEAN,             \* _multistation
           window       : BOOLEAN,             \* set_timewindow() was called
           timeout      : BOOLEAN,             \* timeout= is not None
           keepalive    : BOOLEAN,             \* keepalive= is not None
           reconnect    : BOOLEAN,             \* collect(reconnect=)
           careful      : BOOLEAN]             \* of the user, who closes the
                                               \* client after a failed call, and
                                               \* does not negotiate over a
                                               \* running transfer

(***************************************************************************)
(* The resume position of one stream.  A packet's start time is stood for  *)
(* by the sequence number of the packet it was read from.                  *)
(***************************************************************************)
Position == [seqnum    : Nat \cup {None},
             timestamp : Nat \cup {None},
             pending   : Nat \cup {None}]      \* packet not yet parsed

(* Mutant: a time that is already known is kept.                           *)
ResolveTimestampOnce(st) ==
    IF st.pending = None \/ st.timestamp # None THEN st
    ELSE [st EXCEPT !.timestamp = st.pending, !.pending = None]

ResolveTimestamp(st) ==
    IF st.pending = None THEN st
    ELSE [st EXCEPT !.timestamp = st.pending, !.pending = None]

-----------------------------------------------------------------------------
(* select_protocol(): "" stands for raising SeedLinkError.                 *)
SelectProtocol(majors, requested) ==
    LET v3 == "3" \in majors \/ majors = {}
        v4 == "4" \in majors
    IN  IF v4 /\ requested # "V3" THEN "V4"
        ELSE IF v3 /\ requested # "V4" THEN "V3"
        ELSE ""

-----------------------------------------------------------------------------
(* What a DATA/FETCH/TIME command asks the server to send first.           *)
Request == [from : {"nothing", "next", "all", "seq"},
            seq  : Nat \cup {None},
            time : Nat \cup {None}]

NoRequest    == [from |-> "nothing", seq |-> None, time |-> None]
FromNext     == [from |-> "next",    seq |-> None, time |-> None]
FromAll      == [from |-> "all",     seq |-> None, time |-> None]
FromSeq(n,t) == [from |-> "seq",     seq |-> n,    time |-> t]

(* parse: "none" no reply is read, "reply" parse_reply(), "ok"             *)
(* _expect_ok(), "auth" _expect_auth_ok().                                 *)
CommandNames == {"HELLO", "SLPROTO", "USERAGENT", "AUTH", "CAPABILITIES",
                 "BATCH", "INFO", "BYE", "STATION", "SELECT", "DATA", "FETCH",
                 "TIME", "END", "ENDFETCH",
                 "KEEPALIVE"}   \* the INFO ID collect() sends of itself

Command == [name   : CommandNames,
            role   : {"generic", "station", "select", "data", "end"},
            stream : StreamIds \cup {0},
            req    : Request,
            parse  : {"none", "reply", "ok", "auth"}]

ASSUME NoneIsNoCommand == None \notin Command

Generic(name, parse) ==
    [name |-> name, role |-> "generic", stream |-> 0, req |-> NoRequest,
     parse |-> parse]

ForStream(name, role, i, req, parse) ==
    [name |-> name, role |-> role, stream |-> i, req |-> req, parse |-> parse]

(* The post-HELLO handshake, one command at a time: the command to send    *)
(* once `done' has been acknowledged (HELLO first), None at the end.       *)
(* Mutant: the reply to SLPROTO is read and not looked at.                 *)
AfterV4Lenient(done, conf) ==
    IF done = "HELLO" THEN Generic("SLPROTO", "reply")
    ELSE IF done = "SLPROTO" THEN Generic("USERAGENT", "ok")
    ELSE IF done = "USERAGENT" /\ conf.auth THEN Generic("AUTH", "auth")
    ELSE None

AfterV4(done, conf) ==
    IF done = "HELLO" THEN Generic("SLPROTO", "ok")
    ELSE IF done = "SLPROTO" THEN Generic("USERAGENT", "ok")
    ELSE IF done = "USERAGENT" /\ conf.auth THEN Generic("AUTH", "auth")
    ELSE None

AfterV3(done, conf, cap) ==
    IF done = "HELLO" /\ cap THEN Generic("CAPABILITIES", "ok")
    ELSE IF done \in {"HELLO", "CAPABILITIES"} /\ conf.batch
    THEN Generic("BATCH", "reply")
    ELSE None

HandshakeAfter(done, proto, conf, cap) ==
    IF proto = "V4" THEN AfterV4(done, conf) ELSE AfterV3(done, conf, cap)

-----------------------------------------------------------------------------
(* plan_negotiation().  The three shapes differ in the commands around     *)
(* each stream: v3 uni-station has neither STATION nor END.                *)
Uni(proto, conf) == proto # "V4" /\ ~conf.multistation

PlanPos == [s : Nat \ {0}, k : Nat]

PlanStart(proto, conf) == [s |-> 1, k |-> IF Uni(proto, conf) THEN 1 ELSE 0]

PlanNext(p) ==
    IF p.s \in StreamIds /\ p.k <= NSel[p.s]
    THEN [p EXCEPT !.k = @ + 1]
    ELSE [s |-> p.s + 1, k |-> 0]

PlanDone(p, proto, conf) ==
    p.s > (IF Uni(proto, conf) THEN NStreams ELSE NStreams + 1)

(* Mutant: the last packet is asked for again.                             *)
ResumeSeqnumAgain(st) == st.seqnum

ResumeSeqnum(st) == IF st.seqnum = None THEN None ELSE st.seqnum + 1

(* data_v4(): an explicit sequence number comes before all_data.           *)
DataV4Request(st, all_data, window) ==
    IF ~window /\ st.seqnum # None THEN FromSeq(ResumeSeqnum(st), None)
    ELSE IF all_data \/ window THEN FromAll
    ELSE FromNext

(* data_v3() and time_v3().                                                *)
DataV3Request(st, window) ==
    IF window THEN FromAll
    ELSE IF st.seqnum # None
    THEN FromSeq(ResumeSeqnum(st), ResolveTimestamp(st).timestamp)
    ELSE FromNext

DataV3Name(conf) ==
    IF conf.window THEN "TIME" ELSE IF conf.dialup THEN "FETCH" ELSE "DATA"

(* How the reply to a negotiation command is read: fatal if not OK in v4;  *)
(* in v3 inspected, or not sent at all inside a batch.                     *)
(* Mutant: a v3 reply is waited for inside a batch too.                    *)
LineParseUnbatched(proto, batched) == IF proto = "V4" THEN "ok" ELSE "reply"

LineParse(proto, batched) ==
    IF proto = "V4" THEN "ok" ELSE IF batched THEN "none" ELSE "reply"

DataCommand(i, proto, conf, batched, st) ==
    IF proto = "V4"
    THEN ForStream("DATA", "data", i, DataV4Request(st, AllData[i], conf.window), "ok")
    ELSE ForStream(DataV3Name(conf), "data", i, DataV3Request(st, conf.window),
                   IF Uni(proto, conf) THEN "none" ELSE LineParse(proto, batched))

(* Mutant: END is taken for a command with a reply.                        *)
EndCommandAnswered(proto, conf) ==
    ForStream(IF proto = "V4" /\ conf.dialup THEN "ENDFETCH" ELSE "END",
              "end", 0, NoRequest, "reply")

EndCommand(proto, conf) ==
    ForStream(IF proto = "V4" /\ conf.dialup THEN "ENDFETCH" ELSE "END",
              "end", 0, NoRequest, "none")

CmdAt(p, proto, conf, batched, streams) ==
    IF p.s \notin StreamIds THEN EndCommand(proto, conf)
    ELSE IF p.k = 0
    THEN ForStream("STATION", "station", p.s, NoRequest, LineParse(proto, batched))
    ELSE IF p.k <= NSel[p.s]
    THEN ForStream("SELECT", "select", p.s, NoRequest, LineParse(proto, batched))
    ELSE DataCommand(p.s, proto, conf, batched, streams[p.s])

(* The streams once a plan has been made: a v3 plan that resumes by        *)
(* sequence number parses the pending packet for its time.                 *)
Planned(proto, conf, streams) ==
    [i \in StreamIds |->
        IF proto # "V4" /\ ~conf.window /\ streams[i].seqnum # None
        THEN ResolveTimestamp(streams[i])
        ELSE streams[i]]

-----------------------------------------------------------------------------
(* NegotiationWalk.                                                        *)
Walk == [seen : BOOLEAN, accepted : BOOLEAN, skip : BOOLEAN]

NewWalk == [seen |-> FALSE, accepted |-> FALSE, skip |-> FALSE]

(* Mutant: the commands of a rejected station are sent all the same.       *)
WalkSendsAll(w, c) == TRUE

WalkSends(w, c) == c.role = "station" \/ ~(w.skip /\ c.role \in {"select", "data"})

WalkEnter(w, c) ==
    IF c.role = "station" THEN [w EXCEPT !.seen = TRUE, !.skip = FALSE] ELSE w

WalkRecord(w, c, rejected) ==
    IF c.role # "station" THEN w
    ELSE IF rejected THEN [w EXCEPT !.skip = TRUE]
    ELSE [w EXCEPT !.accepted = TRUE]

WalkFails(w) == w.seen /\ ~w.accepted
=============================================================================
