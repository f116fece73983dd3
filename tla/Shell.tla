------------------------------- MODULE Shell -------------------------------
(***************************************************************************)
(* The interactive shell of cli.py: SeedLinkShell sends the commands that  *)
(* are typed, one at a time, over a connection made by                     *)
(* connect(handshake=False), and _finish_handshake() prints packets while  *)
(* a watcher thread waits for Enter and shuts the socket down under it.    *)
(*                                                                         *)
(* Threads: the shell, and one watcher for each transfer, numbered; a      *)
(* watcher that nobody wakes outlives its transfer.  The operator types    *)
(* lines; the server is external, as in Server.tla.  FETCH stands for TIME *)
(* too: both ask what DATA asks, whatever the protocol.                    *)
(***************************************************************************)
EXTENDS Integers, Sequences

CONSTANTS Dialup,     \* the server ends a transfer with END
          Timed,      \* --timeout is given
          MaxLines,   \* bound: lines typed
          MaxItems,   \* bound: packets the server sends
          MaxFaults   \* bound: cuts, rejections, timeouts, interrupts

ASSUME ShellAssumption ==
    /\ Dialup \in BOOLEAN /\ Timed \in BOOLEAN
    /\ MaxLines \in Nat /\ MaxItems \in Nat /\ MaxFaults \in Nat

VARIABLES pc,           \* "prompt", "reply", "print" or "exit"
          sock,         \* _sock is not None
          protocol,     \* "none", "v3" or "v4"
          streaming,    \* _streaming
          sentStation,  \* _sent_station
          cmd,          \* the command being answered, or "none"
          transfer,     \* the number of transfers begun
          watcher,      \* what each one's watcher is at
          stopped,      \* each one's Event
          keys,         \* lines typed and not read
          up,           \* the socket is not cut or shut down
          c2s, s2c,     \* what is under way
          server,       \* the server's side of the handshake
          typed, sent, faults,   \* counters of the bounds
          strayed,      \* history: a reply was given up or an unasked one begun
          hidden        \* history: an error was not shown

clientVars == <<sock, protocol, streaming, sentStation>>
threadVars == <<transfer, watcher, stopped>>
wireVars   == <<up, c2s, s2c, server>>
countVars  == <<typed, sent, faults>>
vars == <<pc, cmd, keys, clientVars, threadVars, wireVars, countVars, strayed, hidden>>

Commands  == {"HELLO", "SLPROTO", "STATION", "SELECT", "DATA", "FETCH", "END",
              "INFO", "BYE"}
Transfers == 1..MaxLines

Reply(ok)   == [kind |-> "line", ok |-> ok, framing |-> "none"]
Frame(k, v) == [kind |-> k, ok |-> TRUE, framing |-> v]

Init ==
    /\ pc = "prompt" /\ cmd = "none" /\ keys = 0
    /\ sock = TRUE /\ protocol = "none" /\ streaming = FALSE /\ sentStation = FALSE
    /\ transfer = 0
    /\ watcher = [t \in Transfers |-> "none"] /\ stopped = [t \in Transfers |-> FALSE]
    /\ up = TRUE /\ c2s = <<>> /\ s2c = <<>>
    /\ server = [proto |-> "v3", station |-> FALSE, mode |-> "asked"]
    /\ typed = 0 /\ sent = 0 /\ faults = 0
    /\ strayed = FALSE /\ hidden = FALSE

-----------------------------------------------------------------------------
(* The shell.                                                              *)

framing == IF protocol = "v4" THEN "v4" ELSE "v3"

(* postcmd(): a shell without a connection ends.                           *)
Prompt == pc' = (IF sock' THEN "prompt" ELSE "exit") /\ cmd' = "none"

(* SeedLink.close()                                                        *)
Close == /\ sock' = FALSE /\ streaming' = FALSE
         /\ up' = FALSE /\ c2s' = <<>> /\ s2c' = <<>>
         /\ UNCHANGED <<protocol, sentStation, server>>

SendAll(c) == c2s' = IF up THEN Append(c2s, c) ELSE c2s

(* Mutant: uni-station mode is forgotten.                                  *)
AnswersAll(c) == c \notin {"END", "BYE"}

(* Is there a reply to read?  END has none; without a STATION before them  *)
(* neither have FETCH and TIME, nor DATA in v3.                            *)
Answers(c) ==
    /\ c \notin {"END", "BYE"}
    /\ c = "DATA" => sentStation \/ protocol = "v4"
    /\ c = "FETCH" => sentStation

(* A line is read and is a command that is sent and answered.              *)
Ask(c) ==
    /\ pc = "prompt" /\ keys > 0 /\ keys' = keys - 1
    /\ Answers(c)
    /\ c = "INFO" => ~streaming
    /\ pc' = "reply" /\ cmd' = c /\ SendAll(c)
    /\ sentStation' = (sentStation \/ c = "STATION")
    /\ strayed' = \/ strayed
                  \/ /\ c \in {"DATA", "FETCH"} /\ sentStation
                     /\ server.proto = "v3" /\ ~server.station
    /\ UNCHANGED <<sock, protocol, streaming, threadVars, up, s2c, server, countVars,
                   hidden>>

(* Mutant: one Event for all transfers.                                    *)
FinishShared(c) ==
    /\ pc = "prompt" /\ keys > 0 /\ keys' = keys - 1
    /\ c \in {"DATA", "FETCH", "END"} /\ ~Answers(c)
    /\ SendAll(c)
    /\ streaming' = TRUE /\ pc' = "print" /\ cmd' = "none"
    /\ transfer' = transfer + 1
    /\ watcher' = [watcher EXCEPT ![transfer + 1] = "select"]
    /\ stopped' = [stopped EXCEPT ![transfer + 1] = transfer > 0 /\ stopped[1]]
    /\ UNCHANGED <<sock, protocol, sentStation, up, s2c, server, countVars, strayed,
                   hidden>>

(* ... or one that _finish_handshake() sends before it starts a watcher    *)
(* and goes into collect(reconnect=False).                                 *)
Finish(c) ==
    /\ pc = "prompt" /\ keys > 0 /\ keys' = keys - 1
    /\ c \in {"DATA", "FETCH", "END"} /\ ~Answers(c)
    /\ SendAll(c)
    /\ streaming' = TRUE /\ pc' = "print" /\ cmd' = "none"
    /\ transfer' = transfer + 1
    /\ watcher' = [watcher EXCEPT ![transfer + 1] = "select"]
    /\ UNCHANGED <<sock, protocol, sentStation, stopped, up, s2c, server, countVars,
                   strayed, hidden>>

(* ... or BYE, QUIT or the end of the input: main() closes.                *)
Leave ==
    /\ pc = "prompt" /\ keys > 0 /\ keys' = keys - 1
    /\ pc' = "exit" /\ cmd' = "none" /\ Close
    /\ UNCHANGED <<threadVars, countVars, strayed, hidden>>

(* ... or nothing the server hears of: an empty line, a wrong one, an INFO *)
(* that info() refuses while _streaming.                                   *)
Nothing ==
    /\ pc = "prompt" /\ keys > 0 /\ keys' = keys - 1
    /\ UNCHANGED <<pc, cmd, clientVars, threadVars, wireVars, countVars, strayed, hidden>>

(* Mutant: SLPROTO counts when it is answered.                             *)
UpgradeAnyway(item) ==
    protocol' = IF cmd = "SLPROTO" THEN "v4" ELSE protocol

(* SLPROTO 4.0 counts when it is accepted.                                 *)
Upgrade(item) ==
    protocol' = IF cmd = "SLPROTO" /\ item.ok THEN "v4" ELSE protocol

(* What is read next can be read as the reply to cmd, of whatever it is    *)
(* the reply: a line, or for INFO a frame.                                 *)
fits == LET item == Head(s2c) IN
        IF cmd = "INFO" THEN item.kind = "info" /\ item.framing = framing
        ELSE item.kind = "line"

Answered ==
    /\ pc = "reply" /\ s2c # <<>> /\ fits
    /\ Upgrade(Head(s2c)) /\ s2c' = Tail(s2c)
    /\ UNCHANGED <<sock, streaming, sentStation, up, c2s, server>>
    /\ Prompt
    /\ UNCHANGED <<keys, threadVars, countVars, strayed, hidden>>

(* Anything else is an error, which may or may not close the connection.   *)
Misread ==
    /\ pc = "reply" /\ s2c # <<>> /\ ~fits
    /\ Close \/ UNCHANGED <<clientVars, wireVars>>
    /\ Prompt
    /\ UNCHANGED <<keys, threadVars, countVars, strayed, hidden>>

(* Connection closed: close(), SeedLinkError, _fail().                     *)
ReplyLost ==
    /\ pc = "reply" /\ s2c = <<>> /\ ~up
    /\ Close /\ Prompt
    /\ UNCHANGED <<keys, threadVars, countVars, strayed, hidden>>

Fault == faults < MaxFaults /\ faults' = faults + 1

(* SeedLinkTimeout with nothing buffered: _fail(), the socket stays open.  *)
ReplyLate ==
    /\ Timed /\ Fault
    /\ pc = "reply" /\ s2c = <<>> /\ up
    /\ UNCHANGED clientVars /\ Prompt
    /\ strayed' = TRUE
    /\ UNCHANGED <<keys, threadVars, wireVars, typed, sent, hidden>>

(* Ctrl-C at the prompt or while a reply is awaited leaves cmdloop().      *)
InterruptShell ==
    /\ pc \in {"prompt", "reply"}
    /\ pc' = "exit" /\ cmd' = "none" /\ Close
    /\ UNCHANGED <<keys, threadVars, countVars, strayed, hidden>>

-----------------------------------------------------------------------------
(* The printing loop of _finish_handshake().                               *)

printing == pc = "print"

(* Its finally clause, and back to the command loop.                       *)
EndPrinting == stopped' = [stopped EXCEPT ![transfer] = TRUE] /\ Prompt

PrintPacket ==
    /\ printing /\ s2c # <<>>
    /\ Head(s2c).kind \in {"packet", "info"} /\ Head(s2c).framing = framing
    /\ s2c' = Tail(s2c)
    /\ UNCHANGED <<pc, cmd, keys, clientVars, threadVars, up, c2s, server, countVars,
                   strayed, hidden>>

DialupEnds ==
    /\ printing /\ s2c # <<>> /\ Head(s2c).kind = "end"
    /\ streaming' = FALSE /\ s2c' = Tail(s2c)
    /\ UNCHANGED <<sock, protocol, sentStation, up, c2s, server>>
    /\ EndPrinting
    /\ UNCHANGED <<keys, transfer, watcher, countVars, strayed, hidden>>

(* End of file, or what is no frame of this framing: collect() closes and  *)
(* raises, and the error is shown unless the Event is set.                 *)
PrintFails ==
    /\ printing
    /\ \/ s2c = <<>> /\ ~up
       \/ /\ s2c # <<>>
          /\ \/ Head(s2c).kind = "line"
             \/ Head(s2c).kind \in {"packet", "info"} /\ Head(s2c).framing # framing
    /\ hidden' = stopped[transfer]
    /\ Close
    /\ EndPrinting
    /\ UNCHANGED <<keys, transfer, watcher, countVars, strayed>>

(* Ctrl-C while a packet is printed: the generator is dropped, and closes. *)
InterruptPrinting ==
    /\ printing /\ Fault
    /\ Close
    /\ EndPrinting
    /\ UNCHANGED <<keys, transfer, watcher, typed, sent, strayed, hidden>>

(* Ctrl-C inside the generator, which is where it waits: KeyboardInterrupt *)
(* is not among the exceptions that collect() closes for.                  *)
InterruptCollect ==
    /\ printing /\ Fault
    /\ UNCHANGED <<clientVars, wireVars>>
    /\ strayed' = TRUE
    /\ EndPrinting
    /\ UNCHANGED <<keys, transfer, watcher, typed, sent, hidden>>

-----------------------------------------------------------------------------
(* watch_for_enter(): it does not read the line that wakes it.             *)

(* Mutant: the Event is looked at the wrong way round.                     *)
WakeReversed(t) ==
    /\ watcher[t] = "select" /\ keys > 0
    /\ watcher' = [watcher EXCEPT ![t] = IF stopped[t] THEN "stop" ELSE "gone"]
    /\ UNCHANGED <<pc, cmd, keys, clientVars, transfer, stopped, wireVars, countVars,
                   strayed, hidden>>

Wake(t) ==
    /\ watcher[t] = "select" /\ keys > 0
    /\ watcher' = [watcher EXCEPT ![t] = IF stopped[t] THEN "gone" ELSE "stop"]
    /\ UNCHANGED <<pc, cmd, keys, clientVars, transfer, stopped, wireVars, countVars,
                   strayed, hidden>>

SetStopped(t) ==
    /\ watcher[t] = "stop"
    /\ stopped' = [stopped EXCEPT ![t] = TRUE]
    /\ watcher' = [watcher EXCEPT ![t] = "shut"]
    /\ UNCHANGED <<pc, cmd, keys, clientVars, transfer, wireVars, countVars, strayed,
                   hidden>>

(* What had arrived can still be read, then comes end of file.             *)
ShutDown(t) ==
    /\ watcher[t] = "shut"
    /\ watcher' = [watcher EXCEPT ![t] = "gone"]
    /\ up' = FALSE
    /\ c2s' = <<>>
    /\ UNCHANGED <<pc, cmd, keys, clientVars, transfer, stopped, s2c, server, countVars,
                   strayed, hidden>>

-----------------------------------------------------------------------------
(* Operator, network and server.                                           *)

Type == /\ typed < MaxLines /\ typed' = typed + 1 /\ keys' = keys + 1
        /\ pc # "exit"
        /\ UNCHANGED <<pc, cmd, clientVars, threadVars, wireVars, sent, faults, strayed,
                       hidden>>

Cut == /\ up /\ Fault
       /\ up' = FALSE /\ c2s' = <<>>
       /\ \E n \in 0..Len(s2c) : s2c' = SubSeq(s2c, 1, n)
       /\ UNCHANGED <<pc, cmd, keys, clientVars, threadVars, server, typed, sent, strayed,
                      hidden>>

Serve(effect, items) ==
    /\ up /\ c2s # <<>> /\ c2s' = Tail(c2s)
    /\ server' = effect /\ s2c' = s2c \o items
    /\ UNCHANGED <<pc, cmd, keys, clientVars, threadVars, up, typed, sent, strayed, hidden>>

InHandshake == server.mode = "asked"

Begin == [server EXCEPT !.mode = "streams"]

(* Without a station v3's DATA, FETCH and TIME begin a transfer and have   *)
(* no reply; v4 has no FETCH.                                              *)
ServeAccepts ==
    /\ c2s # <<>> /\ InHandshake
    /\ LET c == Head(c2s) IN
       \/ c \in {"HELLO", "SELECT"} /\ Serve(server, <<Reply(TRUE)>>)
       \/ c = "SLPROTO" /\ Serve([server EXCEPT !.proto = "v4"], <<Reply(TRUE)>>)
       \/ c = "STATION" /\ Serve([server EXCEPT !.station = TRUE], <<Reply(TRUE)>>)
       \/ c = "INFO" /\ Serve(server, <<Frame("info", server.proto)>>)
       \/ c = "END" /\ Serve(Begin, <<>>)
       \/ /\ c \in {"DATA", "FETCH"} /\ server.proto = "v4"
          /\ Serve(server, <<Reply(c = "DATA" /\ server.station)>>)
       \/ /\ c \in {"DATA", "FETCH"} /\ server.proto = "v3"
          /\ IF server.station THEN Serve(server, <<Reply(TRUE)>>) ELSE Serve(Begin, <<>>)
    /\ UNCHANGED faults

ServeRejects ==
    /\ c2s # <<>> /\ InHandshake /\ Fault
    /\ Head(c2s) \in {"SLPROTO", "STATION", "SELECT"}
    /\ Serve(server, <<Reply(FALSE)>>)

(* In a transfer only INFO is answered.                                    *)
ServeStreaming ==
    /\ c2s # <<>> /\ ~InHandshake
    /\ Serve(server, IF Head(c2s) = "INFO" THEN <<Frame("info", server.proto)>> ELSE <<>>)
    /\ UNCHANGED faults

SendPacket ==
    /\ up /\ ~InHandshake /\ sent < MaxItems /\ sent' = sent + 1
    /\ s2c' = Append(s2c, Frame("packet", server.proto))
    /\ UNCHANGED <<pc, cmd, keys, clientVars, threadVars, up, c2s, server, typed, faults,
                   strayed, hidden>>

SendEnd ==
    /\ up /\ ~InHandshake /\ Dialup
    /\ s2c' = Append(s2c, Frame("end", "none"))
    /\ server' = [server EXCEPT !.mode = "asked"]
    /\ UNCHANGED <<pc, cmd, keys, clientVars, threadVars, up, c2s, countVars, strayed,
                   hidden>>

(* Everybody waits for the operator.                                       *)
Idle == pc # "reply" /\ UNCHANGED vars

Command == \/ \E c \in Commands : Ask(c) \/ Finish(c)
           \/ Leave \/ Nothing

Exchange == Answered \/ Misread \/ ReplyLost

Printing == PrintPacket \/ DialupEnds \/ PrintFails

Watcher(t) == Wake(t) \/ SetStopped(t) \/ ShutDown(t)

Serving == ServeAccepts \/ ServeRejects \/ ServeStreaming

Next ==
    \/ Command \/ Exchange \/ Printing
    \/ ReplyLate \/ InterruptShell \/ InterruptPrinting \/ InterruptCollect
    \/ \E t \in Transfers : Watcher(t)
    \/ Type \/ Cut
    \/ Serving \/ SendPacket \/ SendEnd
    \/ Idle

Spec == Init /\ [][Next]_vars

(* Both threads run; the server answers.  Nothing is assumed of the        *)
(* operator, of faults, or of what the server sends unasked.               *)
Fairness ==
    /\ WF_vars(Exchange) /\ WF_vars(Printing) /\ WF_vars(Serving)
    /\ \A t \in Transfers : WF_vars(Watcher(t))

FairSpec == Spec /\ Fairness

-----------------------------------------------------------------------------
TypeOK ==
    /\ pc \in {"prompt", "reply", "print", "exit"}
    /\ sock \in BOOLEAN /\ streaming \in BOOLEAN /\ sentStation \in BOOLEAN
    /\ protocol \in {"none", "v3", "v4"} /\ cmd \in Commands \cup {"none"}
    /\ transfer \in 0..MaxLines
    /\ watcher \in [Transfers -> {"none", "select", "stop", "shut", "gone"}]
    /\ stopped \in [Transfers -> BOOLEAN]
    /\ keys \in 0..MaxLines
    /\ (pc = "reply" <=> cmd # "none")
    /\ (sock <=> pc # "exit")

(* An operator who waits for each reply, whose stations were not all       *)
(* rejected when DATA is typed and who lets transfers end by themselves or *)
(* by Enter finds nothing under way at the prompt: the next reply is the   *)
(* next command's (cli.py:447-457, 499-509).  A timeout leaves the reply   *)
(* to come, DATA after a rejected STATION awaits one that never comes      *)
(* (_sent_station, cli.py:541), and Ctrl-C leaves a transfer.              *)
PromptIsQuiet ==
    pc = "prompt" /\ ~strayed => c2s = <<>> /\ s2c = <<>> /\ server.mode = "asked"

(* The same operator never sees packets read with another framing than     *)
(* they were sent in, though HELLO alone promotes no protocol              *)
(* (promote_protocol=False) and SLPROTO may be rejected, or sent after     *)
(* other commands (cli.py:514, 525-530).                                   *)
FramingAgrees ==
    pc = "print" /\ ~strayed => \A i \in 1..Len(s2c) : s2c[i].framing \in {"none", framing}

(* An error is kept from the operator only if this transfer's own watcher  *)
(* was woken by a line: a watcher that outlived an earlier transfer hides  *)
(* nothing and stops nothing that is its own no more (cli.py:488-509).     *)
ErrorsShown ==
    [][hidden' /\ ~hidden => watcher[transfer] \notin {"none", "select"}]_vars

(* A transfer ends once a line was typed, whatever the server goes on      *)
(* sending, whichever thread comes first (cli.py:488-496).                 *)
EnterStops == pc = "print" /\ keys > 0 ~> pc # "print"

(* client.py:432-434: "Breaking out of the for loop early [...] closes the *)
(* connection".  What the shell then offers is a prompt for a connection   *)
(* that is streaming.                                                      *)
LeavingCloses == pc = "prompt" => ~streaming
=============================================================================
