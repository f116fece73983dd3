----------------------------- MODULE ShellProofs -----------------------------
(***************************************************************************)
(* For any number of lines, packets and faults: the operator who waits for *)
(* each reply finds nothing under way at the prompt, never has packets     *)
(* read with a framing they were not sent in, and no error is kept from    *)
(* him by the watcher of another transfer.                                 *)
(***************************************************************************)
EXTENDS Shell, TLAPS

Item == [kind : {"line", "info", "packet", "end"}, ok : BOOLEAN,
         framing : {"none", "v3", "v4"}]

(* The types that TypeOK leaves out.                                       *)
WireOK ==
    /\ c2s \in Seq(Commands) /\ s2c \in Seq(Item)
    /\ up \in BOOLEAN /\ strayed \in BOOLEAN
    /\ server \in [proto : {"v3", "v4"}, station : BOOLEAN, mode : {"asked", "streams"}]

(* Every transfer takes a line that was typed, and has a watcher.          *)
WatcherInv ==
    /\ typed \in 0..MaxLines /\ transfer + keys <= typed
    /\ \A t \in Transfers : t > transfer => watcher[t] = "none" /\ ~stopped[t]
    /\ pc = "print" => /\ transfer > 0
                       /\ stopped[transfer] => watcher[transfer] \in {"shut", "gone"}

(* The framing of the client is the server's, but for an SLPROTO that the  *)
(* server has answered.                                                    *)
Agreed ==
    pc \in {"prompt", "reply", "print"} /\ ~(cmd = "SLPROTO" /\ c2s = <<>>) =>
    server.proto = framing

(* While a reply is awaited, the command, its reply or nothing is under    *)
(* way: nothing only once the socket is gone.                              *)
Asked ==
    /\ up /\ c2s = <<cmd>> /\ s2c = <<>>
    /\ cmd \notin {"END", "BYE"}
    /\ cmd \in {"DATA", "FETCH"} => server.proto = "v4" \/ server.station

Replied ==
    /\ c2s = <<>> /\ Len(s2c) = 1
    /\ IF cmd = "INFO" THEN s2c[1].kind = "info" /\ s2c[1].framing = framing
       ELSE s2c[1].kind = "line"
    /\ cmd = "SLPROTO" => server.proto = IF s2c[1].ok THEN "v4" ELSE framing

ReplyInv ==
    pc = "reply" =>
    \/ server.mode = "asked" /\ (Asked \/ Replied)
    \/ ~up /\ c2s = <<>> /\ s2c = <<>>

(* While packets are printed: first the command that begins the transfer;  *)
(* then packets, at last their END and nothing behind it.                  *)
PrintInv ==
    pc = "print" =>
    /\ \/ /\ up /\ s2c = <<>> /\ server.mode = "asked"
          /\ \E c \in {"DATA", "FETCH", "END"} : c2s = <<c>>
       \/ c2s = <<>>
    /\ \A i \in 1..Len(s2c) :
          /\ s2c[i].framing \in {"none", framing}
          /\ s2c[i].kind = "end" => i = Len(s2c) /\ server.mode = "asked"

Lockstep == ~strayed => PromptIsQuiet /\ Agreed /\ ReplyInv /\ PrintInv

Inv == TypeOK /\ WireOK /\ WatcherInv /\ Lockstep

-----------------------------------------------------------------------------
(* Types and threads.                                                      *)
LEMMA TypeInit == Init => TypeOK /\ WireOK /\ WatcherInv
  <1> SUFFICES ASSUME Init PROVE TypeOK /\ WireOK /\ WatcherInv
    OBVIOUS
  <1>0. MaxLines \in Nat
    BY ShellAssumption
  <1>1. /\ watcher \in [Transfers -> {"none", "select", "stop", "shut", "gone"}]
        /\ stopped \in [Transfers -> BOOLEAN]
    BY DEF Init
  <1>2. TypeOK
    <2>1. sock \in BOOLEAN /\ streaming \in BOOLEAN /\ sentStation \in BOOLEAN
      BY DEF Init
    <2>2. (pc = "reply" <=> cmd # "none") /\ (sock <=> pc # "exit")
      BY DEF Init
    <2>3. /\ pc \in {"prompt", "reply", "print", "exit"} /\ protocol \in {"none", "v3", "v4"}
          /\ cmd \in Commands \cup {"none"} /\ transfer \in 0..MaxLines /\ keys \in 0..MaxLines
      BY <1>0 DEF Init
    <2>4. QED
      BY <1>1, <2>1, <2>2, <2>3 DEF TypeOK
  <1>3. WireOK
    <2>1. up \in BOOLEAN /\ strayed \in BOOLEAN
      BY DEF Init
    <2>2. c2s \in Seq(Commands) /\ s2c \in Seq(Item)
      BY DEF Init
    <2>3. server \in [proto : {"v3", "v4"}, station : BOOLEAN, mode : {"asked", "streams"}]
      BY DEF Init
    <2>4. QED
      BY <2>1, <2>2, <2>3 DEF WireOK
  <1>4. WatcherInv
    BY <1>0 DEF Init, WatcherInv
  <1>5. QED
    BY <1>2, <1>3, <1>4

LEMMA CloseOK ==
    ASSUME TypeOK, WireOK, Close
    PROVE  /\ sock' \in BOOLEAN /\ streaming' \in BOOLEAN /\ sentStation' \in BOOLEAN
           /\ ~sock' /\ protocol' \in {"none", "v3", "v4"}
           /\ up' \in BOOLEAN /\ c2s' \in Seq(Commands) /\ s2c' \in Seq(Item)
           /\ server' \in [proto : {"v3", "v4"}, station : BOOLEAN, mode : {"asked", "streams"}]
  <1>1. sock' \in BOOLEAN /\ streaming' \in BOOLEAN /\ up' \in BOOLEAN /\ ~sock'
    BY DEF Close
  <1>2. c2s' \in Seq(Commands) /\ s2c' \in Seq(Item)
    BY DEF Close
  <1>3. /\ sentStation' \in BOOLEAN /\ protocol' \in {"none", "v3", "v4"}
        /\ server' \in [proto : {"v3", "v4"}, station : BOOLEAN, mode : {"asked", "streams"}]
    BY DEF Close, TypeOK, WireOK
  <1>4. QED
    BY <1>1, <1>2, <1>3

LEMMA TypeStep ==
    ASSUME TypeOK, WireOK, WatcherInv, Next
    PROVE  TypeOK' /\ WireOK'
  <1>0. /\ MaxLines \in Nat /\ MaxFaults \in Nat /\ MaxItems \in Nat
        /\ "none" \notin Commands
    BY ShellAssumption DEF Commands
  <1>1. ASSUME NEW c \in Commands, Ask(c) PROVE TypeOK' /\ WireOK'
    BY <1>0, <1>1 DEF Ask, SendAll, TypeOK, WireOK, WatcherInv, clientVars, threadVars,
       countVars
  <1>2. ASSUME NEW c \in Commands, Finish(c) PROVE TypeOK' /\ WireOK'
    <2>1. keys' \in 0..MaxLines /\ transfer' \in 0..MaxLines
      BY <1>0, <1>2 DEF Finish, TypeOK, WatcherInv
    <2>2. /\ watcher' \in [Transfers -> {"none", "select", "stop", "shut", "gone"}]
          /\ stopped' \in [Transfers -> BOOLEAN]
      BY <1>2 DEF Finish, TypeOK
    <2>3. QED
      BY <1>0, <1>2, <2>1, <2>2 DEF Finish, SendAll, TypeOK, WireOK
  <1>3. CASE Leave \/ InterruptShell
    <2>1. /\ keys' \in 0..MaxLines /\ UNCHANGED <<transfer, watcher, stopped, strayed>>
          /\ pc' = "exit" /\ cmd' = "none" /\ Close
      BY <1>0, <1>3 DEF Leave, InterruptShell, TypeOK, threadVars
    <2>2. QED
      BY <1>0, <2>1, CloseOK DEF TypeOK, WireOK
  <1>4. CASE Nothing \/ Idle
    BY <1>0, <1>4 DEF Nothing, Idle, TypeOK, WireOK, clientVars, threadVars, wireVars,
       countVars, vars
  <1>5. CASE Answered
    BY <1>0, <1>5 DEF Answered, Upgrade, Prompt, TypeOK, WireOK, threadVars, countVars
  <1>6. CASE Misread \/ ReplyLost \/ ReplyLate
    <2>1. UNCHANGED <<keys, transfer, watcher, stopped>> /\ strayed' \in BOOLEAN /\ Prompt
      BY <1>6 DEF Misread, ReplyLost, ReplyLate, WireOK, threadVars
    <2>2. CASE Close
      <3>1. pc' = "exit" /\ cmd' = "none"
        BY <2>1, <2>2, CloseOK DEF Prompt
      <3>2. QED
        BY <1>0, <2>1, <2>2, <3>1, CloseOK DEF TypeOK, WireOK
    <2>3. CASE UNCHANGED <<clientVars, wireVars>>
      BY <1>6, <2>1, <2>3 DEF Misread, ReplyLost, ReplyLate, Prompt, TypeOK, WireOK,
         clientVars, wireVars
    <2>4. QED
      BY <1>6, <2>2, <2>3 DEF Misread, ReplyLost, ReplyLate
  <1>7. CASE PrintPacket
    BY <1>0, <1>7 DEF PrintPacket, printing, TypeOK, WireOK, clientVars, threadVars,
       countVars
  <1>8. CASE DialupEnds \/ PrintFails \/ InterruptPrinting \/ InterruptCollect
    <2>1. /\ UNCHANGED <<keys, transfer, watcher>> /\ strayed' \in BOOLEAN
          /\ EndPrinting /\ pc = "print"
      BY <1>8 DEF DialupEnds, PrintFails, InterruptPrinting, InterruptCollect, printing, WireOK
    <2>2. stopped' \in [Transfers -> BOOLEAN]
      BY <2>1 DEF EndPrinting, TypeOK
    <2>3. CASE DialupEnds
      <3>1. /\ UNCHANGED <<sock, protocol, sentStation, up, c2s, server>>
            /\ streaming' \in BOOLEAN /\ pc' = "prompt" /\ cmd' = "none"
        BY <2>1, <2>3 DEF DialupEnds, EndPrinting, Prompt, TypeOK
      <3>2. s2c' \in Seq(Item)
        BY <2>3 DEF DialupEnds, WireOK
      <3>3. QED
        BY <1>0, <2>1, <2>2, <3>1, <3>2 DEF TypeOK, WireOK
    <2>4. CASE Close
      <3>1. pc' = "exit" /\ cmd' = "none"
        BY <2>1, <2>4, CloseOK DEF EndPrinting, Prompt
      <3>2. QED
        BY <1>0, <2>1, <2>2, <2>4, <3>1, CloseOK DEF TypeOK, WireOK
    <2>5. CASE UNCHANGED <<clientVars, wireVars>>
      BY <2>1, <2>2, <2>5 DEF EndPrinting, Prompt, TypeOK, WireOK, clientVars, wireVars
    <2>6. QED
      BY <1>8, <2>3, <2>4, <2>5 DEF PrintFails, InterruptPrinting, InterruptCollect
  <1>9. ASSUME NEW t \in Transfers, Watcher(t) PROVE TypeOK' /\ WireOK'
    <2>1. /\ watcher' \in [Transfers -> {"none", "select", "stop", "shut", "gone"}]
          /\ stopped' \in [Transfers -> BOOLEAN]
      BY <1>9 DEF Watcher, Wake, SetStopped, ShutDown, TypeOK
    <2>2. /\ UNCHANGED <<pc, cmd, keys, clientVars, transfer, strayed, s2c, server>>
          /\ (up' = up /\ c2s' = c2s) \/ (up' = FALSE /\ c2s' = <<>>)
      BY <1>9 DEF Watcher, Wake, SetStopped, ShutDown, wireVars
    <2>3. up' \in BOOLEAN
      BY <2>2 DEF WireOK
    <2>4. c2s' \in Seq(Commands)
      <3>1. <<>> \in Seq(Commands) /\ (c2s' = c2s \/ c2s' = <<>>)
        BY <2>2
      <3>2. QED
        BY <3>1 DEF WireOK
    <2>5. QED
      BY <2>1, <2>2, <2>3, <2>4 DEF TypeOK, WireOK, clientVars
  <1>10. CASE Type
    <2>1. keys' \in 0..MaxLines
      BY <1>0, <1>10 DEF Type, TypeOK, WatcherInv
    <2>2. UNCHANGED <<pc, cmd, clientVars, threadVars, wireVars, strayed>>
      BY <1>10 DEF Type
    <2>3. QED
      BY <2>1, <2>2 DEF TypeOK, WireOK, clientVars, threadVars, wireVars
  <1>11. CASE Cut
    <2>1. UNCHANGED <<pc, cmd, keys, clientVars, threadVars, server, strayed>>
      BY <1>11 DEF Cut
    <2>2. up' \in BOOLEAN
      BY <1>11 DEF Cut
    <2>3. c2s' \in Seq(Commands) /\ s2c' \in Seq(Item)
      BY <1>11 DEF Cut, WireOK
    <2>4. QED
      BY <2>1, <2>2, <2>3 DEF TypeOK, WireOK, clientVars, threadVars
  <1>12. CASE Serving
    <2>1. ASSUME NEW effect, NEW items, Serve(effect, items), items \in Seq(Item),
                 effect \in [proto : {"v3", "v4"}, station : BOOLEAN,
                             mode : {"asked", "streams"}]
          PROVE  TypeOK' /\ WireOK'
      BY <1>0, <2>1 DEF Serve, TypeOK, WireOK, clientVars, threadVars
    <2>2. /\ <<>> \in Seq(Item) /\ \A ok \in BOOLEAN : <<Reply(ok)>> \in Seq(Item)
          /\ <<Frame("info", server.proto)>> \in Seq(Item)
      BY DEF Reply, Frame, Item, WireOK
    <2>3. QED
      BY <1>12, <2>1, <2>2 DEF Serving, ServeAccepts, ServeRejects, ServeStreaming, Begin,
         WireOK, Commands
  <1>13. CASE SendPacket \/ SendEnd
    <2>1. UNCHANGED <<pc, cmd, keys, clientVars, threadVars, up, c2s, strayed>>
      BY <1>13 DEF SendPacket, SendEnd
    <2>2. Frame("packet", server.proto) \in Item /\ Frame("end", "none") \in Item
      BY DEF Frame, Item, WireOK
    <2>3. /\ s2c' \in Seq(Item)
          /\ server' \in [proto : {"v3", "v4"}, station : BOOLEAN, mode : {"asked", "streams"}]
      <3>1. /\ \E item \in Item : s2c' = Append(s2c, item)
            /\ server' = server \/ server' = [server EXCEPT !.mode = "asked"]
        BY <1>13, <2>2 DEF SendPacket, SendEnd
      <3>2. QED
        BY <3>1 DEF WireOK
    <2>4. QED
      BY <2>1, <2>3 DEF TypeOK, WireOK, clientVars, threadVars
  <1>14. QED
    BY <1>1, <1>2, <1>3, <1>4, <1>5, <1>6, <1>7, <1>8, <1>9, <1>10, <1>11, <1>12, <1>13
       DEF Next, Command, Exchange, Printing

(* A transfer's watcher is there before its packets; only it sets the      *)
(* Event while they are printed.                                           *)
LEMMA WatcherStep ==
    ASSUME TypeOK, WatcherInv, Next
    PROVE  WatcherInv'
  <1>0. /\ MaxLines \in Nat /\ transfer \in 0..MaxLines /\ keys \in 0..MaxLines
        /\ typed \in 0..MaxLines /\ transfer + keys <= typed
        /\ watcher \in [Transfers -> {"none", "select", "stop", "shut", "gone"}]
        /\ stopped \in [Transfers -> BOOLEAN]
    BY ShellAssumption DEF TypeOK, WatcherInv
  <1>1. ASSUME /\ UNCHANGED <<threadVars, typed>> /\ keys' \in Nat /\ keys' <= keys
               /\ pc' = "print" => pc = "print"
        PROVE  WatcherInv'
    <2>1. transfer' = transfer /\ typed' = typed /\ keys' \in Nat /\ keys' <= keys
      BY <1>1 DEF threadVars
    <2>2. \A k \in Nat : k <= keys => transfer + k <= typed
      <3>1. transfer \in Nat /\ keys \in Nat /\ typed \in Nat /\ transfer + keys <= typed
        BY <1>0
      <3>2. QED
        BY <3>1
    <2>3. transfer' + keys' <= typed' /\ typed' \in 0..MaxLines
      BY <1>0, <2>1, <2>2
    <2>4. QED
      BY <1>1, <2>3 DEF WatcherInv, threadVars
  <1>2. ASSUME NEW c \in Commands, Ask(c) PROVE WatcherInv'
    BY <1>0, <1>1, <1>2 DEF Ask, countVars
  <1>3. ASSUME NEW c \in Commands, Finish(c) PROVE WatcherInv'
    BY <1>0, <1>3 DEF Finish, WatcherInv, Transfers, countVars
  <1>4. CASE Leave \/ Nothing \/ InterruptShell \/ Idle
    BY <1>0, <1>1, <1>4 DEF Leave, Nothing, InterruptShell, Idle, threadVars, countVars, vars
  <1>5. CASE Answered \/ Misread \/ ReplyLost \/ ReplyLate
    BY <1>0, <1>1, <1>5 DEF Answered, Misread, ReplyLost, ReplyLate, Prompt, countVars
  <1>6. CASE PrintPacket \/ Cut \/ Serving \/ SendPacket \/ SendEnd
    <2>1. UNCHANGED <<threadVars, typed, keys, pc>>
      BY <1>6 DEF PrintPacket, Cut, Serving, ServeAccepts, ServeRejects, ServeStreaming,
         Serve, SendPacket, SendEnd, countVars
    <2>2. QED
      BY <1>0, <1>1, <2>1
  <1>7. CASE DialupEnds \/ PrintFails \/ InterruptPrinting \/ InterruptCollect
    <2>1. /\ UNCHANGED <<transfer, watcher, typed, keys>> /\ pc' # "print"
          /\ pc = "print" /\ stopped' = [stopped EXCEPT ![transfer] = TRUE]
      BY <1>7 DEF DialupEnds, PrintFails, InterruptPrinting, InterruptCollect, EndPrinting,
         Prompt, printing, countVars
    <2>2. QED
      BY <1>0, <2>1 DEF WatcherInv
  <1>8. ASSUME NEW t \in Transfers, Watcher(t) PROVE WatcherInv'
    BY <1>0, <1>8 DEF Watcher, Wake, SetStopped, ShutDown, WatcherInv, Transfers, countVars
  <1>9. CASE Type
    BY <1>0, <1>9 DEF Type, WatcherInv, threadVars
  <1>10. QED
    BY <1>2, <1>3, <1>4, <1>5, <1>6, <1>7, <1>8, <1>9
       DEF Next, Command, Exchange, Printing

-----------------------------------------------------------------------------
(* The lockstep of client and server.                                      *)
LEMMA LockInit == Init => Lockstep
  BY DEF Init, Lockstep, PromptIsQuiet, Agreed, ReplyInv, PrintInv, framing

LEMMA LockStep ==
    ASSUME TypeOK, WireOK, Lockstep, Next
    PROVE  Lockstep'
  <1> SUFFICES ASSUME ~strayed'
               PROVE  PromptIsQuiet' /\ Agreed' /\ ReplyInv' /\ PrintInv'
    BY DEF Lockstep
  <1>0. /\ pc \in {"prompt", "reply", "print", "exit"} /\ (pc = "reply" <=> cmd # "none")
        /\ c2s \in Seq(Commands) /\ s2c \in Seq(Item) /\ up \in BOOLEAN
        /\ server \in [proto : {"v3", "v4"}, station : BOOLEAN, mode : {"asked", "streams"}]
        /\ protocol \in {"none", "v3", "v4"} /\ framing \in {"v3", "v4"}
    BY DEF TypeOK, WireOK, framing
  <1>1. ~strayed
    <2>1. strayed => strayed'
      BY DEF Next, Command, Ask, Finish, Leave, Nothing, Exchange, Answered, Misread, ReplyLost,
         Printing, PrintPacket, DialupEnds, PrintFails, ReplyLate, InterruptShell,
         InterruptPrinting, InterruptCollect, Watcher, Wake, SetStopped, ShutDown, Type, Cut,
         Serving, ServeAccepts, ServeRejects, ServeStreaming, Serve, SendPacket, SendEnd, Idle,
         vars
    <2>2. QED
      BY <2>1
  <1>2. PromptIsQuiet /\ Agreed /\ ReplyInv /\ PrintInv
    BY <1>1 DEF Lockstep
  <1>3. ASSUME pc' = "exit"
        PROVE  PromptIsQuiet' /\ Agreed' /\ ReplyInv' /\ PrintInv'
    BY <1>3 DEF PromptIsQuiet, Agreed, ReplyInv, PrintInv
  <1>4. ASSUME UNCHANGED <<pc, cmd, protocol, up, c2s, s2c, server>>
        PROVE  PromptIsQuiet' /\ Agreed' /\ ReplyInv' /\ PrintInv'
    BY <1>1, <1>2, <1>4 DEF PromptIsQuiet, Agreed, ReplyInv, Asked, Replied, PrintInv, framing
  <1>5. ASSUME NEW c \in Commands, Ask(c)
        PROVE  PromptIsQuiet' /\ Agreed' /\ ReplyInv' /\ PrintInv'
    <2>1. /\ c2s = <<>> /\ s2c = <<>> /\ server.mode = "asked" /\ server.proto = framing
          /\ pc' = "reply" /\ cmd' = c /\ c2s' = IF up THEN <<c>> ELSE <<>>
          /\ UNCHANGED <<protocol, up, s2c, server>> /\ framing' = framing
      BY <1>0, <1>1, <1>2, <1>5
         DEF Ask, SendAll, PromptIsQuiet, Agreed, clientVars, framing
    <2>2. /\ c \notin {"END", "BYE"}
          /\ c \in {"DATA", "FETCH"} => server.proto = "v4" \/ server.station
      BY <1>0, <1>5, <2>1 DEF Ask, Answers, framing
    <2>3. PromptIsQuiet' /\ Agreed' /\ PrintInv'
      BY <2>1 DEF PromptIsQuiet, Agreed, PrintInv
    <2>4. CASE up
      BY <2>1, <2>2, <2>3, <2>4 DEF ReplyInv, Asked
    <2>5. CASE ~up
      BY <2>1, <2>3, <2>5 DEF ReplyInv
    <2>6. QED
      BY <2>4, <2>5
  <1>6. ASSUME NEW c \in Commands, Finish(c)
        PROVE  PromptIsQuiet' /\ Agreed' /\ ReplyInv' /\ PrintInv'
    <2>1. /\ c2s = <<>> /\ s2c = <<>> /\ server.mode = "asked" /\ server.proto = framing
          /\ pc' = "print" /\ cmd' = "none" /\ c2s' = IF up THEN <<c>> ELSE <<>>
          /\ UNCHANGED <<protocol, up, s2c, server>> /\ framing' = framing
          /\ c \in {"DATA", "FETCH", "END"}
      BY <1>0, <1>1, <1>2, <1>6 DEF Finish, SendAll, PromptIsQuiet, Agreed, framing
    <2>2. QED
      BY <1>0, <2>1 DEF PromptIsQuiet, Agreed, ReplyInv, PrintInv
  <1>7. CASE Leave \/ InterruptShell
    BY <1>3, <1>7 DEF Leave, InterruptShell
  <1>8. CASE Nothing \/ Idle \/ Type \/ \E t \in Transfers : Wake(t) \/ SetStopped(t)
    <2>1. UNCHANGED <<pc, cmd, clientVars, wireVars>>
      BY <1>8 DEF Nothing, Idle, Type, Wake, SetStopped, vars
    <2>2. QED
      BY <1>4, <2>1 DEF clientVars, wireVars
  <1>9. CASE Answered
    <2>1. /\ Replied /\ server.mode = "asked" /\ cmd' = "none" /\ pc' \in {"prompt", "exit"}
          /\ s2c' = Tail(s2c) /\ UNCHANGED <<c2s, server>>
          /\ protocol' = IF cmd = "SLPROTO" /\ Head(s2c).ok THEN "v4" ELSE protocol
      BY <1>0, <1>2, <1>9 DEF Answered, ReplyInv, Asked, Upgrade, Prompt
    <2>2. s2c' = <<>> /\ Head(s2c) = s2c[1]
      BY <1>0, <2>1 DEF Replied
    <2>3. server.proto = framing'
      <3>1. CASE cmd = "SLPROTO"
        BY <2>1, <2>2, <3>1 DEF Replied, framing
      <3>2. CASE cmd # "SLPROTO"
        BY <1>0, <1>2, <1>9, <2>1, <3>2 DEF Agreed, Answered, framing
      <3>3. QED
        BY <3>1, <3>2
    <2>4. QED
      BY <2>1, <2>2, <2>3 DEF Replied, PromptIsQuiet, Agreed, ReplyInv, PrintInv
  <1>10. CASE Misread
    BY <1>0, <1>2, <1>10 DEF Misread, fits, ReplyInv, Asked, Replied
  <1>11. CASE ReplyLost
    BY <1>3, <1>11 DEF ReplyLost, Close, Prompt
  <1>12. CASE ReplyLate \/ InterruptCollect
    BY <1>12 DEF ReplyLate, InterruptCollect
  <1>13. CASE PrintFails \/ InterruptPrinting
    BY <1>3, <1>13 DEF PrintFails, InterruptPrinting, Close, EndPrinting, Prompt
  <1>14. CASE PrintPacket
    <2>1. /\ s2c # <<>> /\ s2c' = Tail(s2c) /\ pc = "print"
          /\ UNCHANGED <<pc, cmd, protocol, up, c2s, server>>
      BY <1>14 DEF PrintPacket, printing, clientVars
    <2>2. /\ Len(s2c') = Len(s2c) - 1
          /\ \A i \in 1..Len(s2c') : s2c'[i] = s2c[i + 1] /\ i + 1 \in 1..Len(s2c)
      BY <1>0, <2>1
    <2>3. PrintInv'
      <3>1. c2s' = <<>> /\ framing' = framing
        BY <1>0, <1>2, <2>1 DEF PrintInv, framing
      <3>2. ASSUME NEW i \in 1..Len(s2c')
            PROVE  /\ s2c'[i].framing \in {"none", framing}
                   /\ s2c'[i].kind = "end" => i = Len(s2c') /\ server.mode = "asked"
        <4>1. /\ s2c[i + 1].framing \in {"none", framing}
              /\ s2c[i + 1].kind = "end" => i + 1 = Len(s2c) /\ server.mode = "asked"
          BY <1>2, <2>1, <2>2, <3>2 DEF PrintInv
        <4>2. i + 1 = Len(s2c) => i = Len(s2c')
          BY <1>0, <2>2, <3>2
        <4>3. QED
          BY <2>2, <4>1, <4>2
      <3>3. QED
        BY <2>1, <3>1, <3>2 DEF PrintInv
    <2>4. QED
      BY <1>2, <2>1, <2>3 DEF PromptIsQuiet, Agreed, ReplyInv, framing
  <1>15. CASE DialupEnds
    <2>1. /\ s2c # <<>> /\ Head(s2c).kind = "end" /\ s2c' = Tail(s2c) /\ pc = "print"
          /\ pc' \in {"prompt", "exit"} /\ cmd' = "none"
          /\ UNCHANGED <<protocol, up, c2s, server>>
      BY <1>15 DEF DialupEnds, printing, EndPrinting, Prompt
    <2>2. s2c' = <<>> /\ c2s = <<>> /\ server.mode = "asked"
      BY <1>0, <1>2, <2>1, SMTT(30) DEF PrintInv
    <2>3. QED
      BY <1>0, <1>2, <2>1, <2>2 DEF PromptIsQuiet, Agreed, ReplyInv, PrintInv, framing
  <1>16. CASE Cut \/ \E t \in Transfers : ShutDown(t)
    <2>1. PICK n \in 0..Len(s2c) : s2c' = SubSeq(s2c, 1, n)
      BY <1>0, <1>16 DEF Cut, ShutDown
    <2>2. /\ up' = FALSE /\ c2s' = <<>>
          /\ UNCHANGED <<pc, cmd, protocol, server>> /\ framing' = framing
      BY <1>16 DEF Cut, ShutDown, clientVars, framing
    <2>3. /\ s2c' \in Seq(Item) /\ Len(s2c') = n /\ n <= Len(s2c)
          /\ \A i \in 1..n : s2c'[i] = s2c[i]
      BY <1>0, <2>1
    <2>4. PromptIsQuiet'
      BY <1>1, <1>2, <2>2, <2>3 DEF PromptIsQuiet
    <2>5. Agreed'
      BY <1>0, <1>2, <2>2 DEF Agreed
    <2>6. ReplyInv'
      <3>1. n = 0 => s2c' = <<>>
        BY <2>3
      <3>2. CASE n = 0
        BY <2>2, <3>1, <3>2 DEF ReplyInv
      <3>3. CASE n > 0
        BY <1>0, <1>2, <2>2, <2>3, <3>3 DEF ReplyInv, Asked, Replied
      <3>4. QED
        BY <3>2, <3>3
    <2>7. PrintInv'
      BY <1>2, <2>2, <2>3 DEF PrintInv
    <2>8. QED
      BY <2>4, <2>5, <2>6, <2>7
  <1>17. CASE Serving
    <2>1. /\ up /\ c2s # <<>> /\ c2s' = Tail(c2s)
          /\ UNCHANGED <<pc, cmd, protocol, up>> /\ framing' = framing
      BY <1>17 DEF Serving, ServeAccepts, ServeRejects, ServeStreaming, Serve, clientVars,
         framing
    <2>2. CASE pc = "reply"
      <3>1. Asked /\ server.mode = "asked" /\ cmd # "none"
        BY <1>0, <1>2, <2>1, <2>2 DEF ReplyInv, Replied
      <3>2. c2s' = <<>> /\ Head(c2s) = cmd /\ server.proto = framing
        BY <1>0, <1>2, <2>1, <2>2, <3>1 DEF Asked, Agreed
      <3>3. ASSUME NEW item \in Item, s2c' = s2c \o <<item>>, server'.mode = "asked",
                   IF cmd = "INFO" THEN item.kind = "info" /\ item.framing = framing
                   ELSE item.kind = "line",
                   server'.proto = IF cmd = "SLPROTO" /\ item.ok THEN "v4" ELSE framing
            PROVE  Replied' /\ Agreed'
        <4>1. Len(s2c') = 1 /\ s2c'[1] = item
          BY <3>1, <3>3 DEF Asked
        <4>2. QED
          BY <2>1, <3>2, <3>3, <4>1 DEF Replied, Agreed
      <3>4. \A ok \in BOOLEAN : Reply(ok) \in Item /\ Reply(ok).kind = "line" /\ Reply(ok).ok = ok
        BY DEF Reply, Item
      <3>5. /\ Frame("info", server.proto) \in Item /\ Frame("info", server.proto).kind = "info"
            /\ Frame("info", server.proto).framing = server.proto
        BY <1>0 DEF Frame, Item
      <3>6. Replied' /\ Agreed' /\ server'.mode = "asked"
        <4>1. CASE ServeRejects
          <5>1. s2c' = s2c \o <<Reply(FALSE)>> /\ server' = server /\ cmd # "INFO"
            BY <3>2, <4>1 DEF ServeRejects, Serve
          <5>2. QED
            BY <3>1, <3>2, <3>3, <3>4, <5>1
        <4>2. CASE ServeAccepts /\ cmd \in {"HELLO", "SELECT"}
          <5>1. s2c' = s2c \o <<Reply(TRUE)>> /\ server' = server
            BY <3>2, <4>2 DEF ServeAccepts, Serve
          <5>2. QED
            BY <3>1, <3>2, <3>3, <3>4, <4>2, <5>1
        <4>3. CASE ServeAccepts /\ cmd = "SLPROTO"
          <5>1. s2c' = s2c \o <<Reply(TRUE)>> /\ server' = [server EXCEPT !.proto = "v4"]
            BY <3>2, <4>3 DEF ServeAccepts, Serve
          <5>2. server'.mode = "asked" /\ server'.proto = "v4"
            BY <1>0, <3>1, <5>1
          <5>3. QED
            BY <3>1, <3>2, <3>3, <3>4, <4>3, <5>1, <5>2
        <4>4. CASE ServeAccepts /\ cmd = "STATION"
          <5>1. s2c' = s2c \o <<Reply(TRUE)>> /\ server' = [server EXCEPT !.station = TRUE]
            BY <3>2, <4>4 DEF ServeAccepts, Serve
          <5>2. server'.mode = "asked" /\ server'.proto = framing
            BY <1>0, <3>1, <3>2, <5>1
          <5>3. QED
            BY <3>1, <3>2, <3>3, <3>4, <4>4, <5>1, <5>2
        <4>5. CASE ServeAccepts /\ cmd = "INFO"
          <5>1. s2c' = s2c \o <<Frame("info", server.proto)>> /\ server' = server
            BY <3>2, <4>5 DEF ServeAccepts, Serve
          <5>2. QED
            BY <3>1, <3>2, <3>3, <3>5, <4>5, <5>1
        <4>6. CASE ServeAccepts /\ cmd \in {"DATA", "FETCH"}
          <5>1. PICK ok \in BOOLEAN : s2c' = s2c \o <<Reply(ok)>> /\ server' = server
            <6>1. server.station \in BOOLEAN
              BY <1>0
            <6>2. CASE server.proto = "v4"
              <7>1. (cmd = "DATA" /\ server.station) \in BOOLEAN
                OBVIOUS
              <7>2. /\ s2c' = s2c \o <<Reply(cmd = "DATA" /\ server.station)>>
                    /\ server' = server
                BY <3>2, <4>6, <6>2 DEF ServeAccepts, Serve
              <7>3. QED
                BY <7>1, <7>2
            <6>3. CASE server.proto = "v3"
              BY <3>1, <3>2, <4>6, <6>3 DEF ServeAccepts, Serve, Asked
            <6>4. QED
              BY <1>0, <6>2, <6>3
          <5>2. QED
            BY <3>1, <3>2, <3>3, <3>4, <4>6, <5>1
        <4>7. CASE ServeStreaming
          BY <3>1, <4>7 DEF ServeStreaming, InHandshake
        <4>8. QED
          BY <1>17, <3>1, <3>2, <4>1, <4>2, <4>3, <4>4, <4>5, <4>6, <4>7
             DEF Serving, ServeAccepts, Asked
      <3>7. QED
        BY <2>1, <2>2, <3>6 DEF PromptIsQuiet, ReplyInv, PrintInv
    <2>3. CASE pc = "print"
      <3>1. /\ s2c = <<>> /\ server.mode = "asked" /\ cmd = "none"
            /\ c2s' = <<>> /\ Head(c2s) \in {"DATA", "FETCH", "END"}
        BY <1>0, <1>2, <2>1, <2>3 DEF PrintInv
      <3>2. server.proto = framing
        BY <1>2, <2>3, <3>1 DEF Agreed
      <3>3. /\ server'.proto = framing
            /\ s2c' = <<>> \/ \E ok : s2c' = <<Reply(ok)>>
        <4>1. ASSUME NEW effect, NEW items, Serve(effect, items)
              PROVE  server' = effect /\ s2c' = s2c \o items
          BY <4>1 DEF Serve
        <4>2. ~ServeStreaming /\ ~ServeRejects
          BY <3>1 DEF ServeStreaming, ServeRejects, InHandshake
        <4>3. \/ Serve(Begin, <<>>) \/ Serve(server, <<Reply(TRUE)>>)
              \/ \E ok : Serve(server, <<Reply(ok)>>)
          BY <1>17, <3>1, <4>2 DEF Serving, ServeAccepts
        <4>4. Begin.proto = server.proto
          BY <1>0 DEF Begin
        <4>5. s2c \o <<>> = <<>> /\ \A ok : s2c \o <<Reply(ok)>> = <<Reply(ok)>>
          <5>1. \A e : <<>> \o <<e>> = <<e>>
            OBVIOUS
          <5>2. QED
            BY <3>1, <5>1
        <4>6. QED
          BY <3>2, <4>1, <4>3, <4>4, <4>5
      <3>4. \A ok : Reply(ok).framing = "none" /\ Reply(ok).kind = "line"
        BY DEF Reply
      <3>5. PrintInv'
        BY <2>1, <2>3, <3>1, <3>3, <3>4 DEF PrintInv
      <3>6. QED
        BY <2>1, <2>3, <3>3, <3>5 DEF PromptIsQuiet, Agreed, ReplyInv
    <2>4. CASE pc = "prompt"
      BY <1>1, <1>2, <2>1, <2>4 DEF PromptIsQuiet
    <2>5. QED
      BY <1>0, <1>3, <2>1, <2>2, <2>3, <2>4
  <1>18. CASE SendPacket \/ SendEnd
    <2>1. /\ up /\ server.mode # "asked"
          /\ UNCHANGED <<pc, cmd, protocol, up, c2s>> /\ framing' = framing
      BY <1>18 DEF SendPacket, SendEnd, InHandshake, clientVars, framing
    <2>2. pc \in {"print", "exit"}
      BY <1>0, <1>1, <1>2, <2>1 DEF PromptIsQuiet, ReplyInv
    <2>3. CASE pc = "print"
      <3>1. PICK item : /\ s2c' = Append(s2c, item)
                        /\ item.framing \in {"none", server.proto}
                        /\ item.kind = "end" => server'.mode = "asked"
        BY <1>0, <1>18 DEF SendPacket, SendEnd, Frame
      <3>2. /\ c2s = <<>> /\ cmd = "none" /\ server.proto = framing
            /\ server'.proto = server.proto
        BY <1>0, <1>2, <1>18, <2>1, <2>3 DEF PrintInv, Agreed, SendPacket, SendEnd
      <3>3. /\ Len(s2c') = Len(s2c) + 1 /\ s2c'[Len(s2c) + 1] = item
            /\ \A i \in 1..Len(s2c) : s2c'[i] = s2c[i]
        BY <1>0, <3>1
      <3>4. ASSUME NEW i \in 1..Len(s2c')
            PROVE  /\ s2c'[i].framing \in {"none", framing}
                   /\ s2c'[i].kind = "end" => i = Len(s2c') /\ server'.mode = "asked"
        <4>1. CASE i \in 1..Len(s2c)
          BY <1>2, <2>1, <2>3, <3>3, <4>1 DEF PrintInv
        <4>2. CASE i = Len(s2c) + 1
          BY <3>1, <3>2, <3>3, <4>2
        <4>3. i \in 1..Len(s2c) \/ i = Len(s2c) + 1
          BY <1>0, <3>3
        <4>4. QED
          BY <4>1, <4>2, <4>3
      <3>5. PrintInv'
        BY <2>1, <3>2, <3>4 DEF PrintInv
      <3>6. QED
        BY <2>1, <2>3, <3>2, <3>5 DEF PromptIsQuiet, Agreed, ReplyInv
    <2>4. QED
      BY <1>3, <2>1, <2>2, <2>3
  <1>19. QED
    BY <1>5, <1>6, <1>7, <1>8, <1>9, <1>10, <1>11, <1>12, <1>13, <1>14, <1>15, <1>16, <1>17, <1>18
       DEF Next, Command, Exchange, Printing, Watcher

-----------------------------------------------------------------------------
(* An error is shown unless the Event of this transfer is set.             *)
LEMMA ErrorStep ==
    ASSUME TypeOK, WatcherInv, Next
    PROVE  hidden' /\ ~hidden => watcher[transfer] \notin {"none", "select"}
  <1>1. CASE PrintFails
    <2>1. hidden' = stopped[transfer] /\ pc = "print"
      BY <1>1 DEF PrintFails, printing
    <2>2. QED
      BY <2>1 DEF WatcherInv
  <1>2. CASE ~PrintFails
    <2>1. hidden' = hidden
      BY <1>2 DEF Next, Command, Ask, Finish, Leave, Nothing, Exchange, Answered, Misread,
         ReplyLost, Printing, PrintPacket, DialupEnds, ReplyLate, InterruptShell,
         InterruptPrinting, InterruptCollect, Watcher, Wake, SetStopped, ShutDown, Type, Cut,
         Serving, ServeAccepts, ServeRejects, ServeStreaming, Serve, SendPacket, SendEnd, Idle,
         vars
    <2>2. QED
      BY <2>1
  <1>3. QED
    BY <1>1, <1>2

LEMMA InvInit == Init => Inv
  BY TypeInit, LockInit DEF Inv

LEMMA InvStep == Inv /\ [Next]_vars => Inv'
  <1> SUFFICES ASSUME Inv, [Next]_vars PROVE Inv'
    OBVIOUS
  <1>1. CASE Next
    BY <1>1, TypeStep, WatcherStep, LockStep DEF Inv
  <1>2. CASE UNCHANGED vars
    <2>1. TypeOK' /\ WireOK' /\ WatcherInv'
      BY <1>2 DEF Inv, TypeOK, WireOK, WatcherInv, vars, clientVars, threadVars, wireVars,
         countVars
    <2>3. Lockstep'
      BY <1>2 DEF Inv, Lockstep, PromptIsQuiet, Agreed, ReplyInv, Asked, Replied, PrintInv,
         framing, vars, clientVars, wireVars
    <2>4. QED
      BY <2>1, <2>3 DEF Inv
  <1>3. QED
    BY <1>1, <1>2

LEMMA InvAlways == Spec => []Inv
  BY InvInit, InvStep, PTL DEF Spec

(* Every variable keeps its type; there is a command being answered just   *)
(* while a reply is awaited, and a socket until the shell ends.            *)
THEOREM TypeCorrect == Spec => []TypeOK
  BY InvAlways, PTL DEF Inv

(* The operator who waits for each reply, whose stations were not all      *)
(* rejected and who lets transfers end finds nothing under way at the      *)
(* prompt (cli.py: _send_line() reads one reply for each command).         *)
THEOREM QuietPrompt == Spec => []PromptIsQuiet
  BY InvAlways, PTL DEF Inv, Lockstep, PromptIsQuiet

(* ... and has every packet read with the framing it was sent in, whenever *)
(* SLPROTO was sent and whether it was accepted.                           *)
THEOREM FramingKnown == Spec => []FramingAgrees
  <1>1. Inv => FramingAgrees
    BY DEF Inv, Lockstep, PrintInv, FramingAgrees
  <1>2. QED
    BY <1>1, InvAlways, PTL

(* The Event that hides an error is that of the transfer it ends, set by   *)
(* that transfer's watcher (cli.py: _finish_handshake()).                  *)
THEOREM NoErrorHidden == Spec => ErrorsShown
  <1>1. Inv /\ [Next]_vars =>
        [hidden' /\ ~hidden => watcher[transfer] \notin {"none", "select"}]_vars
    BY ErrorStep DEF Inv
  <1>2. QED
    BY <1>1, InvAlways, PTL DEF Spec, ErrorsShown
=============================================================================
