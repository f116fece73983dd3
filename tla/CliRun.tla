------------------------------- MODULE CliRun -------------------------------
(***************************************************************************)
(* The command-line program's streaming run (main() of cli.py) with a      *)
(* state file (-x) and a dump file (-o): run after run of a process that   *)
(* may be stopped at any step.  collect() is taken at its word: it hands   *)
(* over the packets after the stream's position, in order.                 *)
(*                                                                         *)
(* The dump file is opened with Python's buffering: what is written is on  *)
(* disk only once the buffer filled up or the file was closed.  A packet   *)
(* is in the dump when all of it is.                                       *)
(***************************************************************************)
EXTENDS StreamState

CONSTANTS Id, St,      \* the stream asked for on the command line, its station
          MaxRuns,     \* bound: runs of the program
          Trouble      \* what may happen to a run, besides a lost server
                       \* that ends it

ASSUME CliAssumption ==
    /\ Id \in Ids /\ Matches[Id] = {St}
    /\ MaxRuns \in Nat
    /\ Trouble \subseteq {"kill", "interrupt_setup", "interrupt", "interrupt_exit",
                     "badwindow", "unreadable", "savefails", "printfails",
                     "dumpfails"}

VARIABLES pc,          \* where main() is
          wanted,      \* the next packet collect() will hand over
          packet,      \* the packet in the loop body
          dump,        \* the dump file on disk
          dumpbuf,     \* written, not yet on disk
          runs,        \* runs so far
          received,    \* the packets collect() handed over, of all runs (history)
          happened     \* the troubles that struck (history)

cliVars == <<pc, wanted, packet, dump, dumpbuf, runs>>

ClientKept == UNCHANGED <<memVars, newest, temp, file>>

CliTypeOK ==
    /\ TypeOK
    /\ pc \in {"off", "connect", "streams", "window", "recover", "start",
               "collect", "body", "periodic", "close", "final"}
    /\ wanted \in Nat /\ packet \in Nat
    /\ dump \in Seq(Nat) /\ dumpbuf \in Seq(Nat)
    /\ runs \in 0..MaxRuns
    /\ received \in Seq(Nat)
    /\ happened \subseteq Trouble

CliInit == /\ Init
           /\ pc = "off" /\ wanted = 0 /\ packet = 0
           /\ dump = <<>> /\ dumpbuf = <<>> /\ runs = 0
           /\ received = <<>> /\ happened = {}

To(step) == pc' = step

Happens(trouble) == trouble \in Trouble /\ happened' = happened \cup {trouble}

-----------------------------------------------------------------------------
Launch ==
    /\ pc = "off" /\ runs < MaxRuns
    /\ runs' = runs + 1 /\ To("connect")
    /\ ClientKept /\ UNCHANGED <<wanted, packet, dump, dumpbuf>>

(* A SeedLinkError before the dump file is opened goes to the outer        *)
(* `finally'.                                                              *)
ConnectStep ==
    /\ pc = "connect" /\ pc' \in {"streams", "final"}
    /\ ClientKept /\ UNCHANGED <<wanted, packet, dump, dumpbuf, runs>>

(* _configure_streams(): the stream list, --timewindow, the state file.    *)
ConfigureStreams ==
    /\ pc = "streams"
    /\ AddStream(Id) /\ To("window")
    /\ UNCHANGED <<wanted, packet, dump, dumpbuf, runs>>

ConfigureWindow ==
    /\ pc = "window" /\ To("recover")
    /\ ClientKept /\ UNCHANGED <<wanted, packet, dump, dumpbuf, runs>>

WindowRefused ==
    /\ pc = "window" /\ To("final")
    /\ ClientKept /\ UNCHANGED <<wanted, packet, dump, dumpbuf, runs>>

(* Mutant: the state file is only looked for.                              *)
ConfigureUnrecovered ==
    /\ pc = "recover" /\ To("start")
    /\ ClientKept
    /\ UNCHANGED <<wanted, packet, dump, dumpbuf, runs>>

ConfigureRecover ==
    /\ pc = "recover" /\ To("start")
    /\ RecoverState \/ (file = None /\ ClientKept)
    /\ UNCHANGED <<wanted, packet, dump, dumpbuf, runs>>

(* Any OSError is taken for "no state file yet".                           *)
RecoverFails ==
    /\ pc = "recover" /\ To("start")
    /\ file # None
    /\ ClientKept /\ UNCHANGED <<wanted, packet, dump, dumpbuf, runs>>

(* Mutant: the last packet is asked for again.                             *)
FromAgain(s) == IF s.seqnum = None THEN newest + 1 ELSE s.seqnum

(* collect() negotiates: from the position on, or from the next packet.    *)
From(s) == IF s.seqnum = None THEN newest + 1 ELSE s.seqnum + 1

Start ==
    /\ pc = "start" /\ To("collect")
    /\ Negotiate
    /\ wanted' = From(streams[1])
    /\ UNCHANGED <<packet, dump, dumpbuf, runs>>

-----------------------------------------------------------------------------
Yield ==
    /\ pc = "collect" /\ wanted <= newest
    /\ streams' = Updated(St, wanted)
    /\ match_cache' = [match_cache EXCEPT ![St] = Matching(St)]
    /\ seen' = seen \cup {St}
    /\ packet' = wanted /\ wanted' = wanted + 1 /\ To("body")
    /\ UNCHANGED <<recovered, multistation, all_stations, negotiated, newest, temp,
                   file, dump, dumpbuf, runs>>

(* The first n packets of q are on disk, the others in the buffer.         *)
OnDisk(q, n) == dump' = dump \o SubSeq(q, 1, n) /\ dumpbuf' = SubSeq(q, n + 1, Len(q))

(* Mutant: the payload is not written when the state is saved.             *)
BodySavesInstead ==
    /\ pc = "body" /\ pc' \in {"collect", "periodic"}
    /\ dumpbuf' = IF pc' = "periodic" THEN dumpbuf ELSE Append(dumpbuf, packet)
    /\ ClientKept /\ UNCHANGED <<wanted, packet, dump, runs>>

(* The loop body: the payload is written, the state saved when it is time. *)
(* The payload finds room in the buffer, or what is in the buffer goes to  *)
(* disk first, or the payload as well, being longer than the buffer.       *)
Body ==
    /\ pc = "body" /\ pc' \in {"collect", "periodic"}
    /\ \E n \in {0, Len(dumpbuf), Len(dumpbuf) + 1} : OnDisk(Append(dumpbuf, packet), n)
    /\ ClientKept /\ UNCHANGED <<wanted, packet, runs>>

(* _print_packet() raises, say for a closed pipe: no handler of main()'s   *)
(* takes an OSError, but its position is the stream's already.             *)
PrintFails ==
    /\ pc = "body" /\ To("close")
    /\ ClientKept /\ UNCHANGED <<wanted, packet, dump, dumpbuf, runs>>

(* The dump file cannot be opened; or dumpfile.write() has to empty the    *)
(* buffer first, and part of it does not get to the disk: the payload is   *)
(* lost, the rest of the buffer kept for close().                          *)
OpenFails ==
    /\ pc = "start" /\ To("final")
    /\ ClientKept /\ UNCHANGED <<wanted, packet, dump, dumpbuf, runs>>

WriteFails ==
    /\ pc = "body" /\ To("close")
    /\ \E n \in 0..Len(dumpbuf) : OnDisk(dumpbuf, n)
    /\ ClientKept /\ UNCHANGED <<wanted, packet, runs>>

(* collect() ends, or an error it does not retry comes out of it.          *)
CollectEnds ==
    /\ pc = "collect" /\ To("close")
    /\ ClientKept /\ UNCHANGED <<wanted, packet, dump, dumpbuf, runs>>

(* The inner `finally'.                                                    *)
CloseDump ==
    /\ pc = "close" /\ To("final")
    /\ OnDisk(dumpbuf, Len(dumpbuf))
    /\ ClientKept /\ UNCHANGED <<wanted, packet, runs>>

(* ... where close() gives up what it cannot write.                        *)
CloseFails ==
    /\ pc = "close" /\ To("final")
    /\ \E n \in 0..Len(dumpbuf) : dump' = dump \o SubSeq(dumpbuf, 1, n)
    /\ dumpbuf' = <<>>
    /\ ClientKept /\ UNCHANGED <<wanted, packet, runs>>

(* save_state(), in the loop and in the outer `finally'.                   *)
Saving == pc = "periodic" \/ (pc = "final" /\ streams # <<>>)

SaveSteps ==
    /\ Saving
    /\ SaveBegin \/ SaveLine
    /\ UNCHANGED cliVars

Gone == /\ streams' = <<>> /\ match_cache' = Uncached /\ recovered' = Nothing
        /\ multistation' = FALSE /\ all_stations' = FALSE
        /\ negotiated' = FALSE /\ seen' = {}
        /\ temp' = None /\ packet' = 0 /\ wanted' = 0 /\ dumpbuf' = <<>>
        /\ To("off")

SaveDone ==
    /\ Saving /\ temp # None /\ Len(temp) = Len(streams)
    /\ file' = temp
    /\ IF pc = "periodic"
       THEN To("collect") /\ temp' = None
            /\ UNCHANGED <<memVars, wanted, packet, dumpbuf>>
       ELSE Gone
    /\ UNCHANGED <<newest, dump, runs>>

(* An OSError of save_state(): in the loop it ends the run.                *)
SaveError ==
    /\ Saving /\ temp # None
    /\ IF pc = "periodic"
       THEN To("close") /\ temp' = None
            /\ UNCHANGED <<memVars, wanted, packet, dumpbuf>>
       ELSE Gone
    /\ UNCHANGED <<newest, file, dump, runs>>

ExitUnsaved ==
    /\ pc = "final" /\ streams = <<>>
    /\ Gone
    /\ UNCHANGED <<newest, file, dump, runs>>

-----------------------------------------------------------------------------
(* KeyboardInterrupt, before the state is recovered, or later in main()'s  *)
(* try block; a temporary state file is removed.                           *)
InterruptSetup ==
    /\ pc \in {"connect", "streams", "window", "recover"} /\ To("final")
    /\ ClientKept /\ UNCHANGED <<wanted, packet, dump, dumpbuf, runs>>

Interrupt ==
    /\ pc \in {"start", "collect", "body", "periodic", "close"}
    /\ To(IF pc = "start" THEN "final" ELSE "close")
    /\ temp' = None
    /\ UNCHANGED <<memVars, newest, file, wanted, packet, dump, dumpbuf, runs>>

(* ... and in the outer `finally', before the state is saved.              *)
InterruptExit ==
    /\ pc = "final"
    /\ Gone
    /\ UNCHANGED <<newest, file, dump, runs>>

(* SIGKILL, or the machine going down.                                     *)
Kill ==
    /\ pc # "off"
    /\ Gone
    /\ UNCHANGED <<newest, file, dump, runs>>

Publish ==
    /\ newest < MaxPackets
    /\ newest' = newest + 1
    /\ UNCHANGED <<memVars, temp, file, cliVars>>

Stopped == pc = "off" /\ runs = MaxRuns /\ UNCHANGED <<vars, cliVars>>

Orderly ==
    \/ Launch \/ ConnectStep \/ ConfigureStreams \/ ConfigureWindow
    \/ ConfigureRecover \/ Start \/ Body \/ CollectEnds \/ CloseDump
    \/ SaveSteps \/ SaveDone \/ ExitUnsaved \/ Publish \/ Stopped

Troubled ==
    \/ WindowRefused /\ Happens("badwindow")
    \/ RecoverFails /\ Happens("unreadable")
    \/ SaveError /\ Happens("savefails")
    \/ PrintFails /\ Happens("printfails")
    \/ (OpenFails \/ WriteFails \/ CloseFails) /\ Happens("dumpfails")
    \/ InterruptSetup /\ Happens("interrupt_setup")
    \/ Interrupt /\ Happens("interrupt")
    \/ InterruptExit /\ Happens("interrupt_exit")
    \/ Kill /\ Happens("kill")

CliNext ==
    \/ Yield /\ received' = Append(received, wanted) /\ UNCHANGED happened
    \/ Orderly /\ UNCHANGED <<received, happened>>
    \/ Troubled /\ UNCHANGED received

allVars == <<vars, cliVars, received, happened>>

CliSpec == CliInit /\ [][CliNext]_allVars

-----------------------------------------------------------------------------
(* The position a state file gives the stream, 0 if none.                  *)
PositionIn(f) ==
    IF f = None \/ f = <<>> \/ f[1].at.seqnum = None THEN 0 ELSE f[1].at.seqnum

Without(troubles) == happened \cap troubles = {}

(* "Save/restore stream sequence numbers to this file" (cli.py:741): a run *)
(* that was killed at any step, even while it saves, or whose files could  *)
(* not be written, keeps the position in the state file; so does every run *)
(* that got as far as recovering it, however it ends.  One that a bad --timewindow  *)
(* or an interrupt stops before, or that cannot read the file, overwrites  *)
(* every saved position with UNSET (cli.py:310, 314, 881).                 *)
ProgressKeptOnceRecovered ==
    [][Without({"badwindow", "unreadable", "interrupt_setup"})
         => PositionIn(file') >= PositionIn(file)]_allVars

(* The dump of all runs is what they received, packet for packet, and the  *)
(* packet the state file names is in it, whatever happens to the state     *)
(* file or during setup, unless a run stops between a packet's position    *)
(* and its payload: by an interrupt or a failing print a run loses the     *)
(* packet in hand and no other.  A kill or a dump file that cannot be      *)
(* written loses what was buffered, too (cli.py:860-872).                  *)
DumpHoldsReceived ==
    pc = "off" =>
        /\ Without({"kill", "dumpfails"}) => Len(received) <= Len(dump) + runs
        /\ Without({"kill", "dumpfails", "printfails", "interrupt"}) =>
               /\ dump = received
               /\ PositionIn(file) # 0 => \E k \in DOMAIN dump : dump[k] = PositionIn(file)

(* The dump file of all runs has no packet twice, unless the position of   *)
(* the run that wrote it could not be saved, and skips none when all ends  *)
(* in order.                                                               *)
DumpInOrder ==
    /\ Without({"kill", "savefails", "interrupt_exit"}) =>
           \A k \in 1..Len(dump)-1 : dump[k] < dump[k+1]
    /\ happened = {} => \A k \in 1..Len(dump)-1 : dump[k+1] <= dump[k] + 1
=============================================================================
