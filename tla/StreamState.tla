---------------------------- MODULE StreamState -----------------------------
(***************************************************************************)
(* The stream selection of a client and the resume position of each stream *)
(* (_base.py, streams.py), and the state file they are saved to and        *)
(* recovered from (state.py), over the lives of several processes.         *)
(*                                                                         *)
(* The server numbers the packets of all stations together.  A packet's    *)
(* start time is stood for by its sequence number, so a stream whose       *)
(* timestamp equals its seqnum has the time of that packet.                *)
(***************************************************************************)
EXTENDS Integers, Sequences

CONSTANTS None,
          Ids, Any,       \* station IDs and patterns users ask for; "*"
          Stations,       \* stations packets come from
          Matches,        \* Matches[id]: those the pattern matches
          Unparsable,     \* packets whose record has no readable start time
          MaxStreams,     \* bound: streams added
          MaxPackets      \* bound: packets of all stations

ASSUME StreamStateAssumption ==
    /\ Any \in Ids
    /\ Matches \in [Ids -> SUBSET Stations] /\ Matches[Any] = Stations
    /\ Unparsable \subseteq Nat
    /\ MaxStreams \in Nat /\ MaxPackets \in Nat
    /\ None \notin Nat

VARIABLES streams,        \* _streams
          match_cache,    \* match_cache[st]: positions in streams, or None
          recovered,      \* _recovered_state
          multistation,   \* _multistation
          all_stations,   \* _all_stations
          negotiated,     \* negotiate() has run: packets may come
          seen,           \* stations whose packets this process has had
          newest,         \* the last packet of the server
          temp,           \* lines written to the temporary file, or None
          file            \* the state file's lines, None if there is none

memVars  == <<streams, match_cache, recovered, multistation, all_stations,
              negotiated, seen>>
vars     == <<memVars, newest, temp, file>>

Stream   == [id : Ids, seqnum : Nat \cup {None}, timestamp : Nat \cup {None},
             pending : Nat \cup {None}]
Saved    == [seqnum : Nat \cup {None}, timestamp : Nat \cup {None}]
FileLine == [id : Ids, at : Saved]

NewStream(id) == [id |-> id, seqnum |-> None, timestamp |-> None, pending |-> None]

Uncached == [st \in Stations |-> None]
Nothing  == [id \in {} |-> None]

Positions == DOMAIN streams

TypeOK ==
    /\ streams \in Seq(Stream)
    /\ match_cache \in [Stations -> (SUBSET Positions) \cup {None}]
    /\ DOMAIN recovered \subseteq Ids
    /\ \A id \in DOMAIN recovered : recovered[id] \in Saved
    /\ multistation \in BOOLEAN /\ all_stations \in BOOLEAN
    /\ negotiated \in BOOLEAN /\ seen \subseteq Stations
    /\ newest \in Nat
    /\ temp = None \/ temp \in Seq(FileLine)
    /\ file = None \/ file \in Seq(FileLine)

Init == /\ streams = <<>> /\ match_cache = Uncached /\ recovered = Nothing
        /\ multistation = FALSE /\ all_stations = FALSE
        /\ negotiated = FALSE /\ seen = {}
        /\ newest = 0
        /\ temp = None /\ file = None

(* The client's methods do not run while save_state() does.                *)
Idle == temp = None

-----------------------------------------------------------------------------
(* _apply_recovered_state(): by exact station ID.                          *)
Applied(s, rec) ==
    IF s.id \in DOMAIN rec
    THEN [s EXCEPT !.seqnum = rec[s.id].seqnum, !.timestamp = rec[s.id].timestamp]
    ELSE s

(* Mutant: the match cache outlives the change of the stream list.         *)
AddStreamCached(id) ==
    /\ Idle /\ ~all_stations
    /\ streams' = Append(streams, Applied(NewStream(id), recovered))
    /\ multistation' = TRUE
    /\ UNCHANGED <<match_cache, recovered, all_stations, negotiated, seen, newest,
                   temp, file>>

(* add_stream(), and add_streamlist() one entry at a time.                 *)
AddStream(id) ==
    /\ Idle /\ ~all_stations
    /\ streams' = Append(streams, Applied(NewStream(id), recovered))
    /\ multistation' = TRUE
    /\ match_cache' = Uncached
    /\ UNCHANGED <<recovered, all_stations, negotiated, seen, newest, temp, file>>

SetAllStations ==
    /\ Idle /\ ~all_stations /\ streams = <<>>
    /\ streams' = <<Applied(NewStream(Any), recovered)>>
    /\ multistation' = FALSE /\ all_stations' = TRUE
    /\ match_cache' = Uncached
    /\ UNCHANGED <<recovered, negotiated, seen, newest, temp, file>>

(* load_state(): the last line of a station ID counts.                     *)
LineOf(lines, id) ==
    LET mine == {k \in DOMAIN lines : lines[k].id = id}
    IN  CHOOSE k \in mine : \A j \in mine : j <= k

Loaded(lines) ==
    [id \in {lines[k].id : k \in DOMAIN lines} |-> lines[LineOf(lines, id)].at]

(* A later file's entries replace an earlier one's.                        *)
Merged(loaded) ==
    [id \in DOMAIN loaded \cup DOMAIN recovered |->
        IF id \in DOMAIN loaded THEN loaded[id] ELSE recovered[id]]

RecoverState ==
    /\ Idle /\ file # None
    /\ LET rec == Merged(Loaded(file))
       IN  /\ recovered' = rec
           /\ streams' = [i \in Positions |-> Applied(streams[i], rec)]
    /\ UNCHANGED <<match_cache, multistation, all_stations, negotiated, seen,
                   newest, temp, file>>

(* Mutant: the default stream starts without a position.                   *)
DefaultStreamBlank ==
    IF streams = <<>> THEN <<NewStream(Any)>> ELSE streams

(* _ensure_default_stream().                                               *)
DefaultStream ==
    IF streams = <<>> THEN <<Applied(NewStream(Any), recovered)>> ELSE streams

(* negotiate(), as far as the streams go.                                  *)
Negotiate ==
    /\ Idle
    /\ match_cache' = Uncached
    /\ streams' = DefaultStream
    /\ negotiated' = TRUE
    /\ UNCHANGED <<recovered, multistation, all_stations, seen, newest, temp, file>>

-----------------------------------------------------------------------------
Matching(st) ==
    IF match_cache[st] # None THEN match_cache[st]
    ELSE {i \in Positions : st \in Matches[streams[i].id]}

(* _update_stream_state() for packet n of station st.  A packet without a  *)
(* sequence number changes nothing (_base.py:268): it is no step here.     *)
Updated(st, n) ==
    [i \in Positions |->
        IF i \in Matching(st) THEN [streams[i] EXCEPT !.seqnum = n, !.pending = n]
        ELSE streams[i]]

Packet(st) ==
    /\ Idle /\ negotiated /\ newest < MaxPackets
    /\ newest' = newest + 1
    /\ streams' = Updated(st, newest + 1)
    /\ match_cache' = [match_cache EXCEPT ![st] = Matching(st)]
    /\ seen' = seen \cup {st}
    /\ UNCHANGED <<recovered, multistation, all_stations, negotiated, temp, file>>

-----------------------------------------------------------------------------
(* resolve_timestamp(): a packet that does not parse leaves the old time.  *)
Resolved(s) ==
    IF s.pending = None THEN s
    ELSE [s EXCEPT !.timestamp = IF s.pending \in Unparsable THEN @ ELSE s.pending,
                   !.pending = None]

(* Mutant: the time last parsed is written.                                *)
LineForStale(s) == [id |-> s.id, at |-> [seqnum |-> s.seqnum, timestamp |-> s.timestamp]]

LineFor(s) ==
    [id |-> s.id, at |-> [seqnum |-> s.seqnum, timestamp |-> Resolved(s).timestamp]]

Snapshot == [i \in Positions |-> LineFor(streams[i])]

(* save_state(): a temporary file, a line per stream, then os.replace().   *)
SaveBegin == Idle /\ temp' = <<>> /\ UNCHANGED <<memVars, newest, file>>

(* Mutant: the state file itself is written.                               *)
SaveLineInPlace ==
    /\ ~Idle /\ Len(temp) < Len(streams)
    /\ LET i == Len(temp) + 1
       IN  /\ temp' = Append(temp, LineFor(streams[i])) /\ file' = temp'
           /\ streams' = [streams EXCEPT ![i] = Resolved(@)]
    /\ UNCHANGED <<match_cache, recovered, multistation, all_stations, negotiated,
                   seen, newest>>

SaveLine ==
    /\ ~Idle /\ Len(temp) < Len(streams)
    /\ LET i == Len(temp) + 1
       IN  /\ temp' = Append(temp, LineFor(streams[i]))
           /\ streams' = [streams EXCEPT ![i] = Resolved(@)]
    /\ UNCHANGED <<match_cache, recovered, multistation, all_stations, negotiated,
                   seen, newest, file>>

SaveReplace ==
    /\ ~Idle /\ Len(temp) = Len(streams)
    /\ file' = temp /\ temp' = None
    /\ UNCHANGED <<memVars, newest>>

(* Disk full, or an interrupt: the temporary file is removed.              *)
SaveFails == ~Idle /\ temp' = None /\ UNCHANGED <<memVars, newest, file>>

(* The process ends, at any step, and another starts.                      *)
Restart ==
    /\ streams' = <<>> /\ match_cache' = Uncached /\ recovered' = Nothing
    /\ multistation' = FALSE /\ all_stations' = FALSE
    /\ negotiated' = FALSE /\ seen' = {}
    /\ temp' = None
    /\ UNCHANGED <<newest, file>>

Save == SaveBegin \/ SaveLine \/ SaveReplace \/ SaveFails
=============================================================================
