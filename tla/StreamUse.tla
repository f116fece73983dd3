----------------------------- MODULE StreamUse ------------------------------
(***************************************************************************)
(* Any use of the stream selection and the state file by a program: calls  *)
(* in any order, packets between them, and the process ending at any step. *)
(* The selectors of a stream are converted when it is negotiated.          *)
(***************************************************************************)
EXTENDS StreamState, Selectors

CONSTANT Late   \* what the user also does once packets may come

ASSUME StreamUseAssumption == Late \subseteq {"add", "recover"}

Next == \/ /\ negotiated => "add" \in Late
           /\ Len(streams) < MaxStreams
           /\ SetAllStations \/ \E id \in Ids \ {Any} : AddStream(id)
        \/ /\ negotiated => "recover" \in Late
           /\ RecoverState
        \/ Negotiate \/ Save \/ Restart
        \/ \E st \in Stations : Packet(st)

Spec == Init /\ [][Next]_vars

-----------------------------------------------------------------------------
(* A cached match is what matching again would give, whatever was added    *)
(* since: no stream's position stands still while its packets come.        *)
CacheIsFresh ==
    \A st \in Stations : match_cache[st] # None =>
        match_cache[st] = {i \in Positions : st \in Matches[streams[i].id]}

(* "May be called before or after stream setup, in either order": a stream *)
(* that has had no packet is where the recovered state says it is.         *)
RecoveredInAnyOrder ==
    \A i \in Positions :
        (streams[i].id \in DOMAIN recovered /\ seen \cap Matches[streams[i].id] = {})
        => LineFor(streams[i]).at = recovered[streams[i].id]

(* The time saved with a sequence number is that packet's, or, if it does  *)
(* not parse, an earlier one's.                                            *)
SavedPair ==
    file # None => \A k \in DOMAIN file :
        LET at == file[k].at
        IN  at.timestamp # None =>
              \/ at.timestamp = at.seqnum
              \/ at.seqnum \in Unparsable /\ at.timestamp < at.seqnum

(* "a crash or interrupt mid-write can't leave a truncated state file      *)
(* behind": the file only ever changes to a line for each stream.          *)
FileIsWhole == [][file' # file => file' = Snapshot]_vars

(* "'BH?.D' or 'B_H_?.D' style, or a mix": whichever version is negotiated, *)
(* a selector that is converted for it asks for the same channels; and the *)
(* docstrings say which are (streams.py:98-109, 136-145), but for a v4     *)
(* selector with a wildcarded location other than "*", which is converted  *)
(* although streams.py:138-141 says it is not.                             *)
SelectsTheSame == negotiated => ConversionsAgree /\ ConvertsAsDocumented
=============================================================================
