----------------------------- MODULE Selectors ------------------------------
(***************************************************************************)
(* Stream selectors: v3_to_v4_selector(), v4_to_v3_selector(), and         *)
(* _wire_selector(), which writes a selector in the syntax of the version  *)
(* that was negotiated, each time from what the user gave.                 *)
(*                                                                         *)
(* A selector is kept as the functions first take it apart: a v3 selector  *)
(* as its leading dashes and the code behind them, a v4 selector as the    *)
(* parts between the underscores, both before the type suffix, which both  *)
(* conversions carry over unchanged.  A code is a sequence of characters.  *)
(***************************************************************************)
EXTENDS Integers, Sequences

CONSTANTS Chars,      \* characters of a code
          Wild,       \* those of them that are wildcards
          Odd         \* ... that are neither alphanumeric nor wildcards

ASSUME SelectorsAssumption ==
    "*" \in Wild /\ "?" \in Wild /\ Wild \cup Odd \subseteq Chars

Code(n) == UNION {[1..k -> Chars] : k \in 0..n}

V3Selector == [version : {"v3"}, dashes : 0..2, code : Code(5)]
V4Selector == [version : {"v4"}, parts : (UNION {[1..k -> Code(1)] : k \in 1..2})
                                \cup [1..3 -> Code(2)]
                                \cup (UNION {{<<l>> \o p : p \in [1..3 -> Code(1)]} : l \in Code(3)})]

Unconvertible == [version |-> "none"]    (* None, in Python *)

-----------------------------------------------------------------------------
(* Mutant: a blank location is no location.                                *)
V4ToV3Blank(s) ==
    LET n == Len(s.parts)
        location == IF n = 4 THEN s.parts[1] ELSE <<"*">>
        channel  == SubSeq(s.parts, n - 2, n)
    IN  IF n \notin {3, 4} \/ Len(location) > 2 \/ \E i \in 1..3 : Len(channel[i]) # 1
        THEN Unconvertible
        ELSE [version |-> "v3", dashes |-> 0,
              code |-> (IF location = <<"*">> THEN <<>> ELSE location)
                       \o channel[1] \o channel[2] \o channel[3]]

(* v4_to_v3_selector()                                                     *)
V4ToV3(s) ==
    LET n == Len(s.parts)
        location == IF n = 4 THEN s.parts[1] ELSE <<"*">>
        channel  == SubSeq(s.parts, n - 2, n)
    IN  IF n \notin {3, 4} \/ Len(location) > 2 \/ \E i \in 1..3 : Len(channel[i]) # 1
        THEN Unconvertible
        ELSE [version |-> "v3",
              dashes  |-> IF location = <<>> THEN 2 ELSE 0,
              code    |-> (IF location = <<"*">> THEN <<>> ELSE location)
                          \o channel[1] \o channel[2] \o channel[3]]

(* v3_to_v4_selector(): one dash is as good as two.                        *)
V3ToV4(s) ==
    LET n == Len(s.code)
        location == IF n > 3 THEN SubSeq(s.code, 1, n - 3)
                    ELSE IF s.dashes > 0 THEN <<>> ELSE <<"*">>
    IN  IF n \notin 3..5 \/ \E i \in 1..n : s.code[i] \in Odd THEN Unconvertible
        ELSE [version |-> "v4",
              parts   |-> <<location, <<s.code[n-2]>>, <<s.code[n-1]>>, <<s.code[n]>>>>]

(* _wire_selector(): a native selector passes unchanged, and so does one   *)
(* that has no form in the other version.                                  *)
Wire(s, version) ==
    IF s.version = version THEN s
    ELSE LET t == IF version = "v4" THEN V3ToV4(s) ELSE V4ToV3(s)
         IN  IF t = Unconvertible THEN s ELSE t

-----------------------------------------------------------------------------
(* What a selector selects, by the syntax the docstrings give: [LL]CCC     *)
(* with dashes for a blank location, LOC_BAND_SOURCE_SUBSOURCE with LOC_   *)
(* left out for any.  A channel is a location of up to two characters and  *)
(* three characters more.                                                  *)
Plain == Chars \ (Wild \cup Odd)

Channels == [location : UNION {[1..k -> Plain] : k \in 0..2}, name : [1..3 -> Plain]]

Alike(pattern, text) ==
    \/ pattern = <<"*">>
    \/ /\ Len(pattern) = Len(text)
       /\ \A i \in 1..Len(text) : pattern[i] \in {text[i]} \cup Wild

Name(code) == SubSeq(code, Len(code) - 2, Len(code))

Selects(s, c) ==
    IF s.version = "v3"
    THEN /\ Len(s.code) \in 3..5
         /\ Alike(Name(s.code), c.name)
         /\ IF Len(s.code) > 3 THEN Alike(SubSeq(s.code, 1, Len(s.code) - 3), c.location)
            ELSE s.dashes > 0 => c.location = <<>>
    ELSE /\ Len(s.parts) \in {3, 4}
         /\ LET n == Len(s.parts)
            IN  /\ \A i \in 1..3 : Alike(s.parts[n - 3 + i], <<c.name[i]>>)
                /\ n = 4 => Alike(s.parts[1], c.location)

-----------------------------------------------------------------------------
(* A selector of a form its own version knows selects the same channels in *)
(* the syntax it is sent in, unless v3 has none for it: neither a blank    *)
(* location nor a wildcard turns into the other on the way.                *)
ConversionsAgree ==
    \A s \in V3Selector \cup V4Selector : \A version \in {"v3", "v4"} :
        LET t == Wire(s, version)
        IN  t # s => \A c \in Channels : Selects(s, c) = Selects(t, c)

(* What the docstrings say has a form in the other syntax: "a plain        *)
(* 3/4/5-character code"; "classic single-character band/source/subsource  *)
(* codes", with a location that v3 has room for and no wildcard in it.     *)
WildLocation(s) ==
    /\ s.version = "v4" /\ Len(s.parts) = 4
    /\ s.parts[1] # <<"*">> /\ \E i \in DOMAIN s.parts[1] : s.parts[1][i] \in Wild

HasOtherForm(s) ==
    IF s.version = "v3"
    THEN Len(s.code) \in 3..5 /\ \A i \in DOMAIN s.code : s.code[i] \notin Odd
    ELSE LET n == Len(s.parts)
         IN  /\ n \in {3, 4} /\ \A i \in n-2..n : Len(s.parts[i]) = 1
             /\ n = 4 => Len(s.parts[1]) <= 2
             /\ ~WildLocation(s)

(* Those are converted, and no others but the wildcarded locations.        *)
ConvertsAsDocumented ==
    \A s \in V3Selector \cup V4Selector : \A version \in {"v3", "v4"} :
        ~WildLocation(s) =>
            (Wire(s, version) # s <=> s.version # version /\ HasOtherForm(s))
=============================================================================
