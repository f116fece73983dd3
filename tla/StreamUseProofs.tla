-------------------------- MODULE StreamUseProofs --------------------------
(***************************************************************************)
(* For every set of station IDs and patterns, whatever they match, and any *)
(* use of the streams and the state file: the match cache hides no stream, *)
(* the file is never seen half written, and a time is saved only with a    *)
(* packet it can be of.  For every alphabet, a converted selector selects  *)
(* what the given one does.                                                *)
(***************************************************************************)
EXTENDS StreamUse, TLAPS, WellFoundedInduction, SequenceTheorems

-----------------------------------------------------------------------------
(* Selectors.                                                              *)
(* A code is a sequence of characters.                                     *)
LEMMA CodeOK ==
    ASSUME NEW S, NEW n \in Nat, NEW f \in [1..n -> S]
    PROVE  f \in Seq(S) /\ Len(f) = n
  <1>1. f \in Seq(S)
    BY SeqDef, Zenon
  <1>2. Len(f) \in Nat /\ DOMAIN f = 1..Len(f)
    BY <1>1, LenProperties, Zenon
  <1>3. DOMAIN f = 1..n
    OBVIOUS
  <1>4. QED
    BY <1>1, <1>2, <1>3

(* What a pattern of one character, of none, and of three is like.         *)
LEMMA AlikeOne ==
    ASSUME NEW p, NEW x
    PROVE  Alike(<<p>>, <<x>>) <=> p \in {x} \cup Wild
  <1>1. "*" \in Wild
    BY SelectorsAssumption
  <1>2. Len(<<p>>) = 1 /\ Len(<<x>>) = 1 /\ <<p>>[1] = p /\ <<x>>[1] = x
    OBVIOUS
  <1>3. <<p>> = <<"*">> <=> p = "*"
    OBVIOUS
  <1>4. QED
    BY <1>1, <1>2, <1>3 DEF Alike

LEMMA AlikeBlank ==
    ASSUME NEW S, NEW text \in Seq(S)
    PROVE  Alike(<<>>, text) <=> text = <<>>
  <1>1. <<>> # <<"*">>
    OBVIOUS
  <1>2. Len(text) = 0 <=> text = <<>>
    BY EmptySeq
  <1>3. QED
    BY <1>1, <1>2 DEF Alike

LEMMA AlikeThree ==
    ASSUME NEW S, NEW pattern \in Seq(S), Len(pattern) = 3, NEW text \in [1..3 -> S]
    PROVE  Alike(pattern, text) <=> \A i \in 1..3 : pattern[i] \in {text[i]} \cup Wild
  <1>1. Len(text) = 3
    BY CodeOK
  <1>2. pattern # <<"*">>
    OBVIOUS
  <1>3. QED
    BY <1>1, <1>2 DEF Alike

(* A channel's location.                                                   *)
LEMMA ChannelOK ==
    ASSUME NEW c \in Channels
    PROVE  c.location \in Seq(Chars) /\ c.name \in [1..3 -> Chars]
  <1>1. Plain \subseteq Chars
    BY DEF Plain
  <1>2. PICK k \in 0..2 : c.location \in [1..k -> Plain]
    BY DEF Channels
  <1>3. c.location \in [1..k -> Chars] /\ c.name \in [1..3 -> Chars]
    BY <1>1, <1>2 DEF Channels
  <1>4. QED
    BY <1>2, <1>3, CodeOK

(* The last three of a sequence.                                           *)
LEMMA LastThree ==
    ASSUME NEW S, NEW q \in Seq(S), Len(q) >= 3
    PROVE  /\ Name(q) \in Seq(S) /\ Len(Name(q)) = 3
           /\ \A i \in 1..3 : Name(q)[i] = q[Len(q) - 3 + i]
  <1>1. PICK n \in Nat : n = Len(q)
    OBVIOUS
  <1>2. n - 2 \in 1..n + 1 /\ n \in n - 3..Len(q)
    BY <1>1
  <1>3. Name(q) = SubSeq(q, n - 2, n)
    BY <1>1 DEF Name
  <1>4. /\ SubSeq(q, n - 2, n) \in Seq(S) /\ Len(SubSeq(q, n - 2, n)) = 3
        /\ \A i \in 1..3 : SubSeq(q, n - 2, n)[i] = q[n - 2 + i - 1]
    BY <1>1, <1>2, SubSeqProperties
  <1>5. QED
    BY <1>1, <1>3, <1>4

(* From v3 to v4 the last three characters become parts, and what stands   *)
(* before them, or its absence, the location.                              *)
LEMMA ToV4 ==
    ASSUME NEW s \in V3Selector, NEW c \in Channels, V3ToV4(s) # Unconvertible
    PROVE  Selects(s, c) <=> Selects(V3ToV4(s), c)
  <1> DEFINE n == Len(s.code)
             location == IF n > 3 THEN SubSeq(s.code, 1, n - 3)
                         ELSE IF s.dashes > 0 THEN <<>> ELSE <<"*">>
             t == V3ToV4(s)
             Named == \A i \in 1..3 : s.code[n - 3 + i] \in {c.name[i]} \cup Wild
  <1>1. /\ s.version = "v3" /\ s.code \in Seq(Chars) /\ s.dashes \in 0..2 /\ n \in Nat
    <2>1. PICK k \in 0..5 : s.code \in [1..k -> Chars]
      BY DEF V3Selector, Code
    <2>2. QED
      BY <2>1, CodeOK DEF V3Selector
  <1>2. n \in 3..5
    BY DEF V3ToV4
  <1>10. t = [version |-> "v4",
              parts |-> <<location, <<s.code[n-2]>>, <<s.code[n-1]>>, <<s.code[n]>>>>]
    BY DEF V3ToV4
  <1>3. /\ t.version = "v4" /\ Len(t.parts) = 4 /\ t.parts[1] = location
        /\ t.parts[2] = <<s.code[n-2]>> /\ t.parts[3] = <<s.code[n-1]>>
        /\ t.parts[4] = <<s.code[n]>>
    BY <1>10
  <1> HIDE DEF t
  <1>4. (\A i \in 1..3 : Alike(t.parts[4 - 3 + i], <<c.name[i]>>)) <=> Named
    <2>1. \A i \in 1..3 : t.parts[4 - 3 + i] = <<s.code[n - 3 + i]>>
      BY <1>1, <1>3
    <2>2. QED
      BY SMTT(30), <2>1, AlikeOne
  <1>5. Alike(Name(s.code), c.name) <=> Named
    <2>1. PICK code \in Seq(Chars) : code = s.code
      BY <1>1
    <2>2. PICK k \in 3..5 : k = n /\ k = Len(code)
      BY <1>2, <2>1
    <2>3. /\ Name(code) \in Seq(Chars) /\ Len(Name(code)) = 3
          /\ \A i \in 1..3 : Name(code)[i] = code[k - 3 + i]
      BY <2>2, LastThree
    <2>4. Alike(Name(code), c.name) <=> \A i \in 1..3 : code[k - 3 + i] \in {c.name[i]} \cup Wild
      BY <2>3, ChannelOK, AlikeThree
    <2>5. QED
      BY <2>1, <2>2, <2>4
  <1>6. Alike(location, c.location) <=>
        IF n > 3 THEN Alike(SubSeq(s.code, 1, n - 3), c.location)
        ELSE s.dashes > 0 => c.location = <<>>
    <2>1. CASE n > 3
      BY <2>1
    <2>2. CASE ~(n > 3) /\ s.dashes > 0
      BY <2>2, ChannelOK, AlikeBlank
    <2>3. CASE ~(n > 3) /\ ~(s.dashes > 0)
      BY <2>3 DEF Alike
    <2>4. QED
      BY <2>1, <2>2, <2>3
  <1>7. Selects(s, c) <=> Named /\ Alike(location, c.location)
    BY <1>1, <1>2, <1>5, <1>6 DEF Selects
  <1>8. Selects(t, c) <=> Named /\ Alike(location, c.location)
    BY <1>3, <1>4 DEF Selects
  <1>9. QED
    BY <1>7, <1>8 DEF t

(* The parts of a v4 selector are codes.                                   *)
LEMMA PartsOK ==
    ASSUME NEW parts \in (UNION {[1..k -> Code(1)] : k \in 1..2})
                         \cup [1..3 -> Code(2)]
                         \cup (UNION {{<<l>> \o p : p \in [1..3 -> Code(1)]} : l \in Code(3)})
    PROVE  parts \in Seq(Seq(Chars))
  <1>1. ASSUME NEW m \in Nat, NEW l \in Code(m) PROVE l \in Seq(Chars)
    BY CodeOK DEF Code
  <1>2. ASSUME NEW k \in Nat, NEW m \in Nat, NEW p \in [1..k -> Code(m)]
        PROVE  p \in Seq(Seq(Chars))
    <2>1. p \in [1..k -> Seq(Chars)]
      BY <1>1
    <2>2. QED
      BY <2>1, CodeOK
  <1>3. CASE parts \in UNION {[1..k -> Code(1)] : k \in 1..2}
    <2>1. PICK k \in 1..2 : parts \in [1..k -> Code(1)]
      BY <1>3
    <2>2. QED
      BY <1>2, <2>1
  <1>4. CASE parts \in [1..3 -> Code(2)]
    BY <1>2, <1>4
  <1>5. CASE parts \in (UNION {{<<l>> \o p : p \in [1..3 -> Code(1)]} : l \in Code(3)})
    <2>1. PICK l \in Code(3), p \in [1..3 -> Code(1)] : parts = <<l>> \o p
      BY <1>5
    <2>2. l \in Seq(Chars)
      BY <1>1
    <2>3. p \in Seq(Seq(Chars))
      BY <1>2
    <2>4. QED
      BY <2>1, <2>2, <2>3
  <1>6. QED
    BY <1>3, <1>4, <1>5

(* A part that is one character.                                           *)
LEMMA Single ==
    ASSUME NEW S, NEW q \in Seq(S), Len(q) = 1
    PROVE  \E x \in S : q = <<x>>
  <1>1. q[1] \in S
    OBVIOUS
  <1>2. q = <<q[1]>>
    OBVIOUS
  <1>3. QED
    BY <1>1, <1>2

LEMMA Singles ==
    ASSUME NEW parts \in Seq(Seq(Chars)), NEW n \in {3, 4}, n = Len(parts),
           \A i \in 1..3 : Len(Name(parts)[i]) = 1
    PROVE  \E x, y, z \in Chars :
              /\ Name(parts)[1] = <<x>> /\ Name(parts)[2] = <<y>> /\ Name(parts)[3] = <<z>>
              /\ parts[n - 2] = <<x>> /\ parts[n - 1] = <<y>> /\ parts[n] = <<z>>
  <1>1. \A i \in 1..3 : Name(parts)[i] = parts[n - 3 + i]
    <2>1. PICK S : S = Seq(Chars)
      OBVIOUS
    <2>2. parts \in Seq(S) /\ Len(parts) >= 3
      BY <2>1
    <2>3. QED
      BY <2>2, LastThree
  <1>2. \A i \in 1..3 : Name(parts)[i] \in Seq(Chars)
    BY SMTT(30), <1>1
  <1>3. PICK x \in Chars : Name(parts)[1] = <<x>>
    BY <1>2, Single
  <1>4. PICK y \in Chars : Name(parts)[2] = <<y>>
    BY <1>2, Single
  <1>5. PICK z \in Chars : Name(parts)[3] = <<z>>
    BY <1>2, Single
  <1>6. parts[n - 2] = <<x>> /\ parts[n - 1] = <<y>> /\ parts[n] = <<z>>
    <2>1. /\ Name(parts)[1] = parts[n - 3 + 1] /\ Name(parts)[2] = parts[n - 3 + 2]
          /\ Name(parts)[3] = parts[n - 3 + 3]
      BY <1>1
    <2>2. n - 3 + 1 = n - 2 /\ n - 3 + 2 = n - 1 /\ n - 3 + 3 = n
      OBVIOUS
    <2>3. QED
      BY <1>3, <1>4, <1>5, <2>1, <2>2
  <1>7. QED
    BY <1>3, <1>4, <1>5, <1>6

LEMMA UpToTwo ==
    ASSUME NEW k \in Nat, ~(k > 2)
    PROVE  k \in 0..2
  OBVIOUS

(* A v4 selector that v3 can say: a location of up to two characters, and  *)
(* three single characters.                                                *)
LEMMA V3Form ==
    ASSUME NEW s \in V4Selector, V4ToV3(s) # Unconvertible
    PROVE  /\ s.version = "v4" /\ s.parts \in Seq(Seq(Chars))
           /\ Len(s.parts) \in {3, 4}
           /\ Len(s.parts) = 4 => Len(s.parts[1]) \in 0..2
           /\ \A i \in 1..3 : Len(Name(s.parts)[i]) = 1
  <1>1. PICK P : P = (UNION {[1..k -> Code(1)] : k \in 1..2})
                     \cup [1..3 -> Code(2)]
                     \cup (UNION {{<<l>> \o p : p \in [1..3 -> Code(1)]} : l \in Code(3)})
    OBVIOUS
  <1>2. s \in [version : {"v4"}, parts : P]
    BY <1>1 DEF V4Selector
  <1>3. s.version = "v4" /\ s.parts \in P
    BY <1>2
  <1>4. s.parts \in Seq(Seq(Chars))
    BY <1>1, <1>3, PartsOK
  <1>5. LET n == Len(s.parts)
            location == IF n = 4 THEN s.parts[1] ELSE <<"*">>
            channel == SubSeq(s.parts, n - 2, n)
        IN  ~(n \notin {3, 4} \/ Len(location) > 2 \/ \E i \in 1..3 : Len(channel[i]) # 1)
    BY Zenon DEF V4ToV3
  <1>6. Len(s.parts) \in {3, 4} /\ \A i \in 1..3 : Len(Name(s.parts)[i]) = 1
    BY <1>5 DEF Name
  <1>7. ASSUME Len(s.parts) = 4 PROVE Len(s.parts[1]) \in 0..2
    <2>1. ~(Len(s.parts[1]) > 2)
      BY <1>5, <1>7
    <2>2. s.parts[1] \in Seq(Chars)
      BY <1>4, <1>7
    <2>3. PICK k \in Nat : k = Len(s.parts[1]) /\ ~(k > 2)
      BY <2>1, <2>2
    <2>4. k \in 0..2
      BY <2>3, UpToTwo
    <2>5. QED
      BY <2>3, <2>4
  <1>8. QED
    BY <1>3, <1>4, <1>6, <1>7

(* What a v3 selector of that location and those characters selects.       *)
LEMMA V3Selects ==
    ASSUME NEW location \in Seq(Chars), Len(location) \in 0..2, NEW c \in Channels,
           NEW x \in Chars, NEW y \in Chars, NEW z \in Chars, NEW kept, NEW t,
           kept = IF location = <<"*">> THEN <<>> ELSE location,
           t.version = "v3", t.dashes = IF location = <<>> THEN 2 ELSE 0,
           t.code = kept \o <<x, y, z>>
    PROVE  Selects(t, c) <=>
              /\ x \in {c.name[1]} \cup Wild /\ y \in {c.name[2]} \cup Wild
              /\ z \in {c.name[3]} \cup Wild
              /\ Alike(location, c.location)
  <1> DEFINE Named == /\ x \in {c.name[1]} \cup Wild /\ y \in {c.name[2]} \cup Wild
                      /\ z \in {c.name[3]} \cup Wild
  <1>1. kept \in Seq(Chars) /\ Len(location) \in 0..2 /\ Len(kept) \in 0..2
    OBVIOUS
  <1>2. PICK code \in Seq(Chars), m \in 0..2 : code = t.code /\ m = Len(kept)
    <2>1. kept \o <<x, y, z>> \in Seq(Chars)
      BY <1>1
    <2>2. QED
      BY <1>1, <2>1
  <1>3. /\ Len(code) = m + 3
        /\ code[m + 1] = x /\ code[m + 2] = y /\ code[m + 3] = z
        /\ \A i \in 1..m : code[i] = kept[i]
    BY <1>1, <1>2
  <1>4. Alike(Name(code), c.name) <=> Named
    <2>1. /\ Name(code) \in Seq(Chars) /\ Len(Name(code)) = 3
          /\ \A i \in 1..3 : Name(code)[i] = code[m + i]
      BY <1>3, LastThree
    <2>2. Name(code)[1] = x /\ Name(code)[2] = y /\ Name(code)[3] = z
      BY <1>3, <2>1
    <2>3. Alike(Name(code), c.name) <=> \A i \in 1..3 : Name(code)[i] \in {c.name[i]} \cup Wild
      BY <2>1, ChannelOK, AlikeThree
    <2>4. QED
      BY <2>2, <2>3
  <1> HIDE DEF Named
  <1>5. CASE location \in {<<>>, <<"*">>}
    <2>1. m = 0 /\ <<"*">> # <<>>
      BY <1>1, <1>2, <1>5
    <2>2. Alike(location, c.location) <=> (t.dashes > 0 => c.location = <<>>)
      <3>1. CASE location = <<>>
        BY <3>1, ChannelOK, AlikeBlank
      <3>2. CASE location = <<"*">>
        BY <2>1, <3>2 DEF Alike
      <3>3. QED
        BY <1>5, <3>1, <3>2
    <2>3. Selects(t, c) <=> Named /\ (t.dashes > 0 => c.location = <<>>)
      BY <1>2, <1>3, <1>4, <2>1 DEF Selects
    <2>4. QED
      BY <2>2, <2>3 DEF Named
  <1>6. CASE location \notin {<<>>, <<"*">>}
    <2>1. kept = location /\ m > 0
      BY <1>1, <1>2, <1>6
    <2>2. SubSeq(code, 1, m) = kept
      <3>1. /\ SubSeq(code, 1, m) \in Seq(Chars) /\ Len(SubSeq(code, 1, m)) = m
            /\ \A i \in 1..m : SubSeq(code, 1, m)[i] = kept[i]
        BY <1>3, SubSeqProperties
      <3>2. QED
        BY <1>1, <1>2, <3>1, SeqEqual
    <2>3. Len(code) - 3 = m /\ Len(code) \in 3..5 /\ Len(code) > 3
      BY <1>3, <2>1
    <2>4. Selects(t, c) <=> Named /\ Alike(SubSeq(code, 1, m), c.location)
      BY <1>2, <1>4, <2>3 DEF Selects
    <2>5. QED
      BY <2>1, <2>2, <2>4 DEF Named
  <1>7. QED
    BY <1>5, <1>6

(* From v4 to v3, whether the location is a code, blank or any.            *)
LEMMA ToV3 ==
    ASSUME NEW s \in V4Selector, NEW c \in Channels, V4ToV3(s) # Unconvertible
    PROVE  Selects(s, c) <=> Selects(V4ToV3(s), c)
  <1>1. PICK parts \in Seq(Seq(Chars)), n \in {3, 4} : parts = s.parts /\ n = Len(parts)
    BY V3Form
  <1>2. PICK x \in Chars, y \in Chars, z \in Chars :
              /\ Name(parts)[1] = <<x>> /\ Name(parts)[2] = <<y>> /\ Name(parts)[3] = <<z>>
              /\ parts[n - 2] = <<x>> /\ parts[n - 1] = <<y>> /\ parts[n] = <<z>>
    <2>1. \A i \in 1..3 : Len(Name(parts)[i]) = 1
      BY <1>1, V3Form
    <2>2. QED
      BY <1>1, <2>1, Singles
  <1>3. PICK location : location = IF n = 4 THEN parts[1] ELSE <<"*">>
    OBVIOUS
  <1>4. location \in Seq(Chars) /\ Len(location) \in 0..2
    <2>1. CASE n = 4
      <3>1. location = parts[1] /\ Len(parts[1]) \in 0..2
        BY <1>1, <1>3, <2>1, V3Form
      <3>2. 4 = Len(parts)
        BY <1>1, <2>1
      <3>3. parts[1] \in Seq(Chars)
        BY <3>2
      <3>4. QED
        BY <3>1, <3>3
    <2>2. CASE n # 4
      BY <1>3, <2>2, SelectorsAssumption
    <2>3. QED
      BY <2>1, <2>2
  <1>5. PICK kept : kept = IF location = <<"*">> THEN <<>> ELSE location
    OBVIOUS
  <1>6. V4ToV3(s) = [version |-> "v3", dashes |-> IF location = <<>> THEN 2 ELSE 0,
                     code |-> kept \o Name(parts)[1] \o Name(parts)[2] \o Name(parts)[3]]
    BY <1>1, <1>3, <1>5, Zenon DEF V4ToV3, Name
  <1>7. kept \o <<x>> \o <<y>> \o <<z>> = kept \o <<x, y, z>>
    <2>1. kept \in Seq(Chars)
      BY <1>4, <1>5
    <2>2. /\ kept \o <<x>> \o <<y>> \o <<z>> \in Seq(Chars) /\ kept \o <<x, y, z>> \in Seq(Chars)
          /\ Len(kept \o <<x>> \o <<y>> \o <<z>>) = Len(kept) + 3
          /\ Len(kept \o <<x, y, z>>) = Len(kept) + 3
      BY <2>1
    <2>3. \A i \in 1..Len(kept) + 3 :
             (kept \o <<x>> \o <<y>> \o <<z>>)[i] = (kept \o <<x, y, z>>)[i]
      BY <2>1
    <2>4. QED
      BY <2>2, <2>3, SeqEqual
  <1>8. PICK t : t = V4ToV3(s)
    OBVIOUS
  <1>9. /\ t.version = "v3" /\ t.dashes = (IF location = <<>> THEN 2 ELSE 0)
        /\ t.code = kept \o <<x, y, z>>
    <2>1. t = [version |-> "v3", dashes |-> IF location = <<>> THEN 2 ELSE 0,
               code |-> kept \o <<x, y, z>>]
      BY <1>2, <1>6, <1>7, <1>8, Zenon
    <2>2. QED
      BY <2>1
  <1>10. Selects(t, c) <=> /\ x \in {c.name[1]} \cup Wild /\ y \in {c.name[2]} \cup Wild
                           /\ z \in {c.name[3]} \cup Wild
                           /\ Alike(location, c.location)
    BY <1>4, <1>5, <1>9, V3Selects
  <1>11. /\ Alike(parts[n - 2], <<c.name[1]>>) <=> x \in {c.name[1]} \cup Wild
         /\ Alike(parts[n - 1], <<c.name[2]>>) <=> y \in {c.name[2]} \cup Wild
         /\ Alike(parts[n], <<c.name[3]>>) <=> z \in {c.name[3]} \cup Wild
    BY <1>2, AlikeOne
  <1>12. Alike(location, c.location) <=> (n = 4 => Alike(parts[1], c.location))
    <2>1. Alike(<<"*">>, c.location)
      BY DEF Alike
    <2>2. QED
      BY <1>3, <2>1
  <1>13. Selects(s, c) <=> /\ \A i \in 1..3 : Alike(parts[n - 3 + i], <<c.name[i]>>)
                           /\ n = 4 => Alike(parts[1], c.location)
    <2>1. s.version = "v4" /\ Len(parts) \in {3, 4}
      BY <1>1, V3Form
    <2>2. QED
      BY <1>1, <2>1 DEF Selects
  <1>14. (\A i \in 1..3 : Alike(parts[n - 3 + i], <<c.name[i]>>)) <=>
         /\ Alike(parts[n - 2], <<c.name[1]>>) /\ Alike(parts[n - 1], <<c.name[2]>>)
         /\ Alike(parts[n], <<c.name[3]>>)
    <2>1. n - 3 + 1 = n - 2 /\ n - 3 + 2 = n - 1 /\ n - 3 + 3 = n
      OBVIOUS
    <2>2. \A i \in 1..3 : i = 1 \/ i = 2 \/ i = 3
      OBVIOUS
    <2>3. QED
      BY <2>1, <2>2
  <1>15. QED
    BY <1>8, <1>10, <1>11, <1>12, <1>13, <1>14

LEMMA ConversionsHold == ConversionsAgree
  <1> SUFFICES ASSUME NEW s \in V3Selector \cup V4Selector, NEW version \in {"v3", "v4"},
                      NEW c \in Channels, Wire(s, version) # s
               PROVE  Selects(s, c) = Selects(Wire(s, version), c)
    BY DEF ConversionsAgree
  <1>1. Selects(s, c) \in BOOLEAN /\ Selects(Wire(s, version), c) \in BOOLEAN
    BY DEF Selects
  <1>2. CASE version = "v4"
    <2>1. s \in V3Selector /\ Wire(s, version) = V3ToV4(s) /\ V3ToV4(s) # Unconvertible
      BY <1>2, V3Form DEF Wire, V4Selector
    <2>2. QED
      BY <1>1, <2>1, ToV4
  <1>3. CASE version = "v3"
    <2>1. s \in V4Selector /\ Wire(s, version) = V4ToV3(s) /\ V4ToV3(s) # Unconvertible
      BY <1>3 DEF Wire, V3Selector
    <2>2. QED
      BY <1>1, <2>1, ToV3
  <1>4. QED
    BY <1>2, <1>3

(* Which selectors are converted: those with a form in the other syntax.   *)
LEMMA FormOfV3 ==
    ASSUME NEW s \in V3Selector
    PROVE  V3ToV4(s) # Unconvertible <=> HasOtherForm(s)
  <1>1. s.version = "v3" /\ s.code \in Seq(Chars) /\ DOMAIN s.code = 1..Len(s.code)
    <2>1. PICK k \in 0..5 : s.code \in [1..k -> Chars]
      BY DEF V3Selector, Code
    <2>2. QED
      BY <2>1, CodeOK DEF V3Selector
  <1>2. HasOtherForm(s) <=> /\ Len(s.code) \in 3..5
                            /\ \A i \in 1..Len(s.code) : s.code[i] \notin Odd
    BY <1>1 DEF HasOtherForm
  <1>3. V3ToV4(s) = Unconvertible <=> \/ Len(s.code) \notin 3..5
                                     \/ \E i \in 1..Len(s.code) : s.code[i] \in Odd
    BY DEF V3ToV4, Unconvertible
  <1>4. QED
    BY <1>2, <1>3

LEMMA FormOfV4 ==
    ASSUME NEW s \in V4Selector, ~WildLocation(s)
    PROVE  V4ToV3(s) # Unconvertible <=> HasOtherForm(s)
  <1>1. s.version = "v4"
    BY DEF V4Selector
  <1>2. CASE Len(s.parts) \notin {3, 4}
    BY <1>1, <1>2 DEF HasOtherForm, V4ToV3
  <1>3. CASE Len(s.parts) \in {3, 4}
    <2>1. PICK n \in {3, 4} : n = Len(s.parts)
      BY <1>3
    <2>2. \A i \in 1..3 : SubSeq(s.parts, n - 2, n)[i] = s.parts[n - 3 + i]
      BY <2>1
    <2>3. (\E i \in 1..3 : Len(SubSeq(s.parts, n - 2, n)[i]) # 1)
             <=> ~(\A i \in n - 2..n : Len(s.parts[i]) = 1)
      <3>1. ASSUME NEW i \in n - 2..n, Len(s.parts[i]) # 1
            PROVE  \E j \in 1..3 : Len(SubSeq(s.parts, n - 2, n)[j]) # 1
        <4>1. PICK j \in 1..3 : n - 3 + j = i
          <5>1. i = n - 2 \/ i = n - 1 \/ i = n
            OBVIOUS
          <5>2. n - 3 + 1 = n - 2 /\ n - 3 + 2 = n - 1 /\ n - 3 + 3 = n
            OBVIOUS
          <5>3. 1 \in 1..3 /\ 2 \in 1..3 /\ 3 \in 1..3
            OBVIOUS
          <5>4. QED
            BY Zenon, <5>1, <5>2, <5>3
        <4>2. QED
          BY <2>2, <3>1, <4>1
      <3>2. \A j \in 1..3 : n - 3 + j \in n - 2..n
        BY <2>1
      <3>3. QED
        BY <2>2, <3>1, <3>2
    <2>4. Len(<<"*">>) = 1
      OBVIOUS
    <2>5. V4ToV3(s) = Unconvertible <=>
             \/ Len(IF n = 4 THEN s.parts[1] ELSE <<"*">>) > 2
             \/ \E i \in 1..3 : Len(SubSeq(s.parts, n - 2, n)[i]) # 1
      BY <2>1 DEF V4ToV3, Unconvertible
    <2>6. QED
      BY <1>1, <2>1, <2>3, <2>4, <2>5 DEF HasOtherForm
  <1>4. QED
    BY <1>2, <1>3

LEMMA DocumentedHold == ConvertsAsDocumented
  <1> SUFFICES ASSUME NEW s \in V3Selector \cup V4Selector, NEW version \in {"v3", "v4"},
                      ~WildLocation(s)
               PROVE  Wire(s, version) # s <=> s.version # version /\ HasOtherForm(s)
    BY DEF ConvertsAsDocumented
  <1>1. CASE s.version = version
    BY <1>1 DEF Wire
  <1>2. CASE s.version # version /\ s \in V3Selector
    <2>1. s.version = "v3" /\ version = "v4"
      BY <1>2 DEF V3Selector
    <2>2. V3ToV4(s) # Unconvertible => V3ToV4(s).version = "v4"
      BY DEF V3ToV4
    <2>3. QED
      BY <1>2, <2>1, <2>2, FormOfV3 DEF Wire
  <1>3. CASE s.version # version /\ s \in V4Selector
    <2>1. s.version = "v4" /\ version = "v3"
      BY <1>3 DEF V4Selector
    <2>2. V4ToV3(s) # Unconvertible => V4ToV3(s).version = "v3"
      BY DEF V4ToV3
    <2>3. QED
      BY <1>3, <2>1, <2>2, FormOfV4 DEF Wire
  <1>4. QED
    BY <1>1, <1>2, <1>3

-----------------------------------------------------------------------------
(* What recover_state() may hand to a stream.                              *)
Recoverable(rec) == DOMAIN rec \subseteq Ids /\ \A id \in DOMAIN rec : rec[id] \in Saved

USE StreamStateAssumption

-----------------------------------------------------------------------------
(* The steps of a stream.                                                  *)

LEMMA NewOK ==
    ASSUME NEW id \in Ids
    PROVE  NewStream(id) \in Stream /\ NewStream(id).id = id /\ NewStream(id).pending = None
  BY DEF NewStream, Stream

LEMMA AppliedOK ==
    ASSUME NEW s \in Stream, NEW rec, Recoverable(rec)
    PROVE  /\ Applied(s, rec) \in Stream
           /\ Applied(s, rec).id = s.id /\ Applied(s, rec).pending = s.pending
           /\ s.id \in DOMAIN rec => /\ Applied(s, rec).seqnum = rec[s.id].seqnum
                                     /\ Applied(s, rec).timestamp = rec[s.id].timestamp
           /\ s.id \notin DOMAIN rec => Applied(s, rec) = s
  BY DEF Applied, Stream, Saved, Recoverable

LEMMA ResolvedOK ==
    ASSUME NEW s \in Stream
    PROVE  /\ Resolved(s) \in Stream /\ Resolved(s).id = s.id
           /\ Resolved(s).seqnum = s.seqnum /\ Resolved(s).pending = None
           /\ LineFor(s) \in FileLine /\ LineFor(Resolved(s)) = LineFor(s)
           /\ Resolved(s).timestamp = LineFor(s).at.timestamp
  BY DEF Resolved, Stream, LineFor, FileLine, Saved

(* load_state() finds a line for each station ID in the file.              *)
LEMMA LastLine ==
    ASSUME NEW lines \in Seq(FileLine), NEW i \in DOMAIN lines
    PROVE  LineOf(lines, lines[i].id) \in DOMAIN lines
  <1> DEFINE id   == lines[i].id
             mine == {k \in DOMAIN lines : lines[k].id = id}
             T    == {Len(lines) - k : k \in mine}
  <1>1. T \subseteq Nat /\ T # {}
    <2>1. i \in mine
      OBVIOUS
    <2>2. \A k \in mine : Len(lines) - k \in Nat
      OBVIOUS
    <2> QED BY <2>1, <2>2
  <1>2. PICK x \in T : \A y \in T : ~(<<y, x>> \in OpToRel(<, Nat))
    <2> HIDE DEF T
    <2> QED BY <1>1, NatLessThanWellFounded, WFMin
  <1>3. \A y \in T : ~(y < x)
    BY <1>1, <1>2 DEF OpToRel
  <1>4. PICK k \in mine : x = Len(lines) - k
    OBVIOUS
  <1>5. \A j \in mine : j <= k
    <2> SUFFICES ASSUME NEW j \in mine PROVE j <= k
      OBVIOUS
    <2>1. Len(lines) - j \in T
      OBVIOUS
    <2>2. ~(Len(lines) - j < Len(lines) - k)
      BY <1>3, <1>4, <2>1
    <2> QED BY <2>2
  <1>6. LineOf(lines, id) = CHOOSE m \in mine : \A j \in mine : j <= m
    BY DEF LineOf
  <1>7. LineOf(lines, id) \in mine
    <2> HIDE DEF mine
    <2> QED BY <1>5, <1>6
  <1> QED BY <1>7

LEMMA LoadedOK ==
    ASSUME NEW lines \in Seq(FileLine)
    PROVE  /\ Recoverable(Loaded(lines))
           /\ \A id \in DOMAIN Loaded(lines) :
                 \E k \in DOMAIN lines : Loaded(lines)[id] = lines[k].at
  <1>1. ASSUME NEW id \in DOMAIN Loaded(lines)
        PROVE  /\ id \in Ids
               /\ \E k \in DOMAIN lines : /\ Loaded(lines)[id] = lines[k].at
                                          /\ lines[k].at \in Saved
    <2>1. PICK i \in DOMAIN lines : id = lines[i].id
      BY DEF Loaded
    <2>2. LineOf(lines, id) \in DOMAIN lines
      BY <2>1, LastLine
    <2>3. Loaded(lines)[id] = lines[LineOf(lines, id)].at
      BY DEF Loaded
    <2>4. \A k \in DOMAIN lines : lines[k] \in FileLine
      OBVIOUS
    <2>5. id \in Ids /\ lines[LineOf(lines, id)].at \in Saved
      BY <2>1, <2>2, <2>4 DEF FileLine
    <2> QED BY <2>2, <2>3, <2>5
  <1> QED BY <1>1 DEF Recoverable

LEMMA MergedOK ==
    ASSUME Recoverable(recovered), NEW loaded, Recoverable(loaded)
    PROVE  /\ Recoverable(Merged(loaded))
           /\ \A id \in DOMAIN Merged(loaded) :
                 \/ id \in DOMAIN loaded /\ Merged(loaded)[id] = loaded[id]
                 \/ id \in DOMAIN recovered /\ Merged(loaded)[id] = recovered[id]
  BY DEF Merged, Recoverable

LEMMA MatchingOK ==
    ASSUME TypeOK, NEW st \in Stations
    PROVE  Matching(st) \subseteq Positions
  <1>1. CASE match_cache[st] # None
    <2>1. match_cache \in [Stations -> (SUBSET Positions) \cup {None}]
      BY DEF TypeOK
    <2>2. match_cache[st] \subseteq Positions
      BY <1>1, <2>1
    <2> QED BY <1>1, <2>2, Zenon DEF Matching
  <1>2. CASE match_cache[st] = None
    BY <1>2 DEF Matching
  <1> QED BY <1>1, <1>2

LEMMA UpdatedOK ==
    ASSUME TypeOK, NEW st \in Stations, NEW n \in Nat
    PROVE  /\ Updated(st, n) \in Seq(Stream) /\ DOMAIN Updated(st, n) = Positions
           /\ \A i \in Positions :
                 /\ Updated(st, n)[i].id = streams[i].id
                 /\ Updated(st, n)[i] = streams[i]
                    \/ /\ Updated(st, n)[i].seqnum = n /\ Updated(st, n)[i].pending = n
                       /\ Updated(st, n)[i].timestamp = streams[i].timestamp
  <1> DEFINE U == Updated(st, n)
  <1>1. \A i \in Positions : streams[i] \in Stream
    BY DEF TypeOK, Positions
  <1>2. /\ DOMAIN U = Positions
        /\ \A i \in Positions : U[i] = IF i \in Matching(st)
                                     THEN [streams[i] EXCEPT !.seqnum = n, !.pending = n]
                                     ELSE streams[i]
    BY DEF Updated
  <1>3. \A i \in Positions :
          /\ U[i] \in Stream /\ U[i].id = streams[i].id
          /\ U[i] = streams[i]
             \/ (U[i].seqnum = n /\ U[i].pending = n /\ U[i].timestamp = streams[i].timestamp)
    <2> SUFFICES ASSUME NEW i \in Positions
                 PROVE  /\ U[i] \in Stream /\ U[i].id = streams[i].id
                        /\ U[i] = streams[i]
                           \/ (U[i].seqnum = n /\ U[i].pending = n
                               /\ U[i].timestamp = streams[i].timestamp)
      BY Zenon
    <2>1. PICK s \in Stream : s = streams[i]
      BY <1>1
    <2>2. U[i] = [s EXCEPT !.seqnum = n, !.pending = n] \/ U[i] = s
      BY <1>2, <2>1, Zenon
    <2> HIDE DEF U
    <2>3. CASE U[i] = s
      BY <2>1, <2>3
    <2>4. CASE U[i] = [s EXCEPT !.seqnum = n, !.pending = n]
      BY <2>1, <2>4 DEF Stream
    <2> QED BY <2>2, <2>3, <2>4
  <1>4. U \in [1..Len(streams) -> Stream] /\ Len(streams) \in Nat
    <2>1. Positions = 1..Len(streams) /\ Len(streams) \in Nat
      BY DEF Positions, TypeOK
    <2>2. U = [i \in Positions |-> U[i]]
      BY DEF Updated
    <2> QED BY <1>3, <2>1, <2>2
  <1>5. U \in Seq(Stream)
    <2> HIDE DEF U
    <2>1. U \in UNION {[1..k -> Stream] : k \in Nat}
      BY <1>4
    <2> QED BY <2>1, SeqDef
  <1> QED BY <1>2, <1>3, <1>5

-----------------------------------------------------------------------------
(* The steps of the program, by what they do to the streams.               *)

LEMMA CacheTypes ==
    /\ \A S : Uncached \in [Stations -> (SUBSET S) \cup {None}]
    /\ Recoverable(Nothing)
  <1>1. ASSUME NEW S PROVE Uncached \in [Stations -> (SUBSET S) \cup {None}]
    <2>1. \A st \in Stations : None \in (SUBSET S) \cup {None}
      OBVIOUS
    <2> QED BY <2>1, Zenon DEF Uncached
  <1>2. DOMAIN Nothing = {}
    BY DEF Nothing
  <1> QED BY <1>1, <1>2 DEF Recoverable

LEMMA InitTypes == Init => TypeOK
  <1> SUFFICES ASSUME Init PROVE TypeOK
    OBVIOUS
  <1>1. streams \in Seq(Stream) /\ newest \in Nat
    BY DEF Init
  <1>2. match_cache \in [Stations -> (SUBSET Positions) \cup {None}]
    BY CacheTypes DEF Init
  <1>3. DOMAIN recovered \subseteq Ids /\ \A id \in DOMAIN recovered : recovered[id] \in Saved
    BY CacheTypes DEF Init, Recoverable
  <1> QED BY <1>1, <1>2, <1>3 DEF Init, TypeOK

LEMMA TypesKept == ASSUME TypeOK, [Next]_vars PROVE TypeOK'
  <1> USE DEF memVars
  <1>a. Recoverable(recovered)
    BY DEF TypeOK, Recoverable
  <1>1. ASSUME NEW id \in Ids, AddStream(id) PROVE TypeOK'
    <2>1. Applied(NewStream(id), recovered) \in Stream
      BY <1>a, NewOK, AppliedOK
    <2>2. streams' \in Seq(Stream)
      BY <1>1, <2>1 DEF AddStream, TypeOK
    <2>3. match_cache' \in [Stations -> (SUBSET Positions') \cup {None}]
      BY <1>1, CacheTypes DEF AddStream
    <2> QED BY <1>1, <2>2, <2>3 DEF AddStream, TypeOK
  <1>2. CASE SetAllStations
    <2>1. Applied(NewStream(Any), recovered) \in Stream
      BY <1>a, NewOK, AppliedOK
    <2>2. streams' \in Seq(Stream)
      BY <1>2, <2>1 DEF SetAllStations
    <2>3. match_cache' \in [Stations -> (SUBSET Positions') \cup {None}]
      BY <1>2, CacheTypes DEF SetAllStations
    <2> QED BY <1>2, <2>2, <2>3 DEF SetAllStations, TypeOK
  <1>3. CASE RecoverState
    <2>1. file \in Seq(FileLine)
      BY <1>3 DEF RecoverState, TypeOK
    <2>2. PICK rec : rec = Merged(Loaded(file))
      OBVIOUS
    <2>3. Recoverable(rec)
      BY <1>a, <2>1, <2>2, LoadedOK, MergedOK
    <2>4. streams' = [i \in Positions |-> Applied(streams[i], rec)] /\ recovered' = rec
      BY <1>3, <2>2 DEF RecoverState
    <2>5. \A i \in Positions : Applied(streams[i], rec) \in Stream
      BY <2>3, AppliedOK DEF TypeOK, Positions
    <2>6. streams' \in Seq(Stream) /\ DOMAIN streams' = DOMAIN streams
      BY <2>4, <2>5 DEF TypeOK, Positions
    <2> QED BY <1>3, <2>3, <2>4, <2>6 DEF RecoverState, TypeOK, Recoverable, Positions
  <1>4. CASE Negotiate
    <2>1. Applied(NewStream(Any), recovered) \in Stream
      BY <1>a, NewOK, AppliedOK
    <2>2. streams' \in Seq(Stream)
      BY <1>4, <2>1 DEF Negotiate, DefaultStream, TypeOK
    <2>3. match_cache' \in [Stations -> (SUBSET Positions') \cup {None}]
      BY <1>4, CacheTypes DEF Negotiate
    <2> QED BY <1>4, <2>2, <2>3 DEF Negotiate, TypeOK
  <1>5. ASSUME NEW st \in Stations, Packet(st) PROVE TypeOK'
    <2>1. newest + 1 \in Nat /\ newest' \in Nat
      BY <1>5 DEF Packet, TypeOK
    <2>2. streams' \in Seq(Stream) /\ DOMAIN streams' = DOMAIN streams
      BY <1>5, <2>1, UpdatedOK DEF Packet, TypeOK, Positions
    <2>3. Matching(st) \subseteq Positions
      BY MatchingOK
    <2>4. match_cache' \in [Stations -> (SUBSET Positions') \cup {None}]
      BY <1>5, <2>2, <2>3 DEF Packet, TypeOK, Positions
    <2> QED BY <1>5, <2>1, <2>2, <2>4 DEF Packet, TypeOK
  <1>6. CASE SaveBegin
    BY <1>6 DEF SaveBegin, TypeOK, Positions
  <1>7. CASE SaveLine
    <2>1. PICK i \in Positions : i = Len(temp) + 1
      BY <1>7 DEF SaveLine, TypeOK, Positions, Idle
    <2>2. Resolved(streams[i]) \in Stream /\ LineFor(streams[i]) \in FileLine
      BY <2>1, ResolvedOK DEF TypeOK, Positions
    <2>3. /\ temp' = Append(temp, LineFor(streams[i]))
          /\ streams' = [streams EXCEPT ![i] = Resolved(streams[i])]
      BY <1>7, <2>1 DEF SaveLine
    <2>4. /\ streams' \in Seq(Stream) /\ DOMAIN streams' = DOMAIN streams
          /\ temp' \in Seq(FileLine)
      BY <1>7, <2>2, <2>3 DEF SaveLine, Idle, TypeOK
    <2> QED BY <1>7, <2>4 DEF SaveLine, TypeOK, Positions
  <1>8. CASE SaveReplace
    BY <1>8 DEF SaveReplace, TypeOK, Positions, Idle
  <1>9. CASE SaveFails
    BY <1>9 DEF SaveFails, TypeOK, Positions
  <1>10. CASE Restart
    <2>1. match_cache' \in [Stations -> (SUBSET Positions') \cup {None}]
      BY <1>10, CacheTypes DEF Restart
    <2>2. streams' \in Seq(Stream) /\ Recoverable(recovered')
      BY <1>10, CacheTypes DEF Restart
    <2> QED BY <1>10, <2>1, <2>2 DEF Restart, TypeOK, Recoverable
  <1>11. CASE UNCHANGED vars
    BY <1>11 DEF vars, TypeOK, Positions
  <1> QED BY <1>1, <1>2, <1>3, <1>4, <1>5, <1>6, <1>7, <1>8, <1>9, <1>10, <1>11 DEF Next, Save

THEOREM StreamTypes == Spec => []TypeOK
  BY InitTypes, TypesKept, PTL DEF Spec

-----------------------------------------------------------------------------
(* The match cache.                                                        *)

(* The cache names the streams of a station, whether it holds them or not. *)
LEMMA MatchingFresh ==
    ASSUME CacheIsFresh, NEW st \in Stations
    PROVE  Matching(st) = {i \in Positions : st \in Matches[streams[i].id]}
  BY DEF CacheIsFresh, Matching

(* Streams that keep their places and IDs keep the cache fresh.            *)
LEMMA FreshKept ==
    ASSUME CacheIsFresh, DOMAIN streams' = DOMAIN streams,
           \A i \in Positions : streams'[i].id = streams[i].id,
           \A st \in Stations : match_cache'[st] = match_cache[st]
    PROVE  CacheIsFresh'
  BY DEF CacheIsFresh, Positions

LEMMA UncachedFresh == ASSUME match_cache' = Uncached PROVE CacheIsFresh'
  BY DEF CacheIsFresh, Uncached

LEMMA SaveLineStep ==
    ASSUME TypeOK, SaveLine
    PROVE  /\ Len(temp) + 1 \in Positions /\ temp \in Seq(FileLine)
           /\ temp' = Append(temp, LineFor(streams[Len(temp) + 1]))
           /\ DOMAIN streams' = DOMAIN streams
           /\ \A i \in Positions :
                 /\ streams[i] \in Stream
                 /\ streams'[i].id = streams[i].id
                 /\ LineFor(streams'[i]) = LineFor(streams[i])
                 /\ streams'[i] = streams[i] \/ streams'[i] = Resolved(streams[i])
  <1>1. Len(temp) + 1 \in Positions /\ temp \in Seq(FileLine)
    BY DEF SaveLine, TypeOK, Idle, Positions
  <1>2. PICK p \in Positions : p = Len(temp) + 1
    BY <1>1
  <1>3. temp' = Append(temp, LineFor(streams[p]))
    BY <1>2 DEF SaveLine
  <1>4. streams' = [streams EXCEPT ![p] = Resolved(streams[p])]
    BY <1>2 DEF SaveLine
  <1>5. \A i \in Positions : streams[i] \in Stream
    BY DEF TypeOK, Positions
  <1>6. \A i \in Positions : streams'[i] = IF i = p THEN Resolved(streams[i]) ELSE streams[i]
    BY <1>4, Zenon DEF Positions
  <1>7. DOMAIN streams' = DOMAIN streams
    BY <1>4, Zenon
  <1> QED BY <1>1, <1>2, <1>3, <1>5, <1>6, <1>7, ResolvedOK

LEMMA FreshStep == ASSUME TypeOK, CacheIsFresh, [Next]_vars PROVE CacheIsFresh'
  <1> USE DEF memVars
  <1>1. CASE match_cache' = Uncached
    BY <1>1, UncachedFresh
  <1>2. CASE RecoverState
    <2>1. PICK rec : rec = Merged(Loaded(file))
      OBVIOUS
    <2>2. Recoverable(rec)
      BY <1>2, <2>1, LoadedOK, MergedOK DEF RecoverState, TypeOK, Recoverable
    <2>3. streams' = [i \in Positions |-> Applied(streams[i], rec)]
      BY <1>2, <2>1 DEF RecoverState
    <2>4. \A i \in Positions : Applied(streams[i], rec).id = streams[i].id
      BY <2>2, AppliedOK DEF TypeOK, Positions
    <2>5. DOMAIN streams' = DOMAIN streams
      BY <2>3 DEF Positions
    <2>6. \A i \in Positions : streams'[i].id = streams[i].id
      BY <2>3, <2>4
    <2> QED BY <1>2, <2>5, <2>6, FreshKept DEF RecoverState
  <1>3. ASSUME NEW st \in Stations, Packet(st) PROVE CacheIsFresh'
    <2>1. newest + 1 \in Nat
      BY DEF TypeOK
    <2>2. /\ DOMAIN streams' = Positions
          /\ \A i \in Positions : streams'[i].id = streams[i].id
      BY <1>3, <2>1, UpdatedOK DEF Packet
    <2>3. match_cache' = [match_cache EXCEPT ![st] = Matching(st)]
      BY <1>3 DEF Packet
    <2>4. \A u \in Stations : match_cache'[u] # None =>
             match_cache'[u] = {i \in Positions : u \in Matches[streams[i].id]}
      BY <2>3, MatchingFresh DEF TypeOK, CacheIsFresh
    <2> QED BY <2>2, <2>4 DEF CacheIsFresh, Positions
  <1>4. CASE SaveLine
    BY <1>4, SaveLineStep, FreshKept DEF SaveLine
  <1>5. CASE UNCHANGED <<streams, match_cache>>
    BY <1>5, FreshKept
  <1> QED BY <1>1, <1>2, <1>3, <1>4, <1>5
          DEF Next, Save, AddStream, SetAllStations, Negotiate, Restart,
              SaveBegin, SaveReplace, SaveFails, vars

(* _streams changes behind the cache of _matching_streams() in five places, *)
(* and in none of them does a cached match go stale.                        *)
THEOREM CacheStaysFresh == Spec => []CacheIsFresh
  <1>1. Init => CacheIsFresh
    BY DEF Init, CacheIsFresh, Uncached
  <1>2. TypeOK /\ CacheIsFresh /\ [Next]_vars => CacheIsFresh'
    BY FreshStep
  <1> QED BY <1>1, <1>2, StreamTypes, PTL DEF Spec

-----------------------------------------------------------------------------
(* The state file.                                                         *)

(* The lines written so far are those of the first streams, as they are.   *)
TempSoFar ==
    temp # None =>
        /\ Len(temp) <= Len(streams)
        /\ \A k \in DOMAIN temp : temp[k] = LineFor(streams[k])

LEMMA TempStep == ASSUME TypeOK, TempSoFar, [Next]_vars PROVE TempSoFar'
  <1> USE DEF memVars
  <1>1. CASE temp' = None
    BY <1>1 DEF TempSoFar
  <1>2. CASE SaveBegin
    BY <1>2 DEF SaveBegin, TempSoFar, TypeOK
  <1>3. CASE SaveLine
    <2>1. PICK n \in Nat : n = Len(temp) /\ temp \in Seq(FileLine) /\ n + 1 \in Positions
      BY <1>3, SaveLineStep
    <2>2. \A k \in 1..n : temp'[k] = temp[k]
      BY <1>3, <2>1, SaveLineStep
    <2>3. Len(temp') = n + 1 /\ DOMAIN temp' = 1..(n + 1)
      BY <1>3, <2>1, SaveLineStep
    <2>4. temp'[n + 1] = LineFor(streams[n + 1])
      BY <1>3, <2>1, SaveLineStep
    <2>5. \A k \in DOMAIN temp' : k \in Positions /\ temp'[k] = LineFor(streams[k])
      <3>1. \A k \in 1..n : k \in Positions /\ temp[k] = LineFor(streams[k])
        BY <1>3, <2>1 DEF TempSoFar, SaveLine, Idle, TypeOK, Positions
      <3> QED BY <2>1, <2>2, <2>3, <2>4, <3>1
    <2>6. \A k \in DOMAIN temp' : LineFor(streams'[k]) = LineFor(streams[k])
      BY <1>3, <2>5, SaveLineStep
    <2>7. Len(streams') = Len(streams) /\ Len(temp') <= Len(streams)
      <3>1. streams' \in Seq(Stream)
        BY TypesKept DEF TypeOK
      <3> QED BY <1>3, <2>1, <2>3, <3>1, SaveLineStep DEF TypeOK, Positions
    <2> QED BY <2>5, <2>6, <2>7 DEF TempSoFar
  <1>4. CASE UNCHANGED <<streams, temp>>
    <2>1. \A k : LineFor(streams[k])' = LineFor(streams[k])
      BY <1>4 DEF LineFor, Resolved
    <2> QED BY <1>4, <2>1 DEF TempSoFar
  <1> QED BY <1>1, <1>2, <1>3, <1>4
          DEF Next, Save, AddStream, SetAllStations, Negotiate, Restart, Packet, Idle,
              RecoverState, SaveReplace, SaveFails, vars

LEMMA ReplacedWhole ==
    ASSUME TypeOK, TempSoFar, SaveReplace
    PROVE  temp = Snapshot
  <1>1. temp \in Seq(FileLine) /\ DOMAIN temp = Positions
    BY DEF SaveReplace, TypeOK, Idle, Positions
  <1>2. \A k \in Positions : temp[k] = LineFor(streams[k])
    BY <1>1 DEF TempSoFar, SaveReplace, Idle
  <1>3. temp = [k \in Positions |-> temp[k]]
    BY <1>1
  <1> QED BY <1>2, <1>3 DEF Snapshot

(* save_state() replaces the state file in one step, by a line for each    *)
(* stream; no interrupt, failed write or end of the process leaves another *)
(* one behind.                                                             *)
THEOREM FileWhole == Spec => FileIsWhole
  <1>1. Init => TempSoFar
    BY DEF Init, TempSoFar
  <1>2. TypeOK /\ TempSoFar /\ [Next]_vars => TempSoFar'
    BY TempStep
  <1>3. TypeOK /\ TempSoFar /\ [Next]_vars => [file' # file => file' = Snapshot]_vars
    <2> SUFFICES ASSUME TypeOK, TempSoFar, [Next]_vars, file' # file
                 PROVE  file' = Snapshot
      OBVIOUS
    <2>1. SaveReplace
      BY DEF Next, Save, AddStream, SetAllStations, Negotiate, Restart, Packet,
             RecoverState, SaveBegin, SaveLine, SaveFails, vars, memVars
    <2> QED BY <2>1, ReplacedWhole DEF SaveReplace
  <1> QED BY <1>1, <1>2, <1>3, StreamTypes, PTL DEF Spec, FileIsWhole

-----------------------------------------------------------------------------
(* The recovered positions.                                                *)

(* What a stream that has had no packet has; InAnyOrder is inductive.      *)
AtRecovered(s) ==
    seen \cap Matches[s.id] = {} =>
        /\ s.pending = None
        /\ s.id \in DOMAIN recovered => /\ s.seqnum = recovered[s.id].seqnum
                                        /\ s.timestamp = recovered[s.id].timestamp

InAnyOrder == \A i \in Positions : AtRecovered(streams[i])

LEMMA NewAtRecovered ==
    ASSUME TypeOK, NEW id \in Ids
    PROVE  AtRecovered(Applied(NewStream(id), recovered))
  BY NewOK, AppliedOK DEF AtRecovered, TypeOK, Recoverable

LEMMA AppendedAtRecovered ==
    ASSUME TypeOK, InAnyOrder, NEW id \in Ids,
           streams' = Append(streams, Applied(NewStream(id), recovered)),
           UNCHANGED <<seen, recovered>>
    PROVE  InAnyOrder'
  <1>1. \A i \in DOMAIN streams' :
           streams'[i] = Applied(NewStream(id), recovered)
           \/ (i \in Positions /\ streams'[i] = streams[i])
    BY DEF TypeOK, Positions
  <1>2. \A i \in DOMAIN streams' : AtRecovered(streams'[i])
    BY <1>1, NewAtRecovered DEF InAnyOrder
  <1> QED BY <1>2 DEF InAnyOrder, AtRecovered, Positions

LEMMA FirstAtRecovered ==
    ASSUME TypeOK, NEW id \in Ids,
           streams' = <<Applied(NewStream(id), recovered)>>,
           UNCHANGED <<seen, recovered>>
    PROVE  InAnyOrder'
  <1>1. \A i \in DOMAIN streams' : streams'[i] = Applied(NewStream(id), recovered)
    OBVIOUS
  <1>2. \A i \in DOMAIN streams' : AtRecovered(streams'[i])
    BY <1>1, NewAtRecovered
  <1> QED BY <1>2 DEF InAnyOrder, AtRecovered, Positions

LEMMA InAnyOrderStep ==
    ASSUME TypeOK, CacheIsFresh, InAnyOrder, [Next]_vars
    PROVE  InAnyOrder'
  <1> USE DEF memVars
  <1>a. \A i \in Positions : streams[i] \in Stream /\ AtRecovered(streams[i])
    BY DEF TypeOK, InAnyOrder, Positions
  <1>1. ASSUME NEW id \in Ids, AddStream(id) PROVE InAnyOrder'
    BY <1>1, AppendedAtRecovered DEF AddStream
  <1>2. CASE SetAllStations
    BY <1>2, FirstAtRecovered DEF SetAllStations
  <1>3. CASE RecoverState
    <2>1. PICK rec : rec = Merged(Loaded(file))
      OBVIOUS
    <2>2. Recoverable(rec)
      BY <1>3, <2>1, LoadedOK, MergedOK DEF RecoverState, TypeOK, Recoverable
    <2>3. /\ streams' = [i \in Positions |-> Applied(streams[i], rec)]
          /\ recovered' = rec /\ seen' = seen
      BY <1>3, <2>1 DEF RecoverState
    <2>4. ASSUME NEW i \in Positions, seen \cap Matches[Applied(streams[i], rec).id] = {}
          PROVE  LET a == Applied(streams[i], rec)
                 IN  /\ a.pending = None
                     /\ a.id \in DOMAIN rec => /\ a.seqnum = rec[a.id].seqnum
                                               /\ a.timestamp = rec[a.id].timestamp
      BY <1>a, <2>2, <2>4, AppliedOK DEF AtRecovered
    <2> QED BY <2>3, <2>4 DEF InAnyOrder, AtRecovered, Positions
  <1>4. CASE Negotiate
    <2>1. CASE streams = <<>>
      BY <1>4, <2>1, FirstAtRecovered DEF Negotiate, DefaultStream
    <2>2. CASE streams # <<>>
      BY <1>4, <2>2 DEF Negotiate, DefaultStream, InAnyOrder, AtRecovered, Positions
    <2> QED BY <2>1, <2>2
  <1>5. ASSUME NEW st \in Stations, Packet(st) PROVE InAnyOrder'
    <2>1. newest + 1 \in Nat
      BY DEF TypeOK
    <2>2. DOMAIN streams' = Positions
      BY <1>5, <2>1, UpdatedOK DEF Packet
    <2>3. ASSUME NEW i \in Positions, seen' \cap Matches[streams'[i].id] = {}
          PROVE  streams'[i] = streams[i] /\ seen \cap Matches[streams[i].id] = {}
      <3>1. streams'[i].id = streams[i].id
        BY <1>5, <2>1, UpdatedOK DEF Packet
      <3>2. seen' = seen \cup {st}
        BY <1>5 DEF Packet
      <3>3. st \notin Matches[streams[i].id] /\ seen \cap Matches[streams[i].id] = {}
        BY <2>3, <3>1, <3>2, Zenon
      <3>4. i \notin Matching(st)
        BY <3>3, MatchingFresh
      <3> QED BY <1>5, <3>3, <3>4 DEF Packet, Updated
    <2>4. recovered' = recovered
      BY <1>5 DEF Packet
    <2> QED BY <2>2, <2>3, <2>4, <1>a DEF InAnyOrder, AtRecovered, Positions
  <1>6. CASE SaveLine
    <2>1. seen' = seen /\ recovered' = recovered /\ DOMAIN streams' = Positions
      BY <1>6, SaveLineStep DEF SaveLine, Positions
    <2>2. ASSUME NEW i \in Positions, seen \cap Matches[streams'[i].id] = {}
          PROVE  streams'[i] = streams[i] /\ seen \cap Matches[streams[i].id] = {}
      <3>1. streams'[i].id = streams[i].id
        BY <1>6, SaveLineStep
      <3>2. streams[i].pending = None
        BY <1>a, <2>2, <3>1 DEF AtRecovered
      <3>3. Resolved(streams[i]) = streams[i]
        BY <3>2 DEF Resolved
      <3> QED BY <1>6, <2>2, <3>1, <3>3, SaveLineStep
    <2> QED BY <1>a, <2>1, <2>2 DEF InAnyOrder, AtRecovered, Positions
  <1>7. CASE Restart
    BY <1>7 DEF Restart, InAnyOrder, Positions
  <1>8. CASE UNCHANGED <<streams, seen, recovered>>
    BY <1>8 DEF InAnyOrder, AtRecovered, Positions
  <1> QED BY <1>1, <1>2, <1>3, <1>4, <1>5, <1>6, <1>7, <1>8
          DEF Next, Save, SaveBegin, SaveReplace, SaveFails, vars

(* recover_state() and the calls that set the streams up commute, and      *)
(* neither reconnecting nor saving moves a stream without packets.         *)
THEOREM EitherOrder == Spec => []RecoveredInAnyOrder
  <1>1. Init => CacheIsFresh /\ InAnyOrder
    BY DEF Init, CacheIsFresh, Uncached, InAnyOrder, Positions
  <1>2. TypeOK /\ CacheIsFresh /\ InAnyOrder /\ [Next]_vars => InAnyOrder'
    BY InAnyOrderStep
  <1>3. TypeOK /\ InAnyOrder => RecoveredInAnyOrder
    <2> SUFFICES ASSUME TypeOK, InAnyOrder, NEW i \in Positions,
                        streams[i].id \in DOMAIN recovered,
                        seen \cap Matches[streams[i].id] = {}
                 PROVE  LineFor(streams[i]).at = recovered[streams[i].id]
      BY DEF RecoveredInAnyOrder
    <2>1. /\ streams[i].pending = None
          /\ streams[i].seqnum = recovered[streams[i].id].seqnum
          /\ streams[i].timestamp = recovered[streams[i].id].timestamp
      BY DEF InAnyOrder, AtRecovered
    <2>2. recovered[streams[i].id] \in Saved
      BY DEF TypeOK
    <2> QED BY <2>1, <2>2 DEF LineFor, Resolved, Saved
  <1> QED BY <1>1, <1>2, <1>3, StreamTypes, CacheStaysFresh, PTL DEF Spec

-----------------------------------------------------------------------------
(* The saved pairs.                                                        *)

Fits(at) == at.timestamp # None =>
               /\ at.timestamp <= newest
               /\ \/ at.timestamp = at.seqnum
                  \/ at.seqnum \in Unparsable /\ at.timestamp < at.seqnum

(* A stream, what its next line would say, and when a packet waits in it.  *)
StreamFits(s) == /\ Fits(LineFor(s).at)
                 /\ s.timestamp # None => s.timestamp <= newest
                 /\ s.pending # None => negotiated

LinesFit(lines) == \A k \in DOMAIN lines : Fits(lines[k].at)

RecoveredFits == \A id \in DOMAIN recovered : Fits(recovered[id])

PairsFit == /\ \A i \in Positions : StreamFits(streams[i])
            /\ RecoveredFits
            /\ temp # None => LinesFit(temp)
            /\ file # None => LinesFit(file)

LEMMA AppliedFits ==
    ASSUME NEW s \in Stream, s.pending = None, StreamFits(s), NEW rec, Recoverable(rec),
           \A id \in DOMAIN rec : Fits(rec[id])
    PROVE  StreamFits(Applied(s, rec))
  <1>1. CASE s.id \in DOMAIN rec
    <2>1. Applied(s, rec).pending = None /\ Applied(s, rec).timestamp = rec[s.id].timestamp
          /\ Applied(s, rec).seqnum = rec[s.id].seqnum
      BY <1>1, AppliedOK
    <2>2. LineFor(Applied(s, rec)).at.timestamp = rec[s.id].timestamp
          /\ LineFor(Applied(s, rec)).at.seqnum = rec[s.id].seqnum
      BY <2>1 DEF LineFor, Resolved
    <2> QED BY <1>1, <2>1, <2>2 DEF StreamFits, Fits
  <1>2. CASE s.id \notin DOMAIN rec
    BY <1>2 DEF Applied
  <1> QED BY <1>1, <1>2

LEMMA NewFits ==
    ASSUME TypeOK, RecoveredFits, NEW id \in Ids
    PROVE  StreamFits(Applied(NewStream(id), recovered))
  <1>1. Recoverable(recovered)
    BY DEF TypeOK, Recoverable
  <1>2. StreamFits(NewStream(id))
    BY DEF StreamFits, Fits, LineFor, Resolved, NewStream
  <1> QED BY <1>1, <1>2, NewOK, AppliedFits DEF RecoveredFits

(* What fits goes on fitting as the server's numbers grow.                 *)
LEMMA FitsKept ==
    ASSUME NEW at \in Saved, Fits(at), newest \in Nat, newest' \in Nat, newest <= newest'
    PROVE  Fits(at)'
  BY DEF Fits, Saved

LEMMA StreamFitsKept ==
    ASSUME NEW s \in Stream, StreamFits(s), newest \in Nat, newest' \in Nat,
           newest <= newest', negotiated => negotiated'
    PROVE  StreamFits(s)'
  <1>1. LineFor(s).at \in Saved
    BY ResolvedOK DEF FileLine
  <1>2. Fits(LineFor(s).at)'
    BY <1>1, FitsKept DEF StreamFits
  <1>3. s.timestamp # None => s.timestamp <= newest'
    BY DEF StreamFits, Stream
  <1> QED BY <1>2, <1>3 DEF StreamFits

LEMMA NextFits ==
    ASSUME NEW s \in Stream, StreamFits(s), newest \in Nat, newest' = newest + 1,
           negotiated', NEW p \in Stream,
           p.seqnum = newest + 1, p.pending = newest + 1, p.timestamp = s.timestamp
    PROVE  StreamFits(p)'
  <1>1. p.pending # None
    OBVIOUS
  <1>2. Resolved(p).timestamp = IF newest + 1 \in Unparsable THEN s.timestamp ELSE newest + 1
    BY <1>1 DEF Resolved, Stream
  <1>3. s.timestamp # None => s.timestamp \in Nat /\ s.timestamp <= newest
    BY DEF StreamFits, Stream
  <1>4. LineFor(p).at.seqnum = newest + 1 /\ LineFor(p).at.timestamp = Resolved(p).timestamp
    BY DEF LineFor
  <1>5. Fits(LineFor(p).at)'
    BY <1>2, <1>3, <1>4 DEF Fits
  <1>6. p.timestamp # None => p.timestamp <= newest'
    BY <1>3
  <1> QED BY <1>5, <1>6 DEF StreamFits

(* After a step each stream is one of these.                               *)
LEMMA StreamsFit ==
    ASSUME \A i \in DOMAIN streams' : \E s \in Stream : s = streams'[i] /\ StreamFits(s)'
    PROVE  (\A i \in Positions : StreamFits(streams[i]))'
  <1>1. ASSUME NEW i \in DOMAIN streams' PROVE StreamFits(streams[i])'
    <2>1. PICK s \in Stream : s = streams'[i] /\ StreamFits(s)'
      OBVIOUS
    <2> QED BY <2>1 DEF StreamFits, Fits, LineFor, Resolved
  <1> QED BY <1>1 DEF Positions

LEMMA LinesFitKept ==
    ASSUME NEW lines \in Seq(FileLine), LinesFit(lines),
           newest \in Nat, newest' \in Nat, newest <= newest'
    PROVE  LinesFit(lines)'
  <1>1. ASSUME NEW k \in DOMAIN lines PROVE Fits(lines[k].at)'
    <2>1. lines[k] \in FileLine
      OBVIOUS
    <2>2. lines[k].at \in Saved
      BY <2>1 DEF FileLine
    <2> QED BY <2>2, FitsKept DEF LinesFit
  <1> QED BY <1>1 DEF LinesFit

LEMMA NewestGrows ==
    ASSUME TypeOK, [Next]_vars
    PROVE  newest \in Nat /\ newest' \in Nat /\ newest <= newest'
  BY DEF TypeOK, Next, Save, AddStream, SetAllStations, Negotiate, Restart, Packet,
         RecoverState, SaveBegin, SaveLine, SaveReplace, SaveFails, vars, memVars

(* The temporary file and the state file.                                  *)
LEMMA FilesFitStep ==
    ASSUME TypeOK, PairsFit, [Next]_vars
    PROVE  (temp' # None => LinesFit(temp)') /\ (file' # None => LinesFit(file)')
  <1>a. newest \in Nat /\ newest' \in Nat /\ newest <= newest'
    BY NewestGrows
  <1>b. ASSUME temp # None
        PROVE  \E lines \in Seq(FileLine) : lines = temp /\ LinesFit(lines)'
    <2>1. PICK lines \in Seq(FileLine) : lines = temp
      BY <1>b DEF TypeOK
    <2>2. LinesFit(lines)
      BY <1>b, <2>1 DEF PairsFit
    <2>3. LinesFit(lines)'
      BY <1>a, <2>2, LinesFitKept
    <2> QED BY <2>1, <2>3
  <1>c. ASSUME file # None
        PROVE  \E lines \in Seq(FileLine) : lines = file /\ LinesFit(lines)'
    <2>1. PICK lines \in Seq(FileLine) : lines = file
      BY <1>c DEF TypeOK
    <2>2. LinesFit(lines)
      BY <1>c, <2>1 DEF PairsFit
    <2>3. LinesFit(lines)'
      BY <1>a, <2>2, LinesFitKept
    <2> QED BY <2>1, <2>3
  <1>1. CASE SaveReplace
    BY <1>1, <1>b DEF SaveReplace, Idle, LinesFit, Fits
  <1>2. CASE SaveLine
    <2>1. PICK i \in Positions : /\ i = Len(temp) + 1 /\ temp \in Seq(FileLine)
                                 /\ temp' = Append(temp, LineFor(streams[i]))
                                 /\ streams[i] \in Stream
      BY <1>2, SaveLineStep
    <2>2. PICK line \in FileLine : line = LineFor(streams[i])
      BY <2>1, ResolvedOK
    <2>3. Fits(line.at)
      BY <2>1, <2>2 DEF PairsFit, StreamFits
    <2>4. Fits(line.at)'
      BY <1>a, <2>3, FitsKept DEF FileLine
    <2>5. \A k \in DOMAIN temp' : temp'[k] = line \/ (k \in DOMAIN temp /\ temp'[k] = temp[k])
      BY <2>1, <2>2
    <2>6. LinesFit(temp)'
      BY <1>2, <1>b, <2>4, <2>5 DEF LinesFit, Fits, SaveLine, Idle
    <2> QED BY <1>2, <1>c, <2>6 DEF SaveLine, LinesFit, Fits
  <1>3. CASE SaveBegin
    BY <1>3, <1>c DEF SaveBegin, LinesFit, Fits
  <1>4. CASE file' = file /\ (temp' = None \/ temp' = temp)
    BY <1>4, <1>b, <1>c DEF LinesFit, Fits
  <1> QED BY <1>1, <1>2, <1>3, <1>4
          DEF Next, Save, AddStream, SetAllStations, Negotiate, Restart, Packet, Idle,
              RecoverState, SaveFails, vars, memVars

(* What RecoverState hands out fits as well.                               *)
LEMMA MergedFits ==
    ASSUME TypeOK, PairsFit, file # None, NEW rec, rec = Merged(Loaded(file))
    PROVE  Recoverable(rec) /\ \A id \in DOMAIN rec : Fits(rec[id])
  <1>1. /\ Recoverable(recovered) /\ Recoverable(Loaded(file))
        /\ \A id \in DOMAIN Loaded(file) : \E k \in DOMAIN file : Loaded(file)[id] = file[k].at
    BY LoadedOK DEF TypeOK, Recoverable
  <1>2. LinesFit(file) /\ RecoveredFits
    BY DEF PairsFit
  <1>3. \A id \in DOMAIN Loaded(file) : Fits(Loaded(file)[id])
    BY <1>1, <1>2 DEF LinesFit
  <1>4. \A id \in DOMAIN rec :
           \/ id \in DOMAIN Loaded(file) /\ rec[id] = Loaded(file)[id]
           \/ id \in DOMAIN recovered /\ rec[id] = recovered[id]
    BY <1>1, MergedOK
  <1>5. Recoverable(rec)
    BY <1>1, MergedOK
  <1> QED BY <1>2, <1>3, <1>4, <1>5 DEF RecoveredFits

LEMMA RecoveredFitsStep ==
    ASSUME TypeOK, PairsFit, [Next]_vars
    PROVE  RecoveredFits'
  <1>1. CASE RecoverState
    <2>1. PICK rec : rec = Merged(Loaded(file))
      OBVIOUS
    <2>2. recovered' = rec /\ newest' = newest /\ \A id \in DOMAIN rec : Fits(rec[id])
      BY <1>1, <2>1, MergedFits DEF RecoverState
    <2> QED BY <2>2 DEF RecoveredFits, Fits
  <1>2. CASE recovered' = recovered
    <2>1. ASSUME NEW id \in DOMAIN recovered PROVE Fits(recovered[id])'
      <3>1. PICK at \in Saved : at = recovered[id]
        BY DEF TypeOK
      <3>2. Fits(at)
        BY <3>1 DEF PairsFit, RecoveredFits
      <3>3. Fits(at)'
        BY <3>2, NewestGrows, FitsKept
      <3> QED BY <1>2, <3>1, <3>3 DEF Fits
    <2> QED BY <1>2, <2>1 DEF RecoveredFits
  <1>3. CASE Restart
    BY <1>3 DEF Restart, Nothing, RecoveredFits
  <1> QED BY <1>1, <1>2, <1>3
          DEF Next, Save, AddStream, SetAllStations, Negotiate, Packet,
              SaveBegin, SaveLine, SaveReplace, SaveFails, vars, memVars

LEMMA StreamsFitStep ==
    ASSUME TypeOK, PairsFit, [Next]_vars, "recover" \notin Late
    PROVE  (\A i \in Positions : StreamFits(streams[i]))'
  <1> USE DEF memVars
  <1>a. newest \in Nat /\ newest' \in Nat /\ newest <= newest'
    BY NewestGrows
  <1>b. \A i \in Positions : streams[i] \in Stream /\ StreamFits(streams[i])
    BY DEF TypeOK, PairsFit, Positions
  <1>c. ASSUME negotiated => negotiated', NEW s \in Stream, StreamFits(s)
        PROVE  StreamFits(s)'
    BY <1>a, <1>c, StreamFitsKept
  <1>d. ASSUME negotiated => negotiated', NEW i \in Positions
        PROVE  \E s \in Stream : s = streams[i] /\ StreamFits(s)'
    BY <1>b, <1>c, <1>d
  <1>e. ASSUME negotiated => negotiated', NEW id \in Ids
        PROVE  \E s \in Stream : s = Applied(NewStream(id), recovered) /\ StreamFits(s)'
    <2>1. Applied(NewStream(id), recovered) \in Stream
      BY NewOK, AppliedOK DEF TypeOK, Recoverable
    <2>2. StreamFits(Applied(NewStream(id), recovered))
      BY NewFits DEF PairsFit
    <2> QED BY <1>c, <1>e, <2>1, <2>2
  <1>1. ASSUME NEW id \in Ids, AddStream(id)
        PROVE  (\A i \in Positions : StreamFits(streams[i]))'
    <2>1. \A i \in DOMAIN streams' :
             streams'[i] = Applied(NewStream(id), recovered)
             \/ (i \in Positions /\ streams'[i] = streams[i])
      BY <1>1 DEF AddStream, TypeOK, Positions
    <2> QED BY <1>1, <1>d, <1>e, <2>1, StreamsFit DEF AddStream
  <1>2. CASE SetAllStations
    <2>1. \A i \in DOMAIN streams' : streams'[i] = Applied(NewStream(Any), recovered)
      BY <1>2 DEF SetAllStations
    <2> QED BY <1>2, <1>e, <2>1, StreamsFit DEF SetAllStations
  <1>3. CASE RecoverState /\ ~negotiated
    <2>1. PICK rec : rec = Merged(Loaded(file))
      OBVIOUS
    <2>2. Recoverable(rec) /\ \A id \in DOMAIN rec : Fits(rec[id])
      BY <1>3, <2>1, MergedFits DEF RecoverState
    <2>3. streams' = [i \in Positions |-> Applied(streams[i], rec)]
      BY <1>3, <2>1 DEF RecoverState
    <2>4. ASSUME NEW i \in Positions
          PROVE  Applied(streams[i], rec) \in Stream /\ StreamFits(Applied(streams[i], rec))
      <3>1. streams[i].pending = None
        BY <1>3, <1>b DEF StreamFits
      <3> QED BY <1>b, <2>2, <3>1, AppliedOK, AppliedFits
    <2>5. \A i \in Positions : \E s \in Stream : s = Applied(streams[i], rec) /\ StreamFits(s)'
      BY <1>3, <1>c, <2>4
    <2> QED BY <2>3, <2>5, StreamsFit
  <1>4. CASE Negotiate
    <2>1. CASE streams = <<>>
      <3>1. \A i \in DOMAIN streams' : streams'[i] = Applied(NewStream(Any), recovered)
        BY <1>4, <2>1 DEF Negotiate, DefaultStream
      <3> QED BY <1>4, <1>e, <3>1, StreamsFit DEF Negotiate
    <2>2. CASE streams # <<>>
      <3>1. streams' = streams
        BY <1>4, <2>2 DEF Negotiate, DefaultStream
      <3> QED BY <1>4, <1>d, <3>1, StreamsFit DEF Negotiate, Positions
    <2> QED BY <2>1, <2>2
  <1>5. ASSUME NEW st \in Stations, Packet(st)
        PROVE  (\A i \in Positions : StreamFits(streams[i]))'
    <2>1. newest' = newest + 1 /\ negotiated /\ negotiated' /\ newest + 1 \in Nat
      BY <1>5 DEF Packet, TypeOK
    <2>2. streams' \in Seq(Stream) /\ DOMAIN streams' = Positions
      BY <1>5, <2>1, UpdatedOK DEF Packet
    <2>3. ASSUME NEW i \in Positions
          PROVE  \E s \in Stream : s = streams'[i] /\ StreamFits(s)'
      <3>1. PICK p \in Stream : p = streams'[i]
        BY <2>2
      <3>2. CASE p = streams[i]
        BY <1>d, <2>1, <3>1, <3>2
      <3>3. CASE p # streams[i]
        <4>1. PICK s \in Stream : s = streams[i] /\ StreamFits(s)
          BY <1>b
        <4>2. p.seqnum = newest + 1 /\ p.pending = newest + 1 /\ p.timestamp = s.timestamp
          BY <1>5, <2>1, <3>1, <3>3, <4>1, UpdatedOK DEF Packet
        <4>3. StreamFits(p)'
          BY <1>a, <2>1, <4>1, <4>2, NextFits
        <4> QED BY <3>1, <4>3
      <3> QED BY <3>2, <3>3
    <2> QED BY <2>2, <2>3, StreamsFit
  <1>6. CASE SaveLine
    <2>1. DOMAIN streams' = Positions /\ (negotiated => negotiated')
      BY <1>6, SaveLineStep DEF SaveLine, Positions
    <2>2. ASSUME NEW i \in Positions
          PROVE  \E s \in Stream : s = streams'[i] /\ StreamFits(s)'
      <3>1. CASE streams'[i] = streams[i]
        BY <1>d, <2>1, <3>1
      <3>2. CASE streams'[i] = Resolved(streams[i])
        <4>1. PICK p \in Stream : p = Resolved(streams[i])
          BY <1>b, ResolvedOK
        <4>2. LineFor(p) = LineFor(streams[i])
              /\ p.pending = None /\ p.timestamp = LineFor(streams[i]).at.timestamp
          BY <1>b, <4>1, ResolvedOK
        <4>3. StreamFits(p)
          BY <1>b, <4>2 DEF StreamFits, Fits
        <4> QED BY <1>c, <2>1, <3>2, <4>1, <4>3
      <3> QED BY <1>6, <3>1, <3>2, SaveLineStep
    <2> QED BY <2>1, <2>2, StreamsFit
  <1>7. CASE Restart
    BY <1>7 DEF Restart, Positions
  <1>8. CASE UNCHANGED <<streams, negotiated>>
    BY <1>8, <1>d, StreamsFit DEF Positions
  <1> QED BY <1>1, <1>2, <1>3, <1>4, <1>5, <1>6, <1>7, <1>8
          DEF Next, Save, SaveBegin, SaveReplace, SaveFails, vars

(* save_state() writes a sequence number that is current with a time that   *)
(* may be older, but never with another packet's for one it could read; a  *)
(* program that recovers while packets come has no such promise.           *)
THEOREM PairSaved ==
    ASSUME "recover" \notin Late
    PROVE  Spec => []SavedPair
  <1>1. Init => PairsFit
    BY DEF Init, PairsFit, RecoveredFits, Nothing, Positions
  <1>2. TypeOK /\ PairsFit /\ [Next]_vars => PairsFit'
    BY StreamsFitStep, FilesFitStep, RecoveredFitsStep DEF PairsFit
  <1>3. PairsFit => SavedPair
    BY DEF PairsFit, LinesFit, Fits, SavedPair
  <1> QED BY <1>1, <1>2, <1>3, StreamTypes, PTL DEF Spec

(* A converted selector selects what the given one selects, whatever the   *)
(* alphabet, its wildcards and the characters that are neither: a client   *)
(* written against one syntax gets the same channels from a server of the  *)
(* other version (streams.py:4-7).  And those are converted that the       *)
(* docstrings say, wildcarded locations apart (streams.py:138-141).        *)
THEOREM SelectsAlike == Spec => []SelectsTheSame
  <1>1. ConversionsAgree /\ ConvertsAsDocumented
    BY ConversionsHold, DocumentedHold
  <1>2. SelectsTheSame
    BY <1>1 DEF SelectsTheSame
  <1>3. QED
    BY <1>2, PTL
=============================================================================
