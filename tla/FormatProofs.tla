---------------------------- MODULE FormatProofs ----------------------------
(***************************************************************************)
(* Proofs about Format, for format strings of every length and arguments   *)
(* of every width: exactly the strings of the grammar are printed, and the *)
(* text of every conversion reads back as its argument.  The second part,  *)
(* from WordSize on, is about the operators of Conversions: what the five  *)
(* turns of u32_to_string have written and what is left always make the    *)
(* number; the digits of a hexadecimal text do not disturb each other,     *)
(* since no carry of the addition of 6 leaves its byte.                    *)
(***************************************************************************)
EXTENDS Format, SequenceTheorems, TLAPS

Characters == Literal \cup Inside
Inner == {"open", "number", "spec", "size", "close"}
FormatTypeOK ==
  /\ length \in Nat /\ fmt \in Seq(Characters)
  /\ place \in Inner \cup {"text", "done", "panic", "too_big"}

-----------------------------------------------------------------------------
(* The pairs of braces, by their characters.                               *)

(* The characters by what they stand for.                                  *)
Left == "{"
Right == "}"
Between == ":"
InHex == "x"
Signs == {"d", "u"}
Texts == {"s", "z"}
Sizes == {"b", "s"}

(* The { at i starts a pair that is allowed, and it is whole.              *)
Matches(i) ==
  \/ i + 2 <= Len(fmt) /\ fmt[i + 1] \in Signs \cup Texts /\ fmt[i + 2] = Right
  \/ i + 3 <= Len(fmt) /\ fmt[i + 1] \in Signs /\ fmt[i + 2] = Between /\ fmt[i + 3] = Right
  \/ /\ i + 4 <= Len(fmt) /\ fmt[i + 1] \in Signs /\ fmt[i + 2] = Between
     /\ fmt[i + 3] \in Sizes \cup {InHex} /\ fmt[i + 4] = Right
  \/ /\ i + 5 <= Len(fmt) /\ fmt[i + 1] \in Signs /\ fmt[i + 2] = Between
     /\ fmt[i + 3] = InHex /\ fmt[i + 4] \in Sizes /\ fmt[i + 5] = Right

(* A pair starts at i when its characters are there.                       *)
Follows(i, n, d) == i + n - 1 <= Len(fmt) /\ \A j \in 1 .. n : fmt[i + j - 1] = d[j]

LEMMA StartsByCharacters ==
  ASSUME fmt \in Seq(Characters), NEW i \in 1 .. Len(fmt), NEW d \in Seq(Characters), Len(d) >= 1
  PROVE  StartsAt(i, d) <=> Follows(i, Len(d), d)
<1>1. Len(d) \in Nat /\ Len(fmt) \in Nat
  BY LenProperties
<1>2. CASE ~(i + Len(d) - 1 <= Len(fmt))
  BY <1>2 DEF StartsAt, Follows
<1>3. CASE i + Len(d) - 1 <= Len(fmt)
  <2> DEFINE m == i + Len(d) - 1
             s == SubSeq(fmt, i, m)
  <2>1. m \in Int /\ m <= Len(fmt) /\ m - i + 1 = Len(d) /\ i <= m /\ i >= 1
    BY <1>1, <1>3
  <2>2. \A k \in 1 .. Len(fmt) : fmt[k] \in Characters
    BY ElementOfSeq
  <2> HIDE DEF m
  <2>3. \A k \in i .. m : fmt[k] \in Characters
    BY <1>1, <2>1, <2>2
  <2>4. s \in Seq(Characters) /\ Len(s) = Len(d) /\ \A j \in 1 .. Len(d) : s[j] = fmt[i + j - 1]
    BY <1>1, <2>1, <2>3, SubSeqProperties
  <2> HIDE DEF s
  <2>5. s = d <=> \A j \in 1 .. Len(d) : s[j] = d[j]
    BY <1>1, <2>4, SeqEqual
  <2>6. s = d <=> \A j \in 1 .. Len(d) : fmt[i + j - 1] = d[j]
    BY <2>4, <2>5
  <2>7. s = d <=> Follows(i, Len(d), d)
    BY <1>3, <2>6 DEF Follows
  <2>8. StartsAt(i, d) <=> s = d
    BY <1>3 DEF StartsAt, s, m
  <2> QED
    BY <2>7, <2>8
<1> QED
  BY <1>2, <1>3

(* The pairs of each length.                                               *)
LEMMA StartsThree ==
  ASSUME fmt \in Seq(Characters), NEW i \in 1 .. Len(fmt), NEW o \in Characters,
         NEW a \in Characters, NEW e \in Characters
  PROVE  StartsAt(i, <<o, a, e>>) <=>
           /\ i + 2 <= Len(fmt) /\ fmt[i] = o /\ fmt[i + 1] = a /\ fmt[i + 2] = e
<1> DEFINE d == <<o, a, e>>
<1>1. d \in Seq(Characters) /\ Len(d) = 3
  OBVIOUS
<1>2. /\ d[1] = o /\ d[2] = a /\ d[3] = e
  OBVIOUS
<1> HIDE DEF d
<1>3. StartsAt(i, d) <=> Follows(i, 3, d)
  <2>1. Len(d) >= 1
    BY <1>1
  <2>2. StartsAt(i, d) <=> Follows(i, Len(d), d)
    BY <1>1, <2>1, StartsByCharacters
  <2> QED
    BY <1>1, <2>2
<1>4. (\A j \in 1 .. 3 : fmt[i + j - 1] = d[j]) <=>
        /\ fmt[i] = o /\ fmt[i + 1] = a /\ fmt[i + 2] = e
  <2>1. 1 .. 3 = {1, 2, 3}
    OBVIOUS
  <2>2. /\ i + 1 - 1 = i /\ i + 2 - 1 = i + 1 /\ i + 3 - 1 = i + 2
    OBVIOUS
  <2> QED
    BY <1>2, <2>1, <2>2
<1>5. i + 3 - 1 = i + 2
  OBVIOUS
<1> QED
  BY <1>3, <1>4, <1>5 DEF d, Follows

LEMMA StartsFour ==
  ASSUME fmt \in Seq(Characters), NEW i \in 1 .. Len(fmt), NEW o \in Characters,
         NEW a \in Characters, NEW b \in Characters, NEW e \in Characters
  PROVE  StartsAt(i, <<o, a, b, e>>) <=>
           /\ i + 3 <= Len(fmt) /\ fmt[i] = o /\ fmt[i + 1] = a /\ fmt[i + 2] = b
           /\ fmt[i + 3] = e
<1> DEFINE d == <<o, a, b, e>>
<1>1. d \in Seq(Characters) /\ Len(d) = 4
  OBVIOUS
<1>2. /\ d[1] = o /\ d[2] = a /\ d[3] = b /\ d[4] = e
  OBVIOUS
<1> HIDE DEF d
<1>3. StartsAt(i, d) <=> Follows(i, 4, d)
  <2>1. Len(d) >= 1
    BY <1>1
  <2>2. StartsAt(i, d) <=> Follows(i, Len(d), d)
    BY <1>1, <2>1, StartsByCharacters
  <2> QED
    BY <1>1, <2>2
<1>4. (\A j \in 1 .. 4 : fmt[i + j - 1] = d[j]) <=>
        /\ fmt[i] = o /\ fmt[i + 1] = a /\ fmt[i + 2] = b /\ fmt[i + 3] = e
  <2>1. 1 .. 4 = {1, 2, 3, 4}
    OBVIOUS
  <2>2. /\ i + 1 - 1 = i /\ i + 2 - 1 = i + 1 /\ i + 3 - 1 = i + 2
        /\ i + 4 - 1 = i + 3
    OBVIOUS
  <2> QED
    BY <1>2, <2>1, <2>2
<1>5. i + 4 - 1 = i + 3
  OBVIOUS
<1> QED
  BY <1>3, <1>4, <1>5 DEF d, Follows

LEMMA StartsFive ==
  ASSUME fmt \in Seq(Characters), NEW i \in 1 .. Len(fmt), NEW o \in Characters,
         NEW a \in Characters, NEW b \in Characters,
         NEW c \in Characters, NEW e \in Characters
  PROVE  StartsAt(i, <<o, a, b, c, e>>) <=>
           /\ i + 4 <= Len(fmt) /\ fmt[i] = o /\ fmt[i + 1] = a /\ fmt[i + 2] = b
           /\ fmt[i + 3] = c /\ fmt[i + 4] = e
<1> DEFINE d == <<o, a, b, c, e>>
<1>1. d \in Seq(Characters) /\ Len(d) = 5
  OBVIOUS
<1>2. /\ d[1] = o /\ d[2] = a /\ d[3] = b /\ d[4] = c /\ d[5] = e
  OBVIOUS
<1> HIDE DEF d
<1>3. StartsAt(i, d) <=> Follows(i, 5, d)
  <2>1. Len(d) >= 1
    BY <1>1
  <2>2. StartsAt(i, d) <=> Follows(i, Len(d), d)
    BY <1>1, <2>1, StartsByCharacters
  <2> QED
    BY <1>1, <2>2
<1>4. (\A j \in 1 .. 5 : fmt[i + j - 1] = d[j]) <=>
        /\ fmt[i] = o /\ fmt[i + 1] = a /\ fmt[i + 2] = b /\ fmt[i + 3] = c
        /\ fmt[i + 4] = e
  <2>1. 1 .. 5 = {1, 2, 3, 4, 5}
    OBVIOUS
  <2>2. /\ i + 1 - 1 = i /\ i + 2 - 1 = i + 1 /\ i + 3 - 1 = i + 2
        /\ i + 4 - 1 = i + 3 /\ i + 5 - 1 = i + 4
    OBVIOUS
  <2> QED
    BY <1>2, <2>1, <2>2
<1>5. i + 5 - 1 = i + 4
  OBVIOUS
<1> QED
  BY <1>3, <1>4, <1>5 DEF d, Follows

LEMMA StartsSix ==
  ASSUME fmt \in Seq(Characters), NEW i \in 1 .. Len(fmt), NEW o \in Characters,
         NEW a \in Characters, NEW b \in Characters,
         NEW c \in Characters, NEW f \in Characters, NEW e \in Characters
  PROVE  StartsAt(i, <<o, a, b, c, f, e>>) <=>
           /\ i + 5 <= Len(fmt) /\ fmt[i] = o /\ fmt[i + 1] = a /\ fmt[i + 2] = b
           /\ fmt[i + 3] = c /\ fmt[i + 4] = f /\ fmt[i + 5] = e
<1> DEFINE d == <<o, a, b, c, f, e>>
<1>1. d \in Seq(Characters) /\ Len(d) = 6
  OBVIOUS
<1>2. /\ d[1] = o /\ d[2] = a /\ d[3] = b /\ d[4] = c /\ d[5] = f /\ d[6] = e
  OBVIOUS
<1> HIDE DEF d
<1>3. StartsAt(i, d) <=> Follows(i, 6, d)
  <2>1. Len(d) >= 1
    BY <1>1
  <2>2. StartsAt(i, d) <=> Follows(i, Len(d), d)
    BY <1>1, <2>1, StartsByCharacters
  <2> QED
    BY <1>1, <2>2
<1>4. (\A j \in 1 .. 6 : fmt[i + j - 1] = d[j]) <=>
        /\ fmt[i] = o /\ fmt[i + 1] = a /\ fmt[i + 2] = b /\ fmt[i + 3] = c
        /\ fmt[i + 4] = f /\ fmt[i + 5] = e
  <2>1. 1 .. 6 = {1, 2, 3, 4, 5, 6}
    OBVIOUS
  <2>2. /\ i + 1 - 1 = i /\ i + 2 - 1 = i + 1 /\ i + 3 - 1 = i + 2
        /\ i + 4 - 1 = i + 3 /\ i + 5 - 1 = i + 4 /\ i + 6 - 1 = i + 5
    OBVIOUS
  <2> QED
    BY <1>2, <2>1, <2>2
<1>5. i + 6 - 1 = i + 5
  OBVIOUS
<1> QED
  BY <1>3, <1>4, <1>5 DEF d, Follows

(* A pair of the grammar starts at a { that Matches.                       *)
LEMMA PairCharacters ==
  /\ \A c \in {"s", "z", "d", "u"} : c \in Characters
  /\ \A c \in Signs : c \in Characters /\ c \in {"s", "z", "d", "u"}
  /\ \A c \in {"x", "b", "s"} : c \in Characters
  /\ \A c \in {"b", "s"} : c \in Characters
  /\ "{" \in Characters /\ "}" \in Characters /\ ":" \in Characters /\ "x" \in Characters
  BY DEF Characters, Inside, Signs

LEMMA PairsByCharacters ==
  ASSUME fmt \in Seq(Characters), NEW i \in 1 .. Len(fmt)
  PROVE  /\ \A c \in {"s", "z", "d", "u"} : StartsAt(i, <<"{", c, "}">>) <=>
              i + 2 <= Len(fmt) /\ fmt[i] = "{" /\ fmt[i + 1] = c /\ fmt[i + 2] = "}"
         /\ \A c \in Signs : StartsAt(i, <<"{", c, ":", "}">>) <=>
              /\ i + 3 <= Len(fmt) /\ fmt[i] = "{" /\ fmt[i + 1] = c /\ fmt[i + 2] = ":"
              /\ fmt[i + 3] = "}"
         /\ \A c \in Signs, f \in {"x", "b", "s"} : StartsAt(i, <<"{", c, ":", f, "}">>) <=>
              /\ i + 4 <= Len(fmt) /\ fmt[i] = "{" /\ fmt[i + 1] = c /\ fmt[i + 2] = ":"
              /\ fmt[i + 3] = f /\ fmt[i + 4] = "}"
         /\ \A c \in Signs, b \in {"b", "s"} : StartsAt(i, <<"{", c, ":", "x", b, "}">>) <=>
              /\ i + 5 <= Len(fmt) /\ fmt[i] = "{" /\ fmt[i + 1] = c /\ fmt[i + 2] = ":"
              /\ fmt[i + 3] = "x" /\ fmt[i + 4] = b /\ fmt[i + 5] = "}"
<1>1. ASSUME NEW c \in {"s", "z", "d", "u"}
      PROVE  StartsAt(i, <<"{", c, "}">>) <=>
               i + 2 <= Len(fmt) /\ fmt[i] = "{" /\ fmt[i + 1] = c /\ fmt[i + 2] = "}"
  <2>1. c \in Characters /\ "{" \in Characters /\ "}" \in Characters
    BY PairCharacters
  <2> QED
    BY <2>1, StartsThree, Zenon
<1>2. ASSUME NEW c \in Signs
      PROVE  StartsAt(i, <<"{", c, ":", "}">>) <=>
              /\ i + 3 <= Len(fmt) /\ fmt[i] = "{" /\ fmt[i + 1] = c /\ fmt[i + 2] = ":"
              /\ fmt[i + 3] = "}"
  <2>1. c \in Characters /\ "{" \in Characters /\ "}" \in Characters /\ ":" \in Characters
    BY PairCharacters
  <2> QED
    BY <2>1, StartsFour, Zenon
<1>3. ASSUME NEW c \in Signs, NEW f \in {"x", "b", "s"}
      PROVE  StartsAt(i, <<"{", c, ":", f, "}">>) <=>
              /\ i + 4 <= Len(fmt) /\ fmt[i] = "{" /\ fmt[i + 1] = c /\ fmt[i + 2] = ":"
              /\ fmt[i + 3] = f /\ fmt[i + 4] = "}"
  <2>1. /\ c \in Characters /\ f \in Characters
        /\ "{" \in Characters /\ "}" \in Characters /\ ":" \in Characters
    BY PairCharacters
  <2> QED
    BY <2>1, StartsFive, Zenon
<1>4. ASSUME NEW c \in Signs, NEW b \in {"b", "s"}
      PROVE  StartsAt(i, <<"{", c, ":", "x", b, "}">>) <=>
              /\ i + 5 <= Len(fmt) /\ fmt[i] = "{" /\ fmt[i + 1] = c /\ fmt[i + 2] = ":"
              /\ fmt[i + 3] = "x" /\ fmt[i + 4] = b /\ fmt[i + 5] = "}"
  <2>1. /\ c \in Characters /\ b \in Characters /\ "x" \in Characters
        /\ "{" \in Characters /\ "}" \in Characters /\ ":" \in Characters
    BY PairCharacters
  <2> QED
    BY <2>1, StartsSix, ZenonT(30)
<1> QED
  BY <1>1, <1>2, <1>3, <1>4, Zenon

LEMMA StartsMatches ==
  ASSUME fmt \in Seq(Characters), NEW i \in 1 .. Len(fmt)
  PROVE  (\E d \in Directives : StartsAt(i, d)) <=> fmt[i] = Left /\ Matches(i)
<1>1. \A c \in Signs \cup Texts : c \in {"s", "z", "d", "u"}
  BY DEF Signs, Texts
<1>2. ASSUME NEW d \in Directives, StartsAt(i, d) PROVE fmt[i] = Left /\ Matches(i)
  <2>1. CASE \E c \in {"s", "z", "d", "u"} : d = <<"{", c, "}">>
    <3>1. PICK c \in {"s", "z", "d", "u"} : d = <<"{", c, "}">>
      BY <2>1
    <3>2. StartsAt(i, <<"{", c, "}">>)
      BY <1>2, <3>1
    <3>3. i + 2 <= Len(fmt) /\ fmt[i] = "{" /\ fmt[i + 1] = c /\ fmt[i + 2] = "}"
      BY <3>2, PairsByCharacters, Zenon
    <3> QED
      BY <3>3, Zenon DEF Matches, Left, Right, Between, InHex, Signs, Texts, Sizes
  <2>2. CASE \E c \in Signs : d = <<"{", c, ":", "}">>
    <3>1. PICK c \in Signs : d = <<"{", c, ":", "}">>
      BY <2>2
    <3>2. StartsAt(i, <<"{", c, ":", "}">>)
      BY <1>2, <3>1
    <3>3. /\ i + 3 <= Len(fmt) /\ fmt[i] = "{" /\ fmt[i + 1] = c /\ fmt[i + 2] = ":"
          /\ fmt[i + 3] = "}"
      BY <3>2, PairsByCharacters, Zenon
    <3> QED
      BY <3>3, Zenon DEF Matches, Left, Right, Between, InHex, Signs, Texts, Sizes
  <2>3. CASE \E c \in Signs, f \in {"x", "b", "s"} : d = <<"{", c, ":", f, "}">>
    <3>1. PICK c \in Signs, f \in {"x", "b", "s"} : d = <<"{", c, ":", f, "}">>
      BY <2>3
    <3>2. StartsAt(i, <<"{", c, ":", f, "}">>)
      BY <1>2, <3>1
    <3>3. /\ c \in Characters /\ f \in Characters
          /\ "{" \in Characters /\ "}" \in Characters /\ ":" \in Characters
      BY PairCharacters
    <3>4. /\ i + 4 <= Len(fmt) /\ fmt[i] = "{" /\ fmt[i + 1] = c /\ fmt[i + 2] = ":"
          /\ fmt[i + 3] = f /\ fmt[i + 4] = "}"
      BY <3>2, <3>3, StartsFive, Zenon
    <3> QED
      BY <3>4, Zenon DEF Matches, Left, Right, Between, InHex, Signs, Texts, Sizes
  <2>4. CASE \E c \in Signs, b \in {"b", "s"} : d = <<"{", c, ":", "x", b, "}">>
    <3>1. PICK c \in Signs, b \in {"b", "s"} : d = <<"{", c, ":", "x", b, "}">>
      BY <2>4
    <3>2. StartsAt(i, <<"{", c, ":", "x", b, "}">>)
      BY <1>2, <3>1
    <3>3. /\ i + 5 <= Len(fmt) /\ fmt[i] = "{" /\ fmt[i + 1] = c /\ fmt[i + 2] = ":"
          /\ fmt[i + 3] = "x" /\ fmt[i + 4] = b /\ fmt[i + 5] = "}"
      BY <3>2, PairsByCharacters, Zenon
    <3> QED
      BY <3>3, Zenon DEF Matches, Left, Right, Between, InHex, Signs, Texts, Sizes
  <2>5. \/ \E c \in {"s", "z", "d", "u"} : d = <<"{", c, "}">>
        \/ \E c \in Signs : \/ d = <<"{", c, ":", "}">>
                            \/ \E f \in {"x", "b", "s"} : d = <<"{", c, ":", f, "}">>
                            \/ \E b \in {"b", "s"} : d = <<"{", c, ":", "x", b, "}">>
    BY <1>2, Zenon DEF Directives, Signs
  <2> QED
    BY <2>1, <2>2, <2>3, <2>4, <2>5, Zenon
<1>3. ASSUME fmt[i] = Left, Matches(i) PROVE \E d \in Directives : StartsAt(i, d)
  <2>1. /\ \A c \in {"s", "z", "d", "u"} : <<"{", c, "}">> \in Directives
        /\ \A c \in Signs : <<"{", c, ":", "}">> \in Directives
        /\ \A c \in Signs, f \in {"x", "b", "s"} : <<"{", c, ":", f, "}">> \in Directives
        /\ \A c \in Signs, b \in {"b", "s"} : <<"{", c, ":", "x", b, "}">> \in Directives
    BY DEF Directives, Signs
  <2>2. CASE i + 2 <= Len(fmt) /\ fmt[i + 1] \in Signs \cup Texts /\ fmt[i + 2] = "}"
    BY <1>1, <1>3, <2>1, <2>2, PairsByCharacters, Zenon DEF Left
  <2>3. CASE i + 3 <= Len(fmt) /\ fmt[i + 1] \in Signs /\ fmt[i + 2] = ":" /\ fmt[i + 3] = "}"
    BY <1>3, <2>1, <2>3, PairsByCharacters, Zenon DEF Left
  <2>4. CASE /\ i + 4 <= Len(fmt) /\ fmt[i + 1] \in Signs /\ fmt[i + 2] = ":"
             /\ fmt[i + 3] \in {"x", "b", "s"} /\ fmt[i + 4] = "}"
    BY <1>3, <2>1, <2>4, PairsByCharacters, Zenon DEF Left
  <2>5. CASE /\ i + 5 <= Len(fmt) /\ fmt[i + 1] \in Signs /\ fmt[i + 2] = ":"
             /\ fmt[i + 3] = "x" /\ fmt[i + 4] \in {"b", "s"} /\ fmt[i + 5] = "}"
    BY <1>3, <2>1, <2>5, PairsByCharacters, Zenon DEF Left
  <2>6. fmt[i + 3] \in {"b", "s"} \cup {"x"} => fmt[i + 3] \in {"x", "b", "s"}
    BY Zenon
  <2> QED
    BY <1>3, <2>2, <2>3, <2>4, <2>5, <2>6, Zenon
    DEF Matches, Left, Right, Between, InHex, Texts, Sizes
<1> QED
  BY <1>2, <1>3

-----------------------------------------------------------------------------
(* Where the code is in the format string, by the characters before.       *)

(* Every { up to k starts a pair that is allowed and whole.                *)
Whole(k) == \A i \in 1 .. k : fmt[i] = Left => Matches(i)

(* What was read of the pair that begins at i, at each place in it.        *)
AtOpen(i) == i = Len(fmt)
AtNumber(i) == i + 1 = Len(fmt) /\ fmt[i + 1] \in Signs
AtSpec(i) == i + 2 = Len(fmt) /\ fmt[i + 1] \in Signs /\ fmt[i + 2] = Between
AtSize(i) ==
  i + 3 = Len(fmt) /\ fmt[i + 1] \in Signs /\ fmt[i + 2] = Between /\ fmt[i + 3] = InHex
AtClose(i) ==
  \/ i + 1 = Len(fmt) /\ fmt[i + 1] \in Texts
  \/ /\ i + 3 = Len(fmt) /\ fmt[i + 1] \in Signs /\ fmt[i + 2] = Between
     /\ fmt[i + 3] \in Sizes
  \/ /\ i + 4 = Len(fmt) /\ fmt[i + 1] \in Signs /\ fmt[i + 2] = Between
     /\ fmt[i + 3] = InHex /\ fmt[i + 4] \in Sizes
Begun(i) ==
  \/ place = "open" /\ AtOpen(i)
  \/ place = "number" /\ AtNumber(i)
  \/ place = "spec" /\ AtSpec(i)
  \/ place = "size" /\ AtSize(i)
  \/ place = "close" /\ AtClose(i)

GrammarInv ==
  /\ place \in {"text", "done"} => Whole(Len(fmt))
  /\ place \in Inner => \E i \in 1 .. Len(fmt) : fmt[i] = Left /\ Whole(i - 1) /\ Begun(i)
  /\ place = "panic" => ~Whole(Len(fmt))

(* A character more.                                                       *)
Reading(c) ==
  /\ Len(fmt') = Len(fmt) + 1 /\ fmt'[Len(fmt) + 1] = c
  /\ \A i \in 1 .. Len(fmt) : fmt'[i] = fmt[i]

LEMMA ReadsOne ==
  ASSUME FormatTypeOK, NEW c \in Characters, Reads(c)
  PROVE  Reading(c) /\ fmt' \in Seq(Characters) /\ Len(fmt) \in Nat
  BY LenProperties, AppendProperties DEF FormatTypeOK, Reads, Reading

(* A pair that is whole stays whole.                                       *)
LEMMA MatchesStay ==
  ASSUME NEW c, Reading(c), Len(fmt) \in Nat, NEW i \in 1 .. Len(fmt), Matches(i)
  PROVE  Matches(i)'
<1>1. i \in Nat /\ Len(fmt') = Len(fmt) + 1
  BY DEF Reading
<1>2. \A j \in 1 .. 5 : i + j <= Len(fmt) => i + j <= Len(fmt') /\ fmt'[i + j] = fmt[i + j]
  BY DEF Reading
<1> QED
  BY <1>1, <1>2, SMTT(30) DEF Matches

LEMMA WholeStays ==
  ASSUME NEW c, Reading(c), Len(fmt) \in Nat, NEW k \in 0 .. Len(fmt), Whole(k)
  PROVE  \A i \in 1 .. k : fmt'[i] = Left => Matches(i)'
<1> SUFFICES ASSUME NEW i \in 1 .. k, fmt'[i] = Left PROVE Matches(i)'
  OBVIOUS
<1>1. i \in 1 .. Len(fmt)
  OBVIOUS
<1>2. fmt'[i] = fmt[i]
  BY <1>1 DEF Reading
<1>3. Matches(i)
  BY <1>2 DEF Whole
<1> QED
  BY <1>1, <1>3, MatchesStay

-----------------------------------------------------------------------------
(* A character more within a pair.                                         *)
LEMMA Apart ==
  /\ Left \notin Signs \cup Texts \cup Sizes \cup {Right, Between, InHex}
  /\ Signs \cap Texts = {} /\ InHex \notin Sizes
  /\ Right \notin Signs \cup Texts \cup Sizes \cup {Between, InHex}
  /\ Between \notin Signs \cup Texts \cup Sizes \cup {InHex}
  BY DEF Left, Right, Between, InHex, Signs, Texts, Sizes

LEMMA Advances ==
  ASSUME NEW c, Reading(c), Len(fmt) \in Nat, NEW i \in 1 .. Len(fmt)
  PROVE  /\ AtOpen(i) /\ c \in Signs => AtNumber(i)'
         /\ AtOpen(i) /\ c \in Texts => AtClose(i)'
         /\ AtNumber(i) /\ c = Between => AtSpec(i)'
         /\ AtSpec(i) /\ c = InHex => AtSize(i)'
         /\ (AtSpec(i) \/ AtSize(i)) /\ c \in Sizes => AtClose(i)'
<1>1. i \in Nat /\ Len(fmt') = Len(fmt) + 1
  BY DEF Reading
<1>2. AtOpen(i) => fmt'[i + 1] = c
  BY DEF AtOpen, Reading
<1>3. AtNumber(i) => fmt'[i + 1] = fmt[i + 1] /\ fmt'[i + 2] = c
  BY DEF AtNumber, Reading
<1>4. AtSpec(i) => fmt'[i + 1] = fmt[i + 1] /\ fmt'[i + 2] = fmt[i + 2] /\ fmt'[i + 3] = c
  BY DEF AtSpec, Reading
<1>5. AtSize(i) => /\ fmt'[i + 1] = fmt[i + 1] /\ fmt'[i + 2] = fmt[i + 2]
                   /\ fmt'[i + 3] = fmt[i + 3] /\ fmt'[i + 4] = c
  BY DEF AtSize, Reading
<1> QED
  BY <1>1, <1>2, <1>3, <1>4, <1>5 DEF AtOpen, AtNumber, AtSpec, AtSize, AtClose

(* The character that closes a pair makes it whole, and there was no { in  *)
(* it.                                                                     *)
LEMMA Closes ==
  ASSUME NEW c, Reading(c), Len(fmt) \in Nat, NEW i \in 1 .. Len(fmt), c = Right,
         AtNumber(i) \/ AtSpec(i) \/ AtSize(i) \/ AtClose(i)
  PROVE  Matches(i)' /\ \A j \in i + 1 .. Len(fmt') : fmt'[j] # Left
<1>1. i \in Nat /\ Len(fmt') = Len(fmt) + 1 /\ fmt'[Len(fmt) + 1] = Right
  BY DEF Reading
<1>2. \A k \in 1 .. 4 : i + k <= Len(fmt) => fmt'[i + k] = fmt[i + k]
  BY DEF Reading
<1>3. Matches(i)'
  BY <1>1, <1>2 DEF AtNumber, AtSpec, AtSize, AtClose, Matches
<1>4. \A k \in 1 .. 4 : i + k <= Len(fmt) => fmt[i + k] # Left
  BY <1>1, Apart DEF AtNumber, AtSpec, AtSize, AtClose
<1>5. Len(fmt) <= i + 4
  BY <1>1 DEF AtNumber, AtSpec, AtSize, AtClose
<1>6. ASSUME NEW j \in i + 1 .. Len(fmt') PROVE fmt'[j] # Left
  <2>1. CASE j = Len(fmt) + 1
    BY <1>1, <2>1, Apart
  <2>2. CASE j # Len(fmt) + 1
    <3>1. j - i \in 1 .. 4 /\ i + (j - i) = j /\ j <= Len(fmt)
      BY <1>1, <1>5, <2>2
    <3> QED
      BY <1>2, <1>4, <3>1
  <2> QED
    BY <2>1, <2>2
<1> QED
  BY <1>3, <1>6

(* Any other character, or the end, and it is none of the grammar.         *)
LEMMA Refuses ==
  ASSUME NEW c, Reading(c), Len(fmt) \in Nat, NEW i \in 1 .. Len(fmt)
  PROVE  /\ AtOpen(i) /\ c \notin Signs \cup Texts => ~Matches(i)'
         /\ AtNumber(i) /\ c \notin {Between, Right} => ~Matches(i)'
         /\ AtSpec(i) /\ c \notin Sizes \cup {InHex, Right} => ~Matches(i)'
         /\ AtSize(i) /\ c \notin Sizes \cup {Right} => ~Matches(i)'
         /\ AtClose(i) /\ c # Right => ~Matches(i)'
<1>1. i \in Nat /\ Len(fmt') = Len(fmt) + 1 /\ fmt'[Len(fmt) + 1] = c
  BY DEF Reading
<1>2. \A k \in 1 .. 4 : i + k <= Len(fmt) => fmt'[i + k] = fmt[i + k]
  BY DEF Reading
<1>3. AtOpen(i) /\ c \notin Signs \cup Texts => ~Matches(i)'
  BY <1>1, <1>2, Apart DEF AtOpen, Matches
<1>4. AtNumber(i) /\ c \notin {Between, Right} => ~Matches(i)'
  BY <1>1, <1>2, Apart DEF AtNumber, Matches
<1>5. AtSpec(i) /\ c \notin Sizes \cup {InHex, Right} => ~Matches(i)'
  BY <1>1, <1>2, Apart DEF AtSpec, Matches
<1>6. AtSize(i) /\ c \notin Sizes \cup {Right} => ~Matches(i)'
  BY <1>1, <1>2, Apart DEF AtSize, Matches
<1>7. AtClose(i) /\ c # Right => ~Matches(i)'
  BY <1>1, <1>2, Apart DEF AtClose, Matches
<1> QED
  BY <1>3, <1>4, <1>5, <1>6, <1>7

LEMMA Ends ==
  ASSUME Len(fmt) \in Nat, NEW i \in 1 .. Len(fmt),
         AtOpen(i) \/ AtNumber(i) \/ AtSpec(i) \/ AtSize(i) \/ AtClose(i)
  PROVE  ~Matches(i)
<1>1. i \in Nat
  OBVIOUS
<1>2. AtOpen(i) \/ AtNumber(i) \/ AtSpec(i) => ~Matches(i)
  BY <1>1, Apart DEF AtOpen, AtNumber, AtSpec, Matches
<1>3. AtSize(i) \/ AtClose(i) => ~Matches(i)
  BY <1>1, Apart DEF AtSize, AtClose, Matches
<1> QED
  BY <1>2, <1>3
(* Beyond what is whole, no { up to the end.                               *)
LEMMA WholeGrows ==
  ASSUME NEW c, Reading(c), Len(fmt) \in Nat, NEW k \in 0 .. Len(fmt), Whole(k),
         \A j \in k + 1 .. Len(fmt') : fmt'[j] = Left => Matches(j)'
  PROVE  Whole(Len(fmt))'
<1>1. k \in Nat /\ Len(fmt') \in Nat
  BY DEF Reading
<1>2. \A i \in 1 .. k : fmt'[i] = Left => Matches(i)'
  BY WholeStays
<1>3. ASSUME NEW j \in 1 .. Len(fmt'), fmt'[j] = Left PROVE Matches(j)'
  <2>1. j \in 1 .. k \/ j \in k + 1 .. Len(fmt')
    BY <1>1
  <2> QED
    BY <1>2, <1>3, <2>1
<1> QED
  BY <1>3 DEF Whole

LEMMA CopyKeeps == ASSUME FormatTypeOK, GrammarInv, Copy PROVE GrammarInv'
<1>1. PICK c \in Literal : Reads(c)
  BY DEF Copy
<1>2. c \in Characters /\ c # Left
  BY DEF Characters, Literal, Left
<1>3. Reading(c) /\ Len(fmt) \in Nat
  BY <1>1, <1>2, ReadsOne
<1>4. place = "text" /\ place' = "text" /\ Whole(Len(fmt))
  BY DEF Copy, GrammarInv
<1>5. Whole(Len(fmt)) /\ Len(fmt) \in 0 .. Len(fmt)
  BY <1>3, <1>4
<1>6. \A j \in Len(fmt) + 1 .. Len(fmt') : fmt'[j] # Left
  BY <1>2, <1>3 DEF Reading
<1>7. Whole(Len(fmt))'
  BY <1>3, <1>5, <1>6, WholeGrows
<1> QED
  BY <1>4, <1>7 DEF GrammarInv, Inner

LEMMA OpenKeeps == ASSUME FormatTypeOK, GrammarInv, Open PROVE GrammarInv'
<1>1. Reads(Left) /\ Left \in Characters
  BY DEF Open, Characters, Inside, Left
<1>2. Reading(Left) /\ Len(fmt) \in Nat
  BY <1>1, ReadsOne
<1>3. place = "text" /\ place' = "open" /\ Whole(Len(fmt))
  BY DEF Open, GrammarInv
<1>4. PICK i \in Nat : i = Len(fmt) + 1
  BY <1>2
<1>5. i \in 1 .. Len(fmt') /\ fmt'[i] = Left /\ i = Len(fmt')
  BY <1>2, <1>4 DEF Reading
<1>6. \A j \in 1 .. i - 1 : fmt'[j] = Left => Matches(j)'
  <2>1. Len(fmt) \in 0 .. Len(fmt) /\ i - 1 = Len(fmt)
    BY <1>2, <1>4
  <2> QED
    BY <1>2, <1>3, <2>1, WholeStays
<1>7. Whole(i - 1)' /\ AtOpen(i)'
  BY <1>5, <1>6 DEF Whole, AtOpen
<1>8. \E k \in 1 .. Len(fmt)' : (fmt[k] = Left /\ Whole(k - 1) /\ AtOpen(k))'
  BY <1>5, <1>7
<1> QED
  BY <1>3, <1>8, Zenon DEF GrammarInv, Begun, Inner

(* Where a character leads to, whatever it is.                             *)
LEMMA DescribeLeads ==
  ASSUME NEW c \in Inside, Kind(c) \/ Colon(c) \/ Hex(c) \/ Size(c)
  PROVE  \/ place = "open" /\ c \in Signs /\ place' = "number"
         \/ place = "open" /\ c \in Texts /\ place' = "close"
         \/ place = "number" /\ c = Between /\ place' = "spec"
         \/ place = "spec" /\ c = InHex /\ place' = "size"
         \/ place \in {"spec", "size"} /\ c \in Sizes /\ place' = "close"
  BY DEF Kind, Kinds, Colon, Hex, Size, Signs, Texts, Sizes, Between, InHex

LEMMA DescribeKeeps == ASSUME FormatTypeOK, GrammarInv, Describe PROVE GrammarInv'
<1>1. PICK c \in Inside : Reads(c) /\ (Kind(c) \/ Colon(c) \/ Hex(c) \/ Size(c))
  BY DEF Describe
<1>2. Reading(c) /\ Len(fmt) \in Nat
  BY <1>1, ReadsOne DEF Characters
<1>3. place \in Inner /\ place' \in Inner
  BY <1>1, DescribeLeads DEF Inner
<1>4. PICK i \in 1 .. Len(fmt) : fmt[i] = Left /\ Whole(i - 1) /\ Begun(i)
  BY <1>3 DEF GrammarInv
<1>5. i \in 1 .. Len(fmt)' /\ fmt'[i] = Left
  BY <1>2, <1>4 DEF Reading
<1>6. Whole(i - 1)'
  <2>1. i - 1 \in 0 .. Len(fmt)
    BY <1>2
  <2>2. \A j \in 1 .. i - 1 : fmt'[j] = Left => Matches(j)'
    BY <1>2, <1>4, <2>1, WholeStays
  <2> QED
    BY <2>2 DEF Whole
<1>7. Begun(i)'
  BY <1>1, <1>2, <1>4, DescribeLeads, Advances, Zenon DEF Begun
<1> QED
  BY <1>3, <1>5, <1>6, <1>7 DEF GrammarInv, Inner

LEMMA CloseKeeps == ASSUME FormatTypeOK, GrammarInv, Close PROVE GrammarInv'
<1>1. Reads(Right) /\ Right \in Characters
  BY DEF Close, Characters, Inside, Right
<1>2. Reading(Right) /\ Len(fmt) \in Nat
  BY <1>1, ReadsOne
<1>3. place \in {"close", "number", "spec", "size"} /\ place' = "text"
  BY DEF Close
<1>4. PICK i \in 1 .. Len(fmt) : fmt[i] = Left /\ Whole(i - 1) /\ Begun(i)
  BY <1>3 DEF GrammarInv, Inner
<1>5. AtNumber(i) \/ AtSpec(i) \/ AtSize(i) \/ AtClose(i)
  BY <1>3, <1>4 DEF Begun
<1>6. Matches(i)' /\ \A j \in i + 1 .. Len(fmt') : fmt'[j] # Left
  BY <1>2, <1>5, Closes
<1>7. i - 1 \in 0 .. Len(fmt)
  BY <1>2
<1>8. \A j \in (i - 1) + 1 .. Len(fmt') : fmt'[j] = Left => Matches(j)'
  <2> SUFFICES ASSUME NEW j \in (i - 1) + 1 .. Len(fmt'), fmt'[j] = Left PROVE Matches(j)'
    OBVIOUS
  <2>1. j = i \/ j \in i + 1 .. Len(fmt')
    BY <1>2 DEF Reading
  <2> QED
    BY <1>6, <2>1
<1>9. Whole(Len(fmt))'
  BY <1>2, <1>4, <1>7, <1>8, WholeGrows
<1> QED
  BY <1>3, <1>9 DEF GrammarInv, Inner

LEMMA PanicKeeps == ASSUME FormatTypeOK, GrammarInv, Panic PROVE GrammarInv'
<1>1. place \in Inner /\ place' = "panic" /\ Len(fmt) \in Nat
  BY LenProperties DEF Panic, Accepted, Inner, FormatTypeOK
<1>2. PICK i \in 1 .. Len(fmt) : fmt[i] = Left /\ Whole(i - 1) /\ Begun(i)
  BY <1>1 DEF GrammarInv
<1>3. CASE UNCHANGED fmt
  <2>1. ~Matches(i)
    BY <1>1, <1>2, Ends, Zenon DEF Begun
  <2>2. ~Whole(Len(fmt))
    BY <1>2, <2>1 DEF Whole
  <2>3. ~Whole(Len(fmt))'
    BY <1>3, <2>2 DEF Whole, Matches
  <2> QED
    BY <1>1, <2>3 DEF GrammarInv, Inner
<1>4. CASE \E c \in Inside \ Accepted[place] : Reads(c)
  <2>1. PICK c \in Inside \ Accepted[place] : Reads(c)
    BY <1>4
  <2>2. Reading(c)
    BY <2>1, ReadsOne DEF Characters
  <2>3. /\ place = "open" => c \notin Signs \cup Texts
        /\ place = "number" => c \notin {Between, Right}
        /\ place = "spec" => c \notin Sizes \cup {InHex, Right}
        /\ place = "size" => c \notin Sizes \cup {Right}
        /\ place = "close" => c # Right
    <3>1. c \notin Accepted[place]
      BY <2>1
    <3>2. /\ Accepted["open"] = Signs \cup Texts
          /\ Accepted["number"] = {Between, Right}
          /\ Accepted["spec"] = Sizes \cup {InHex, Right}
          /\ Accepted["size"] = Sizes \cup {Right}
          /\ Accepted["close"] = {Right}
      BY DEF Accepted, Kinds, Signs, Texts, Sizes, Between, InHex, Right
    <3> QED
      BY <3>1, <3>2
  <2>4. ~Matches(i)'
    BY <1>1, <1>2, <2>2, <2>3, Refuses, Zenon DEF Begun
  <2>5. i \in 1 .. Len(fmt') /\ fmt'[i] = Left
    BY <1>1, <1>2, <2>2 DEF Reading
  <2>6. ~Whole(Len(fmt))'
    BY <2>4, <2>5 DEF Whole
  <2> QED
    BY <1>1, <2>6 DEF GrammarInv, Inner
<1> QED
  BY <1>3, <1>4 DEF Panic

LEMMA FormatTypes == ASSUME FormatTypeOK, [Next]_vars PROVE FormatTypeOK'
<1>1. ASSUME NEW c \in Characters, Reads(c) PROVE fmt' \in Seq(Characters)
  BY <1>1, AppendProperties DEF Reads, FormatTypeOK
<1>2. CASE Copy \/ Open \/ Close
  <2>1. \E c \in Characters : Reads(c)
    BY <1>2 DEF Copy, Open, Close, Characters, Inside
  <2>2. fmt' \in Seq(Characters)
    BY <1>1, <2>1
  <2>3. length' = length /\ place' \in Inner \cup {"text", "done", "panic", "too_big"}
    BY <1>2 DEF Copy, Open, Close, Inner
  <2> QED
    BY <2>2, <2>3 DEF FormatTypeOK
<1>3. CASE Describe
  <2>1. PICK c \in Inside : Reads(c) /\ (Kind(c) \/ Colon(c) \/ Hex(c) \/ Size(c))
    BY <1>3 DEF Describe
  <2>2. place' \in Inner
    BY <2>1, DescribeLeads DEF Inner
  <2> QED
    BY <1>1, <1>3, <2>1, <2>2 DEF Describe, FormatTypeOK, Characters
<1>4. CASE Panic
  BY <1>1, <1>4 DEF Panic, FormatTypeOK, Characters
<1>5. CASE Return \/ UNCHANGED vars
  BY <1>5 DEF Return, vars, FormatTypeOK
<1> QED
  BY <1>2, <1>3, <1>4, <1>5 DEF Next

(* A format string is printed to its end exactly when every { in it starts *)
(* a pair of the grammar, for format strings of every length.              *)
THEOREM GrammarIsPrinted == Spec => []PrintsTheGrammar
<1>1. Init => FormatTypeOK /\ GrammarInv
  <2> SUFFICES ASSUME Init PROVE FormatTypeOK /\ GrammarInv
    OBVIOUS
  <2>1. fmt = <<>> /\ Len(fmt) = 0 /\ place \in {"text", "too_big"} /\ length \in Nat
    BY FormatAssumption DEF Init
  <2>2. Whole(Len(fmt))
    BY <2>1 DEF Whole
  <2> QED
    BY <2>1, <2>2 DEF FormatTypeOK, GrammarInv, Inner
<1>2. FormatTypeOK /\ GrammarInv /\ [Next]_vars => (FormatTypeOK /\ GrammarInv)'
  <2> SUFFICES ASSUME FormatTypeOK, GrammarInv, [Next]_vars PROVE GrammarInv'
    BY FormatTypes
  <2>1. CASE Return
    BY <2>1 DEF Return, GrammarInv, Inner, Whole, Matches
  <2>2. CASE UNCHANGED vars
    BY <2>2 DEF vars, GrammarInv, Inner, Whole, Matches, Begun, AtOpen, AtNumber, AtSpec,
       AtSize, AtClose
  <2> QED
    BY <2>1, <2>2, CopyKeeps, OpenKeeps, DescribeKeeps, CloseKeeps, PanicKeeps DEF Next
<1>3. FormatTypeOK /\ GrammarInv => PrintsTheGrammar
  <2> SUFFICES ASSUME FormatTypeOK, GrammarInv PROVE PrintsTheGrammar
    OBVIOUS
  <2>1. DOMAIN fmt = 1 .. Len(fmt) /\ fmt \in Seq(Characters)
    BY LenProperties DEF FormatTypeOK
  <2>2. \A i \in 1 .. Len(fmt) :
          (\E d \in Directives : StartsAt(i, d)) <=> fmt[i] = Left /\ Matches(i)
    BY <2>1, StartsMatches
  <2>3. Whole(Len(fmt)) <=>
          \A i \in DOMAIN fmt : fmt[i] = "{" => \E d \in Directives : StartsAt(i, d)
    BY <2>1, <2>2, Zenon DEF Whole, Left
  <2> QED
    BY <2>3 DEF PrintsTheGrammar, GrammarInv
<1> QED
  BY <1>1, <1>2, <1>3, PTL DEF Spec

-----------------------------------------------------------------------------
(* What the proofs need of 2 ^ WordBits.                                   *)
WordSize ==
  /\ 2 ^ WordBits \in Nat /\ 2 ^ (WordBits - 1) \in Nat
  /\ 2 ^ WordBits = 2 * 2 ^ (WordBits - 1)
  /\ 65536 <= 2 ^ (WordBits - 1) /\ 2 ^ (WordBits - 1) <= 2147483648

LEMMA Words == WordSize
<1>17. CASE WordBits = 17
  BY <1>17, SMT DEF WordSize
<1>18. CASE WordBits = 18
  BY <1>18, SMT DEF WordSize
<1>19. CASE WordBits = 19
  BY <1>19, SMT DEF WordSize
<1>20. CASE WordBits = 20
  BY <1>20, SMT DEF WordSize
<1>21. CASE WordBits = 21
  BY <1>21, SMT DEF WordSize
<1>22. CASE WordBits = 22
  BY <1>22, SMT DEF WordSize
<1>23. CASE WordBits = 23
  BY <1>23, SMT DEF WordSize
<1>24. CASE WordBits = 24
  BY <1>24, SMT DEF WordSize
<1>25. CASE WordBits = 25
  BY <1>25, SMT DEF WordSize
<1>26. CASE WordBits = 26
  BY <1>26, SMT DEF WordSize
<1>27. CASE WordBits = 27
  BY <1>27, SMT DEF WordSize
<1>28. CASE WordBits = 28
  BY <1>28, SMT DEF WordSize
<1>29. CASE WordBits = 29
  BY <1>29, SMT DEF WordSize
<1>30. CASE WordBits = 30
  BY <1>30, SMT DEF WordSize
<1>31. CASE WordBits = 31
  BY <1>31, SMT DEF WordSize
<1>32. CASE WordBits = 32
  BY <1>32, SMT DEF WordSize
<1> QED
  BY <1>17, <1>18, <1>19, <1>20, <1>21, <1>22, <1>23, <1>24, <1>25, <1>26, <1>27, <1>28,
     <1>29, <1>30, <1>31, <1>32, ConversionsAssumption
-----------------------------------------------------------------------------
(* Decimal texts.                                                          *)

Digit == 48 .. 57

(* The powers of ten up to what no word reaches.                           *)
Ten == [i \in 0 .. 10 |-> 10 ^ i]

LEMMA Tens ==
  /\ \A i \in 0 .. 10 : Ten[i] \in Nat \ {0}
  /\ \A i \in 0 .. 9 : Ten[i + 1] = 10 * Ten[i]
  /\ \A i \in 0 .. 9 : pow_of_10_table[i] = Ten[i]
  /\ Ten[0] = 1 /\ Ten[1] = 10
  BY SMT DEF pow_of_10_table, Ten

LEMMA WordsHaveTenDigits == 2 ^ WordBits < Ten[10]
<1>1. Ten[10] > 2 * 2147483648 /\ Ten[10] \in Nat
  BY SMT DEF Ten
<1>2. \A h \in Nat : h <= 2147483648 => 2 * h < Ten[10]
  BY <1>1, SMT
<1> QED
  BY <1>2, Words, SMT DEF WordSize

LEMMA DigitAtAppend ==
  ASSUME NEW b \in Seq(Nat), NEW x \in Nat
  PROVE  /\ DigitAt(Append(b, x), 0) = DigitValue(x)
         /\ \A k \in Nat : DigitAt(Append(b, x), k + 1) = DigitAt(b, k)
         /\ Len(Append(b, x)) = Len(b) + 1
  BY LenProperties, AppendProperties, SMTT(30) DEF DigitAt

LEMMA DigitsAreNumbers ==
  /\ \A c \in Nat : DigitValue(c) \in 0 .. 16
  /\ \A b \in Seq(Nat) : \A k \in Nat : DigitAt(b, k) \in 0 .. 16
<1>1. \A c \in Nat : DigitValue(c) \in 0 .. 16
  BY DEF DigitValue
<1>2. ASSUME NEW b \in Seq(Nat), NEW k \in Nat PROVE DigitAt(b, k) \in 0 .. 16
  <2>1. k < Len(b) => b[Len(b) - k] \in Nat
    BY LenProperties, ElementOfSeq
  <2> QED
    BY <1>1, <2>1, SMTT(30) DEF DigitAt
<1> QED
  BY <1>1, <1>2

LEMMA Product == \A a, b \in Nat : a * b \in Nat
  OBVIOUS

LEMMA ValueType == ASSUME NEW base \in Nat, NEW b \in Seq(Nat) PROVE Value(base, b) \in Nat
<1>1. \A k \in Nat : DigitAt(b, k) \in Nat
  BY DigitsAreNumbers, SMTT(30)
<1>2. \A d \in Nat, v \in Nat : d + base * v \in Nat
  BY Product
<1> QED
  BY <1>1, <1>2, ZenonT(30) DEF Value

LEMMA ValueAppend ==
  ASSUME NEW base \in Nat, NEW b \in Seq(Nat), NEW x \in Nat, Len(b) <= 9
  PROVE  Value(base, Append(b, x)) = DigitValue(x) + base * Value(base, b)
<1>1. DigitAt(b, 9) = 0
  BY LenProperties DEF DigitAt
<1>2. /\ DigitAt(Append(b, x), 0) = DigitValue(x)
      /\ DigitAt(Append(b, x), 1) = DigitAt(b, 0) /\ DigitAt(Append(b, x), 2) = DigitAt(b, 1)
      /\ DigitAt(Append(b, x), 3) = DigitAt(b, 2) /\ DigitAt(Append(b, x), 4) = DigitAt(b, 3)
      /\ DigitAt(Append(b, x), 5) = DigitAt(b, 4) /\ DigitAt(Append(b, x), 6) = DigitAt(b, 5)
      /\ DigitAt(Append(b, x), 7) = DigitAt(b, 6) /\ DigitAt(Append(b, x), 8) = DigitAt(b, 7)
      /\ DigitAt(Append(b, x), 9) = DigitAt(b, 8)
  <2>1. \A k \in Nat : DigitAt(Append(b, x), k + 1) = DigitAt(b, k)
    BY DigitAtAppend
  <2>2. \A k \in 0 .. 8 : DigitAt(Append(b, x), k + 1) = DigitAt(b, k)
    BY <2>1
  <2> QED
    BY <2>2, DigitAtAppend
<1>3. DigitAt(b, 8) + base * 0 = DigitAt(b, 8)
  <2>1. DigitAt(b, 8) \in 0 .. 16
    BY DigitsAreNumbers
  <2>2. base * 0 = 0
    OBVIOUS
  <2> QED
    BY <2>1, <2>2
<1> QED
  BY <1>1, <1>2, <1>3, Zenon DEF Value

LEMMA ValueEmpty == ASSUME NEW base \in Nat PROVE Value(base, <<>>) = 0
<1>1. \A k \in Nat : DigitAt(<<>>, k) = 0
  BY DEF DigitAt
<1> QED
  BY <1>1 DEF Value

LEMMA CountDigitsLeast ==
  ASSUME NEW num \in Nat, num < Ten[10]
  PROVE  /\ CountDigits(num) \in 1 .. 10
         /\ num < Ten[CountDigits(num)]
         /\ CountDigits(num) > 1 => Ten[CountDigits(num) - 1] <= num
<1> DEFINE S == {r \in 1 .. 10 : r < 10 => num < pow_of_10_table[r]}
<1>1. \E m \in S : \A r \in S : m <= r
  <2>1. 10 \in S /\ S \subseteq 1 .. 10
    OBVIOUS
  <2> HIDE DEF S
  <2> QED
    BY <2>1
<1>2. CountDigits(num) \in S /\ \A r \in S : CountDigits(num) <= r
  BY <1>1, Zenon DEF CountDigits, Min
<1> DEFINE d == CountDigits(num)
<1>3. d \in 1 .. 10 /\ (d < 10 => num < pow_of_10_table[d])
  BY <1>2
<1>4. d > 1 => ~(num < pow_of_10_table[d - 1])
  <2> SUFFICES ASSUME d > 1 PROVE ~(num < pow_of_10_table[d - 1])
    OBVIOUS
  <2>1. d - 1 \in 1 .. 9 /\ d - 1 \notin S
    BY <1>2, <1>3
  <2> QED
    BY <2>1
<1> HIDE DEF d
<1>5. d > 1 => d - 1 \in 0 .. 9
  BY <1>3
<1> QED
  BY <1>3, <1>4, <1>5, Tens DEF d
-----------------------------------------------------------------------------
(* The loop of u32_to_string.                                              *)

LEMMA TwoDigits ==
  ASSUME NEW d \in 0 .. 99
  PROVE  /\ d \div 10 \in 0 .. 9 /\ d % 10 \in 0 .. 9
         /\ 48 + d \div 10 \in Digit /\ 48 + (d % 10) \in Digit
         /\ CharPair(d) = <<48 + d \div 10, 48 + (d % 10)>>
         /\ DigitValue(48 + (d % 10)) + 10 * DigitValue(48 + d \div 10) = d
<1>1. d \div 10 \in 0 .. 9 /\ d % 10 \in 0 .. 9 /\ d = 10 * (d \div 10) + (d % 10)
  BY SMT
<1>2. \A k \in 0 .. 9 : 48 + k \in Digit /\ DigitValue(48 + k) = k
  BY DEF Digit, DigitValue
<1>3. CharPair(d) = <<48 + d \div 10, 48 + (d % 10)>>
  BY DEF CharPair
<1> QED
  BY <1>1, <1>2, <1>3

LEMMA DigitSequences == \A b \in Seq(Digit) : b \in Seq(Nat)
<1>1. Digit \subseteq Nat
  BY DEF Digit
<1> QED
  BY <1>1, SeqMonotonic

LEMMA PairAppended ==
  ASSUME NEW b \in Seq(Digit), NEW x \in Digit, NEW y \in Digit
  PROVE  /\ b \o <<x, y>> = Append(Append(b, x), y)
         /\ b \o <<x, y>> \in Seq(Digit)
         /\ Len(b \o <<x, y>>) = Len(b) + 2
         /\ (b \o <<x, y>>)[1] = IF b = <<>> THEN x ELSE b[1]
  OBVIOUS

LEMMA PairValue ==
  ASSUME NEW b \in Seq(Digit), NEW d \in 0 .. 99, Len(b) <= 8
  PROVE  /\ b \o CharPair(d) \in Seq(Digit)
         /\ Len(b \o CharPair(d)) = Len(b) + 2
         /\ (b \o CharPair(d))[1] = IF b = <<>> THEN 48 + d \div 10 ELSE b[1]
         /\ Value(10, b \o CharPair(d)) = 100 * Value(10, b) + d
<1> DEFINE x == 48 + d \div 10
           y == 48 + (d % 10)
<1>1. /\ x \in Digit /\ y \in Digit /\ CharPair(d) = <<x, y>>
      /\ DigitValue(y) + 10 * DigitValue(x) = d
      /\ DigitValue(x) \in Nat /\ DigitValue(y) \in Nat
  <2>1. /\ x \in Digit /\ y \in Digit /\ CharPair(d) = <<x, y>>
        /\ DigitValue(y) + 10 * DigitValue(x) = d
    BY TwoDigits
  <2> HIDE DEF x, y
  <2>2. x \in Nat /\ y \in Nat
    BY <2>1 DEF Digit
  <2>3. \A c \in Nat : DigitValue(c) \in 0 .. 16
    BY DigitsAreNumbers, Zenon
  <2>4. DigitValue(x) \in 0 .. 16 /\ DigitValue(y) \in 0 .. 16
    BY <2>2, <2>3, Zenon
  <2> QED
    BY <2>1, <2>4, SMTT(30)
<1> HIDE DEF x, y
<1>2. /\ b \o <<x, y>> = Append(Append(b, x), y) /\ b \o <<x, y>> \in Seq(Digit)
      /\ Len(b \o <<x, y>>) = Len(b) + 2
      /\ (b \o <<x, y>>)[1] = IF b = <<>> THEN x ELSE b[1]
  BY <1>1, PairAppended, SMTT(30)
<1>3. b \in Seq(Nat) /\ x \in Nat /\ y \in Nat /\ Append(b, x) \in Seq(Nat)
  <2>1. b \in Seq(Nat) /\ x \in Nat /\ y \in Nat
    BY <1>1, DigitSequences DEF Digit
  <2> QED
    BY <2>1
<1>4. Len(Append(b, x)) = Len(b) + 1
  BY <1>3
<1>5. Value(10, Append(b, x)) = DigitValue(x) + 10 * Value(10, b)
  BY <1>3, ValueAppend
<1>6. Value(10, Append(Append(b, x), y)) = DigitValue(y) + 10 * Value(10, Append(b, x))
  <2>1. Len(Append(b, x)) <= 9
    BY <1>3, <1>4, LenProperties
  <2> QED
    BY <1>3, <2>1, ValueAppend
<1>7. Value(10, b) \in Nat
  BY <1>3, ValueType
<1>8. Value(10, b \o <<x, y>>) = 100 * Value(10, b) + d
  <2> DEFINE p == DigitValue(x)
             q == DigitValue(y)
             v == Value(10, b)
  <2>1. Value(10, b \o <<x, y>>) = q + 10 * (p + 10 * v)
    BY <1>2, <1>5, <1>6, Zenon
  <2>2. q + 10 * p = d /\ p \in Nat /\ q \in Nat /\ v \in Nat
    BY <1>1, <1>7
  <2> HIDE DEF p, q, v
  <2>3. q + 10 * (p + 10 * v) = 100 * v + d
    BY <2>2
  <2> QED
    BY <2>1, <2>3 DEF v
<1> QED
  BY <1>1, <1>2, <1>8 DEF x

(* What is written and what is left make the number N, of D digits; the    *)
(* first digit of more than one is not 0.                                  *)
Written(s, N, D) ==
  /\ s.num \in Nat /\ s.length \in 0 .. 10 /\ s.buff \in Seq(Digit)
  /\ s.num < Ten[s.length] /\ Len(s.buff) + s.length = D
  /\ Value(10, s.buff) * Ten[s.length] + s.num = N
  /\ s.buff # <<>> => s.buff[1] # 48

LEMMA WrittenRecord ==
  ASSUME NEW r \in Nat, NEW l \in 0 .. 10, NEW b \in Seq(Digit), NEW N, NEW D,
         r < Ten[l], Len(b) + l = D, Value(10, b) * Ten[l] + r = N, b[1] # 48
  PROVE  Written([num |-> r, length |-> l, buff |-> b], N, D)
  BY DEF Written

(* The digits of n before its last l.                                      *)
LEMMA Leading ==
  ASSUME NEW n \in Nat, NEW t \in Nat \ {0}, n < 100 * t
  PROVE  /\ n \div t \in 0 .. 99 /\ n - (n \div t) * t \in Nat /\ n - (n \div t) * t < t
         /\ n >= 10 * t => n \div t >= 10
<1>1. n = t * (n \div t) + (n % t) /\ n % t \in 0 .. t - 1 /\ n \div t \in Nat
  OBVIOUS
<1> DEFINE q == n \div t
           r == n % t
<1>2. n = t * q + r /\ r \in 0 .. t - 1 /\ q \in Nat
  BY <1>1
<1> HIDE DEF q, r
<1>3. q <= 99
  <2> SUFFICES ASSUME q >= 100 PROVE FALSE
    BY <1>2
  <2>1. t * (q - 100) \in Nat
    BY <1>2, Product
  <2>2. t * q = t * (q - 100) + 100 * t
    BY <1>2
  <2> QED
    BY <1>2, <2>1, <2>2
<1>4. n >= 10 * t => q >= 10
  <2> SUFFICES ASSUME n >= 10 * t, q <= 9 PROVE FALSE
    BY <1>2
  <2>1. t * (9 - q) \in Nat
    BY <1>2, Product
  <2>2. 9 * t = t * (9 - q) + t * q
    BY <1>2
  <2> QED
    BY <1>2, <2>1, <2>2
<1>5. n - q * t = r
  BY <1>2
<1> QED
  BY <1>2, <1>3, <1>4, <1>5 DEF q

LEMMA TurnWrites ==
  ASSUME NEW s, NEW N \in Nat, NEW D \in 1 .. 10, Written(s, N, D), D > 1 => Ten[D - 1] <= N
  PROVE  /\ Written(Turn(s), N, D)
         /\ Turn(s).length = IF s.length < 2 THEN s.length ELSE s.length - 2
<1>1. CASE s.length < 2
  <2>1. Turn(s) = s
    BY <1>1, Zenon DEF Turn
  <2> QED
    BY <1>1, <2>1, Zenon
<1>2. CASE ~(s.length < 2)
  <2> DEFINE l == s.length - 2
             t == Ten[s.length - 2]
             d == s.num \div t
             b == s.buff
             r == s.num - d * t
  <2>1. /\ l \in 0 .. 8 /\ t \in Nat \ {0} /\ Ten[s.length] = 100 * t
        /\ pow_of_10_table[s.length - 2] = t /\ Ten[s.length - 1] = 10 * t
    <3>1. s.length - 2 \in 0 .. 8
      BY <1>2 DEF Written
    <3>2. \A i \in 0 .. 8 : /\ Ten[i] \in Nat \ {0} /\ Ten[i + 1] = 10 * Ten[i]
                            /\ Ten[i + 2] = 100 * Ten[i] /\ pow_of_10_table[i] = Ten[i]
      <4> TAKE i \in 0 .. 8
      <4>1. Ten[i] \in Nat \ {0} /\ Ten[i + 1] = 10 * Ten[i] /\ pow_of_10_table[i] = Ten[i]
        BY Tens
      <4>2. Ten[(i + 1) + 1] = 10 * Ten[i + 1]
        BY Tens
      <4>3. (i + 1) + 1 = i + 2
        OBVIOUS
      <4> QED
        BY <4>1, <4>2, <4>3
    <3>3. (s.length - 2) + 2 = s.length /\ (s.length - 2) + 1 = s.length - 1
      BY SMTT(30) DEF Written
    <3> QED
      BY <3>1, <3>2, <3>3
  <2>2. s.num \in Nat /\ s.num < 100 * t
    BY <2>1 DEF Written
  <2>3. d \in 0 .. 99 /\ r \in Nat /\ r < t /\ (s.num >= 10 * t => d >= 10)
    BY <2>1, <2>2, Leading
  <2>4. Turn(s) = [num |-> r, length |-> l, buff |-> b \o CharPair(d)]
    <3>1. Turn(s) = [num |-> s.num - PairDigits(s) * pow_of_10_table[s.length - 2],
                     length |-> l, buff |-> b \o CharPair(PairDigits(s))]
      BY <1>2, Zenon DEF Turn
    <3>2. pow_of_10_table[s.length - 2] = t /\ PairDigits(s) = d
      BY <2>1, Zenon DEF PairDigits
    <3> QED
      BY <3>1, <3>2, Zenon
  <2>5. b \in Seq(Digit) /\ Len(b) \in Nat /\ Len(b) + 2 + l = D /\ Len(b) <= 8
    <3>1. b \in Seq(Digit)
      BY DEF Written
    <3>2. Len(b) \in Nat
      BY <3>1, LenProperties
    <3>3. s.length \in 2 .. 10 /\ Len(b) + s.length = D
      BY <1>2, SMTT(30) DEF Written
    <3>4. \A n \in Nat, k \in 2 .. 10 : n + k = D => n + 2 + (k - 2) = D /\ n <= 8
      OBVIOUS
    <3> QED
      BY <3>1, <3>2, <3>3, <3>4
  <2>6. /\ b \o CharPair(d) \in Seq(Digit)
        /\ Len(b \o CharPair(d)) = Len(b) + 2
        /\ (b \o CharPair(d))[1] = IF b = <<>> THEN 48 + d \div 10 ELSE b[1]
        /\ Value(10, b \o CharPair(d)) = 100 * Value(10, b) + d
    BY <2>3, <2>5, PairValue
  <2>7. Value(10, b) \in Nat /\ Value(10, b) * Ten[s.length] + s.num = N
    BY <2>5, ValueType, DigitSequences DEF Written
  <2>8. Value(10, b \o CharPair(d)) * t + r = N
    <3> DEFINE v == Value(10, b)
    <3>1. v \in Nat /\ v * (100 * t) + s.num = N
      BY <2>1, <2>7
    <3>2. r = s.num - d * t
      OBVIOUS
    <3> HIDE DEF v, d, r, t
    <3>3. (100 * v + d) * t = v * (100 * t) + d * t
      BY <2>1, <2>3, <3>1
    <3>4. d * t \in Int /\ v * (100 * t) \in Int
      BY <2>1, <2>3, <3>1
    <3>5. (100 * v + d) * t + r = N
      BY <2>2, <3>1, <3>2, <3>3, <3>4
    <3> QED
      BY <2>6, <3>5 DEF v
  <2>9. (b \o CharPair(d))[1] # 48
    <3>1. CASE b = <<>>
      <4>1. Len(b) = 0 /\ Value(10, b) = 0
        BY <3>1, ValueEmpty
      <4>2. s.num = N /\ D = s.length /\ D > 1
        <5>1. s.num = N /\ D = s.length /\ s.length \in 2 .. 10
          <6>1. Ten[s.length] \in Nat /\ 0 * Ten[s.length] = 0
            BY <2>1
          <6>2. Value(10, b) * Ten[s.length] = 0
            BY <4>1, <6>1
          <6>3. s.num = N
            BY <2>2, <2>7, <6>2
          <6> QED
            BY <1>2, <4>1, <6>3 DEF Written
        <5> QED
          BY <5>1
      <4>3. d >= 10
        BY <2>1, <2>3, <4>2
      <4>4. d \div 10 >= 1
        BY <2>3, <4>3
      <4>5. d \div 10 \in Nat
        BY <2>3
      <4> HIDE DEF d
      <4> QED
        BY <2>6, <3>1, <4>4, <4>5
    <3>2. CASE b # <<>>
      BY <2>6, <3>2 DEF Written
    <3> QED
      BY <3>1, <3>2
  <2> DEFINE c == b \o CharPair(d)
  <2> HIDE DEF t, d, b, r, c
  <2>10. /\ r \in Nat /\ l \in 0 .. 10 /\ c \in Seq(Digit) /\ r < Ten[l]
         /\ Len(c) + l = D /\ Value(10, c) * Ten[l] + r = N /\ c[1] # 48
    BY <2>1, <2>3, <2>5, <2>6, <2>8, <2>9 DEF t, c
  <2>11. Written([num |-> r, length |-> l, buff |-> c], N, D)
    BY <2>10, WrittenRecord
  <2> QED
    BY <1>2, <2>4, <2>11 DEF c
<1> QED
  BY <1>1, <1>2

LEMMA U32Digits ==
  ASSUME NEW num \in Nat, num < Ten[10]
  PROVE  /\ U32ToString(num) \in Seq(Digit)
         /\ Len(U32ToString(num)) = CountDigits(num)
         /\ Value(10, U32ToString(num)) = num
         /\ U32ToString(num)[1] = 48 => Len(U32ToString(num)) = 1
<1> DEFINE D == CountDigits(num)
           s0 == [num |-> num, length |-> D, buff |-> <<>>]
           s1 == Turn(s0)
           s2 == Turn(s1)
           s3 == Turn(s2)
           s4 == Turn(s3)
           s5 == Turn(s4)
<1>1. D \in 1 .. 10 /\ num < Ten[D] /\ (D > 1 => Ten[D - 1] <= num)
  BY CountDigitsLeast
<1> HIDE DEF D
<1>2. Written(s0, num, D)
  <2>1. Value(10, <<>>) * Ten[D] = 0
    <3>1. Value(10, <<>>) = 0
      BY ValueEmpty
    <3>2. Ten[D] \in Nat \ {0}
      BY <1>1, Tens
    <3> QED
      BY <3>1, <3>2
  <2>2. Len(<<>>) = 0 /\ <<>> \in Seq(Digit)
    BY EmptySeq
  <2> QED
    BY <1>1, <2>1, <2>2 DEF Written
<1>3. s0.length = D
  OBVIOUS
<1> HIDE DEF s0
<1>4. Written(s1, num, D) /\ s1.length = IF s0.length < 2 THEN s0.length ELSE s0.length - 2
  BY <1>1, <1>2, TurnWrites
<1> HIDE DEF s1
<1>5. Written(s2, num, D) /\ s2.length = IF s1.length < 2 THEN s1.length ELSE s1.length - 2
  BY <1>1, <1>4, TurnWrites
<1> HIDE DEF s2
<1>6. Written(s3, num, D) /\ s3.length = IF s2.length < 2 THEN s2.length ELSE s2.length - 2
  BY <1>1, <1>5, TurnWrites
<1> HIDE DEF s3
<1>7. Written(s4, num, D) /\ s4.length = IF s3.length < 2 THEN s3.length ELSE s3.length - 2
  BY <1>1, <1>6, TurnWrites
<1> HIDE DEF s4
<1>8. Written(s5, num, D) /\ s5.length = IF s4.length < 2 THEN s4.length ELSE s4.length - 2
  BY <1>1, <1>7, TurnWrites
<1>9. U32ToString(num) = LastDigit(s5)
  BY DEF U32ToString, D, s0, s1, s2, s3, s4
<1> HIDE DEF s5
<1>10. s5.length \in {0, 1}
  BY <1>1, <1>3, <1>4, <1>5, <1>6, <1>7, <1>8
<1>11. /\ s5.num \in Nat /\ s5.buff \in Seq(Digit) /\ s5.buff \in Seq(Nat)
       /\ Len(s5.buff) \in Nat /\ Len(s5.buff) + s5.length = D
       /\ Value(10, s5.buff) \in Nat
  BY <1>8, DigitSequences, ValueType, LenProperties DEF Written
<1>12. CASE s5.length = 0
  <2>1. LastDigit(s5) = s5.buff
    BY <1>12 DEF LastDigit
  <2>2. Value(10, s5.buff) * 1 + s5.num = num /\ s5.num < 1
    BY <1>8, <1>12, Tens DEF Written
  <2>3. Value(10, s5.buff) = num
    BY <1>11, <2>2
  <2>4. s5.buff # <<>> /\ s5.buff[1] # 48
    <3>1. Len(s5.buff) = D
      BY <1>11, <1>12
    <3>2. s5.buff # <<>>
      BY <1>1, <3>1, EmptySeq
    <3> QED
      BY <1>8, <3>2 DEF Written
  <2>5. Len(s5.buff) = D
    BY <1>11, <1>12
  <2> QED
    BY <1>9, <1>11, <2>1, <2>3, <2>4, <2>5 DEF D
<1>13. CASE s5.length = 1
  <2> DEFINE c == 48 + s5.num
             b == s5.buff
  <2>1. LastDigit(s5) = b \o <<c>>
    BY <1>13 DEF LastDigit
  <2>2. Value(10, b) * 10 + s5.num = num /\ s5.num < 10
    BY <1>8, <1>13, Tens DEF Written
  <2>3. s5.num \in 0 .. 9
    <3>1. s5.num \in Nat /\ s5.num < 10
      BY <1>11, <2>2
    <3> QED
      BY <3>1
  <2>4. c \in Digit /\ c \in Nat /\ DigitValue(c) = s5.num
    BY <2>3 DEF Digit, DigitValue
  <2> HIDE DEF c
  <2>5. Len(b) = D - 1 /\ Len(b) <= 9
    <3>1. \A n \in Nat : \A l : l = 1 /\ n + l = D => n = D - 1 /\ n <= 9
      BY <1>1
    <3> QED
      BY <1>11, <1>13, <3>1
  <2>6. b \o <<c>> = Append(b, c) /\ b \o <<c>> \in Seq(Digit) /\ Len(b \o <<c>>) = Len(b) + 1
        /\ (b # <<>> => (b \o <<c>>)[1] = b[1]) /\ (b = <<>> => Len(b) = 0)
    BY <1>11, <2>4
  <2>7. Value(10, Append(b, c)) = DigitValue(c) + 10 * Value(10, b)
    BY <1>11, <2>4, <2>5, ValueAppend
  <2>8. Value(10, b \o <<c>>) = num
    <3> DEFINE v == Value(10, b)
    <3>1. v \in Nat /\ v * 10 + s5.num = num /\ Value(10, b \o <<c>>) = s5.num + 10 * v
      BY <1>11, <2>2, <2>4, <2>6, <2>7
    <3> HIDE DEF v
    <3> QED
      BY <1>11, <3>1
  <2>9. Len(b \o <<c>>) = D
    <3>1. \A n : n = D - 1 => n + 1 = D
      BY <1>1
    <3> QED
      BY <2>5, <2>6, <3>1
  <2>10. (b \o <<c>>)[1] = 48 => D = 1
    <3>1. b # <<>> => (b \o <<c>>)[1] # 48
      BY <1>8, <2>6 DEF Written
    <3>2. b = <<>> => D = 1
      BY <1>1, <2>5, <2>6
    <3> QED
      BY <3>1, <3>2
  <2> QED
    BY <1>9, <2>1, <2>6, <2>8, <2>9, <2>10 DEF D
<1> QED
  BY <1>10, <1>12, <1>13

(* A number below 10 ^ 10 is written in full and without leading zeros.    *)
LEMMA U32Text ==
  ASSUME NEW num \in Nat, num < Ten[10]
  PROVE  /\ IsDecimal(U32ToString(num), num)
         /\ U32ToString(num) \in Seq(Digit) /\ U32ToString(num)[1] \in Digit
<1> DEFINE b == U32ToString(num)
<1>1. b \in Seq(Digit) /\ Len(b) \in 1 .. 10 /\ Value(10, b) = num /\ (b[1] = 48 => Len(b) = 1)
  BY U32Digits, CountDigitsLeast
<1> HIDE DEF b
<1>2. \A i \in 1 .. Len(b) : b[i] \in Digit
  BY <1>1, ElementOfSeq
<1>3. \A c \in Digit : DigitValue(c) < 10
  BY DEF Digit, DigitValue
<1>4. ReadNumber(10, b) = num
  BY <1>1, <1>2, <1>3, Zenon DEF ReadNumber
<1>5. b[1] \in Digit
  BY <1>1, <1>2
<1> QED
  BY <1>1, <1>4, <1>5 DEF IsDecimal, b

-----------------------------------------------------------------------------
(* Arguments narrowed to a size, and the sign of those that have one.      *)

LEMMA ByteSize == 2 ^ 8 = 256 /\ 2 ^ 7 = 128
  BY SMT
LEMMA HalfSize == 2 ^ 16 = 65536 /\ 2 ^ 15 = 32768
  BY SMT

LEMMA SizePowers ==
  ASSUME NEW z \in {"BYTE", "HALF", "WORD"}
  PROVE  /\ 2 ^ Bits[z] \in Nat /\ 2 ^ (Bits[z] - 1) \in Nat
         /\ 2 ^ Bits[z] = 2 * 2 ^ (Bits[z] - 1)
         /\ 2 ^ (Bits[z] - 1) >= 128 /\ 2 ^ Bits[z] <= 2 ^ WordBits
<1>1. CASE z = "BYTE"
  <2>1. Bits[z] = 8 /\ Bits[z] - 1 = 7
    BY <1>1 DEF Bits
  <2> QED
    BY <2>1, ByteSize, Words DEF WordSize
<1>2. CASE z = "HALF"
  <2>1. Bits[z] = 16 /\ Bits[z] - 1 = 15
    BY <1>2 DEF Bits
  <2> QED
    BY <2>1, HalfSize, Words DEF WordSize
<1>3. CASE z = "WORD"
  <2>1. Bits[z] = WordBits
    BY <1>3 DEF Bits
  <2> QED
    BY <2>1, Words DEF WordSize
<1> QED
  BY <1>1, <1>2, <1>3

LEMMA DivMod ==
  ASSUME NEW n \in Nat, NEW m \in Nat \ {0}
  PROVE  n = m * (n \div m) + (n % m) /\ n % m \in 0 .. m - 1 /\ n \div m \in Nat
  OBVIOUS

LEMMA MultipleLeavesNothing == ASSUME NEW m \in Nat \ {0}, NEW k \in Nat PROVE (m * k) % m = 0
  OBVIOUS

(* What a text of a signed number says of the number.                      *)
SignedText(t, z, a) ==
  LET minus == t[1] = 45
      digits == IF minus THEN Tail(t) ELSE t
      num == ReadNumber(10, digits)
  IN  /\ IsDecimal(digits, num)
      /\ (IF minus THEN a + num ELSE a - num) % 2 ^ Bits[z] = 0
      /\ num \in (IF minus THEN 1 ELSE 0) .. (2 ^ (Bits[z] - 1) - (IF minus THEN 0 ELSE 1))

LEMMA WithoutSign ==
  ASSUME NEW t, NEW z, NEW a, t[1] # 45, IsDecimal(t, ReadNumber(10, t)),
         (a - ReadNumber(10, t)) % 2 ^ Bits[z] = 0,
         ReadNumber(10, t) \in 0 .. (2 ^ (Bits[z] - 1) - 1)
  PROVE  SignedText(t, z, a)
  BY Zenon DEF SignedText

LEMMA WithSign ==
  ASSUME NEW t, NEW z, NEW a, NEW b, t[1] = 45, Tail(t) = b,
         2 ^ (Bits[z] - 1) \in Nat, IsDecimal(b, ReadNumber(10, b)),
         (a + ReadNumber(10, b)) % 2 ^ Bits[z] = 0,
         ReadNumber(10, b) \in 1 .. 2 ^ (Bits[z] - 1)
  PROVE  SignedText(t, z, a)
<1>1. 2 ^ (Bits[z] - 1) - 0 = 2 ^ (Bits[z] - 1)
  OBVIOUS
<1> QED
  BY <1>1, Zenon DEF SignedText

LEMMA SignedIsRead ==
  ASSUME NEW z \in {"BYTE", "HALF", "WORD"}, NEW a \in 0 .. 2 ^ WordBits - 1
  PROVE  SignedText(I32ToString(SignExtend(z, a)), z, a)
<1> DEFINE P == 2 ^ Bits[z]
           H == 2 ^ (Bits[z] - 1)
           W == 2 ^ WordBits
           u == a % P
           q == a \div P
           e == SignExtend(z, a)
           t == I32ToString(e)
<1>1. P \in Nat \ {0} /\ H \in Nat /\ P = 2 * H /\ H >= 128 /\ P <= W /\ W \in Nat
  BY SizePowers, Words DEF WordSize
<1>2. W < Ten[10] /\ Ten[10] \in Nat
  BY WordsHaveTenDigits, Tens
<1>3. e = IF u >= H THEN u - P ELSE u
  BY DEF SignExtend
<1>4. t = IF e < 0 THEN <<45>> \o U32ToString((0 - e) % W) ELSE U32ToString(e)
  BY DEF I32ToString
<1>5. a = P * q + u /\ u \in 0 .. P - 1 /\ q \in Nat
  <2>1. a \in Nat
    BY <1>1
  <2> HIDE DEF P
  <2> QED
    BY <1>1, <2>1, DivMod
<1> HIDE DEF P, H, W, u, q, e, t
<1>6. CASE u >= H
  <2> DEFINE n == P - u
             b == U32ToString(n)
  <2>1. n \in 1 .. H /\ n < W /\ n \in Nat /\ e = 0 - n /\ e < 0
    BY <1>1, <1>3, <1>5, <1>6
  <2> HIDE DEF n
  <2>2. (0 - e) % W = n
    BY <1>1, <2>1
  <2>3. t = <<45>> \o b
    BY <1>4, <2>1, <2>2
  <2>4. IsDecimal(b, n) /\ b \in Seq(Digit)
    BY <1>1, <1>2, <2>1, U32Text
  <2> HIDE DEF b
  <2>5. b \in Seq(Nat)
    BY <2>4, DigitSequences
  <2>6. t[1] = 45 /\ Tail(t) = b
    BY <2>3, <2>5, SMTT(30)
  <2>7. ReadNumber(10, b) = n
    BY <2>4 DEF IsDecimal
  <2>8. (a + n) % P = 0
    <3>1. a + n = P * (q + 1)
      BY <1>1, <1>5, <2>1 DEF n
    <3>2. q + 1 \in Nat
      BY <1>5
    <3> QED
      BY <1>1, <3>1, <3>2, MultipleLeavesNothing
  <2>9. IsDecimal(b, ReadNumber(10, b))
    BY <2>4, <2>7
  <2>10. ReadNumber(10, b) \in 1 .. H /\ (a + ReadNumber(10, b)) % P = 0
    BY <2>1, <2>7, <2>8
  <2>11. SignedText(t, z, a)
    BY <1>1, <2>6, <2>9, <2>10, WithSign DEF P, H
  <2> QED
    BY <2>11 DEF t, e
<1>7. CASE ~(u >= H)
  <2>1. e = u /\ u \in 0 .. H - 1 /\ u \in Nat /\ u < Ten[10] /\ ~(e < 0)
    BY <1>1, <1>2, <1>3, <1>5, <1>7
  <2>2. t = U32ToString(u)
    BY <1>4, <2>1
  <2>3. IsDecimal(t, u) /\ t[1] \in Digit
    BY <2>1, <2>2, U32Text
  <2>4. t[1] # 45
    BY <2>3 DEF Digit
  <2>5. ReadNumber(10, t) = u
    BY <2>3 DEF IsDecimal
  <2>6. (a - u) % P = 0
    <3>1. a - u = P * q
      BY <1>1, <1>5
    <3> QED
      BY <1>1, <1>5, <3>1, MultipleLeavesNothing
  <2>7. IsDecimal(t, ReadNumber(10, t))
    BY <2>3, <2>5
  <2> QED
    <3>1. ReadNumber(10, t) \in 0 .. (H - 1)
      BY <2>1, <2>5
    <3>2. (a - ReadNumber(10, t)) % P = 0
      BY <2>5, <2>6
    <3>3. SignedText(t, z, a)
      BY <2>4, <2>7, <3>1, <3>2, WithoutSign DEF P, H
    <3> QED
      BY <3>3 DEF t, e
<1> QED
  BY <1>6, <1>7

-----------------------------------------------------------------------------
(* Hexadecimal texts.                                                      *)

(* Digits and their character codes.                                       *)
Nibble == 0 .. 15
Code == 48 .. 102

(* The character of a digit.                                               *)
Hexit(p) == IF p < 10 THEN p + 48 ELSE p + 87
Hexits == {Hexit(p) : p \in Nibble}

LEMMA HexitValue ==
  ASSUME NEW p \in Nibble
  PROVE  Hexit(p) \in Code /\ Hexit(p) \in Hexits /\ DigitValue(Hexit(p)) = p
  BY SMT DEF Hexit, Hexits, DigitValue, Nibble, Code

LEMMA HexitsAreDigits == \A c \in Hexits : c \in Nat /\ DigitValue(c) < 16
<1> SUFFICES ASSUME NEW c \in Hexits PROVE c \in Nat /\ DigitValue(c) < 16
  OBVIOUS
<1>1. PICK p \in Nibble : c = Hexit(p)
  BY DEF Hexits
<1> QED
  BY <1>1, HexitValue DEF Nibble, Code

(* The carry of 6 out of a digit.                                          *)
Above9(p) == IF p < 10 THEN 0 ELSE 1

LEMMA HalvesOfByte ==
  ASSUME NEW p \in Nibble, NEW q \in Nibble PROVE Halves(16 * p + q) = 256 * q + p
  BY SMT DEF Halves, Nibble

(* The carries of two digits, both of a byte.                              *)
Carries(p, q) == 256 * (q + 6) + p + 6

LEMMA CarriesKept ==
  ASSUME NEW p \in Nibble, NEW q \in Nibble
  PROVE  /\ Carries(p, q) \in Nat /\ Carries(p, q) = 256 * (q + 6) + p + 6
         /\ Carries(p, q) \div 16 \in Nat /\ Carries(p, q) \div 16 < 4096
         /\ LowBits(Carries(p, q) \div 16) = Above9(p) + 256 * Above9(q)
<1>1. \A c \in Nat : c = 256 * (q + 6) + p + 6
        => /\ c \div 16 \in Nat /\ c \div 16 < 4096
           /\ LowBits(c \div 16) = Above9(p) + 256 * Above9(q)
  BY SMT DEF LowBits, Above9, Nibble
<1>2. Carries(p, q) \in Nat /\ Carries(p, q) = 256 * (q + 6) + p + 6
  BY SMT DEF Carries, Nibble
<1> QED
  BY <1>1, <1>2

LEMMA Spread16Hexits ==
  ASSUME NEW p \in Nibble, NEW q \in Nibble
  PROVE  Spread16(16 * p + q) = Hexit(p) + 256 * Hexit(q)
<1> DEFINE y == 256 * q + p
           z == (y + \h0606) \div 16
<1>1. y + \h0606 = Carries(p, q)
  BY SMT DEF Carries, Nibble
<1>2. LowBits(z) = Above9(p) + 256 * Above9(q)
  BY <1>1, CarriesKept
<1>3. Spread16(16 * p + q) = y + \h3030 + LowBits(z) * 39
  BY HalvesOfByte DEF Spread16
<1>4. y + \h3030 + (Above9(p) + 256 * Above9(q)) * 39 = Hexit(p) + 256 * Hexit(q)
  BY SMT DEF Above9, Hexit, Nibble
<1> QED
  BY <1>2, <1>3, <1>4

(* The upper half of a word does not reach the low bits of its lower half. *)
LEMMA LowBitsOfHalf ==
  ASSUME NEW u \in Nat, NEW l \in Nat, l < 4096
  PROVE  LowBits(u * 4096 + l) = LowBits(l) /\ (u * 4096 + l) \div 65536 = u \div 16
<1>1. (u * 4096 + l) % 2 = l % 2
  BY SMT DEF Nibble
<1>2. (u * 4096 + l) \div 256 = 16 * u + l \div 256
  BY SMT DEF Nibble
<1>3. (16 * u + l \div 256) % 2 = (l \div 256) % 2
  <2>1. l \div 256 \in Nat
    BY SMT DEF Nibble
  <2>2. \A n \in Nat : (16 * u + n) % 2 = n % 2
    BY SMT DEF Nibble
  <2> QED
    BY <2>1, <2>2
<1>4. (u * 4096 + l) \div 65536 = u \div 16
  BY SMT DEF Nibble
<1> QED
  BY <1>1, <1>2, <1>3, <1>4 DEF LowBits

LEMMA Spread32Sum ==
  ASSUME NEW num, NEW y, Halves(num % 256) * 65536 + Halves(num \div 256) = y
  PROVE  LET z == (y + \h06060606) \div 16
         IN  Spread32(num) =
               y + \h30303030 + (LowBits(z) + LowBits(z \div 65536) * 65536) * 39
  BY SMT DEF Spread32, Nibble

LEMMA Spread32Hexits ==
  ASSUME NEW p \in Nibble, NEW q \in Nibble, NEW r \in Nibble, NEW s \in Nibble
  PROVE  Spread32(256 * (16 * p + q) + (16 * r + s)) =
           Hexit(p) + 256 * Hexit(q) + 65536 * Hexit(r) + 16777216 * Hexit(s)
<1> DEFINE num == 256 * (16 * p + q) + (16 * r + s)
           y == (256 * s + r) * 65536 + (256 * q + p)
           u == Carries(r, s)
           l == Carries(p, q) \div 16
           z == (y + \h06060606) \div 16
<1>1. num \div 256 = 16 * p + q /\ num % 256 = 16 * r + s
  BY SMT DEF Nibble
<1>2. u \in Nat /\ l \in Nat /\ l < 4096
  BY CarriesKept
<1>3. z = u * 4096 + l
  BY SMT DEF Carries, Nibble
<1>4. LowBits(l) = Above9(p) + 256 * Above9(q)
  BY CarriesKept
<1>5. LowBits(u \div 16) = Above9(r) + 256 * Above9(s)
  BY CarriesKept
<1>6. Spread32(num) = y + \h30303030 + (LowBits(z) + LowBits(z \div 65536) * 65536) * 39
  <2>1. Halves(16 * r + s) = 256 * s + r /\ Halves(16 * p + q) = 256 * q + p
    BY HalvesOfByte
  <2> HIDE DEF num
  <2>2. Halves(num % 256) * 65536 + Halves(num \div 256) = y
    BY <1>1, <2>1
  <2> HIDE DEF y
  <2> QED
    BY <2>2, Spread32Sum DEF z
<1>7. /\ LowBits(z) = Above9(p) + 256 * Above9(q)
      /\ LowBits(z \div 65536) = Above9(r) + 256 * Above9(s)
  <2> HIDE DEF u, l
  <2>1. LowBits(u * 4096 + l) = LowBits(l) /\ (u * 4096 + l) \div 65536 = u \div 16
    BY <1>2, LowBitsOfHalf
  <2> HIDE DEF z
  <2> QED
    BY <1>3, <1>4, <1>5, <2>1
<1>8. y + \h30303030 + ((Above9(p) + 256 * Above9(q))
                        + (Above9(r) + 256 * Above9(s)) * 65536) * 39
        = Hexit(p) + 256 * Hexit(q) + 65536 * Hexit(r) + 16777216 * Hexit(s)
  BY SMT DEF Above9, Hexit, Nibble
<1> HIDE DEF y, z
<1> QED
  BY <1>6, <1>7, <1>8, SMT DEF Nibble

LEMMA ByteOf ==
  ASSUME NEW n
  PROVE  /\ (n \div 256 ^ (1 - 1)) % 256 = (n \div 1) % 256
         /\ (n \div 256 ^ (2 - 1)) % 256 = (n \div 256) % 256
         /\ (n \div 256 ^ (3 - 1)) % 256 = (n \div 65536) % 256
         /\ (n \div 256 ^ (4 - 1)) % 256 = (n \div 16777216) % 256
<1>1. 256 ^ 0 = 1 /\ 256 ^ 1 = 256 /\ 256 ^ 2 = 65536 /\ 256 ^ 3 = 16777216
  BY SMT DEF Code
<1>2. 1 - 1 = 0 /\ 2 - 1 = 1 /\ 3 - 1 = 2 /\ 4 - 1 = 3
  BY SMT DEF Code
<1> QED
  BY <1>1, <1>2, SMT DEF Code

LEMMA CopyTwo ==
  ASSUME NEW b1 \in Code, NEW b2 \in Code
  PROVE  CopyBytes(2, b1 + 256 * b2) = <<b1, b2>>
<1> DEFINE n == b1 + 256 * b2
<1>1. (n \div 1) % 256 = b1 /\ (n \div 256) % 256 = b2
  BY SMT DEF Code
<1> HIDE DEF n
<1>2. (n \div 256 ^ (1 - 1)) % 256 = b1 /\ (n \div 256 ^ (2 - 1)) % 256 = b2
  BY <1>1, ByteOf, SMT DEF Code
<1>3. CopyBytes(2, n) = [i \in 1 .. 2 |-> (n \div 256 ^ (i - 1)) % 256]
  BY DEF CopyBytes
<1>4. \A i \in 1 .. 2 : (n \div 256 ^ (i - 1)) % 256 = <<b1, b2>>[i]
  <2> TAKE i \in 1 .. 2
  <2>1. i = 1 => (n \div 256 ^ (i - 1)) % 256 = b1
    BY <1>2, Zenon
  <2>2. i = 2 => (n \div 256 ^ (i - 1)) % 256 = b2
    BY <1>2, Zenon
  <2>5. (i = 1 => <<b1, b2>>[i] = b1) /\ (i = 2 => <<b1, b2>>[i] = b2)
    OBVIOUS
  <2>6. i = 1 \/ i = 2
    OBVIOUS
  <2> QED
    BY <2>1, <2>2, <2>5, <2>6, Zenon
<1>5. CopyBytes(2, n) = [i \in 1 .. 2 |-> <<b1, b2>>[i]]
  BY <1>3, <1>4
<1>6. [i \in 1 .. 2 |-> <<b1, b2>>[i]] = <<b1, b2>>
  OBVIOUS
<1> QED
  BY <1>5, <1>6 DEF n

LEMMA CopyFour ==
  ASSUME NEW b1 \in Code, NEW b2 \in Code, NEW b3 \in Code, NEW b4 \in Code
  PROVE  CopyBytes(4, b1 + 256 * b2 + 65536 * b3 + 16777216 * b4) = <<b1, b2, b3, b4>>
<1> DEFINE n == b1 + 256 * b2 + 65536 * b3 + 16777216 * b4
<1>1. /\ (n \div 1) % 256 = b1 /\ (n \div 256) % 256 = b2
      /\ (n \div 65536) % 256 = b3 /\ (n \div 16777216) % 256 = b4
  <2>1. (n \div 1) % 256 = b1
    BY SMT DEF Code
  <2>2. n \div 256 = b2 + 256 * b3 + 65536 * b4
    BY SMT DEF Code
  <2>3. n \div 65536 = b3 + 256 * b4
    BY SMT DEF Code
  <2>4. n \div 16777216 = b4
    BY SMT DEF Code
  <2>5. (b2 + 256 * b3 + 65536 * b4) % 256 = b2 /\ (b3 + 256 * b4) % 256 = b3 /\ b4 % 256 = b4
    BY SMT DEF Code
  <2> HIDE DEF n
  <2> QED
    BY <2>1, <2>2, <2>3, <2>4, <2>5, SMT DEF Code
<1> HIDE DEF n
<1>2. /\ (n \div 256 ^ (1 - 1)) % 256 = b1 /\ (n \div 256 ^ (2 - 1)) % 256 = b2
      /\ (n \div 256 ^ (3 - 1)) % 256 = b3 /\ (n \div 256 ^ (4 - 1)) % 256 = b4
  BY <1>1, ByteOf, SMT DEF Code
<1>3. CopyBytes(4, n) = [i \in 1 .. 4 |-> (n \div 256 ^ (i - 1)) % 256]
  BY DEF CopyBytes
<1>4. \A i \in 1 .. 4 : (n \div 256 ^ (i - 1)) % 256 = <<b1, b2, b3, b4>>[i]
  <2> TAKE i \in 1 .. 4
  <2>1. i = 1 => (n \div 256 ^ (i - 1)) % 256 = b1
    BY <1>2, Zenon
  <2>2. i = 2 => (n \div 256 ^ (i - 1)) % 256 = b2
    BY <1>2, Zenon
  <2>3. i = 3 => (n \div 256 ^ (i - 1)) % 256 = b3
    BY <1>2, Zenon
  <2>4. i = 4 => (n \div 256 ^ (i - 1)) % 256 = b4
    BY <1>2, Zenon
  <2>5. (i = 1 => <<b1, b2, b3, b4>>[i] = b1) /\ (i = 2 => <<b1, b2, b3, b4>>[i] = b2)
        /\ (i = 3 => <<b1, b2, b3, b4>>[i] = b3) /\ (i = 4 => <<b1, b2, b3, b4>>[i] = b4)
    OBVIOUS
  <2>6. i = 1 \/ i = 2 \/ i = 3 \/ i = 4
    OBVIOUS
  <2> QED
    BY <2>1, <2>2, <2>3, <2>4, <2>5, <2>6, ZenonT(30)
<1>5. CopyBytes(4, n) = [i \in 1 .. 4 |-> <<b1, b2, b3, b4>>[i]]
  BY <1>3, <1>4
<1>6. [i \in 1 .. 4 |-> <<b1, b2, b3, b4>>[i]] = <<b1, b2, b3, b4>>
  OBVIOUS
<1> QED
  BY <1>5, <1>6, SMT DEF n, Code

LEMMA HexitSequences == \A b \in Seq(Hexits) : b \in Seq(Nat)
<1>1. Hexits \subseteq Nat
  BY HexitsAreDigits
<1> QED
  BY <1>1, SeqMonotonic

(* A text of n digits for v.                                               *)
HexText(b, n, v) == b \in Seq(Hexits) /\ Len(b) = n /\ Value(16, b) = v

LEMMA HexEmpty == HexText(<<>>, 0, 0)
  BY EmptySeq, ValueEmpty DEF HexText

LEMMA HexAppended ==
  ASSUME NEW n \in Nat, n <= 9, NEW v \in Nat, NEW b, HexText(b, n, v), NEW p \in Nibble
  PROVE  HexText(Append(b, Hexit(p)), n + 1, p + 16 * v)
<1>1. Hexit(p) \in Hexits /\ DigitValue(Hexit(p)) = p /\ Hexit(p) \in Nat
  BY HexitValue, HexitsAreDigits
<1>2. b \in Seq(Hexits) /\ b \in Seq(Nat) /\ Len(b) = n /\ Value(16, b) = v
  BY HexitSequences DEF HexText
<1>3. Append(b, Hexit(p)) \in Seq(Hexits) /\ Len(Append(b, Hexit(p))) = n + 1
  BY <1>1, <1>2
<1>4. Value(16, Append(b, Hexit(p))) = p + 16 * v
  BY <1>1, <1>2, ValueAppend
<1> QED
  BY <1>3, <1>4 DEF HexText

LEMMA HexPair ==
  ASSUME NEW n \in Nat, n <= 8, NEW v \in Nat, NEW b, HexText(b, n, v),
         NEW p \in Nibble, NEW q \in Nibble
  PROVE  HexText(b \o <<Hexit(p), Hexit(q)>>, n + 2, 256 * v + (16 * p + q))
<1> DEFINE b1 == Append(b, Hexit(p))
           b2 == Append(b1, Hexit(q))
           v1 == p + 16 * v
           v2 == q + 16 * v1
<1>1. HexText(b1, n + 1, v1)
  BY HexAppended
<1>2. v1 \in Nat /\ n + 1 \in Nat /\ n + 1 <= 9 /\ (n + 1) + 1 = n + 2
      /\ v2 = 256 * v + (16 * p + q)
  BY DEF Nibble
<1> HIDE DEF b1, v1
<1>3. HexText(b2, (n + 1) + 1, v2)
  BY <1>1, <1>2, HexAppended
<1> HIDE DEF v2
<1>4. HexText(b2, n + 2, 256 * v + (16 * p + q))
  BY <1>2, <1>3
<1>5. b \o <<Hexit(p), Hexit(q)>> = b2
  BY HexitValue DEF b1, HexText
<1> QED
  BY <1>4, <1>5

LEMMA HexFour ==
  ASSUME NEW n \in Nat, n <= 6, NEW v \in Nat, NEW b, HexText(b, n, v),
         NEW p \in Nibble, NEW q \in Nibble, NEW r \in Nibble, NEW s \in Nibble
  PROVE  HexText(b \o <<Hexit(p), Hexit(q), Hexit(r), Hexit(s)>>, n + 4,
                 65536 * v + (256 * (16 * p + q) + (16 * r + s)))
<1> DEFINE b1 == b \o <<Hexit(p), Hexit(q)>>
           v1 == 256 * v + (16 * p + q)
           b2 == b1 \o <<Hexit(r), Hexit(s)>>
           v2 == 256 * v1 + (16 * r + s)
<1>1. HexText(b1, n + 2, v1)
  BY HexPair
<1>2. v1 \in Nat /\ n + 2 \in Nat /\ n + 2 <= 8 /\ (n + 2) + 2 = n + 4
      /\ v2 = 65536 * v + (256 * (16 * p + q) + (16 * r + s))
  BY SMT DEF Nibble
<1>3. b2 = b \o <<Hexit(p), Hexit(q), Hexit(r), Hexit(s)>>
  BY HexitValue, SMTT(30) DEF HexText
<1> HIDE DEF b1, v1
<1>4. HexText(b2, (n + 2) + 2, v2)
  BY <1>1, <1>2, HexPair
<1> HIDE DEF v2, b2
<1> QED
  BY <1>2, <1>3, <1>4

(* The two digits of a byte.                                               *)
LEMMA Nibbles ==
  ASSUME NEW n \in Nat, n < 256
  PROVE  \E p \in Nibble, q \in Nibble : n = 16 * p + q
<1>1. n \div 16 \in Nibble /\ n % 16 \in Nibble /\ n = 16 * (n \div 16) + (n % 16)
  BY SMT DEF Nibble
<1> QED
  BY <1>1

LEMMA FirstPair ==
  ASSUME NEW p \in Nibble, NEW q \in Nibble
  PROVE  HexText(<<Hexit(p), Hexit(q)>>, 2, 16 * p + q)
<1>1. HexText(<<>> \o <<Hexit(p), Hexit(q)>>, 2, 16 * p + q)
  <2>1. \A n \in Nat, u \in Nat : HexText(<<>>, n, u) /\ n <= 8 =>
          HexText(<<>> \o <<Hexit(p), Hexit(q)>>, n + 2, 256 * u + (16 * p + q))
    BY HexPair, ZenonT(30)
  <2>2. \A n \in Nat, u \in Nat : n = 0 /\ u = 0 =>
          HexText(<<>>, n, u) /\ n <= 8 /\ n + 2 = 2 /\ 256 * u + (16 * p + q) = 16 * p + q
    BY HexEmpty DEF Nibble
  <2>3. \A n \in Nat, u \in Nat : n = 0 /\ u = 0 =>
          HexText(<<>> \o <<Hexit(p), Hexit(q)>>, 2, 16 * p + q)
    BY <2>1, <2>2
  <2> QED
    BY <2>3
<1>2. <<>> \o <<Hexit(p), Hexit(q)>> = <<Hexit(p), Hexit(q)>>
  BY HexitValue
<1> QED
  BY <1>1, <1>2

LEMMA ByteText ==
  ASSUME NEW v \in Nat, v < 256 PROVE HexText(CopyBytes(2, Spread16(v)), 2, v)
<1>1. PICK p \in Nibble, q \in Nibble : v = 16 * p + q
  BY Nibbles
<1>2. Hexit(p) \in Code /\ Hexit(q) \in Code
  BY HexitValue
<1>3. CopyBytes(2, Spread16(v)) = <<Hexit(p), Hexit(q)>>
  BY <1>1, <1>2, Spread16Hexits, CopyTwo
<1> QED
  BY <1>1, <1>3, FirstPair

(* The four digits of half a word.                                         *)
FourDigits(m, p, q, r, s) ==
  /\ m = 256 * (16 * p + q) + (16 * r + s)
  /\ CopyBytes(4, Spread32(m)) = <<Hexit(p), Hexit(q), Hexit(r), Hexit(s)>>

LEMMA HalfDigits ==
  ASSUME NEW m \in Nat, m < 65536
  PROVE  \E p \in Nibble, q \in Nibble, r \in Nibble, s \in Nibble : FourDigits(m, p, q, r, s)
<1>1. PICK g \in Nat, h \in Nat : m = 256 * g + h /\ g < 256 /\ h < 256
  <2>1. m = 256 * (m \div 256) + (m % 256) /\ m \div 256 \in Nat /\ m % 256 \in Nat
        /\ m \div 256 < 256 /\ m % 256 < 256
    BY SMT
  <2> QED
    BY <2>1
<1>2. PICK p \in Nibble, q \in Nibble : g = 16 * p + q
  BY <1>1, Nibbles
<1>3. PICK r \in Nibble, s \in Nibble : h = 16 * r + s
  BY <1>1, Nibbles
<1>4. m = 256 * (16 * p + q) + (16 * r + s)
  BY <1>1, <1>2, <1>3
<1>5. Spread32(m) = Hexit(p) + 256 * Hexit(q) + 65536 * Hexit(r) + 16777216 * Hexit(s)
  BY <1>4, Spread32Hexits
<1>6. Hexit(p) \in Code /\ Hexit(q) \in Code /\ Hexit(r) \in Code /\ Hexit(s) \in Code
  BY HexitValue
<1>7. CopyBytes(4, Spread32(m)) = <<Hexit(p), Hexit(q), Hexit(r), Hexit(s)>>
  BY <1>5, <1>6, CopyFour, SMTT(30)
<1>8. FourDigits(m, p, q, r, s)
  BY <1>4, <1>7 DEF FourDigits
<1> QED
  BY <1>8

LEMMA HalfText ==
  ASSUME NEW m \in Nat, m < 65536, NEW n \in Nat, n <= 6, NEW v \in Nat, NEW b, HexText(b, n, v),
         NEW k, k = n + 4, NEW w, w = 65536 * v + m
  PROVE  HexText(b \o CopyBytes(4, Spread32(m)), k, w)
<1>1. PICK p \in Nibble, q \in Nibble, r \in Nibble, s \in Nibble : FourDigits(m, p, q, r, s)
  BY HalfDigits
<1>2. HexText(b \o <<Hexit(p), Hexit(q), Hexit(r), Hexit(s)>>, n + 4,
              65536 * v + (256 * (16 * p + q) + (16 * r + s)))
  BY HexFour
<1> QED
  BY <1>1, <1>2 DEF FourDigits

LEMMA HexNumber ==
  ASSUME NEW h, NEW n \in Nat, n >= 1, n <= 10, NEW v, HexText(h, n, v)
  PROVE  ReadNumber(16, h) = v
<1>1. h \in Seq(Hexits) /\ Len(h) \in 1 .. 10 /\ Value(16, h) = v
  BY DEF HexText
<1>2. \A i \in 1 .. Len(h) : DigitValue(h[i]) < 16
  BY <1>1, ElementOfSeq, HexitsAreDigits
<1> QED
  BY <1>1, <1>2, Zenon DEF ReadNumber

LEMMA PairAsAppends ==
  ASSUME NEW S, NEW b \in Seq(S), NEW x \in S, NEW y \in S
  PROVE  b \o <<x, y>> = Append(Append(b, x), y)
  OBVIOUS

LEMMA TwoPairs ==
  ASSUME NEW S, NEW x \in S, NEW y \in S, NEW v \in S, NEW w \in S
  PROVE  <<x, y>> \o <<v, w>> = <<x, y, v, w>>
<1> DEFINE b == <<x, y>>
<1>1. b \in Seq(S) /\ <<x, y, v, w>> = Append(Append(b, v), w)
  OBVIOUS
<1> HIDE DEF b
<1>2. b \o <<v, w>> = Append(Append(b, v), w)
  BY <1>1, PairAsAppends
<1> QED
  BY <1>1, <1>2, Zenon DEF b

(* The digits of one half of a word.                                       *)
LEMMA FirstHalfText ==
  ASSUME NEW m \in Nat, m < 65536 PROVE HexText(CopyBytes(4, Spread32(m)), 4, m)
<1>1. PICK p \in Nibble, q \in Nibble, r \in Nibble, s \in Nibble : FourDigits(m, p, q, r, s)
  BY HalfDigits
<1> DEFINE v == 16 * p + q
           b == <<Hexit(p), Hexit(q)>>
<1>2. HexText(b, 2, v)
  BY FirstPair
<1>3. b \o <<Hexit(r), Hexit(s)>> = <<Hexit(p), Hexit(q), Hexit(r), Hexit(s)>>
  BY HexitValue, TwoPairs
<1>4. v \in Nat
  BY DEF Nibble
<1>5. m = 256 * v + (16 * r + s)
  BY <1>1 DEF FourDigits
<1> HIDE DEF v, b
<1>6. \A n \in Nat : n = 2 => HexText(b \o <<Hexit(r), Hexit(s)>>, 4, 256 * v + (16 * r + s))
  <2> TAKE n \in Nat
  <2> HAVE n = 2
  <2>1. HexText(b, n, v) /\ n <= 8
    BY <1>2
  <2>2. HexText(b \o <<Hexit(r), Hexit(s)>>, n + 2, 256 * v + (16 * r + s))
    BY <1>4, <2>1, HexPair
  <2>3. n + 2 = 4
    OBVIOUS
  <2> QED
    BY <2>2, <2>3
<1> QED
  <2> DEFINE t == b \o <<Hexit(r), Hexit(s)>>
             c == CopyBytes(4, Spread32(m))
  <2>1. HexText(t, 4, m)
    BY <1>5, <1>6
  <2>2. t = c
    BY <1>1, <1>3 DEF FourDigits, b
  <2> HIDE DEF t, c
  <2>3. HexText(c, 4, m)
    BY <2>1, <2>2
  <2> QED
    BY <2>3 DEF c

LEMMA Prefixed ==
  ASSUME NEW h \in Seq(Nat), NEW t, t = <<48, 120>> \o h
  PROVE  SubSeq(t, 1, 2) = <<48, 120>> /\ Len(t) = 2 + Len(h) /\ SubSeq(t, 3, Len(t)) = h
<1> DEFINE x == <<48, 120>>
<1>1. x \in Seq(Nat) /\ Len(x) = 2 /\ x[1] = 48 /\ x[2] = 120
  OBVIOUS
<1> HIDE DEF x
<1>2. /\ t \in Seq(Nat) /\ Len(t) = 2 + Len(h) /\ Len(h) \in Nat
      /\ \A i \in 1 .. 2 + Len(h) : t[i] = IF i <= 2 THEN x[i] ELSE h[i - 2]
  BY <1>1, ConcatProperties, LenProperties DEF x
<1>3. SubSeq(t, 1, 2) = x
  <2>1. \A i \in 1 .. 2 : t[i] \in Nat /\ t[i] = x[i]
    BY <1>1, <1>2
  <2>2. /\ SubSeq(t, 1, 2) \in Seq(Nat) /\ Len(SubSeq(t, 1, 2)) = 2
        /\ \A i \in 1 .. 2 : SubSeq(t, 1, 2)[i] = t[i]
    BY <2>1, SubSeqProperties
  <2> QED
    BY <1>1, <2>1, <2>2, SeqEqual
<1>4. SubSeq(t, 3, Len(t)) = h
  <2>1. \A i \in 3 .. Len(t) : t[i] \in Nat
    BY <1>2, ElementOfSeq
  <2>2. /\ SubSeq(t, 3, Len(t)) \in Seq(Nat) /\ Len(SubSeq(t, 3, Len(t))) = Len(h)
        /\ \A i \in 1 .. Len(h) : SubSeq(t, 3, Len(t))[i] = t[3 + i - 1]
    <3>1. Len(t) - 3 + 1 = Len(h) /\ (~(3 <= Len(t)) => Len(h) = 0)
      BY <1>2
    <3> QED
      BY <1>2, <2>1, <3>1, SubSeqProperties
  <2>3. \A i \in 1 .. Len(h) : t[3 + i - 1] = h[i]
    <3> TAKE i \in 1 .. Len(h)
    <3>1. 3 + i - 1 \in 1 .. 2 + Len(h) /\ ~(3 + i - 1 <= 2) /\ (3 + i - 1) - 2 = i
      BY <1>2
    <3> QED
      BY <1>2, <3>1
  <2> QED
    BY <2>2, <2>3, SeqEqual
<1> QED
  BY <1>2, <1>3, <1>4 DEF x

(* What a hexadecimal text says of the number.                             *)
HexTextOf(t, z, a) ==
  /\ SubSeq(t, 1, 2) = <<48, 120>>
  /\ Len(t) = 2 + (CASE z = "BYTE" -> 2 [] z = "HALF" -> 4 [] OTHER -> 8)
  /\ ReadNumber(16, SubSeq(t, 3, Len(t))) = a % 2 ^ Bits[z]

(* 0x and n digits for v.                                                  *)
HexShown(t, n, v) ==
  /\ SubSeq(t, 1, 2) = <<48, 120>> /\ Len(t) = 2 + n
  /\ ReadNumber(16, SubSeq(t, 3, Len(t))) = v

LEMMA HexFrom ==
  ASSUME NEW h, NEW n \in Nat, n >= 1, n <= 10, NEW v, HexText(h, n, v),
         NEW t, t = <<48, 120>> \o h
  PROVE  HexShown(t, n, v)
<1>1. h \in Seq(Nat) /\ Len(h) = n
  BY HexitSequences DEF HexText
<1> DEFINE u == <<48, 120>> \o h
<1>2. SubSeq(u, 1, 2) = <<48, 120>> /\ Len(u) = 2 + Len(h) /\ SubSeq(u, 3, Len(u)) = h
  BY <1>1, Prefixed
<1>3. ReadNumber(16, h) = v
  BY HexNumber
<1>4. t = u
  OBVIOUS
<1> HIDE DEF u
<1> QED
  BY <1>1, <1>2, <1>3, <1>4 DEF HexShown

LEMMA ShownIsRead ==
  ASSUME NEW t, NEW z, NEW a, NEW n \in Nat, NEW v, HexShown(t, n, v), v = a % 2 ^ Bits[z],
         n = CASE z = "BYTE" -> 2 [] z = "HALF" -> 4 [] OTHER -> 8
  PROVE  HexTextOf(t, z, a) /\ t # <<>>
<1>1. HexTextOf(t, z, a)
  BY Zenon DEF HexShown, HexTextOf
<1>2. Len(t) = 2 + n
  BY DEF HexShown
<1>3. Len(t) # 0
  BY <1>2
<1> QED
  BY <1>1, <1>3

LEMMA WordText ==
  ASSUME NEW v \in Nat, v < 2 ^ WordBits
  PROVE  HexText(CopyBytes(4, Spread32((v \div 65536) % 65536))
                 \o CopyBytes(4, Spread32(v % 65536)), 8, v)
<1> DEFINE h == v \div 65536
           l == v % 65536
<1>1. v < 65536 * 65536
  <2>1. \A n \in Nat : n <= 2147483648 => 2 * n <= 65536 * 65536
    BY SMT
  <2> QED
    BY <2>1, Words, SMT DEF WordSize
<1>2. h \in Nat /\ h < 65536 /\ l \in Nat /\ l < 65536 /\ v = 65536 * h + l
  BY <1>1, SMT
<1> HIDE DEF h, l
<1>3. h % 65536 = h
  BY <1>2, SMT
<1> DEFINE b == CopyBytes(4, Spread32(h))
<1>4. HexText(b, 4, h)
  BY <1>2, FirstHalfText
<1> HIDE DEF b
<1>5. \A n \in Nat, k \in Nat : n = 4 /\ k = 8 => HexText(b \o CopyBytes(4, Spread32(l)), k, v)
  <2> TAKE n \in Nat, k \in Nat
  <2> HAVE n = 4 /\ k = 8
  <2>1. HexText(b, n, h) /\ n <= 6 /\ k = n + 4
    BY <1>4
  <2> QED
    BY <1>2, <2>1, HalfText
<1>6. HexText(b \o CopyBytes(4, Spread32(l)), 8, v)
  BY <1>5
<1> QED
  BY <1>3, <1>6 DEF b, h, l

LEMMA HexIsRead ==
  ASSUME NEW z \in {"BYTE", "HALF", "WORD"}, NEW a \in Nat, a < 2 ^ WordBits
  PROVE  HexTextOf(ToHex(z, a), z, a) /\ ToHex(z, a) # <<>>
<1>1. CASE z = "BYTE"
  <2> DEFINE v == a % 256
             h == CopyBytes(2, Spread16(v))
  <2>1. v \in Nat /\ v < 256
    BY SMT
  <2>2. HexText(h, 2, v)
    BY <2>1, ByteText
  <2>3. ToHex(z, a) = <<48, 120>> \o h
    BY <1>1 DEF ToHex
  <2>4. v = a % 2 ^ Bits[z]
    BY <1>1, ByteSize DEF Bits
  <2> HIDE DEF h, v
  <2> DEFINE t == ToHex(z, a)
  <2>5. \A n \in Nat : n = 2 => HexShown(t, n, v)
    <3> TAKE n \in Nat
    <3> HAVE n = 2
    <3>1. HexText(h, n, v) /\ n >= 1 /\ n <= 10
      BY <2>2
    <3> QED
      BY <2>3, <3>1, HexFrom
  <2> HIDE DEF t
  <2>6. HexTextOf(t, z, a) /\ t # <<>>
    <3>1. 2 = CASE z = "BYTE" -> 2 [] z = "HALF" -> 4 [] OTHER -> 8
      BY <1>1
    <3> QED
      BY <2>4, <2>5, <3>1, ShownIsRead
  <2> QED
    BY <2>6 DEF t
<1>2. CASE z = "HALF"
  <2> DEFINE v == a % 65536
             h == CopyBytes(4, Spread32(v))
  <2>1. v \in Nat /\ v < 65536
    BY SMT
  <2>2. HexText(h, 4, v)
    BY <2>1, FirstHalfText
  <2>3. ToHex(z, a) = <<48, 120>> \o h
    BY <1>2 DEF ToHex
  <2>4. v = a % 2 ^ Bits[z]
    BY <1>2, HalfSize DEF Bits
  <2> HIDE DEF h, v
  <2> DEFINE t == ToHex(z, a)
  <2>5. \A n \in Nat : n = 4 => HexShown(t, n, v)
    <3> TAKE n \in Nat
    <3> HAVE n = 4
    <3>1. HexText(h, n, v) /\ n >= 1 /\ n <= 10
      BY <2>2
    <3> QED
      BY <2>3, <3>1, HexFrom
  <2> HIDE DEF t
  <2>6. HexTextOf(t, z, a) /\ t # <<>>
    <3>1. 4 = CASE z = "BYTE" -> 2 [] z = "HALF" -> 4 [] OTHER -> 8
      BY <1>2
    <3> QED
      BY <2>4, <2>5, <3>1, ShownIsRead
  <2> QED
    BY <2>6 DEF t
<1>3. CASE z = "WORD"
  <2> DEFINE h == CopyBytes(4, Spread32((a \div 65536) % 65536))
                  \o CopyBytes(4, Spread32(a % 65536))
  <2>1. HexText(h, 8, a)
    BY WordText
  <2>2. ToHex(z, a) = <<48, 120>> \o h
    BY <1>3 DEF ToHex
  <2> HIDE DEF h
  <2> DEFINE t == ToHex(z, a)
  <2>3. \A n \in Nat : n = 8 => HexShown(t, n, a)
    <3> TAKE n \in Nat
    <3> HAVE n = 8
    <3>1. HexText(h, n, a) /\ n >= 1 /\ n <= 10
      BY <2>1
    <3> QED
      BY <2>2, <3>1, HexFrom
  <2>4. a % 2 ^ Bits[z] = a
    <3>1. Bits[z] = WordBits /\ 2 ^ WordBits \in Nat
      BY <1>3, Words DEF Bits, WordSize
    <3> QED
      BY <3>1
  <2> HIDE DEF t
  <2>5. HexTextOf(t, z, a) /\ t # <<>>
    <3>1. 8 = CASE z = "BYTE" -> 2 [] z = "HALF" -> 4 [] OTHER -> 8
      BY <1>3
    <3> QED
      BY <2>3, <2>4, <3>1, ShownIsRead
  <2> QED
    BY <2>5 DEF t
<1> QED
  BY <1>1, <1>2, <1>3

-----------------------------------------------------------------------------
(* The text in the state is the argument's.                                *)

SizeNames == {"BYTE", "HALF", "WORD"}

(* Within braces there is no text; after them it is what the conversion    *)
(* of the argument made.                                                   *)
TextInv ==
  /\ size \in SizeNames
  /\ place \in Inner => text = <<>>
  /\ text # <<>> =>
       /\ kind \in {"unsigned", "signed", "hex"} => arg \in Numbers
       /\ kind = "unsigned" => text = U32ToString(UnsignedTrunc(size, arg))
       /\ kind = "signed" => text = I32ToString(SignExtend(size, arg))
       /\ kind = "hex" => text = ToHex(size, arg)

LEMMA NumbersAreWords ==
  \A a \in Numbers : a \in Nat /\ a < 2 ^ WordBits /\ a \in 0 .. 2 ^ WordBits - 1
  BY FormatAssumption, Words DEF WordSize

LEMMA UnsignedIsRead ==
  ASSUME NEW z \in SizeNames, NEW a \in Nat
  PROVE  IsDecimal(U32ToString(UnsignedTrunc(z, a)), a % 2 ^ Bits[z])
<1>1. 2 ^ Bits[z] \in Nat \ {0} /\ 2 ^ Bits[z] <= 2 ^ WordBits /\ 2 ^ WordBits \in Nat
  BY SizePowers, Words DEF WordSize, SizeNames
<1> DEFINE n == a % 2 ^ Bits[z]
<1>2. n \in Nat /\ n < 2 ^ Bits[z]
  BY <1>1
<1>3. UnsignedTrunc(z, a) = n
  BY DEF UnsignedTrunc
<1> HIDE DEF n
<1>4. n < Ten[10]
  BY <1>1, <1>2, WordsHaveTenDigits, Tens
<1>5. IsDecimal(U32ToString(n), n)
  BY <1>2, <1>4, U32Text
<1> QED
  BY <1>3, <1>5 DEF n

LEMMA TextIsRead == ASSUME TextInv PROVE ReadsBack
<1>1. ASSUME kind = "unsigned", text # <<>> PROVE IsDecimal(text, arg % 2 ^ Bits[size])
  <2>1. arg \in Nat /\ size \in SizeNames /\ text = U32ToString(UnsignedTrunc(size, arg))
    BY <1>1, NumbersAreWords DEF TextInv
  <2> QED
    BY <2>1, UnsignedIsRead
<1>2. ASSUME kind = "signed", text # <<>> PROVE SignedText(text, size, arg)
  <2>1. /\ arg \in 0 .. 2 ^ WordBits - 1 /\ size \in SizeNames
        /\ text = I32ToString(SignExtend(size, arg))
    BY <1>2, NumbersAreWords DEF TextInv
  <2> QED
    BY <2>1, SignedIsRead DEF SizeNames
<1>3. ASSUME kind = "hex", text # <<>> PROVE HexTextOf(text, size, arg)
  <2>1. arg \in Nat /\ arg < 2 ^ WordBits /\ size \in SizeNames /\ text = ToHex(size, arg)
    BY <1>3, NumbersAreWords DEF TextInv
  <2> QED
    BY <2>1, HexIsRead DEF SizeNames
<1> QED
  BY <1>1, <1>2, <1>3, Zenon DEF ReadsBack, SignedText, HexTextOf

LEMMA TextStep == ASSUME FormatTypeOK, TextInv, [Next]_vars PROVE TextInv'
<1>1. CASE Copy \/ Open
  <2>1. size' \in SizeNames /\ text' = <<>>
    BY <1>1 DEF Copy, Open, SizeNames
  <2> QED
    BY <2>1 DEF TextInv
<1>2. CASE Describe
  <2>1. PICK c \in Inside : Reads(c) /\ (Kind(c) \/ Colon(c) \/ Hex(c) \/ Size(c))
    BY <1>2 DEF Describe
  <2>2. place \in Inner /\ size' \in SizeNames
    BY <2>1 DEF Kind, Colon, Hex, Size, Inner, TextInv, SizeNames
  <2>3. text' = <<>>
    BY <1>2, <2>2 DEF Describe, TextInv
  <2> QED
    BY <2>2, <2>3 DEF TextInv
<1>3. CASE Close
  <2>1. PICK a \in (IF kind \in {"string", "c_string"} THEN Strings ELSE Numbers) :
          arg' = a /\ text' = Rendered(a)
    BY <1>3 DEF Close
  <2>2. place' \notin Inner /\ kind' = kind /\ size' = size
    BY <1>3 DEF Close, Inner
  <2>3. kind \in {"unsigned", "signed", "hex"} => a \in Numbers
    BY <2>1
  <2>4. /\ kind = "unsigned" => text' = U32ToString(UnsignedTrunc(size, a))
        /\ kind = "signed" => text' = I32ToString(SignExtend(size, a))
        /\ kind = "hex" => text' = ToHex(size, a)
    BY <2>1 DEF Rendered
  <2> QED
    BY <2>1, <2>2, <2>3, <2>4 DEF TextInv
<1>4. CASE Panic \/ Return
  BY <1>4 DEF Panic, Return, Inner, TextInv
<1>5. CASE UNCHANGED vars
  BY <1>5 DEF vars, TextInv
<1> QED
  BY <1>1, <1>2, <1>3, <1>4, <1>5 DEF Next

(* Every text of a conversion reads back as its argument, for every word   *)
(* and every size: no digit is lost, no zero leads, no carry leaves its    *)
(* byte, and the least number of a size keeps its magnitude.               *)
THEOREM EveryTextReadsBack == Spec => []ReadsBack
<1>1. Init => FormatTypeOK /\ TextInv
  <2> SUFFICES ASSUME Init PROVE FormatTypeOK /\ TextInv
    OBVIOUS
  <2>1. /\ fmt = <<>> /\ text = <<>> /\ size = "WORD"
        /\ place \in {"text", "too_big"} /\ length \in Nat
    BY FormatAssumption DEF Init
  <2> QED
    BY <2>1 DEF FormatTypeOK, TextInv, Inner, SizeNames
<1>2. FormatTypeOK /\ TextInv /\ [Next]_vars => (FormatTypeOK /\ TextInv)'
  BY FormatTypes, TextStep
<1>3. TextInv => ReadsBack
  BY TextIsRead
<1> QED
  BY <1>1, <1>2, <1>3, PTL DEF Spec
=============================================================================
