------------------------ MODULE ReceivePackReportProofs ------------------------
(***************************************************************************)
(* Proofs about ReceivePackReport, for any reports, ways to send them,     *)
(* limits, faults and numbers of packets: the verdict is the one that the  *)
(* report means, no refusal is taken for a success, an error brings what   *)
(* the server had said, and the limit on the body is exact.                *)
(*                                                                         *)
(* First what FlattenSeq, the stream of a report and the two scans are,    *)
(* token by token; then that the scan of any beginning of a stream says    *)
(* just what is there of the report; then the invariant: the packet on its *)
(* way is the beginning of one that was sent, what is pending is the rest  *)
(* of the report, and what the parser has gathered is the beginning.       *)
(***************************************************************************)
EXTENDS ReceivePackReport, SequenceTheorems, WellFoundedInduction, TLAPS

-----------------------------------------------------------------------------
(* Numbers, short sequences, tokens and lines.                             *)
\* A set of natural numbers with something in it has a least one.
LEMMA LeastNat ==
    ASSUME NEW T, T \subseteq Nat, T # {}
    PROVE  \E x \in T : \A y \in T : ~ (y < x)
<1>1. PICK x \in T : \A y \in T : ~ (<<y, x>> \in OpToRel(<, Nat))
  BY WFMin, NatLessThanWellFounded
<1>2. \A y \in T : <<y, x>> \in Nat \X Nat
  OBVIOUS
<1>3. ASSUME NEW y \in T, y < x PROVE FALSE
  <2>1. <<y, x>> \in OpToRel(<, Nat)
    BY <1>2, <1>3 DEF OpToRel
  <2> QED BY <1>1, <2>1
<1> QED BY <1>1, <1>3

\* Max and Min of a set that has one.
LEMMA MaxIs == ASSUME NEW S, S \subseteq Int, NEW m \in S, \A y \in S : y <= m PROVE Max(S) = m
<1> DEFINE x == Max(S)
<1>1. \E z \in S : \A y \in S : z >= y
  OBVIOUS
<1>2. x \in S /\ \A y \in S : x >= y
  BY <1>1 DEF Max
<1> HIDE DEF x
<1>3. x >= m /\ x <= m /\ x \in Int /\ m \in Int
  BY <1>2
<1> QED
  BY <1>3 DEF x

LEMMA MinIs == ASSUME NEW S, S \subseteq Int, NEW m \in S, \A y \in S : m <= y PROVE Min(S) = m
<1> DEFINE x == Min(S)
<1>1. \E z \in S : \A y \in S : z <= y
  OBVIOUS
<1>2. x \in S /\ \A y \in S : x <= y
  BY <1>1 DEF Min
<1> HIDE DEF x
<1>3. x >= m /\ x <= m /\ x \in Int /\ m \in Int
  BY <1>2
<1> QED
  BY <1>3 DEF x

\* Sequences of one, two and three.
LEMMA IsSingle == ASSUME NEW S, NEW q \in Seq(S), Len(q) = 1 PROVE q = <<q[1]>>
OBVIOUS
\* Short sequences, by their elements.
LEMMA IsPair == ASSUME NEW S, NEW q \in Seq(S), Len(q) = 2 PROVE q = <<q[1], q[2]>>
OBVIOUS
LEMMA IsTriple == ASSUME NEW S, NEW q \in Seq(S), Len(q) = 3 PROVE q = <<q[1], q[2], q[3]>>
OBVIOUS

LEMMA OneMore ==
    ASSUME NEW S, NEW p \in Seq(S), NEW c \in S
    PROVE  /\ Append(p, c) \in Seq(S)
           /\ Len(Append(p, c)) = Len(p) + 1
           /\ \A i \in 1 .. Len(p) : Append(p, c)[i] = p[i]
           /\ Append(p, c)[Len(p) + 1] = c
BY AppendProperties

LEMMA AppendPair ==
    ASSUME NEW S, NEW p \in Seq(S), Len(p) = 2, NEW c \in S
    PROVE  Append(p, c) = <<p[1], p[2], c>>
<1> DEFINE q == Append(p, c)
<1>1. /\ q \in Seq(S)
      /\ Len(q) = Len(p) + 1
      /\ \A i \in 1 .. Len(p) : q[i] = p[i]
      /\ q[Len(p) + 1] = c
  BY OneMore
<1> HIDE DEF q
<1>3. Len(q) = 3 /\ q[3] = c /\ q[1] = p[1] /\ q[2] = p[2]
  BY <1>1
<1>4. q = <<q[1], q[2], q[3]>>
  BY <1>1, <1>3, IsTriple
<1> QED
  BY <1>3, <1>4 DEF q

\* What the operators of Sequences make of short sequences.
LEMMA FirstTwo == ASSUME NEW a, NEW b, NEW c PROVE SubSeq(<<a, b, c>>, 1, 2) = <<a, b>>
<1> DEFINE S == {a, b, c}
           t == <<a, b, c>>
           q == SubSeq(t, 1, 2)
<1>1. t \in Seq(S) /\ Len(t) = 3 /\ t[1] = a /\ t[2] = b
  OBVIOUS
<1> HIDE DEF t
<1>2. \A i \in 1 .. 2 : t[i] \in S
  BY <1>1 DEF S
<1> HIDE DEF S
<1>3. q \in Seq(S) /\ Len(q) = 2 /\ q[1] = a /\ q[2] = b
  BY <1>1, <1>2, SubSeqProperties
<1> HIDE DEF q
<1> QED
  BY <1>3, IsPair DEF q, t

LEMMA ShortLists ==
    ASSUME NEW a, NEW b, NEW c
    PROVE  /\ Tail(<<a, b, c>>) = <<b, c>> /\ Tail(<<a, b>>) = <<b>>
           /\ SubSeq(<<a, b, c>>, 1, 2) = <<a, b>> /\ SubSeq(<<a, b>>, 1, 2) = <<a, b>>
           /\ SubSeq(<<a, b>>, 1, 1) = <<a>> /\ SubSeq(<<a>>, 1, 1) = <<a>>
<1> DEFINE S == {a, b, c}
           p == <<a, b>>
           t == <<a, b, c>>
           o == <<a>>
<1>1. /\ o \in Seq(S) /\ Len(o) = 1 /\ o[1] = a
      /\ p \in Seq(S) /\ Len(p) = 2 /\ p[1] = a /\ p[2] = b
      /\ t \in Seq(S) /\ Len(t) = 3 /\ t[1] = a /\ t[2] = b /\ t[3] = c
      /\ c \in S
  OBVIOUS
<1> HIDE DEF S, p, t, o
<1>3. Tail(t) = <<b, c>>
  <2> DEFINE q == Tail(t)
  <2>1. q \in Seq(S) /\ Len(q) = 2 /\ q[1] = b /\ q[2] = c
    BY <1>1
  <2> HIDE DEF q
  <2> QED
    BY <2>1, IsPair DEF q
<1>4. Tail(p) = <<b>>
  <2> DEFINE q == Tail(p)
  <2>1. q \in Seq(S) /\ Len(q) = 1 /\ q[1] = b
    BY <1>1
  <2> HIDE DEF q
  <2> QED
    BY <2>1, IsSingle DEF q
<1>5. SubSeq(t, 1, 2) = <<a, b>>
  BY FirstTwo, Zenon DEF t
<1>6. SubSeq(p, 1, 2) = <<a, b>>
  <2> DEFINE q == SubSeq(p, 1, 2)
  <2>0. \A i \in 1 .. 2 : p[i] \in S
    BY <1>1 DEF S
  <2>1. q \in Seq(S) /\ Len(q) = 2 /\ q[1] = a /\ q[2] = b
    BY <1>1, <2>0, SubSeqProperties
  <2> HIDE DEF q
  <2> QED
    BY <2>1, IsPair DEF q
<1>7. SubSeq(p, 1, 1) = <<a>> /\ SubSeq(o, 1, 1) = <<a>>
  <2> DEFINE q == SubSeq(p, 1, 1)
             r == SubSeq(o, 1, 1)
  <2>1. q \in Seq(S) /\ Len(q) = 1 /\ q[1] = a
    BY <1>1
  <2>2. r \in Seq(S) /\ Len(r) = 1 /\ r[1] = a
    BY <1>1
  <2> HIDE DEF q, r
  <2>3. q = <<a>>
    BY <2>1, IsSingle
  <2>4. r = <<a>>
    BY <2>2, IsSingle
  <2> QED
    BY <2>3, <2>4 DEF q, r
<1> QED
  BY <1>3, <1>4, <1>5, <1>6, <1>7 DEF p, t, o

\* Tokens, and the lines of a report.
Names  == {"unpack ", "ok", "failed", "ok ", "ref", "ng ", "LF", "00", "data", "flush", "responseEnd",
           "delimiter", "empty", "tooLarge", "garbled", "ch1", "ch2", "ch3", "ERR ", "error:",
           "fatal:", "other"}
Tokens == [t : Names, n : Nat]
Kinds  == DOMAIN Text

\* The kinds of line, their tokens and their texts.
LEMMA KindsAre == Kinds = {"unpackOk", "unpackBad", "okRef", "ngRef"}
BY DEF Kinds, Text

LEMMA TokensAre == ASSUME NEW t \in Names PROVE Tok(t) \in Tokens /\ Tok(t).t = t /\ Tok(t).n = 0
BY DEF Tok, Tokens

\* What a line of a report has in it.
First(x) == IF x \in {"unpackOk", "unpackBad"} THEN "unpack " ELSE IF x = "okRef" THEN "ok " ELSE "ng "
Second(x) == IF x = "unpackOk" THEN "ok" ELSE IF x = "unpackBad" THEN "failed" ELSE "ref"

LEMMA TextIs == ASSUME NEW x \in Kinds PROVE Text[x] = <<Tok(First(x)), Tok(Second(x))>>
<1>1. CASE x = "unpackOk"
  BY <1>1 DEF Text, First, Second
<1>2. CASE x = "unpackBad"
  BY <1>2 DEF Text, First, Second
<1>3. CASE x = "okRef"
  BY <1>3 DEF Text, First, Second
<1>4. CASE x = "ngRef"
  BY <1>4 DEF Text, First, Second
<1> QED
  BY <1>1, <1>2, <1>3, <1>4, KindsAre

\* A line is two tokens, with or without the line feed.
LEMMA TrimLine ==
    ASSUME NEW a, NEW b, b # LF
    PROVE  TrimRight(<<a, b>>) = <<a, b>> /\ TrimRight(<<a, b, LF>>) = <<a, b>>
<1>1. TrimRight(<<a, b>>) = <<a, b>>
  <2> DEFINE line == <<a, b>>
             S == {0} \cup {i \in DOMAIN line : line[i] # LF}
  <2>1. 2 \in S /\ S \subseteq Int /\ \A y \in S : y <= 2
    OBVIOUS
  <2> HIDE DEF S
  <2>2. Max(S) = 2
    BY <2>1, MaxIs
  <2>3. SubSeq(line, 1, 2) = line
    BY ShortLists
  <2> QED
    BY <2>2, <2>3 DEF TrimRight, S
<1>2. TrimRight(<<a, b, LF>>) = <<a, b>>
  <2> DEFINE line == <<a, b, LF>>
             S == {0} \cup {i \in DOMAIN line : line[i] # LF}
  <2>1. 2 \in S /\ S \subseteq Int /\ \A y \in S : y <= 2
    <3>1. DOMAIN line = 1 .. 3 /\ line[3] = LF /\ line[2] = b
      OBVIOUS
    <3> HIDE DEF line
    <3>2. 2 \in S
      BY <3>1
    <3>3. \A y \in S : y \in {0, 1, 2}
      BY <3>1
    <3> HIDE DEF S
    <3>4. S \subseteq Int
      BY <3>3
    <3>5. \A y \in S : y <= 2
      BY <3>3
    <3> QED
      BY <3>2, <3>4, <3>5
  <2> HIDE DEF S
  <2>2. Max(S) = 2
    BY <2>1, MaxIs
  <2>3. SubSeq(line, 1, 2) = <<a, b>>
    BY FirstTwo, Zenon
  <2> QED
    BY <2>2, <2>3 DEF TrimRight, S
<1> QED
  BY <1>1, <1>2

\* Short lines without their line feed.
LEMMA TrimShort == TrimRight(<<>>) = <<>>
<1> DEFINE S == {0} \cup {i \in DOMAIN <<>> : <<>>[i] # LF}
<1>1. S = {0}
  OBVIOUS
<1>2. Max({0}) = 0
  BY MaxIs
<1>3. SubSeq(<<>>, 1, 0) = <<>>
  OBVIOUS
<1> QED
  BY <1>1, <1>2, <1>3 DEF TrimRight

LEMMA TrimOne == ASSUME NEW a, a # LF PROVE TrimRight(<<a>>) = <<a>> /\ TrimRight(<<a, LF>>) = <<a>>
<1>1. TrimRight(<<a>>) = <<a>>
  <2> DEFINE line == <<a>>
             S == {0} \cup {i \in DOMAIN line : line[i] # LF}
  <2>1. 1 \in S /\ S \subseteq Int /\ \A y \in S : y <= 1
    OBVIOUS
  <2> HIDE DEF S
  <2>2. Max(S) = 1
    BY <2>1, MaxIs
  <2>3. SubSeq(line, 1, 1) = line
    BY ShortLists
  <2> QED
    BY <2>2, <2>3 DEF TrimRight, S
<1>2. TrimRight(<<a, LF>>) = <<a>>
  <2> DEFINE line == <<a, LF>>
             S == {0} \cup {i \in DOMAIN line : line[i] # LF}
  <2>1. 1 \in S /\ S \subseteq Int /\ \A y \in S : y <= 1
    OBVIOUS
  <2> HIDE DEF S
  <2>2. Max(S) = 1
    BY <2>1, MaxIs
  <2>3. SubSeq(line, 1, 1) = <<a>>
    BY ShortLists
  <2> QED
    BY <2>2, <2>3 DEF TrimRight, S
<1> QED
  BY <1>1, <1>2

\* What the parser makes of a line.
LEMMA LineMeans ==
    ASSUME NEW x \in Kinds, NEW line \in {Text[x], Append(Text[x], LF)}
    PROVE  /\ TrimRight(line) = Text[x]
           /\ IsUnpackOkLine(line) <=> x = "unpackOk"
           /\ DetectError(line) <=> x \in Refusals
           /\ ~Starts(line, {"ch1"}) /\ ~Starts(line, {"ch2", "ch3"}) /\ ~Starts(line, {"ch3"})
<1> DEFINE a == Tok(First(x))
           b == Tok(Second(x))
<1>1. Text[x] = <<a, b>> /\ Append(Text[x], LF) = <<a, b, LF>>
  <2>1. Text[x] = <<a, b>>
    BY TextIs
  <2> HIDE DEF a, b
  <2> DEFINE p == Text[x]
  <2>2. p = <<a, b>>
    BY <2>1
  <2>3. p \in Seq({a, b, LF}) /\ Len(p) = 2 /\ p[1] = a /\ p[2] = b
    BY <2>2
  <2> HIDE DEF p
  <2>4. Append(p, LF) = <<a, b, LF>>
    BY <2>3, AppendPair
  <2> QED
    BY <2>1, <2>4 DEF p
<1>2. a.t = First(x) /\ b.t = Second(x) /\ LF.t = "LF" /\ First(x) # "LF" /\ Second(x) # "LF"
  BY DEF Tok, LF, First, Second
<1> HIDE DEF a, b
<1>3. b # LF /\ a # LF
  BY <1>2
<1>4. TrimRight(line) = <<a, b>>
  BY <1>1, <1>3, TrimLine
<1>5. line \in {<<a, b>>, <<a, b, LF>>} /\ line # <<>> /\ line[1] = a
  BY <1>1
<1>6. Tail(line) \in {<<b>>, <<b, LF>>}
  <2>1. Tail(<<a, b>>) = <<b>> /\ Tail(<<a, b, LF>>) = <<b, LF>>
    BY ShortLists
  <2> QED
    BY <1>5, <2>1
<1>7. TrimRight(Tail(line)) = <<b>>
  BY <1>3, <1>6, TrimOne
<1>8. IsUnpackOkLine(line) <=> x = "unpackOk"
  <2>1. Text["unpackOk"] = <<Tok("unpack "), Tok("ok")>>
    BY DEF Text
  <2>2. IsUnpackOkLine(line) <=> (a = Tok("unpack ") /\ b = Tok("ok"))
    <3> DEFINE c == Tok("unpack ")
               d == Tok("ok")
    <3> HIDE DEF c, d
    <3>1. <<a, b>> = <<c, d>> <=> (a = c /\ b = d)
      OBVIOUS
    <3>2. IsUnpackOkLine(line) <=> <<a, b>> = <<c, d>>
      BY <1>4, <2>1 DEF IsUnpackOkLine, c, d
    <3> QED
      BY <3>1, <3>2 DEF c, d
  <2>3. (a = Tok("unpack ") /\ b = Tok("ok")) <=> (First(x) = "unpack " /\ Second(x) = "ok")
    BY DEF a, b, Tok
  <2>4. (First(x) = "unpack " /\ Second(x) = "ok") <=> x = "unpackOk"
    BY KindsAre DEF First, Second
  <2> QED
    BY <2>2, <2>3, <2>4
<1>9. \A texts : Starts(line, texts) <=> First(x) \in texts
  BY <1>2, <1>5 DEF Starts
<1>10. DetectError(line) <=> x \in Refusals
  <2>1. <<b>> = <<Tok("ok")>> <=> Second(x) = "ok"
    BY DEF b, Tok
  <2>2. DetectError(line) <=> \/ First(x) \in {"ERR ", "error:", "fatal:", "ng "}
                              \/ First(x) \in {"ch3"} /\ Starts(Tail(line), {"error:", "fatal:"})
                              \/ First(x) \in {"unpack "} /\ Second(x) # "ok"
    BY <1>7, <1>9, <2>1 DEF DetectError
  <2>3. First(x) \in {"unpack ", "ok ", "ng "} /\ (First(x) = "ng " <=> x = "ngRef")
        /\ ((First(x) = "unpack " /\ Second(x) # "ok") <=> x = "unpackBad")
    BY KindsAre DEF First, Second
  <2> QED
    BY <2>2, <2>3 DEF Refusals
<1>11. First(x) \in {"unpack ", "ok ", "ng "}
  BY DEF First
<1> QED
  BY <1>1, <1>4, <1>8, <1>9, <1>10, <1>11

-----------------------------------------------------------------------------
(* Pieces put together (FlattenSeq).                                       *)
\* f[i] is the first i pieces of s put together.
Joins(s, f) == [i \in 1 .. Len(s) |-> IF i = 1 THEN s[i] ELSE f[i - 1] \o s[i]]

\* There is one such f: the first difference would have a cause.
LEMMA JoinsUnique ==
    ASSUME NEW s, Len(s) \in Nat, NEW f, f = Joins(s, f), NEW g, g = Joins(s, g)
    PROVE  f = g
<1>1. ASSUME NEW n \in 1 .. Len(s), f[n] # g[n]
      PROVE  FALSE
  <2> DEFINE T == {i \in 1 .. Len(s) : f[i] # g[i]}
  <2>1. T \subseteq Nat
    OBVIOUS
  <2>2. T # {}
    BY <1>1
  <2> HIDE DEF T
  <2>3. PICK x \in T : \A y \in T : ~ (y < x)
    BY <2>1, <2>2, LeastNat
  <2>4. x \in 1 .. Len(s) /\ f[x] # g[x]
    BY DEF T
  <2>5. x # 1
    BY <2>4 DEF Joins
  <2>6. x - 1 \in 1 .. Len(s) /\ x - 1 < x
    BY <2>4, <2>5
  <2>7. f[x - 1] = g[x - 1]
    BY <2>3, <2>6 DEF T
  <2>8. f[x] = f[x - 1] \o s[x] /\ g[x] = g[x - 1] \o s[x]
    BY <2>4, <2>5 DEF Joins
  <2> QED
    BY <2>4, <2>7, <2>8
<1>2. f = [n \in 1 .. Len(s) |-> f[n]] /\ g = [n \in 1 .. Len(s) |-> g[n]]
  BY DEF Joins
<1> QED
  BY <1>1, <1>2

\* The pieces of a list, one more at a time.
Joined(s, S, n) == {f \in [1 .. n -> Seq(S)] : f = [i \in 1 .. n |-> IF i = 1 THEN s[i] ELSE f[i - 1] \o s[i]]}
More(s, f, n) == [i \in 1 .. n |-> IF i = n THEN IF n = 1 THEN s[n] ELSE f[n - 1] \o s[n] ELSE f[i]]

LEMMA JoinOneMore ==
    ASSUME NEW S, NEW s \in Seq(Seq(S)), NEW n \in 1 .. Len(s), NEW f \in Joined(s, S, n - 1)
    PROVE  More(s, f, n) \in Joined(s, S, n)
<1> DEFINE g == More(s, f, n)
<1>1. s[n] \in Seq(S) /\ n \in Nat /\ Len(s) \in Nat
  OBVIOUS
<1>2. f \in [1 .. n - 1 -> Seq(S)]
      /\ \A i \in 1 .. n - 1 : f[i] = IF i = 1 THEN s[i] ELSE f[i - 1] \o s[i]
  BY DEF Joined
<1>3. n # 1 => n - 1 \in 1 .. n - 1
  BY <1>1
<1>4. n # 1 => f[n - 1] \o s[n] \in Seq(S)
  BY <1>1, <1>2, <1>3
<1>5. \A i \in 1 .. n : i = n \/ i \in 1 .. n - 1
  BY <1>1
<1>6. g \in [1 .. n -> Seq(S)]
  BY <1>1, <1>2, <1>4, <1>5 DEF More
<1>7. ASSUME NEW i \in 1 .. n
      PROVE  g[i] = IF i = 1 THEN s[i] ELSE g[i - 1] \o s[i]
  <2>1. CASE i = n /\ n # 1
    <3>1. n - 1 \in 1 .. n /\ n - 1 # n
      BY <1>1, <2>1
    <3>2. g[n] = f[n - 1] \o s[n] /\ g[n - 1] = f[n - 1]
      BY <2>1, <3>1 DEF More
    <3> QED
      BY <2>1, <3>2
  <2>2. CASE i = n /\ n = 1
    BY <2>2 DEF More
  <2>3. CASE i # n
    <3>1. i \in 1 .. n - 1 /\ g[i] = f[i]
      BY <1>5, <2>3 DEF More
    <3>2. i # 1 => i - 1 \in 1 .. n /\ i - 1 # n /\ g[i - 1] = f[i - 1]
      BY <1>1, <3>1 DEF More
    <3> QED
      BY <1>2, <3>1, <3>2
  <2> QED
    BY <2>1, <2>2, <2>3
<1>8. g = [i \in 1 .. n |-> g[i]]
  BY <1>6
<1> HIDE DEF g
<1>9. g \in Joined(s, S, n)
  BY <1>6, <1>7, <1>8 DEF Joined
<1> QED
  BY <1>9 DEF g

\* There is such a function for all pieces, and FlattenSeq is its last value.
LEMMA JoinsExist ==
    ASSUME NEW S, NEW s \in Seq(Seq(S))
    PROVE  \E f \in [1 .. Len(s) -> Seq(S)] : f = Joins(s, f)
<1> DEFINE T == {n \in 0 .. Len(s) : Joined(s, S, n) = {}}
<1>1. Len(s) \in Nat
  OBVIOUS
<1>2. T \subseteq Nat
  OBVIOUS
<1>3. ASSUME T # {} PROVE FALSE
  <2> HIDE DEF T
  <2>1. PICK n \in T : \A m \in T : ~ (m < n)
    BY <1>2, <1>3, LeastNat
  <2>2. n \in 0 .. Len(s) /\ Joined(s, S, n) = {}
    BY DEF T
  <2>3. n # 0
    <3>1. [i \in 1 .. 0 |-> <<>>] \in Joined(s, S, 0)
      BY DEF Joined
    <3> QED
      BY <2>2, <3>1
  <2>4. n - 1 \in 0 .. Len(s) /\ n - 1 < n /\ n \in 1 .. Len(s)
    BY <1>1, <2>2, <2>3
  <2>5. Joined(s, S, n - 1) # {}
    BY <2>1, <2>4 DEF T
  <2>6. PICK f \in Joined(s, S, n - 1) : TRUE
    BY <2>5
  <2>7. More(s, f, n) \in Joined(s, S, n)
    BY <2>4, JoinOneMore
  <2> QED
    BY <2>2, <2>7
<1>4. Len(s) \notin T
  BY <1>3
<1>5. Joined(s, S, Len(s)) # {}
  BY <1>1, <1>4
<1> HIDE DEF T
<1>6. PICK f \in Joined(s, S, Len(s)) : TRUE
  BY <1>5
<1>7. f \in [1 .. Len(s) -> Seq(S)] /\ f = Joins(s, f)
  BY <1>6 DEF Joined, Joins
<1> QED
  BY <1>7

\* FlattenSeq is the last of them.
LEMMA FlattenIs ==
    ASSUME NEW s, Len(s) \in Nat \ {0}, NEW f, f = Joins(s, f)
    PROVE  FlattenSeq(s) = f[Len(s)]
<1> DEFINE join == CHOOSE g : g = Joins(s, g)
<1>1. FlattenSeq(s) = join[Len(s)]
  BY DEF FlattenSeq, Joins
<1>2. join = Joins(s, join)
  OBVIOUS
<1> HIDE DEF join
<1> QED
  BY <1>1, <1>2, JoinsUnique


\* Nothing, joined.
LEMMA FlattenNone == FlattenSeq(<<>>) = <<>>
BY DEF FlattenSeq

\* One piece more.
LEMMA FlattenMore ==
    ASSUME NEW S, NEW s \in Seq(Seq(S)), NEW x \in Seq(S)
    PROVE  /\ FlattenSeq(s) \in Seq(S)
           /\ FlattenSeq(Append(s, x)) = FlattenSeq(s) \o x
<1> DEFINE t == Append(s, x)
           N == Len(s)
<1>1. t \in Seq(Seq(S)) /\ Len(t) = N + 1 /\ N \in Nat /\ t[N + 1] = x
  <2>1. s \in Seq(Seq(S)) /\ x \in Seq(S)
    OBVIOUS
  <2> QED
    BY <2>1, AppendProperties
<1>2. \A i \in 1 .. N : t[i] = s[i]
  <2>1. s \in Seq(Seq(S)) /\ x \in Seq(S)
    OBVIOUS
  <2> QED
    BY <2>1, AppendProperties, SMTT(20)
<1> HIDE DEF t
<1>3. PICK f \in [1 .. Len(t) -> Seq(S)] : f = Joins(t, f)
  BY <1>1, JoinsExist
<1>4. FlattenSeq(t) = f[N + 1]
  <2>1. Len(t) \in Nat \ {0}
    BY <1>1
  <2> QED
    BY <1>1, <1>3, <2>1, FlattenIs
<1>5. CASE N = 0
  <2>1. s = <<>> /\ FlattenSeq(s) = <<>>
    BY <1>5, FlattenNone
  <2>2. f[N + 1] = x
    <3>1. 1 \in 1 .. Len(t)
      BY <1>1, <1>5
    <3>2. f[1] = t[1]
      BY <1>3, <3>1 DEF Joins
    <3> QED
      BY <1>1, <1>5, <3>2
  <2>3. <<>> \o x = x /\ <<>> \in Seq(S)
    OBVIOUS
  <2>4. FlattenSeq(t) = x
    BY <1>4, <2>2
  <2> QED
    BY <2>1, <2>3, <2>4 DEF t
<1>6. CASE N # 0
  <2> DEFINE g == [i \in 1 .. N |-> f[i]]
  <2>1. \A i \in 1 .. N : i \in 1 .. Len(t) /\ (i # 1 => i - 1 \in 1 .. N)
    BY <1>1
  <2>2. \A i \in 1 .. Len(t) : f[i] = IF i = 1 THEN t[i] ELSE f[i - 1] \o t[i]
    BY <1>3 DEF Joins
  <2>3. \A i \in 1 .. N : g[i] = IF i = 1 THEN s[i] ELSE g[i - 1] \o s[i]
    BY <1>2, <2>1, <2>2
  <2>4. g = [i \in 1 .. N |-> g[i]]
    OBVIOUS
  <2>5. g[N] = f[N] /\ f[N] \in Seq(S)
    <3>1. N \in 1 .. N /\ N \in 1 .. Len(t)
      BY <1>1, <1>6
    <3> QED
      BY <1>3, <3>1
  <2> HIDE DEF g
  <2>6. g = Joins(s, g)
    BY <2>3, <2>4 DEF Joins
  <2>7. FlattenSeq(s) = f[N]
    <3>1. N \in Nat \ {0}
      BY <1>1, <1>6
    <3> QED
      BY <2>5, <2>6, <3>1, FlattenIs
  <2>8. f[N + 1] = f[N] \o x
    <3>1. N + 1 \in 1 .. Len(t) /\ N + 1 # 1 /\ (N + 1) - 1 = N
      BY <1>1, <1>6
    <3> QED
      BY <1>1, <2>2, <3>1
  <2> QED
    BY <1>4, <2>5, <2>7, <2>8 DEF t
<1> QED
  BY <1>5, <1>6

\* Pieces of equal length.
Even(s, g, L, n) ==
    /\ Len(g) = L * n
    /\ \A k \in 1 .. n, c \in 1 .. L : g[L * (k - 1) + c] = s[k][c]

\* Pieces of one length, joined.
LEMMA FlattenEven ==
    ASSUME NEW S, NEW L \in {3, 5}, NEW s \in Seq(Seq(S)), \A i \in 1 .. Len(s) : Len(s[i]) = L
    PROVE  FlattenSeq(s) \in Seq(S) /\ Even(s, FlattenSeq(s), L, Len(s))
<1> DEFINE N == Len(s)
<1>1. N \in Nat
  OBVIOUS
<1>2. CASE N = 0
  <2>1. FlattenSeq(s) = <<>> /\ Len(<<>>) = 0 /\ L * 0 = 0
    BY <1>2, FlattenNone
  <2> QED
    BY <1>2, <2>1 DEF Even
<1>3. CASE N # 0
  <2>1. PICK f \in [1 .. N -> Seq(S)] : f = Joins(s, f)
    BY JoinsExist
  <2>2. FlattenSeq(s) = f[N]
    <3>1. N \in Nat \ {0}
      BY <1>1, <1>3
    <3> QED
      BY <2>1, <3>1, FlattenIs
  <2>3. ASSUME NEW m \in 1 .. N, ~Even(s, f[m], L, m) PROVE FALSE
    <3> DEFINE T == {i \in 1 .. N : ~Even(s, f[i], L, i)}
    <3>0. m \in T
      BY <2>3
    <3>1. T \subseteq Nat /\ T # {}
      <4>1. T \subseteq 1 .. N
        OBVIOUS
      <4> HIDE DEF T
      <4> QED
        BY <1>1, <3>0, <4>1
    <3> HIDE DEF T
    <3>2. PICK n \in T : \A y \in T : ~ (y < n)
      BY <3>1, LeastNat
    <3>3. n \in 1 .. N /\ ~Even(s, f[n], L, n)
      BY DEF T
    <3>4. s[n] \in Seq(S) /\ Len(s[n]) = L /\ f[n] \in Seq(S) /\ n \in Nat
      <4>1. n \in 1 .. Len(s)
        BY <3>3
      <4>2. Len(s[n]) = L
        BY <4>1
      <4>3. s[n] \in Seq(S)
        BY <4>1
      <4>4. f[n] \in Seq(S)
        BY <2>1, <4>1
      <4> QED
        BY <1>1, <4>1, <4>2, <4>3, <4>4
    <3>5. CASE n = 1
      <4>1. f[1] = s[1]
        BY <2>1, <3>3, <3>5 DEF Joins
      <4>2. \A k \in 1 .. 1, c \in 1 .. L : k = 1 /\ L * (k - 1) + c = c
        OBVIOUS
      <4>3. L * 1 = L
        OBVIOUS
      <4>4. Even(s, f[1], L, 1)
        BY <3>4, <3>5, <4>1, <4>2, <4>3 DEF Even
      <4> QED
        BY <3>3, <3>5, <4>4
    <3>6. CASE n # 1
      <4>1. n - 1 \in 1 .. N /\ n - 1 < n
        BY <3>3, <3>6
      <4>2. Even(s, f[n - 1], L, n - 1)
        BY <3>2, <4>1 DEF T
      <4>3. f[n] = f[n - 1] \o s[n]
        BY <2>1, <3>3, <3>6 DEF Joins
      <4> DEFINE a == f[n - 1]
                 b == s[n]
      <4>4. a \in Seq(S) /\ b \in Seq(S) /\ Len(b) = L /\ Len(a) = L * (n - 1)
        BY <2>1, <3>4, <4>1, <4>2 DEF Even
      <4>5. \A k \in 1 .. n - 1, c \in 1 .. L : a[L * (k - 1) + c] = s[k][c]
        BY <4>2 DEF Even
      <4>6. f[n] = a \o b
        BY <4>3
      <4> HIDE DEF a, b
      <4>7. Len(a \o b) = L * n
        <5>1. Len(a \o b) = Len(a) + Len(b)
          BY <4>4
        <5>2. L * (n - 1) + L = L * n
          <6>1. CASE L = 3
            BY <3>4, <6>1
          <6>2. CASE L = 5
            BY <3>4, <6>2
          <6> QED
            BY <6>1, <6>2
        <5> QED
          BY <4>4, <5>1, <5>2
      <4>8. \A i \in 1 .. Len(a) + Len(b) : (a \o b)[i] = IF i <= Len(a) THEN a[i] ELSE b[i - Len(a)]
        <5>1. a \in Seq(S) /\ b \in Seq(S)
          BY <4>4
        <5> QED
          BY <5>1, ConcatProperties
      <4>9. ASSUME NEW k \in 1 .. n, NEW c \in 1 .. L
            PROVE  (a \o b)[L * (k - 1) + c] = s[k][c]
        <5> DEFINE i == L * (k - 1) + c
        <5>1. CASE k = n
          <6>1. i \in 1 .. Len(a) + Len(b) /\ ~(i <= Len(a)) /\ i - Len(a) = c
            <7>1. CASE L = 3
              BY <3>4, <4>1, <4>4, <5>1, <7>1
            <7>2. CASE L = 5
              BY <3>4, <4>1, <4>4, <5>1, <7>2
            <7> QED
              BY <7>1, <7>2
          <6> HIDE DEF i
          <6>2. (a \o b)[i] = b[c]
            BY <4>8, <6>1
          <6> QED
            BY <5>1, <6>2 DEF i, b
        <5>2. CASE k # n
          <6>1. i \in 1 .. Len(a) + Len(b) /\ i <= Len(a) /\ k \in 1 .. n - 1
            <7>1. CASE L = 3
              BY <3>4, <4>1, <4>4, <5>2, <7>1
            <7>2. CASE L = 5
              BY <3>4, <4>1, <4>4, <5>2, <7>2
            <7> QED
              BY <7>1, <7>2
          <6> HIDE DEF i
          <6>2. (a \o b)[i] = a[i]
            BY <4>8, <6>1
          <6> QED
            BY <4>5, <6>1, <6>2 DEF i
        <5> QED
          BY <5>1, <5>2
      <4> QED
        BY <3>3, <4>6, <4>7, <4>9 DEF Even
    <3> QED
      BY <3>5, <3>6
  <2>4. N \in 1 .. N
    BY <1>1, <1>3
  <2> QED
    BY <2>1, <2>2, <2>3, <2>4
<1> QED
  BY <1>2, <1>3

-----------------------------------------------------------------------------
(* The report as the server sends it.                                      *)
\* How many tokens a line takes, and which they are.
Width(f) == IF f = "nested" THEN 5 ELSE 3
DataLength == [t |-> "data", n |-> 3]
LineToken(x, f, c) ==
    IF f = "nested"
    THEN IF c = 1 THEN Tok("00") ELSE IF c = 2 THEN DataLength
         ELSE IF c = 3 THEN Tok(First(x)) ELSE IF c = 4 THEN Tok(Second(x)) ELSE LF
    ELSE IF c = 1 THEN Tok(First(x)) ELSE IF c = 2 THEN Tok(Second(x)) ELSE LF

\* A line, and the packet of one.
LEMMA LineIs ==
    ASSUME NEW x \in Kinds
    PROVE  LET line == Append(Text[x], LF)
           IN  /\ line = <<Tok(First(x)), Tok(Second(x)), LF>>
               /\ line \in Seq(Tokens) /\ Len(line) = 3
               /\ \A c \in 1 .. 3 : line[c] = IF c = 1 THEN Tok(First(x)) ELSE IF c = 2 THEN Tok(Second(x)) ELSE LF
<1> DEFINE a == Tok(First(x))
           b == Tok(Second(x))
           p == Text[x]
<1>1. a \in Tokens /\ b \in Tokens /\ LF \in Tokens
  <2>1. First(x) \in Names /\ Second(x) \in Names /\ "LF" \in Names
    BY DEF First, Second, Names
  <2> QED
    BY <2>1, TokensAre DEF LF
<1>2. p = <<a, b>>
  BY TextIs
<1> HIDE DEF a, b
<1>3. p \in Seq(Tokens) /\ Len(p) = 2 /\ p[1] = a /\ p[2] = b
  BY <1>1, <1>2
<1> HIDE DEF p
<1>4. Append(p, LF) = <<a, b, LF>>
  BY <1>1, <1>3, AppendPair
<1>5. <<a, b, LF>> \in Seq(Tokens) /\ Len(<<a, b, LF>>) = 3
  BY <1>1
<1>6. \A c \in 1 .. 3 : <<a, b, LF>>[c] = IF c = 1 THEN a ELSE IF c = 2 THEN b ELSE LF
  OBVIOUS
<1> QED
  BY <1>4, <1>5, <1>6 DEF a, b, p

-----------------------------------------------------------------------------
(* Sequences put together and taken apart.                                 *)
\* Two sequences, one after the other.
LEMMA Concat ==
    ASSUME NEW S, NEW p \in Seq(S), NEW q \in Seq(S)
    PROVE  /\ p \o q \in Seq(S) /\ Len(p \o q) = Len(p) + Len(q)
           /\ \A i \in 1 .. Len(p) : (p \o q)[i] = p[i]
           /\ \A i \in 1 .. Len(q) : (p \o q)[Len(p) + i] = q[i]
<1>1. p \o q \in Seq(S) /\ Len(p \o q) = Len(p) + Len(q)
  OBVIOUS
<1>2. \A i \in 1 .. Len(p) : (p \o q)[i] = p[i]
  OBVIOUS
<1>3. \A i \in 1 .. Len(q) : (p \o q)[Len(p) + i] = q[i]
  OBVIOUS
<1> QED
  BY <1>1, <1>2, <1>3

\* A length, a packet and a packet without data, token by token.
LEMMA DataHead ==
    ASSUME NEW k \in Names, NEW n \in Nat
    PROVE  LET h == <<Tok("00"), [t |-> k, n |-> n]>>
           IN  h \in Seq(Tokens) /\ Len(h) = 2 /\ h[1] = Tok("00") /\ h[2] = [t |-> k, n |-> n]
<1> DEFINE a == Tok("00")
           b == [t |-> k, n |-> n]
<1>1. a \in Tokens
  <2>1. "00" \in Names
    BY DEF Names
  <2> QED
    BY <2>1, TokensAre
<1>2. b \in Tokens
  BY DEF Tokens
<1> HIDE DEF a, b
<1>3. <<a, b>> \in Seq(Tokens) /\ Len(<<a, b>>) = 2 /\ <<a, b>>[1] = a /\ <<a, b>>[2] = b
  BY <1>1, <1>2
<1> QED
  BY <1>3 DEF a, b

LEMMA PacketIs ==
    ASSUME NEW line \in Seq(Tokens)
    PROVE  /\ Packet(line) \in Seq(Tokens) /\ Len(Packet(line)) = 2 + Len(line)
           /\ Packet(line)[1] = Tok("00") /\ Packet(line)[2] = [t |-> "data", n |-> Len(line)]
           /\ \A i \in 1 .. Len(line) : Packet(line)[2 + i] = line[i]
           /\ SubSeq(Packet(line), 3, Len(Packet(line))) = line
<1> DEFINE h == <<Tok("00"), [t |-> "data", n |-> Len(line)]>>
           q == h \o line
<1>1. Packet(line) = q
  BY DEF Packet, Length
<1>2. h \in Seq(Tokens) /\ Len(h) = 2 /\ h[1] = Tok("00") /\ h[2] = [t |-> "data", n |-> Len(line)]
  <2>1. "data" \in Names /\ Len(line) \in Nat
    BY DEF Names
  <2> QED
    BY <2>1, DataHead
<1> HIDE DEF h
<1>9. line \in Seq(Tokens) /\ h \in Seq(Tokens)
  BY <1>2
<1>3. q \in Seq(Tokens) /\ Len(q) = 2 + Len(line)
  <2>1. h \o line \in Seq(Tokens)
    BY <1>9
  <2>2. Len(h \o line) = Len(h) + Len(line)
    BY <1>9
  <2> QED
    BY <1>2, <2>1, <2>2
<1>4. q[1] = h[1] /\ q[2] = h[2]
  BY <1>2, Concat
<1>5. \A i \in 1 .. Len(line) : q[2 + i] = line[i]
  <2>1. \A i \in 1 .. Len(line) : (h \o line)[Len(h) + i] = line[i]
    BY <1>9
  <2> QED
    BY <1>2, <2>1
<1>6. SubSeq(q, 3, Len(q)) = line
  <2> DEFINE u == SubSeq(q, 3, Len(q))
  <2> HIDE DEF q
  <2>1. \A i \in 3 .. Len(q) : q[i] \in Tokens
    BY <1>3
  <2>2. Len(line) \in Nat
    OBVIOUS
  <2>3. u \in Seq(Tokens) /\ Len(u) = Len(line)
    BY <1>3, <2>1, <2>2, SubSeqProperties
  <2>4. \A i \in 1 .. Len(q) - 3 + 1 : u[i] = q[3 + i - 1]
    BY <1>3, <2>1, <2>2, SubSeqProperties
  <2>5. \A i \in 1 .. Len(line) : i \in 1 .. Len(q) - 3 + 1 /\ 3 + i - 1 = 2 + i
    BY <1>3, <2>2
  <2>6. \A i \in 1 .. Len(line) : u[i] = line[i]
    BY <1>5, <2>4, <2>5
  <2> HIDE DEF u
  <2>7. u = line
    BY <2>3, <2>6
  <2> QED
    BY <2>7 DEF u
<1> QED
  BY <1>1, <1>2, <1>3, <1>4, <1>5, <1>6

LEMMA SpecialIs ==
    ASSUME NEW kind \in Names
    PROVE  /\ Special(kind) \in Seq(Tokens) /\ Len(Special(kind)) = 2
           /\ Special(kind)[1] = Tok("00") /\ Special(kind)[2] = Tok(kind)
<1>1. Special(kind) = <<Tok("00"), [t |-> kind, n |-> 0]>> /\ Tok(kind) = [t |-> kind, n |-> 0]
  BY DEF Special, Length, Tok
<1> QED
  BY <1>1, DataHead

\* What is where in a report.
StreamLen(n, f) == Width(f) * n + (IF f = "nested" /\ n # 0 THEN 2 ELSE 0)
\* The stream of a report, token by token.
LEMMA StreamIs ==
    ASSUME NEW r \in Seq(Kinds), NEW f \in {"bare", "nested", "raw"}
    PROVE  /\ Stream(r, f) \in Seq(Tokens)
           /\ Len(Stream(r, f)) = StreamLen(Len(r), f)
           /\ \A k \in 1 .. Len(r), c \in 1 .. Width(f) :
                  Stream(r, f)[Width(f) * (k - 1) + c] = LineToken(r[k], f, c)
           /\ (f = "nested" /\ r # <<>>) => Stream(r, f)[5 * Len(r) + 2] = Tok("flush")
<1> DEFINE N == Len(r)
           S == Stream(r, f)
<1>1. N \in Nat /\ DOMAIN r = 1 .. N /\ (r = <<>> <=> N = 0) /\ \A i \in 1 .. N : r[i] \in Kinds
  OBVIOUS
<1>2. /\ Lines(r) \in Seq(Seq(Tokens)) /\ Len(Lines(r)) = N
      /\ \A i \in 1 .. N : /\ Lines(r)[i] = Append(Text[r[i]], LF) /\ Len(Lines(r)[i]) = 3
                           /\ Lines(r)[i] \in Seq(Tokens)
                           /\ \A c \in 1 .. 3 : Lines(r)[i][c] = LineToken(r[i], "raw", c)
  <2>1. \A i \in 1 .. N : LET line == Append(Text[r[i]], LF)
                          IN  /\ line \in Seq(Tokens) /\ Len(line) = 3
                              /\ \A c \in 1 .. 3 : line[c] = LineToken(r[i], "raw", c)
    BY <1>1, LineIs DEF LineToken
  <2>2. Lines(r) = [i \in 1 .. N |-> Append(Text[r[i]], LF)]
    BY <1>1 DEF Lines
  <2> HIDE DEF N
  <2>3. \A i \in 1 .. N : Append(Text[r[i]], LF) \in Seq(Tokens)
    BY <2>1
  <2> DEFINE each(i) == Append(Text[r[i]], LF)
  <2> HIDE DEF each
  <2>4. Lines(r) = [i \in 1 .. N |-> each(i)] /\ \A i \in 1 .. N : each(i) \in Seq(Tokens)
    BY <2>2, <2>3 DEF each
  <2>5. Lines(r) \in Seq(Seq(Tokens)) /\ Len(Lines(r)) = N
    BY <1>1, <2>4
  <2>6. \A i \in 1 .. N : Lines(r)[i] = each(i)
    BY <2>4
  <2>7. \A i \in 1 .. N : /\ each(i) \in Seq(Tokens) /\ Len(each(i)) = 3
                          /\ \A c \in 1 .. 3 : each(i)[c] = LineToken(r[i], "raw", c)
    BY <2>1 DEF each
  <2>8. \A i \in 1 .. N : each(i) = Append(Text[r[i]], LF)
    BY DEF each
  <2> QED
    BY <2>5, <2>6, <2>7, <2>8
<1>3. CASE f # "nested" \/ r = <<>>
  <2>1. S = FlattenSeq(Lines(r))
    BY <1>3 DEF Stream
  <2>2. FlattenSeq(Lines(r)) \in Seq(Tokens) /\ Even(Lines(r), FlattenSeq(Lines(r)), 3, N)
    BY <1>2, FlattenEven
  <2>3. CASE f # "nested"
    <3>1. Width(f) = 3 /\ StreamLen(N, f) = 3 * N /\ \A x, c : LineToken(x, f, c) = LineToken(x, "raw", c)
      BY <1>1, <2>3 DEF Width, StreamLen, LineToken
    <3> QED
      BY <1>2, <2>1, <2>2, <2>3, <3>1 DEF Even
  <2>4. CASE r = <<>>
    <3>1. N = 0 /\ StreamLen(N, f) = 0
      BY <1>1, <2>4 DEF Width, StreamLen
    <3>2. Len(S) = 0
      BY <2>1, <2>2, <3>1 DEF Even
    <3> QED
      BY <2>1, <2>2, <2>4, <3>1, <3>2
  <2> QED
    BY <1>3, <2>3, <2>4
<1>4. CASE f = "nested" /\ r # <<>>
  <2> DEFINE P == [i \in DOMAIN r |-> Packet(Lines(r)[i])]
             fl == FlattenSeq(P)
  <2>1. S = fl \o Special("flush")
    BY <1>4 DEF Stream
  <2>2. \A i \in 1 .. N : /\ Packet(Lines(r)[i]) \in Seq(Tokens) /\ Len(Packet(Lines(r)[i])) = 5
                          /\ \A c \in 1 .. 5 : Packet(Lines(r)[i])[c] = LineToken(r[i], f, c)
    <3> SUFFICES ASSUME NEW i \in 1 .. N
                 PROVE  /\ Packet(Lines(r)[i]) \in Seq(Tokens) /\ Len(Packet(Lines(r)[i])) = 5
                        /\ \A c \in 1 .. 5 : Packet(Lines(r)[i])[c] = LineToken(r[i], f, c)
      OBVIOUS
    <3> DEFINE line == Lines(r)[i]
    <3>1. line \in Seq(Tokens) /\ Len(line) = 3 /\ \A c \in 1 .. 3 : line[c] = LineToken(r[i], "raw", c)
      BY <1>2
    <3> HIDE DEF line
    <3>2. /\ Packet(line) \in Seq(Tokens) /\ Len(Packet(line)) = 5
          /\ Packet(line)[1] = Tok("00") /\ Packet(line)[2] = DataLength
          /\ \A c \in 1 .. 3 : Packet(line)[2 + c] = line[c]
      <4>1. /\ Packet(line) \in Seq(Tokens) /\ Len(Packet(line)) = 2 + Len(line)
            /\ Packet(line)[1] = Tok("00") /\ Packet(line)[2] = [t |-> "data", n |-> Len(line)]
        BY <3>1, PacketIs
      <4>2. \A c \in 1 .. Len(line) : Packet(line)[2 + c] = line[c]
        BY <3>1, PacketIs
      <4> QED
        BY <3>1, <4>1, <4>2 DEF DataLength
    <3>3. Packet(line)[3] = line[1] /\ Packet(line)[4] = line[2] /\ Packet(line)[5] = line[3]
      BY <3>2
    <3>4. \A c \in 1 .. 5 : c = 1 \/ c = 2 \/ c = 3 \/ c = 4 \/ c = 5
      OBVIOUS
    <3>5. /\ line[1] = LineToken(r[i], "raw", 1)
          /\ line[2] = LineToken(r[i], "raw", 2)
          /\ line[3] = LineToken(r[i], "raw", 3)
      BY <3>1
    <3>6. \A c \in 1 .. 5 : Packet(line)[c] = LineToken(r[i], f, c)
      BY <1>4, <3>2, <3>3, <3>4, <3>5 DEF LineToken
    <3> QED
      BY <3>2, <3>6 DEF line
  <2>3. P \in Seq(Seq(Tokens)) /\ Len(P) = N /\ \A i \in 1 .. N : P[i] = Packet(Lines(r)[i])
    <3> HIDE DEF N
    <3>1. P = [i \in 1 .. N |-> Packet(Lines(r)[i])]
      BY <1>1
    <3>2. \A i \in 1 .. N : Packet(Lines(r)[i]) \in Seq(Tokens)
      BY <2>2
    <3> HIDE DEF P
    <3> QED
      BY <1>1, <3>1, <3>2
  <2> HIDE DEF P
  <2>4. fl \in Seq(Tokens) /\ Even(P, fl, 5, N)
    <3>1. \A i \in 1 .. Len(P) : Len(P[i]) = 5
      BY <2>2, <2>3
    <3> QED
      BY <2>3, <3>1, FlattenEven
  <2>5. /\ Len(fl) = 5 * N
        /\ \A k \in 1 .. N, c \in 1 .. 5 : fl[5 * (k - 1) + c] = LineToken(r[k], f, c)
    <3>1. Len(fl) = 5 * N /\ \A k \in 1 .. N, c \in 1 .. 5 : fl[5 * (k - 1) + c] = P[k][c]
      BY <2>4 DEF Even
    <3>2. ASSUME NEW k \in 1 .. N, NEW c \in 1 .. 5
          PROVE  fl[5 * (k - 1) + c] = LineToken(r[k], f, c)
      <4>1. fl[5 * (k - 1) + c] = P[k][c]
        BY <3>1
      <4>2. P[k] = Packet(Lines(r)[k]) /\ Packet(Lines(r)[k])[c] = LineToken(r[k], f, c)
        BY <2>2, <2>3
      <4> QED
        BY <4>1, <4>2
    <3> QED
      BY <3>1, <3>2
  <2>6. Special("flush") \in Seq(Tokens) /\ Len(Special("flush")) = 2 /\ Special("flush")[2] = Tok("flush")
    <3>1. "flush" \in Names
      BY DEF Names
    <3> QED
      BY <3>1, SpecialIs
  <2> DEFINE e == Special("flush")
  <2> HIDE DEF e, fl
  <2>7. /\ fl \o e \in Seq(Tokens) /\ Len(fl \o e) = 5 * N + 2
        /\ \A i \in 1 .. Len(fl) : (fl \o e)[i] = fl[i]
        /\ (fl \o e)[Len(fl) + 2] = e[2]
    <3>1. fl \in Seq(Tokens) /\ e \in Seq(Tokens) /\ Len(e) = 2 /\ Len(fl) = 5 * N /\ 2 \in 1 .. Len(e)
      BY <2>4, <2>5, <2>6 DEF e
    <3>2. fl \o e \in Seq(Tokens) /\ Len(fl \o e) = 5 * N + 2
      <4>1. fl \o e \in Seq(Tokens)
        BY <3>1
      <4>2. Len(fl \o e) = Len(fl) + Len(e)
        <5>1. fl \in Seq(Tokens) /\ e \in Seq(Tokens)
          BY <3>1
        <5> QED
          BY <5>1, Concat
      <4> QED
        BY <3>1, <4>1, <4>2
    <3>3. \A i \in 1 .. Len(fl) : (fl \o e)[i] = fl[i]
      BY <3>1, Concat
    <3>4. (fl \o e)[Len(fl) + 2] = e[2]
      BY <3>1, Concat
    <3> QED
      BY <3>2, <3>3, <3>4
  <2>8. \A k \in 1 .. N, c \in 1 .. 5 : 5 * (k - 1) + c \in 1 .. Len(fl)
    BY <1>1, <2>5
  <2>9. Width(f) = 5 /\ StreamLen(N, f) = 5 * N + 2
    BY <1>1, <1>4 DEF Width, StreamLen
  <2>10. \A k \in 1 .. N, c \in 1 .. 5 : S[5 * (k - 1) + c] = LineToken(r[k], f, c)
    BY <2>1, <2>5, <2>7, <2>8 DEF e
  <2>11. S \in Seq(Tokens) /\ Len(S) = 5 * N + 2 /\ S[5 * N + 2] = Tok("flush")
    BY <2>1, <2>5, <2>6, <2>7 DEF e
  <2> QED
    BY <2>9, <2>10, <2>11
<1> QED
  BY <1>3, <1>4

-----------------------------------------------------------------------------
(* Pieces of sequences.                                                    *)
\* Two sequences with the same elements are one.
LEMMA SameSeq ==
    ASSUME NEW X, NEW p \in Seq(X), NEW q \in Seq(X), Len(p) = Len(q), \A i \in 1 .. Len(p) : p[i] = q[i]
    PROVE  p = q
OBVIOUS

LEMMA Piece ==
    ASSUME NEW X, NEW q \in Seq(X), NEW a \in Nat, NEW b \in Nat, a <= b, b <= Len(q)
    PROVE  /\ SubSeq(q, a + 1, b) \in Seq(X)
           /\ Len(SubSeq(q, a + 1, b)) = b - a
           /\ \A i \in 1 .. b - a : SubSeq(q, a + 1, b)[i] = q[a + i]
<1> DEFINE u == SubSeq(q, a + 1, b)
<1>1. a + 1 \in Nat /\ b \in Nat /\ (a + 1) .. b \subseteq 1 .. Len(q) /\ Len(q) \in Nat
  OBVIOUS
<1>2. \A i \in (a + 1) .. b : q[i] \in X
  BY <1>1
<1>3. u = [i \in 1 .. b - a |-> q[a + i]]
  <2>1. u = [i \in 1 .. (1 + b - (a + 1)) |-> q[i + (a + 1) - 1]]
    BY <1>1
  <2>2. 1 + b - (a + 1) = b - a /\ \A i \in 1 .. b - a : i + (a + 1) - 1 = a + i
    BY <1>1
  <2> QED
    BY <2>1, <2>2
<1>4. b - a \in Nat /\ \A i \in 1 .. b - a : q[a + i] \in X
  <2>1. \A i \in 1 .. b - a : a + i \in (a + 1) .. b
    BY <1>1
  <2> QED
    BY <1>1, <1>2, <2>1
<1> HIDE DEF u
<1>5. u \in Seq(X) /\ Len(u) = b - a
  BY <1>3, <1>4
<1>6. \A i \in 1 .. b - a : u[i] = q[a + i]
  BY <1>3
<1> QED
  BY <1>5, <1>6 DEF u

\* A piece of a piece, and a piece after another.
LEMMA PieceOfPiece ==
    ASSUME NEW X, NEW q \in Seq(X), NEW a \in Nat, NEW b \in Nat, a <= b, b <= Len(q),
           NEW c \in Nat, NEW d \in Nat, c <= d, d <= b - a
    PROVE  SubSeq(SubSeq(q, a + 1, b), c + 1, d) = SubSeq(q, a + c + 1, a + d)
<1> DEFINE u == SubSeq(q, a + 1, b)
           v == SubSeq(u, c + 1, d)
           w == SubSeq(q, (a + c) + 1, a + d)
<1>1. u \in Seq(X) /\ Len(u) = b - a /\ \A i \in 1 .. b - a : u[i] = q[a + i]
  BY Piece
<1> HIDE DEF u
<1>2. v \in Seq(X) /\ Len(v) = d - c /\ \A i \in 1 .. d - c : v[i] = u[c + i]
  BY <1>1, Piece
<1>3. w \in Seq(X) /\ Len(w) = d - c /\ \A i \in 1 .. d - c : w[i] = q[(a + c) + i]
  <2>1. a + c \in Nat /\ a + d \in Nat /\ a + c <= a + d /\ a + d <= Len(q) /\ (a + d) - (a + c) = d - c
    OBVIOUS
  <2> QED
    BY <2>1, Piece
<1> HIDE DEF v, w
<1>4. ASSUME NEW i \in 1 .. d - c PROVE v[i] = w[i]
  <2>1. c + i \in 1 .. b - a /\ a + (c + i) = (a + c) + i
    OBVIOUS
  <2>2. v[i] = u[c + i] /\ u[c + i] = q[a + (c + i)]
    BY <1>1, <1>2, <2>1
  <2> QED
    BY <1>3, <2>1, <2>2
<1>5. v = w
  BY <1>2, <1>3, <1>4, SameSeq
<1>6. (a + c) + 1 = a + c + 1
  OBVIOUS
<1> QED
  BY <1>5, <1>6 DEF u, v, w

LEMMA PieceAfterPiece ==
    ASSUME NEW X, NEW q \in Seq(X), NEW a \in Nat, NEW b \in Nat, a <= b, b <= Len(q)
    PROVE  SubSeq(q, 1, a) \o SubSeq(q, a + 1, b) = SubSeq(q, 1, b)
<1> DEFINE u == SubSeq(q, 0 + 1, a)
           v == SubSeq(q, a + 1, b)
           w == SubSeq(q, 0 + 1, b)
<1>0. 0 \in Nat /\ 0 <= a /\ 0 <= b /\ a <= Len(q) /\ a - 0 = a /\ b - 0 = b /\ \A i \in Nat : 0 + i = i
  OBVIOUS
<1>1. u \in Seq(X) /\ Len(u) = a /\ \A i \in 1 .. a : u[i] = q[i]
  <2>1. u \in Seq(X) /\ Len(u) = a - 0 /\ \A i \in 1 .. a - 0 : u[i] = q[0 + i]
    BY <1>0, Piece
  <2> HIDE DEF u
  <2> QED
    BY <1>0, <2>1
<1>2. v \in Seq(X) /\ Len(v) = b - a /\ \A i \in 1 .. b - a : v[i] = q[a + i]
  BY Piece
<1>3. w \in Seq(X) /\ Len(w) = b /\ \A i \in 1 .. b : w[i] = q[i]
  <2>1. w \in Seq(X) /\ Len(w) = b - 0 /\ \A i \in 1 .. b - 0 : w[i] = q[0 + i]
    BY <1>0, Piece
  <2> HIDE DEF w
  <2> QED
    BY <1>0, <2>1
<1> HIDE DEF u, v, w
<1>4. u \o v \in Seq(X) /\ Len(u \o v) = a + (b - a)
      /\ (\A i \in 1 .. a : (u \o v)[i] = u[i]) /\ (\A i \in 1 .. b - a : (u \o v)[a + i] = v[i])
  <2>1. u \in Seq(X) /\ v \in Seq(X)
    BY <1>1, <1>2
  <2>2. u \o v \in Seq(X) /\ Len(u \o v) = Len(u) + Len(v)
    BY <2>1, Concat
  <2>3. \A i \in 1 .. Len(u) : (u \o v)[i] = u[i]
    BY <2>1, Concat
  <2>4. \A i \in 1 .. Len(v) : (u \o v)[Len(u) + i] = v[i]
    BY <2>1, Concat
  <2> QED
    BY <1>1, <1>2, <2>2, <2>3, <2>4
<1>5. a + (b - a) = b
  OBVIOUS
<1> DEFINE cat == u \o v
<1>41. (\A i \in 1 .. a : cat[i] = u[i]) /\ (\A i \in 1 .. b - a : cat[a + i] = v[i])
  BY <1>4
<1> HIDE DEF cat
<1>6. ASSUME NEW i \in 1 .. b PROVE cat[i] = w[i]
  <2>1. CASE i <= a
    <3>1. i \in 1 .. a
      BY <2>1
    <3> QED
      BY <1>1, <1>3, <1>41, <3>1
  <2>2. CASE i > a
    <3>1. i - a \in 1 .. b - a /\ a + (i - a) = i
      BY <2>2
    <3>2. cat[a + (i - a)] = v[i - a] /\ v[i - a] = q[a + (i - a)]
      BY <1>2, <1>41, <3>1
    <3>3. w[i] = q[i]
      BY <1>3
    <3>4. cat[i] = q[i]
      BY <3>1, <3>2
    <3> QED
      BY <3>3, <3>4
  <2> QED
    BY <2>1, <2>2
<1>7. u \o v = w
  BY <1>3, <1>4, <1>5, <1>6, SameSeq DEF cat
<1>8. 0 + 1 = 1
  OBVIOUS
<1> QED
  BY <1>7, <1>8 DEF u, v, w

LEMMA WholePiece == ASSUME NEW X, NEW q \in Seq(X) PROVE SubSeq(q, 1, Len(q)) = q /\ SubSeq(q, 1, 0) = <<>>
OBVIOUS

\* The first n of a sequence.
LEMMA Prefix ==
    ASSUME NEW X, NEW q \in Seq(X), NEW n \in Nat, n <= Len(q)
    PROVE  /\ SubSeq(q, 1, n) \in Seq(X) /\ Len(SubSeq(q, 1, n)) = n
           /\ \A i \in 1 .. n : SubSeq(q, 1, n)[i] = q[i]
<1>1. 0 \in Nat /\ 0 <= n /\ 0 + 1 = 1 /\ n - 0 = n /\ \A i \in Nat : 0 + i = i
  OBVIOUS
<1> DEFINE u == SubSeq(q, 0 + 1, n)
<1>2. u \in Seq(X) /\ Len(u) = n - 0 /\ \A i \in 1 .. n - 0 : u[i] = q[0 + i]
  BY <1>1, Piece
<1> HIDE DEF u
<1>3. u \in Seq(X) /\ Len(u) = n /\ \A i \in 1 .. n : u[i] = q[i]
  BY <1>1, <1>2
<1> QED
  BY <1>1, <1>3 DEF u

-----------------------------------------------------------------------------
(* What a scan says of a beginning of a report.                            *)
\* The place of a token in a stream of lines.
LEMMA Thirds ==
    ASSUME NEW n \in Nat, NEW i \in 1 .. 3 * n
    PROVE  \E k \in 1 .. n, c \in 1 .. 3 : i = 3 * (k - 1) + c
<1> DEFINE T == {k \in 1 .. n : i <= 3 * k}
<1>1. T \subseteq Nat
  OBVIOUS
<1>2. n \in T
  OBVIOUS
<1> HIDE DEF T
<1>3. PICK k \in T : \A y \in T : ~ (y < k)
  <2>1. T # {}
    BY <1>2
  <2> QED
    BY <1>1, <2>1, LeastNat
<1>4. k \in 1 .. n /\ i <= 3 * k
  BY DEF T
<1>5. 3 * (k - 1) < i
  <2>1. CASE k = 1
    BY <2>1
  <2>2. CASE k # 1
    <3>1. k - 1 \in 1 .. n /\ k - 1 < k
      BY <1>4, <2>2
    <3>2. ~(i <= 3 * (k - 1))
      BY <1>3, <3>1 DEF T
    <3> QED
      BY <1>4, <3>1, <3>2
  <2> QED
    BY <2>1, <2>2
<1>6. i - 3 * (k - 1) \in 1 .. 3 /\ i = 3 * (k - 1) + (i - 3 * (k - 1))
  BY <1>4, <1>5
<1> QED
  BY <1>4, <1>6

\* Some of a raw report: s is the first a tokens of the lines r.
SomeOf(s, r, a) ==
    /\ s \in Seq(Tokens) /\ Len(s) = a /\ a \in Nat /\ a <= 3 * Len(r)
    /\ \A k \in 1 .. Len(r), c \in 1 .. 3 :
           3 * (k - 1) + c <= a => s[3 * (k - 1) + c] = LineToken(r[k], "raw", c)

\* The tokens of the lines that are there.
LEMMA RawTokens ==
    ASSUME NEW r \in Seq(Kinds), NEW s, NEW a, SomeOf(s, r, a), NEW k \in 1 .. Len(r)
    PROVE  /\ 3 * k - 2 <= a => s[3 * k - 2] = Tok(First(r[k])) /\ s[3 * k - 2] # LF
           /\ 3 * k - 1 <= a => s[3 * k - 1] = Tok(Second(r[k])) /\ s[3 * k - 1] # LF
           /\ 3 * k <= a => s[3 * k] = LF
<1>1. \A c \in 1 .. 3 : 3 * (k - 1) + c <= a => s[3 * (k - 1) + c] = LineToken(r[k], "raw", c)
  BY DEF SomeOf
<1>2. k \in Nat /\ 3 * (k - 1) + 1 = 3 * k - 2 /\ 3 * (k - 1) + 2 = 3 * k - 1 /\ 3 * (k - 1) + 3 = 3 * k
      /\ 1 \in 1 .. 3 /\ 2 \in 1 .. 3 /\ 3 \in 1 .. 3
  OBVIOUS
<1>3. /\ 3 * k - 2 <= a => s[3 * k - 2] = LineToken(r[k], "raw", 1)
      /\ 3 * k - 1 <= a => s[3 * k - 1] = LineToken(r[k], "raw", 2)
      /\ 3 * k <= a => s[3 * k] = LineToken(r[k], "raw", 3)
  BY <1>1, <1>2
<1>4. /\ LineToken(r[k], "raw", 1) = Tok(First(r[k])) /\ LineToken(r[k], "raw", 2) = Tok(Second(r[k]))
      /\ LineToken(r[k], "raw", 3) = LF
  BY DEF LineToken
<1>5. \A x : Tok(First(x)) # LF /\ Tok(Second(x)) # LF
  BY DEF Tok, LF, First, Second
<1> QED
  BY <1>3, <1>4, <1>5

\* Where the lines start, and what they are.
LEMMA RawStarts ==
    ASSUME NEW r \in Seq(Kinds), NEW s, NEW a, SomeOf(s, r, a)
    PROVE  /\ \A k \in 1 .. Len(r) : 3 * k - 2 <= a => 3 * k - 2 \in LineStarts(s)
           /\ \A i \in LineStarts(s) : \E k \in 1 .. Len(r) : i = 3 * k - 2 /\ i <= a
<1>1. Len(r) \in Nat /\ a \in Nat /\ DOMAIN s = 1 .. a /\ a <= 3 * Len(r)
  BY DEF SomeOf
<1>2. ASSUME NEW k \in 1 .. Len(r), 3 * k - 2 <= a
      PROVE  3 * k - 2 \in LineStarts(s)
  <2>1. 3 * k - 2 \in 1 .. a /\ s[3 * k - 2] # LF
    BY <1>1, <1>2, RawTokens
  <2>2. CASE k = 1
    BY <1>1, <2>1, <2>2 DEF LineStarts
  <2>3. CASE k # 1
    <3>1. k - 1 \in 1 .. Len(r) /\ 3 * (k - 1) <= a /\ 3 * (k - 1) = (3 * k - 2) - 1
      BY <1>1, <1>2, <2>3
    <3>2. s[(3 * k - 2) - 1] = LF
      <4>1. s[3 * (k - 1)] = LF
        BY <3>1, RawTokens
      <4> QED
        BY <3>1, <4>1
    <3> DEFINE i == 3 * k - 2
    <3>3. i \in 1 .. a /\ s[i] # LF /\ s[i - 1] = LF
      BY <2>1, <3>2
    <3> HIDE DEF i
    <3>4. i \in LineStarts(s)
      BY <1>1, <3>3 DEF LineStarts
    <3> QED
      BY <3>4 DEF i
  <2> QED
    BY <2>2, <2>3
<1>3. ASSUME NEW i \in LineStarts(s)
      PROVE  \E k \in 1 .. Len(r) : i = 3 * k - 2 /\ i <= a
  <2>1. i \in 1 .. a /\ s[i] # LF /\ (i = 1 \/ s[i - 1] = LF)
    BY <1>1 DEF LineStarts
  <2>2. i \in 1 .. 3 * Len(r)
    BY <1>1, <2>1
  <2>3. PICK k \in 1 .. Len(r), c \in 1 .. 3 : i = 3 * (k - 1) + c
    BY <1>1, <2>2, Thirds
  <2>4. c # 3
    <3>1. CASE c = 3
      <4>1. i = 3 * k
        BY <2>3, <3>1
      <4> QED
        BY <2>1, <4>1, RawTokens
    <3> QED
      BY <3>1
  <2>5. c # 2
    <3>1. CASE c = 2
      <4>1. i = 3 * k - 1 /\ i # 1 /\ i - 1 = 3 * k - 2 /\ 3 * k - 2 <= a
        <5>1. k \in Nat \ {0} /\ i = 3 * (k - 1) + 2 /\ i <= a /\ i \in Nat /\ a \in Nat
          BY <1>1, <2>1, <2>3, <3>1
        <5>2. i = 3 * k - 1 /\ i # 1
          BY <5>1
        <5> QED
          BY <5>1, <5>2
      <4>2. s[3 * k - 2] # LF
        BY <4>1, RawTokens
      <4>3. s[i - 1] = s[3 * k - 2]
        BY <4>1
      <4> QED
        BY <2>1, <4>1, <4>2, <4>3
    <3> QED
      BY <3>1
  <2>6. i = 3 * k - 2
    BY <2>3, <2>4, <2>5
  <2> QED
    BY <2>1, <2>6
<1> QED
  BY <1>2, <1>3

\* A line of which the text is there is whole; one of which less is there is no line of a report.
LEMMA RawLine ==
    ASSUME NEW r \in Seq(Kinds), NEW s, NEW a, SomeOf(s, r, a), NEW k \in 1 .. Len(r), 3 * k - 2 <= a
    PROVE  LineFrom(s, 3 * k - 2) = IF 3 * k - 1 <= a THEN Text[r[k]] ELSE <<Tok(First(r[k]))>>
<1> DEFINE i == 3 * k - 2
           e == IF 3 * k - 1 <= a THEN i + 1 ELSE i
           M == {j \in i .. Len(s) : \A m \in i .. j : s[m] # LF}
<1>1. a \in Nat /\ Len(s) = a /\ s \in Seq(Tokens) /\ k \in Nat \ {0} /\ r[k] \in Kinds
  BY DEF SomeOf
<1>2. s[i] = Tok(First(r[k])) /\ s[i] # LF
  BY RawTokens
<1>3. i + 1 <= a => s[i + 1] = Tok(Second(r[k])) /\ s[i + 1] # LF
  <2>1. i + 1 = 3 * k - 1
    BY <1>1
  <2>2. 3 * k - 1 <= a => s[3 * k - 1] = Tok(Second(r[k])) /\ s[3 * k - 1] # LF
    BY RawTokens
  <2> QED
    BY <2>1, <2>2
<1>4. i + 2 <= a => s[i + 2] = LF
  <2>1. i + 2 = 3 * k
    BY <1>1
  <2>2. 3 * k <= a => s[3 * k] = LF
    BY RawTokens
  <2> QED
    BY <2>1, <2>2
<1>5. i \in 1 .. a /\ e = (IF i + 1 <= a THEN i + 1 ELSE i)
  BY <1>1
<1> HIDE DEF i, e
<1>6. e \in M
  <2>1. e \in i .. Len(s)
    BY <1>1, <1>5
  <2>2. \A m \in i .. e : m = i \/ (i + 1 <= a /\ m = i + 1)
    BY <1>1, <1>5
  <2> QED
    BY <1>2, <1>3, <2>1, <2>2
<1>7. M \subseteq Int
  BY <1>1, <1>5
<1>8. \A y \in M : y <= e
  <2> SUFFICES ASSUME NEW y \in M, ~(y <= e) PROVE FALSE
    OBVIOUS
  <2>1. y \in i .. a /\ \A m \in i .. y : s[m] # LF
    BY <1>1
  <2>2. i + 1 <= a /\ e = i + 1 /\ i + 2 \in i .. y /\ i + 2 <= a
    BY <1>1, <1>5, <2>1
  <2> QED
    BY <1>4, <2>1, <2>2
<1> HIDE DEF M
<1>9. Max(M) = e
  BY <1>6, <1>7, <1>8, MaxIs
<1>10. LineFrom(s, i) = SubSeq(s, i, e)
  BY <1>9 DEF LineFrom, M
<1> DEFINE l == SubSeq(s, i, e)
<1>11. l \in Seq(Tokens) /\ Len(l) = e - (i - 1) /\ \A j \in 1 .. e - (i - 1) : l[j] = s[(i - 1) + j]
  <2>1. i - 1 \in Nat /\ e \in Nat /\ i - 1 <= e /\ e <= Len(s) /\ (i - 1) + 1 = i
    BY <1>1, <1>5
  <2> DEFINE v == SubSeq(s, (i - 1) + 1, e)
             x == i - 1
  <2>2. v \in Seq(Tokens) /\ Len(v) = e - (i - 1) /\ \A j \in 1 .. e - (i - 1) : v[j] = s[(i - 1) + j]
    <3>1. x \in Nat /\ e \in Nat /\ x <= e /\ e <= Len(s) /\ s \in Seq(Tokens)
      BY <1>1, <2>1
    <3> HIDE DEF x
    <3>2. LET u == SubSeq(s, x + 1, e)
          IN  u \in Seq(Tokens) /\ Len(u) = e - x /\ \A j \in 1 .. e - x : u[j] = s[x + j]
      BY <3>1, Piece
    <3> QED
      BY <3>2 DEF x
  <2>3. v = l
    BY <2>1
  <2> HIDE DEF v, l
  <2> QED
    BY <2>2, <2>3
<1> HIDE DEF l
<1>12. CASE i + 1 <= a
  <2>1. e - (i - 1) = 2 /\ (i - 1) + 1 = i /\ (i - 1) + 2 = i + 1 /\ 3 * k - 1 <= a
    BY <1>1, <1>5, <1>12 DEF i
  <2>2. Len(l) = 2 /\ l[1] = s[i] /\ l[2] = s[i + 1]
    BY <1>11, <2>1
  <2>3. l = <<l[1], l[2]>>
    BY <1>11, <2>2, IsPair
  <2>4. l = Text[r[k]]
    BY <1>1, <1>2, <1>3, <1>12, <2>2, <2>3, TextIs
  <2> QED
    BY <1>10, <2>1, <2>4 DEF l, i
<1>13. CASE ~(i + 1 <= a)
  <2>1. e - (i - 1) = 1 /\ (i - 1) + 1 = i /\ ~(3 * k - 1 <= a)
    BY <1>1, <1>5, <1>13 DEF i
  <2>2. Len(l) = 1 /\ l[1] = s[i]
    BY <1>11, <2>1
  <2>3. l = <<l[1]>>
    BY <1>11, <2>2, IsSingle
  <2>4. l = <<Tok(First(r[k]))>>
    BY <1>2, <2>2, <2>3
  <2> QED
    BY <1>10, <2>1, <2>4 DEF l, i
<1> QED
  BY <1>12, <1>13

\* What a scan of some of the report says: v of the lines that are there, k and up,
\* of which the whole report is there if all is TRUE.
Says(v, r, there, all) ==
    /\ v \in [ok : BOOLEAN, err : {"none", "refused", "broken"}]
    /\ v.err = "none" => /\ \A j \in there : r[j] \notin Refusals
                         /\ v.ok <=> \E j \in there : r[j] = "unpackOk"
    /\ all => /\ v.err # "broken"
              /\ v.err = "refused" => \E j \in there : r[j] \in Refusals

LEMMA ShortLine ==
    ASSUME NEW x
    PROVE  LET l == <<Tok(First(x))>> IN ~IsUnpackOkLine(l)
<1> DEFINE a == Tok(First(x))
<1>1. a # LF
  BY DEF Tok, LF, First
<1> HIDE DEF a
<1>2. TrimRight(<<a>>) = <<a>>
  BY <1>1, TrimOne
<1>3. Len(Text["unpackOk"]) = 2
  BY DEF Text
<1>4. Len(<<a>>) = 1
  OBVIOUS
<1>5. <<a>> # Text["unpackOk"]
  BY <1>3, <1>4
<1> QED
  BY <1>2, <1>5 DEF IsUnpackOkLine, a

\* The scan of lines says what is there of the report (scanRawReportStatusStream).
LEMMA RawScan ==
    ASSUME NEW r \in Seq(Kinds), NEW s, NEW a, SomeOf(s, r, a)
    PROVE  Says(ScanRawReportStatusStream(s), r, {k \in 1 .. Len(r) : 3 * k - 1 <= a}, a = 3 * Len(r))
<1> DEFINE there == {k \in 1 .. Len(r) : 3 * k - 1 <= a}
           v == ScanRawReportStatusStream(s)
<1>1. Len(r) \in Nat /\ a \in Nat /\ \A k \in 1 .. Len(r) : r[k] \in Kinds
  BY DEF SomeOf
<1>2. \A k \in there : Text[r[k]] \in RawLines(s)
  <2> SUFFICES ASSUME NEW k \in there PROVE Text[r[k]] \in RawLines(s)
    OBVIOUS
  <2>1. k \in 1 .. Len(r) /\ 3 * k - 1 <= a /\ 3 * k - 2 <= a
    BY <1>1
  <2>2. LineFrom(s, 3 * k - 2) = Text[r[k]]
    BY <2>1, RawLine
  <2>3. 3 * k - 2 \in LineStarts(s)
    BY <2>1, RawStarts
  <2> QED
    BY <2>2, <2>3 DEF RawLines
<1>3. ASSUME NEW l \in RawLines(s)
      PROVE  \/ \E k \in there : l = Text[r[k]]
             \/ a # 3 * Len(r) /\ \E x : l = <<Tok(First(x))>>
  <2>1. PICK i \in LineStarts(s) : l = LineFrom(s, i)
    BY DEF RawLines
  <2>2. PICK k \in 1 .. Len(r) : i = 3 * k - 2 /\ i <= a
    BY RawStarts
  <2>3. l = IF 3 * k - 1 <= a THEN Text[r[k]] ELSE <<Tok(First(r[k]))>>
    BY <2>1, <2>2, RawLine
  <2>4. ~(3 * k - 1 <= a) => a # 3 * Len(r)
    BY <1>1, <2>2
  <2> QED
    BY <2>2, <2>3, <2>4
<1> HIDE DEF there
<1>4. v.ok <=> \E k \in there : r[k] = "unpackOk"
  <2>1. v.ok <=> \E l \in RawLines(s) : IsUnpackOkLine(l)
    BY DEF ScanRawReportStatusStream
  <2>2. \A k \in there : IsUnpackOkLine(Text[r[k]]) <=> r[k] = "unpackOk"
    BY <1>1, LineMeans DEF there
  <2>3. ASSUME NEW l \in RawLines(s), IsUnpackOkLine(l) PROVE \E k \in there : r[k] = "unpackOk"
    BY <1>3, <2>2, <2>3, ShortLine
  <2> QED
    BY <1>2, <2>1, <2>2, <2>3
<1>5. v.err = IF \E l \in RawLines(s) : DetectError(l) THEN "refused" ELSE "none"
  BY DEF ScanRawReportStatusStream
<1>6. \A k \in there : DetectError(Text[r[k]]) <=> r[k] \in Refusals
  BY <1>1, LineMeans DEF there
<1>7. v.err = "none" => \A k \in there : r[k] \notin Refusals
  BY <1>2, <1>5, <1>6
<1>8. (a = 3 * Len(r) /\ v.err = "refused") => \E k \in there : r[k] \in Refusals
  <2>1. ASSUME a = 3 * Len(r), NEW l \in RawLines(s), DetectError(l) PROVE \E k \in there : r[k] \in Refusals
    BY <1>3, <1>6, <2>1
  <2> QED
    BY <1>5, <2>1
<1>9. v \in [ok : BOOLEAN, err : {"none", "refused", "broken"}]
  BY DEF ScanRawReportStatusStream
<1> HIDE DEF v
<1>10. Says(v, r, there, a = 3 * Len(r))
  BY <1>4, <1>5, <1>7, <1>8, <1>9 DEF Says
<1> QED
  BY <1>10 DEF v, there

Agree(g, h, lo, hi) == \A j \in lo .. hi : g[j] = h[j]
\* A scan from one place looks at later places only.
LEMMA ScanAgrees ==
    ASSUME NEW s \in Seq(Tokens), NEW i \in 1 .. Len(s) + 1, NEW g, NEW h,
           Agree(g, h, i + 1, Len(s) + 1)
    PROVE  ScanAt(s, g, i) = ScanAt(s, h, i)
<1>1. CASE i + 1 > Len(s)
  BY <1>1 DEF ScanAt
<1>2. CASE ~(i + 1 > Len(s))
  <2> DEFINE kind == s[i + 1].t
             n    == s[i + 1].n
             end  == i + 1 + n
             line == SubSeq(s, i + 2, end)
  <2>1. n \in Nat /\ Len(s) \in Nat /\ i \in Nat /\ i + 1 <= Len(s)
    <3>1. i + 1 \in 1 .. Len(s)
      BY <1>2
    <3>2. s[i + 1] \in Tokens
      BY <3>1
    <3> QED
      BY <3>1, <3>2 DEF Tokens
  <2>2. g[i + 2] = h[i + 2]
    <3>1. i + 2 \in (i + 1) .. (Len(s) + 1)
      BY <2>1
    <3> QED
      BY <3>1 DEF Agree
  <2>3. end <= Len(s) => g[end + 1] = h[end + 1]
    <3>1. end <= Len(s) => end + 1 \in (i + 1) .. (Len(s) + 1)
      BY <2>1
    <3> QED
      BY <3>1 DEF Agree
  <2> HIDE DEF n
  <2> DEFINE big == end > Len(s)
  <2>4. \A scan : ScanAt(s, scan, i) =
            CASE kind \in {"flush", "responseEnd"} -> [ok |-> FALSE, err |-> "none"]
               [] kind \in {"delimiter", "empty"} -> scan[i + 2]
               [] kind = "data" /\ end <= Len(s) ->
                    IF DetectError(line) THEN [ok |-> FALSE, err |-> "refused"]
                    ELSE [scan[end + 1] EXCEPT !.ok = @ \/ IsUnpackOkLine(line)]
               [] OTHER -> [ok |-> FALSE, err |-> "broken"]
    BY <1>2 DEF ScanAt, n
  <2> HIDE DEF kind, end, line
  <2>5. CASE kind = "data" /\ end <= Len(s)
    <3>1. \A scan : ScanAt(s, scan, i) = IF DetectError(line) THEN [ok |-> FALSE, err |-> "refused"]
                                         ELSE [scan[end + 1] EXCEPT !.ok = @ \/ IsUnpackOkLine(line)]
      BY <2>4, <2>5
    <3> QED
      BY <2>3, <2>5, <3>1
  <2>6. CASE kind \in {"delimiter", "empty"}
    BY <2>2, <2>4, <2>6
  <2>7. CASE ~(kind = "data" /\ end <= Len(s)) /\ kind \notin {"delimiter", "empty"}
    BY <2>4, <2>7
  <2> QED
    BY <2>5, <2>6, <2>7
<1> QED
  BY <1>1, <1>2

\* The scan from the last m places on.
HasScan(s, m) == \E g : g = [i \in Len(s) + 2 - m .. Len(s) + 1 |-> ScanAt(s, g, i)]
\* So there is a scan from every place, and it is what the recursion gives.
LEMMA ScanExists ==
    ASSUME NEW s \in Seq(Tokens)
    PROVE  \E g : g = [i \in 1 .. Len(s) + 1 |-> ScanAt(s, g, i)]
<1> DEFINE L == Len(s)
           T == {m \in 0 .. L + 1 : ~HasScan(s, m)}
<1>1. L \in Nat /\ T \subseteq Nat
  OBVIOUS
<1>2. ASSUME T # {} PROVE FALSE
  <2> HIDE DEF T
  <2>1. PICK m \in T : \A y \in T : ~ (y < m)
    BY <1>1, <1>2, LeastNat
  <2>2. m \in 0 .. L + 1 /\ ~HasScan(s, m)
    BY DEF T
  <2>3. m # 0
    <3>1. CASE m = 0
      <4> DEFINE g == [i \in {} |-> 0]
      <4>1. L + 2 - 0 .. L + 1 = {}
        BY <1>1
      <4>2. g = [i \in {} |-> ScanAt(s, g, i)]
        OBVIOUS
      <4>3. g = [i \in L + 2 - 0 .. L + 1 |-> ScanAt(s, g, i)]
        BY <4>1, <4>2
      <4> HIDE DEF g
      <4> QED
        BY <2>2, <3>1, <4>3 DEF HasScan
    <3> QED
      BY <3>1
  <2>4. m - 1 \in 0 .. L + 1 /\ m - 1 < m
    BY <1>1, <2>2, <2>3
  <2>5. HasScan(s, m - 1)
    BY <2>1, <2>4 DEF T
  <2> DEFINE lo == L + 2 - m
  <2>6. lo \in 1 .. L + 1 /\ L + 2 - (m - 1) = lo + 1
    BY <1>1, <2>2, <2>3
  <2>7. PICK g : g = [i \in L + 2 - (m - 1) .. L + 1 |-> ScanAt(s, g, i)]
    BY <2>5 DEF HasScan
  <2> DEFINE h == [i \in lo .. L + 1 |-> IF i = lo THEN ScanAt(s, g, lo) ELSE g[i]]
  <2> HIDE DEF lo
  <2>8. \A j \in (lo + 1) .. (L + 1) : h[j] = g[j]
    <3>1. \A j \in (lo + 1) .. (L + 1) : j \in lo .. L + 1 /\ j # lo
      BY <1>1, <2>6
    <3> QED
      BY <3>1
  <2>9. \A i \in lo .. L + 1 : i \in 1 .. L + 1 /\ Agree(g, h, i + 1, L + 1)
    <3>1. \A i \in lo .. L + 1 : i \in 1 .. L + 1 /\ \A j \in (i + 1) .. (L + 1) : j \in (lo + 1) .. (L + 1)
      BY <1>1, <2>6
    <3> QED
      BY <2>8, <3>1 DEF Agree
  <2>10. \A i \in lo .. L + 1 : ScanAt(s, g, i) = ScanAt(s, h, i)
    BY <2>9, ScanAgrees
  <2>11. \A i \in lo .. L + 1 : h[i] = ScanAt(s, g, i)
    <3>1. \A i \in lo .. L + 1 : i = lo \/ i \in (lo + 1) .. (L + 1)
      BY <1>1, <2>6
    <3>2. \A i \in (lo + 1) .. (L + 1) : g[i] = ScanAt(s, g, i)
      BY <2>6, <2>7
    <3>3. h[lo] = ScanAt(s, g, lo)
      BY <1>1, <2>6
    <3> QED
      BY <2>8, <3>1, <3>2, <3>3
  <2>12. h = [i \in lo .. L + 1 |-> h[i]]
    OBVIOUS
  <2> HIDE DEF h
  <2>13. h = [i \in lo .. L + 1 |-> ScanAt(s, h, i)]
    BY <2>10, <2>11, <2>12
  <2>14. HasScan(s, m)
    BY <2>13 DEF HasScan, lo
  <2> QED
    BY <2>2, <2>14
<1>3. L + 1 \notin T
  BY <1>2
<1>4. HasScan(s, L + 1)
  BY <1>1, <1>3
<1>5. L + 2 - (L + 1) = 1
  BY <1>1
<1> QED
  BY <1>4, <1>5 DEF HasScan

LEMMA ScanFromStart ==
    ASSUME NEW s \in Seq(Tokens)
    PROVE  \E g : /\ g = [i \in 1 .. Len(s) + 1 |-> ScanAt(s, g, i)]
                  /\ ScanNestedPktLineStream(s) = g[1]
<1> DEFINE scan == CHOOSE g : g = [i \in 1 .. Len(s) + 1 |-> ScanAt(s, g, i)]
<1>1. ScanNestedPktLineStream(s) = scan[1]
  BY DEF ScanNestedPktLineStream, ScanAt
<1>2. scan = [i \in 1 .. Len(s) + 1 |-> ScanAt(s, scan, i)]
  BY ScanExists
<1> HIDE DEF scan
<1> QED
  BY <1>1, <1>2

\* Some of a nested report.
SomePackets(s, r, a) ==
    /\ s \in Seq(Tokens) /\ Len(s) = a /\ a \in Nat /\ a <= 5 * Len(r) + 2
    /\ \A k \in 1 .. Len(r), c \in 1 .. 5 :
           5 * (k - 1) + c <= a => s[5 * (k - 1) + c] = LineToken(r[k], "nested", c)
    /\ a = 5 * Len(r) + 2 => s[a] = Tok("flush")

There(r, k, a) == {j \in k .. Len(r) : 5 * j <= a}

\* What the scan says from the k-th packet on.
LEMMA NestedAt ==
    ASSUME NEW r \in Seq(Kinds), NEW s, NEW a, SomePackets(s, r, a), NEW scan,
           NEW k \in 1 .. Len(r) + 1, 5 * (k - 1) <= a,
           (k <= Len(r) /\ 5 * k <= a) => Says(scan[5 * k + 1], r, There(r, k + 1, a), a = 5 * Len(r) + 2)
    PROVE  Says(ScanAt(s, scan, 5 * (k - 1) + 1), r, There(r, k, a), a = 5 * Len(r) + 2)
<1> DEFINE n == Len(r)
           i == 5 * (k - 1) + 1
           v == ScanAt(s, scan, i)
           all == a = 5 * n + 2
<1>1. n \in Nat /\ k \in Nat /\ k >= 1 /\ k <= n + 1 /\ a \in Nat /\ a <= 5 * n + 2 /\ Len(s) = a
      /\ i \in Nat /\ 5 * (k - 1) <= a
  BY DEF SomePackets
<1> DEFINE kind == s[i + 1].t
           end  == i + 1 + s[i + 1].n
           line == SubSeq(s, i + 2, end)
           nothing == [ok |-> FALSE, err |-> "none"]
           more == IF DetectError(line) THEN [ok |-> FALSE, err |-> "refused"]
                   ELSE [scan[end + 1] EXCEPT !.ok = @ \/ IsUnpackOkLine(line)]
<1>2. i + 1 > a => v = nothing
  BY <1>1 DEF ScanAt
<1>3. i + 1 <= a => v = CASE kind \in {"flush", "responseEnd"} -> nothing
                          [] kind \in {"delimiter", "empty"} -> scan[i + 2]
                          [] kind = "data" /\ end <= a -> more
                          [] OTHER -> [ok |-> FALSE, err |-> "broken"]
  BY <1>1 DEF ScanAt
<1>4. ASSUME There(r, k, a) = {} PROVE Says(nothing, r, There(r, k, a), all)
  BY <1>4 DEF Says
<1>5. CASE i + 1 > a
  <2>1. \A j \in k .. n : ~(5 * j <= a)
    BY <1>1, <1>5
  <2>2. There(r, k, a) = {}
    BY <2>1 DEF There
  <2> QED
    BY <1>2, <1>4, <1>5, <2>2
<1>6. CASE i + 1 <= a /\ k = n + 1
  <2>1. There(r, k, a) = {}
    BY <1>1, <1>6 DEF There
  <2>2. i + 1 = 5 * n + 2 /\ a = 5 * n + 2
    BY <1>1, <1>6
  <2>3. s[i + 1] = Tok("flush")
    BY <2>2 DEF SomePackets
  <2>4. kind = "flush"
    BY <2>3 DEF Tok
  <2> HIDE DEF kind, end, more, nothing
  <2>5. v = nothing
    BY <1>3, <1>6, <2>4
  <2> QED
    BY <1>4, <2>1, <2>5
<1>7. CASE i + 1 <= a /\ k <= n
  <2>1. k \in 1 .. n /\ r[k] \in Kinds
    BY <1>1, <1>7
  <2>2. \A c \in 1 .. 5 : 5 * (k - 1) + c <= a => s[5 * (k - 1) + c] = LineToken(r[k], "nested", c)
    BY <2>1 DEF SomePackets
  <2>3. s[i + 1] = DataLength
    <3>1. s[5 * (k - 1) + 2] = LineToken(r[k], "nested", 2) /\ i + 1 = 5 * (k - 1) + 2
      BY <1>1, <1>7, <2>2
    <3>2. LineToken(r[k], "nested", 2) = DataLength
      BY DEF LineToken
    <3>3. s[i + 1] = s[5 * (k - 1) + 2]
      BY <3>1
    <3> QED
      BY <3>1, <3>2, <3>3
  <2>4. kind = "data" /\ s[i + 1].n = 3
    BY <2>3 DEF DataLength
  <2>5. end = 5 * k
    <3>1. end = i + 1 + 3
      BY <2>4
    <3> QED
      BY <1>1, <3>1
  <2> HIDE DEF kind, end, line, nothing, more
  <2>6. CASE end > a
    <3>1. v = [ok |-> FALSE, err |-> "broken"]
      BY <1>1, <1>3, <1>7, <2>4, <2>5, <2>6
    <3>2. ~all
      BY <1>1, <1>7, <2>5, <2>6
    <3> HIDE DEF v, all
    <3>3. Says(v, r, There(r, k, a), all)
      BY <3>1, <3>2 DEF Says
    <3> QED
      BY <3>3 DEF v, all
  <2>7. CASE end <= a
    <3>1. v = more
      BY <1>1, <1>3, <1>7, <2>4, <2>5, <2>7
    <3>2. line = Append(Text[r[k]], LF)
      <4> DEFINE b == 5 * (k - 1) + 2
                 u == SubSeq(s, b + 1, end)
      <4>1. b \in Nat /\ end \in Nat /\ b <= end /\ end <= Len(s) /\ end - b = 3 /\ s \in Seq(Tokens)
            /\ i + 2 = b + 1
        BY <1>1, <1>7, <2>5, <2>7 DEF SomePackets
      <4>2. u \in Seq(Tokens) /\ Len(u) = end - b /\ \A j \in 1 .. end - b : u[j] = s[b + j]
        <5> HIDE DEF b
        <5> QED
          BY <4>1, Piece
      <4>3. line = u
        BY <4>1 DEF line
      <4> HIDE DEF u
      <4> DEFINE p == Append(Text[r[k]], LF)
      <4>4. p \in Seq(Tokens) /\ Len(p) = 3
            /\ \A c \in 1 .. 3 : p[c] = LineToken(r[k], "nested", c + 2)
        <5>1. /\ p \in Seq(Tokens) /\ Len(p) = 3
              /\ \A c \in 1 .. 3 : p[c] = IF c = 1 THEN Tok(First(r[k])) ELSE IF c = 2 THEN Tok(Second(r[k])) ELSE LF
          BY <2>1, LineIs
        <5>2. \A c \in 1 .. 3 : LineToken(r[k], "nested", c + 2)
                  = IF c = 1 THEN Tok(First(r[k])) ELSE IF c = 2 THEN Tok(Second(r[k])) ELSE LF
          BY DEF LineToken
        <5> HIDE DEF p
        <5> QED
          BY <5>1, <5>2
      <4> HIDE DEF p
      <4>5. ASSUME NEW c \in 1 .. 3 PROVE u[c] = p[c]
        <5>1. c + 2 \in 1 .. 5 /\ 5 * (k - 1) + (c + 2) = b + c /\ b + c <= a
          BY <1>1, <2>5, <2>7
        <5>2. s[5 * (k - 1) + (c + 2)] = LineToken(r[k], "nested", c + 2)
          BY <2>2, <5>1
        <5>3. s[b + c] = LineToken(r[k], "nested", c + 2)
          BY <5>1, <5>2
        <5> HIDE DEF b
        <5> QED
          BY <4>1, <4>2, <4>4, <5>3
      <4>6. u = p
        <5>1. Len(u) = 3 /\ Len(p) = 3 /\ u \in Seq(Tokens) /\ p \in Seq(Tokens)
          BY <4>1, <4>2, <4>4
        <5>2. \A c \in 1 .. Len(u) : u[c] = p[c]
          BY <4>5, <5>1
        <5> HIDE DEF b
        <5> QED
          BY <5>1, <5>2, SameSeq
      <4> QED
        BY <4>3, <4>6 DEF p
    <3>3. (DetectError(line) <=> r[k] \in Refusals) /\ (IsUnpackOkLine(line) <=> r[k] = "unpackOk")
      BY <2>1, <3>2, LineMeans
    <3>4. There(r, k, a) = {k} \cup There(r, k + 1, a)
      <4>1. \A j : j \in k .. n <=> j = k \/ j \in k + 1 .. n
        BY <1>1, <2>1
      <4>2. 5 * k <= a
        BY <2>5, <2>7
      <4> QED
        BY <4>1, <4>2 DEF There
    <3> DEFINE w == scan[end + 1]
    <3>5. Says(w, r, There(r, k + 1, a), all)
      BY <1>1, <1>7, <2>5, <2>7
    <3> HIDE DEF w, all, v
    <3>6. CASE r[k] \in Refusals
      <4>1. v = [ok |-> FALSE, err |-> "refused"]
        BY <3>1, <3>3, <3>6 DEF more
      <4>2. Says(v, r, There(r, k, a), all)
        BY <3>4, <3>6, <4>1 DEF Says
      <4> QED
        BY <4>2 DEF v, all
    <3>7. CASE r[k] \notin Refusals
      <4>1. v = [w EXCEPT !.ok = @ \/ IsUnpackOkLine(line)]
        BY <3>1, <3>3, <3>7 DEF more, w
      <4>2. w \in [ok : BOOLEAN, err : {"none", "refused", "broken"}]
        BY <3>5 DEF Says
      <4>3. v.err = w.err /\ (v.ok <=> w.ok \/ r[k] = "unpackOk")
            /\ v \in [ok : BOOLEAN, err : {"none", "refused", "broken"}]
        <5>1. v.err = w.err
          BY <4>1, <4>2
        <5>2. v.ok = (w.ok \/ IsUnpackOkLine(line))
          BY <4>1, <4>2
        <5>3. v = [ok |-> w.ok \/ IsUnpackOkLine(line), err |-> w.err]
          BY <4>1, <4>2
        <5> QED
          BY <3>3, <4>2, <5>1, <5>2, <5>3
      <4>4. Says(v, r, There(r, k, a), all)
        BY <3>4, <3>5, <3>7, <4>3 DEF Says
      <4> QED
        BY <4>4 DEF v, all
    <3> QED
      BY <3>6, <3>7
  <2> QED
    BY <1>1, <2>5, <2>6, <2>7
<1> QED
  BY <1>1, <1>5, <1>6, <1>7

\* The scan of packets says what is there of the report (scanNestedPktLineStream).
LEMMA NestedScan ==
    ASSUME NEW r \in Seq(Kinds), NEW s, NEW a, SomePackets(s, r, a)
    PROVE  Says(ScanNestedPktLineStream(s), r, There(r, 1, a), a = 5 * Len(r) + 2)
<1> DEFINE n == Len(r)
           all == a = 5 * n + 2
<1>1. n \in Nat /\ a \in Nat /\ s \in Seq(Tokens) /\ Len(s) = a
  BY DEF SomePackets
<1>2. PICK scan : /\ scan = [i \in 1 .. Len(s) + 1 |-> ScanAt(s, scan, i)]
                  /\ ScanNestedPktLineStream(s) = scan[1]
  BY <1>1, ScanFromStart
<1> DEFINE Good(k) == Says(scan[5 * (k - 1) + 1], r, There(r, k, a), all)
           T == {m \in 0 .. n : 5 * (n - m) <= a /\ ~Good(n + 1 - m)}
<1>3. T \subseteq Nat
  BY <1>1
<1>4. ASSUME T # {} PROVE FALSE
  <2> HIDE DEF T
  <2>1. PICK m \in T : \A y \in T : ~ (y < m)
    BY <1>3, <1>4, LeastNat
  <2>2. m \in 0 .. n /\ 5 * (n - m) <= a /\ ~Good(n + 1 - m)
    BY DEF T
  <2> DEFINE k == n + 1 - m
  <2>3. k \in 1 .. n + 1 /\ k - 1 = n - m /\ m = n + 1 - k
    BY <1>1, <2>2
  <2> HIDE DEF k, all
  <2>4. (k <= n /\ 5 * k <= a) => Says(scan[5 * k + 1], r, There(r, k + 1, a), all)
    <3> SUFFICES ASSUME k <= n, 5 * k <= a PROVE Says(scan[5 * k + 1], r, There(r, k + 1, a), all)
      OBVIOUS
    <3>1. m - 1 \in 0 .. n /\ m - 1 < m /\ n - (m - 1) = k /\ n + 1 - (m - 1) = k + 1 /\ (k + 1) - 1 = k
      BY <1>1, <2>2, <2>3
    <3>2. 5 * (n - (m - 1)) <= a
      BY <3>1
    <3>3. Good(n + 1 - (m - 1))
      BY <2>1, <3>1, <3>2 DEF T
    <3>4. Good(k + 1)
      BY <3>1, <3>3
    <3> QED
      BY <3>1, <3>4
  <2>5. 5 * (k - 1) <= a /\ 5 * (k - 1) + 1 \in 1 .. Len(s) + 1
    BY <1>1, <2>2, <2>3
  <2>6. scan[5 * (k - 1) + 1] = ScanAt(s, scan, 5 * (k - 1) + 1)
    BY <1>2, <2>5
  <2>7. Says(ScanAt(s, scan, 5 * (k - 1) + 1), r, There(r, k, a), all)
    BY <2>3, <2>4, <2>5, NestedAt DEF all
  <2>8. Good(k)
    BY <2>6, <2>7
  <2> QED
    BY <2>2, <2>8 DEF k
<1>5. n \notin T
  BY <1>4
<1>6. 5 * (n - n) <= a /\ n \in 0 .. n /\ n + 1 - n = 1 /\ 5 * (1 - 1) + 1 = 1
  BY <1>1
<1>7. Good(1)
  BY <1>5, <1>6
<1> QED
  BY <1>2, <1>6, <1>7

\* Two tokens of a length are a line of their own for the other scan.
LEMMA LoneLength == ScanRawReportStatusStream(<<Tok("00")>>) = [ok |-> FALSE, err |-> "none"]
<1> DEFINE a == Tok("00")
           s == <<a>>
           M == {j \in 1 .. Len(s) : \A k \in 1 .. j : s[k] # LF}
<1>1. a # LF /\ a.t = "00"
  BY DEF Tok, LF
<1> HIDE DEF a
<1>2. LineStarts(s) = {1}
  BY <1>1 DEF LineStarts
<1>3. LineFrom(s, 1) = s
  <2>1. 1 \in M /\ M \subseteq Int /\ \A y \in M : y <= 1
    BY <1>1
  <2> HIDE DEF M
  <2>2. Max(M) = 1
    BY <2>1, MaxIs
  <2>3. SubSeq(<<a>>, 1, 1) = <<a>>
    BY ShortLists
  <2> QED
    BY <2>2, <2>3 DEF LineFrom, M
<1>4. RawLines(s) = {s}
  BY <1>2, <1>3 DEF RawLines
<1>5. TrimRight(s) = s
  BY <1>1, TrimOne
<1>6. ~IsUnpackOkLine(s)
  <2>1. Len(Text["unpackOk"]) = 2 /\ Len(s) = 1
    BY DEF Text
  <2>2. s # Text["unpackOk"]
    BY <2>1
  <2> QED
    BY <1>5, <2>2 DEF IsUnpackOkLine
<1>7. ~DetectError(s)
  <2>1. \A texts : Starts(s, texts) <=> "00" \in texts
    BY <1>1 DEF Starts
  <2> QED
    BY <2>1 DEF DetectError
<1> HIDE DEF s
<1>8. ScanRawReportStatusStream(s) = [ok |-> FALSE, err |-> "none"]
  BY <1>4, <1>6, <1>7 DEF ScanRawReportStatusStream
<1> QED
  BY <1>8 DEF s, a

\* The lines of which the text is there when a tokens of the report are.
UpTo(f, k) == IF f = "nested" THEN 5 * k ELSE 3 * k - 1
Arrived(r, f, a) == {k \in 1 .. Len(r) : UpTo(f, k) <= a}

\* Whatever beginning of the report channel 1 has carried, the scan says what is there of it
\* (scanSideBandReportStatus).
LEMMA ScanIs ==
    ASSUME NEW r \in Seq(Kinds), NEW f \in {"nested", "raw"}, NEW a \in 0 .. Len(Stream(r, f))
    PROVE  Says(Scan(SubSeq(Stream(r, f), 1, a)), r, Arrived(r, f, a), a = Len(Stream(r, f)))
<1> DEFINE S == Stream(r, f)
           s == SubSeq(S, 1, a)
           all == a = Len(S)
           n == Len(r)
           nothing == [ok |-> FALSE, err |-> "none"]
<1>1. /\ S \in Seq(Tokens)
      /\ Len(S) = StreamLen(n, f)
      /\ \A k \in 1 .. n, c \in 1 .. Width(f) : S[Width(f) * (k - 1) + c] = LineToken(r[k], f, c)
      /\ (f = "nested" /\ r # <<>>) => S[5 * n + 2] = Tok("flush")
  BY StreamIs
<1>2. n \in Nat /\ (r = <<>> <=> n = 0) /\ Len(S) \in Nat
  BY <1>1
<1> HIDE DEF S
<1>3. a \in Nat /\ a <= Len(S) /\ s \in Seq(Tokens) /\ Len(s) = a /\ \A i \in 1 .. a : s[i] = S[i]
  <2>1. a \in Nat /\ a <= Len(S)
    BY <1>2 DEF S
  <2> QED
    BY <1>1, <2>1, Prefix
<1> HIDE DEF s
<1>4. s = <<>> <=> a = 0
  BY <1>3
<1>5. ASSUME Arrived(r, f, a) = {} PROVE Says(nothing, r, Arrived(r, f, a), all)
  BY <1>5 DEF Says
<1>6. CASE a = 0
  <2>1. Arrived(r, f, a) = {}
    BY <1>2, <1>6 DEF Arrived, UpTo
  <2>2. Scan(s) = nothing
    BY <1>4, <1>6 DEF Scan
  <2> QED
    BY <1>5, <2>1, <2>2 DEF s, S
<1>7. CASE a # 0 /\ f = "raw"
  <2>1. Width(f) = 3 /\ Len(S) = 3 * n
    BY <1>1, <1>2, <1>7 DEF Width, StreamLen
  <2>2. SomeOf(s, r, a)
    <3>1. ASSUME NEW k \in 1 .. n, NEW c \in 1 .. 3, 3 * (k - 1) + c <= a
          PROVE  s[3 * (k - 1) + c] = LineToken(r[k], "raw", c)
      <4>1. 3 * (k - 1) + c \in 1 .. a
        BY <1>2, <1>3, <3>1
      <4>2. s[3 * (k - 1) + c] = S[3 * (k - 1) + c]
        BY <1>3, <4>1
      <4>3. S[3 * (k - 1) + c] = LineToken(r[k], f, c)
        BY <1>1, <2>1
      <4> QED
        BY <1>7, <4>2, <4>3
    <3> QED
      BY <1>3, <2>1, <3>1 DEF SomeOf
  <2>3. ~LooksLikePktLine(s)
    <3>1. 1 \in 1 .. n /\ 3 * 1 - 2 = 1
      BY <1>2, <1>3, <1>7, <2>1
    <3>2. 3 * 1 - 2 <= a
      BY <1>3, <1>7
    <3>3. s[3 * 1 - 2] = Tok(First(r[1]))
      BY <2>2, <3>1, <3>2, RawTokens
    <3>4. s[1] = Tok(First(r[1]))
      BY <3>1, <3>3
    <3>5. s[1] # Tok("00")
      <4>1. First(r[1]) # "00"
        BY DEF First
      <4>2. s[1].t = First(r[1]) /\ Tok("00").t = "00"
        BY <3>4 DEF Tok
      <4> QED
        BY <4>1, <4>2
    <3> QED
      BY <3>5 DEF LooksLikePktLine
  <2>4. Scan(s) = ScanRawReportStatusStream(s)
    BY <1>4, <1>7, <2>3 DEF Scan
  <2>5. Says(ScanRawReportStatusStream(s), r, {k \in 1 .. n : 3 * k - 1 <= a}, a = 3 * n)
    BY <2>2, RawScan
  <2>6. Arrived(r, f, a) = {k \in 1 .. n : 3 * k - 1 <= a}
    BY <1>7 DEF Arrived, UpTo
  <2> QED
    BY <2>1, <2>4, <2>5, <2>6 DEF s, S
<1>8. CASE a # 0 /\ f = "nested"
  <2>1. n # 0
    BY <1>1, <1>2, <1>3, <1>8 DEF Width, StreamLen
  <2>2. Width(f) = 5 /\ Len(S) = 5 * n + 2
    BY <1>1, <1>2, <1>8, <2>1 DEF Width, StreamLen
  <2>3. SomePackets(s, r, a)
    <3>1. ASSUME NEW k \in 1 .. n, NEW c \in 1 .. 5, 5 * (k - 1) + c <= a
          PROVE  s[5 * (k - 1) + c] = LineToken(r[k], "nested", c)
      <4>1. 5 * (k - 1) + c \in 1 .. a
        BY <1>2, <1>3, <3>1
      <4>2. s[5 * (k - 1) + c] = S[5 * (k - 1) + c]
        BY <1>3, <4>1
      <4>3. S[5 * (k - 1) + c] = LineToken(r[k], f, c)
        BY <1>1, <2>2
      <4> QED
        BY <1>8, <4>2, <4>3
    <3>2. a = 5 * n + 2 => s[a] = Tok("flush")
      <4>1. a \in 1 .. a
        BY <1>3, <1>8
      <4> QED
        BY <1>1, <1>2, <1>3, <1>8, <2>1, <4>1
    <3> QED
      BY <1>3, <2>2, <3>1, <3>2 DEF SomePackets
  <2>4. s[1] = Tok("00")
    <3>1. s[5 * (1 - 1) + 1] = LineToken(r[1], "nested", 1)
      <4>1. 1 \in 1 .. n /\ 5 * (1 - 1) + 1 <= a
        BY <1>2, <1>3, <1>8, <2>1
      <4> QED
        BY <2>3, <4>1 DEF SomePackets
    <3> QED
      BY <3>1 DEF LineToken
  <2>5. CASE a = 1
    <3>1. s = <<Tok("00")>>
      BY <1>3, <2>4, <2>5, IsSingle
    <3>2. Scan(s) = nothing
      <4>1. ~LooksLikePktLine(s)
        BY <1>3, <2>5 DEF LooksLikePktLine
      <4>2. Scan(s) = ScanRawReportStatusStream(s)
        BY <1>4, <1>8, <4>1 DEF Scan
      <4> QED
        BY <3>1, <4>2, LoneLength
    <3>3. Arrived(r, f, a) = {}
      BY <1>2, <1>8, <2>5 DEF Arrived, UpTo
    <3> QED
      BY <1>5, <3>2, <3>3 DEF s, S
  <2>6. CASE a # 1
    <3>1. LooksLikePktLine(s)
      BY <1>3, <1>8, <2>4, <2>6 DEF LooksLikePktLine
    <3>2. Scan(s) = ScanNestedPktLineStream(s)
      BY <1>4, <1>8, <3>1 DEF Scan
    <3>3. Says(ScanNestedPktLineStream(s), r, There(r, 1, a), a = 5 * n + 2)
      BY <2>3, NestedScan
    <3>4. Arrived(r, f, a) = There(r, 1, a)
      BY <1>8 DEF Arrived, UpTo, There
    <3> QED
      BY <2>2, <3>2, <3>3, <3>4 DEF s, S
  <2> QED
    BY <2>5, <2>6
<1> QED
  BY <1>6, <1>7, <1>8

-----------------------------------------------------------------------------
(* The invariant.                                                          *)
Whole == Stream(report, framing)
Sent  == Len(Whole) - Len(pending)

TypeInv ==
    /\ TypeOK
    /\ pending \in Seq(Tokens) /\ packet \in Seq(Tokens) /\ said \in Seq(Tokens)
    /\ sideBandPackets \in Seq(Seq(Tokens)) /\ progress \in Seq(Seq(Tokens))

\* How far the parser is with the packet, and the reader with its limit.
InPlace ==
    /\ Taken <= Len(packet)
    /\ phase = "data" => packet[2].t = "data"
    /\ limit > 0 => remaining + delivered = limit
    /\ readErr = "tooLarge" => delivered = limit /\ Taken < Len(packet) /\ have < Need
    /\ readErr \in {"eof", "fails"} => ending = readErr
    /\ ending = "fails" => cut

\* What is left of the report is the end of it.
IsRest == Sent \in Nat /\ pending = SubSeq(Whole, Sent + 1, Len(Whole))

\* The data of a packet that is on its way, or the kind of one without data.
CarriesPiece(d) == /\ framing # "bare" /\ ~aborted /\ arrived <= Sent
             /\ d = <<Tok("ch1")>> \o SubSeq(Whole, arrived + 1, Sent)
CarriesLine(d)  == /\ framing = "bare" /\ ~aborted
             /\ \E k \in DOMAIN report : /\ arrived = 3 * (k - 1) /\ Sent = 3 * k
                                         /\ d \in {Text[report[k]], Append(Text[report[k]], LF)}
CarriesExtra(d) == /\ ~aborted /\ arrived = Sent
             /\ d \in {<<Tok("ch2"), Tok("fatal:")>>, <<Tok("ch2"), LF, Tok("fatal:")>>,
                       <<Tok("ch1")>>, <<Tok("ch3")>>}
CarriesAbort(d) == /\ aborted /\ arrived = Sent
             /\ d \in {<<Tok("ERR ")>>, <<Tok("fatal:")>>, <<Tok("ch3"), Tok("error:")>>,
                       <<Tok("ch3"), Tok("other")>>}
Carries(d) == CarriesPiece(d) \/ CarriesLine(d) \/ CarriesExtra(d) \/ CarriesAbort(d)
Control(kind) ==
    /\ arrived = Sent
    /\ \/ kind \in {"delimiter", "empty"} /\ ~aborted
       \/ kind \in {"tooLarge", "garbled"} /\ aborted
       \/ kind \in {"flush", "responseEnd"} /\ pending = <<>> /\ ~aborted
Meant(w) ==
    \/ w = <<>> /\ arrived = Sent /\ ~aborted
    \/ \E d \in Seq(Tokens) : w = Packet(d) /\ Carries(d)
    \/ \E kind \in Names : w = Special(kind) /\ Control(kind)

\* The packet is the beginning of one that was sent, and all of it as long as the body
\* goes on; the end of the body in its time comes after all that there was to send.
Begins(w) ==
    /\ w \in Seq(Tokens) /\ Len(packet) <= Len(w) /\ packet = SubSeq(w, 1, Len(packet))
    /\ ending = "more" => packet = w
    /\ (ending # "more" /\ ~cut) => w = <<>> /\ pending = <<>>
OnItsWay == \E w : Begins(w) /\ Meant(w)

\* What the parser has gathered.
Flat == FlattenSeq(sideBandPackets)
HasLines(k) ==
    /\ arrived = 3 * k
    /\ sawUnpackOk <=> \E j \in 1 .. k : report[j] = "unpackOk"
    /\ \A j \in 1 .. k : report[j] \notin Refusals
Gathered ==
    /\ arrived <= Sent
    /\ sawReportStatusContent <=> arrived > 0
    /\ framing # "bare" => ~sawUnpackOk /\ Flat = SubSeq(Whole, 1, arrived)
    /\ framing = "bare" => Flat = <<>> /\ \E k \in 0 .. Len(report) : HasLines(k)

Explained == FlattenSeq(progress) = SubSeq(said, 1, Min({Len(said), MaxRemoteProgress}))

IInv == TypeInv /\ InPlace /\ IsRest /\ OnItsWay /\ Gathered /\ Explained

\* The report and its stream.
LEMMA WholeIs ==
    ASSUME TypeOK
    PROVE  /\ report \in Seq(Kinds) /\ framing \in {"bare", "nested", "raw"}
           /\ Whole \in Seq(Tokens) /\ Len(Whole) = StreamLen(Len(report), framing)
           /\ Len(Whole) \in Nat /\ Len(report) \in Nat /\ DOMAIN report = 1 .. Len(report)
           /\ \A k \in 1 .. Len(report) : report[k] \in Kinds
<1>1. report \in Seq(Kinds) /\ framing \in {"bare", "nested", "raw"}
  BY ReportsAssumption DEF TypeOK, Kinds
<1>2. Whole \in Seq(Tokens) /\ Len(Whole) = StreamLen(Len(report), framing)
  BY <1>1, StreamIs DEF Whole
<1> HIDE DEF Whole
<1> QED
  BY <1>1, <1>2

\* The lines that have arrived, by their places in the stream.
LEMMA LinesArrivedIs ==
    ASSUME TypeOK
    PROVE  LinesArrived = Arrived(report, framing, arrived)
<1> DEFINE n == Len(report)
           upTo(i) == Len(Stream(SubSeq(report, 1, i), framing)) - IF framing = "nested" THEN 2 ELSE 1
<1>1. report \in Seq(Kinds) /\ framing \in {"bare", "nested", "raw"} /\ n \in Nat /\ DOMAIN report = 1 .. n
  BY WholeIs
<1>2. ASSUME NEW i \in 1 .. n PROVE upTo(i) = UpTo(framing, i)
  <2> DEFINE q == SubSeq(report, 1, i)
  <2>1. i \in Nat /\ i <= n
    BY <1>1
  <2>2. q \in Seq(Kinds) /\ Len(q) = i
    BY <1>1, <2>1, Prefix
  <2> HIDE DEF q
  <2>3. Len(Stream(q, framing)) = StreamLen(i, framing)
    BY <1>1, <2>2, StreamIs
  <2>4. StreamLen(i, framing) - (IF framing = "nested" THEN 2 ELSE 1) = UpTo(framing, i)
    <3>1. CASE framing = "nested"
      BY <1>1, <3>1 DEF StreamLen, Width, UpTo
    <3>2. CASE framing # "nested"
      BY <1>1, <3>2 DEF StreamLen, Width, UpTo
    <3> QED
      BY <3>1, <3>2
  <2> QED
    BY <2>3, <2>4 DEF q
<1>3. LinesArrived = {i \in 1 .. n : upTo(i) <= arrived}
  BY <1>1 DEF LinesArrived
<1> HIDE DEF upTo, n
<1>4. LinesArrived = {i \in 1 .. n : UpTo(framing, i) <= arrived}
  BY <1>2, <1>3
<1> QED
  BY <1>4 DEF Arrived, n

\* What the scan says of all that has come.
LEMMA GatheredSays ==
    ASSUME TypeInv, IsRest, Gathered
    PROVE  Says([ok |-> sawUnpackOk \/ Scan(Flat).ok, err |-> Scan(Flat).err], report,
                LinesArrived, arrived = Len(Whole))
<1> DEFINE v == Scan(Flat)
           all == arrived = Len(Whole)
           o == [ok |-> sawUnpackOk \/ v.ok, err |-> v.err]
<1>1. /\ report \in Seq(Kinds) /\ framing \in {"bare", "nested", "raw"} /\ sawUnpackOk \in BOOLEAN
      /\ Len(Whole) \in Nat /\ arrived \in 0 .. Len(Whole) /\ Len(report) \in Nat
      /\ Len(Whole) = StreamLen(Len(report), framing)
      /\ LinesArrived = Arrived(report, framing, arrived)
  <2>1. TypeOK
    BY DEF TypeInv
  <2>2. arrived \in Nat /\ Sent \in Nat /\ arrived <= Sent /\ sawUnpackOk \in BOOLEAN
    BY <2>1 DEF TypeOK, IsRest, Gathered
  <2>3. Sent <= Len(Whole)
    <3>1. Len(pending) \in Nat /\ Len(Whole) \in Nat
      BY <2>1, WholeIs DEF TypeInv
    <3> QED
      BY <3>1 DEF Sent
  <2>4. Len(Whole) \in Nat
    BY <2>1, WholeIs
  <2> QED
    BY <2>1, <2>2, <2>3, <2>4, WholeIs, LinesArrivedIs
<1>2. CASE framing # "bare"
  <2>1. ~sawUnpackOk /\ Flat = SubSeq(Whole, 1, arrived)
    BY <1>2 DEF Gathered
  <2>2. Says(v, report, LinesArrived, all)
    <3>1. Says(Scan(SubSeq(Stream(report, framing), 1, arrived)), report, Arrived(report, framing, arrived),
               arrived = Len(Stream(report, framing)))
      BY <1>1, <1>2, ScanIs DEF Whole
    <3> QED
      BY <1>1, <2>1, <3>1 DEF Whole
  <2> HIDE DEF v, all
  <2>3. v \in [ok : BOOLEAN, err : {"none", "refused", "broken"}]
    BY <2>2 DEF Says
  <2>4. o = v
    BY <1>1, <2>1, <2>3
  <2> QED
    BY <2>2, <2>4 DEF v, all
<1>3. CASE framing = "bare"
  <2>1. PICK k \in 0 .. Len(report) : HasLines(k)
    BY <1>3 DEF Gathered
  <2>2. v = [ok |-> FALSE, err |-> "none"]
    BY <1>3 DEF Gathered, Scan
  <2>3. o = [ok |-> sawUnpackOk, err |-> "none"]
    BY <1>1, <2>2
  <2>4. LinesArrived = 1 .. k
    <3>1. \A j \in 1 .. Len(report) : 3 * j - 1 <= 3 * k <=> j <= k
      BY <1>1
    <3>2. arrived = 3 * k
      BY <2>1 DEF HasLines
    <3> QED
      BY <1>1, <1>3, <3>1, <3>2 DEF Arrived, UpTo
  <2> HIDE DEF o, v, all
  <2>5. Says(o, report, LinesArrived, all)
    BY <1>1, <2>1, <2>3, <2>4 DEF Says, HasLines
  <2> QED
    BY <2>5 DEF o, v, all
<1> QED
  BY <1>2, <1>3

\* The end of the stream: what is gathered gives the verdict of the lines that have arrived,
\* and all of the report its meaning (parseReceivePackResponse).
LEMMA VerdictIs ==
    ASSUME TypeInv, IsRest, Gathered
    PROVE  /\ Verdict \in {"ok", "refused", "missing", "broken"}
           /\ Verdict = "ok" => /\ \A i \in LinesArrived : report[i] \notin Refusals
                                /\ arrived > 0 => \E i \in LinesArrived : report[i] = "unpackOk"
           /\ arrived = Len(Whole) => Verdict = Meaning(report)
<1> DEFINE v == Scan(Flat)
           all == arrived = Len(Whole)
           o == [ok |-> sawUnpackOk \/ v.ok, err |-> v.err]
<1>1. Says(o, report, LinesArrived, all)
  BY GatheredSays
<1>2. /\ report \in Seq(Kinds) /\ arrived \in Nat /\ Len(report) \in Nat /\ DOMAIN report = 1 .. Len(report)
      /\ Len(Whole) = StreamLen(Len(report), framing) /\ framing \in {"bare", "nested", "raw"}
      /\ LinesArrived = Arrived(report, framing, arrived)
  BY WholeIs, LinesArrivedIs DEF TypeInv, TypeOK
<1>3. sawReportStatusContent <=> arrived > 0
  BY DEF Gathered
<1>4. Verdict = CASE v.err # "none" -> v.err
                  [] v.err = "none" /\ ~sawUnpackOk /\ ~v.ok /\ sawReportStatusContent -> "missing"
                  [] v.err = "none" /\ (sawUnpackOk \/ v.ok \/ ~sawReportStatusContent) -> "ok"
  BY DEF Verdict, ScanSideBandReportStatus, Flat
<1> HIDE DEF v, all
<1>5. Verdict = IF o.err # "none" THEN o.err ELSE IF ~o.ok /\ arrived > 0 THEN "missing" ELSE "ok"
  <2>1. o.err = v.err /\ (o.ok <=> sawUnpackOk \/ v.ok)
    OBVIOUS
  <2> HIDE DEF o
  <2>2. CASE v.err # "none"
    BY <1>4, <2>1, <2>2
  <2>3. CASE v.err = "none" /\ ~(sawUnpackOk \/ v.ok) /\ sawReportStatusContent
    BY <1>3, <1>4, <2>1, <2>3
  <2>4. CASE v.err = "none" /\ ((sawUnpackOk \/ v.ok) \/ ~sawReportStatusContent)
    BY <1>3, <1>4, <2>1, <2>4
  <2> QED
    BY <2>2, <2>3, <2>4
<1> HIDE DEF o
<1>6. o.err \in {"none", "refused", "broken"}
  BY <1>1 DEF Says
<1>7. arrived = 0 => LinesArrived = {}
  BY <1>2 DEF Arrived, UpTo
<1>8. Verdict = "ok" => /\ \A i \in LinesArrived : report[i] \notin Refusals
                        /\ arrived > 0 => \E i \in LinesArrived : report[i] = "unpackOk"
  BY <1>1, <1>5, <1>6 DEF Says
<1>9. ASSUME arrived = Len(Whole) PROVE Verdict = Meaning(report)
  <2>1. all
    BY <1>9 DEF all
  <2>2. LinesArrived = DOMAIN report
    <3>1. \A k \in 1 .. Len(report) : UpTo(framing, k) <= arrived
      <4>1. CASE framing = "nested"
        BY <1>2, <1>9, <4>1 DEF UpTo, StreamLen, Width
      <4>2. CASE framing # "nested"
        BY <1>2, <1>9, <4>2 DEF UpTo, StreamLen, Width
      <4> QED
        BY <4>1, <4>2
    <3> QED
      BY <1>2, <3>1 DEF Arrived
  <2>3. arrived > 0 <=> report # <<>>
    <3>1. report = <<>> <=> Len(report) = 0
      BY <1>2
    <3>2. arrived = 0 <=> Len(report) = 0
      <4>1. CASE framing = "nested"
        BY <1>2, <1>9, <4>1 DEF StreamLen, Width
      <4>2. CASE framing # "nested"
        BY <1>2, <1>9, <4>2 DEF StreamLen, Width
      <4> QED
        BY <4>1, <4>2
    <3> QED
      BY <1>2, <3>1, <3>2
  <2> DEFINE bad == \E i \in DOMAIN report : report[i] \in Refusals
             good == \E i \in DOMAIN report : report[i] = "unpackOk"
  <2>4. o.err # "broken" /\ (o.err = "refused" <=> bad) /\ (~bad => (o.ok <=> good))
    BY <1>1, <1>6, <2>1, <2>2 DEF Says
  <2>5. Meaning(report) = IF bad THEN "refused" ELSE IF report = <<>> \/ good THEN "ok" ELSE "missing"
    <3>1. bad <=> ~(\A i \in DOMAIN report : report[i] \notin Refusals)
      OBVIOUS
    <3>2. good <=> ~(\A i \in DOMAIN report : report[i] # "unpackOk")
      OBVIOUS
    <3>3. Meaning(report) = CASE bad -> "refused"
                              [] ~bad /\ (report = <<>> \/ good) -> "ok"
                              [] ~bad /\ report # <<>> /\ ~good -> "missing"
      BY <3>1, <3>2 DEF Meaning
    <3> HIDE DEF bad, good
    <3> QED
      BY <3>3
  <2> HIDE DEF bad, good
  <2> QED
    BY <1>5, <1>6, <2>3, <2>4, <2>5
<1> QED
  BY <1>5, <1>6, <1>8, <1>9

-----------------------------------------------------------------------------
(* The steps of the server.                                                *)
\* The line that the server sends next, one by one.
LEMMA FirstLineIs ==
    ASSUME NEW r \in Seq(Kinds), NEW k \in 0 .. Len(r), k < Len(r)
    PROVE  LET q == SubSeq(Stream(r, "bare"), 3 * k + 1, 3 * Len(r))
           IN  /\ Len(Stream(r, "bare")) = 3 * Len(r)
               /\ q \in Seq(Tokens) /\ Len(q) = 3 * Len(r) - 3 * k
               /\ FirstLine(q) = Append(Text[r[k + 1]], LF)
<1> DEFINE S == Stream(r, "bare")
           n == Len(r)
           q == SubSeq(S, 3 * k + 1, 3 * n)
           line == Append(Text[r[k + 1]], LF)
           M == {i \in DOMAIN q : q[i] = LF}
<1>1. n \in Nat /\ k \in Nat /\ k + 1 \in 1 .. n /\ r[k + 1] \in Kinds
  OBVIOUS
<1>2. S \in Seq(Tokens) /\ Len(S) = 3 * n
      /\ \A j \in 1 .. n, c \in 1 .. 3 : S[3 * (j - 1) + c] = LineToken(r[j], "bare", c)
  <2>1. Width("bare") = 3 /\ StreamLen(n, "bare") = 3 * n
    BY <1>1 DEF Width, StreamLen
  <2>2. "bare" \in {"bare", "nested", "raw"}
    OBVIOUS
  <2>3. /\ S \in Seq(Tokens) /\ Len(S) = StreamLen(n, "bare")
        /\ \A j \in 1 .. n, c \in 1 .. Width("bare") :
               S[Width("bare") * (j - 1) + c] = LineToken(r[j], "bare", c)
    BY <2>2, StreamIs
  <2> HIDE DEF S
  <2> QED
    BY <2>1, <2>3
<1> HIDE DEF S
<1>3. q \in Seq(Tokens) /\ Len(q) = 3 * n - 3 * k /\ \A i \in 1 .. 3 * n - 3 * k : q[i] = S[3 * k + i]
  <2> DEFINE x == 3 * k
             y == 3 * n
  <2>1. S \in Seq(Tokens) /\ x \in Nat /\ y \in Nat /\ x <= y /\ y <= Len(S)
    BY <1>1, <1>2
  <2> HIDE DEF x, y
  <2>2. LET u == SubSeq(S, x + 1, y)
        IN  u \in Seq(Tokens) /\ Len(u) = y - x /\ \A i \in 1 .. y - x : u[i] = S[x + i]
    BY <2>1, Piece
  <2> QED
    BY <2>2 DEF x, y
<1> HIDE DEF q
<1>4. line \in Seq(Tokens) /\ Len(line) = 3
      /\ \A c \in 1 .. 3 : line[c] = LineToken(r[k + 1], "bare", c)
  <2>1. /\ line \in Seq(Tokens) /\ Len(line) = 3
        /\ \A c \in 1 .. 3 : line[c] = IF c = 1 THEN Tok(First(r[k + 1])) ELSE IF c = 2 THEN Tok(Second(r[k + 1])) ELSE LF
    BY <1>1, LineIs
  <2> HIDE DEF line
  <2> QED
    BY <2>1 DEF LineToken
<1> HIDE DEF line
<1>5. \A c \in 1 .. 3 : q[c] = line[c]
  <2> SUFFICES ASSUME NEW c \in 1 .. 3 PROVE q[c] = line[c]
    OBVIOUS
  <2>1. c \in 1 .. 3 * n - 3 * k /\ 3 * ((k + 1) - 1) + c = 3 * k + c
    BY <1>1
  <2>2. S[3 * ((k + 1) - 1) + c] = LineToken(r[k + 1], "bare", c)
    BY <1>1, <1>2
  <2>3. S[3 * k + c] = LineToken(r[k + 1], "bare", c)
    BY <2>1, <2>2
  <2> QED
    BY <1>3, <1>4, <2>1, <2>3
<1>6. Min(M) = 3
  <2>1. /\ line[1] = Tok(First(r[k + 1])) /\ line[2] = Tok(Second(r[k + 1])) /\ line[3] = LF
    BY <1>4 DEF LineToken
  <2>2. \A x : Tok(First(x)) # LF /\ Tok(Second(x)) # LF
    BY DEF Tok, LF, First, Second
  <2>3. DOMAIN q = 1 .. Len(q) /\ Len(q) >= 3 /\ Len(q) \in Nat
    BY <1>1, <1>3
  <2>4. q[1] # LF /\ q[2] # LF /\ q[3] = LF
    BY <1>5, <2>1, <2>2
  <2>5. 3 \in M /\ M \subseteq Int
    BY <2>3, <2>4
  <2>6. \A y \in M : 3 <= y
    BY <2>3, <2>4
  <2> HIDE DEF M
  <2> QED
    BY <2>5, <2>6, MinIs
<1>7. FirstLine(q) = line
  <2>1. FirstLine(q) = SubSeq(q, 1, 3)
    BY <1>6 DEF FirstLine
  <2>2. 3 \in Nat /\ 3 <= Len(q)
    BY <1>1, <1>3
  <2> DEFINE u == SubSeq(q, 1, 3)
  <2>3. u \in Seq(Tokens) /\ Len(u) = 3 /\ \A i \in 1 .. 3 : u[i] = q[i]
    BY <1>3, <2>2, Prefix
  <2> HIDE DEF u
  <2>4. u = line
    BY <1>4, <1>5, <2>3, SameSeq
  <2> QED
    BY <2>1, <2>4 DEF u
<1> QED
  BY <1>2, <1>3, <1>7 DEF S, q, line

\* The data of the packets there are.
LEMMA DatasAre ==
    ASSUME NEW a \in Names, NEW b \in Names
    PROVE  <<Tok(a)>> \in Seq(Tokens) /\ <<Tok(a), Tok(b)>> \in Seq(Tokens)
           /\ <<Tok(a), LF, Tok(b)>> \in Seq(Tokens)
<1> DEFINE x == Tok(a)
           y == Tok(b)
<1>1. x \in Tokens /\ y \in Tokens /\ LF \in Tokens
  <2>1. "LF" \in Names
    BY DEF Names
  <2> QED
    BY <2>1, TokensAre DEF LF
<1> HIDE DEF x, y
<1>2. <<x>> \in Seq(Tokens) /\ <<x, y>> \in Seq(Tokens) /\ <<x, LF, y>> \in Seq(Tokens)
  BY <1>1
<1> QED
  BY <1>2 DEF x, y

\* The text of a line is two tokens.
LEMMA TextIsTokens == ASSUME NEW x \in Kinds PROVE Text[x] \in Seq(Tokens)
<1>1. Text[x] = <<Tok(First(x)), Tok(Second(x))>>
  BY TextIs
<1>2. First(x) \in Names /\ Second(x) \in Names
  BY DEF First, Second, Names
<1> QED
  BY <1>1, <1>2, DatasAre

\* Nothing on its way: all that was sent of the report has arrived.
LEMMA Nothing ==
    ASSUME OnItsWay, packet = <<>>, ending = "more"
    PROVE  arrived = Sent /\ ~aborted
<1>1. PICK w : Begins(w) /\ Meant(w)
  BY DEF OnItsWay
<1>2. w = <<>>
  BY <1>1 DEF Begins
<1>3. \A d \in Seq(Tokens) : Packet(d) # <<>>
  <2> SUFFICES ASSUME NEW d \in Seq(Tokens) PROVE Packet(d) # <<>>
    OBVIOUS
  <2>1. Len(Packet(d)) = 2 + Len(d)
    BY PacketIs
  <2>2. Len(d) \in Nat
    OBVIOUS
  <2>3. Len(<<>>) = 0
    OBVIOUS
  <2> HIDE DEF Packet
  <2> QED
    BY <2>1, <2>2, <2>3
<1>4. \A kind \in Names : Special(kind) # <<>>
  <2> SUFFICES ASSUME NEW kind \in Names PROVE Special(kind) # <<>>
    OBVIOUS
  <2>1. Len(Special(kind)) = 2
    BY SpecialIs
  <2> QED
    BY <2>1
<1> QED
  BY <1>1, <1>2, <1>3, <1>4 DEF Meant

\* The invariant, of the first state and of the steps of the server.
LEMMA InitHolds == Init => IInv
<1> SUFFICES ASSUME Init PROVE IInv
  OBVIOUS
<1>1. TypeOK
  <2>1. limit \in Nat /\ MaxExtras \in Nat
    BY LimitsAssumption DEF Init
  <2>2. 0 \in 0 .. MaxExtras
    BY <2>1
  <2> QED
    BY <2>1, <2>2 DEF Init, TypeOK
<1>2. /\ report \in Seq(Kinds) /\ Whole \in Seq(Tokens) /\ Len(Whole) \in Nat /\ pending = Whole
  BY <1>1, WholeIs DEF Init, Whole
<1>3. TypeInv
  BY <1>1, <1>2 DEF TypeInv, Init
<1>4. InPlace
  BY <1>1 DEF InPlace, Init, Taken, TypeOK
<1>5. Sent = 0
  BY <1>2 DEF Sent
<1> HIDE DEF Whole, Sent
<1>6. IsRest
  <2>1. SubSeq(Whole, 1, Len(Whole)) = Whole /\ 0 + 1 = 1
    BY <1>2, WholePiece
  <2> QED
    BY <1>2, <1>5, <2>1 DEF IsRest
<1>7. OnItsWay
  <2>1. <<>> \in Seq(Tokens) /\ Len(<<>>) = 0 /\ SubSeq(<<>>, 1, 0) = <<>>
    OBVIOUS
  <2>2. Begins(<<>>)
    BY <2>1 DEF Begins, Init
  <2>3. Meant(<<>>)
    BY <1>5 DEF Meant, Init
  <2> QED
    BY <2>2, <2>3 DEF OnItsWay
<1>8. Gathered
  <2>1. Flat = <<>>
    BY FlattenNone DEF Flat, Init
  <2>2. SubSeq(Whole, 1, 0) = <<>>
    BY <1>2, WholePiece
  <2>3. HasLines(0)
    BY DEF HasLines, Init
  <2>4. 0 \in 0 .. Len(report)
    BY <1>2
  <2> QED
    BY <1>5, <2>1, <2>2, <2>3, <2>4 DEF Gathered, Init
<1>9. Explained
  <2>1. progress = <<>> /\ said = <<>> /\ Len(said) = 0
    BY DEF Init
  <2>2. MaxRemoteProgress \in Nat
    BY LimitsAssumption
  <2>3. Min({0, MaxRemoteProgress}) = 0
    BY <2>2, MinIs
  <2>4. SubSeq(<<>>, 1, 0) = <<>>
    OBVIOUS
  <2> QED
    BY <2>1, <2>3, <2>4, FlattenNone DEF Explained
<1> QED
  BY <1>3, <1>4, <1>6, <1>7, <1>8, <1>9 DEF IInv

\* Sending a packet.
LEMMA SendsKeep ==
    ASSUME IInv, NEW p \in Seq(Tokens), Sends(p),
           pending' \in Seq(Tokens), extras' \in 0 .. MaxExtras, aborted' \in BOOLEAN,
           IsRest', Sent <= Sent', Meant(p)'
    PROVE  IInv'
<1> USE DEF Sends, reader, parsed
<1>1. TypeInv'
  BY DEF IInv, TypeInv, TypeOK
<1>2. InPlace'
  <2>1. InPlace /\ have \in Nat /\ phase \in {"length", "data"}
    BY DEF IInv, TypeInv, TypeOK
  <2>2. packet = <<>> /\ Len(packet) = 0
    OBVIOUS
  <2>3. phase = "length" /\ have = 0 /\ Taken = 0
    BY <2>1, <2>2 DEF InPlace, Taken
  <2>4. readErr = "none" \/ readErr \notin {"tooLarge", "eof", "fails"}
    BY <2>1, <2>2, <2>3 DEF InPlace
  <2>5. Taken' = 0 /\ Len(packet') \in Nat
    BY <2>3 DEF Taken
  <2> QED
    BY <2>1, <2>3, <2>4, <2>5 DEF InPlace
<1>3. OnItsWay'
  <2>1. SubSeq(p, 1, Len(p)) = p /\ Len(p) \in Nat
    BY WholePiece
  <2>2. Begins(p)'
    BY <2>1 DEF Begins
  <2> QED
    BY <2>2 DEF OnItsWay
<1>4. Gathered'
  <2>1. Gathered /\ Sent \in Nat /\ arrived \in Nat
    BY DEF IInv, IsRest, TypeInv, TypeOK
  <2>2. Sent' \in Nat
    BY DEF IsRest
  <2>3. Whole' = Whole /\ Flat' = Flat
    BY DEF Whole, Flat
  <2>4. \A k : HasLines(k) => HasLines(k)'
    BY DEF HasLines
  <2> HIDE DEF Sends
  <2>5. UNCHANGED <<arrived, framing, report, sawUnpackOk, sawReportStatusContent>>
    BY DEF Sends
  <2> QED
    BY <2>1, <2>2, <2>3, <2>4, <2>5 DEF Gathered
<1>5. Explained'
  BY DEF Explained, IInv
<1> QED
  BY <1>1, <1>2, <1>3, <1>4, <1>5 DEF IInv

\* The facts about the sender that its steps use.
LEMMA Sender ==
    ASSUME IInv
    PROVE  /\ report \in Seq(Kinds) /\ framing \in {"bare", "nested", "raw"} /\ Whole \in Seq(Tokens)
           /\ Len(Whole) \in Nat /\ Sent \in Nat /\ Sent <= Len(Whole)
           /\ pending = SubSeq(Whole, Sent + 1, Len(Whole)) /\ pending \in Seq(Tokens)
           /\ Len(pending) = Len(Whole) - Sent /\ (pending = <<>> <=> Sent = Len(Whole))
           /\ arrived \in Nat /\ arrived <= Sent
<1>1. TypeInv /\ IsRest /\ Gathered /\ TypeOK
  BY DEF IInv, TypeInv
<1>2. report \in Seq(Kinds) /\ framing \in {"bare", "nested", "raw"} /\ Whole \in Seq(Tokens) /\ Len(Whole) \in Nat
  BY <1>1, WholeIs
<1>3. pending \in Seq(Tokens) /\ arrived \in Nat
  BY <1>1 DEF TypeInv, TypeOK
<1>4. Sent \in Nat /\ pending = SubSeq(Whole, Sent + 1, Len(Whole)) /\ arrived <= Sent
  BY <1>1 DEF IsRest, Gathered
<1>5. Len(pending) \in Nat /\ (pending = <<>> <=> Len(pending) = 0)
  BY <1>3
<1>6. Sent = Len(Whole) - Len(pending)
  BY DEF Sent
<1> HIDE DEF Sent, Whole
<1>7. Sent <= Len(Whole) /\ Len(pending) = Len(Whole) - Sent /\ (Len(pending) = 0 <=> Sent = Len(Whole))
  BY <1>2, <1>4, <1>5, <1>6
<1> QED
  BY <1>2, <1>3, <1>4, <1>5, <1>7

\* What is left when k tokens more are sent.
LEMMA RestOfRest ==
    ASSUME IInv, NEW k \in Nat, k <= Len(pending), UNCHANGED <<report, framing>>,
           pending' = SubSeq(pending, k + 1, Len(pending))
    PROVE  /\ pending' \in Seq(Tokens) /\ Sent' = Sent + k /\ IsRest' /\ Whole' = Whole
           /\ SubSeq(pending, 1, k) = SubSeq(Whole, Sent + 1, Sent + k)
<1>1. /\ Whole \in Seq(Tokens) /\ Len(Whole) \in Nat /\ Sent \in Nat /\ Sent <= Len(Whole)
      /\ pending = SubSeq(Whole, Sent + 1, Len(Whole)) /\ pending \in Seq(Tokens)
      /\ Len(pending) = Len(Whole) - Sent
  BY Sender
<1>2. Whole' = Whole
  BY DEF Whole
<1>3. Sent' = Len(Whole') - Len(pending')
  BY DEF Sent
<1> HIDE DEF Whole, Sent
<1> DEFINE q == SubSeq(pending, k + 1, Len(pending))
<1>4. q \in Seq(Tokens) /\ Len(q) = Len(pending) - k
  <2>1. Len(pending) \in Nat
    BY <1>1
  <2> QED
    BY <1>1, <2>1, Piece
<1> HIDE DEF q
<1>5. pending' = q
  BY DEF q
<1>6. Sent' = Sent + k
  <2>1. Sent' = Len(Whole) - Len(q)
    BY <1>2, <1>3, <1>5
  <2>2. Len(q) = Len(Whole) - Sent - k
    BY <1>1, <1>4
  <2> QED
    BY <1>1, <2>1, <2>2
<1>7. q = SubSeq(Whole, Sent + k + 1, Len(Whole))
  <2> DEFINE a == Sent
             b == Len(Whole)
  <2>1. a \in Nat /\ b \in Nat /\ a <= b /\ b <= Len(Whole) /\ k <= b - a /\ b - a \in Nat
        /\ b - a <= b - a /\ a + (b - a) = b
    BY <1>1
  <2> HIDE DEF a, b
  <2>2. SubSeq(SubSeq(Whole, a + 1, b), k + 1, b - a) = SubSeq(Whole, a + k + 1, a + (b - a))
    BY <1>1, <2>1, PieceOfPiece
  <2>3. q = SubSeq(SubSeq(Whole, a + 1, b), k + 1, b - a)
    BY <1>1 DEF q, a, b
  <2> QED
    BY <2>1, <2>2, <2>3 DEF a, b
<1>8. SubSeq(pending, 1, k) = SubSeq(Whole, Sent + 1, Sent + k)
  <2> DEFINE a == Sent
             b == Len(Whole)
  <2>1. a \in Nat /\ b \in Nat /\ a <= b /\ b <= Len(Whole) /\ 0 \in Nat /\ 0 <= k /\ k <= b - a
        /\ a + 0 + 1 = a + 1 /\ 0 + 1 = 1
    BY <1>1
  <2> HIDE DEF a, b
  <2>2. SubSeq(SubSeq(Whole, a + 1, b), 0 + 1, k) = SubSeq(Whole, a + 0 + 1, a + k)
    BY <1>1, <2>1, PieceOfPiece
  <2>3. SubSeq(SubSeq(Whole, a + 1, b), 1, k) = SubSeq(Whole, a + 1, a + k)
    BY <2>1, <2>2
  <2> QED
    BY <1>1, <2>3 DEF a, b
<1>9. IsRest'
  <2>1. Sent' \in Nat
    BY <1>1, <1>6
  <2>2. pending' = SubSeq(Whole', Sent' + 1, Len(Whole'))
    BY <1>2, <1>5, <1>6, <1>7
  <2> QED
    BY <2>1, <2>2 DEF IsRest
<1> QED
  BY <1>2, <1>4, <1>5, <1>6, <1>8, <1>9

LEMMA SendReportKeeps == ASSUME IInv, SendReport PROVE IInv'
<1>1. /\ packet = <<>> /\ ending = "more" /\ ~aborted /\ pending # <<>>
      /\ UNCHANGED <<extras, aborted, report, framing, arrived>>
  BY DEF SendReport, Sends, parsed
<1>2. arrived = Sent
  BY <1>1, Nothing DEF IInv
<1>3. /\ report \in Seq(Kinds) /\ framing \in {"bare", "nested", "raw"} /\ Whole \in Seq(Tokens)
      /\ Len(Whole) \in Nat /\ Sent \in Nat /\ Sent <= Len(Whole)
      /\ pending = SubSeq(Whole, Sent + 1, Len(Whole)) /\ pending \in Seq(Tokens)
      /\ Len(pending) = Len(Whole) - Sent /\ Sent # Len(Whole)
  BY <1>1, Sender
<1>4. extras' \in 0 .. MaxExtras /\ aborted' \in BOOLEAN
  BY <1>1 DEF IInv, TypeInv, TypeOK
<1>5. CASE framing = "bare"
  <2>1. PICK line \in {FirstLine(pending), TrimRight(FirstLine(pending))} : Sends(Packet(line))
    BY <1>5 DEF SendReport
  <2>2. pending' = SubSeq(pending, Len(FirstLine(pending)) + 1, Len(pending))
    BY <1>5 DEF SendReport
  <2>3. PICK k \in 0 .. Len(report) : HasLines(k)
    BY <1>5 DEF IInv, Gathered
  <2>4. Sent = 3 * k
    BY <1>2, <2>3 DEF HasLines
  <2>5. Len(Whole) = 3 * Len(report) /\ Len(report) \in Nat
    BY <1>5, WholeIs DEF IInv, TypeInv, StreamLen, Width
  <2>6. k < Len(report) /\ k \in Nat /\ k + 1 \in 1 .. Len(report) /\ report[k + 1] \in Kinds
    <3>1. k < Len(report) /\ k \in Nat /\ k + 1 \in 1 .. Len(report)
      BY <1>3, <2>4, <2>5
    <3> QED
      BY <1>3, <3>1
  <2> DEFINE first == Append(Text[report[k + 1]], LF)
  <2>7. FirstLine(pending) = first
    <3>1. pending = SubSeq(Stream(report, "bare"), 3 * k + 1, 3 * Len(report))
      BY <1>3, <1>5, <2>4, <2>5 DEF Whole
    <3> QED
      BY <1>3, <2>6, <3>1, FirstLineIs
  <2>8. first \in Seq(Tokens) /\ Len(first) = 3 /\ TrimRight(first) = Text[report[k + 1]]
        /\ Text[report[k + 1]] \in Seq(Tokens)
    <3>1. first \in Seq(Tokens) /\ Len(first) = 3
      BY <2>6, LineIs
    <3>2. TrimRight(first) = Text[report[k + 1]]
      BY <2>6, LineMeans
    <3>3. Text[report[k + 1]] \in Seq(Tokens)
      BY <2>6, TextIsTokens
    <3> QED
      BY <3>1, <3>2, <3>3
  <2> HIDE DEF first
  <2>9. line \in {first, Text[report[k + 1]]} /\ line \in Seq(Tokens)
    BY <2>1, <2>7, <2>8
  <2>10. /\ pending' \in Seq(Tokens) /\ Sent' = Sent + 3 /\ IsRest' /\ Whole' = Whole
    <3>1. 3 <= Len(pending) /\ 3 \in Nat
      BY <1>3, <2>4, <2>5, <2>6
    <3>2. pending' = SubSeq(pending, 3 + 1, Len(pending))
      BY <2>2, <2>7, <2>8
    <3> QED
      BY <1>1, <3>1, <3>2, RestOfRest
  <2>11. PICK p : p = Packet(line)
    OBVIOUS
  <2>12. p \in Seq(Tokens)
    BY <2>9, <2>11, PacketIs
  <2>13. CarriesLine(line)'
    <3>1. (3 * ((k + 1) - 1) = 3 * k) /\ 3 * (k + 1) = 3 * k + 3
      BY <2>6
    <3>2. k + 1 \in DOMAIN report
      BY <1>3, <2>6
    <3>3. arrived' = 3 * ((k + 1) - 1) /\ Sent' = 3 * (k + 1)
      BY <1>1, <1>2, <2>4, <2>10, <3>1
    <3>4. line \in {Text[report'[k + 1]], Append(Text[report'[k + 1]], LF)} /\ framing' = "bare" /\ ~aborted'
          /\ k + 1 \in DOMAIN report'
      BY <1>1, <1>5, <2>9, <3>2 DEF first
    <3> QED
      BY <3>3, <3>4 DEF CarriesLine
  <2>14. Meant(p)'
    BY <2>9, <2>11, <2>13 DEF Meant, Carries
  <2>15. Sends(p) /\ Sent <= Sent'
    BY <1>3, <2>1, <2>10, <2>11
  <2> QED
    BY <1>4, <2>10, <2>12, <2>14, <2>15, SendsKeep
<1>6. CASE framing # "bare"
  <2>1. PICK k \in DOMAIN pending : /\ Sends(Packet(<<Tok("ch1")>> \o SubSeq(pending, 1, k)))
                                    /\ pending' = SubSeq(pending, k + 1, Len(pending))
    BY <1>6 DEF SendReport
  <2>2. k \in Nat /\ k <= Len(pending) /\ k >= 1
    BY <1>3
  <2>3. /\ pending' \in Seq(Tokens) /\ Sent' = Sent + k /\ IsRest' /\ Whole' = Whole
        /\ SubSeq(pending, 1, k) = SubSeq(Whole, Sent + 1, Sent + k)
    BY <1>1, <2>1, <2>2, RestOfRest
  <2>4. PICK d : d = <<Tok("ch1")>> \o SubSeq(pending, 1, k)
    OBVIOUS
  <2>5. d \in Seq(Tokens)
    <3>1. SubSeq(pending, 1, k) \in Seq(Tokens)
      BY <1>3, <2>2, Prefix
    <3>2. <<Tok("ch1")>> \in Seq(Tokens)
      <4>1. "ch1" \in Names
        BY DEF Names
      <4> QED
        BY <4>1, DatasAre
    <3> QED
      BY <2>4, <3>1, <3>2, Concat
  <2>6. PICK p : p = Packet(d)
    OBVIOUS
  <2>7. p \in Seq(Tokens)
    BY <2>5, <2>6, PacketIs
  <2>8. CarriesPiece(d)'
    <3>1. d = <<Tok("ch1")>> \o SubSeq(Whole', arrived' + 1, Sent')
      BY <1>1, <1>2, <2>3, <2>4
    <3>2. arrived' <= Sent'
      BY <1>1, <1>2, <1>3, <2>2, <2>3
    <3> QED
      BY <1>1, <1>6, <3>1, <3>2 DEF CarriesPiece
  <2>9. Meant(p)'
    BY <2>5, <2>6, <2>8 DEF Meant, Carries
  <2>10. Sends(p) /\ Sent <= Sent'
    BY <1>3, <2>1, <2>2, <2>3, <2>4, <2>6
  <2> QED
    BY <1>4, <2>3, <2>7, <2>9, <2>10, SendsKeep
<1> QED
  BY <1>5, <1>6

\* A packet that leaves what is left of the report alone.
LEMMA SendsBesides ==
    ASSUME IInv, NEW p \in Seq(Tokens), Sends(p), UNCHANGED pending,
           extras' \in 0 .. MaxExtras, aborted' \in BOOLEAN,
           (arrived' = Sent' /\ pending' = pending) => Meant(p)'
    PROVE  IInv'
<1>1. /\ packet = <<>> /\ ending = "more" /\ UNCHANGED <<report, framing, arrived>>
  BY DEF Sends, parsed
<1>2. arrived = Sent /\ Sent \in Nat /\ pending \in Seq(Tokens) /\ IsRest
  BY <1>1, Nothing, Sender DEF IInv
<1>3. Whole' = Whole
  BY <1>1 DEF Whole
<1>4. Sent' = Sent
  BY <1>3 DEF Sent
<1>5. IsRest'
  BY <1>2, <1>3, <1>4 DEF IsRest
<1> QED
  BY <1>1, <1>2, <1>4, <1>5, SendsKeep

LEMMA SendExtraKeeps == ASSUME IInv, SendExtra PROVE IInv'
<1>1. PICK p \in {Packet(<<Tok("ch2"), Tok("fatal:")>>), Packet(<<Tok("ch2"), LF, Tok("fatal:")>>),
                  Packet(<<Tok("ch1")>>), Packet(<<Tok("ch3")>>), Special("delimiter"), Special("empty")} : Sends(p)
  BY DEF SendExtra
<1>2. UNCHANGED <<pending, aborted>> /\ extras' \in 0 .. MaxExtras /\ aborted' \in BOOLEAN /\ ~aborted
  <2>1. extras \in 0 .. MaxExtras /\ MaxExtras \in Nat /\ aborted \in BOOLEAN
    BY LimitsAssumption DEF IInv, TypeInv, TypeOK
  <2>2. extras < MaxExtras /\ extras' = extras + 1 /\ UNCHANGED <<pending, aborted>>
    BY DEF SendExtra
  <2>3. ~aborted
    BY <1>1 DEF Sends
  <2> QED
    BY <2>1, <2>2, <2>3
<1> DEFINE D == {<<Tok("ch2"), Tok("fatal:")>>, <<Tok("ch2"), LF, Tok("fatal:")>>, <<Tok("ch1")>>, <<Tok("ch3")>>}
<1>3. D \subseteq Seq(Tokens)
  <2>1. {"ch1", "ch2", "ch3", "fatal:"} \subseteq Names
    BY DEF Names
  <2> QED
    BY <2>1, DatasAre
<1>4. (\E d \in D : p = Packet(d)) \/ \E kind \in {"delimiter", "empty"} : p = Special(kind)
  BY <1>1
<1> HIDE DEF D
<1>5. {"delimiter", "empty"} \subseteq Names
  BY DEF Names
<1>6. p \in Seq(Tokens)
  BY <1>3, <1>4, <1>5, PacketIs, SpecialIs
<1>7. ASSUME arrived' = Sent' PROVE Meant(p)'
  <2>1. \A d \in D : CarriesExtra(d)'
    BY <1>2, <1>7 DEF CarriesExtra, D
  <2>2. \A kind \in {"delimiter", "empty"} : Control(kind)'
    BY <1>2, <1>7 DEF Control
  <2>3. CASE \E d \in D : p = Packet(d)
    BY <1>3, <2>1, <2>3 DEF Meant, Carries
  <2>4. CASE \E kind \in {"delimiter", "empty"} : p = Special(kind)
    BY <1>5, <2>2, <2>4 DEF Meant
  <2> QED
    BY <1>4, <2>3, <2>4
<1> QED
  BY <1>1, <1>2, <1>6, <1>7, SendsBesides

LEMMA SendAbortKeeps == ASSUME IInv, SendAbort PROVE IInv'
<1> DEFINE D == {<<Tok("ERR ")>>, <<Tok("fatal:")>>, <<Tok("ch3"), Tok("error:")>>, <<Tok("ch3"), Tok("other")>>}
<1>1. PICK p : Sends(p) /\ ((\E d \in D : p = Packet(d)) \/ \E kind \in {"tooLarge", "garbled"} : p = Special(kind))
  BY DEF SendAbort
<1>2. UNCHANGED <<pending, extras>> /\ extras' \in 0 .. MaxExtras /\ aborted' = TRUE
  BY DEF SendAbort, IInv, TypeInv, TypeOK
<1>3. D \subseteq Seq(Tokens)
  <2>1. {"ERR ", "fatal:", "ch3", "error:", "other"} \subseteq Names
    BY DEF Names
  <2> QED
    BY <2>1, DatasAre
<1> HIDE DEF D
<1>5. {"tooLarge", "garbled"} \subseteq Names
  BY DEF Names
<1>6. p \in Seq(Tokens)
  BY <1>1, <1>3, <1>5, PacketIs, SpecialIs
<1>7. ASSUME arrived' = Sent' PROVE Meant(p)'
  <2>1. \A d \in D : CarriesAbort(d)'
    BY <1>2, <1>7 DEF CarriesAbort, D
  <2>2. \A kind \in {"tooLarge", "garbled"} : Control(kind)'
    BY <1>2, <1>7 DEF Control
  <2>3. CASE \E d \in D : p = Packet(d)
    BY <1>3, <2>1, <2>3 DEF Meant, Carries
  <2>4. CASE \E kind \in {"tooLarge", "garbled"} : p = Special(kind)
    BY <1>5, <2>2, <2>4 DEF Meant
  <2> QED
    BY <1>1, <2>3, <2>4
<1> QED
  BY <1>1, <1>2, <1>6, <1>7, SendsBesides

LEMMA SendFlushKeeps == ASSUME IInv, SendFlush PROVE IInv'
<1>1. PICK kind \in {"flush", "responseEnd"} : Sends(Special(kind))
  BY DEF SendFlush
<1>2. UNCHANGED <<pending, extras, aborted>> /\ extras' \in 0 .. MaxExtras /\ aborted' \in BOOLEAN /\ ~aborted
      /\ pending = <<>>
  BY <1>1 DEF SendFlush, Sends, IInv, TypeInv, TypeOK
<1>3. PICK p : p = Special(kind)
  OBVIOUS
<1>4. kind \in Names
  BY DEF Names
<1>5. p \in Seq(Tokens)
  BY <1>3, <1>4, SpecialIs
<1>6. ASSUME arrived' = Sent' PROVE Meant(p)'
  <2>1. Control(kind)'
    BY <1>2, <1>6 DEF Control
  <2> QED
    BY <1>3, <1>4, <2>1 DEF Meant
<1> QED
  BY <1>1, <1>2, <1>3, <1>5, <1>6, SendsBesides

-----------------------------------------------------------------------------
(* The end of the body and the reads.                                      *)
\* The end of the body: what has come stays the beginning of what was sent.
LEMMA EndOfBodyKeeps == ASSUME IInv, NEW how \in {"eof", "fails"}, EndOfBody(how) PROVE IInv'
<1> DEFINE q == SubSeq(packet, 1, Taken)
<1>1. /\ result = "none" /\ ending = "more" /\ readErr = "none" /\ ending' = how /\ packet' = q
      /\ cut' = (pending # <<>> \/ packet # <<>> \/ how = "fails")
      /\ UNCHANGED <<report, framing, pending, extras, aborted, limit, remaining, readErr, delivered, phase, have,
                     sawUnpackOk, sawReportStatusContent, sideBandPackets, arrived, progress, said, result>>
  BY DEF EndOfBody, server, reader, parsed
<1>2. TypeInv /\ InPlace /\ IsRest /\ OnItsWay /\ Gathered /\ Explained
  BY DEF IInv
<1>3. packet \in Seq(Tokens) /\ Len(packet) \in Nat /\ Taken \in Nat /\ Taken <= Len(packet)
  <2>1. packet \in Seq(Tokens) /\ have \in Nat /\ phase \in {"length", "data"}
    BY <1>2 DEF TypeInv, TypeOK
  <2>2. Taken <= Len(packet)
    BY <1>2 DEF InPlace
  <2>3. Taken \in Nat
    BY <2>1 DEF Taken
  <2> QED
    BY <2>1, <2>2, <2>3
<1>4. q \in Seq(Tokens) /\ Len(q) = Taken /\ \A i \in 1 .. Taken : q[i] = packet[i]
  BY <1>3, Prefix
<1>5. \A n \in 0 .. Taken : SubSeq(q, 1, n) = SubSeq(packet, 1, n)
  <2> SUFFICES ASSUME NEW n \in 0 .. Taken PROVE SubSeq(q, 1, n) = SubSeq(packet, 1, n)
    OBVIOUS
  <2>1. n \in Nat /\ n <= Len(q) /\ n <= Len(packet)
    BY <1>3, <1>4
  <2> HIDE DEF q
  <2>2. /\ SubSeq(q, 1, n) \in Seq(Tokens) /\ Len(SubSeq(q, 1, n)) = n
        /\ \A i \in 1 .. n : SubSeq(q, 1, n)[i] = q[i]
    BY <1>4, <2>1, Prefix
  <2>3. /\ SubSeq(packet, 1, n) \in Seq(Tokens) /\ Len(SubSeq(packet, 1, n)) = n
        /\ \A i \in 1 .. n : SubSeq(packet, 1, n)[i] = packet[i]
    BY <1>3, <2>1, Prefix
  <2> DEFINE u == SubSeq(q, 1, n)
             v == SubSeq(packet, 1, n)
  <2>4. \A i \in 1 .. n : u[i] = v[i]
    BY <1>3, <1>4, <2>2, <2>3
  <2>5. u \in Seq(Tokens) /\ v \in Seq(Tokens) /\ Len(u) = n /\ Len(v) = n
    BY <2>2, <2>3
  <2> HIDE DEF u, v
  <2>6. u = v
    BY <2>4, <2>5, SameSeq
  <2> QED
    BY <2>6 DEF u, v
<1> HIDE DEF q
<1>6. TypeInv'
  BY <1>1, <1>2, <1>4 DEF TypeInv, TypeOK
<1>7. InPlace'
  <2>1. Taken' = Taken
    BY <1>1 DEF Taken
  <2>2. phase' = "data" => packet'[2].t = "data"
    <3>1. phase = "data" => 2 \in 1 .. Taken
      <4>1. have \in Nat
        BY <1>2 DEF TypeInv, TypeOK
      <4> QED
        BY <4>1 DEF Taken
    <3> QED
      BY <1>1, <1>2, <1>4, <3>1 DEF InPlace
  <2>3. readErr' = "none"
    BY <1>1
  <2>4. limit' > 0 => remaining' + delivered' = limit'
    BY <1>1, <1>2 DEF InPlace
  <2>5. Taken' <= Len(packet')
    BY <1>1, <1>3, <1>4, <2>1
  <2>6. ending' = "fails" => cut'
    BY <1>1
  <2> QED
    BY <2>2, <2>3, <2>4, <2>5, <2>6 DEF InPlace
<1>8. Whole' = Whole /\ Sent' = Sent /\ Flat' = Flat
  BY <1>1 DEF Whole, Sent, Flat
<1>9. IsRest'
  BY <1>1, <1>2, <1>8 DEF IsRest
<1>10. OnItsWay'
  <2>1. PICK w : Begins(w) /\ Meant(w)
    BY <1>2 DEF OnItsWay
  <2>2. packet = w
    BY <1>1, <2>1 DEF Begins
  <2>3. Begins(w)'
    <3>1. q = SubSeq(w, 1, Len(q))
      BY <1>4, <2>2 DEF q
    <3>2. (ending' # "more" /\ ~cut') => w = <<>> /\ pending' = <<>>
      BY <1>1, <2>2
    <3>3. w \in Seq(Tokens) /\ Len(q) <= Len(w) /\ ending' # "more"
      BY <1>1, <1>3, <1>4, <2>2
    <3> QED
      BY <1>1, <3>1, <3>2, <3>3 DEF Begins
  <2>4. Meant(w)'
    <3>1. \A d : Carries(d) => Carries(d)'
      BY <1>1, <1>8 DEF Carries, CarriesPiece, CarriesLine, CarriesExtra, CarriesAbort
    <3>2. \A kind : Control(kind) => Control(kind)'
      BY <1>1, <1>8 DEF Control
    <3> QED
      BY <1>1, <1>8, <2>1, <3>1, <3>2 DEF Meant
  <2> QED
    BY <2>3, <2>4 DEF OnItsWay
<1>11. Gathered'
  BY <1>1, <1>2, <1>8 DEF Gathered, HasLines
<1>12. Explained'
  BY <1>1, <1>2 DEF Explained
<1> QED
  BY <1>6, <1>7, <1>9, <1>10, <1>11, <1>12 DEF IInv

\* A step of the reader or of the parser that leaves the packet where it is.
LEMMA ReaderKeeps ==
    ASSUME IInv, UNCHANGED <<server, packet, ending, cut, parsed>>, TypeOK', InPlace'
    PROVE  IInv'
<1>1. UNCHANGED <<report, framing, pending, extras, aborted, packet, ending, cut, sawUnpackOk,
                  sawReportStatusContent, sideBandPackets, arrived, progress, said>>
  BY DEF server, parsed
<1>2. TypeInv /\ InPlace /\ IsRest /\ OnItsWay /\ Gathered /\ Explained
  BY DEF IInv
<1>3. TypeInv'
  BY <1>1, <1>2 DEF TypeInv
<1>4. Whole' = Whole /\ Sent' = Sent /\ Flat' = Flat
  BY <1>1 DEF Whole, Sent, Flat
<1>5. IsRest'
  BY <1>1, <1>2, <1>4 DEF IsRest
<1>6. OnItsWay'
  <2>1. PICK w : Begins(w) /\ Meant(w)
    BY <1>2 DEF OnItsWay
  <2>2. Begins(w)'
    BY <1>1, <2>1 DEF Begins
  <2>3. Meant(w)'
    <3>1. \A d : Carries(d) => Carries(d)'
      BY <1>1, <1>4 DEF Carries, CarriesPiece, CarriesLine, CarriesExtra, CarriesAbort
    <3>2. \A kind : Control(kind) => Control(kind)'
      BY <1>1, <1>4 DEF Control
    <3> QED
      BY <1>1, <1>4, <2>1, <3>1, <3>2 DEF Meant
  <2> QED
    BY <2>2, <2>3 DEF OnItsWay
<1>7. Gathered'
  BY <1>1, <1>2, <1>4 DEF Gathered, HasLines
<1>8. Explained'
  BY <1>1, <1>2 DEF Explained
<1> QED
  BY <1>3, <1>5, <1>6, <1>7, <1>8 DEF IInv

\* How much is there, and how much there is to come.
LEMMA Places ==
    ASSUME IInv
    PROVE  /\ have \in Nat /\ Taken \in Nat /\ Need \in Nat /\ Len(packet) \in Nat /\ Taken <= Len(packet)
           /\ remaining \in Nat /\ delivered \in Nat /\ limit \in Nat /\ phase \in {"length", "data"}
           /\ packet \in Seq(Tokens)
<1>1. /\ packet \in Seq(Tokens) /\ have \in Nat /\ phase \in {"length", "data"}
      /\ remaining \in Nat /\ delivered \in Nat /\ limit \in Nat /\ Len(packet) \in Nat
  BY LimitsAssumption DEF IInv, TypeInv, TypeOK
<1>2. Taken \in Nat /\ Taken <= Len(packet)
  BY <1>1 DEF Taken, IInv, InPlace
<1>3. Need \in Nat
  <2>1. CASE phase = "data"
    <3>1. 2 \in 1 .. Len(packet)
      BY <1>1, <1>2, <2>1 DEF Taken
    <3>2. packet[2] \in Tokens
      BY <1>1, <3>1
    <3> QED
      BY <2>1, <3>2 DEF Need, Tokens
  <2>2. CASE phase # "data"
    BY <2>2 DEF Need
  <2> QED
    BY <2>1, <2>2
<1> QED
  BY <1>1, <1>2, <1>3

\* A read, cut where the limit says (limitedReadCloser.Read).
LEMMA ReadKeeps == ASSUME IInv, NEW n \in 1 .. Len(packet), Read(n) PROVE IInv'
<1>1. /\ have \in Nat /\ Taken \in Nat /\ Need \in Nat /\ Len(packet) \in Nat /\ Taken <= Len(packet)
      /\ remaining \in Nat /\ delivered \in Nat /\ limit \in Nat /\ phase \in {"length", "data"} /\ n \in Nat
  BY Places
<1>2. /\ readErr = "none" /\ have < Need /\ n <= Want /\ n >= 1 /\ Taken + n <= Len(packet)
      /\ have' = have + Got(n) /\ delivered' = delivered + Got(n)
      /\ remaining' = IF limit = 0 THEN 0 ELSE IF Beyond(n) THEN 0 ELSE remaining - n
      /\ readErr' = IF Beyond(n) THEN "tooLarge" ELSE "none"
      /\ UNCHANGED <<server, packet, ending, cut, limit, phase, parsed, result>>
  <2>1. Want \in Nat
    BY <1>1 DEF Want, Read
  <2> QED
    BY <1>1, <2>1 DEF Read
<1>3. n <= Need - have
  BY <1>1, <1>2 DEF Want
<1>4. Got(n) \in Nat /\ Got(n) <= n /\ (Beyond(n) => Got(n) < n /\ Got(n) = remaining /\ limit > 0)
      /\ (~Beyond(n) => Got(n) = n /\ (limit > 0 => n <= remaining))
  BY <1>1 DEF Got, Beyond
<1>5. have' \in Nat /\ delivered' \in Nat /\ remaining' \in Nat
  BY <1>1, <1>2, <1>4
<1>6. TypeOK'
  <2>1. TypeOK
    BY DEF IInv, TypeInv
  <2> QED
    BY <1>2, <1>5, <2>1 DEF TypeOK, server, parsed
<1>7. Taken' = Taken + Got(n) /\ Need' = Need
  <2>1. Taken' = Taken + Got(n)
    BY <1>1, <1>2, <1>4 DEF Taken
  <2>2. Need' = Need
    BY <1>2 DEF Need
  <2> QED
    BY <2>1, <2>2
<1>8. InPlace'
  <2>1. InPlace
    BY DEF IInv
  <2>2. Taken' <= Len(packet')
    BY <1>1, <1>2, <1>4, <1>7
  <2>3. limit' > 0 => remaining' + delivered' = limit'
    BY <1>1, <1>2, <1>4, <2>1 DEF InPlace
  <2>4. readErr' = "tooLarge" => delivered' = limit' /\ Taken' < Len(packet') /\ have' < Need'
    <3> SUFFICES ASSUME Beyond(n) PROVE delivered' = limit' /\ Taken' < Len(packet') /\ have' < Need'
      BY <1>2
    <3>1. delivered' = limit'
      BY <1>1, <1>2, <1>4, <2>1 DEF InPlace
    <3> QED
      BY <1>1, <1>2, <1>3, <1>4, <1>7, <3>1
  <2>5. readErr' \notin {"eof", "fails"}
    BY <1>2
  <2>6. (phase' = "data" => packet'[2].t = "data") /\ (ending' = "fails" => cut')
    BY <1>2, <2>1 DEF InPlace
  <2> QED
    BY <2>2, <2>3, <2>4, <2>5, <2>6 DEF InPlace
<1> QED
  BY <1>2, <1>6, <1>8, ReaderKeeps

\* A read that finds the end.
LEMMA ReadEndKeeps == ASSUME IInv, ReadEnd PROVE IInv'
<1>1. /\ readErr' = ending /\ ending # "more" /\ readErr = "none"
      /\ UNCHANGED <<server, packet, ending, cut, limit, remaining, delivered, phase, have, parsed, result>>
  BY DEF ReadEnd
<1>2. TypeOK /\ InPlace
  BY DEF IInv, TypeInv
<1>3. ending \in {"eof", "fails"}
  BY <1>1, <1>2 DEF TypeOK
<1>4. TypeOK'
  BY <1>1, <1>2, <1>3 DEF TypeOK, server, parsed
<1>5. Taken' = Taken
  BY <1>1 DEF Taken
<1>6. InPlace'
  BY <1>1, <1>2, <1>3, <1>5 DEF InPlace
<1> QED
  BY <1>1, <1>4, <1>6, ReaderKeeps

\* The last thing the client does.
LEMMA ReturnsKeeps ==
    ASSUME IInv, NEW r \in {"ok", "refused", "missing", "broken", "tooLarge"}, Returns(r)
    PROVE  IInv'
<1>1. result' = r /\ UNCHANGED <<server, packet, ending, cut, reader, phase, have, parsed>>
  BY DEF Returns
<1>2. TypeOK /\ InPlace
  BY DEF IInv, TypeInv
<1>3. TypeOK'
  BY <1>1, <1>2 DEF TypeOK, server, parsed, reader
<1>4. Taken' = Taken /\ Need' = Need
  BY <1>1 DEF Taken, Need
<1>5. InPlace'
  BY <1>1, <1>2, <1>4 DEF InPlace, reader
<1> QED
  BY <1>1, <1>3, <1>5, ReaderKeeps

-----------------------------------------------------------------------------
(* The packets that the parser makes of them.                              *)
\* The lesser of two.
LEMMA MinPair == ASSUME NEW a \in Nat, NEW b \in Nat PROVE Min({a, b}) = IF a <= b THEN a ELSE b
<1>1. CASE a <= b
  BY <1>1, MinIs
<1>2. CASE ~(a <= b)
  BY <1>2, MinIs
<1> QED
  BY <1>1, <1>2

\* The beginning of two sequences one after the other.
LEMMA PrefixOfBoth ==
    ASSUME NEW X, NEW p \in Seq(X), NEW q \in Seq(X), NEW n \in Nat
    PROVE  /\ n <= Len(p) => SubSeq(p \o q, 1, n) = SubSeq(p, 1, n)
           /\ n <= Len(q) => SubSeq(p \o q, 1, Len(p) + n) = p \o SubSeq(q, 1, n)
<1> DEFINE cat == p \o q
<1>1. /\ cat \in Seq(X) /\ Len(cat) = Len(p) + Len(q) /\ Len(p) \in Nat /\ Len(q) \in Nat
      /\ \A i \in 1 .. Len(p) : cat[i] = p[i]
      /\ \A i \in 1 .. Len(q) : cat[Len(p) + i] = q[i]
  BY Concat
<1> HIDE DEF cat
<1>2. ASSUME n <= Len(p) PROVE SubSeq(cat, 1, n) = SubSeq(p, 1, n)
  <2> DEFINE u == SubSeq(cat, 1, n)
             v == SubSeq(p, 1, n)
  <2>1. u \in Seq(X) /\ Len(u) = n /\ \A i \in 1 .. n : u[i] = cat[i]
    <3>1. n <= Len(cat)
      BY <1>1, <1>2
    <3> QED
      BY <1>1, <3>1, Prefix
  <2>2. v \in Seq(X) /\ Len(v) = n /\ \A i \in 1 .. n : v[i] = p[i]
    BY <1>2, Prefix
  <2> HIDE DEF u, v
  <2>3. ASSUME NEW i \in 1 .. n PROVE u[i] = v[i]
    <3>1. i \in 1 .. Len(p)
      BY <1>1, <1>2
    <3>2. cat[i] = p[i]
      BY <1>1, <3>1
    <3> QED
      BY <2>1, <2>2, <3>2
  <2>4. u = v
    BY <2>1, <2>2, <2>3, SameSeq
  <2> QED
    BY <2>4 DEF u, v
<1>3. ASSUME n <= Len(q) PROVE SubSeq(cat, 1, Len(p) + n) = p \o SubSeq(q, 1, n)
  <2> DEFINE u == SubSeq(cat, 1, Len(p) + n)
             v == SubSeq(q, 1, n)
             w == p \o v
  <2>1. u \in Seq(X) /\ Len(u) = Len(p) + n /\ \A i \in 1 .. Len(p) + n : u[i] = cat[i]
    <3>1. Len(p) + n \in Nat /\ Len(p) + n <= Len(cat)
      BY <1>1, <1>3
    <3> QED
      BY <1>1, <3>1, Prefix
  <2>2. v \in Seq(X) /\ Len(v) = n /\ \A i \in 1 .. n : v[i] = q[i]
    BY <1>3, Prefix
  <2> HIDE DEF u, v
  <2>3. /\ w \in Seq(X) /\ Len(w) = Len(p) + Len(v)
        /\ \A i \in 1 .. Len(p) : w[i] = p[i]
        /\ \A i \in 1 .. Len(v) : w[Len(p) + i] = v[i]
    <3>1. p \in Seq(X) /\ v \in Seq(X)
      BY <2>2
    <3>2. w \in Seq(X)
      BY <3>1, Concat
    <3>3. Len(w) = Len(p) + Len(v)
      BY <3>1, Concat
    <3>4. \A i \in 1 .. Len(p) : w[i] = p[i]
      BY <3>1, Concat
    <3>5. \A i \in 1 .. Len(v) : w[Len(p) + i] = v[i]
      BY <3>1, Concat
    <3> QED
      BY <3>2, <3>3, <3>4, <3>5
  <2> HIDE DEF w
  <2>4. ASSUME NEW i \in 1 .. Len(p) + n PROVE u[i] = w[i]
    <3>1. CASE i <= Len(p)
      <4>1. i \in 1 .. Len(p)
        BY <1>1, <3>1
      <4> QED
        BY <1>1, <2>1, <2>3, <4>1
    <3>2. CASE i > Len(p)
      <4>1. i - Len(p) \in 1 .. n /\ i - Len(p) \in 1 .. Len(q) /\ Len(p) + (i - Len(p)) = i
        BY <1>1, <1>3, <3>2
      <4>2. w[Len(p) + (i - Len(p))] = v[i - Len(p)] /\ cat[Len(p) + (i - Len(p))] = q[i - Len(p)]
            /\ v[i - Len(p)] = q[i - Len(p)]
        BY <1>1, <2>2, <2>3, <4>1
      <4>3. w[i] = cat[i]
        BY <4>1, <4>2
      <4> QED
        BY <2>1, <4>3
    <3> QED
      BY <1>1, <3>1, <3>2
  <2>5. u = w
    BY <2>1, <2>2, <2>3, <2>4, SameSeq
  <2> QED
    BY <2>5 DEF u, v, w
<1> QED
  BY <1>2, <1>3 DEF cat

\* What one more payload of channel 2 does to what is kept.
LEMMA KeptExplains ==
    ASSUME NEW kept \in Seq(Seq(Tokens)), NEW told \in Seq(Tokens), NEW payload \in Seq(Tokens),
           FlattenSeq(kept) = SubSeq(told, 1, Min({Len(told), MaxRemoteProgress}))
    PROVE  /\ Kept(kept, payload) \in Seq(Seq(Tokens))
           /\ FlattenSeq(Kept(kept, payload))
                  = SubSeq(told \o payload, 1, Min({Len(told \o payload), MaxRemoteProgress}))
<1> DEFINE M == MaxRemoteProgress
           L == Len(told)
           used == Len(FlattenSeq(kept))
           after == told \o payload
<1>1. M \in Nat /\ L \in Nat /\ Len(payload) \in Nat
  BY LimitsAssumption
<1>2. Min({L, M}) = IF L <= M THEN L ELSE M
  BY <1>1, MinPair
<1>3. used = IF L <= M THEN L ELSE M
  <2> DEFINE m == Min({L, M})
  <2>1. m \in Nat /\ m <= L
    BY <1>1, <1>2
  <2> HIDE DEF m
  <2>2. Len(SubSeq(told, 1, m)) = m
    BY <2>1, Prefix
  <2> QED
    BY <1>2, <2>2 DEF m
<1>4. after \in Seq(Tokens) /\ Len(after) = L + Len(payload)
  BY Concat
<1> HIDE DEF M, L, used, after
<1>5. Kept(kept, payload) = IF payload = <<>> \/ M - used = 0 THEN kept
                            ELSE Append(kept, SubSeq(payload, 1, Min({Len(payload), M - used})))
  BY DEF Kept, M, used
<1>6. FlattenSeq(kept) = SubSeq(told, 1, IF L <= M THEN L ELSE M)
  BY <1>2 DEF M, L
<1>7. CASE payload = <<>>
  <2>1. after = told
    BY <1>7 DEF after
  <2> QED
    BY <1>5, <1>7, <2>1 DEF M, L, after
<1>8. CASE payload # <<>> /\ M - used = 0
  <2>1. M <= L /\ M <= L + Len(payload)
    BY <1>1, <1>3, <1>8
  <2>2. FlattenSeq(kept) = SubSeq(told, 1, M)
    <3>1. (IF L <= M THEN L ELSE M) = M
      BY <1>1, <2>1
    <3> QED
      BY <1>6, <3>1
  <2>3. SubSeq(after, 1, M) = SubSeq(told, 1, M)
    BY <1>1, <2>1, PrefixOfBoth DEF after, L
  <2>4. Min({Len(after), M}) = M
    <3>1. Len(after) \in Nat /\ M <= Len(after)
      BY <1>1, <1>4, <2>1
    <3>2. Min({Len(after), M}) = IF Len(after) <= M THEN Len(after) ELSE M
      BY <1>1, <3>1, MinPair
    <3> QED
      BY <1>1, <3>1, <3>2
  <2> QED
    BY <1>5, <1>8, <2>2, <2>3, <2>4 DEF M, after
<1>9. CASE payload # <<>> /\ M - used # 0
  <2> DEFINE m == Min({Len(payload), M - used})
             x == SubSeq(payload, 1, m)
  <2>1. L < M /\ used = L /\ M - used \in Nat
    BY <1>1, <1>3, <1>9
  <2>2. m = IF Len(payload) <= M - used THEN Len(payload) ELSE M - used
    BY <1>1, <2>1, MinPair
  <2>3. m \in Nat /\ m <= Len(payload)
    BY <1>1, <2>1, <2>2
  <2> HIDE DEF m
  <2>4. x \in Seq(Tokens)
    BY <2>3, Prefix
  <2> HIDE DEF x
  <2>5. Kept(kept, payload) = Append(kept, x)
    BY <1>5, <1>9 DEF m, x
  <2>6. FlattenSeq(Append(kept, x)) = FlattenSeq(kept) \o x
    BY <2>4, FlattenMore
  <2>7. FlattenSeq(kept) = told
    <3>1. (IF L <= M THEN L ELSE M) = L
      BY <1>1, <2>1
    <3>2. SubSeq(told, 1, L) = told
      BY WholePiece DEF L
    <3> QED
      BY <1>6, <3>1, <3>2
  <2>8. SubSeq(after, 1, L + m) = told \o x
    BY <2>3, PrefixOfBoth DEF after, L, x
  <2>9. Min({Len(after), M}) = L + m
    <3>1. Len(after) \in Nat
      BY <1>1, <1>4
    <3>2. Min({Len(after), M}) = IF Len(after) <= M THEN Len(after) ELSE M
      BY <1>1, <3>1, MinPair
    <3> QED
      BY <1>1, <1>4, <2>1, <2>2, <3>2
  <2>10. Append(kept, x) \in Seq(Seq(Tokens))
    BY <2>4
  <2> QED
    BY <2>5, <2>6, <2>7, <2>8, <2>9, <2>10 DEF M, after
<1> QED
  BY <1>7, <1>8, <1>9

\* One token before the others.
LEMMA TailOf ==
    ASSUME NEW X, NEW a \in X, NEW x \in Seq(X)
    PROVE  LET d == <<a>> \o x
           IN  d \in Seq(X) /\ d # <<>> /\ d[1] = a /\ Len(d) = 1 + Len(x) /\ Tail(d) = x
<1> DEFINE h == <<a>>
           d == h \o x
<1>1. h \in Seq(X) /\ Len(h) = 1 /\ h[1] = a
  OBVIOUS
<1> HIDE DEF h
<1>2. /\ d \in Seq(X) /\ Len(d) = 1 + Len(x) /\ (\A i \in 1 .. 1 : d[i] = h[i])
      /\ \A i \in 1 .. Len(x) : d[1 + i] = x[i]
  <2>1. d \in Seq(X)
    BY <1>1, Concat
  <2>2. Len(d) = Len(h) + Len(x)
    BY <1>1, Concat
  <2>3. \A i \in 1 .. Len(h) : d[i] = h[i]
    BY <1>1, Concat
  <2>4. \A i \in 1 .. Len(x) : d[Len(h) + i] = x[i]
    <3>1. h \in Seq(X) /\ x \in Seq(X)
      BY <1>1
    <3> QED
      BY <3>1, Concat
  <2> QED
    BY <1>1, <2>1, <2>2, <2>3, <2>4
<1> HIDE DEF d
<1>3. Len(x) \in Nat /\ d # <<>> /\ d[1] = a
  BY <1>1, <1>2
<1> DEFINE t == Tail(d)
<1>4. t \in Seq(X) /\ Len(t) = Len(x) /\ \A i \in 1 .. Len(x) : t[i] = d[1 + i]
  BY <1>2, <1>3
<1> HIDE DEF t
<1>5. t = x
  BY <1>2, <1>4, SameSeq
<1> QED
  BY <1>2, <1>3, <1>5 DEF t, d, h

\* What the parser makes of a line that starts with a name.
LEMMA Begun ==
    ASSUME NEW d, d # <<>>, NEW a, d[1] = Tok(a)
    PROVE  /\ \A texts : Starts(d, texts) <=> a \in texts
           /\ a = "ch1" => ~DetectError(d) /\ ~Fatal(d)
           /\ a = "ch2" => ~DetectError(d) /\ ~Fatal(d)
           /\ a \in {"ERR ", "fatal:"} => DetectError(d)
<1>1. \A texts : Starts(d, texts) <=> a \in texts
  BY DEF Starts, Tok
<1> QED
  BY <1>1 DEF DetectError, Fatal

\* Channel 3 with nothing in it is no refusal, and with anything it is.
LEMMA OtherChannel ==
    /\ LET d == <<Tok("ch3")>> IN ~DetectError(d) /\ ~Fatal(d)
    /\ \A x : LET d == <<Tok("ch3"), x>> IN Fatal(d)
<1> DEFINE d == <<Tok("ch3")>>
<1>1. d # <<>> /\ d[1] = Tok("ch3") /\ Len(d) = 1 /\ Tail(d) = <<>>
  OBVIOUS
<1> HIDE DEF d
<1>2. \A texts : Starts(d, texts) <=> "ch3" \in texts
  BY <1>1, Begun
<1>3. \A texts : ~Starts(Tail(d), texts)
  BY <1>1 DEF Starts
<1>4. ~DetectError(d) /\ ~Fatal(d)
  <2>1. /\ ~Starts(d, {"ERR ", "error:", "fatal:", "ng "}) /\ ~Starts(d, {"unpack "})
        /\ ~Starts(Tail(d), {"error:", "fatal:"})
    BY <1>2, <1>3
  <2>2. ~DetectError(d)
    BY <2>1 DEF DetectError
  <2>3. ~Fatal(d)
    BY <1>1 DEF Fatal
  <2> QED
    BY <2>2, <2>3
<1>5. ASSUME NEW x PROVE Fatal(<<Tok("ch3"), x>>)
  <2> DEFINE e == <<Tok("ch3"), x>>
  <2>1. e # <<>> /\ e[1] = Tok("ch3") /\ Len(e) = 2
    OBVIOUS
  <2> HIDE DEF e
  <2>2. Starts(e, {"ch3"})
    BY <2>1, Begun
  <2>3. Fatal(e)
    BY <2>1, <2>2 DEF Fatal
  <2> QED
    BY <2>3 DEF e
<1> QED
  BY <1>4, <1>5 DEF d

\* The packet of which the length is there.
LEMMA Held ==
    ASSUME IInv, Len(packet) >= 2
    PROVE  /\ ending = "more" \/ cut
           /\ \/ \E d \in Seq(Tokens) : /\ Carries(d) /\ packet[2] = [t |-> "data", n |-> Len(d)]
                                        /\ Len(packet) = 2 + Len(d) => packet = Packet(d)
                                        /\ Len(packet) <= 2 + Len(d)
              \/ \E kind \in Names : Control(kind) /\ packet[2].t = kind
<1>1. PICK w : Begins(w) /\ Meant(w)
  BY DEF IInv, OnItsWay
<1>2. packet \in Seq(Tokens) /\ Len(packet) \in Nat
  BY Places
<1>3. w \in Seq(Tokens) /\ Len(packet) <= Len(w) /\ packet = SubSeq(w, 1, Len(packet)) /\ Len(w) \in Nat
  BY <1>1 DEF Begins
<1>4. w # <<>>
  BY <1>2, <1>3
<1>5. ending = "more" \/ cut
  <2>1. cut \in BOOLEAN
    BY DEF IInv, TypeInv, TypeOK
  <2> QED
    BY <1>1, <1>4, <2>1 DEF Begins
<1>6. packet[2] = w[2]
  <2> DEFINE L == Len(packet)
             u == SubSeq(w, 1, L)
  <2>1. L \in Nat /\ L <= Len(w) /\ 2 \in 1 .. L
    BY <1>2, <1>3
  <2> HIDE DEF L
  <2>2. \A i \in 1 .. L : u[i] = w[i]
    BY <1>3, <2>1, Prefix
  <2>3. packet = u
    BY <1>3 DEF L
  <2> QED
    BY <2>1, <2>2, <2>3
<1>7. CASE \E d \in Seq(Tokens) : w = Packet(d) /\ Carries(d)
  <2>1. PICK d \in Seq(Tokens) : w = Packet(d) /\ Carries(d)
    BY <1>7
  <2>2. Len(Packet(d)) = 2 + Len(d) /\ Packet(d)[2] = [t |-> "data", n |-> Len(d)]
    BY PacketIs
  <2>3. Len(packet) = 2 + Len(d) => packet = w
    <3>1. SubSeq(w, 1, Len(w)) = w
      BY <1>3, WholePiece
    <3> QED
      BY <1>3, <2>1, <2>2, <3>1
  <2> QED
    BY <1>3, <1>5, <1>6, <2>1, <2>2, <2>3
<1>8. CASE \E kind \in Names : w = Special(kind) /\ Control(kind)
  <2>1. PICK kind \in Names : w = Special(kind) /\ Control(kind)
    BY <1>8
  <2>2. Special(kind)[2] = Tok(kind)
    BY SpecialIs
  <2>3. packet[2].t = kind
    BY <1>6, <2>1, <2>2 DEF Tok
  <2> QED
    BY <1>5, <2>1, <2>3
<1> QED
  BY <1>1, <1>4, <1>7, <1>8 DEF Meant

\* A packet done with.
LEMMA NextPacketKeeps ==
    ASSUME IInv, NextPacket, have = Need, UNCHANGED <<server, ending, cut, reader, result>>,
           TypeInv', arrived' = Sent, ~aborted, ending = "more" \/ cut, Gathered', Explained'
    PROVE  IInv'
<1>1. /\ UNCHANGED <<report, framing, pending, extras, aborted, ending, cut, limit, remaining, readErr, delivered, result>>
      /\ packet' = <<>> /\ phase' = "length" /\ have' = 0
  BY DEF server, reader, NextPacket
<1>2. TypeInv /\ InPlace /\ IsRest /\ have \in Nat
  BY DEF IInv, TypeInv, TypeOK
<1>3. Whole' = Whole /\ Sent' = Sent
  BY <1>1 DEF Whole, Sent
<1>4. InPlace'
  <2>1. Taken' = 0 /\ Len(packet') = 0
    BY <1>1 DEF Taken
  <2>2. readErr # "tooLarge"
    BY <1>2 DEF InPlace
  <2> QED
    BY <1>1, <1>2, <2>1, <2>2 DEF InPlace
<1>5. IsRest'
  BY <1>1, <1>2, <1>3 DEF IsRest
<1>6. OnItsWay'
  <2>1. <<>> \in Seq(Tokens) /\ Len(<<>>) = 0 /\ SubSeq(<<>>, 1, 0) = <<>>
    OBVIOUS
  <2>2. Begins(<<>>)'
    BY <1>1, <2>1 DEF Begins
  <2>3. Meant(<<>>)'
    BY <1>1, <1>3 DEF Meant
  <2> QED
    BY <2>2, <2>3 DEF OnItsWay
<1> QED
  BY <1>4, <1>5, <1>6 DEF IInv

\* What may be returned.
Settled(r) ==
    /\ (pending = <<>> /\ ~cut /\ ~aborted /\ readErr # "tooLarge") => r = Meaning(report)
    /\ r = "ok" => /\ ~(aborted /\ ~cut)
                   /\ \A i \in LinesArrived : report[i] \notin Refusals
                   /\ arrived > 0 => \E i \in LinesArrived : report[i] = "unpackOk"
Outcome == IInv /\ VerdictIsRight /\ NoFalseSuccess

\* A return of what may be returned.
LEMMA ReturnsSettled ==
    ASSUME IInv, NEW r \in {"ok", "refused", "missing", "broken", "tooLarge"}, Returns(r), Settled(r)
    PROVE  Outcome'
<1>1. IInv'
  BY ReturnsKeeps
<1>2. result' = r /\ UNCHANGED <<report, framing, pending, aborted, cut, readErr, arrived>>
  BY DEF Returns, server, reader, parsed
<1>3. LinesArrived' = LinesArrived
  BY <1>2 DEF LinesArrived
<1>4. VerdictIsRight'
  BY <1>2 DEF VerdictIsRight, Settled
<1>5. NoFalseSuccess'
  BY <1>2, <1>3 DEF NoFalseSuccess, Settled
<1> QED
  BY <1>1, <1>4, <1>5 DEF Outcome

\* A step that returns nothing.
LEMMA NotYet == ASSUME IInv', result' = "none" PROVE Outcome'
BY DEF Outcome, VerdictIsRight, NoFalseSuccess

\* The end of the stream.
LEMMA VerdictSettled ==
    ASSUME IInv,
           \/ readErr = "eof"
           \/ arrived = Len(Whole) /\ ~aborted
    PROVE  Settled(Verdict) /\ Verdict \in {"ok", "refused", "missing", "broken"}
<1>1. /\ Verdict \in {"ok", "refused", "missing", "broken"}
      /\ Verdict = "ok" => /\ \A i \in LinesArrived : report[i] \notin Refusals
                           /\ arrived > 0 => \E i \in LinesArrived : report[i] = "unpackOk"
      /\ arrived = Len(Whole) => Verdict = Meaning(report)
  BY VerdictIs DEF IInv
<1>2. CASE readErr = "eof"
  <2>1. ending = "eof" /\ cut \in BOOLEAN
    BY <1>2 DEF IInv, InPlace, TypeInv, TypeOK
  <2>2. ASSUME ~cut PROVE ~aborted /\ arrived = Len(Whole)
    <3>1. PICK w : Begins(w) /\ Meant(w)
      BY DEF IInv, OnItsWay
    <3>2. w = <<>> /\ pending = <<>> /\ packet = <<>>
      <4>1. w = <<>> /\ pending = <<>>
        BY <2>1, <2>2, <3>1 DEF Begins
      <4>2. packet \in Seq(Tokens) /\ Len(packet) <= Len(<<>>) /\ Len(packet) \in Nat
        BY <3>1, <4>1, Places DEF Begins
      <4> QED
        BY <4>1, <4>2
    <3>3. arrived = Sent /\ ~aborted
      <4>1. \A d \in Seq(Tokens) : Packet(d) # <<>>
        <5> SUFFICES ASSUME NEW d \in Seq(Tokens) PROVE Packet(d) # <<>>
          OBVIOUS
        <5>1. Len(Packet(d)) = 2 + Len(d)
          BY PacketIs
        <5>2. Len(d) \in Nat /\ Len(<<>>) = 0
          OBVIOUS
        <5> HIDE DEF Packet
        <5> QED
          BY <5>1, <5>2
      <4>2. \A kind \in Names : Special(kind) # <<>>
        <5> SUFFICES ASSUME NEW kind \in Names PROVE Special(kind) # <<>>
          OBVIOUS
        <5>1. Len(Special(kind)) = 2
          BY SpecialIs
        <5> QED
          BY <5>1
      <4> QED
        BY <3>1, <3>2, <4>1, <4>2 DEF Meant
    <3>4. Sent = Len(Whole)
      BY <3>2, Sender
    <3> QED
      BY <3>3, <3>4
  <2> QED
    BY <1>1, <2>1, <2>2 DEF Settled
<1>3. CASE arrived = Len(Whole) /\ ~aborted
  BY <1>1, <1>3 DEF Settled
<1> QED
  BY <1>1, <1>2, <1>3

\* The length of a packet, or the end of the stream in its place (readPacketLength).
LEMMA ReadPacketLengthKeeps == ASSUME IInv, ReadPacketLength PROVE Outcome'
<1>1. result = "none" /\ phase = "length"
  BY DEF ReadPacketLength
<1>2. Need = 2 /\ Taken = have /\ have \in Nat /\ Taken <= Len(packet)
  BY <1>1, Places DEF Need, Taken
<1>3. readErr \in {"none", "tooLarge", "eof", "fails"}
  BY DEF IInv, TypeInv, TypeOK
<1>4. CASE /\ readErr # "none" /\ have < 2
           /\ Returns(IF readErr = "eof" THEN Verdict
                      ELSE IF readErr = "tooLarge" THEN "tooLarge" ELSE "broken")
  <2>1. CASE readErr = "eof"
    <3>1. PICK r : r = Verdict
      OBVIOUS
    <3>2. Settled(r) /\ r \in {"ok", "refused", "missing", "broken", "tooLarge"}
      BY <2>1, <3>1, VerdictSettled
    <3>3. Returns(r)
      BY <1>4, <2>1, <3>1
    <3> QED
      BY <3>2, <3>3, ReturnsSettled
  <2>2. CASE readErr = "tooLarge"
    <3>1. Settled("tooLarge")
      BY <2>2 DEF Settled
    <3>2. Returns("tooLarge")
      BY <1>4, <2>2
    <3> QED
      BY <3>1, <3>2, ReturnsSettled
  <2>3. CASE readErr = "fails"
    <3>1. cut
      BY <2>3 DEF IInv, InPlace
    <3>2. Settled("broken")
      BY <3>1 DEF Settled
    <3>3. Returns("broken")
      BY <1>4, <2>3
    <3> QED
      BY <3>2, <3>3, ReturnsSettled
  <2> QED
    BY <1>3, <1>4, <2>1, <2>2, <2>3
<1>5. CASE /\ have = 2
           /\ CASE packet[2].t \in {"flush", "responseEnd"} -> Returns(Verdict)
                [] packet[2].t \in {"tooLarge", "garbled"} -> Returns("broken")
                [] packet[2].t \in {"delimiter", "empty"} ->
                       /\ NextPacket
                       /\ UNCHANGED <<server, ending, cut, reader, parsed, result>>
                [] packet[2].t = "data" ->
                       /\ phase' = "data" /\ have' = 0
                       /\ UNCHANGED <<server, packet, ending, cut, reader, parsed, result>>
  <2> DEFINE kind == packet[2].t
  <2>1. Len(packet) >= 2
    BY <1>2, <1>5, Places
  <2>2. (kind = "data" \/ Control(kind)) /\ (ending = "more" \/ cut)
    <3>1. CASE \E d \in Seq(Tokens) : packet[2] = [t |-> "data", n |-> Len(d)]
      BY <2>1, <3>1, Held
    <3>2. CASE \E k \in Names : Control(k) /\ packet[2].t = k
      BY <2>1, <3>2, Held
    <3> QED
      BY <2>1, <3>1, <3>2, Held
  <2>3. CASE kind \in {"flush", "responseEnd"}
    <3>1. Returns(Verdict)
      BY <1>5, <2>3
    <3>2. arrived = Len(Whole) /\ ~aborted
      <4>1. arrived = Sent /\ pending = <<>> /\ ~aborted
        BY <2>2, <2>3 DEF Control
      <4> QED
        BY <4>1, Sender
    <3>3. PICK r : r = Verdict
      OBVIOUS
    <3>4. Settled(r) /\ r \in {"ok", "refused", "missing", "broken", "tooLarge"}
      BY <3>2, <3>3, VerdictSettled
    <3>5. Returns(r)
      BY <3>1, <3>3
    <3> QED
      BY <3>4, <3>5, ReturnsSettled
  <2>4. CASE kind \in {"tooLarge", "garbled"}
    <3>1. Returns("broken")
      BY <1>5, <2>4
    <3>2. aborted
      BY <2>2, <2>4 DEF Control
    <3>3. Settled("broken")
      BY <3>2 DEF Settled
    <3> QED
      BY <3>1, <3>3, ReturnsSettled
  <2>5. CASE kind \in {"delimiter", "empty"}
    <3>1. NextPacket /\ UNCHANGED <<server, ending, cut, reader, parsed, result>>
      BY <1>5, <2>5
    <3>2. arrived = Sent /\ ~aborted
      BY <2>2, <2>5 DEF Control
    <3>3. UNCHANGED <<report, framing, pending, extras, aborted, limit, remaining, readErr, delivered, sawUnpackOk,
                      sawReportStatusContent, sideBandPackets, arrived, progress, said>>
      BY <3>1 DEF server, reader, parsed
    <3>4. TypeInv'
      <4>1. packet' \in Seq(Tokens) /\ have' \in Nat /\ phase' \in {"length", "data"}
        BY <3>1 DEF NextPacket
      <4> QED
        BY <3>1, <3>3, <4>1 DEF IInv, TypeInv, TypeOK
    <3>5. Whole' = Whole /\ Sent' = Sent /\ Flat' = Flat
      BY <3>3 DEF Whole, Sent, Flat
    <3>6. Gathered'
      BY <3>3, <3>5 DEF IInv, Gathered, HasLines
    <3>7. Explained'
      BY <3>3 DEF IInv, Explained
    <3>8. IInv'
      BY <1>2, <1>5, <2>2, <3>1, <3>2, <3>3, <3>4, <3>6, <3>7, NextPacketKeeps
    <3> QED
      BY <1>1, <3>1, <3>8, NotYet
  <2>6. CASE kind = "data"
    <3>1. /\ phase' = "data" /\ have' = 0
          /\ UNCHANGED <<server, packet, ending, cut, reader, parsed, result>>
      BY <1>5, <2>6
    <3>2. TypeOK'
      BY <3>1 DEF IInv, TypeInv, TypeOK, server, reader, parsed
    <3>3. InPlace'
      <4>1. Taken' = 2 /\ packet'[2].t = "data"
        BY <2>6, <3>1 DEF Taken
      <4>2. InPlace /\ readErr # "tooLarge"
        BY <1>2, <1>5 DEF IInv, InPlace
      <4>3. UNCHANGED <<limit, remaining, readErr, delivered, ending, cut, packet>>
        BY <3>1 DEF reader
      <4>4. Taken' <= Len(packet')
        BY <1>2, <1>5, <4>1, <4>3
      <4> QED
        BY <4>1, <4>2, <4>3, <4>4 DEF InPlace
    <3>4. IInv'
      BY <3>1, <3>2, <3>3, ReaderKeeps
    <3> QED
      BY <1>1, <3>1, <3>4, NotYet
  <2>7. kind \in {"flush", "responseEnd", "tooLarge", "garbled", "delimiter", "empty", "data"}
    BY <2>2 DEF Control
  <2> QED
    BY <2>3, <2>4, <2>5, <2>6, <2>7
<1> QED
  BY <1>1, <1>4, <1>5 DEF ReadPacketLength

\* The line that is there.
LEMMA LineHeld ==
    ASSUME IInv, phase = "data"
    PROVE  /\ ending = "more" \/ cut
           /\ have = Need => \E d \in Seq(Tokens) : Payload(packet) = d /\ Carries(d)
<1>1. Taken = 2 + have /\ Need = packet[2].n /\ have \in Nat /\ Taken <= Len(packet) /\ Len(packet) \in Nat
  BY Places DEF Taken, Need
<1>2. Len(packet) >= 2
  BY <1>1
<1>3. ending = "more" \/ cut
  BY <1>2, Held
<1>4. packet[2].t = "data"
  BY DEF IInv, InPlace
<1>5. ~(\E kind \in Names : Control(kind) /\ packet[2].t = kind)
  BY <1>4 DEF Control
<1>6. PICK d \in Seq(Tokens) : /\ Carries(d) /\ packet[2] = [t |-> "data", n |-> Len(d)]
                               /\ Len(packet) = 2 + Len(d) => packet = Packet(d)
                               /\ Len(packet) <= 2 + Len(d)
  BY <1>2, <1>5, Held
<1>7. ASSUME have = Need PROVE Payload(packet) = d
  <2>1. have = Len(d) /\ Len(packet) = 2 + Len(d)
    BY <1>1, <1>6, <1>7
  <2>2. packet = Packet(d)
    BY <1>6, <2>1
  <2>3. SubSeq(Packet(d), 3, Len(Packet(d))) = d
    BY PacketIs
  <2> QED
    BY <2>2, <2>3 DEF Payload
<1> QED
  BY <1>3, <1>6, <1>7

\* What is refused is a refusal of the report, or the server gives up.
LEMMA RefusalIs ==
    ASSUME IInv, NEW d \in Seq(Tokens), Carries(d)
    PROVE  /\ DetectError(d) \/ Fatal(d) => aborted \/ Meaning(report) = "refused"
           /\ CarriesAbort(d) => DetectError(d) \/ Fatal(d)
<1>1. CASE CarriesPiece(d)
  <2> DEFINE x == SubSeq(Whole, arrived + 1, Sent)
             a == Tok("ch1")
  <2>1. d = <<a>> \o x /\ ~aborted
    BY <1>1 DEF CarriesPiece
  <2>2. x \in Seq(Tokens) /\ a \in Tokens
    <3>1. "ch1" \in Names
      BY DEF Names
    <3>2. a \in Tokens
      BY <3>1, TokensAre
    <3>3. x \in Seq(Tokens)
      BY Sender, Piece
    <3> QED
      BY <3>2, <3>3
  <2> HIDE DEF x
  <2>3. d # <<>> /\ d[1] = Tok("ch1")
    BY <2>1, <2>2, TailOf
  <2>4. ~DetectError(d) /\ ~Fatal(d)
    BY <2>3, Begun
  <2> QED
    BY <2>1, <2>4 DEF CarriesAbort
<1>2. CASE CarriesLine(d)
  <2>1. PICK k \in DOMAIN report : d \in {Text[report[k]], Append(Text[report[k]], LF)}
    BY <1>2 DEF CarriesLine
  <2>2. report[k] \in Kinds /\ ~aborted
    BY <1>2, Sender DEF CarriesLine
  <2>3. /\ DetectError(d) <=> report[k] \in Refusals
        /\ ~Starts(d, {"ch3"})
    BY <2>1, <2>2, LineMeans
  <2>4. report[k] \in Refusals => Meaning(report) = "refused"
    <3> SUFFICES ASSUME report[k] \in Refusals PROVE Meaning(report) = "refused"
      OBVIOUS
    <3>1. \E i \in DOMAIN report : report[i] \in Refusals
      OBVIOUS
    <3>2. ~(\A i \in DOMAIN report : report[i] \notin Refusals)
      OBVIOUS
    <3> QED
      BY <3>1, <3>2 DEF Meaning
  <2> QED
    BY <2>2, <2>3, <2>4 DEF Fatal, CarriesAbort
<1>3. CASE CarriesExtra(d)
  <2>1. ~aborted
    BY <1>3 DEF CarriesExtra
  <2>2. CASE d # <<Tok("ch3")>>
    <3>1. d # <<>> /\ (d[1] = Tok("ch1") \/ d[1] = Tok("ch2"))
      BY <1>3, <2>2 DEF CarriesExtra
    <3> QED
      BY <2>1, <3>1, Begun DEF CarriesAbort
  <2>3. CASE d = <<Tok("ch3")>>
    BY <2>1, <2>3, OtherChannel DEF CarriesAbort
  <2> QED
    BY <2>2, <2>3
<1>4. CASE CarriesAbort(d)
  <2>1. aborted
    BY <1>4 DEF CarriesAbort
  <2>2. CASE d \in {<<Tok("ERR ")>>, <<Tok("fatal:")>>}
    <3>1. CASE d = <<Tok("ERR ")>>
      <4>1. d # <<>> /\ d[1] = Tok("ERR ")
        BY <3>1
      <4> QED
        BY <2>1, <4>1, Begun
    <3>2. CASE d = <<Tok("fatal:")>>
      <4>1. d # <<>> /\ d[1] = Tok("fatal:")
        BY <3>2
      <4> QED
        BY <2>1, <4>1, Begun
    <3> QED
      BY <2>2, <3>1, <3>2
  <2>3. CASE d \notin {<<Tok("ERR ")>>, <<Tok("fatal:")>>}
    <3>1. \E x : d = <<Tok("ch3"), x>>
      BY <1>4, <2>3 DEF CarriesAbort
    <3> QED
      BY <2>1, <3>1, OtherChannel
  <2> QED
    BY <2>2, <2>3
<1> QED
  BY <1>1, <1>2, <1>3, <1>4 DEF Carries

\* What every line leaves alone, and a line that says nothing new.
LEMMA ClassifyFrame ==
    ASSUME IInv, NEW d \in Seq(Tokens), phase = "data", have = Need, Payload(packet) = d, Classify(d),
           ~aborted, arrived' = Sent, Gathered', Explained', arrived' \in Nat,
           sawUnpackOk' \in BOOLEAN, sawReportStatusContent' \in BOOLEAN,
           sideBandPackets' \in Seq(Seq(Tokens)), progress' \in Seq(Seq(Tokens)), said' \in Seq(Tokens)
    PROVE  IInv'
<1>1. NextPacket /\ UNCHANGED <<server, ending, cut, reader, result>>
  BY DEF Classify
<1>2. ending = "more" \/ cut
  BY LineHeld
<1>3. TypeInv'
  <2>1. packet' \in Seq(Tokens) /\ have' \in Nat /\ phase' \in {"length", "data"}
    BY <1>1 DEF NextPacket
  <2> QED
    BY <1>1, <2>1 DEF IInv, TypeInv, TypeOK, server, reader
<1> QED
  BY <1>1, <1>2, <1>3, NextPacketKeeps

\* A line that is no refusal, on each of the channels and on none (classifyReceivePackLine).
LEMMA ClassifyKeeps ==
    ASSUME IInv, NEW d \in Seq(Tokens), phase = "data", have = Need, Payload(packet) = d, Carries(d),
           ~DetectError(d), ~Fatal(d), Classify(d)
    PROVE  IInv'
<1>1. /\ report \in Seq(Kinds) /\ framing \in {"bare", "nested", "raw"} /\ Whole \in Seq(Tokens)
      /\ Len(Whole) \in Nat /\ Sent \in Nat /\ Sent <= Len(Whole) /\ arrived \in Nat /\ arrived <= Sent
  BY Sender
<1>2. /\ sawUnpackOk \in BOOLEAN /\ sawReportStatusContent \in BOOLEAN /\ sideBandPackets \in Seq(Seq(Tokens))
      /\ progress \in Seq(Seq(Tokens)) /\ said \in Seq(Tokens) /\ Gathered /\ Explained
  BY DEF IInv, TypeInv, TypeOK
<1>3. UNCHANGED <<report, framing, pending, aborted>> /\ Whole' = Whole /\ Sent' = Sent
  BY DEF Classify, server, Whole, Sent
<1>4. Flat' = FlattenSeq(sideBandPackets')
  BY DEF Flat
<1>5. CASE CarriesPiece(d)
  <2> DEFINE x == SubSeq(Whole, arrived + 1, Sent)
             a == Tok("ch1")
  <2>1. framing # "bare" /\ ~aborted /\ d = <<a>> \o x
    BY <1>5 DEF CarriesPiece
  <2>2. a \in Tokens
    <3>1. "ch1" \in Names
      BY DEF Names
    <3> QED
      BY <3>1, TokensAre
  <2>3. x \in Seq(Tokens) /\ Len(x) = Sent - arrived
    BY <1>1, Piece
  <2> HIDE DEF x
  <2>4. d # <<>> /\ d[1] = Tok("ch1") /\ Len(d) = 1 + Len(x) /\ Tail(d) = x
    BY <2>1, <2>2, <2>3, TailOf
  <2>5. Starts(d, {"ch1"})
    BY <2>4, Begun
  <2>6. /\ sideBandPackets' = Append(sideBandPackets, x)
        /\ sawReportStatusContent' = (sawReportStatusContent \/ Len(d) > 1)
        /\ arrived' = arrived + Len(d) - 1
        /\ UNCHANGED <<sawUnpackOk, progress, said>>
    BY <2>4, <2>5 DEF Classify
  <2>7. arrived' = Sent
    BY <1>1, <2>3, <2>4, <2>6
  <2>8. sideBandPackets' \in Seq(Seq(Tokens))
    BY <1>2, <2>3, <2>6
  <2>9. Flat' = SubSeq(Whole, 1, Sent)
    <3>1. Flat' = Flat \o x
      BY <1>2, <1>4, <2>3, <2>6, FlattenMore DEF Flat
    <3>2. Flat = SubSeq(Whole, 1, arrived)
      BY <1>2, <2>1 DEF Gathered
    <3>3. SubSeq(Whole, 1, arrived) \o SubSeq(Whole, arrived + 1, Sent) = SubSeq(Whole, 1, Sent)
      BY <1>1, PieceAfterPiece
    <3> QED
      BY <3>1, <3>2, <3>3 DEF x
  <2>10. Gathered'
    <3>1. sawReportStatusContent' <=> arrived' > 0
      <4>1. sawReportStatusContent <=> arrived > 0
        BY <1>2 DEF Gathered
      <4>2. Len(d) > 1 <=> Sent > arrived
        BY <1>1, <2>3, <2>4
      <4>3. Sent > 0 <=> arrived > 0 \/ Sent > arrived
        BY <1>1
      <4> QED
        BY <2>6, <2>7, <4>1, <4>2, <4>3
    <3>2. ~sawUnpackOk'
      BY <1>2, <2>1, <2>6 DEF Gathered
    <3> QED
      BY <1>1, <1>3, <2>1, <2>7, <2>9, <3>1, <3>2 DEF Gathered
  <2>11. Explained'
    BY <1>2, <2>6 DEF Explained
  <2>12. arrived' \in Nat /\ sawReportStatusContent' \in BOOLEAN /\ sawUnpackOk' \in BOOLEAN
         /\ progress' \in Seq(Seq(Tokens)) /\ said' \in Seq(Tokens)
    BY <1>1, <1>2, <2>6, <2>7
  <2> QED
    BY <2>1, <2>7, <2>8, <2>10, <2>11, <2>12, ClassifyFrame
<1>6. CASE CarriesLine(d)
  <2>1. framing = "bare" /\ ~aborted
    BY <1>6 DEF CarriesLine
  <2>2. PICK k \in DOMAIN report : arrived = 3 * (k - 1) /\ Sent = 3 * k
                                   /\ d \in {Text[report[k]], Append(Text[report[k]], LF)}
    BY <1>6 DEF CarriesLine
  <2>3. report[k] \in Kinds /\ k \in 1 .. Len(report) /\ k \in Nat /\ Len(report) \in Nat
    BY <1>1
  <2>4. /\ TrimRight(d) = Text[report[k]] /\ (IsUnpackOkLine(d) <=> report[k] = "unpackOk")
        /\ report[k] \notin Refusals
        /\ ~Starts(d, {"ch1"}) /\ ~Starts(d, {"ch2", "ch3"})
    BY <2>2, <2>3, LineMeans
  <2>5. Len(TrimRight(d)) = 2
    <3>1. Text[report[k]] = <<Tok(First(report[k])), Tok(Second(report[k]))>>
      BY <2>3, TextIs
    <3> QED
      BY <2>4, <3>1
  <2>6. /\ sawUnpackOk' = (sawUnpackOk \/ IsUnpackOkLine(d))
        /\ sawReportStatusContent' = TRUE
        /\ arrived' = arrived + Len(TrimRight(d)) + 1
        /\ UNCHANGED <<sideBandPackets, progress, said>>
    BY <2>4 DEF Classify
  <2>7. arrived' = Sent /\ arrived' = 3 * k /\ arrived' > 0
    <3>1. arrived' = 3 * (k - 1) + 2 + 1 /\ Sent = 3 * k
      BY <2>2, <2>5, <2>6
    <3> QED
      BY <2>3, <3>1
  <2>8. HasLines(k)'
    <3>1. PICK m \in 0 .. Len(report) : HasLines(m)
      BY <1>2, <2>1 DEF Gathered
    <3>2. m = k - 1
      <4>1. 3 * m = 3 * (k - 1) /\ m \in Nat
        <5>1. arrived = 3 * m
          BY <3>1 DEF HasLines
        <5> QED
          BY <2>2, <2>3, <5>1
      <4> QED
        BY <2>3, <4>1
    <3>3. \A j : j \in 1 .. k <=> j \in 1 .. m \/ j = k
      BY <2>3, <3>2
    <3>4. sawUnpackOk' <=> \E j \in 1 .. k : report[j] = "unpackOk"
      <4>1. sawUnpackOk <=> \E j \in 1 .. m : report[j] = "unpackOk"
        BY <3>1 DEF HasLines
      <4> QED
        BY <2>4, <2>6, <3>3, <4>1
    <3>5. \A j \in 1 .. k : report[j] \notin Refusals
      BY <2>4, <3>1, <3>3 DEF HasLines
    <3> QED
      BY <1>3, <2>7, <3>4, <3>5 DEF HasLines
  <2>9. Flat' = <<>>
    BY <1>2, <2>1, <2>6 DEF Flat, Gathered
  <2>10. Gathered'
    <3>1. arrived' <= Sent' /\ (sawReportStatusContent' <=> arrived' > 0)
      BY <1>1, <1>3, <2>6, <2>7
    <3>2. framing' = "bare" /\ k \in 0 .. Len(report')
      BY <1>3, <2>1, <2>3
    <3> QED
      BY <2>8, <2>9, <3>1, <3>2 DEF Gathered
  <2>11. Explained'
    BY <1>2, <2>6 DEF Explained
  <2>12. arrived' \in Nat /\ sawReportStatusContent' \in BOOLEAN /\ sawUnpackOk' \in BOOLEAN
         /\ progress' \in Seq(Seq(Tokens)) /\ said' \in Seq(Tokens) /\ sideBandPackets' \in Seq(Seq(Tokens))
    <3>1. sawUnpackOk' \in BOOLEAN
      BY <2>6
    <3> QED
      BY <1>1, <1>2, <2>6, <2>7, <3>1
  <2> QED
    BY <2>1, <2>7, <2>10, <2>11, <2>12, ClassifyFrame
<1>7. CASE CarriesExtra(d)
  <2>1. ~aborted /\ arrived = Sent
    BY <1>7 DEF CarriesExtra
  <2>2. CASE d = <<Tok("ch1")>>
    <3>1. d # <<>> /\ d[1] = Tok("ch1") /\ Len(d) = 1 /\ Tail(d) = <<>> /\ <<>> \in Seq(Tokens)
      BY <2>2
    <3>2. Starts(d, {"ch1"})
      BY <3>1, Begun
    <3>3. /\ sideBandPackets' = Append(sideBandPackets, <<>>)
          /\ sawReportStatusContent' = (sawReportStatusContent \/ 1 > 1)
          /\ arrived' = arrived + 1 - 1
          /\ UNCHANGED <<sawUnpackOk, progress, said>>
      BY <3>1, <3>2 DEF Classify
    <3>4. arrived' = arrived /\ sawReportStatusContent' = sawReportStatusContent
      BY <1>1, <1>2, <3>3
    <3>5. sideBandPackets' \in Seq(Seq(Tokens))
      BY <1>2, <3>1, <3>3
    <3>6. Flat' = Flat
      <4>1. Flat \in Seq(Tokens) /\ Flat' = Flat \o <<>>
        BY <1>2, <1>4, <3>1, <3>3, FlattenMore DEF Flat
      <4> QED
        BY <4>1
    <3>7. Gathered'
      BY <1>2, <1>3, <3>3, <3>4, <3>6 DEF Gathered, HasLines
    <3>8. Explained'
      BY <1>2, <3>3 DEF Explained
    <3> QED
      BY <1>1, <1>2, <2>1, <3>3, <3>4, <3>5, <3>7, <3>8, ClassifyFrame
  <2>3. CASE d \in {<<Tok("ch2"), Tok("fatal:")>>, <<Tok("ch2"), LF, Tok("fatal:")>>}
    <3>1. d # <<>> /\ d[1] = Tok("ch2")
      BY <2>3
    <3>2. ~Starts(d, {"ch1"}) /\ Starts(d, {"ch2", "ch3"}) /\ Starts(d, {"ch2"})
      <4>1. \A texts : Starts(d, texts) <=> "ch2" \in texts
        BY <3>1, Begun
      <4> QED
        BY <4>1
    <3>3. /\ progress' = Kept(progress, Tail(d)) /\ said' = said \o Tail(d)
          /\ UNCHANGED <<sawUnpackOk, sawReportStatusContent, sideBandPackets, arrived>>
      BY <3>2 DEF Classify
    <3>4. PICK x : x = Tail(d)
      OBVIOUS
    <3>5. x \in Seq(Tokens)
      BY <3>1, <3>4
    <3>6. progress' \in Seq(Seq(Tokens)) /\ said' \in Seq(Tokens) /\ Explained'
      <4>1. /\ Kept(progress, x) \in Seq(Seq(Tokens))
            /\ FlattenSeq(Kept(progress, x)) = SubSeq(said \o x, 1, Min({Len(said \o x), MaxRemoteProgress}))
        BY <1>2, <3>5, KeptExplains DEF Explained
      <4>2. said \o x \in Seq(Tokens)
        BY <1>2, <3>5
      <4> QED
        BY <3>3, <3>4, <4>1, <4>2 DEF Explained
    <3>7. Gathered'
      BY <1>2, <1>3, <3>3 DEF Gathered, HasLines, Flat
    <3> QED
      BY <1>1, <1>2, <2>1, <3>3, <3>6, <3>7, ClassifyFrame
  <2>4. CASE d = <<Tok("ch3")>>
    <3>1. d # <<>> /\ d[1] = Tok("ch3")
      BY <2>4
    <3>2. ~Starts(d, {"ch1"}) /\ Starts(d, {"ch2", "ch3"}) /\ ~Starts(d, {"ch2"})
      <4>1. \A texts : Starts(d, texts) <=> "ch3" \in texts
        BY <3>1, Begun
      <4> QED
        BY <4>1
    <3>3. UNCHANGED <<sawUnpackOk, sawReportStatusContent, sideBandPackets, arrived, progress, said>>
      BY <3>2 DEF Classify
    <3>4. Explained'
      BY <1>2, <3>3 DEF Explained
    <3>5. Gathered'
      BY <1>2, <1>3, <3>3 DEF Gathered, HasLines, Flat
    <3> QED
      BY <1>1, <1>2, <2>1, <3>3, <3>4, <3>5, ClassifyFrame
  <2> QED
    BY <1>7, <2>2, <2>3, <2>4 DEF CarriesExtra
<1>8. ~CarriesAbort(d)
  BY RefusalIs
<1> QED
  BY <1>5, <1>6, <1>7, <1>8 DEF Carries

\* The data of a packet (readPacketData).
LEMMA ReadPacketDataKeeps == ASSUME IInv, ReadPacketData PROVE Outcome'
<1>1. result = "none" /\ phase = "data"
  BY DEF ReadPacketData
<1>2. readErr \in {"none", "tooLarge", "eof", "fails"} /\ cut \in BOOLEAN
  BY DEF IInv, TypeInv, TypeOK
<1>3. CASE /\ readErr # "none" /\ have < Need
           /\ Returns(IF readErr = "tooLarge" THEN "tooLarge" ELSE "broken")
  <2>1. CASE readErr = "tooLarge"
    <3>1. Settled("tooLarge") /\ Returns("tooLarge")
      BY <1>3, <2>1 DEF Settled
    <3> QED
      BY <3>1, ReturnsSettled
  <2>2. CASE readErr # "tooLarge"
    <3>1. ending # "more"
      BY <1>2, <1>3, <2>2 DEF IInv, InPlace
    <3>2. cut
      BY <1>1, <3>1, LineHeld
    <3>3. Settled("broken") /\ Returns("broken")
      BY <1>3, <2>2, <3>2 DEF Settled
    <3> QED
      BY <3>3, ReturnsSettled
  <2> QED
    BY <2>1, <2>2
<1>4. CASE /\ have = Need
           /\ IF DetectError(Payload(packet)) \/ Fatal(Payload(packet)) THEN Returns("refused")
              ELSE Classify(Payload(packet))
  <2>1. PICK d \in Seq(Tokens) : Payload(packet) = d /\ Carries(d)
    BY <1>1, <1>4, LineHeld
  <2>2. CASE DetectError(d) \/ Fatal(d)
    <3>1. Returns("refused")
      BY <1>4, <2>1, <2>2
    <3>2. aborted \/ Meaning(report) = "refused"
      BY <2>1, <2>2, RefusalIs
    <3>3. Settled("refused")
      BY <3>2 DEF Settled
    <3> QED
      BY <3>1, <3>3, ReturnsSettled
  <2>3. CASE ~(DetectError(d) \/ Fatal(d))
    <3>1. Classify(d)
      BY <1>4, <2>1, <2>3
    <3>2. IInv'
      BY <1>1, <1>4, <2>1, <2>3, <3>1, ClassifyKeeps
    <3>3. result' = "none"
      BY <1>1, <3>1 DEF Classify
    <3> QED
      BY <3>2, <3>3, NotYet
  <2> QED
    BY <2>2, <2>3
<1> QED
  BY <1>1, <1>3, <1>4 DEF ReadPacketData

\* Every step keeps the invariant, and with it what may be returned.
LEMMA StepKeeps == ASSUME Outcome, [Next]_vars PROVE Outcome'
<1>1. IInv
  BY DEF Outcome
<1>2. ASSUME SendReport \/ SendExtra \/ SendAbort \/ SendFlush PROVE Outcome'
  <2>1. IInv'
    BY <1>1, <1>2, SendReportKeeps, SendExtraKeeps, SendAbortKeeps, SendFlushKeeps
  <2>2. \E p : Sends(p)
    BY <1>2 DEF SendReport, SendExtra, SendAbort, SendFlush
  <2>3. result' = "none"
    BY <2>2 DEF Sends
  <2> QED
    BY <2>1, <2>3, NotYet
<1>3. ASSUME NEW how \in {"eof", "fails"}, EndOfBody(how) PROVE Outcome'
  <2>1. IInv'
    BY <1>1, <1>3, EndOfBodyKeeps
  <2>2. result' = "none"
    BY <1>3 DEF EndOfBody
  <2> QED
    BY <2>1, <2>2, NotYet
<1>4. ASSUME NEW n \in 1 .. Len(packet), Read(n) PROVE Outcome'
  <2>1. IInv'
    BY <1>1, <1>4, ReadKeeps
  <2>2. result' = "none"
    BY <1>4 DEF Read
  <2> QED
    BY <2>1, <2>2, NotYet
<1>5. CASE ReadEnd
  <2>1. IInv'
    BY <1>1, <1>5, ReadEndKeeps
  <2>2. result' = "none"
    BY <1>5 DEF ReadEnd
  <2> QED
    BY <2>1, <2>2, NotYet
<1>6. CASE ReadPacketLength
  BY <1>1, <1>6, ReadPacketLengthKeeps
<1>7. CASE ReadPacketData
  BY <1>1, <1>7, ReadPacketDataKeeps
<1>8. CASE UNCHANGED vars
  <2>1. IInv'
    <3>1. TypeOK'
      BY <1>1, <1>8 DEF IInv, TypeInv, TypeOK, vars, server, reader, parsed
    <3>2. InPlace'
      BY <1>1, <1>8 DEF IInv, InPlace, Taken, Need, vars, reader
    <3>3. UNCHANGED <<server, packet, ending, cut, parsed>>
      BY <1>8 DEF vars
    <3> QED
      BY <1>1, <3>1, <3>2, <3>3, ReaderKeeps
  <2>2. /\ UNCHANGED <<report, framing, pending, aborted, cut, readErr, arrived, result>>
    BY <1>8 DEF vars, server, reader, parsed
  <2>3. LinesArrived' = LinesArrived
    BY <2>2 DEF LinesArrived
  <2>4. VerdictIsRight' /\ NoFalseSuccess'
    BY <2>2, <2>3 DEF Outcome, VerdictIsRight, NoFalseSuccess
  <2> QED
    BY <2>1, <2>4 DEF Outcome
<1> QED
  BY <1>2, <1>3, <1>4, <1>5, <1>6, <1>7, <1>8 DEF Next

\* The invariant holds always.
LEMMA OutcomeHolds == Spec => []Outcome
<1>1. Init => Outcome
  <2> SUFFICES ASSUME Init PROVE Outcome
    OBVIOUS
  <2>1. IInv
    BY InitHolds
  <2>2. result = "none"
    BY DEF Init
  <2> QED
    BY <2>1, <2>2 DEF Outcome, VerdictIsRight, NoFalseSuccess
<1>2. Outcome /\ [Next]_vars => Outcome'
  BY StepKeeps
<1> QED
  BY <1>1, <1>2, PTL DEF Spec

-----------------------------------------------------------------------------
(* The theorems.                                                           *)
\* The state keeps its shape, for any reports, ways to send them, limits and faults.
THEOREM TypeCorrect == Spec => []TypeOK
<1>1. Outcome => TypeOK
  BY DEF Outcome, IInv, TypeInv
<1> QED
  BY <1>1, OutcomeHolds, PTL

\* The parser never sees more than the limit allows, and a response is too large only if it
\* has a byte after them, wherever the reads fall (limitedReadCloser.Read).
THEOREM LimitIsExact == Spec => []LimitExact
<1>1. Outcome => LimitExact
  <2> SUFFICES ASSUME Outcome PROVE LimitExact
    OBVIOUS
  <2>1. IInv /\ InPlace
    BY DEF Outcome, IInv
  <2>2. limit \in Nat /\ remaining \in Nat /\ delivered \in Nat
    BY <2>1, Places
  <2> QED
    BY <2>1, <2>2 DEF InPlace, LimitExact
<1> QED
  BY <1>1, OutcomeHolds, PTL

\* An error brings what channel 2 had said, in the lines in which it was said, as far as the
\* buffer keeps it (remoteProgressBuffer.append, decodeRemoteProgress).
THEOREM RejectionsExplained == Spec => []RejectionIsExplained
<1>1. Outcome => RejectionIsExplained
  BY DEF Outcome, IInv, Explained, RejectionIsExplained, RemoteMessages, DecodeRemoteProgress
<1> QED
  BY <1>1, OutcomeHolds, PTL

\* A body that comes whole gives the verdict that its report means, in whatever pieces and
\* lines it came (parseReceivePackResponse, scanSideBandReportStatus).
THEOREM VerdictsRight == Spec => []VerdictIsRight
<1>1. Outcome => VerdictIsRight
  BY DEF Outcome
<1> QED
  BY <1>1, OutcomeHolds, PTL

\* No push is taken for a success once a refusal or a fatal error has arrived, nor where some
\* of the report has arrived and "unpack ok" has not (detectError, classifyReceivePackLine).
THEOREM SuccessNeverFalse == Spec => []NoFalseSuccess
<1>1. Outcome => NoFalseSuccess
  BY DEF Outcome
<1> QED
  BY <1>1, OutcomeHolds, PTL
==============================================================================
