--------------------------- MODULE ReceivePackReport ---------------------------
(***************************************************************************)
(* How ReceivePack reads what became of a push: the body of the response,  *)
(* through the limited reader (maxbytes_reader.go) and the pkt-line parser  *)
(* (pack.go), into parseReceivePackResponse (receivepack.go).              *)
(*                                                                         *)
(* Data abstraction.  The body is a sequence of tokens, each a few bytes:  *)
(* a packet is two tokens of length and its data.  The server has a report *)
(* of a few lines and one of three ways to send it: a packet for each line *)
(* ("bare"), or a stream of packets ("nested") or of lines ("raw") that    *)
(* channel 1 of the side band carries in pieces of any size.  The text of  *)
(* errors and progress is left out.                                        *)
(***************************************************************************)
EXTENDS Naturals, Sequences, SequencesExt, FiniteSetsExt

CONSTANTS
    Reports,     \* sequences of lines: what git-receive-pack may report
    Framings,    \* the ways to send a report: a subset of {"bare", "nested", "raw"}
    Limits,      \* ReceivePackResponseMaxBytes, 0 for no limit
    Faults,      \* "fatal": the server gives up; "malformed": a packet that is none
                 \* "cut": the body ends early; "fails": reading it fails
    MaxRemoteProgress,   \* maxRemoteProgressBytes
    MaxPieces,   \* bound: packets in which channel 1 carries the report
    MaxExtras    \* bound: packets that carry nothing of the report

VARIABLES
    \* the server
    report, framing,
    pending,     \* what is left of the report to send
    extras, aborted,
    \* the body
    packet,      \* the packet on its way
    ending,      \* what follows it: "more", or the end of the body
    cut,         \* history: has the body ended before its time?
    \* limitedReadCloser
    limit, remaining, readErr,
    delivered,   \* history: tokens handed to the parser
    \* Parser.Next: the length or the data of a packet, and how much of it is there
    phase, have,
    \* parseReceivePackResponse
    sawUnpackOk, sawReportStatusContent, sideBandPackets,
    arrived,     \* history: what of the report its packets have brought
    progress,    \* remoteProgressBuffer: the payloads of channel 2 that are kept
    said,        \* history: what channel 2 has brought
    result

server == <<report, framing, pending, extras, aborted>>
reader == <<limit, remaining, readErr, delivered>>
parsed == <<sawUnpackOk, sawReportStatusContent, sideBandPackets, arrived,
            progress, said>>
vars   == <<server, packet, ending, cut, reader, phase, have, parsed, result>>

ASSUME LimitsAssumption == Limits \subseteq Nat /\ {MaxPieces, MaxExtras, MaxRemoteProgress} \subseteq Nat

-----------------------------------------------------------------------------
(* Lines and packets.                                                      *)
Tok(t) == [t |-> t, n |-> 0]
LF     == Tok("LF")
Text   == [unpackOk  |-> <<Tok("unpack "), Tok("ok")>>,
           unpackBad |-> <<Tok("unpack "), Tok("failed")>>,
           okRef     |-> <<Tok("ok "), Tok("ref")>>,
           ngRef     |-> <<Tok("ng "), Tok("ref")>>]
ASSUME ReportsAssumption ==
    Reports \subseteq Seq(DOMAIN Text) /\ Framings \subseteq {"bare", "nested", "raw"}

Length(kind, n) == <<Tok("00"), [t |-> kind, n |-> n]>>
Packet(data)    == Length("data", Len(data)) \o data
Special(kind)   == Length(kind, 0)   \* flush, delimiter, responseEnd, empty, tooLarge, garbled
Payload(p)      == SubSeq(p, 3, Len(p))

\* bytes.TrimRight: a line may end with a line feed or not.
TrimRight(line) == SubSeq(line, 1, Max({0} \cup {i \in DOMAIN line : line[i] # LF}))

IsUnpackOkLine(line) == TrimRight(line) = Text["unpackOk"]

Starts(line, texts) == line # <<>> /\ line[1].t \in texts

\* detectError: does the parser refuse to return this line?
DetectError(line) ==
    \/ Starts(line, {"ERR ", "error:", "fatal:", "ng "})
    \/ Starts(line, {"ch3"}) /\ Starts(Tail(line), {"error:", "fatal:"})
    \/ Starts(line, {"unpack "}) /\ TrimRight(Tail(line)) # <<Tok("ok")>>

-----------------------------------------------------------------------------
(* The bytes of channel 1.                                                 *)
\* looksLikePktLine: the first four bytes, which are two tokens, are a length.
LooksLikePktLine(s) == Len(s) >= 2 /\ s[1] = Tok("00")

\* scanNestedPktLineStream: Parser.Next again, on what channel 1 carried; from one place,
\* by what the scan finds from the later ones.
ScanAt(s, scan, i) ==
    IF i + 1 > Len(s) THEN [ok |-> FALSE, err |-> "none"]   \* no whole length
    ELSE LET kind == s[i + 1].t
             end  == i + 1 + s[i + 1].n
             line == SubSeq(s, i + 2, end)
         IN  CASE kind \in {"flush", "responseEnd"} -> [ok |-> FALSE, err |-> "none"]
               [] kind \in {"delimiter", "empty"} -> scan[i + 2]
               [] kind = "data" /\ end <= Len(s) ->
                    IF DetectError(line) THEN [ok |-> FALSE, err |-> "refused"]
                    ELSE [scan[end + 1] EXCEPT !.ok = @ \/ IsUnpackOkLine(line)]
               [] OTHER -> [ok |-> FALSE, err |-> "broken"]
ScanNestedPktLineStream(s) ==
    LET scan[i \in 1 .. Len(s) + 1] == ScanAt(s, scan, i) IN scan[1]

\* scanRawReportStatusStream: the lines between line feeds, those with nothing left out.
LineStarts(s) == {i \in DOMAIN s : s[i] # LF /\ (i = 1 \/ s[i - 1] = LF)}
LineFrom(s, i) == SubSeq(s, i, Max({j \in i .. Len(s) : \A k \in i .. j : s[k] # LF}))
Fields(s) ==
    LET starts == SetToSortSeq(LineStarts(s), <)
    IN  [n \in DOMAIN starts |-> LineFrom(s, starts[n])]
RawLines(s) == {LineFrom(s, i) : i \in LineStarts(s)}
ScanRawReportStatusStream(s) ==
    [ok  |-> \E l \in RawLines(s) : IsUnpackOkLine(l),
     err |-> IF \E l \in RawLines(s) : DetectError(l) THEN "refused" ELSE "none"]

Scan(s) ==
    CASE s = <<>> -> [ok |-> FALSE, err |-> "none"]
      [] s # <<>> /\ LooksLikePktLine(s) -> ScanNestedPktLineStream(s)
      [] s # <<>> /\ ~LooksLikePktLine(s) -> ScanRawReportStatusStream(s)

\* scanSideBandReportStatus.  (Mutant: each packet is looked at by itself.)
ScanEachPacket(packets) ==
    [ok  |-> \E i \in DOMAIN packets : Scan(packets[i]).ok,
     err |-> IF \E i \in DOMAIN packets : Scan(packets[i]).err # "none"
             THEN "refused" ELSE "none"]
ScanSideBandReportStatus(packets) == Scan(FlattenSeq(packets))

-----------------------------------------------------------------------------
(* The progress of channel 2, which an error brings along.                 *)
\* remoteProgressBuffer.append
Kept(kept, payload) ==
    LET used   == Len(FlattenSeq(kept))
        remain == MaxRemoteProgress - used
    IN  IF payload = <<>> \/ remain = 0 THEN kept
        ELSE Append(kept, SubSeq(payload, 1, Min({Len(payload), remain})))

\* decodeRemoteProgress.  (Mutant: each payload is split by itself.)
DecodeEach(packets) == FlattenSeq([i \in DOMAIN packets |-> Fields(packets[i])])
DecodeRemoteProgress(packets) == Fields(FlattenSeq(packets))

\* RemoteRejectionError.RemoteMessages of the error that is returned
RemoteMessages ==
    IF result \in {"none", "ok"} THEN <<>> ELSE DecodeRemoteProgress(progress)

-----------------------------------------------------------------------------
(* The server and the body.                                                *)
\* The report as git-receive-pack writes it.
Lines(r) == [i \in DOMAIN r |-> Append(Text[r[i]], LF)]
Stream(r, f) ==
    IF f = "nested" /\ r # <<>>
    THEN FlattenSeq([i \in DOMAIN r |-> Packet(Lines(r)[i])]) \o Special("flush")
    ELSE FlattenSeq(Lines(r))
FirstLine(s) == SubSeq(s, 1, Min({i \in DOMAIN s : s[i] = LF}))

Init ==
    /\ report \in Reports /\ framing \in Framings /\ limit \in Limits
    /\ pending = Stream(report, framing)
    /\ extras = 0 /\ aborted = FALSE
    /\ packet = <<>> /\ ending = "more" /\ cut = FALSE
    /\ remaining = limit /\ readErr = "none" /\ delivered = 0
    /\ phase = "length" /\ have = 0
    /\ sawUnpackOk = FALSE /\ sawReportStatusContent = FALSE
    /\ sideBandPackets = <<>> /\ arrived = 0
    /\ progress = <<>> /\ said = <<>>
    /\ result = "none"

Sends(p) ==
    /\ result = "none" /\ packet = <<>> /\ ending = "more" /\ ~aborted
    /\ packet' = p
    /\ UNCHANGED <<report, framing, ending, cut, reader, phase, have, parsed, result>>

SendReport ==
    /\ pending # <<>>
    /\ \/ /\ framing = "bare"
          /\ \E line \in {FirstLine(pending), TrimRight(FirstLine(pending))} : Sends(Packet(line))
          /\ pending' = SubSeq(pending, Len(FirstLine(pending)) + 1, Len(pending))
       \/ /\ framing # "bare"
          /\ \E k \in DOMAIN pending :
                /\ Len(sideBandPackets) + 1 >= MaxPieces => k = Len(pending)
                /\ Sends(Packet(<<Tok("ch1")>> \o SubSeq(pending, 1, k)))
                /\ pending' = SubSeq(pending, k + 1, Len(pending))
    /\ UNCHANGED <<extras, aborted>>

\* Progress, packets of a channel with nothing in them, and special packets.
SendExtra ==
    /\ extras < MaxExtras /\ extras' = extras + 1
    /\ \E p \in {Packet(<<Tok("ch2"), Tok("fatal:")>>), Packet(<<Tok("ch2"), LF, Tok("fatal:")>>),
                 Packet(<<Tok("ch1")>>), Packet(<<Tok("ch3")>>), Special("delimiter"), Special("empty")} : Sends(p)
    /\ UNCHANGED <<pending, aborted>>

\* The server gives up in one of the ways there are to say so, or says something
\* that is not a packet.
SendAbort ==
    /\ \/ /\ "fatal" \in Faults
          /\ \E data \in {<<Tok("ERR ")>>, <<Tok("fatal:")>>, <<Tok("ch3"), Tok("error:")>>,
                          <<Tok("ch3"), Tok("other")>>} : Sends(Packet(data))
       \/ "malformed" \in Faults /\ \E kind \in {"tooLarge", "garbled"} : Sends(Special(kind))
    /\ aborted' = TRUE
    /\ UNCHANGED <<pending, extras>>

SendFlush ==
    /\ pending = <<>>
    /\ \E kind \in {"flush", "responseEnd"} : Sends(Special(kind))
    /\ UNCHANGED <<pending, extras, aborted>>

\* How much of the packet the parser has had, and what it waits for.
Taken == IF phase = "data" THEN 2 + have ELSE have
Need  == IF phase = "data" THEN packet[2].n ELSE 2

\* The body ends, in its time or before, inside a packet or between two.
EndOfBody(how) ==
    /\ result = "none" /\ ending = "more" /\ readErr = "none"
    /\ \/ how = "eof" /\ pending = <<>> /\ packet = <<>>
       \/ how = "eof" /\ "cut" \in Faults
       \/ how = "fails" /\ "fails" \in Faults
    /\ ending' = how
    /\ cut' = (pending # <<>> \/ packet # <<>> \/ how = "fails")
    /\ packet' = SubSeq(packet, 1, Taken)
    /\ UNCHANGED <<server, reader, phase, have, parsed, result>>

-----------------------------------------------------------------------------
(* The client.                                                             *)
\* limitedReadCloser.Read, for what is left of a length or of data: at most one token
\* more than the limit allows.
Want == IF limit > 0 /\ Need - have - 1 > remaining THEN remaining + 1 ELSE Need - have

\* What the parser gets of n tokens read, and whether the body goes beyond the limit.
\* (Mutant: the limit itself is too much.)
BeyondOrAt(n) == limit > 0 /\ n >= remaining
Beyond(n) == limit > 0 /\ n > remaining
Got(n) == IF Beyond(n) THEN remaining ELSE n

Read(n) ==
    /\ result = "none" /\ readErr = "none" /\ have < Need
    /\ n \in 1 .. Want /\ Taken + n <= Len(packet)
    /\ have' = have + Got(n)
    /\ delivered' = delivered + Got(n)
    /\ remaining' = IF limit = 0 THEN 0 ELSE IF Beyond(n) THEN 0 ELSE remaining - n
    /\ readErr' = IF Beyond(n) THEN "tooLarge" ELSE "none"
    /\ UNCHANGED <<server, packet, ending, cut, limit, phase, parsed, result>>

ReadEnd ==
    /\ result = "none" /\ readErr = "none" /\ have < Need
    /\ ending # "more" /\ Taken = Len(packet)
    /\ readErr' = ending
    /\ UNCHANGED <<server, packet, ending, cut, limit, remaining, delivered, phase, have,
                   parsed, result>>

\* parseReceivePackResponse at the end of the stream.
Verdict ==
    LET scan == ScanSideBandReportStatus(sideBandPackets)
    IN  CASE scan.err # "none" -> scan.err
          [] scan.err = "none" /\ ~sawUnpackOk /\ ~scan.ok /\ sawReportStatusContent -> "missing"
          [] scan.err = "none" /\ (sawUnpackOk \/ scan.ok \/ ~sawReportStatusContent) -> "ok"

Returns(r) ==
    /\ result' = r
    /\ UNCHANGED <<server, packet, ending, cut, reader, phase, have, parsed>>

NextPacket ==
    /\ packet' = <<>> /\ phase' = "length" /\ have' = 0

\* readPacketLength and the switch of Next.  A length that is cut short ends the
\* stream; so do a flush and the end of the response.
ReadPacketLength ==
    /\ result = "none" /\ phase = "length"
    /\ \/ /\ readErr # "none" /\ have < 2
          /\ Returns(IF readErr = "eof" THEN Verdict
                     ELSE IF readErr = "tooLarge" THEN "tooLarge" ELSE "broken")
       \/ /\ have = 2
          /\ CASE packet[2].t \in {"flush", "responseEnd"} -> Returns(Verdict)
               [] packet[2].t \in {"tooLarge", "garbled"} -> Returns("broken")
               [] packet[2].t \in {"delimiter", "empty"} ->
                      /\ NextPacket
                      /\ UNCHANGED <<server, ending, cut, reader, parsed, result>>
               [] packet[2].t = "data" ->
                      /\ phase' = "data" /\ have' = 0
                      /\ UNCHANGED <<server, packet, ending, cut, reader, parsed, result>>

\* classifyReceivePackLine.  (Mutant: what channel 3 says in other words is ignored.)
FatalIfKnown(line) == FALSE
Fatal(line) == Starts(line, {"ch3"}) /\ Len(line) > 1

Classify(line) ==
    /\ IF Starts(line, {"ch1"})
       THEN /\ sideBandPackets' = Append(sideBandPackets, Tail(line))
            /\ sawReportStatusContent' = (sawReportStatusContent \/ Len(line) > 1)
            /\ arrived' = arrived + Len(line) - 1
            /\ UNCHANGED <<sawUnpackOk, progress, said>>
       ELSE IF Starts(line, {"ch2", "ch3"})
       THEN /\ progress' = IF Starts(line, {"ch2"}) THEN Kept(progress, Tail(line)) ELSE progress
            /\ said' = IF Starts(line, {"ch2"}) THEN said \o Tail(line) ELSE said
            /\ UNCHANGED <<sawUnpackOk, sawReportStatusContent, sideBandPackets, arrived>>
       ELSE /\ sawUnpackOk' = (sawUnpackOk \/ IsUnpackOkLine(line))
            /\ sawReportStatusContent' = TRUE
            /\ arrived' = arrived + Len(TrimRight(line)) + 1
            /\ UNCHANGED <<sideBandPackets, progress, said>>
    /\ NextPacket
    /\ UNCHANGED <<server, ending, cut, reader, result>>

\* readPacketData, detectError and what becomes of the line.
ReadPacketData ==
    LET line == Payload(packet)
    IN  /\ result = "none" /\ phase = "data"
        /\ \/ /\ readErr # "none" /\ have < Need
              /\ Returns(IF readErr = "tooLarge" THEN "tooLarge" ELSE "broken")
           \/ /\ have = Need
              /\ IF DetectError(line) \/ Fatal(line) THEN Returns("refused") ELSE Classify(line)

Next ==
    \/ SendReport \/ SendExtra \/ SendAbort \/ SendFlush
    \/ \E how \in {"eof", "fails"} : EndOfBody(how)
    \/ \E n \in 1 .. Len(packet) : Read(n)
    \/ ReadEnd \/ ReadPacketLength \/ ReadPacketData

Spec == Init /\ [][Next]_vars

-----------------------------------------------------------------------------
(* Properties.                                                             *)
TypeOK ==
    /\ report \in Reports /\ framing \in Framings /\ limit \in Limits
    /\ extras \in 0 .. MaxExtras /\ aborted \in BOOLEAN /\ cut \in BOOLEAN
    /\ ending \in {"more", "eof", "fails"}
    /\ readErr \in {"none", "tooLarge", "eof", "fails"}
    /\ remaining \in Nat /\ delivered \in Nat /\ have \in Nat /\ arrived \in Nat
    /\ phase \in {"length", "data"}
    /\ sawUnpackOk \in BOOLEAN /\ sawReportStatusContent \in BOOLEAN
    /\ result \in {"none", "ok", "refused", "missing", "broken", "tooLarge"}

\* What a report means (gitprotocol-pack): a refusal refuses, and a report without a
\* refusal has to say that the objects were unpacked.
Refusals == {"unpackBad", "ngRef"}
Meaning(r) ==
    CASE \E i \in DOMAIN r : r[i] \in Refusals -> "refused"
      [] (\A i \in DOMAIN r : r[i] \notin Refusals)
            /\ (r = <<>> \/ \E i \in DOMAIN r : r[i] = "unpackOk") -> "ok"
      [] (\A i \in DOMAIN r : r[i] \notin Refusals)
            /\ r # <<>> /\ (\A i \in DOMAIN r : r[i] # "unpackOk") -> "missing"

\* A body that comes whole and within the limit gives the verdict that the report means,
\* in whatever pieces the side band carried it, whatever came between the pieces and
\* however few bytes each read returned (parseReceivePackResponse).
VerdictIsRight ==
    (result # "none" /\ pending = <<>> /\ ~cut /\ ~aborted /\ readErr # "tooLarge")
        => result = Meaning(report)

\* The lines of the report that have arrived, without what follows the text of the last.
LinesArrived ==
    LET upTo(i) == Len(Stream(SubSeq(report, 1, i), framing))
                       - IF framing = "nested" THEN 2 ELSE 1
    IN  {i \in DOMAIN report : upTo(i) <= arrived}

\* Whatever is cut, fails or gives up: a push is not taken for a success once a
\* refusal or a fatal error has arrived, nor when some of the report has arrived and
\* 'unpack ok' has not (classifyReceivePackLine, detectError, ErrMissingReportStatus).
NoFalseSuccess ==
    result = "ok" =>
        /\ ~(aborted /\ ~cut)
        /\ \A i \in LinesArrived : report[i] \notin Refusals
        /\ arrived > 0 => \E i \in LinesArrived : report[i] = "unpackOk"

\* An error brings what the hooks of the server had said when it came, as far as the
\* buffer keeps it and in the lines in which it was said, wherever the packets of channel 2
\* were cut; a buffer that is full stops no verdict (decodeRemoteProgress).
RejectionIsExplained ==
    result \notin {"none", "ok"} =>
        RemoteMessages = Fields(SubSeq(said, 1, Min({Len(said), MaxRemoteProgress})))

\* The limit is exact, however the reads fall: the parser never sees more than it
\* allows, and the response is too large only if there is a byte after them
\* (limitedReadCloser.Read).
LimitExact ==
    /\ limit > 0 => delivered <= limit
    /\ readErr = "tooLarge" => delivered = limit /\ Taken < Len(packet)
=============================================================================
