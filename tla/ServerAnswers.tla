----------------------------- MODULE ServerAnswers -----------------------------
(***************************************************************************)
(* What a server answers to the questions of Requests, and what the client *)
(* makes of the body (protocol/client, protocol/lsrefs.go).                *)
(*                                                                         *)
(* Data abstraction.  A body is a sequence of packets, named for what they *)
(* carry; a reference line is the name of its reference.  A body can stop   *)
(* between two packets, in the length of one or in its data.                *)
(***************************************************************************)
EXTENDS Integers, Sequences, SequencesExt, FiniteSets, FiniteSetsExt

CONSTANTS
    Servers,     \* what a server can be: records, see ServersAssumption
    Mishaps      \* statuses and errors that come instead of the server's own answer, the
                 \* ways a body breaks off, and "ERR", a refusal inside a body

VARIABLES
    host,        \* the server that is asked
    call,        \* the question
    last,        \* what the last attempt brought: a status, or an error
    read,        \* what was read of the body: packets, where and why it stopped
    outcome,     \* "ok" or "error"
    value        \* and what the call returns with it

\* The names of packets that carry no reference, and of what Parser.Next says instead.
Marks == {"service", "flush", "version 2", "agent", "ERR", "garbled", "eof", "error"}
Failures == {<<"unknown">>, <<"broken">>}

ServersAssumption ==
    \A s \in Servers :
        /\ s.version \in {"v1", "v2", "other"}        \* of its git-upload-pack
        /\ {s.readStatus, s.writeStatus} \subseteq {"200", "401", "403", "404"}
        /\ s.refs \in Seq(STRING) /\ s.caps \in Seq(STRING)
        /\ ToSet(s.refs) \cap Marks = {} /\ {s.refs, s.caps} \cap Failures = {}
ASSUME ServersAssumption
-----------------------------------------------------------------------------
(* The server.                                                             *)
Method == IF call = "ListRefs" THEN "POST" ELSE "GET"
Service == IF call \in {"CanWrite", "Capabilities"} THEN "receive-pack" ELSE "upload-pack"
Status == IF Service = "receive-pack" THEN host.writeStatus ELSE host.readStatus

\* A repository without references still has a line to carry the capabilities, that of
\* the name capabilities^{}.
RefLines == IF host.refs = <<>> THEN <<"capabilities">> ELSE host.refs

\* The packets of its answer; the announcement of the service may be missing in v2.
Bodies ==
    CASE host.version = "other" -> {<<"garbled">>}
      [] host.version # "other" /\ call = "ListRefs" ->
            {IF host.version = "v2" THEN Append(host.refs, "flush") ELSE <<"ERR">>}
      [] host.version = "v2" /\ call = "Compatible" ->
            {<<"service", "flush", "version 2", "agent", "flush">>,
             <<"version 2", "agent", "flush">>}
      [] OTHER -> {<<"service", "flush">> \o RefLines \o <<"flush">>}
AllBodies == Bodies \cup IF "ERR" \in Mishaps THEN {<<"service", "flush", "ERR">>} ELSE {}

-----------------------------------------------------------------------------
(* What is made of the body.                                               *)
Whole(body) == [packets |-> body, place |-> "boundary", how |-> "eof"]

\* Parser.Next at packet i: the line, or "eof", or "error".  A length that is cut short,
\* or a body that ends unexpectedly before one, is the end as well (readPacketLength).
NextLine(r, i) ==
    IF i \in DOMAIN r.packets
    THEN CASE r.packets[i] = "flush" -> "eof"
           [] r.packets[i] \in {"ERR", "garbled"} -> "error"
           [] OTHER -> r.packets[i]
    ELSE IF r.place # "data" /\ r.how \in {"eof", "unexpected"} THEN "eof" ELSE "error"

\* detectProtocolVersionFromReader: every packet before the first bad one, past the
\* flushes, then the verdict.  No verdict is an error, whatever became of the reading.
Before(r) == {i \in DOMAIN r.packets : \A j \in 1 .. i : r.packets[j] \notin {"ERR", "garbled"}}
DetectProtocolVersion(r) ==
    CASE \E i \in Before(r) : r.packets[i] = "version 2" -> <<"yes">>
      [] (\A i \in Before(r) : r.packets[i] # "version 2")
            /\ (\E i \in Before(r) : r.packets[i] \in ToSet(RefLines)) -> <<"no">>
      [] OTHER -> <<"unknown">>

\* readNonFlush: the place of the next line, past one flush at most.
ReadNonFlush(r, i) == IF NextLine(r, i) = "eof" THEN i + 1 ELSE i

\* ParseReceivePackInfoRefs
ParseReceivePackInfoRefs(r) ==
    LET first == ReadNonFlush(r, 1)
        ref   == ReadNonFlush(r, first + 1)
    IN  IF NextLine(r, first) = "service" /\ NextLine(r, ref) \notin {"eof", "error"}
        THEN host.caps ELSE <<"broken">>

\* ParseRefLine, of a packet that is a reference line.
IsRefLine(p) == p \in ToSet(RefLines)

\* ParseLsRefsResponse, which reads its packets without the Parser: only the end of the
\* body between two packets is an end.  (Mutant: a length cut short is one as well.)
EndsAsParser(r) == r.place # "data" /\ r.how \in {"eof", "unexpected"}
Ends(r) == r.place = "boundary" /\ r.how = "eof"
ParseLsRefsResponse(r) ==
    LET flushes == {i \in DOMAIN r.packets : r.packets[i] = "flush"}
        n       == IF flushes = {} THEN Len(r.packets) ELSE Min(flushes) - 1
    IN  IF (\A i \in 1 .. n : IsRefLine(r.packets[i])) /\ (flushes # {} \/ Ends(r))
        THEN SubSeq(r.packets, 1, n) ELSE <<"broken">>

\* How a body may break off; the limited readers are those of IsServerCompatible and LsRefs.
Breaks == {h \in {"eof", "unexpected", "reset", "tooLarge"} :
              h \in Mishaps /\ (h = "tooLarge" => call # "Capabilities")}
Readings ==
    LET cut(body) == {[packets |-> SubSeq(body, 1, k), place |-> place, how |-> how] :
                          k \in 0 .. Len(body) - 1, place \in {"boundary", "length", "data"},
                          how \in Breaks}
    IN  UNION {{Whole(body)} \cup cut(body) : body \in AllBodies}

Parsed(r) ==
    CASE call = "Compatible"   -> DetectProtocolVersion(r)
      [] call = "Capabilities" -> ParseReceivePackInfoRefs(r)
      [] call = "ListRefs"     -> ParseLsRefsResponse(r)

-----------------------------------------------------------------------------
\* What the server would say for itself; <<"none">> when it has no answer to this call.
Truth ==
    CASE call \in {"CanRead", "CanWrite"} ->
            (CASE Status = "200" -> <<"yes">>
               [] Status \in {"401", "403"} -> <<"no">>
               [] Status = "404" -> <<"none">>)
      [] call \notin {"CanRead", "CanWrite"} /\ (Status # "200" \/ host.version = "other") ->
            <<"none">>
      [] call = "Compatible" /\ Status = "200" /\ host.version # "other" ->
            IF host.version = "v2" THEN <<"yes">> ELSE <<"no">>
      [] call = "Capabilities" /\ Status = "200" /\ host.version # "other" -> host.caps
      [] call = "ListRefs" /\ Status = "200" /\ host.version # "other" ->
            IF host.version = "v2" THEN host.refs ELSE <<"none">>

\* A body whose end looks like one although packets are missing.
LooksWhole == read.place = "boundary" /\ read.how = "eof" /\ read \notin {Whole(b) : b \in AllBodies}

\* Whatever failed on the way, an answer is the server's own: access is denied only by a
\* server that denies it, the version is never mistaken, capabilities are all or nothing,
\* and a list of references is complete unless the connection was closed between two
\* packets as if it had ended.  And a call whose last request was answered and read whole
\* has an answer if the server has one (CanRead, IsServerCompatible, ParseLsRefsResponse).
AnswersAreTrue ==
    /\ outcome = "ok" =>
        \/ value = Truth
        \/ call = "ListRefs" /\ LooksWhole /\ IsPrefix(value, host.refs)
    /\ (outcome = "error" /\ last = Status /\ (last = "200" => read \in {Whole(b) : b \in Bodies})) =>
        Truth = <<"none">>
=============================================================================
