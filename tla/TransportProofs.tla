----------------------------- MODULE TransportProofs ----------------------------
(***************************************************************************)
(* The two kinds of request that go through rawClient.do.  What holds of   *)
(* PushTransport for packfiles of any size, any number of attempts and     *)
(* calls, and any faults; and what holds of Requests for any servers,      *)
(* retriers and faults.                                                    *)
(***************************************************************************)
EXTENDS PushTransport, ServerAnswers, TLAPS

\* Every call of Push, retry and answer keeps the shape of the state; no attempt
\* is made beyond MaxAttempts.
THEOREM TypeCorrect == Spec => []TypeOK
<1>1. Init => TypeOK
  <2> SUFFICES ASSUME Init PROVE TypeOK
    OBVIOUS
  <2>1. 1 \in Attempts
    BY NumbersAssumption DEF Attempts
  <2>2. got \in [Requests -> Seq(1 .. Size)]
    BY DEF Init
  <2>3. \A r \in Requests : body[r] = "none" /\ connected[r] = FALSE
    BY DEF Init
  <2>4. /\ results \in [Calls -> {"none", "ok", "err"}]
        /\ connected \in [Requests -> BOOLEAN]
        /\ body \in [Requests -> {"none", "reading", "ended", "closed"}]
        /\ server \in [Requests -> {"busy", "applied", "refused", "429"}]
    BY DEF Init
  <2>5. calls \in 0 .. MaxCalls /\ written \in 0 .. Size
    BY NumbersAssumption DEF Init
  <2> QED
    BY <2>1, <2>2, <2>3, <2>4, <2>5 DEF Init, TypeOK
<1>2. TypeOK /\ [Next]_vars => TypeOK'
  <2> SUFFICES ASSUME TypeOK, [Next]_vars PROVE TypeOK'
    OBVIOUS
  <2> USE NumbersAssumption
  <2>1. CASE Push
    <3>1. /\ calls' = calls + 1 /\ calls' \in Calls
          /\ attempt' = 1 /\ attempt' \in Attempts
          /\ <<calls', attempt'>> \in Requests
      BY <2>1 DEF TypeOK, Push, Calls, Attempts, Requests
    <3>2. ASSUME NEW r \in Requests
          PROVE  /\ body'[r] # "none" => r[1] <= calls' /\ (r[1] = calls' => r[2] <= attempt')
                 /\ connected'[r] => body'[r] # "none"
      <4>1. CASE r = <<calls', attempt'>>
        BY <2>1, <3>1, <4>1 DEF TypeOK, Push, Send, Calls, Attempts
      <4>2. CASE r # <<calls', attempt'>>
        <5>1. body'[r] = body[r] /\ connected'[r] = connected[r]
          BY <2>1, <3>1, <4>2 DEF TypeOK, Push, Send
        <5>2. r[1] \in Nat /\ calls \in Nat
          BY DEF TypeOK, Requests, Calls
        <5> QED
          BY <3>1, <5>1, <5>2 DEF TypeOK
      <4> QED
        BY <4>1, <4>2
    <3>3. /\ connected' \in [Requests -> BOOLEAN]
          /\ body' \in [Requests -> {"none", "reading", "ended", "closed"}]
          /\ pc' = "sending" /\ written' \in 0 .. Size /\ readerClosed' \in BOOLEAN
          /\ goroutine' = "writing" /\ UNCHANGED <<results, got, server, silent, branch>>
      <4>1. /\ connected' = [connected EXCEPT ![<<calls + 1, 1>>] = TRUE]
            /\ body' = [body EXCEPT ![<<calls + 1, 1>>] = "reading"]
            /\ pc' = "sending" /\ written' = 0 /\ readerClosed' = FALSE
            /\ goroutine' = "writing" /\ UNCHANGED <<results, got, server, silent, branch>>
        BY <2>1 DEF Push, Send
      <4>2. connected' \in [Requests -> BOOLEAN]
        BY <4>1 DEF TypeOK
      <4>3. body' \in [Requests -> {"none", "reading", "ended", "closed"}]
        BY <4>1 DEF TypeOK
      <4>4. written' \in 0 .. Size
        BY <4>1
      <4>5. readerClosed' \in BOOLEAN
        BY <4>1
      <4> QED
        BY <4>1, <4>2, <4>3, <4>4, <4>5, Zenon
    <3>4. calls' \in 0 .. MaxCalls /\ calls' # 0
      BY <3>1 DEF Calls
    <3> QED
      BY <3>1, <3>2, <3>3, <3>4 DEF TypeOK
  <2>2. CASE Succeed
    <3>1. silent' \subseteq Calls
      <4>1. calls \in Calls /\ silent \subseteq Calls
        BY <2>2 DEF TypeOK, Succeed, Calls
      <4> QED
        BY <2>2, <4>1 DEF Succeed
    <3> QED
      BY <2>2, <3>1 DEF TypeOK, Succeed, pipeVars
  <2>3. CASE GiveUp
    BY <2>3 DEF TypeOK, GiveUp, Leaves, Fail, current
  <2>4. CASE Backoff
    BY <2>4 DEF TypeOK, Backoff, Leaves, AttemptsLeft, current, pipeVars
  <2>5. CASE Resend
    BY <2>5 DEF TypeOK, Resend, Send, pipeVars, Calls, Attempts, Requests
  <2>6. CASE CancelWait
    BY <2>6 DEF TypeOK, CancelWait, Fail
  <2>7. CASE Return
    BY <2>7 DEF TypeOK, Return, pipeVars, Calls
  <2>8. CASE GoroutineEnds
    BY <2>8 DEF TypeOK, GoroutineEnds, pushVars
  <2>9. ASSUME NEW r \in Requests, Feed(r) PROVE TypeOK'
    BY <2>9 DEF TypeOK, Feed, pushVars
  <2>10. ASSUME NEW r \in Requests, EndBody(r) PROVE TypeOK'
    BY <2>10 DEF TypeOK, EndBody, Reads, pushVars
  <2>11. ASSUME NEW r \in Requests, CloseBody(r) PROVE TypeOK'
    BY <2>11 DEF TypeOK, CloseBody, pushVars
  <2>12. ASSUME NEW r \in Requests, Serve(r) PROVE TypeOK'
    <3>1. /\ UNCHANGED <<pushVars, pipeVars, connected, body, got, silent>>
          /\ branch' \in {"old", "new"}
          /\ \E answer \in {"applied", "refused", "429"} : server' = [server EXCEPT ![r] = answer]
      BY <2>12 DEF TypeOK, Serve, Apply, TurnAway, Answer
    <3>2. server' \in [Requests -> {"busy", "applied", "refused", "429"}]
      BY <3>1 DEF TypeOK
    <3> QED
      BY <3>1, <3>2 DEF TypeOK, pushVars, pipeVars
  <2>13. CASE UNCHANGED vars
    BY <2>13 DEF TypeOK, vars, pushVars, pipeVars
  <2> QED
    BY <2>1, <2>2, <2>3, <2>4, <2>5, <2>6, <2>7, <2>8, <2>9, <2>10, <2>11, <2>12, <2>13
    DEF Next, Caller, Transport
<1> QED
  BY <1>1, <1>2, PTL DEF Spec

-----------------------------------------------------------------------------
(***************************************************************************)
(* Outcomes.  A success is true because Push reads a report only where the *)
(* server has applied the request of the current attempt, which it never   *)
(* undoes, and because a call that heard nothing is marked as such; and    *)
(* nothing is applied again because the server compares.                   *)
(***************************************************************************)
Outcomes ==
    /\ SuccessIsTrue
    /\ pc = "succeeded" => current \in Applied \/ calls \in silent
    /\ AppliedOnce
    /\ branch = "old" => Applied = {}

LEMMA OutcomesInductive ==
    ASSUME TypeOK, Outcomes, [Next]_vars
    PROVE  Outcomes'
<1> USE NumbersAssumption
<1>1. CASE Push
  <2>1. UNCHANGED <<results, server, silent, branch>> /\ pc' = "sending"
    BY <1>1 DEF Push, Send
  <2> QED
    BY <2>1 DEF Outcomes, SuccessIsTrue, AppliedOnce, Applied
<1>2. CASE Succeed
  <2>1. /\ UNCHANGED <<results, server, branch, calls, attempt>> /\ silent \subseteq silent'
        /\ server[current] = "applied" \/ calls \in silent'
    BY <1>2 DEF Succeed, GoodReport
  <2>2. current \in Requests
    BY <1>2 DEF TypeOK, current, Requests, Calls, Attempts, Succeed
  <2> QED
    BY <2>1, <2>2 DEF Outcomes, SuccessIsTrue, AppliedOnce, Applied, current
<1>3. CASE GiveUp \/ Backoff \/ Resend \/ CancelWait
  <2>1. UNCHANGED <<results, server, silent, branch>> /\ pc' # "succeeded"
    BY <1>3 DEF GiveUp, Backoff, Resend, CancelWait, Fail, Send
  <2> QED
    BY <2>1 DEF Outcomes, SuccessIsTrue, AppliedOnce, Applied
<1>4. CASE Return
  <2>1. UNCHANGED <<server, silent, branch>> /\ pc' = "idle"
    BY <1>4 DEF Return
  <2>2. ASSUME NEW c \in Calls, results'[c] = "ok"
        PROVE  (\E a \in Attempts : <<c, a>> \in Applied) \/ c \in silent
    <3>1. CASE results[c] = "ok"
      BY <3>1 DEF Outcomes, SuccessIsTrue
    <3>2. CASE results[c] # "ok"
      <4>1. c = calls /\ pc = "succeeded"
        BY <1>4, <2>2, <3>2 DEF Return, TypeOK
      <4> QED
        BY <4>1 DEF Outcomes, current, TypeOK
    <3> QED
      BY <3>1, <3>2
  <2> QED
    BY <2>1, <2>2 DEF Outcomes, SuccessIsTrue, AppliedOnce, Applied
<1>5. CASE GoroutineEnds \/ \E r \in Requests : Transport(r)
  <2>1. UNCHANGED <<pushVars, server, silent, branch>>
    BY <1>5 DEF GoroutineEnds, Transport, Feed, EndBody, CloseBody
  <2> QED
    BY <2>1 DEF Outcomes, SuccessIsTrue, AppliedOnce, Applied, current, pushVars
<1>6. ASSUME NEW r \in Requests, TurnAway(r) PROVE Outcomes'
  <2>1. UNCHANGED <<pushVars, silent, branch>>
    BY <1>6 DEF TurnAway, Answer
  <2>2. Applied' = Applied
    BY <1>6 DEF TurnAway, Answer, Applied, TypeOK
  <2> QED
    BY <2>1, <2>2 DEF Outcomes, SuccessIsTrue, AppliedOnce, current, pushVars
<1>7. ASSUME NEW r \in Requests, Apply(r) PROVE Outcomes'
  <2>1. UNCHANGED <<pushVars, silent>> /\ branch = "old" /\ branch' = "new"
    BY <1>7 DEF Apply, Answer, Expected
  <2>2. Applied = {} /\ Applied' = {r}
    BY <1>7, <2>1 DEF Outcomes, Apply, Answer, Applied, TypeOK
  <2> QED
    BY <2>1, <2>2 DEF Outcomes, SuccessIsTrue, AppliedOnce, current, pushVars
<1>8. CASE UNCHANGED vars
  BY <1>8 DEF Outcomes, SuccessIsTrue, AppliedOnce, Applied, current, vars, pushVars
<1> QED
  BY <1>1, <1>2, <1>3, <1>4, <1>5, <1>6, <1>7, <1>8 DEF Next, Caller, Serve

\* The invariant that both properties of a push's outcome follow from.
THEOREM OutcomesHold == Spec => []Outcomes
<1>1. Init => Outcomes
  BY DEF Init, Outcomes, SuccessIsTrue, AppliedOnce, Applied
<1>2. TypeOK /\ Outcomes /\ [Next]_vars => Outcomes'
  BY OutcomesInductive
<1> QED
  BY <1>1, <1>2, TypeCorrect, PTL DEF Spec

\* A Push that returns nil has moved the branch, by a request of that call,
\* unless the answer it took for a success had no report.
THEOREM SuccessTrue == Spec => []SuccessIsTrue
<1>1. Outcomes => SuccessIsTrue
  BY DEF Outcomes
<1> QED
  BY <1>1, OutcomesHold, PTL

\* Retries, of attempts and of calls, and requests that come late never make the
\* server apply the commits twice.
THEOREM EffectOnce == Spec => []AppliedOnce
<1>1. Outcomes => AppliedOnce
  BY DEF Outcomes
<1> QED
  BY <1>1, OutcomesHold, PTL

-----------------------------------------------------------------------------
(***************************************************************************)
(* The end of a call.  After a failure its pipe was closed by Push; after  *)
(* a success the transport may still find its end, but nothing is in it.   *)
(***************************************************************************)
PipeShut ==
    /\ pc = "failed" => readerClosed
    /\ pc = "idle" => goroutine # "writing"
    /\ pc = "idle" /\ calls # 0 /\ results[calls] # "ok" => readerClosed

LEMMA PipeShutInductive ==
    ASSUME TypeOK, PipeShut, [Next]_vars
    PROVE  PipeShut'
<1> USE NumbersAssumption
<1>1. CASE Push
  BY <1>1 DEF PipeShut, Push, Send
<1>2. CASE Succeed \/ GiveUp \/ Backoff \/ Resend \/ CancelWait
  BY <1>2 DEF PipeShut, Succeed, GiveUp, Backoff, Resend, CancelWait, Fail, Send, pipeVars
<1>3. CASE Return
  <2>1. pc = "failed" => readerClosed
    BY DEF PipeShut
  <2>2. pc # "failed" => results'[calls] = "ok"
    BY <1>3 DEF Return, TypeOK, Calls
  <2> QED
    BY <1>3, <2>1, <2>2 DEF PipeShut, Return, Joined, pipeVars
<1>4. CASE GoroutineEnds
  BY <1>4 DEF PipeShut, GoroutineEnds, pushVars
<1>5. ASSUME NEW r \in Requests, Transport(r) PROVE PipeShut'
  <2>1. UNCHANGED <<pushVars, goroutine>> /\ (readerClosed => readerClosed')
    BY <1>5 DEF Transport, Feed, EndBody, CloseBody, TypeOK
  <2> QED
    BY <2>1 DEF PipeShut, pushVars
<1>6. ASSUME NEW r \in Requests, Serve(r) PROVE PipeShut'
  BY <1>6 DEF PipeShut, Serve, Apply, TurnAway, Answer, pushVars, pipeVars
<1>7. CASE UNCHANGED vars
  BY <1>7 DEF PipeShut, vars, pushVars, pipeVars
<1> QED
  BY <1>1, <1>2, <1>3, <1>4, <1>5, <1>6, <1>7 DEF Next, Caller

\* When Push has returned, nothing of that call touches the packfile writer.
THEOREM Quiet == Spec => []QuietBetweenCalls
<1>1. Init => PipeShut
  BY DEF Init, PipeShut
<1>2. TypeOK /\ PipeShut /\ [Next]_vars => PipeShut'
  BY PipeShutInductive
<1>3. TypeOK /\ PipeShut => QuietBetweenCalls
  BY DEF TypeOK, PipeShut, QuietBetweenCalls, Reads, Requests, Calls
<1> QED
  BY <1>1, <1>2, <1>3, TypeCorrect, PTL DEF Spec

-----------------------------------------------------------------------------
(***************************************************************************)
(* The questions: Requests, with variables of its own where the two        *)
(* modules have none of one name.  Its assumptions are hypotheses here.    *)
(***************************************************************************)
CONSTANTS Questions, Retriers
VARIABLES retrier, unsent, open, cancelled

R == INSTANCE Requests WITH Calls <- Questions

Kinds == {"CanRead", "CanWrite", "Compatible", "Capabilities", "ListRefs"}

\* What the assumptions say of the server and the call at hand.
Asked ==
    /\ call \in Kinds
    /\ host.version \in {"v1", "v2", "other"}
    /\ Status \in {"200", "401", "403", "404"}
    /\ host.refs \in Seq(STRING)
    /\ \A i \in DOMAIN host.refs : host.refs[i] \notin Marks
    /\ host.refs \notin Failures /\ host.caps \notin Failures

Lines == STRING \cup {"capabilities"}
LEMMA RefLinesFacts ==
    ASSUME Asked
    PROVE  /\ RefLines \in Seq(Lines) /\ Len(RefLines) >= 1
           /\ \A i \in 1 .. Len(RefLines) :
                 RefLines[i] \notin Marks /\ RefLines[i] \in ToSet(RefLines)
           /\ \A m \in Marks : m \notin ToSet(RefLines)
<1>1. CASE host.refs = <<>>
  <2>1. RefLines = <<"capabilities">>
    BY <1>1 DEF RefLines
  <2>2. RefLines \in Seq(Lines) /\ Len(RefLines) = 1
    BY <2>1 DEF Lines
  <2>3. RefLines[1] = "capabilities"
    BY <2>1
  <2>4. DOMAIN RefLines = {1} /\ 1 .. Len(RefLines) = {1}
    BY <2>1
  <2>5. ToSet(RefLines) = {"capabilities"}
    BY <2>3, <2>4 DEF ToSet
  <2>6. "capabilities" \notin Marks
    BY DEF Marks
  <2> QED
    BY <2>2, <2>3, <2>4, <2>5, <2>6
<1>2. CASE host.refs # <<>>
  <2>1. RefLines = host.refs /\ host.refs \in Seq(STRING)
    BY <1>2 DEF RefLines, Asked
  <2>2. RefLines \in Seq(Lines)
    BY <2>1 DEF Lines
  <2>3. Len(RefLines) >= 1 /\ DOMAIN RefLines = 1 .. Len(RefLines)
    BY <1>2, <2>1
  <2>4. \A i \in 1 .. Len(RefLines) : RefLines[i] \notin Marks
    BY <2>1, <2>3 DEF Asked
  <2> QED
    BY <2>2, <2>3, <2>4 DEF ToSet
<1> QED
  BY <1>1, <1>2

\* The bodies: the announcement of references, and the rest.
Packets == Lines \cup Marks
Announcement == <<"service", "flush">> \o RefLines \o <<"flush">>
LEMMA AnnouncementFacts ==
    ASSUME Asked
    PROVE  /\ Announcement \in Seq(Packets)
           /\ Len(Announcement) = Len(RefLines) + 3
           /\ Announcement[1] = "service" /\ Announcement[2] = "flush"
           /\ \A i \in 1 .. Len(RefLines) : Announcement[i + 2] = RefLines[i]
           /\ Announcement[Len(RefLines) + 3] = "flush"
<1>1. PICK lines \in Seq(Packets) : lines = RefLines
  BY RefLinesFacts DEF Packets
<1>2. <<"service", "flush">> \in Seq(Packets) /\ <<"flush">> \in Seq(Packets)
  <2>1. "service" \in Packets /\ "flush" \in Packets
    BY DEF Packets, Marks
  <2> QED
    BY <2>1
<1> QED
  BY <1>1, <1>2 DEF Announcement

LEMMA BodyKinds ==
    ASSUME Asked, NEW reply \in AllBodies
    PROVE  \/ reply = <<"service", "flush", "ERR">>
           \/ host.version = "other" /\ reply = <<"garbled">>
           \/ host.version = "v2" /\ call = "ListRefs" /\ reply = Append(host.refs, "flush")
           \/ host.version = "v1" /\ call = "ListRefs" /\ reply = <<"ERR">>
           \/ /\ host.version = "v2" /\ call = "Compatible"
              /\ reply \in {<<"service", "flush", "version 2", "agent", "flush">>,
                           <<"version 2", "agent", "flush">>}
           \/ /\ host.version # "other" /\ call # "ListRefs"
              /\ ~(host.version = "v2" /\ call = "Compatible")
              /\ reply = Announcement
<1>1. CASE reply \in Bodies
  <2>1. CASE host.version = "other"
    BY <1>1, <2>1 DEF Bodies
  <2>2. CASE host.version # "other" /\ call = "ListRefs"
    BY <1>1, <2>2 DEF Bodies, Asked
  <2>3. CASE host.version = "v2" /\ call = "Compatible"
    BY <1>1, <2>3 DEF Bodies
  <2>4. CASE host.version # "other" /\ call # "ListRefs" /\ ~(host.version = "v2" /\ call = "Compatible")
    BY <1>1, <2>4 DEF Bodies, Announcement
  <2> QED
    BY <2>1, <2>2, <2>3, <2>4
<1> QED
  BY <1>1 DEF AllBodies

LEMMA Wider == ASSUME NEW S, NEW T, S \subseteq T PROVE \A s \in Seq(S) : s \in Seq(T)
  OBVIOUS

LEMMA BodyIsSeq ==
    ASSUME Asked, NEW reply \in AllBodies
    PROVE  reply \in Seq(Packets)
<1>1. Append(host.refs, "flush") \in Seq(Packets)
  <2>1. STRING \subseteq Packets /\ "flush" \in Packets
    BY DEF Packets, Lines, Marks
  <2>2. host.refs \in Seq(Packets)
    <3>1. PICK refs : refs = host.refs
      OBVIOUS
    <3>2. refs \in Seq(STRING)
      BY <3>1 DEF Asked
    <3>3. refs \in Seq(Packets)
      BY <2>1, <3>2, Wider, Zenon
    <3> QED
      BY <3>1, <3>3
  <2> QED
    BY <2>1, <2>2
<1>2. /\ <<"service", "flush", "ERR">> \in Seq(Packets) /\ <<"garbled">> \in Seq(Packets)
      /\ <<"ERR">> \in Seq(Packets)
      /\ <<"service", "flush", "version 2", "agent", "flush">> \in Seq(Packets)
      /\ <<"version 2", "agent", "flush">> \in Seq(Packets)
  BY DEF Packets, Marks
<1> QED
  BY <1>1, <1>2, BodyKinds, AnnouncementFacts

\* A reading is the first packets of a body, all of them if it is whole.
ReadOf(r, reply, k) ==
    /\ r.packets \in Seq(Packets) /\ Len(r.packets) = k
    /\ \A i \in 1 .. k : r.packets[i] = reply[i]
    /\ r = Whole(reply) \/ k < Len(reply)
LEMMA ReadingIsStart ==
    ASSUME Asked, NEW r \in Readings
    PROVE  \E reply \in AllBodies : \E k \in 0 .. Len(reply) : ReadOf(r, reply, k)
<1>1. PICK reply \in AllBodies :
          \/ r = Whole(reply)
          \/ \E k \in 0 .. Len(reply) - 1 : r.packets = SubSeq(reply, 1, k)
  BY DEF Readings
<1>2. reply \in Seq(Packets)
  BY BodyIsSeq
<1>3. CASE r = Whole(reply)
  <2>1. r.packets = reply
    BY <1>3 DEF Whole
  <2> QED
    BY <1>2, <1>3, <2>1 DEF ReadOf
<1>4. ASSUME NEW k \in 0 .. Len(reply) - 1, r.packets = SubSeq(reply, 1, k)
      PROVE  \E j \in 0 .. Len(reply) : ReadOf(r, reply, j)
  <2>1. r.packets \in Seq(Packets) /\ Len(r.packets) = k
    BY <1>2, <1>4
  <2>2. \A i \in 1 .. k : r.packets[i] = reply[i]
    BY <1>2, <1>4
  <2>3. k \in 0 .. Len(reply) /\ k < Len(reply)
    BY <1>2
  <2> QED
    BY <2>1, <2>2, <2>3 DEF ReadOf
<1> QED
  BY <1>1, <1>3, <1>4

\* The bodies that are the same for every server hold no reference.
ServiceError == <<"service", "flush", "ERR">>
Announced2 == <<"service", "flush", "version 2", "agent", "flush">>
Unannounced2 == <<"version 2", "agent", "flush">>
LEMMA FixedBodies ==
    ASSUME NEW reply
    PROVE  /\ reply \in {ServiceError, <<"garbled">>, Announced2, Unannounced2} =>
                 \A i \in 1 .. Len(reply) : reply[i] \in Marks
           /\ reply \in {ServiceError, <<"garbled">>} =>
                 \A i \in 1 .. Len(reply) : reply[i] # "version 2"
<1>0. {"service", "flush", "ERR", "garbled", "version 2", "agent"} \subseteq Marks
  BY DEF Marks
<1>1. CASE reply = ServiceError
  <2>1. 1 .. 3 = {1, 2, 3}
    OBVIOUS
  <2>0. Len(reply) = 3
    BY <1>1 DEF ServiceError
  <2>2. reply[1] = "service" /\ reply[2] = "flush" /\ reply[3] = "ERR"
    BY <1>1 DEF ServiceError
  <2> QED
    BY <1>0, <2>0, <2>1, <2>2
<1>2. CASE reply = <<"garbled">>
  <2>1. 1 .. 1 = {1}
    OBVIOUS
  <2>0. Len(reply) = 1
    BY <1>2
  <2>2. reply[1] = "garbled"
    BY <1>2
  <2> QED
    BY <1>0, <2>0, <2>1, <2>2
<1>3. CASE reply = Announced2
  <2>1. 1 .. 5 = {1, 2, 3, 4, 5}
    OBVIOUS
  <2>0. Len(reply) = 5
    BY <1>3 DEF Announced2
  <2>2. /\ reply[1] = "service" /\ reply[2] = "flush" /\ reply[3] = "version 2"
        /\ reply[4] = "agent" /\ reply[5] = "flush"
    BY <1>3 DEF Announced2
  <2>3. reply \notin {ServiceError, <<"garbled">>}
    BY <1>3 DEF Announced2, ServiceError
  <2> QED
    BY <1>0, <2>0, <2>1, <2>2, <2>3
<1>4. CASE reply = Unannounced2
  <2>1. 1 .. 3 = {1, 2, 3}
    OBVIOUS
  <2>0. Len(reply) = 3
    BY <1>4 DEF Unannounced2
  <2>2. reply[1] = "version 2" /\ reply[2] = "agent" /\ reply[3] = "flush"
    BY <1>4 DEF Unannounced2
  <2>3. reply \notin {ServiceError, <<"garbled">>}
    BY <1>4 DEF Unannounced2, ServiceError
  <2> QED
    BY <1>0, <2>0, <2>1, <2>2, <2>3
<1> QED
  BY <1>1, <1>2, <1>3, <1>4

LEMMA VersionNeverMistaken ==
    ASSUME Asked, call = "Compatible", Status = "200", NEW r \in Readings
    PROVE  DetectProtocolVersion(r) \in Failures \cup {Truth}
<1>1. PICK reply \in AllBodies : \E k \in 0 .. Len(reply) : ReadOf(r, reply, k)
  BY ReadingIsStart
<1>2. PICK k \in 0 .. Len(reply) : ReadOf(r, reply, k)
  BY <1>1
<1>3. DOMAIN r.packets = 1 .. k /\ \A i \in 1 .. k : r.packets[i] = reply[i] /\ i <= Len(reply)
  BY <1>2, BodyIsSeq DEF ReadOf
<1>4. Before(r) \subseteq 1 .. k
  BY <1>3 DEF Before
<1>5. DetectProtocolVersion(r) \in {<<"yes">>, <<"no">>, <<"unknown">>}
  BY DEF DetectProtocolVersion
<1>6. <<"unknown">> \in Failures
  BY DEF Failures
<1>7. CASE host.version = "v2"
  <2>1. Truth = <<"yes">>
    BY <1>7 DEF Truth
  <2>2. \A i \in 1 .. Len(reply) : reply[i] \in Marks
    <3>1. reply \in {ServiceError, Announced2, Unannounced2}
      BY <1>7, BodyKinds DEF ServiceError, Announced2, Unannounced2
    <3> QED
      BY <3>1, FixedBodies
  <2>3. \A i \in Before(r) : r.packets[i] \notin ToSet(RefLines)
    BY <1>3, <1>4, <2>2, RefLinesFacts
  <2>4. DetectProtocolVersion(r) # <<"no">>
    BY <2>3 DEF DetectProtocolVersion
  <2> QED
    BY <1>5, <1>6, <2>1, <2>4
<1>8. CASE host.version # "v2"
  <2>1. \A i \in 1 .. Len(reply) : reply[i] # "version 2"
    <3>1. \/ reply \in {ServiceError, <<"garbled">>}
          \/ reply = Announcement
      BY <1>8, BodyKinds DEF Asked, ServiceError
    <3>2. CASE reply = Announcement
      <4>1. ASSUME NEW i \in 1 .. Len(reply) PROVE reply[i] # "version 2"
        <5>1. i = 1 \/ i = 2 \/ i = Len(RefLines) + 3 \/ (i - 2 \in 1 .. Len(RefLines) /\ i = (i - 2) + 2)
          BY <3>2, AnnouncementFacts, RefLinesFacts
        <5>2. \A j \in 1 .. Len(RefLines) : RefLines[j] # "version 2"
          BY RefLinesFacts DEF Marks
        <5> QED
          BY <3>2, <5>1, <5>2, AnnouncementFacts
      <4> QED
        BY <4>1
    <3> QED
      BY <3>1, <3>2, FixedBodies
  <2>2. ASSUME NEW i \in Before(r) PROVE r.packets[i] # "version 2"
    <3>1. i \in 1 .. k
      BY <1>4
    <3>2. r.packets[i] = reply[i] /\ i \in 1 .. Len(reply)
      BY <1>3, <3>1, BodyIsSeq
    <3> QED
      BY <2>1, <3>2
  <2>3. DetectProtocolVersion(r) # <<"yes">>
    BY <2>2 DEF DetectProtocolVersion
  <2>4. CASE host.version = "v1"
    <3>1. Truth = <<"no">>
      BY <2>4 DEF Truth
    <3> QED
      BY <1>5, <1>6, <2>3, <3>1
  <2>5. CASE host.version = "other"
    <3>1. \A i \in 1 .. Len(reply) : reply[i] \in Marks
      <4>1. reply \in {ServiceError, <<"garbled">>}
        BY <2>5, BodyKinds DEF ServiceError
      <4> QED
        BY <4>1, FixedBodies
    <3>2. \A i \in Before(r) : r.packets[i] \notin ToSet(RefLines)
      BY <1>3, <1>4, <3>1, RefLinesFacts
    <3>3. DetectProtocolVersion(r) # <<"no">>
      BY <3>2 DEF DetectProtocolVersion
    <3> QED
      BY <1>5, <1>6, <2>3, <3>3
  <2> QED
    BY <1>8, <2>4, <2>5 DEF Asked
<1> QED
  BY <1>7, <1>8

LEMMA WholeVersionKnown ==
    ASSUME Asked, call = "Compatible", Status = "200", host.version # "other",
           NEW reply \in Bodies
    PROVE  DetectProtocolVersion(Whole(reply)) \notin Failures
<1> DEFINE r == Whole(reply)
<1>1. r.packets = reply /\ reply \in Seq(Packets)
  BY BodyIsSeq DEF Whole, AllBodies
<1>2. /\ <<"yes">> \notin Failures
      /\ <<"no">> \notin Failures
  BY DEF Failures
<1>3. \A i \in 1 .. Len(reply) : (\A j \in 1 .. i : reply[j] \notin {"ERR", "garbled"}) => i \in Before(r)
  BY <1>1 DEF Before
<1>4. CASE host.version = "v2"
  <2>1. reply \in {Announced2, Unannounced2}
    BY <1>4 DEF Bodies, Announced2, Unannounced2
  <2>2. \E i \in Before(r) : r.packets[i] = "version 2"
    <3> HIDE DEF r
    <3>1. CASE reply = Announced2
      <4>1. /\ Len(reply) = 5
            /\ reply[1] = "service" /\ reply[2] = "flush" /\ reply[3] = "version 2"
        BY <3>1 DEF Announced2
      <4>2. \A j \in 1 .. 3 : reply[j] \notin {"ERR", "garbled"}
        <5>1. 1 .. 3 = {1, 2, 3}
          OBVIOUS
        <5> QED
          BY <4>1, <5>1
      <4>3. 3 \in Before(r)
        <5>1. Len(reply) = 5
          BY <4>1, Zenon
        <5>2. 3 \in 1 .. Len(reply)
          BY <5>1
        <5> QED
          BY <1>3, <4>2, <5>2
      <4> QED
        BY <1>1, <4>1, <4>3
    <3>2. CASE reply = Unannounced2
      <4>1. Len(reply) = 3 /\ reply[1] = "version 2"
        BY <3>2 DEF Unannounced2
      <4>2. \A j \in 1 .. 1 : reply[j] \notin {"ERR", "garbled"}
        <5>1. 1 .. 1 = {1}
          OBVIOUS
        <5> QED
          BY <4>1, <5>1
      <4>3. 1 \in Before(r)
        <5>1. Len(reply) = 3
          BY <4>1, Zenon
        <5>2. 1 \in 1 .. Len(reply)
          BY <5>1
        <5> QED
          BY <1>3, <4>2, <5>2
      <4> QED
        BY <1>1, <4>1, <4>3
    <3> QED
      BY <2>1, <3>1, <3>2
  <2>3. DetectProtocolVersion(r) = <<"yes">>
    BY <2>2 DEF DetectProtocolVersion
  <2> QED
    BY <1>2, <2>3
<1>5. CASE host.version = "v1"
  <2>1. reply = Announcement
    BY <1>5 DEF Bodies, Announcement
  <2>2. reply[1] = "service" /\ reply[2] = "flush" /\ reply[3] = RefLines[1] /\ Len(reply) >= 3
    <3>1. 1 \in 1 .. Len(RefLines) /\ Len(RefLines) \in Nat
      BY RefLinesFacts
    <3>2. reply[1 + 2] = RefLines[1]
      BY <2>1, <3>1, AnnouncementFacts
    <3> QED
      BY <2>1, <3>1, <3>2, AnnouncementFacts
  <2>3. RefLines[1] \notin Marks /\ RefLines[1] \in ToSet(RefLines)
    BY RefLinesFacts
  <2>4. 3 \in Before(r)
    <3>1. \A j \in 1 .. 3 : reply[j] \notin {"ERR", "garbled"}
      <4>1. reply[3] \notin {"ERR", "garbled"}
        BY <2>2, <2>3 DEF Marks
      <4> QED
        BY <2>2, <4>1
    <3> QED
      BY <1>3, <2>2, <3>1
  <2>5. \E i \in Before(r) : r.packets[i] \in ToSet(RefLines)
    BY <1>1, <2>2, <2>3, <2>4
  <2>6. DetectProtocolVersion(r) # <<"unknown">>
    BY <2>5 DEF DetectProtocolVersion
  <2> QED
    BY <1>2, <2>6 DEF DetectProtocolVersion
<1> QED
  BY <1>4, <1>5 DEF Asked

LEMMA Lined ==
    ASSUME NEW r, NEW i
    PROVE  /\ i \notin DOMAIN r.packets => NextLine(r, i) \in {"eof", "error"}
           /\ i \in DOMAIN r.packets /\ r.packets[i] = "flush" => NextLine(r, i) = "eof"
           /\ i \in DOMAIN r.packets /\ r.packets[i] \in {"ERR", "garbled"} => NextLine(r, i) = "error"
           /\ i \in DOMAIN r.packets /\ r.packets[i] \notin {"flush", "ERR", "garbled"} =>
                 NextLine(r, i) = r.packets[i]
  BY DEF NextLine

LEMMA CapabilitiesAllOrNothing ==
    ASSUME Asked, call = "Capabilities", Status = "200", NEW r \in Readings
    PROVE  ParseReceivePackInfoRefs(r) \in Failures \cup {Truth}
<1>1. PICK reply \in AllBodies : \E k \in 0 .. Len(reply) : ReadOf(r, reply, k)
  BY ReadingIsStart
<1>2. PICK k \in 0 .. Len(reply) : ReadOf(r, reply, k)
  BY <1>1
<1>3. DOMAIN r.packets = 1 .. k /\ \A i \in 1 .. k : r.packets[i] = reply[i]
  BY <1>2, BodyIsSeq DEF ReadOf
<1>4. <<"broken">> \in Failures
  BY DEF Failures
<1>5. CASE host.version # "other"
  <2>1. Truth = host.caps
    BY <1>5 DEF Truth
  <2>2. ParseReceivePackInfoRefs(r) \in {host.caps, <<"broken">>}
    BY DEF ParseReceivePackInfoRefs
  <2> QED
    BY <1>4, <2>1, <2>2
<1>6. CASE host.version = "other"
  <2> DEFINE first == ReadNonFlush(r, 1)
             ref   == ReadNonFlush(r, first + 1)
  <2>1. SUFFICES ~(NextLine(r, first) = "service" /\ NextLine(r, ref) \notin {"eof", "error"})
    BY <1>4 DEF ParseReceivePackInfoRefs
  <2>2. reply \in {ServiceError, <<"garbled">>}
    BY <1>6, BodyKinds DEF ServiceError
  <2>3. k \in Nat /\ first \in {1, 2} /\ ref \in {first + 1, first + 2}
    BY BodyIsSeq DEF ReadNonFlush
  <2>4. CASE reply = <<"garbled">>
    <3>1. Len(reply) = 1 /\ reply[1] = "garbled"
      BY <2>4
    <3>2. k <= 1
      BY <3>1
    <3>3. 2 \notin DOMAIN r.packets
      BY <1>3, <2>3, <3>2
    <3>4. 1 \in DOMAIN r.packets => r.packets[1] = "garbled"
      BY <1>3, <3>1
    <3>5. NextLine(r, 1) \in {"eof", "error"} /\ NextLine(r, 2) \in {"eof", "error"}
      BY <3>3, <3>4, Lined
    <3> QED
      BY <2>3, <3>5
  <2>5. CASE reply = ServiceError
    <3>1. Len(reply) = 3 /\ reply[2] = "flush" /\ reply[3] = "ERR"
      BY <2>5 DEF ServiceError
    <3>2. k <= 3
      BY <3>1
    <3>3. \A i \in Nat : i >= 4 => i \notin DOMAIN r.packets
      BY <1>3, <2>3, <3>2
    <3>4. /\ 2 \in DOMAIN r.packets => r.packets[2] = "flush"
          /\ 3 \in DOMAIN r.packets => r.packets[3] = "ERR"
      BY <1>3, <3>1
    <3>5. \A i \in {2, 3, 4} : NextLine(r, i) \in {"eof", "error"}
      <4>1. NextLine(r, 2) \in {"eof", "error"} /\ NextLine(r, 3) \in {"eof", "error"}
        BY <3>4, Lined
      <4>2. NextLine(r, 4) \in {"eof", "error"}
        BY <3>3, Lined
      <4> QED
        BY <4>1, <4>2
    <3>6. ref \in {2, 3, 4}
      BY <2>3
    <3> QED
      BY <3>5, <3>6
  <2> QED
    BY <2>2, <2>4, <2>5
<1> QED
  BY <1>5, <1>6

LEMMA WholeCapabilitiesKnown ==
    ASSUME Asked, call = "Capabilities", Status = "200", host.version # "other",
           NEW reply \in Bodies
    PROVE  ParseReceivePackInfoRefs(Whole(reply)) \notin Failures
<1> DEFINE r == Whole(reply)
<1>1. reply = Announcement
  BY DEF Bodies, Announcement
<1>2. r.packets = reply /\ reply \in Seq(Packets)
  BY BodyIsSeq DEF Whole, AllBodies
<1>3. reply[3] = RefLines[1] /\ RefLines[1] \notin Marks /\ Len(reply) >= 4
  <2>1. 1 \in 1 .. Len(RefLines) /\ Len(RefLines) \in Nat
    BY RefLinesFacts
  <2>2. Announcement[1 + 2] = RefLines[1]
    BY <2>1, AnnouncementFacts
  <2>3. RefLines[1] \notin Marks
    BY RefLinesFacts
  <2>4. Len(Announcement) >= 4
    BY <2>1, AnnouncementFacts
  <2> QED
    BY <1>1, <2>2, <2>3, <2>4
<1>4. {1, 2, 3} \subseteq DOMAIN r.packets
  BY <1>2, <1>3
<1>5. r.packets[1] = "service" /\ r.packets[2] = "flush" /\ r.packets[3] \notin Marks
  BY <1>1, <1>2, <1>3, AnnouncementFacts
<1> HIDE DEF r
<1>6. NextLine(r, 1) = "service" /\ NextLine(r, 2) = "eof" /\ NextLine(r, 3) \notin {"eof", "error"}
  <2>1. {"flush", "ERR", "garbled", "eof", "error"} \subseteq Marks
    BY DEF Marks
  <2> QED
    BY <1>4, <1>5, <2>1, Lined
<1>7. ReadNonFlush(r, 1) = 1 /\ ReadNonFlush(r, 1 + 1) = 3
  BY <1>6 DEF ReadNonFlush
<1>8. ParseReceivePackInfoRefs(r) = host.caps
  BY <1>6, <1>7 DEF ParseReceivePackInfoRefs
<1> QED
  BY <1>8 DEF Asked, r

\* The packets before the first flush, or all of them.
Flushes(r) == {i \in DOMAIN r.packets : r.packets[i] = "flush"}
LEMMA ListParsed ==
    ASSUME NEW r, NEW n \in Nat,
           \/ Flushes(r) = {} /\ n = Len(r.packets)
           \/ Flushes(r) = {n + 1}
    PROVE  /\ ParseLsRefsResponse(r) \in {SubSeq(r.packets, 1, n), <<"broken">>}
           /\ ParseLsRefsResponse(r) # <<"broken">> => \A i \in 1 .. n : r.packets[i] \in ToSet(RefLines)
           /\ Flushes(r) = {} /\ ParseLsRefsResponse(r) # <<"broken">> => r.place = "boundary" /\ r.how = "eof"
           /\ (Flushes(r) # {} /\ \A i \in 1 .. n : r.packets[i] \in ToSet(RefLines)) =>
                 ParseLsRefsResponse(r) = SubSeq(r.packets, 1, n)
<1>1. Flushes(r) # {} => Min(Flushes(r)) - 1 = n
  <2>1. Flushes(r) # {} => Min({n + 1}) = n + 1
    BY DEF Min
  <2> QED
    BY <2>1
<1> DEFINE m == IF Flushes(r) = {} THEN Len(r.packets) ELSE Min(Flushes(r)) - 1
<1>2. m = n
  BY <1>1
<1>3. ParseLsRefsResponse(r) =
         IF (\A i \in 1 .. m : IsRefLine(r.packets[i])) /\ (Flushes(r) # {} \/ Ends(r))
         THEN SubSeq(r.packets, 1, m) ELSE <<"broken">>
  BY DEF ParseLsRefsResponse, Flushes
<1> HIDE DEF m
<1> QED
  BY <1>2, <1>3 DEF IsRefLine, Ends

\* The list of a server of version 2: what was read of it.
LEMMA ListRead ==
    ASSUME Asked, NEW r, NEW k \in 0 .. Len(host.refs) + 1,
           ReadOf(r, Append(host.refs, "flush"), k)
    PROVE  /\ k <= Len(host.refs) => Flushes(r) = {} /\ SubSeq(r.packets, 1, k) = SubSeq(host.refs, 1, k)
           /\ k = Len(host.refs) + 1 =>
                 /\ Flushes(r) = {Len(host.refs) + 1}
                 /\ SubSeq(r.packets, 1, Len(host.refs)) = host.refs
                 /\ \A i \in 1 .. Len(host.refs) : r.packets[i] \in ToSet(RefLines)
<1>1. PICK refs \in Seq(STRING) : refs = host.refs
  BY DEF Asked
<1>2. PICK packets \in Seq(Packets) : packets = r.packets
  BY DEF ReadOf
<1>3. DOMAIN packets = 1 .. k /\ Len(packets) = k
  BY <1>2 DEF ReadOf
<1>4. \A i \in 1 .. k : IF i <= Len(refs) THEN packets[i] = refs[i] ELSE packets[i] = "flush"
  BY <1>1, <1>2 DEF ReadOf
<1>5. \A i \in 1 .. Len(refs) : refs[i] # "flush"
  <2>1. "flush" \in Marks
    BY DEF Marks
  <2>2. \A i \in DOMAIN refs : refs[i] \notin Marks
    BY <1>1 DEF Asked
  <2> QED
    BY <2>1, <2>2
<1>6. CASE k <= Len(refs)
  <2>1. Flushes(r) = {}
    BY <1>2, <1>3, <1>4, <1>5, <1>6 DEF Flushes
  <2>2. SubSeq(packets, 1, k) = SubSeq(refs, 1, k)
    <3>1. SubSeq(packets, 1, k) = [i \in 1 .. k |-> packets[i]]
      BY <1>3
    <3>2. SubSeq(refs, 1, k) = [i \in 1 .. k |-> refs[i]]
      BY <1>6
    <3>3. \A i \in 1 .. k : packets[i] = refs[i]
      BY <1>4, <1>6
    <3> QED
      BY <3>1, <3>2, <3>3
  <2> QED
    BY <1>1, <1>2, <1>6, <2>1, <2>2
<1>7. CASE k = Len(refs) + 1
  <2>1. Flushes(r) = {Len(refs) + 1}
    BY <1>2, <1>3, <1>4, <1>5, <1>7 DEF Flushes
  <2>2. SubSeq(packets, 1, Len(refs)) = refs
    <3>1. SubSeq(packets, 1, Len(refs)) = [i \in 1 .. Len(refs) |-> packets[i]]
      BY <1>3, <1>7
    <3>2. refs = [i \in 1 .. Len(refs) |-> refs[i]]
      OBVIOUS
    <3>3. \A i \in 1 .. Len(refs) : packets[i] = refs[i]
      BY <1>4, <1>7
    <3> QED
      BY <3>1, <3>2, <3>3
  <2>3. ASSUME NEW i \in 1 .. Len(refs) PROVE packets[i] \in ToSet(RefLines)
    <3>1. RefLines = refs
      BY <1>1 DEF RefLines
    <3>2. packets[i] = refs[i]
      BY <1>4, <1>7
    <3> QED
      BY <3>1, <3>2, RefLinesFacts
  <2> QED
    BY <1>1, <1>2, <1>7, <2>1, <2>2, <2>3
<1> QED
  BY <1>1, <1>6, <1>7

LEMMA ListCompleteOrCutClean ==
    ASSUME Asked, call = "ListRefs", Status = "200", NEW r \in Readings
    PROVE  \/ ParseLsRefsResponse(r) \in Failures \cup {Truth}
           \/ /\ r.place = "boundary" /\ r.how = "eof" /\ r \notin {Whole(b) : b \in AllBodies}
              /\ IsPrefix(ParseLsRefsResponse(r), host.refs)
<1> DEFINE v == ParseLsRefsResponse(r)
<1>1. PICK reply \in AllBodies : \E k \in 0 .. Len(reply) : ReadOf(r, reply, k)
  BY ReadingIsStart
<1>2. PICK k \in 0 .. Len(reply) : ReadOf(r, reply, k)
  BY <1>1
<1>3. DOMAIN r.packets = 1 .. k /\ \A i \in 1 .. k : r.packets[i] = reply[i]
  BY <1>2, BodyIsSeq DEF ReadOf
<1>4. k \in Nat /\ Len(r.packets) = k /\ r.packets \in Seq(Packets) /\ Len(reply) \in Nat
  BY <1>2, BodyIsSeq DEF ReadOf
<1>5. <<"broken">> \in Failures
  BY DEF Failures
<1>6. \A m \in {"service", "garbled", "ERR"} : m \notin ToSet(RefLines)
  <2>1. {"service", "garbled", "ERR"} \subseteq Marks
    BY DEF Marks
  <2> QED
    BY <2>1, RefLinesFacts
\* A list without a flush, of which all packets are references, is no whole body.
<1>7. ASSUME Flushes(r) = {}, v # <<"broken">>
      PROVE  r.place = "boundary" /\ r.how = "eof" /\ r \notin {Whole(b) : b \in AllBodies}
  <2>1. /\ r.place = "boundary" /\ r.how = "eof"
        /\ \A i \in 1 .. k : r.packets[i] \in ToSet(RefLines)
    BY <1>4, <1>7, ListParsed
  <2>2. ASSUME NEW b \in AllBodies, r = Whole(b) PROVE FALSE
    <3>1. b = r.packets
      BY <2>2 DEF Whole
    <3>2. b = ServiceError \/ b = <<"garbled">> \/ b = <<"ERR">> \/ b = Append(host.refs, "flush")
      BY BodyKinds DEF ServiceError
    <3>3. b # ServiceError /\ b # <<"garbled">> /\ b # <<"ERR">>
      <4>1. b = ServiceError => Len(b) = 3 /\ b[1] = "service"
        BY DEF ServiceError
      <4>2. b = <<"garbled">> => Len(b) = 1 /\ b[1] = "garbled"
        OBVIOUS
      <4>3. b = <<"ERR">> => Len(b) = 1 /\ b[1] = "ERR"
        OBVIOUS
      <4>4. Len(b) = k /\ (k >= 1 => b[1] \in ToSet(RefLines))
        BY <1>4, <2>1, <3>1
      <4> QED
        BY <1>6, <4>1, <4>2, <4>3, <4>4
    <3>4. CASE b = Append(host.refs, "flush")
      <4>1. PICK refs \in Seq(STRING) : refs = host.refs
        BY DEF Asked
      <4>2. b[Len(refs) + 1] = "flush" /\ Len(refs) + 1 \in DOMAIN b
        BY <3>4, <4>1
      <4> QED
        BY <1>7, <3>1, <4>2 DEF Flushes
    <3> QED
      BY <3>2, <3>3, <3>4
  <2> QED
    BY <2>1, <2>2
<1>8. CASE reply = Append(host.refs, "flush") /\ host.version = "v2"
  <2>1. PICK refs \in Seq(STRING) : refs = host.refs
    BY DEF Asked
  <2>2. k \in 0 .. Len(host.refs) + 1 /\ Len(host.refs) \in Nat
    BY <1>8, <2>1
  <2>3. CASE k <= Len(host.refs)
    <3>1. Flushes(r) = {} /\ SubSeq(r.packets, 1, k) = SubSeq(host.refs, 1, k)
      BY <1>2, <1>8, <2>2, <2>3, ListRead
    <3>2. v \in {SubSeq(host.refs, 1, k), <<"broken">>}
      BY <1>4, <3>1, ListParsed
    <3>3. IsPrefix(SubSeq(refs, 1, k), refs)
      <4>1. Len(SubSeq(refs, 1, k)) = k
        BY <1>4, <2>1, <2>3
      <4>2. SubSeq(SubSeq(refs, 1, k), 1, k) = SubSeq(refs, 1, k)
        BY <1>4, <2>1, <2>3
      <4> QED
        BY <2>1, <2>3, <4>1, <4>2 DEF IsPrefix
    <3> QED
      BY <1>5, <1>7, <2>1, <3>1, <3>2, <3>3
  <2>4. CASE k = Len(host.refs) + 1
    <3>1. /\ Flushes(r) = {Len(host.refs) + 1}
          /\ SubSeq(r.packets, 1, Len(host.refs)) = host.refs
      BY <1>2, <1>8, <2>2, <2>4, ListRead
    <3>2. v \in {host.refs, <<"broken">>}
      BY <2>2, <3>1, ListParsed
    <3>3. Truth = host.refs
      BY <1>8 DEF Truth
    <3> QED
      BY <1>5, <3>2, <3>3
  <2> QED
    BY <2>2, <2>3, <2>4
<1>9. CASE reply \in {ServiceError, <<"garbled">>, <<"ERR">>}
  <2>1. PICK n \in Nat : \/ n = k /\ Flushes(r) = {}
                         \/ n = 1 /\ k >= 2 /\ Flushes(r) = {n + 1}
    <3>1. CASE reply = ServiceError /\ k >= 2
      <4>1. Len(reply) = 3 /\ reply[1] = "service" /\ reply[2] = "flush" /\ reply[3] = "ERR"
        BY <3>1 DEF ServiceError
      <4>2. Flushes(r) = {2}
        <5>1. \A i \in 1 .. k : i = 1 \/ i = 2 \/ i = 3
          BY <1>4, <4>1
        <5> QED
          BY <1>3, <1>4, <3>1, <4>1, <5>1 DEF Flushes
      <4> QED
        BY <3>1, <4>2
    <3>2. CASE reply = ServiceError /\ k < 2
      <4>1. reply[1] = "service"
        BY <3>2 DEF ServiceError
      <4>2. \A i \in 1 .. k : i = 1
        BY <1>4, <3>2
      <4>3. Flushes(r) = {}
        BY <1>3, <4>1, <4>2 DEF Flushes
      <4> QED
        BY <1>4, <4>3
    <3>3. CASE reply \in {<<"garbled">>, <<"ERR">>}
      <4>1. Len(reply) = 1 /\ reply[1] # "flush"
        BY <3>3
      <4>2. \A i \in 1 .. k : i = 1
        BY <1>4, <4>1
      <4>3. Flushes(r) = {}
        BY <1>3, <4>1, <4>2 DEF Flushes
      <4> QED
        BY <1>4, <4>3
    <3>4. k >= 2 \/ k < 2
      BY <1>4
    <3>5. reply = ServiceError \/ reply \in {<<"garbled">>, <<"ERR">>}
      BY <1>9, Zenon
    <3> QED
      BY <3>1, <3>2, <3>3, <3>4, <3>5, Zenon
  <2>2. CASE k = 0
    <3>1. Flushes(r) = {} /\ n = 0
      BY <2>1, <2>2
    <3>2. v \in {SubSeq(r.packets, 1, 0), <<"broken">>}
      BY <1>4, <2>2, <3>1, ListParsed
    <3>3. PICK refs \in Seq(STRING) : refs = host.refs
      BY DEF Asked
    <3>4. SubSeq(r.packets, 1, 0) = <<>>
      BY <1>4
    <3>5. IsPrefix(<<>>, refs)
      <4>1. Len(<<>>) = 0 /\ Len(refs) >= 0 /\ SubSeq(<<>>, 1, 0) = <<>> /\ SubSeq(refs, 1, 0) = <<>>
        BY <3>3
      <4> QED
        BY <4>1 DEF IsPrefix
    <3> QED
      BY <1>5, <1>7, <3>1, <3>2, <3>3, <3>4, <3>5
  <2>3. CASE k >= 1
    <3>1. r.packets[1] \in {"service", "garbled", "ERR"}
      <4>1. reply[1] \in {"service", "garbled", "ERR"}
        BY <1>9 DEF ServiceError
      <4> QED
        BY <1>3, <1>4, <2>3, <4>1
    <3>2. n >= 1
      BY <2>1, <2>3
    <3>3. v = <<"broken">>
      <4>1. r.packets[1] \notin ToSet(RefLines) /\ 1 \in 1 .. n
        BY <1>6, <3>1, <3>2
      <4>2. \/ Flushes(r) = {} /\ n = Len(r.packets)
            \/ Flushes(r) = {n + 1}
        BY <1>4, <2>1
      <4>3. v # <<"broken">> => \A i \in 1 .. n : r.packets[i] \in ToSet(RefLines)
        BY <4>2, ListParsed
      <4> QED
        BY <4>1, <4>3
    <3> QED
      BY <1>5, <3>3
  <2> QED
    BY <1>4, <2>2, <2>3
<1>10. reply \in {ServiceError, <<"garbled">>, <<"ERR">>} \/ (reply = Append(host.refs, "flush") /\ host.version = "v2")
  BY BodyKinds DEF ServiceError
<1> QED
  BY <1>8, <1>9, <1>10

LEMMA WholeListKnown ==
    ASSUME Asked, call = "ListRefs", Status = "200", host.version = "v2",
           NEW reply \in Bodies
    PROVE  ParseLsRefsResponse(Whole(reply)) \notin Failures
<1> DEFINE r == Whole(reply)
<1>1. reply = Append(host.refs, "flush") /\ reply \in AllBodies
  BY DEF Bodies, AllBodies
<1>2. PICK refs \in Seq(STRING) : refs = host.refs
  BY DEF Asked
<1>3. r.packets = reply /\ reply \in Seq(Packets) /\ Len(reply) = Len(refs) + 1
  <2>1. Len(reply) = Len(refs) + 1
    BY <1>1, <1>2
  <2>2. reply \in Seq(Packets)
    BY <1>1, BodyIsSeq
  <2>3. r.packets = reply
    BY DEF Whole
  <2> QED
    BY <2>1, <2>2, <2>3
<1>4. ReadOf(r, reply, Len(refs) + 1)
  BY <1>3 DEF ReadOf
<1> HIDE DEF r
<1>5. /\ Flushes(r) = {Len(refs) + 1}
      /\ SubSeq(r.packets, 1, Len(refs)) = refs
      /\ \A i \in 1 .. Len(refs) : r.packets[i] \in ToSet(RefLines)
  <2>1. Len(refs) + 1 \in 0 .. Len(host.refs) + 1
    BY <1>2
  <2> QED
    BY <1>1, <1>2, <1>4, <2>1, ListRead
<1>6. ParseLsRefsResponse(r) = refs
  <2>1. Len(refs) \in Nat
    OBVIOUS
  <2> QED
    BY <1>5, <2>1, ListParsed
<1> QED
  BY <1>2, <1>6 DEF Asked, r

-----------------------------------------------------------------------------
\* What a call has seen so far: while it runs it has no outcome, what it takes for an
\* answer is the server's status or a 400, and what makes it try again is neither.
Answering ==
    /\ pc \in {"attempt", "decide", "wait", "answered", "done"}
    /\ call \in Questions /\ host \in Servers
    /\ pc # "done" => outcome = "none"
    /\ pc = "answered" => last \in {Status, "400"}
    /\ pc \in {"decide", "wait"} => last \in R!Errors \cup R!Unavailable

LEMMA AskedAlways ==
    ASSUME R!CallsAssumption, ServersAssumption, Answering
    PROVE  Asked
<1>1. call \in Kinds /\ host \in Servers
  BY DEF R!CallsAssumption, Answering, Kinds
<1>2. /\ host.version \in {"v1", "v2", "other"}
      /\ {host.readStatus, host.writeStatus} \subseteq {"200", "401", "403", "404"}
      /\ host.refs \in Seq(STRING)
      /\ ToSet(host.refs) \cap Marks = {} /\ {host.refs, host.caps} \cap Failures = {}
  BY <1>1 DEF ServersAssumption
<1>3. Status \in {"200", "401", "403", "404"}
  BY <1>2 DEF Status
<1>4. \A i \in DOMAIN host.refs : host.refs[i] \in ToSet(host.refs)
  BY DEF ToSet
<1> QED
  BY <1>1, <1>2, <1>3, <1>4 DEF Asked

\* Requests says of the answers what ServerAnswers says.
LEMMA SameAnswers ==
    /\ R!Status = Status /\ R!Readings = Readings /\ R!Failures = Failures
    /\ \A r : R!Parsed(r) = Parsed(r)
<1>1. R!Status = Status /\ R!RefLines = RefLines /\ R!Breaks = Breaks /\ R!Failures = Failures
  BY DEF R!Status, Status, R!Service, Service, R!RefLines, RefLines, R!Breaks, Breaks,
         R!Failures, Failures
<1>2. R!Bodies = Bodies
  BY <1>1 DEF R!Bodies, Bodies
<1>3. R!AllBodies = AllBodies
  BY <1>2 DEF R!AllBodies, AllBodies
<1>4. R!Readings = Readings
  BY <1>1, <1>3 DEF R!Readings, Readings, R!Whole, Whole
<1>5. ASSUME NEW r PROVE R!Parsed(r) = Parsed(r)
  <2>1. \A i : R!NextLine(r, i) = NextLine(r, i)
    BY DEF R!NextLine, NextLine
  <2>2. \A i : R!ReadNonFlush(r, i) = ReadNonFlush(r, i)
    BY <2>1 DEF R!ReadNonFlush, ReadNonFlush
  <2>3. R!Before(r) = Before(r)
    BY DEF R!Before, Before
  <2>4. R!DetectProtocolVersion(r) = DetectProtocolVersion(r)
    BY <1>1, <2>3 DEF R!DetectProtocolVersion, DetectProtocolVersion, R!ToSet, ToSet
  <2>5. R!ParseReceivePackInfoRefs(r) = ParseReceivePackInfoRefs(r)
    BY <2>1, <2>2 DEF R!ParseReceivePackInfoRefs, ParseReceivePackInfoRefs
  <2>6. R!ParseLsRefsResponse(r) = ParseLsRefsResponse(r)
    BY <1>1 DEF R!ParseLsRefsResponse, ParseLsRefsResponse, R!IsRefLine, IsRefLine,
                R!Ends, Ends, R!ToSet, ToSet, R!Min, Min
  <2> QED
    BY <2>4, <2>5, <2>6 DEF R!Parsed, Parsed
<1> QED
  BY <1>1, <1>4, <1>5

LEMMA TrueStep ==
    ASSUME R!CallsAssumption, ServersAssumption, Answering, AnswersAreTrue, [R!Next]_(R!vars)
    PROVE  Answering' /\ AnswersAreTrue'
<1>0. Asked
  BY AskedAlways
<1>1. Status \in {"200", "401", "403", "404"}
  BY <1>0 DEF Asked
<1>2. CASE R!Attempt
  <2>1. /\ UNCHANGED <<host, call, outcome, value, read>> /\ pc = "attempt"
        /\ pc' = IF last' \in R!Errors \cup R!Unavailable THEN "decide" ELSE "answered"
        /\ last' \in {"canceled", "network"} \cup R!Answers
    BY <1>2 DEF R!Attempt, R!asked
  <2>2. last' \notin R!Errors \cup R!Unavailable => last' \in {Status, "400"}
    BY <2>1, SameAnswers DEF R!Answers, R!Errors, R!Unavailable
  <2>3. Status' = Status
    BY <2>1 DEF Status, Service
  <2>4. outcome' = "none"
    BY <2>1 DEF Answering
  <2>5. Answering'
    BY <2>1, <2>2, <2>3, <2>4 DEF Answering, R!Errors, R!Unavailable
  <2> QED
    BY <2>4, <2>5 DEF AnswersAreTrue
<1>3. CASE R!Decide \/ R!Wait
  <2>1. /\ UNCHANGED <<host, call, last>> /\ pc \in {"decide", "wait"}
        /\ \/ pc' = "done" /\ outcome' = "error"
           \/ pc' \in {"wait", "attempt"} /\ UNCHANGED outcome
    BY <1>3 DEF R!Decide, R!Wait, R!Return, R!asked
  <2>2. last \in R!Errors \cup R!Unavailable
    BY <2>1 DEF Answering
  <2>3. Status' = Status /\ last' # Status'
    <3>1. Status' = Status
      BY <2>1 DEF Status, Service
    <3> QED
      BY <1>1, <2>1, <2>2, <3>1 DEF R!Errors, R!Unavailable
  <2>4. outcome' # "ok"
    BY <2>1 DEF Answering
  <2>5. Answering'
    BY <2>1, <2>2 DEF Answering
  <2> QED
    BY <2>3, <2>4, <2>5 DEF AnswersAreTrue
<1>4. CASE R!Answered
  <2>1. /\ UNCHANGED <<host, call, last>> /\ pc = "answered" /\ last \in {Status, "400"}
        /\ R!Refused \/ R!Granted \/ R!Parse
    BY <1>4 DEF R!Answered, R!asked, Answering
  <2>2. /\ Status' = Status /\ Truth' = Truth /\ AllBodies' = AllBodies
        /\ Bodies' = Bodies
    BY <2>1 DEF Status, Service, Truth, AllBodies, Bodies, RefLines
  <2>3. pc' = "done"
    BY <2>1 DEF R!Refused, R!Granted, R!Parse, R!Return
  <2>4. Answering'
    BY <2>1, <2>3 DEF Answering
  <2>5. CASE R!Refused
    <3>1. CASE last = Status
      <4>1. CASE call \in {"CanRead", "CanWrite"} /\ Status \in {"401", "403"}
        <5>1. outcome' = "ok" /\ value' = <<"no">>
          BY <2>5, <3>1, <4>1 DEF R!Refused, R!Return, R!CheckHTTPClientError
        <5>2. Truth = <<"no">>
          BY <4>1 DEF Truth
        <5> QED
          BY <2>2, <2>4, <5>1, <5>2 DEF AnswersAreTrue
      <4>2. CASE ~(call \in {"CanRead", "CanWrite"} /\ Status \in {"401", "403"})
        <5>1. outcome' = "error"
          BY <1>1, <2>5, <3>1, <4>2 DEF R!Refused, R!Return, R!CheckHTTPClientError
        <5>2. Status # "200"
          BY <2>5, <3>1 DEF R!Refused
        <5>3. Truth = <<"none">>
          BY <1>1, <4>2, <5>2 DEF Truth
        <5> QED
          BY <2>2, <2>4, <5>1, <5>3 DEF AnswersAreTrue
      <4> QED
        BY <4>1, <4>2
    <3>2. CASE last = "400"
      <4>1. outcome' = "error"
        BY <2>5, <3>2 DEF R!Refused, R!Return, R!CheckHTTPClientError
      <4>2. last' # Status'
        BY <1>1, <2>1, <2>2, <3>2
      <4> QED
        BY <2>4, <4>1, <4>2 DEF AnswersAreTrue
    <3> QED
      BY <2>1, <3>1, <3>2
  <2>6. CASE R!Granted
    <3>1. last = "200" /\ call \in {"CanRead", "CanWrite"} /\ outcome' = "ok" /\ value' = <<"yes">>
      BY <2>6 DEF R!Granted, R!Return
    <3>2. Truth = <<"yes">>
      BY <2>1, <3>1 DEF Truth
    <3> QED
      BY <2>2, <2>4, <3>1, <3>2 DEF AnswersAreTrue
  <2>7. CASE R!Parse
    <3>1. PICK r \in Readings : read' = r
      BY <2>7, SameAnswers DEF R!Parse
    <3>2. /\ last = "200" /\ call \in {"Compatible", "Capabilities", "ListRefs"}
          /\ value' = Parsed(r) /\ outcome' = IF Parsed(r) \in Failures THEN "error" ELSE "ok"
      BY <1>0, <2>7, <3>1, SameAnswers DEF R!Parse, R!Return, Asked, Kinds
    <3>3. Status = "200"
      BY <2>1, <3>2
    <3>4. Parsed(r) \notin Failures =>
            \/ Parsed(r) = Truth
            \/ /\ call = "ListRefs"
               /\ r.place = "boundary" /\ r.how = "eof" /\ r \notin {Whole(b) : b \in AllBodies}
               /\ IsPrefix(Parsed(r), host.refs)
      <4>1. CASE call = "Compatible"
        BY <1>0, <3>3, <4>1, VersionNeverMistaken DEF Parsed
      <4>2. CASE call = "Capabilities"
        BY <1>0, <3>3, <4>2, CapabilitiesAllOrNothing DEF Parsed
      <4>3. CASE call = "ListRefs"
        BY <1>0, <3>3, <4>3, ListCompleteOrCutClean DEF Parsed
      <4> QED
        BY <3>2, <4>1, <4>2, <4>3
    <3>5. ASSUME NEW b \in Bodies, r = Whole(b), Truth # <<"none">>
          PROVE  Parsed(r) \notin Failures
      <4>1. host.version # "other"
        BY <3>2, <3>5 DEF Truth
      <4>2. call = "ListRefs" => host.version = "v2"
        BY <3>3, <3>5, <4>1 DEF Truth
      <4> QED
        BY <1>0, <3>2, <3>3, <3>5, <4>1, <4>2, WholeVersionKnown, WholeCapabilitiesKnown, WholeListKnown
        DEF Parsed
    <3>6. outcome' = "ok" =>
            \/ value' = Truth'
            \/ call' = "ListRefs" /\ LooksWhole' /\ IsPrefix(value', host'.refs)
      BY <2>1, <2>2, <3>1, <3>2, <3>4 DEF LooksWhole
    <3>7. outcome' = "error" /\ read' \in {Whole(b) : b \in Bodies'} => Truth' = <<"none">>
      BY <2>2, <3>1, <3>2, <3>5
    <3> QED
      BY <2>1, <2>4, <3>2, <3>6, <3>7 DEF AnswersAreTrue
  <2> QED
    BY <2>1, <2>5, <2>6, <2>7
<1>5. CASE R!Cancel \/ UNCHANGED R!vars
  <2>1. UNCHANGED <<host, call, pc, last, read, outcome, value>>
    BY <1>5 DEF R!Cancel, R!vars, R!asked
  <2>2. /\ Status' = Status /\ Truth' = Truth /\ AllBodies' = AllBodies
        /\ Bodies' = Bodies
    BY <2>1 DEF Status, Service, Truth, AllBodies, Bodies, RefLines
  <2>3. Answering'
    BY <2>1, <2>2 DEF Answering
  <2> QED
    BY <2>1, <2>2, <2>3 DEF AnswersAreTrue, LooksWhole
<1> QED
  BY <1>2, <1>3, <1>4, <1>5 DEF R!Next, R!Client

\* Whatever failed on the way, an answer is the server's own, and a call whose last request
\* was answered and read whole has an answer if the server has one.
THEOREM OnlyTrueAnswers ==
    R!CallsAssumption /\ ServersAssumption => (R!Spec => []AnswersAreTrue)
<1> SUFFICES ASSUME R!CallsAssumption, ServersAssumption
             PROVE  R!Spec => []AnswersAreTrue
  OBVIOUS
<1>1. R!Init => Answering /\ AnswersAreTrue
  BY DEF R!Init, Answering, AnswersAreTrue
<1>2. Answering /\ AnswersAreTrue /\ [R!Next]_(R!vars) => Answering' /\ AnswersAreTrue'
  BY TrueStep
<1> QED
  BY <1>1, <1>2, PTL DEF R!Spec

-----------------------------------------------------------------------------
\* The safety half of EndsClosed: when a call has returned, it has made MaxAttempts attempts
\* at most and left no response open.
ClosedWhenDone == pc = "done" => open = {} /\ attempt <= R!MaxAttempts

\* Only the response of the attempt under way can be open, and only while it is looked at.
OneOpen ==
    /\ pc \in {"attempt", "decide", "wait", "answered", "done"}
    /\ retrier \in Int /\ attempt \in Nat /\ attempt <= R!MaxAttempts
    /\ open \subseteq {attempt}
    /\ pc \in {"attempt", "wait", "done"} => open = {}
    /\ pc = "wait" => attempt < R!MaxAttempts

LEMMA OneOpenStep ==
    ASSUME OneOpen, [R!Next]_(R!vars)
    PROVE  OneOpen'
<1>1. CASE R!Attempt
  BY <1>1 DEF R!Attempt, R!asked, OneOpen, R!MaxAttempts
<1>2. CASE R!Decide
  <2>1. open' = {} /\ UNCHANGED <<retrier, attempt>> /\ pc = "decide"
    BY <1>2 DEF R!Decide, R!asked, R!Closed, OneOpen
  <2>2. pc' = "done" \/ (pc' = "wait" /\ attempt < R!MaxAttempts)
    BY <1>2 DEF R!Decide, R!Return
  <2> QED
    BY <2>1, <2>2 DEF OneOpen, R!MaxAttempts
<1>3. CASE R!Wait
  <2>1. UNCHANGED <<retrier, open>> /\ pc = "wait"
    BY <1>3 DEF R!Wait, R!asked
  <2>2. \/ attempt' = attempt + 1 /\ pc' = "attempt"
        \/ UNCHANGED attempt /\ pc' = "done"
    BY <1>3 DEF R!Wait, R!Return
  <2> QED
    BY <2>1, <2>2 DEF OneOpen, R!MaxAttempts
<1>4. CASE R!Answered
  <2>1. open' = {} /\ UNCHANGED <<retrier, attempt>>
    BY <1>4 DEF R!Answered, R!asked, R!ClosedAtEnd, OneOpen
  <2>2. pc' = "done"
    BY <1>4 DEF R!Answered, R!Refused, R!Granted, R!Parse, R!Return
  <2> QED
    BY <2>1, <2>2 DEF OneOpen, R!MaxAttempts
<1>5. CASE R!Cancel \/ UNCHANGED R!vars
  BY <1>5 DEF R!Cancel, R!asked, R!vars, OneOpen, R!MaxAttempts
<1> QED
  BY <1>1, <1>2, <1>3, <1>4, <1>5 DEF R!Next, R!Client

\* However a call ends, it leaves no response open and has made MaxAttempts attempts at most.
THEOREM NothingLeftOpen == R!RetriersAssumption => (R!Spec => []ClosedWhenDone)
<1> SUFFICES ASSUME R!RetriersAssumption PROVE R!Spec => []ClosedWhenDone
  OBVIOUS
<1>1. R!Init => OneOpen
  <2>1. R!Init => retrier \in Int /\ attempt = 1 /\ open = {} /\ pc = "attempt"
    BY DEF R!Init, R!RetriersAssumption
  <2> QED
    BY <2>1 DEF OneOpen, R!MaxAttempts
<1>2. OneOpen /\ [R!Next]_(R!vars) => OneOpen'
  BY OneOpenStep
<1>3. OneOpen => ClosedWhenDone
  BY DEF OneOpen, ClosedWhenDone
<1> QED
  BY <1>1, <1>2, <1>3, PTL DEF R!Spec
====
