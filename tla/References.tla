------------------------------ MODULE References ------------------------------
(***************************************************************************)
(* Goroutines that share one client and get, create, update and delete     *)
(* references (refs.go), with the negotiation of capabilities that each    *)
(* change needs (effectiveReceivePackCapabilities of client.go), against a *)
(* server that other clients change too.                                   *)
(*                                                                         *)
(* Data abstraction.  A capability is the key of its token; an object's    *)
(* hash is one of a few.  None is no hash: the zero hash in a request.     *)
(***************************************************************************)
EXTENDS Naturals, FiniteSets

CONSTANTS
    Procs,            \* goroutines
    Nobody,
    Names, Hashes, None,
    Configurations,   \* the options of the client: what it wants (the set that
                      \* WithReceivePackCapabilities gives, or {}), and does it negotiate?
    Advertisements,   \* the sets that the server may advertise
    Default,          \* DefaultReceivePackCapabilities
    Faults,           \* "lookup": ls-refs fails
                      \* "probe": the request for the capabilities fails
                      \* "refuses": the server refuses an update for its own reasons
                      \* "lost": a request or its reply does not come through
                      \* "short": the list of ls-refs ends between two packets
                      \* "silent": the answer to an update has a good status and
                      \* ends before its report
                      \* "upgrades": the server advertises something else
    MaxCalls,         \* bound: calls of all goroutines together
    MaxForeign        \* bound: steps of other clients and upgrades

VARIABLES
    \* the server
    refs, advertised,
    late,             \* updates whose client has given up
    \* the client
    receivePackCapabilities, negotiateCaps,
    negotiated, negotiatedCaps, negotiateMu,
    \* its goroutines
    pc, call,
    oldRef,           \* what GetRef found
    caps,             \* the capabilities of the request
    request,          \* what became of the request at the server
    result,
    misled,           \* the goroutines whose last call took half an answer for a
                      \* whole one, and ended with it
    calls, foreign

server == <<refs, advertised, late>>
client == <<receivePackCapabilities, negotiateCaps, negotiated, negotiatedCaps, negotiateMu>>
vars   == <<server, client, pc, call, oldRef, caps, request, result, misled, calls, foreign>>

Retained == {"report-status-v2", "agent"}   \* alwaysRetainedCapabilityKeys
Known    == Default \cup UNION {c.wanted : c \in Configurations} \cup UNION Advertisements
Values   == Hashes \cup {None}
Calls    ==
    [op : {"get", "delete"}, name : Names, new : {None}]
        \cup [op : {"create", "update"}, name : Names, new : Hashes]
Updates  == [name : Names, old : Values, new : Values]
Phases   == {"idle", "lookup", "caps", "lock", "probe", "send", "wait"}
Results  == {"none", "ok", "exists", "notFound", "error"} \cup Hashes

ASSUME NamesAssumption ==
    /\ Names # {} /\ Nobody \notin Procs /\ None \notin Hashes
    /\ Hashes \cap {"none", "ok", "exists", "notFound", "error"} = {}
ASSUME CapabilitiesAssumption ==
    /\ Retained \subseteq Default
    /\ \A c \in Configurations : c.negotiate \in BOOLEAN
ASSUME BoundsAssumption == {MaxCalls, MaxForeign} \subseteq Nat

-----------------------------------------------------------------------------
\* IntersectCapabilities.  (Mutant: nothing is injected.)
CommonOnly(wanted, offered) == wanted \cap offered
IntersectCapabilities(wanted, offered) == (wanted \cap offered) \cup Retained

\* FormatCapabilities: no capabilities stand for the default ones.
OrDefault(wanted) == IF wanted = {} THEN Default ELSE wanted

\* The server reports what became of an update only to those who ask for it;
\* without a report, ReceivePack takes the update for done.
Reports(p)  == "report-status-v2" \in caps[p] \cap advertised
GoodReport(p) == request[p] = "applied" \/ ~Reports(p)

\* git-receive-pack compares the old value and sets the new one.
Apply(u) == [refs EXCEPT ![u.name] = u.new]
Update(p) == [name |-> call[p].name, old |-> oldRef[p], new |-> call[p].new]

Goto(p, phase) == pc' = [pc EXCEPT ![p] = phase]
Return(p, r) ==
    /\ Goto(p, "idle")
    /\ result' = [result EXCEPT ![p] = r]
Use(p, c) ==
    /\ Goto(p, "send")
    /\ caps' = [caps EXCEPT ![p] = OrDefault(c)]

-----------------------------------------------------------------------------
Init ==
    /\ refs \in [Names -> Values]
    /\ advertised \in Advertisements
    /\ late = {}
    /\ \E c \in Configurations :
           receivePackCapabilities = c.wanted /\ negotiateCaps = c.negotiate
    /\ negotiated = FALSE /\ negotiatedCaps = {} /\ negotiateMu = Nobody
    /\ pc = [p \in Procs |-> "idle"]
    /\ call \in [Procs -> {CHOOSE c \in Calls : TRUE}]
    /\ oldRef = [p \in Procs |-> None]
    /\ caps = [p \in Procs |-> {}]
    /\ request = [p \in Procs |-> "none"]
    /\ result = [p \in Procs |-> "none"] /\ misled = {}
    /\ calls = 0 /\ foreign = 0

Begin(p, c) ==
    /\ pc[p] = "idle" /\ calls < MaxCalls
    /\ calls' = calls + 1
    /\ Goto(p, "lookup")
    /\ call' = [call EXCEPT ![p] = c]
    /\ oldRef' = [oldRef EXCEPT ![p] = None]
    /\ caps' = [caps EXCEPT ![p] = {}]
    /\ request' = [request EXCEPT ![p] = "none"]
    /\ result' = [result EXCEPT ![p] = "none"]
    /\ misled' = misled \ {p}
    /\ UNCHANGED <<server, client, foreign>>

\* What CreateRef, UpdateRef, DeleteRef and GetRef itself make of GetRef's
\* answer v.  (Mutant: UpdateRef takes a missing reference for a new one.)
AnsweredUnlessUpdate(op, v) ==
    CASE op = "get" -> TRUE [] op = "create" -> v # None
      [] op = "delete" -> v = None [] op = "update" -> FALSE
Answered(op, v) ==
    CASE op = "get" -> TRUE [] op = "create" -> v # None
      [] op \in {"update", "delete"} -> v = None

\* (Mutant: GetRef makes a reference of an empty list.)
AnswerUnchecked(op, v) == IF op = "create" THEN "exists" ELSE v
Answer(op, v) == IF v = None THEN "notFound" ELSE IF op = "create" THEN "exists" ELSE v

\* The call goes on with v, or ends.
Found(p, v) ==
    IF Answered(call[p].op, v)
    THEN /\ Return(p, Answer(call[p].op, v))
         /\ UNCHANGED oldRef
    ELSE /\ Goto(p, "caps")
         /\ oldRef' = [oldRef EXCEPT ![p] = v]
         /\ UNCHANGED result

\* ParseLsRefsResponse takes the end of the answer for the end of the list.
GetRef(p) ==
    /\ pc[p] = "lookup"
    /\ \/ /\ Found(p, refs[call[p].name])
          /\ UNCHANGED misled
       \/ /\ "short" \in Faults
          /\ Found(p, None)
          /\ misled' = IF Answered(call[p].op, None) THEN misled \cup {p} ELSE misled
    /\ UNCHANGED <<server, client, call, caps, request, calls, foreign>>

GetRefFails(p) ==
    /\ pc[p] = "lookup" /\ "lookup" \in Faults
    /\ Return(p, "error")
    /\ UNCHANGED <<server, client, call, oldRef, caps, request, misled, calls, foreign>>

\* effectiveReceivePackCapabilities, the fast path, behind the read lock.
ReadCapabilities(p) ==
    /\ pc[p] = "caps"
    /\ negotiateCaps => negotiateMu = Nobody
    /\ IF negotiateCaps /\ ~negotiated
       THEN Goto(p, "lock") /\ UNCHANGED caps
       ELSE Use(p, IF negotiateCaps THEN negotiatedCaps ELSE receivePackCapabilities)
    /\ UNCHANGED <<server, client, call, oldRef, request, result, misled, calls, foreign>>

\* The slow path: the write lock, and a second look.  (Mutant: no second look.)
NoSecondLook == FALSE
SecondLook == negotiated

Lock(p) ==
    /\ pc[p] = "lock" /\ negotiateMu = Nobody
    /\ IF SecondLook
       THEN Use(p, negotiatedCaps) /\ UNCHANGED negotiateMu
       ELSE Goto(p, "probe") /\ negotiateMu' = p /\ UNCHANGED caps
    /\ UNCHANGED <<server, receivePackCapabilities, negotiateCaps, negotiated, negotiatedCaps,
                   call, oldRef, request, result, misled, calls, foreign>>

\* FetchReceivePackCapabilities under the write lock.  (Mutant: a failure
\* keeps the lock.)
Kept == negotiateMu
Released == Nobody

Negotiate(p) ==
    LET common == IntersectCapabilities(OrDefault(receivePackCapabilities), advertised)
    IN  /\ pc[p] = "probe"
        /\ negotiated' = TRUE /\ negotiatedCaps' = common
        /\ negotiateMu' = Nobody
        /\ Use(p, common)
        /\ UNCHANGED <<server, receivePackCapabilities, negotiateCaps, call, oldRef, request,
                       result, misled, calls, foreign>>

NegotiationFails(p) ==
    /\ pc[p] = "probe" /\ "probe" \in Faults
    /\ negotiateMu' = Released
    /\ Return(p, "error")
    /\ UNCHANGED <<server, receivePackCapabilities, negotiateCaps, negotiated, negotiatedCaps,
                   call, oldRef, caps, request, misled, calls, foreign>>

Send(p) ==
    /\ pc[p] = "send"
    /\ Goto(p, "wait")
    /\ request' = [request EXCEPT ![p] = "sent"]
    /\ UNCHANGED <<server, client, call, oldRef, caps, result, misled, calls, foreign>>

Receive(p) ==
    /\ pc[p] = "wait" /\ request[p] = "sent"
    /\ \/ /\ refs[call[p].name] = oldRef[p]
          /\ refs' = Apply(Update(p))
          /\ request' = [request EXCEPT ![p] = "applied"]
       \/ /\ refs[call[p].name] # oldRef[p] \/ "refuses" \in Faults
          /\ request' = [request EXCEPT ![p] = "refused"]
          /\ UNCHANGED refs
    /\ UNCHANGED <<advertised, late, client, pc, call, oldRef, caps, result, misled, calls,
                   foreign>>

Reply(p) ==
    /\ pc[p] = "wait" /\ request[p] \in {"applied", "refused"}
    /\ Return(p, IF GoodReport(p) THEN "ok" ELSE "error")
    /\ UNCHANGED <<server, client, call, oldRef, caps, request, misled, calls, foreign>>

\* What the server has not received it may still receive.
Left(p) ==
    \/ UNCHANGED late
    \/ request[p] = "sent" /\ late' = late \cup {Update(p)}

\* The request or its reply is lost, or the client does not wait any longer.
GiveUp(p) ==
    /\ pc[p] = "wait" /\ "lost" \in Faults
    /\ Return(p, "error")
    /\ Left(p)
    /\ UNCHANGED <<refs, advertised, client, call, oldRef, caps, request, misled, calls,
                   foreign>>

\* Without anything of a report, ReceivePack takes the update for done, whether or
\* not the request asked for a report.
SilentReply(p) ==
    /\ pc[p] = "wait" /\ "silent" \in Faults
    /\ Return(p, "ok")
    /\ misled' = misled \cup {p}
    /\ Left(p)
    /\ UNCHANGED <<refs, advertised, client, call, oldRef, caps, request, calls, foreign>>

ReceiveLate(u) ==
    /\ u \in late
    /\ late' = late \ {u}
    /\ refs' = IF refs[u.name] = u.old THEN Apply(u) ELSE refs
    /\ UNCHANGED <<advertised, client, pc, call, oldRef, caps, request, result, misled,
                   calls, foreign>>

OtherClient(n, v) ==
    /\ foreign < MaxForeign /\ refs[n] # v
    /\ foreign' = foreign + 1
    /\ refs' = [refs EXCEPT ![n] = v]
    /\ UNCHANGED <<advertised, late, client, pc, call, oldRef, caps, request, result,
                   misled, calls>>

Upgrade ==
    /\ "upgrades" \in Faults /\ foreign < MaxForeign
    /\ foreign' = foreign + 1
    /\ advertised' \in Advertisements \ {advertised}
    /\ UNCHANGED <<refs, late, client, pc, call, oldRef, caps, request, result,
                   misled, calls>>

Step(p) ==
    \/ GetRef(p) \/ GetRefFails(p)
    \/ ReadCapabilities(p) \/ Lock(p) \/ Negotiate(p) \/ NegotiationFails(p)
    \/ Send(p) \/ Receive(p) \/ Reply(p) \/ GiveUp(p) \/ SilentReply(p)

Next ==
    \/ \E p \in Procs : Step(p) \/ \E c \in Calls : Begin(p, c)
    \/ \E u \in Updates : ReceiveLate(u)
    \/ \E n \in Names, v \in Values : OtherClient(n, v)
    \/ Upgrade

Spec == Init /\ [][Next]_vars

\* Every goroutine goes on when it can, gets the lock if it stays free for it,
\* and every request is answered or fails.
FairSpec == Spec /\ \A p \in Procs : SF_vars(Step(p))

-----------------------------------------------------------------------------
TypeOK ==
    /\ refs \in [Names -> Values]
    /\ advertised \in Advertisements
    /\ late \subseteq Updates
    /\ receivePackCapabilities \subseteq Known /\ negotiateCaps \in BOOLEAN
    /\ negotiated \in BOOLEAN /\ negotiatedCaps \subseteq Known
    /\ negotiateMu \in Procs \cup {Nobody}
    /\ pc \in [Procs -> Phases]
    /\ call \in [Procs -> Calls]
    /\ oldRef \in [Procs -> Values]
    /\ caps \in [Procs -> SUBSET Known]
    /\ request \in [Procs -> {"none", "sent", "applied", "refused"}]
    /\ result \in [Procs -> Results] /\ misled \subseteq Procs
    /\ calls \in 0 .. MaxCalls /\ foreign \in 0 .. MaxForeign

\* With negotiation, every request carries the one set that was negotiated,
\* whichever goroutine negotiated it and whatever the server advertises now; it
\* asks for the report, and the rest of it was wanted.
RequestsAgree ==
    \A p \in Procs : negotiateCaps /\ pc[p] \in {"send", "wait"} =>
        /\ negotiated /\ caps[p] = negotiatedCaps
        /\ Retained \subseteq caps[p]
        /\ caps[p] \subseteq Retained \cup OrDefault(receivePackCapabilities)

\* One goroutine negotiates at a time, and none does once a result is there.
OneNegotiation ==
    \A p \in Procs : pc[p] = "probe" => negotiateMu = p /\ ~negotiated

\* No goroutine waits for ever, though failures leave the lock.
EveryCallEnds == \A p \in Procs : pc[p] # "idle" ~> pc[p] = "idle"

\* A change that is refused can be told from one that is made.
ReportsGuaranteed ==
    /\ \A offered \in Advertisements : "report-status-v2" \in offered
    /\ \A c \in Configurations : c.negotiate \/ "report-status-v2" \in OrDefault(c.wanted)

\* If that is so, the calls are what AtomicRefs says: they happen at one moment, a
\* nil error means that the change was made, "not found" and "already exists" were
\* true, and errors leave nothing but the change that was asked for.  Only a call
\* that took half an answer for a whole one can say "ok" or "not found" and be
\* wrong; what it changes is still what it was asked to change, or nothing.
Stage(p) ==
    IF pc[p] = "idle" THEN "idle"
    ELSE IF request[p] = "applied" THEN "changed" ELSE "begun"

AR == INSTANCE AtomicRefs WITH stage <- [p \in Procs |-> Stage(p)]
ImplementsAtomicRefs == AR!Spec

\* refs.go:76: GetRef answers "ErrRefNotFound if the reference doesn't exist".
NotFoundIsTrue ==
    [][\A p \in Procs :
           pc[p] = "lookup" /\ pc'[p] = "idle" /\ result'[p] = "notFound"
           => refs[call[p].name] = None]_vars

=============================================================================
