--------------------------- MODULE ReferencesProofs ---------------------------
(***************************************************************************)
(* Theorems about References, for any goroutines, references, clients and  *)
(* servers, any number of calls and any faults.                            *)
(***************************************************************************)
EXTENDS References, TLAPS

\* There is a call to begin with.
LEMMA SomeCall == (CHOOSE c \in Calls : TRUE) \in Calls
<1>1. PICK n \in Names : TRUE
  BY NamesAssumption
<1>2. [op |-> "get", name |-> n, new |-> None] \in Calls
  BY DEF Calls
<1> QED
  BY <1>2

LEMMA CallTypes ==
    ASSUME NEW c \in Calls
    PROVE  /\ c.op \in {"get", "create", "update", "delete"}
           /\ c.name \in Names /\ c.new \in Values
BY DEF Calls, Values

LEMMA CapabilityTypes ==
    /\ Retained \subseteq Known /\ Default \subseteq Known
    /\ \A c \in SUBSET Known : OrDefault(c) \subseteq Known
    /\ \A c \in SUBSET Known : \A d : IntersectCapabilities(c, d) \subseteq Known
    /\ \A c \in Configurations : c.wanted \subseteq Known /\ c.negotiate \in BOOLEAN
<1>1. Retained \subseteq Known /\ Default \subseteq Known
  BY CapabilitiesAssumption DEF Known
<1>2. \A c \in Configurations : c.wanted \subseteq Known /\ c.negotiate \in BOOLEAN
  BY CapabilitiesAssumption DEF Known
<1> QED
  BY <1>1, <1>2 DEF OrDefault, IntersectCapabilities

-----------------------------------------------------------------------------
LEMMA InitType == Init => TypeOK
<1> SUFFICES ASSUME Init
             PROVE  TypeOK
  OBVIOUS
<1>1. receivePackCapabilities \subseteq Known /\ negotiateCaps \in BOOLEAN
  BY CapabilityTypes DEF Init
<1>2. call \in [Procs -> Calls]
  BY SomeCall DEF Init
<1>3. 0 \in 0 .. MaxCalls /\ 0 \in 0 .. MaxForeign
  BY BoundsAssumption
<1>4. /\ pc \in [Procs -> Phases] /\ oldRef \in [Procs -> Values]
      /\ result \in [Procs -> Results] /\ misled \subseteq Procs
  BY DEF Init, Phases, Values, Results
<1>5. /\ caps \in [Procs -> SUBSET Known]
      /\ request \in [Procs -> {"none", "sent", "applied", "refused"}]
  BY DEF Init
<1> QED
  BY <1>1, <1>2, <1>3, <1>4, <1>5 DEF Init, TypeOK

LEMMA TypeStep ==
    ASSUME TypeOK, [Next]_vars
    PROVE  TypeOK'
<1> USE DEF TypeOK, server, client
<1>1. ASSUME NEW p \in Procs, NEW c \in Calls, Begin(p, c)
      PROVE  TypeOK'
  BY <1>1, BoundsAssumption DEF Begin, Goto, Phases, Values, Results
<1>2. ASSUME NEW p \in Procs, GetRef(p)
      PROVE  TypeOK'
  <2>1. call[p].name \in Names /\ refs[call[p].name] \in Values
    BY CallTypes
  <2>2. \A v \in Values : Answer(call[p].op, v) \in Results
    BY DEF Answer, Values, Results
  <2>3. PICK v \in Values : Found(p, v)
    BY <1>2, <2>1 DEF GetRef, Values
  <2>4. misled' \subseteq Procs
    BY <1>2 DEF GetRef
  <2> QED
    BY <1>2, <2>2, <2>3, <2>4 DEF GetRef, Found, Goto, Return, Phases
<1>3. ASSUME NEW p \in Procs, GetRefFails(p) \/ Reply(p)
      PROVE  TypeOK'
  BY <1>3 DEF GetRefFails, Reply, Return, Goto, Phases, Results
<1>4. ASSUME NEW p \in Procs, ReadCapabilities(p)
      PROVE  TypeOK'
  BY <1>4, CapabilityTypes DEF ReadCapabilities, Use, Goto, Phases
<1>5. ASSUME NEW p \in Procs, Lock(p)
      PROVE  TypeOK'
  BY <1>5, CapabilityTypes DEF Lock, Use, Goto, Phases
<1>6. ASSUME NEW p \in Procs, Negotiate(p)
      PROVE  TypeOK'
  <2> DEFINE common == IntersectCapabilities(OrDefault(receivePackCapabilities), advertised)
  <2>1. common \subseteq Known /\ OrDefault(common) \subseteq Known
    BY CapabilityTypes
  <2> HIDE DEF common
  <2>2. negotiatedCaps' = common /\ Use(p, common)
    BY <1>6 DEF Negotiate, common
  <2> QED
    BY <1>6, <2>1, <2>2 DEF Negotiate, Use, Goto, Phases
<1>7. ASSUME NEW p \in Procs, NegotiationFails(p)
      PROVE  TypeOK'
  BY <1>7 DEF NegotiationFails, Return, Goto, Released, Phases, Results
<1>8. ASSUME NEW p \in Procs, Send(p)
      PROVE  TypeOK'
  BY <1>8 DEF Send, Goto, Phases
<1>9. ASSUME NEW p \in Procs, Receive(p)
      PROVE  TypeOK'
  BY <1>9, CallTypes DEF Receive, Apply, Update
<1>10. ASSUME NEW p \in Procs, GiveUp(p) \/ SilentReply(p)
       PROVE  TypeOK'
  <2>1. Update(p) \in Updates
    BY CallTypes DEF Update, Updates
  <2> QED
    BY <1>10, <2>1 DEF GiveUp, SilentReply, Left, Return, Goto, Phases, Results
<1>11. ASSUME NEW u \in Updates, ReceiveLate(u)
       PROVE  TypeOK'
  BY <1>11 DEF ReceiveLate, Apply, Updates
<1>12. ASSUME NEW n \in Names, NEW v \in Values, OtherClient(n, v)
       PROVE  TypeOK'
  BY <1>12, BoundsAssumption DEF OtherClient
<1>13. CASE Upgrade
  BY <1>13, BoundsAssumption DEF Upgrade
<1>14. CASE UNCHANGED vars
  BY <1>14 DEF vars
<1> QED
  BY <1>1, <1>2, <1>3, <1>4, <1>5, <1>6, <1>7, <1>8, <1>9, <1>10, <1>11, <1>12, <1>13,
     <1>14 DEF Next, Step

\* The state of the client, its goroutines and the server keeps its shape.
THEOREM TypeCorrect == Spec => []TypeOK
<1> QED
  BY InitType, TypeStep, PTL DEF Spec

(***************************************************************************)
(* Negotiation.  OneNegotiation is inductive: a goroutine negotiates only  *)
(* with the lock, and the result appears only under it.                    *)
(***************************************************************************)
NegotiatedWell ==
    negotiated => /\ Retained \subseteq negotiatedCaps
                  /\ negotiatedCaps \subseteq Retained \cup OrDefault(receivePackCapabilities)

Negotiation == NegotiatedWell /\ OneNegotiation /\ RequestsAgree

\* A set that keeps the capabilities that are always retained is not empty, so
\* that no default stands in for it.
LEMMA NoDefault ==
    /\ \A c : Retained \subseteq c => OrDefault(c) = c
    /\ \A c, d : /\ Retained \subseteq IntersectCapabilities(c, d)
               /\ IntersectCapabilities(c, d) \subseteq Retained \cup c
BY DEF OrDefault, Retained, IntersectCapabilities

LEMMA NegotiationStep ==
    ASSUME TypeOK, Negotiation, [Next]_vars
    PROVE  Negotiation'
<1> USE DEF TypeOK, server, client, Negotiation, NegotiatedWell, OneNegotiation, RequestsAgree
<1>1. ASSUME NEW p \in Procs, NEW c \in Calls, Begin(p, c)
      PROVE  Negotiation'
  BY <1>1 DEF Begin, Goto
<1>2. ASSUME NEW p \in Procs, GetRef(p)
      PROVE  Negotiation'
  BY <1>2 DEF GetRef, Found, Goto, Return
<1>3. ASSUME NEW p \in Procs, GetRefFails(p) \/ Reply(p) \/ GiveUp(p) \/ SilentReply(p)
      PROVE  Negotiation'
  BY <1>3 DEF GetRefFails, Reply, GiveUp, SilentReply, Return, Goto
<1>4. ASSUME NEW p \in Procs, ReadCapabilities(p)
      PROVE  Negotiation'
  BY <1>4, NoDefault DEF ReadCapabilities, Use, Goto
<1>5. ASSUME NEW p \in Procs, Lock(p)
      PROVE  Negotiation'
  BY <1>5, NoDefault, NamesAssumption DEF Lock, SecondLook, Use, Goto
<1>6. ASSUME NEW p \in Procs, Negotiate(p)
      PROVE  Negotiation'
  <2> DEFINE common == IntersectCapabilities(OrDefault(receivePackCapabilities), advertised)
  <2>1. /\ Retained \subseteq common /\ OrDefault(common) = common
        /\ common \subseteq Retained \cup OrDefault(receivePackCapabilities)
    BY NoDefault
  <2> HIDE DEF common
  <2>2. /\ pc[p] = "probe" /\ negotiated' = TRUE /\ negotiatedCaps' = common
        /\ pc' = [pc EXCEPT ![p] = "send"] /\ caps' = [caps EXCEPT ![p] = OrDefault(common)]
        /\ UNCHANGED <<receivePackCapabilities, negotiateCaps>>
    BY <1>6 DEF Negotiate, Use, Goto, common
  <2>3. \A q \in Procs : negotiateCaps => ~(pc[q] \in {"send", "wait"})
    BY <2>2
  <2> QED
    BY <2>1, <2>2, <2>3
<1>7. ASSUME NEW p \in Procs, NegotiationFails(p)
      PROVE  Negotiation'
  BY <1>7 DEF NegotiationFails, Return, Goto, Released
<1>8. ASSUME NEW p \in Procs, Send(p)
      PROVE  Negotiation'
  BY <1>8 DEF Send, Goto
<1>9. ASSUME NEW p \in Procs, Receive(p)
      PROVE  Negotiation'
  BY <1>9 DEF Receive
<1>10. ASSUME NEW u \in Updates, ReceiveLate(u)
       PROVE  Negotiation'
  BY <1>10 DEF ReceiveLate
<1>11. ASSUME NEW n \in Names, NEW v \in Values, OtherClient(n, v)
       PROVE  Negotiation'
  BY <1>11 DEF OtherClient
<1>12. CASE Upgrade
  BY <1>12 DEF Upgrade
<1>13. CASE UNCHANGED vars
  BY <1>13 DEF vars
<1> QED
  BY <1>1, <1>2, <1>3, <1>4, <1>5, <1>6, <1>7, <1>8, <1>9, <1>10, <1>11, <1>12, <1>13 DEF Next, Step

LEMMA NegotiationInvariant == Spec => []Negotiation
<1>1. Init => Negotiation
  BY DEF Init, Negotiation, NegotiatedWell, OneNegotiation, RequestsAgree
<1> QED
  BY <1>1, InitType, TypeStep, NegotiationStep, PTL DEF Spec

\* No two goroutines negotiate at a time, and none does once a result is there.
THEOREM NegotiatesOnce == Spec => []OneNegotiation
<1>1. Negotiation => OneNegotiation
  BY DEF Negotiation
<1> QED
  BY <1>1, NegotiationInvariant, PTL

\* Every request carries the set that was negotiated, never the default in its
\* place, and asks for the report.
THEOREM SameForAll == Spec => []RequestsAgree
<1>1. Negotiation => RequestsAgree
  BY DEF Negotiation
<1> QED
  BY <1>1, NegotiationInvariant, PTL

(***************************************************************************)
(* The calls are what AtomicRefs says.                                     *)
(***************************************************************************)
Deciding == {"caps", "lock", "probe", "send", "wait"}

\* A request is made for a call that GetRef's answer allows, and none before.
CallsWell ==
    \A p \in Procs :
        /\ pc[p] \in Phases \ {"idle", "wait"} => request[p] = "none"
        /\ pc[p] \in Deciding => AR!Agrees(call[p].op, oldRef[p])

\* Every request asks for the report.
Asking ==
    /\ negotiateCaps \/ "report-status-v2" \in OrDefault(receivePackCapabilities)
    /\ \A p \in Procs : pc[p] \in {"send", "wait"} => "report-status-v2" \in caps[p]

LEMMA AgreeingCalls ==
    ASSUME NEW c \in Calls, NEW v \in Values, ~Answered(c.op, v)
    PROVE  AR!Agrees(c.op, v)
BY CallTypes DEF Answered, AR!Agrees

LEMMA CallsStep ==
    ASSUME TypeOK, CallsWell, [Next]_vars
    PROVE  CallsWell'
<1> USE DEF TypeOK, server, client, CallsWell, Deciding, Phases
<1>1. ASSUME NEW p \in Procs, NEW c \in Calls, Begin(p, c)
      PROVE  CallsWell'
  BY <1>1 DEF Begin, Goto
<1>2. ASSUME NEW p \in Procs, GetRef(p)
      PROVE  CallsWell'
  <2>1. call[p].name \in Names /\ refs[call[p].name] \in Values
    BY CallTypes
  <2>2. PICK v \in Values : Found(p, v)
    BY <1>2, <2>1 DEF GetRef, Values
  <2>3. pc[p] = "lookup" /\ UNCHANGED <<call, request>>
    BY <1>2 DEF GetRef
  <2>4. CASE Answered(call[p].op, v)
    BY <2>2, <2>3, <2>4 DEF Found, Return, Goto
  <2>5. CASE ~Answered(call[p].op, v)
    <3>1. AR!Agrees(call[p].op, v)
      BY <2>5, AgreeingCalls
    <3>2. /\ pc' = [pc EXCEPT ![p] = "caps"]
          /\ oldRef' = [oldRef EXCEPT ![p] = v]
      BY <2>2, <2>5 DEF Found, Goto
    <3> QED
      BY <2>3, <3>1, <3>2
  <2> QED
    BY <2>4, <2>5
<1>3. ASSUME NEW p \in Procs,
             \/ GetRefFails(p) \/ ReadCapabilities(p) \/ Lock(p) \/ Negotiate(p)
             \/ NegotiationFails(p) \/ Send(p) \/ Receive(p) \/ Reply(p) \/ GiveUp(p)
             \/ SilentReply(p)
      PROVE  CallsWell'
  BY <1>3 DEF GetRefFails, ReadCapabilities, Lock, Negotiate, NegotiationFails, Send, Receive,
              Reply, GiveUp, SilentReply, Use, Return, Goto
<1>4. ASSUME NEW u \in Updates, ReceiveLate(u)
      PROVE  CallsWell'
  BY <1>4 DEF ReceiveLate
<1>5. ASSUME NEW n \in Names, NEW v \in Values, OtherClient(n, v)
      PROVE  CallsWell'
  BY <1>5 DEF OtherClient
<1>6. CASE Upgrade \/ UNCHANGED vars
  BY <1>6 DEF Upgrade, vars
<1> QED
  BY <1>1, <1>2, <1>3, <1>4, <1>5, <1>6 DEF Next, Step

LEMMA AskingStep ==
    ASSUME TypeOK, Negotiation, Asking, [Next]_vars
    PROVE  Asking'
<1> USE DEF TypeOK, server, client, Asking
<1>0. negotiated => "report-status-v2" \in OrDefault(negotiatedCaps)
  BY NoDefault DEF Negotiation, NegotiatedWell, Retained
<1>1. ASSUME NEW p \in Procs, ReadCapabilities(p) \/ Lock(p)
      PROVE  Asking'
  BY <1>0, <1>1 DEF ReadCapabilities, Lock, SecondLook, Use, Goto
<1>2. ASSUME NEW p \in Procs, Negotiate(p)
      PROVE  Asking'
  <2> DEFINE common == IntersectCapabilities(OrDefault(receivePackCapabilities), advertised)
  <2>1. "report-status-v2" \in OrDefault(common)
    BY NoDefault DEF Retained
  <2> HIDE DEF common
  <2>2. /\ pc' = [pc EXCEPT ![p] = "send"] /\ caps' = [caps EXCEPT ![p] = OrDefault(common)]
        /\ UNCHANGED <<receivePackCapabilities, negotiateCaps>>
    BY <1>2 DEF Negotiate, Use, Goto, common
  <2> QED
    BY <2>1, <2>2
<1>3. ASSUME NEW p \in Procs,
             \/ GetRef(p) \/ GetRefFails(p) \/ NegotiationFails(p) \/ Send(p)
             \/ Receive(p) \/ Reply(p) \/ GiveUp(p) \/ SilentReply(p) \/ \E c \in Calls : Begin(p, c)
      PROVE  Asking'
  BY <1>3 DEF GetRef, Found, GetRefFails, NegotiationFails, Send, Receive, Reply, GiveUp,
              SilentReply, Begin, Return, Goto
<1>4. CASE \/ \E u \in Updates : ReceiveLate(u)
           \/ \E n \in Names, v \in Values : OtherClient(n, v)
           \/ Upgrade \/ UNCHANGED vars
  BY <1>4 DEF ReceiveLate, OtherClient, Upgrade, vars
<1> QED
  BY <1>1, <1>2, <1>3, <1>4 DEF Next, Step

Stages == [p \in Procs |-> Stage(p)]

\* A step of one goroutine moves its own stage.
LEMMA StageMoves ==
    ASSUME NEW p \in Procs, NEW s, Stage(p)' = s,
           \A q \in Procs \ {p} : pc'[q] = pc[q] /\ request'[q] = request[q]
    PROVE  Stages' = [Stages EXCEPT ![p] = s]
BY DEF Stages, Stage

LEMMA StageStays ==
    ASSUME \A q \in Procs : Stage(q)' = Stage(q)
    PROVE  Stages' = Stages
BY DEF Stages

\* A call that returns is at the end of its abstract call.
LEMMA Returns ==
    ASSUME TypeOK, NEW p \in Procs, NEW r, Return(p, r), UNCHANGED <<refs, call, request>>
    PROVE  AR!End(p, r)
<1>1. /\ pc' = [pc EXCEPT ![p] = "idle"] /\ result' = [result EXCEPT ![p] = r]
      /\ UNCHANGED <<refs, call, request>>
  BY DEF Return, Goto
<1>2. Stage(p)' = "idle"
  BY <1>1 DEF TypeOK, Stage
<1>3. Stages' = [Stages EXCEPT ![p] = "idle"]
  BY <1>1, <1>2, StageMoves DEF TypeOK
<1> QED
  BY <1>1, <1>3 DEF AR!End, Stages

LEMMA StepRefines ==
    ASSUME TypeOK, CallsWell, Asking, ReportsGuaranteed, [Next]_vars
    PROVE  [AR!Next]_AR!vars
<1> USE DEF TypeOK, server, client
<1>1. ASSUME NEW p \in Procs, NEW c \in Calls, Begin(p, c)
      PROVE  AR!Begin(p)
  <2>1. /\ pc[p] = "idle" /\ pc' = [pc EXCEPT ![p] = "lookup"]
        /\ call' = [call EXCEPT ![p] = c] /\ request' = [request EXCEPT ![p] = "none"]
        /\ result' = [result EXCEPT ![p] = "none"] /\ UNCHANGED <<refs, late>>
        /\ misled' = misled \ {p}
    BY <1>1 DEF Begin, Goto
  <2>2. Stages[p] = "idle" /\ Stage(p)' = "begun"
    BY <2>1 DEF Stages, Stage
  <2>3. Stages' = [Stages EXCEPT ![p] = "begun"]
    BY <2>1, <2>2, StageMoves
  <2>4. c \in [op : {"get", "create", "update", "delete"}, name : Names, new : AR!Values]
    BY DEF Calls, AR!Values
  <2> QED
    BY <2>1, <2>2, <2>3, <2>4 DEF AR!Begin, Stages
<1>2. ASSUME NEW p \in Procs, GetRef(p)
      PROVE  AR!Answer(p) \/ AR!Mislead(p) \/ UNCHANGED AR!vars
  <2> DEFINE op == call[p].op
  <2>1. pc[p] = "lookup" /\ request[p] = "none" /\ UNCHANGED <<refs, late, call, request>>
    BY <1>2 DEF GetRef, CallsWell, Phases
  <2>2. Stages[p] = "begun"
    BY <2>1 DEF Stages, Stage
  <2>3. op \in {"get", "create", "update", "delete"}
    BY CallTypes
  <2>4. ASSUME NEW v, Found(p, v), Answered(op, v)
        PROVE  \/ op = "create" /\ v # None /\ AR!End(p, "exists")
               \/ op # "create" /\ v = None /\ AR!End(p, "notFound")
               \/ op = "get" /\ v # None /\ AR!End(p, v)
    <3>1. AR!End(p, Answer(op, v))
      BY <2>1, <2>4, Returns DEF Found
    <3> QED
      BY <2>3, <2>4, <3>1 DEF Answered, Answer
  <2>5. ASSUME NEW v, Found(p, v), ~Answered(op, v), UNCHANGED misled
        PROVE  UNCHANGED AR!vars
    <3>1. pc' = [pc EXCEPT ![p] = "caps"] /\ UNCHANGED result
      BY <2>5 DEF Found, Goto
    <3>2. Stages' = Stages
      BY <2>1, <3>1, StageStays DEF Stage
    <3> QED
      BY <2>1, <2>5, <3>1, <3>2 DEF AR!vars, Stages
  <2>6. CASE Found(p, refs[call[p].name]) /\ UNCHANGED misled
    <3>1. CASE Answered(op, refs[call[p].name])
      BY <2>1, <2>2, <2>4, <2>6, <3>1 DEF AR!Answer, AR!Current, Stages
    <3>2. CASE ~Answered(op, refs[call[p].name])
      BY <2>5, <2>6, <3>2
    <3> QED
      BY <3>1, <3>2
  <2>7. CASE /\ Found(p, None)
             /\ misled' = IF Answered(op, None) THEN misled \cup {p} ELSE misled
    <3>1. CASE Answered(op, None)
      <4>1. op # "create" /\ AR!End(p, "notFound")
        BY <2>3, <2>4, <2>7, <3>1
      <4> QED
        BY <2>1, <2>2, <2>7, <3>1, <4>1 DEF AR!Mislead, Stages
    <3>2. CASE ~Answered(op, None)
      BY <2>5, <2>7, <3>2
    <3> QED
      BY <3>1, <3>2
  <2> QED
    BY <1>2, <2>6, <2>7 DEF GetRef
<1>3. ASSUME NEW p \in Procs, GetRefFails(p) \/ NegotiationFails(p)
      PROVE  AR!Fail(p)
  <2>1. /\ pc[p] \in {"lookup", "probe"} /\ Return(p, "error")
        /\ UNCHANGED <<refs, call, request, late, misled>>
    BY <1>3 DEF GetRefFails, NegotiationFails
  <2>2. Stages[p] = "begun"
    BY <2>1 DEF Stages, Stage, CallsWell, Phases
  <2> QED
    BY <2>1, <2>2, Returns DEF AR!Fail, AR!MayHappen, Stages
<1>4. ASSUME NEW p \in Procs,
             ReadCapabilities(p) \/ Lock(p) \/ Negotiate(p) \/ Send(p)
      PROVE  UNCHANGED AR!vars
  <2>1. /\ pc[p] \in {"caps", "lock", "probe", "send"}
        /\ \E x \in Phases \ {"idle"} : pc' = [pc EXCEPT ![p] = x]
        /\ request' = request \/ request' = [request EXCEPT ![p] = "sent"]
        /\ UNCHANGED <<refs, late, call, result, misled>>
    BY <1>4 DEF ReadCapabilities, Lock, Negotiate, Send, Use, Goto, Phases
  <2>2. request[p] = "none"
    BY <2>1 DEF CallsWell, Phases
  <2>3. Stages' = Stages
    BY <2>1, <2>2, StageStays DEF Stage
  <2> QED
    BY <2>1, <2>3 DEF AR!vars, Stages
<1>5. ASSUME NEW p \in Procs, Receive(p)
      PROVE  AR!Change(p) \/ UNCHANGED AR!vars
  <2>1. pc[p] = "wait" /\ request[p] = "sent" /\ UNCHANGED <<late, pc, call, result, misled>>
    BY <1>5 DEF Receive
  <2>2. CASE /\ refs[call[p].name] = oldRef[p] /\ refs' = Apply(Update(p))
             /\ request' = [request EXCEPT ![p] = "applied"]
    <3>1. AR!Agrees(call[p].op, refs[call[p].name])
      BY <2>1, <2>2 DEF CallsWell, Deciding
    <3>2. Stages[p] = "begun" /\ Stage(p)' = "changed"
      BY <2>1, <2>2 DEF Stages, Stage
    <3>3. Stages' = [Stages EXCEPT ![p] = "changed"]
      BY <2>1, <2>2, <3>2, StageMoves
    <3>4. refs' = [refs EXCEPT ![call[p].name] = call[p].new]
      BY <2>2 DEF Apply, Update
    <3> QED
      BY <2>1, <3>1, <3>2, <3>3, <3>4 DEF AR!Change, AR!Current, Stages
  <2>3. CASE request' = [request EXCEPT ![p] = "refused"] /\ UNCHANGED refs
    <3>1. Stages' = Stages
      BY <2>1, <2>3, StageStays DEF Stage
    <3> QED
      BY <2>1, <2>3, <3>1 DEF AR!vars, Stages
  <2> QED
    BY <1>5, <2>2, <2>3 DEF Receive
<1>6. ASSUME NEW p \in Procs, Reply(p)
      PROVE  AR!Succeed(p) \/ AR!Fail(p)
  <2>1. /\ pc[p] = "wait" /\ request[p] \in {"applied", "refused"}
        /\ Return(p, IF GoodReport(p) THEN "ok" ELSE "error")
        /\ UNCHANGED <<refs, call, request, late, misled>>
    BY <1>6 DEF Reply
  <2>2. Reports(p)
    BY <2>1 DEF Reports, Asking, ReportsGuaranteed
  <2>3. CASE request[p] = "applied"
    <3>1. AR!End(p, "ok") /\ Stages[p] = "changed"
      BY <2>1, <2>3, Returns DEF GoodReport, Stages, Stage
    <3> QED
      BY <2>1, <3>1 DEF AR!Succeed, Stages
  <2>4. CASE request[p] = "refused"
    <3>1. AR!End(p, "error") /\ Stages[p] = "begun"
      BY <2>1, <2>2, <2>4, Returns DEF GoodReport, Stages, Stage
    <3> QED
      BY <2>1, <3>1 DEF AR!Fail, AR!MayHappen, Stages
  <2> QED
    BY <2>1, <2>3, <2>4
<1>7. ASSUME NEW p \in Procs, GiveUp(p) \/ SilentReply(p)
      PROVE  AR!Fail(p) \/ AR!Mislead(p)
  <2>1. pc[p] = "wait" /\ Left(p) /\ UNCHANGED <<refs, call, request>>
    BY <1>7 DEF GiveUp, SilentReply
  <2>2. Stages[p] \in {"begun", "changed"} /\ (request[p] = "sent" => Stages[p] = "begun")
    BY <2>1 DEF Stages, Stage
  <2>3. AR!Agrees(call[p].op, oldRef[p]) /\ oldRef[p] \in AR!Values
    BY <2>1 DEF CallsWell, Deciding, Values, AR!Values
  <2>4. AR!MayHappen(p)
    <3>1. CASE UNCHANGED late
      BY <3>1 DEF AR!MayHappen
    <3>2. CASE request[p] = "sent" /\ late' = late \cup {Update(p)}
      BY <2>2, <2>3, <3>2 DEF AR!MayHappen, Stages, Update
    <3> QED
      BY <2>1, <3>1, <3>2 DEF Left
  <2>5. CASE GiveUp(p)
    <3>1. AR!End(p, "error") /\ UNCHANGED misled
      BY <2>1, <2>5, Returns DEF GiveUp
    <3> QED
      BY <2>2, <2>4, <3>1 DEF AR!Fail, Stages
  <2>6. CASE SilentReply(p)
    <3>1. AR!End(p, "ok") /\ misled' = misled \cup {p}
      BY <2>1, <2>6, Returns DEF SilentReply
    <3>2. call[p].op # "get"
      BY <2>3, CallTypes DEF AR!Agrees
    <3> QED
      BY <2>2, <2>4, <3>1, <3>2 DEF AR!Mislead, Stages
  <2> QED
    BY <1>7, <2>5, <2>6
<1>8. ASSUME NEW u \in Updates, ReceiveLate(u)
      PROVE  AR!HappenLate
  <2>1. Stages' = Stages
    BY <1>8, StageStays DEF ReceiveLate, Stage
  <2> QED
    BY <1>8, <2>1 DEF ReceiveLate, Apply, AR!HappenLate, Stages
<1>9. ASSUME NEW n \in Names, NEW v \in Values, OtherClient(n, v)
      PROVE  AR!Foreign
  <2>1. Stages' = Stages
    BY <1>9, StageStays DEF OtherClient, Stage
  <2> QED
    BY <1>9, <2>1 DEF OtherClient, Values, AR!Foreign, AR!Values, Stages
<1>10. CASE Upgrade \/ UNCHANGED vars
  <2>1. Stages' = Stages
    BY <1>10, StageStays DEF Upgrade, vars, Stage
  <2> QED
    BY <1>10, <2>1 DEF Upgrade, vars, AR!vars, Stages
<1> QED
  BY <1>1, <1>2, <1>3, <1>4, <1>5, <1>6, <1>7, <1>8, <1>9, <1>10 DEF Next, Step, AR!Next

LEMMA InitRefines == Init => AR!Init
<1> SUFFICES ASSUME Init
             PROVE  AR!Init
  OBVIOUS
<1>1. Stages = [p \in Procs |-> "idle"]
  BY DEF Init, Stages, Stage
<1>2. call \in [Procs -> Calls]
  BY SomeCall DEF Init
<1>3. Calls \subseteq [op : {"get", "create", "update", "delete"}, name : Names, new : AR!Values]
  BY DEF Calls, AR!Values
<1> QED
  BY <1>1, <1>2, <1>3 DEF Init, Values, AR!Init, AR!Values, Stages

\* Where refusals are reported, the calls of any number of goroutines, with failures
\* and late requests at any point, implement the atomic ones of AtomicRefs: but for
\* those that took half a list or half a report for a whole one, of which only the
\* effect is as promised and not what they say.
THEOREM Atomic == ReportsGuaranteed => (Spec => ImplementsAtomicRefs)
<1> SUFFICES ASSUME ReportsGuaranteed
             PROVE  Spec => ImplementsAtomicRefs
  OBVIOUS
<1> DEFINE Inv == TypeOK /\ Negotiation /\ CallsWell /\ Asking
<1>1. Init => Inv
  <2>1. Init => CallsWell
    BY DEF Init, CallsWell, Phases, Deciding
  <2>2. Init => Asking
    BY DEF Init, Asking, ReportsGuaranteed
  <2>3. Init => Negotiation
    BY DEF Init, Negotiation, NegotiatedWell, OneNegotiation, RequestsAgree
  <2> QED
    BY InitType, <2>1, <2>2, <2>3
<1>2. Inv /\ [Next]_vars => Inv'
  BY TypeStep, NegotiationStep, CallsStep, AskingStep
<1>3. Inv /\ [Next]_vars => [AR!Next]_AR!vars
  BY StepRefines
<1> HIDE DEF Inv
<1> QED
  BY <1>1, <1>2, <1>3, InitRefines, PTL DEF Spec, AR!Spec, ImplementsAtomicRefs

=============================================================================
