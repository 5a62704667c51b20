------------------------------ MODULE AtomicRefs ------------------------------
(***************************************************************************)
(* What the calls GetRef, CreateRef, UpdateRef and DeleteRef promise, for  *)
(* any number of goroutines and other clients: each happens at one moment  *)
(* between its beginning and its end, answers truly for that moment, and   *)
(* changes one reference or nothing.  A call that returns an error without *)
(* an answer may have made its change, or may leave it on its way: then it *)
(* can still happen, where the reference is as the call found it.          *)
(*                                                                         *)
(* A call can be misled by an answer that breaks off: it says "not found"  *)
(* or "ok" and neither has to be true.  Even so it changes one reference,  *)
(* in the way it was asked to, or nothing.                                 *)
(***************************************************************************)
CONSTANTS Procs, Names, Hashes, None

VARIABLES
    refs, call, stage, result, late,
    misled    \* the callers whose last call was answered by half an answer

vars == <<refs, call, stage, result, late, misled>>

Values  == Hashes \cup {None}
Updates == [name : Names, old : Values, new : Values]

Init ==
    /\ refs \in [Names -> Values]
    /\ stage = [p \in Procs |-> "idle"]
    /\ result = [p \in Procs |-> "none"]
    /\ call \in [Procs -> [op : {"get", "create", "update", "delete"}, name : Names, new : Values]]
    /\ late = {} /\ misled = {}

Current(p) == refs[call[p].name]

\* CreateRef wants no such reference, UpdateRef and DeleteRef want one.
Agrees(op, v) ==
    CASE op = "create" -> v = None
      [] op \in {"update", "delete"} -> v # None
      [] op = "get" -> FALSE

Begin(p) ==
    /\ stage[p] = "idle"
    /\ stage' = [stage EXCEPT ![p] = "begun"]
    /\ \E c \in [op : {"get", "create", "update", "delete"}, name : Names, new : Values] :
           call' = [call EXCEPT ![p] = c]
    /\ result' = [result EXCEPT ![p] = "none"]
    /\ misled' = misled \ {p}
    /\ UNCHANGED <<refs, late>>

\* The one moment of a call that changes something.
Change(p) ==
    /\ stage[p] = "begun"
    /\ Agrees(call[p].op, Current(p))
    /\ refs' = [refs EXCEPT ![call[p].name] = call[p].new]
    /\ stage' = [stage EXCEPT ![p] = "changed"]
    /\ UNCHANGED <<call, result, late, misled>>

End(p, r) ==
    /\ stage' = [stage EXCEPT ![p] = "idle"]
    /\ result' = [result EXCEPT ![p] = r]
    /\ UNCHANGED <<refs, call>>

Succeed(p) ==
    /\ stage[p] = "changed"
    /\ End(p, "ok")
    /\ UNCHANGED <<late, misled>>

\* The answers that change nothing.
Answer(p) ==
    /\ stage[p] = "begun"
    /\ \/ call[p].op = "create" /\ Current(p) # None /\ End(p, "exists")
       \/ call[p].op # "create" /\ Current(p) = None /\ End(p, "notFound")
       \/ call[p].op = "get" /\ Current(p) # None /\ End(p, Current(p))
    /\ UNCHANGED <<late, misled>>

\* What was not done yet may still happen.
MayHappen(p) ==
    \/ UNCHANGED late
    \/ /\ stage[p] = "begun"
       /\ \E v \in Values :
              /\ Agrees(call[p].op, v)
              /\ late' = late \cup {[name |-> call[p].name, old |-> v, new |-> call[p].new]}

Fail(p) ==
    /\ stage[p] \in {"begun", "changed"}
    /\ End(p, "error")
    /\ MayHappen(p)
    /\ UNCHANGED misled

\* Half a list, and half a report.
Mislead(p) ==
    /\ misled' = misled \cup {p}
    /\ \/ /\ stage[p] = "begun" /\ call[p].op # "create"
          /\ End(p, "notFound")
          /\ UNCHANGED late
       \/ /\ stage[p] \in {"begun", "changed"} /\ call[p].op # "get"
          /\ End(p, "ok")
          /\ MayHappen(p)

HappenLate ==
    \E u \in late :
        /\ late' = late \ {u}
        /\ refs' = IF refs[u.name] = u.old THEN [refs EXCEPT ![u.name] = u.new] ELSE refs
        /\ UNCHANGED <<call, stage, result, misled>>

Foreign ==
    /\ \E n \in Names, v \in Values : refs' = [refs EXCEPT ![n] = v]
    /\ UNCHANGED <<call, stage, result, late, misled>>

Next ==
    \/ \E p \in Procs : Begin(p) \/ Change(p) \/ Succeed(p) \/ Answer(p) \/ Fail(p) \/ Mislead(p)
    \/ HappenLate \/ Foreign

Spec == Init /\ [][Next]_vars

=============================================================================
