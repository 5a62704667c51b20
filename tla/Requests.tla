------------------------------- MODULE Requests -------------------------------
(***************************************************************************)
(* The questions that a client asks a server over HTTP: CanRead, CanWrite, *)
(* IsServerCompatible, FetchReceivePackCapabilities and ListRefs.  Each is  *)
(* one request through rawClient.do: the attempts of retry.Do, the check    *)
(* for a server that is unavailable, the status, and what is made of the    *)
(* body (protocol/client, retry, protocol/lsrefs.go).                       *)
(*                                                                         *)
(* What a server answers and how it is read is in ServerAnswers.  How long *)
(* the waits between attempts last is left out: only that they end.        *)
(***************************************************************************)
EXTENDS ServerAnswers

CONSTANTS
    Calls,       \* a subset of {"CanRead", "CanWrite", "Compatible", "Capabilities", "ListRefs"}
    Retriers     \* MaxAttemptsValue of the backoff retriers; 1 is the NoopRetrier

VARIABLES
    retrier,
    pc,          \* "attempt", "decide", "wait", "answered", "done"
    attempt,     \* the number of the attempt in retry.Do, from 1
    unsent,      \* has nothing read the body of the request yet?
    open,        \* the attempts whose response has a body that is not closed
    cancelled    \* has the context ended?

vars == <<host, call, retrier, pc, attempt, unsent, last, open, cancelled, read,
          outcome, value>>

CallsAssumption ==
    Calls \subseteq {"CanRead", "CanWrite", "Compatible", "Capabilities", "ListRefs"}
ASSUME CallsAssumption
RetriersAssumption == Retriers \subseteq Int
ASSUME RetriersAssumption

-----------------------------------------------------------------------------
(* The attempts.                                                           *)
MaxAttempts == IF retrier <= 0 THEN 3 ELSE retrier

Unavailable == {"429", "500", "501"}     \* CheckServerUnavailable: 429, and 500 and above
Errors == {"timeout", "deadline", "network", "canceled"}
\* isRetryableOperation, then ShouldRetry of the backoff retrier: of the errors only a
\* timeout that is no deadline of a context.
ShouldRetry(what) ==
    \/ what = "429"
    \/ what = "500" /\ Method \in {"GET", "DELETE"}
    \/ what = "timeout"

Init ==
    /\ host \in Servers /\ call \in Calls /\ retrier \in Retriers
    /\ pc = "attempt" /\ attempt = 1
    /\ unsent = TRUE /\ last = "none" /\ open = {} /\ cancelled = FALSE
    /\ read = Whole(<<>>)
    /\ outcome = "none" /\ value = <<>>

asked == <<host, call, retrier>>

\* client.Do.  A response has read the whole body of the request, an error may have; a
\* request whose body is gone fails for its length.
Answers == {Status} \cup (Mishaps \cap ({"400", "429", "500", "501"} \cup Errors))
Attempt ==
    /\ pc = "attempt"
    /\ last' \in IF cancelled THEN {"canceled"}
                 ELSE IF Method = "POST" /\ ~unsent THEN {"network"} ELSE Answers
    /\ unsent' \in IF last' \in Errors THEN {FALSE, unsent} ELSE {FALSE}
    /\ open' = IF last' \in Errors THEN open ELSE open \cup {attempt}
    /\ pc' = IF last' \in Errors \cup Unavailable THEN "decide" ELSE "answered"
    /\ UNCHANGED <<asked, attempt, cancelled, read, outcome, value>>

\* do closes the response of a server that is unavailable.
Closed(bodies) == bodies \ {attempt}

Return(how, what) == /\ pc' = "done" /\ outcome' = how /\ value' = what

\* retry.Do, after an attempt that failed.
Decide ==
    /\ pc = "decide"
    /\ open' = Closed(open)
    /\ \/ /\ MaxAttempts <= 1 \/ ~ShouldRetry(last) \/ attempt = MaxAttempts
          /\ Return("error", <<last>>)
       \/ /\ ShouldRetry(last) /\ attempt < MaxAttempts
          /\ pc' = "wait" /\ UNCHANGED <<outcome, value>>
    /\ UNCHANGED <<asked, attempt, unsent, last, cancelled, read>>

\* Wait: the timer, or the end of the context.
Wait ==
    /\ pc = "wait"
    /\ \/ /\ attempt' = attempt + 1 /\ pc' = "attempt"
          /\ UNCHANGED <<outcome, value>>
       \/ /\ cancelled /\ Return("error", <<"canceled">>)
          /\ UNCHANGED attempt
    /\ UNCHANGED <<asked, unsent, last, open, cancelled, read>>

Cancel ==
    /\ "cancel" \in Mishaps /\ pc # "done" /\ ~cancelled
    /\ cancelled' = TRUE
    /\ UNCHANGED <<asked, pc, attempt, unsent, last, open, read, outcome, value>>

-----------------------------------------------------------------------------
(* The answer.                                                             *)
\* CheckHTTPClientError
CheckHTTPClientError(status) ==
    CASE status = "401" -> "unauthorized"
      [] status = "403" -> "permissionDenied"
      [] status = "404" -> "notFound"
      [] OTHER -> "status"

\* SmartInfo reads no body; CanRead and CanWrite take two errors for a no.
Refused ==
    /\ last # "200"
    /\ IF call \in {"CanRead", "CanWrite"}
              /\ CheckHTTPClientError(last) \in {"unauthorized", "permissionDenied"}
       THEN Return("ok", <<"no">>)
       ELSE Return("error", <<CheckHTTPClientError(last)>>)
    /\ UNCHANGED read

Granted ==
    /\ last = "200" /\ call \in {"CanRead", "CanWrite"}
    /\ Return("ok", <<"yes">>)
    /\ UNCHANGED read

Parse ==
    /\ last = "200" /\ call \notin {"CanRead", "CanWrite"}
    /\ read' \in Readings
    /\ Return(IF Parsed(read') \in Failures THEN "error" ELSE "ok", Parsed(read'))

\* Every way out closes the body.  (Mutant: only a body that was understood is closed.)
ClosedIfOk == IF outcome' = "ok" THEN open \ {attempt} ELSE open
ClosedAtEnd == open \ {attempt}

Answered ==
    /\ pc = "answered"
    /\ Refused \/ Granted \/ Parse
    /\ open' = ClosedAtEnd
    /\ UNCHANGED <<asked, attempt, unsent, last, cancelled>>

Client == Attempt \/ Decide \/ Wait \/ Answered
Next == Client \/ Cancel

Spec == Init /\ [][Next]_vars
\* The client's code goes on: HTTP answers or fails, timers fire.
FairSpec == Spec /\ WF_vars(Client)

-----------------------------------------------------------------------------
(* Properties.                                                             *)
\* Every call returns, after at most MaxAttempts attempts of which no response is left
\* open, however it ends (retry.Do, rawClient.do and the callers' deferred closes).
EndsClosed == <>[](pc = "done" /\ open = {} /\ attempt <= MaxAttempts)
=============================================================================
