---------------------------- MODULE PushTransport -----------------------------
(***************************************************************************)
(* How one push travels: the goroutine of stagedWriter.Push that runs      *)
(* WritePackfile into a pipe, the HTTP client that reads the pipe, the     *)
(* retries of rawClient.do around it, and the server.  What the packfile   *)
(* holds and what the writer does with the outcome is in PackfileWriter    *)
(* and StagedWriter.                                                       *)
(*                                                                         *)
(* A request is named by <<call, attempt>>: the call of Push that sends it *)
(* and the attempt of retry.Do.  All attempts of a call read the one pipe. *)
(* The HTTP client is net/http: it reads and closes the body in a          *)
(* goroutine of its own, which may outlive the exchange.                   *)
(***************************************************************************)
EXTENDS Naturals, Sequences, FiniteSets

CONSTANTS
    Size,         \* the cells of a packfile with its reference update
    MaxAttempts,  \* of the Retrier; 1 is the NoopRetrier
    MaxCalls,     \* bound: calls of Push
    Faults        \* "429": a server or proxy turns requests away
                  \* "timeout": a network error that counts as a timeout
                  \* "network": any other, or the context is cancelled
                  \* "disk": WritePackfile fails
                  \* "silent": an answer with a good status ends before its
                  \* report, or inside it, where a packet ends

ASSUME NumbersAssumption ==
    Size \in Nat \ {0} /\ MaxAttempts \in Nat \ {0} /\ MaxCalls \in Nat \ {0}
ASSUME FaultsAssumption ==
    Faults \subseteq {"429", "timeout", "network", "disk", "silent"}

Calls    == 1 .. MaxCalls
Attempts == 1 .. MaxAttempts
Requests == Calls \X Attempts
Stream   == [i \in 1 .. Size |-> i]

VARIABLES
    \* Push and retry.Do
    calls,         \* the calls of Push that were begun
    attempt,       \* the attempt of the last one
    pc,            \* "idle", or in Push: "sending", "waiting", "failed",
                   \* "succeeded"; the last two wait for the goroutine
    results,       \* what every call returned
    \* the pipe of the last call, and the goroutine that writes into it
    written,       \* cells that were taken out of it
    readerClosed,
    goroutine,     \* "none", "writing", "done"
    \* requests: the client's side, the body's side, the server's side
    connected,     \* does the client wait for the answer?
    body,          \* "none", "reading", "ended", "closed"
    got,           \* the cells that the server received
    server,        \* "busy", "applied", "429", or "refused": a Git error or a
                   \* status that is an error
    silent,        \* the calls that took an answer without a report for a success
    branch         \* "old", the value every request expects, or "new"

pushVars == <<calls, attempt, pc, results>>
pipeVars == <<written, readerClosed, goroutine>>
vars     == <<pushVars, pipeVars, connected, body, got, server, silent,
                   branch>>

current == <<calls, attempt>>

Init ==
    /\ calls = 0 /\ attempt = 1 /\ pc = "idle"
    /\ results = [c \in Calls |-> "none"]
    /\ written = 0 /\ readerClosed = FALSE /\ goroutine = "none"
    /\ connected = [r \in Requests |-> FALSE]
    /\ body = [r \in Requests |-> "none"]
    /\ got = [r \in Requests |-> <<>>]
    /\ server = [r \in Requests |-> "busy"] /\ silent = {}
    /\ branch = "old"

-----------------------------------------------------------------------------
(***************************************************************************)
(* Push and retry.Do.                                                      *)
(***************************************************************************)
\* client.Do(req); req, and so its body, is the same in every attempt.
Send(r) ==
    /\ connected' = [connected EXCEPT ![r] = TRUE]
    /\ body' = [body EXCEPT ![r] = "reading"]
    /\ pc' = "sending"

Push ==
    /\ pc = "idle" /\ calls < MaxCalls
    /\ \A c \in Calls : results[c] # "ok"     \* HasObjects
    /\ calls' = calls + 1 /\ attempt' = 1
    /\ written' = 0 /\ readerClosed' = FALSE /\ goroutine' = "writing"
    /\ Send(<<calls + 1, 1>>)
    /\ UNCHANGED <<results, got, server, silent, branch>>

\* The client drops the connection; the transport closes the body when it
\* notices.
Leaves == connected' = [connected EXCEPT ![current] = FALSE]

\* pipeReader.Close().
Fail == pc' = "failed" /\ readerClosed' = TRUE

\* (Mutant: the status of the answer is enough, its report is not read.)
AnyAnswer  == server[current] \in {"applied", "refused"}
GoodReport == server[current] = "applied"

\* A good status with an empty answer, or with one that is cut off before it has
\* said of the request what is bad: parseReceivePackResponse misses "unpack ok"
\* only when it has seen something of a report, whether or not one was asked for.
\* The server did, or does, what it does.
SilentAnswer == "silent" \in Faults /\ server[current] # "429"

Succeed ==
    /\ pc = "sending"
    /\ \/ GoodReport /\ UNCHANGED silent
       \/ SilentAnswer /\ silent' = silent \cup {calls}
    /\ pc' = "succeeded"
    /\ UNCHANGED <<calls, attempt, results, pipeVars, connected, body, got, server, branch>>

\* ShouldRetry of temporaryErrorRetrier, for a POST, and of the backoff retrier.
Retryable == server[current] = "429" \/ "timeout" \in Faults

NotRetryable ==
    \/ server[current] = "refused"
    \/ body[current] = "closed"      \* the pipe was closed under the request
    \/ "network" \in Faults

\* (Mutant: one attempt more.)
OneMore == attempt <= MaxAttempts
AttemptsLeft == attempt < MaxAttempts

GiveUp ==
    /\ pc = "sending"
    /\ NotRetryable \/ (Retryable /\ ~AttemptsLeft)
    /\ Leaves /\ Fail
    /\ UNCHANGED <<calls, attempt, results, written, goroutine, body, got, server, silent,
                   branch>>

Backoff ==
    /\ pc = "sending" /\ Retryable /\ AttemptsLeft
    /\ Leaves
    /\ pc' = "waiting"
    /\ UNCHANGED <<calls, attempt, results, pipeVars, body, got, server, silent, branch>>

Resend ==
    /\ pc = "waiting"
    /\ attempt' = attempt + 1
    /\ Send(<<calls, attempt + 1>>)
    /\ UNCHANGED <<calls, results, pipeVars, got, server, silent, branch>>

CancelWait ==
    /\ pc = "waiting" /\ "network" \in Faults
    /\ Fail
    /\ UNCHANGED <<calls, attempt, results, written, goroutine, connected, body, got,
                   server, silent, branch>>

\* (Mutant: Push does not wait for the goroutine.)
NotJoined == TRUE
Joined == goroutine = "done"

Return ==
    /\ pc \in {"failed", "succeeded"} /\ Joined
    /\ results' = [results EXCEPT ![calls] = IF pc = "failed" THEN "err" ELSE "ok"]
    /\ pc' = "idle"
    /\ UNCHANGED <<calls, attempt, pipeVars, connected, body, got, server, silent,
                   branch>>

-----------------------------------------------------------------------------
(***************************************************************************)
(* The goroutine.  It closes its end of the pipe without an error, so that *)
(* what it did not write looks like the end of the request.  It fails only *)
(* after the reference update has gone out: there is a commit.  A Push     *)
(* without one is PushEmpty of StagedWriter.                               *)
(***************************************************************************)
\* (Mutant: it does not close its end.)
NoEnd == FALSE
PipeEnds == goroutine = "done"

AllTaken == written = Size \/ readerClosed

GoroutineEnds ==
    /\ goroutine = "writing"
    /\ AllTaken \/ ("disk" \in Faults /\ written > 0)
    /\ goroutine' = "done"
    /\ UNCHANGED <<pushVars, written, readerClosed, connected, body, got, server, silent,
                   branch>>

(***************************************************************************)
(* The transport's reading of a body.  The pipes of earlier calls are      *)
(* closed on both sides.                                                   *)
(***************************************************************************)
Reads(r) == body[r] = "reading" /\ r[1] = calls /\ ~readerClosed

\* A cell that is read for a connection which is gone is lost.
Feed(r) ==
    /\ Reads(r) /\ goroutine = "writing" /\ written < Size
    /\ written' = written + 1
    /\ got' = IF connected[r] THEN [got EXCEPT ![r] = Append(@, written + 1)] ELSE got
    /\ UNCHANGED <<pushVars, readerClosed, goroutine, connected, body, server, silent,
                   branch>>

\* RoundTrip closes the body when it was read to its end and when it failed;
\* a request that is cut short is worth nothing to the server.  After a silent
\* answer the exchange is over, and the transport may give up the body.
EndBody(r) ==
    /\ Reads(r) /\ PipeEnds /\ connected[r]
    /\ body' = [body EXCEPT ![r] = "ended"]
    /\ readerClosed' = TRUE
    /\ UNCHANGED <<pushVars, written, goroutine, connected, got, server, silent, branch>>

CloseBody(r) ==
    /\ body[r] = "reading"
    /\ ~connected[r] \/ ~Reads(r) \/ r[1] \in silent
    /\ body' = [body EXCEPT ![r] = "closed"]
    /\ got' = [got EXCEPT ![r] = <<>>]
    /\ readerClosed' = (readerClosed \/ r[1] = calls)
    /\ UNCHANGED <<pushVars, written, goroutine, connected, server, silent, branch>>

-----------------------------------------------------------------------------
(***************************************************************************)
(* The server.  It answers when it likes, and acts on a request whose body *)
(* ended properly, whether the client still waits or not.                  *)
(***************************************************************************)
\* Has the branch the value the request names?  That is ref.Hash, which no
\* call but a successful one changes.
\* (Mutant: the value the branch has.)
AnyValue == TRUE
Expected == branch = "old"

Answer(r, answer) ==
    /\ body[r] # "none" /\ server[r] = "busy"
    /\ server' = [server EXCEPT ![r] = answer]
    /\ UNCHANGED <<pushVars, pipeVars, connected, body, got, silent>>

Apply(r) ==
    /\ body[r] = "ended" /\ got[r] = Stream
    /\ Expected
    /\ Answer(r, "applied")
    /\ branch' = "new"

\* An answer without effect that nobody waits for is left out.
TurnAway(r) ==
    /\ connected[r]
    /\ Answer(r, "refused") \/ ("429" \in Faults /\ Answer(r, "429"))
    /\ UNCHANGED branch

-----------------------------------------------------------------------------
Transport(r) == Feed(r) \/ EndBody(r) \/ CloseBody(r)
Serve(r)     == Apply(r) \/ TurnAway(r)
Caller       == Succeed \/ GiveUp \/ Backoff \/ Resend \/ CancelWait \/ Return

Next ==
    \/ Push \/ Caller \/ GoroutineEnds
    \/ \E r \in Requests : Transport(r) \/ Serve(r)

Spec == Init /\ [][Next]_vars

(***************************************************************************)
(* The scheduler runs every goroutine that can run, the transport's        *)
(* included, and every request that was received is answered.  The library *)
(* sets no timeout: without this a Push may wait for ever.  Nobody has to  *)
(* push, and no fault has to happen.                                       *)
(***************************************************************************)
Concluded == pc = "sending" /\ (server[current] # "busy" \/ body[current] = "closed")

FairSpec ==
    /\ Spec
    /\ WF_vars(Concluded /\ (Succeed \/ GiveUp \/ Backoff)) /\ WF_vars(Resend \/ Return)
    /\ WF_vars(AllTaken /\ GoroutineEnds)
    /\ \A r \in Requests : WF_vars(Transport(r)) /\ WF_vars(body[r] = "ended" /\ Serve(r))

-----------------------------------------------------------------------------
TypeOK ==
    /\ calls \in 0 .. MaxCalls /\ attempt \in Attempts
    /\ pc \in {"idle", "sending", "waiting", "failed", "succeeded"}
    /\ results \in [Calls -> {"none", "ok", "err"}]
    /\ written \in 0 .. Size /\ readerClosed \in BOOLEAN
    /\ goroutine \in {"none", "writing", "done"}
    /\ connected \in [Requests -> BOOLEAN]
    /\ body \in [Requests -> {"none", "reading", "ended", "closed"}]
    /\ got \in [Requests -> Seq(1 .. Size)]
    /\ server \in [Requests -> {"busy", "applied", "refused", "429"}]
    /\ silent \subseteq Calls /\ branch \in {"old", "new"}
    \* Requests are begun in order, and the caller waits for the last only.
    /\ \A r \in Requests :
        /\ body[r] # "none" => r[1] <= calls /\ (r[1] = calls => r[2] <= attempt)
        /\ connected[r] => body[r] # "none"
    /\ pc \in {"sending", "waiting", "failed", "succeeded"} => calls # 0
    /\ pc = "waiting" => attempt < MaxAttempts

Applied == {r \in Requests : server[r] = "applied"}

\* writer.go:998: what Push reports as a success has happened: a request of
\* that very call moved the branch, whatever failed, was retried or came late;
\* unless an answer to the call was silent, which is a success to the code.
SuccessIsTrue ==
    \A c \in Calls : results[c] = "ok" =>
        (\E a \in Attempts : <<c, a>> \in Applied) \/ c \in silent

\* writer.go:999: ReceivePack has succeeded, "which means the remote has accepted
\* the push".
SuccessIsAcceptance ==
    \A c \in Calls : results[c] = "ok" => \E a \in Attempts : <<c, a>> \in Applied

\* However many calls and attempts carried them, the commits enter the branch
\* once; a request that a caller gave up may still be the one.
AppliedOnce == \A r, s \in Applied : r = s

\* writer.go:1001: between two calls of Push nothing works for the last one any
\* more.  The goroutine does not read the packfile writer, into which the caller
\* may stage again and which is not safe for concurrent use; and no request of
\* a call that failed, given up or not, can still take the packfile from its pipe.
QuietBetweenCalls ==
    pc = "idle" =>
        goroutine # "writing" /\ \A r \in Requests : Reads(r) => results[r[1]] = "ok"

\* Every Push that was begun returns, and every body the HTTP client was given
\* is closed, those of attempts that were given up included: no goroutine is
\* left blocked on a pipe that nobody reads, or that nobody writes.
ComesToRest == <>[](pc = "idle" /\ \A r \in Requests : body[r] # "reading")

\* docs/architecture/retry.md:290: a request turned away with 429 can be sent
\* again.  So if all else works, a Push can only fail because the server turned
\* away or refused its last attempt, or received all of it.
RetriesAreWhole ==
    \A c \in Calls, a \in Attempts :
        /\ results[c] = "err"
        /\ body[<<c, a>>] # "none"
        /\ a < MaxAttempts => body[<<c, a + 1>>] = "none"
        => server[<<c, a>>] # "busy" \/ got[<<c, a>>] = Stream

=============================================================================
