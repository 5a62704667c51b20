---------------------------- MODULE TreeCollection ----------------------------
(***************************************************************************)
(* How GetFlatTree collects the trees of a commit (fetchAllTreeObjects and *)
(* flatten of tree.go) through a storage of objects that may be shared     *)
(* with other operations, from servers that send more or less than they    *)
(* are asked for.                                                          *)
(*                                                                         *)
(* Data abstraction.  An object is the commit or a tree; blobs do not      *)
(* matter.  Of a tree only the directories among its entries matter.       *)
(***************************************************************************)
EXTENDS Naturals, FiniteSets, Sequences, SequencesExt

CONSTANTS
    Trees,               \* the trees of the repository
    Root,                \* the tree of the commit
    Kids,                \* the directories in every tree
    Commit,              \* the commit that is asked for
    BatchSize,           \* trees in one request of the batch phase
    CompletionBatchSize, \* trees in one request of the completion phase
    MaxRetries,
    MaxBatches,
    Shared,              \* may the caller's context hold a storage?
    Faults,              \* "lean": the server sends what it is asked for, but
                         \*         not all that can be reached from there
                         \* "omits": it leaves out what it is asked for
                         \* "breaks": a request fails
                         \* "evicts": the shared storage forgets an object
    MaxCalls,            \* bound: calls of GetFlatTree
    MaxForeign           \* bound: changes of the shared storage by others

VARIABLES
    shared,    \* does the context hold a storage?
    cache,     \* the objects in the storage (allObjects)
    pc,
    received,  \* trees of the last response that are yet to be examined
    pending, retries, retryCount,
    requestedHashes, processedTrees,
    batchNumber,
    missing,   \* the trees that verifyTreeCompleteness found missing
    walk,      \* the trees that flatten is yet to traverse
    calls, foreign

VARIABLES  \* history; the program has no such state
    start,     \* the storage when the call came to its first request
    blame      \* the faults met in this call, and "others" if other operations
               \* stored something meanwhile

job  == <<pending, retries, retryCount, requestedHashes, processedTrees, batchNumber>>
vars == <<shared, cache, pc, received, job, missing, walk, calls, foreign, start, blame>>

Objects == Trees \cup {Commit}
Phases  == {"idle", "commit", "root", "batch", "complete", "flatten", "done", "failed"}
Running == Phases \ {"idle", "done", "failed"}

ASSUME TreesAssumption ==
    /\ IsFiniteSet(Trees) /\ Root \in Trees /\ Commit \notin Trees
    /\ Kids \in [Trees -> SUBSET Trees]
ASSUME NumbersAssumption ==
    /\ {BatchSize, CompletionBatchSize} \subseteq Nat \ {0}
    /\ {MaxRetries, MaxBatches, MaxCalls, MaxForeign} \subseteq Nat
ASSUME FaultsAssumption ==
    /\ Shared \in BOOLEAN
    /\ Faults \subseteq {"lean", "omits", "breaks", "evicts"}

-----------------------------------------------------------------------------
\* The trees that a walk from the trees in from comes upon when it descends
\* into the trees in known only.
Closed(S, known) == \A t \in S \cap known : Kids[t] \subseteq S
Reached(from, known) ==
    {t \in Trees : \A S \in SUBSET Trees : from \subseteq S /\ Closed(S, known) => t \in S}

\* verifyTreeCompleteness.  (Mutant: it looks at the root's own entries.)
GapsBelowRoot == Kids[Root] \ cache
Gaps == Reached({Root}, cache) \ cache

(***************************************************************************)
(* What the server has for a request, the least it sends if it honours the *)
(* request, and how far a response R falls short.                          *)
(***************************************************************************)
Below         == [t \in Trees |-> Reached({t}, Trees)]
Least(want)   == want \cup (IF Commit \in want THEN {Root} ELSE {})
Offered(want) == want \cup UNION {Below[t] : t \in Least(want) \cap Trees}
Departure(want, R) ==
    IF R = Offered(want) THEN {}
    ELSE IF Least(want) \subseteq R THEN {"lean"} ELSE {"omits"}

\* Fetch asks for what the storage does not have, and not at all if it has
\* everything.
Wanted(want) == want \ cache
Responses(want) ==
    IF Wanted(want) = {} THEN {{}}
    ELSE {R \in SUBSET Offered(Wanted(want)) : Departure(Wanted(want), R) \subseteq Faults}

\* The objects of a response enter the storage, and the result holds them and
\* the objects that were in the storage.
Store(want, R) ==
    /\ cache' = cache \cup R
    /\ blame' = blame \cup (IF Wanted(want) = {} THEN {} ELSE Departure(Wanted(want), R))
Got(want, R) == R \cup (want \cap cache)

\* A request fails, perhaps in the middle of the response.
Break(want) ==
    /\ "breaks" \in Faults /\ Wanted(want) # {}
    /\ \E R \in SUBSET Offered(Wanted(want)) : cache' = cache \cup R
    /\ blame' = blame \cup {"breaks"}
    /\ pc' = "failed"
    /\ received' = {}

-----------------------------------------------------------------------------
Init ==
    /\ shared \in {FALSE, Shared}
    /\ cache = {}
    /\ pc = "idle"
    /\ received = {}
    /\ pending = <<>> /\ retries = <<>> /\ retryCount = [t \in Trees |-> 0]
    /\ requestedHashes = {} /\ processedTrees = {} /\ batchNumber = 0
    /\ missing = {}
    /\ walk = <<>>
    /\ calls = 0 /\ foreign = 0
    /\ start = {} /\ blame = {}

\* GetFlatTree: without a storage in the context, the call has one of its own.
GetFlatTree ==
    /\ pc \notin Running
    /\ calls < MaxCalls
    /\ calls' = calls + 1
    /\ cache' = IF shared THEN cache ELSE {}
    /\ pc' = "commit"
    /\ received' = {}
    /\ pending' = <<>> /\ retries' = <<>> /\ retryCount' = [t \in Trees |-> 0]
    /\ requestedHashes' = {} /\ processedTrees' = {} /\ batchNumber' = 0
    /\ missing' = {}
    /\ walk' = <<>>
    /\ start' = {} /\ blame' = {}
    /\ UNCHANGED <<shared, foreign>>

\* fetchInitialCommitObjects
FetchCommit ==
    /\ pc = "commit"
    /\ start' = cache
    /\ \/ \E R \in Responses({Commit}) :
              /\ Store({Commit}, R)
              /\ IF Commit \in Got({Commit}, R)
                 THEN pc' = "root" /\ received' = R \cap Trees
                 ELSE pc' = "failed" /\ received' = {}
       \/ Break({Commit})
    /\ UNCHANGED <<shared, job, missing, walk, calls, foreign>>

\* findRootTree; what the commit's response brought is examined next.
FindRoot ==
    /\ pc = "root"
    /\ IF {Commit, Root} \subseteq cache
       THEN pc' = "batch" /\ UNCHANGED received
       ELSE pc' = "failed" /\ received' = {}
    /\ UNCHANGED <<shared, cache, job, missing, walk, calls, foreign, start, blame>>

(***************************************************************************)
(* collectMissingTreeHashes, one tree of the response at a time: they come *)
(* in the order of a Go map, and others may use the storage meanwhile.     *)
(***************************************************************************)
\* (Mutant: children are queued again whenever they are missing.)
Unqueued(ts) == ts
Unrequested(ts) == ts \ requestedHashes

Examine(t) ==
    LET absent == Kids[t] \ cache
        fresh  == Unrequested(absent)
    IN  /\ pc = "batch" /\ t \in received
        /\ received' = received \ {t}
        /\ IF t \in processedTrees
           THEN UNCHANGED <<pending, requestedHashes, processedTrees>>
           ELSE /\ \E queued \in SetToSeqs(fresh) : pending' = pending \o queued
                /\ requestedHashes' = requestedHashes \cup fresh
                /\ processedTrees' = IF absent = {} \/ fresh # {}
                                     THEN processedTrees \cup {t} ELSE processedTrees
        /\ UNCHANGED <<shared, cache, pc, retries, retryCount, batchNumber, missing,
                       walk, calls, foreign, start, blame>>

(***************************************************************************)
(* One turn of processPendingTreeBatches: prepareBatch takes from the      *)
(* retries, or else from the pending hashes; handleMissingObjects counts   *)
(* those that did not come, and queues them again unless requestedHashes   *)
(* has them (their order in the batch is left open).                       *)
(***************************************************************************)
\* (Mutants: what does not fit in the batch is dropped; one batch too many.)
First(s) == SubSeq(s, 1, IF Len(s) > BatchSize THEN BatchSize ELSE Len(s))
Dropped(s) == <<>>
Rest(s)  == SubSeq(s, Len(First(s)) + 1, Len(s))
WithinLimitOnce == batchNumber <= MaxBatches
WithinLimit == batchNumber < MaxBatches

SendBatch ==
    LET batch == IF retries # <<>> THEN First(retries) ELSE First(pending)
        want  == ToSet(batch)
    IN  /\ pc = "batch" /\ received = {}
        /\ retries # <<>> \/ pending # <<>>
        /\ WithinLimit
        /\ batchNumber' = batchNumber + 1
        /\ pending' = IF retries # <<>> THEN pending ELSE Rest(pending)
        /\ \/ \E R \in Responses(want) :
                  LET lost == want \ Got(want, R)
                  IN  /\ Store(want, R)
                      /\ retryCount' = [h \in Trees |->
                             IF h \in lost THEN retryCount[h] + 1 ELSE retryCount[h]]
                      /\ \E again \in SetToSeqs(Unrequested(lost)) :
                             retries' = Rest(retries) \o again
                      /\ requestedHashes' = requestedHashes \cup lost \cup ToSet(pending')
                      /\ IF \E h \in lost : retryCount'[h] > MaxRetries
                         THEN pc' = "failed" /\ received' = {}
                         ELSE UNCHANGED pc /\ received' = Got(want, R) \cap Trees
           \/ Break(want) /\ UNCHANGED <<retries, retryCount, requestedHashes>>
        /\ UNCHANGED <<shared, processedTrees, missing, walk, calls, foreign, start>>

\* The limit that ends the loop.
TooManyBatches ==
    /\ pc = "batch" /\ received = {}
    /\ retries # <<>> \/ pending # <<>>
    /\ ~WithinLimit
    /\ pc' = "failed"
    /\ UNCHANGED <<shared, cache, received, job, missing, walk, calls, foreign, start, blame>>

-----------------------------------------------------------------------------
StartWalk == SetToSeqs(Kids[Root])

\* The first verifyTreeCompleteness.
Verify ==
    /\ pc = "batch" /\ received = {}
    /\ retries = <<>> /\ pending = <<>>
    /\ missing' = Gaps
    /\ IF missing' = {}
       THEN pc' = "flatten" /\ walk' \in StartWalk
       ELSE pc' = "complete" /\ UNCHANGED walk
    /\ UNCHANGED <<shared, cache, received, job, calls, foreign, start, blame>>

\* One request of completeMissingTrees.
Complete ==
    /\ pc = "complete"
    /\ \E want \in SUBSET missing :
           /\ want # {} /\ Cardinality(want) <= CompletionBatchSize
           /\ want = missing \/ Cardinality(want) = CompletionBatchSize
           /\ missing' = missing \ want
           /\ \/ \E R \in Responses(want) : Store(want, R) /\ UNCHANGED <<pc, received>>
              \/ Break(want)
    /\ UNCHANGED <<shared, job, walk, calls, foreign, start>>

\* The second verifyTreeCompleteness.  (Mutant: it starts over as long as trees
\* are missing.)
AfterGapsAgain(still) == UNCHANGED pc /\ missing' = still
AfterGaps(still) == pc' = "failed" /\ UNCHANGED missing

VerifyAgain ==
    /\ pc = "complete" /\ missing = {}
    /\ IF Gaps = {}
       THEN pc' = "flatten" /\ walk' \in StartWalk /\ UNCHANGED missing
       ELSE AfterGaps(Gaps) /\ UNCHANGED walk
    /\ UNCHANGED <<shared, cache, received, job, calls, foreign, start, blame>>

(***************************************************************************)
(* flatten goes down the trees, depth first; the root is at hand.  A tree  *)
(* that is not in the storage is fetched on its own; Fetch stops reading   *)
(* once it has the tree (NoExtraObjects).                                  *)
(***************************************************************************)
Traverse ==
    LET t == Head(walk)
    IN  /\ pc = "flatten" /\ walk # <<>> /\ t \in cache
        /\ \E below \in SetToSeqs(Kids[t]) : walk' = below \o Tail(walk)
        /\ UNCHANGED <<shared, cache, pc, received, job, missing, calls, foreign, start, blame>>

FetchMissingTree ==
    LET t == Head(walk)
    IN  /\ pc = "flatten" /\ walk # <<>> /\ t \notin cache
        /\ \/ \E R \in SUBSET Offered({t}) :
                  /\ cache' = cache \cup R
                  /\ IF t \in R
                     THEN /\ \E below \in SetToSeqs(Kids[t]) : walk' = below \o Tail(walk)
                          /\ UNCHANGED <<pc, blame>>
                     ELSE /\ "omits" \in Faults
                          /\ pc' = "failed" /\ blame' = blame \cup {"omits"}
                          /\ UNCHANGED walk
                  /\ UNCHANGED received
           \/ Break({t}) /\ UNCHANGED walk
        /\ UNCHANGED <<shared, job, missing, calls, foreign, start>>

Flattened ==
    /\ pc = "flatten" /\ walk = <<>>
    /\ pc' = "done"
    /\ UNCHANGED <<shared, cache, received, job, missing, walk, calls, foreign, start, blame>>

-----------------------------------------------------------------------------
\* Another operation with the same storage fetches one object and stops there
\* (NoExtraObjects), as GetCommit and GetTree do.
OtherCaches(o) ==
    /\ shared /\ foreign < MaxForeign
    /\ o \notin cache
    /\ cache' = cache \cup {o}
    /\ foreign' = foreign + 1
    /\ blame' = blame \cup {"others"}
    /\ UNCHANGED <<shared, pc, received, job, missing, walk, calls, start>>

\* The shared storage forgets an object: Cleanup after a TTL, Delete, or the
\* policy of the caller's own storage.
Evict(o) ==
    /\ "evicts" \in Faults
    /\ shared /\ foreign < MaxForeign
    /\ o \in cache
    /\ cache' = cache \ {o}
    /\ foreign' = foreign + 1
    /\ blame' = blame \cup {"evicts"}
    /\ UNCHANGED <<shared, pc, received, job, missing, walk, calls, start>>

Step ==
    \/ FetchCommit \/ FindRoot
    \/ \E t \in Trees : Examine(t)
    \/ SendBatch \/ TooManyBatches
    \/ Verify \/ Complete \/ VerifyAgain
    \/ Traverse \/ FetchMissingTree \/ Flattened

Next ==
    \/ GetFlatTree
    \/ Step
    \/ \E o \in Objects : OtherCaches(o) \/ Evict(o)

Spec == Init /\ [][Next]_vars

\* The call goes on as long as it can: every request is answered or fails.
FairSpec == Spec /\ WF_vars(Step)

-----------------------------------------------------------------------------
TypeOK ==
    /\ shared \in BOOLEAN
    /\ cache \subseteq Objects /\ start \subseteq Objects
    /\ pc \in Phases
    /\ received \subseteq Trees
    /\ pending \in Seq(Trees) /\ retries \in Seq(Trees)
    /\ retryCount \in [Trees -> Nat]
    /\ requestedHashes \subseteq Trees /\ processedTrees \subseteq Trees
    /\ batchNumber \in 0 .. MaxBatches
    /\ missing \subseteq Trees
    /\ walk \in Seq(Trees)
    /\ calls \in 0 .. MaxCalls /\ foreign \in 0 .. MaxForeign
    /\ blame \subseteq {"lean", "omits", "breaks", "evicts", "others"}

\* A call whose storage loses nothing flattens the tree only when every tree of
\* the commit is there, so that the fetches of flatten, which the comment at
\* fetchMissingTreeObject says should not happen, do not happen.
CollectionComplete ==
    pc \in {"flatten", "done"} /\ "evicts" \notin blame => Reached({Root}, Trees) \subseteq cache

\* The call fails only for a cause: a fault; more batches than the limit; the
\* commit in the shared storage without its tree; or single trees that enter a
\* shared storage, from the server or from another operation, where the trees
\* below them are not looked for and one round of completion may not do.
FailsOnlyForCause ==
    pc = "failed" =>
        \/ blame \cap {"omits", "breaks", "evicts"} # {}
        \/ batchNumber = MaxBatches
        \/ shared /\ blame \cap {"lean", "others"} # {}
        \/ Commit \in start /\ Root \notin start

\* A batch asks for at least one tree that no earlier batch asked for: the loop
\* cannot spin, and the limit of batches is met by large trees only.
BatchesProgress == batchNumber + Len(retries) + Len(pending) <= Cardinality(requestedHashes)

\* Every call ends.
Terminates == (pc \in Running) ~> (pc \notin Running)

\* What others put into a shared storage makes no call fail: as
\* docs/architecture/storage.md:86 has it, objects are shared across operations.
SharingHarmless == pc = "failed" => blame \ {"others"} # {}

=============================================================================
