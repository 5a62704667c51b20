---------------------------------- MODULE Clone ----------------------------------
(***************************************************************************)
(* One call of Clone (clone.go): the tree is filtered, its blobs are       *)
(* fetched one by one or in batches, in sequence or by an errgroup, and    *)
(* written to a directory that may hold files already.                     *)
(*                                                                         *)
(* Data abstraction.  A blob's content is its hash.  A file that could be  *)
(* written in part only is "torn".  Fetches (fetch.go) and the commit with *)
(* its tree (tree.go) are one step each; a fetch that finds everything in  *)
(* the storage of the context succeeds even if the context is cancelled.   *)
(***************************************************************************)
EXTENDS PathPatterns, Integers, FiniteSets

CONSTANTS
    Calls,    \* records: tree (the entries of the flat tree), include, exclude, batchSize,
              \* concurrency
    Caches,   \* the sets of hashes that the storage of the context may hold
    Disks,    \* what the directory may hold: functions from paths to contents
    Faults    \* "lookup": no hash, no path, or no commit or tree; "mkdir"; "disk": a file
              \* cannot be written; "fetch": a request fails; "lacks": a response without
              \* all that was asked for

VARIABLES
    pc,
    call, cached,
    before,      \* history: the directory as the call found it
    disk,
    jobs,        \* blobs or batches, the order of their submission
    next,        \* the next one to submit
    at,          \* where each of them is
    todo,        \* the entries it has still to write
    got,         \* the blobs of its batch that the response held
    missing,     \* the entries whose blobs it did not
    failed,      \* has any of them failed?
    result

\* No path is in a tree twice.
ASSUME CallsAssumption ==
    \A c \in Calls :
        /\ c.batchSize \in Int
        /\ \A i, j \in DOMAIN c.tree : c.tree[i].path = c.tree[j].path => i = j
ASSUME DisksAssumption == \A d \in Disks : d = [p \in DOMAIN d |-> d[p]]

vars == <<pc, call, cached, before, disk, jobs, next, at, todo, got, missing, failed, result>>
inputs == <<call, cached, before>>
work == <<at, todo, got, missing, failed>>

-----------------------------------------------------------------------------
\* filterTree, and the entries that writeFilesToDisk keeps.
FilterTree(c) ==
    SelectSeq(c.tree, LAMBDA e : ShouldIncludePath(e.path, c.include, c.exclude))
BlobEntries(c) == SelectSeq(FilterTree(c), LAMBDA e : e.type = "blob")

\* writeFilesInBatches: the last batch may be shorter.  (Mutant: it is forgotten.)
Batched(c) == c.batchSize > 1
Size(c) == IF Batched(c) THEN c.batchSize ELSE 1
WholeBatches(c) ==
    [i \in 1 .. Len(BlobEntries(c)) \div Size(c) |->
        SubSeq(BlobEntries(c), (i - 1) * Size(c) + 1, i * Size(c))]
Batches(c) ==
    LET n == Len(BlobEntries(c))
    IN  [i \in 1 .. (n + Size(c) - 1) \div Size(c) |->
            SubSeq(BlobEntries(c), (i - 1) * Size(c) + 1, IF i * Size(c) < n THEN i * Size(c) ELSE n)]

Concurrent == call.concurrency > 1
Jobs == DOMAIN jobs
\* (Mutant: a goroutine that has ended keeps its place in the group.)
Started == {j \in Jobs : at[j] # "queued"}
Running == {j \in Jobs : at[j] \notin {"queued", "ended"}}
\* errgroup.WithContext: the first error cancels the context of all.
Cancelled == Concurrent /\ failed

Init ==
    /\ pc = "clone"
    /\ call \in Calls /\ cached \in Caches /\ before \in Disks /\ disk = before
    /\ jobs = <<>> /\ next = 1
    /\ at = <<>> /\ todo = <<>> /\ got = <<>> /\ missing = <<>>
    /\ failed = FALSE /\ result = "none"

\* Clone up to the blobs: the commit, its tree, the options, the directory itself.
Begin ==
    /\ pc = "clone"
    /\ \/ /\ pc' = "work" /\ jobs' = Batches(call)
          /\ at' = [j \in DOMAIN jobs' |-> "queued"] /\ todo' = jobs'
          /\ got' = [j \in DOMAIN jobs' |-> {}] /\ missing' = [j \in DOMAIN jobs' |-> <<>>]
          /\ UNCHANGED result
       \/ /\ {"lookup", "mkdir"} \cap Faults # {}
          /\ pc' = "done" /\ result' = "error"
          /\ UNCHANGED <<jobs, at, todo, got, missing>>
    /\ UNCHANGED <<inputs, disk, next, failed>>

\* The loops over the entries or the batches: in sequence only until one fails, and g.Go
\* waits for a goroutine to end when there are as many as SetLimit allows.
Limit == IF Concurrent THEN call.concurrency ELSE 1
Submit ==
    /\ pc = "work" /\ next <= Len(jobs)
    /\ Cardinality(Running) < Limit
    /\ ~Concurrent => ~failed
    /\ next' = next + 1
    /\ at' = [at EXCEPT ![next] = IF Batched(call) THEN "batch" ELSE "each"]
    /\ UNCHANGED <<pc, inputs, disk, jobs, todo, got, missing, failed, result>>

Fail(j) ==
    /\ at' = [at EXCEPT ![j] = "ended"]
    /\ failed' = TRUE

\* Fetch, by fetchBlobBatch or GetBlob.
Fetchable(hashes) == ~Cancelled \/ hashes \subseteq cached
MayFail(hashes) == ~(hashes \subseteq cached) /\ (Cancelled \/ "fetch" \in Faults)

\* fetchBlobBatch
Hashes(j) == {jobs[j][i].hash : i \in DOMAIN jobs[j]}
FetchBlobBatch(j) ==
    /\ at[j] = "batch"
    /\ \/ \E some \in SUBSET Hashes(j) :
              /\ Fetchable(Hashes(j)) /\ Hashes(j) \cap cached \subseteq some
              /\ some # Hashes(j) => "lacks" \in Faults
              /\ got' = [got EXCEPT ![j] = some]
              /\ at' = [at EXCEPT ![j] = "found"]
              /\ UNCHANGED failed
       \/ MayFail(Hashes(j)) /\ Fail(j) /\ UNCHANGED got
    /\ UNCHANGED <<pc, inputs, disk, jobs, next, todo, missing, result>>

\* The directory after a file's content was replaced.
WithFile(path, content) ==
    [q \in DOMAIN disk \cup {path} |-> IF q = path THEN content ELSE disk[q]]

\* os.WriteFile, after os.MkdirAll of the file's directory where the caller has not yet
\* made it.
Write(j, e, then) ==
    \/ /\ disk' = WithFile(e.path, e.hash)
       /\ at' = [at EXCEPT ![j] = then]
       /\ todo' = [todo EXCEPT ![j] = Tail(@)]
       /\ UNCHANGED failed
    \/ /\ "disk" \in Faults
       /\ disk' \in {disk, WithFile(e.path, "torn")}
       /\ Fail(j) /\ UNCHANGED todo

\* processSingleBlobBatch: the blobs of the response first.
WriteFound(j) ==
    LET e == Head(todo[j])
    IN  /\ at[j] = "found" /\ todo[j] # <<>>
        /\ \/ e.hash \in got[j] /\ Write(j, e, "found") /\ UNCHANGED missing
           \/ /\ e.hash \notin got[j]
              /\ missing' = [missing EXCEPT ![j] = Append(@, e)]
              /\ todo' = [todo EXCEPT ![j] = Tail(@)]
              /\ UNCHANGED <<disk, at, failed>>
        /\ UNCHANGED <<pc, inputs, jobs, next, got, result>>

\* Then those it lacked.  (Mutant: they are left to nobody.)
NoFallback(j) == <<>>
Fallback(j) == missing[j]
FoundDone(j) ==
    /\ at[j] = "found" /\ todo[j] = <<>>
    /\ todo' = [todo EXCEPT ![j] = Fallback(j)]
    /\ at' = [at EXCEPT ![j] = "each"]
    /\ UNCHANGED <<pc, inputs, disk, jobs, next, got, missing, failed, result>>

\* writeFile, and the goroutine of writeFilesIndividually: the directory, GetBlob, the file.
GetBlob(j) ==
    LET e == Head(todo[j])
    IN  /\ at[j] = "each" /\ todo[j] # <<>>
        /\ \/ Fetchable({e.hash}) /\ at' = [at EXCEPT ![j] = "write"] /\ UNCHANGED failed
           \/ ("mkdir" \in Faults \/ MayFail({e.hash})) /\ Fail(j)
        /\ UNCHANGED <<pc, inputs, disk, jobs, next, todo, got, missing, result>>
WriteFile(j) ==
    /\ at[j] = "write"
    /\ Write(j, Head(todo[j]), "each")
    /\ UNCHANGED <<pc, inputs, jobs, next, got, missing, result>>

EndJob(j) ==
    /\ at[j] = "each" /\ todo[j] = <<>>
    /\ at' = [at EXCEPT ![j] = "ended"]
    /\ UNCHANGED <<pc, inputs, disk, jobs, next, todo, got, missing, failed, result>>

\* g.Wait, or the end of the loop.
Finished == Running = {} /\ (next > Len(jobs) \/ (failed /\ ~Concurrent))
Return ==
    /\ pc = "work" /\ Finished
    /\ pc' = "done" /\ result' = IF failed THEN "error" ELSE "ok"
    /\ UNCHANGED <<inputs, disk, jobs, next, work>>

JobStep(j) ==
    FetchBlobBatch(j) \/ WriteFound(j) \/ FoundDone(j) \/ GetBlob(j) \/ WriteFile(j) \/ EndJob(j)
Next == Begin \/ Submit \/ Return \/ \E j \in Jobs : JobStep(j)
Spec == Init /\ [][Next]_vars

\* Goroutines run, and requests and writes end, with or without success.
FairSpec == Spec /\ WF_vars(Next)

-----------------------------------------------------------------------------
(* Properties.                                                             *)
TypeOK ==
    /\ pc \in {"clone", "work", "done"} /\ result \in {"none", "ok", "error"}
    /\ call \in Calls /\ cached \in Caches /\ before \in Disks /\ failed \in BOOLEAN
    /\ next \in 1 .. Len(jobs) + 1
    /\ DOMAIN at = Jobs /\ DOMAIN todo = Jobs /\ DOMAIN got = Jobs /\ DOMAIN missing = Jobs
    /\ \A j \in Jobs : at[j] \in {"queued", "batch", "found", "each", "write", "ended"}

\* The blobs that the patterns name in the usual sense of "**" and "*".
Wanted(c) ==
    {e \in {c.tree[i] : i \in DOMAIN c.tree} :
        /\ e.type = "blob"
        /\ ~\E p \in c.exclude : Glob(e.path, p)
        /\ c.include # {} => \E p \in c.include : Glob(e.path, p)}

\* A premise of the proofs about CloneFaithful: the filter keeps, of the blobs of the tree,
\* those that the patterns name.
FilterRight ==
    \A c \in Calls :
        /\ BlobEntries(c) \in Seq(Wanted(c))
        /\ \A e \in Wanted(c) : \E i \in DOMAIN BlobEntries(c) : BlobEntries(c)[i] = e

\* A clone that succeeds has written every file that the patterns keep, whole and with its
\* own content, in whatever batches and order, also where responses lacked blobs, and has
\* left all other files of the directory alone.  One that fails has not touched those
\* either, and no file holds another's content.
CloneFaithful ==
    LET paths == {e.path : e \in Wanted(call)}
        Old(p) == IF p \in DOMAIN before THEN {before[p]} ELSE {}
    IN  /\ result = "ok" => \A e \in Wanted(call) : e.path \in DOMAIN disk /\ disk[e.path] = e.hash
        /\ DOMAIN disk \subseteq DOMAIN before \cup paths
        /\ DOMAIN before \subseteq DOMAIN disk
        /\ \A p \in DOMAIN disk \ paths : disk[p] = before[p]
        /\ \A e \in Wanted(call) :
               e.path \in DOMAIN disk =>
                   disk[e.path] \in {e.hash} \cup Old(e.path) \cup (IF failed THEN {"torn"} ELSE {})

\* Every call returns: failed goroutines give back their place in the group, and batches
\* that lack blobs do not come back for ever.
Returns == <>(pc = "done")
=============================================================================
