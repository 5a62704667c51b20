# A TLA+ model of nanogit

nanogit reads and writes Git repositories over the Smart HTTP protocol v2,
without a local clone. This directory holds TLA+ modules translated from its
source, the TLC configurations that check them on small instances, and proofs,
checked by TLAPS, of what matters most about them for every instance.

Run everything from this directory: `tlc -config <run>.cfg <module>` for a run
of `PROJECT.json`, `tlapm <module>.tla` for the modules named `...Proofs`.

## The system

| component | state | operations | interacts with |
|---|---|---|---|
| staged writer, `writer.go` | index of the branch's tree (`treeEntries`, `submoduleEntries`, `dirtyPaths`, `lastTree`), `lastCommit`, the expected branch value `ref.Hash`, the current packfile writer | `CreateBlob`, `UpdateBlob`, `DeleteBlob`, `MoveBlob`, `DeleteTree`, `MoveTree`, `Commit`, `Push`, `Cleanup` | packfile writer (calls), tree collection (at creation), push transport |
| packfile writer, `protocol/packfile.go` | acknowledged hashes, objects in memory or in a temporary file, last commit | `AddBlob`, `AddObject`, `AddCommit`, `WritePackfile`, `Cleanup` | disk, the pipe of a push |
| push transport, `writer.go` 968-1011, `protocol/client/receivepack.go` | a pipe, a goroutine, an HTTP exchange | `Push`, `ReceivePack` | server; retries |
| receive-pack response parser, `protocol/client/receivepack.go` 57-330 | side-band buffers, progress kept | `parseReceivePackResponse` | pkt-line parser, response limits |
| retries, `retry/`, `protocol/client/http_retrier.go` | attempt counter | `retry.Do` around every HTTP request | all requests |
| capability negotiation, `client.go` 272-320 | cached result behind an RW mutex | `effectiveReceivePackCapabilities` | every writer, ref calls |
| references, `refs.go` | none (the server's) | `CreateRef`, `UpdateRef`, `DeleteRef`, `GetRef` | server, other clients |
| object storage, `storage/inmemory.go` | map of objects, access times | `Get`, `Add`, `Delete`, background eviction | fetch, tree collection |
| fetch, `protocol/client/fetch.go` | objects returned, deltas pending | cache check, request, early stop, delta resolution | storage, server, packfile reader |
| server probes, `protocol/client/` | none | `CanRead`, `CanWrite`, `IsServerCompatible` | retries, pkt-line parser |
| tree collection, `tree.go` | pending, retried, requested, processed hashes | `fetchAllTreeObjects`, `verifyTreeCompleteness`, `flatten` | fetch, storage |
| history, `commit.go`, and blobs, `blob.go` | none but the storage's | `GetCommit`, `ListCommits`, `CompareCommits`, `GetBlob`, `GetBlobByPath`, `GetTreeByPath` | tree collection, fetch |
| clone, `clone.go` | files on disk | `Clone` with concurrent batches | tree collection, fetch |
| pure parts | none | pkt-lines, deltas, response limits, path patterns, comparison of trees | |
| the rest | none | formatting, signing, options, logging, CLI, mocks, benchmarks | |

What makes the system hard: the index is rebuilt lazily, only where a path was
marked dirty, so every operation has to mark the right paths; objects live in a
buffer that changes its place in the middle of the work; one push is one
compare-and-swap against other clients, whose answer may be lost; and a failure
at any of these points must leave a state from which the caller can go on.
`PROJECT.json` lists the hazards at their lines.

What makes each component correct, in a sentence: the staged writer commits
exactly the staged edits and moves the branch only forward; the packfile writer
writes every acknowledged object once and whole; a push has one outcome, known
or unknown, and wrong only where an answer ended before its report; negotiation yields one result and remembers no
failure; a reference call changes what it read or nothing; tree collection ends
with the complete tree; a fetch that succeeds has what was wanted and every delta whose
base can be had; a clone writes the chosen files and nothing else; the pages of a log are the log, where the
code's filters agree with git's; the changes of a comparison add up; an
answer about a server is the server's own.

## Modules

| module | what it is |
|---|---|
| `StagedWriter` | the staged writer, its packfile writer reduced to a set of objects, and the server |
| `StagedChanges` | the abstract specification: a working copy, snapshots, a branch |
| `StagedWriterRefines` | the refinement mapping, and what the documentation says |
| `MCStagedWriter` | repositories and paths for TLC |
| `StagedWriterProofs` | theorems about `StagedWriter` |
| `PackfileWriter` | the packfile writer: modes, thresholds, file, interrupted requests |
| `MCPackfileWriter` | sizes for TLC |
| `PackfileWriterProofs` | theorems about `PackfileWriter` |
| `PushTransport` | one push on its way: goroutine, pipe, HTTP client, retries, server |
| `MCPushTransport` | the same for TLC |
| `TransportProofs` | theorems about `PushTransport` and `Requests` |
| `TreeCollection` | `GetFlatTree`: the fetches that collect the trees of a commit, the storage they go through |
| `MCTreeCollection` | a repository for TLC |
| `ReadingProofs` | theorems about `TreeCollection` and `CommitHistory` |
| `References` | goroutines that share a client, change references and negotiate capabilities for it |
| `AtomicRefs` | the abstract specification of these calls: one moment each |
| `MCReferences` | options and advertisements for TLC |
| `ReferencesProofs` | theorems about `References` |
| `ReceivePackReport` | how a push's response is read: limited reader, packets, side band, verdict |
| `MCReceivePackReport` | reports for TLC |
| `ReceivePackReportProofs` | theorems about `ReceivePackReport` |
| `Deltas` | reading and applying a delta, against what its sender meant |
| `Fetch` | one call of `Fetch`: cache, request, pack, early stop, rounds of delta resolution |
| `MCFetch` | packs for TLC |
| `FetchProofs` | theorems about `Fetch` |
| `PathPatterns` | the patterns of a clone, and what they mean elsewhere |
| `Clone` | one call of `Clone`: filter, batches, goroutines, files |
| `MCClone` | trees and patterns for TLC |
| `CloneProofs` | theorems about `Clone` |
| `TreeDiff` | the comparison of two trees and its renames, against what a difference is |
| `History` | a repository, what a reader asks of it and what has to come back |
| `CommitHistory` | reading commits, paths, logs and comparisons |
| `MCCommitHistory` | histories for TLC |
| `ServerAnswers` | servers, what they answer and how the bodies are read |
| `Requests` | the questions a client asks a server: attempts, answers, bodies |
| `MCRequests` | servers for TLC |

### StagedWriter

A path is a sequence of names, a hash is the value it is the hash of, and a
commit is a number into a history of root trees and ancestors. An entry that
`treeEntries` lacks is `Absent`; `submoduleEntries` and `dirtyPaths` are as in
the code, the root being the empty path. `packObjects`, `packCommits` and
`packClosed` stand for the packfile writer, and `remote...` for the server.

Every API call that passes its checks is one action, with the marking, pruning
and reparenting it ends in. Calls that fail a check change nothing and are left
out. A call that fails after it changed something is modelled: the walks
`addMissingOrStaleTreeEntries`, `removeBlobFromTree` and `removeTreeFromTree`
stop at an ancestor that will not do and keep what they did (`Before`,
`Marked`). `Commit` is several actions: it builds one directory at a time,
deepest first, because the order matters and because the disk can fail at each;
then `ErrNothingToCommit`, the commit, or a failed commit. A `Push` is accepted,
sends nothing (a pack without a commit, which `WritePackfile` refuses and
`Push` takes for a success), or is applied with its reply lost; a push the
server refuses changes nothing. `ForeignPush` is another client.

The caller is a parameter. `Careful` names disciplines that the code does not
enforce, and the runs show which property needs which:

| discipline | the caller | without it |
|---|---|---|
| `plainParents` | puts no blob below a blob | a failed call leaves entries that no directory holds |
| `blobUpdates` | updates blobs only | a directory is replaced and its entries stay below |
| `freshNames` | puts no blob where a directory is still marked dirty | the blob is committed with the hash of an empty tree |
| `settledMoves` | moves no directory with uncommitted edits below | `Doc_move_staged` |
| `noShadow` | puts nothing at or below a submodule | needs `pushEach`: a shadowed submodule may come back |
| `pushCommits` | pushes only what is committed | the push succeeds, sends nothing and lets the staged objects go |
| `pushSettled` | pushes with nothing staged after the last commit | a wiped root is pushed away before its commit |
| `pushEach` | pushes after every commit | a submodule shadowed in one commit and uncovered in the next comes back |

The first four keep the index sound, and all that is proved of an index rests on them.

`Faults` names what the environment does: `disk`, `signer`, `lostReply`,
`foreign`.

### PackfileWriter

The stream of a pack is a sequence of cells, a header and a body for every
object, so that a write may stop inside an object. The temporary file is its
cells and one offset, which writing and reading share. `addObject` either keeps
the object, or writes it after the objects that migrate with it. `staged` is
the order in which objects were acknowledged, `sent` the last request that was
written to its end.

### PushTransport

A request is `<<call, attempt>>`: the call of `Push` and the attempt of `retry.Do`.
Its state is on three sides: whether the client still waits (`connected`), how
far the HTTP client's goroutine has read the body (`body`, which it shares with
the other attempts through the one pipe), and what the server received and did
(`got`, `server`). A packfile is `Size` cells, the first of which contains the
reference update. `Push`, `Succeed`, `GiveUp`, `Backoff`, `Resend`, `CancelWait`
and `Return` are the caller's steps, `GoroutineEnds` the goroutine of
`WritePackfile`, `Feed`, `EndBody` and `CloseBody` the HTTP client, which is
`net/http` and external: it reads and closes every body, also after the exchange
is over. The server may answer at any time, but applies only a request whose body
ended properly and whole, whether the client still waits or not.

An answer may be silent: it has a good status and is empty, or is cut off between two packets before it has said
what is bad. `parseReceivePackResponse` wants `unpack ok` only when it has seen something of a report
(`receivepack.go:225`), so that `ReceivePack` returns nil (`SilentAnswer`), whatever the server did. `silent` has the
calls that took such an answer; `SuccessIsTrue` excepts these and no other. The code cannot tell, and
`Doc_push_success` shows that what `writer.go:999` says of a success is then wrong.

In `StagedWriter` a push is one step. A request that the server applies late, after
`Push` has failed, is there the step `PushReplyLost`: until the next push nothing
that the writer does reads or changes the branch, so the order makes no
difference, and the next push meets either the moved branch or the unmoved one. There a push of commits that succeeds
was applied. After a silent answer to a push that was not, the writer lets go of the pack, and what is said of unpushed
commits does not hold any more.

### TreeCollection

An object is the commit or a tree, and of a tree only its directories matter.
`cache` is the storage (`allObjects`), which the caller's context may provide and
other operations may then use too (`shared`); else the call has one of its own.
`received` holds the trees of the last response that `collectMissingTreeHashes`
has yet to examine, one at a time and in any order, as it ranges over a map.
`pending`, `retries`, `retryCount`, `requestedHashes`, `processedTrees` and
`batchNumber` are the variables of the code. The phases of `pc` follow
`fetchAllTreeObjects`: `FetchCommit`, `FindRoot`, then `Examine` and `SendBatch`
(`prepareBatch`, `processSingleBatch` and `handleMissingObjects` together), `Verify`,
`Complete` and `VerifyAgain`; then `flatten` goes down the trees (`Traverse`,
`FetchMissingTree`).

A fetch is one step: what the storage lacks is asked for (`Wanted`), a response
comes, and its objects enter the storage; or the request breaks after a part of
them. A change of the storage by others during a request has the effect of
one before or after it. The server is external. For a request it has every tree that can
be reached from there (`Offered`), must send what is named (`Least`), and may, by
`Faults`, send less than the first (`lean`) or less than the second (`omits`).
`OtherCaches` and `Evict` are what else happens to a shared storage.
`start` and `blame` are history: what the storage held when the call began, and
which faults the call met, so that a failure can be traced to its cause.

`handleMissingObjects` never queues an object again: everything in a batch is in
`requestedHashes` already. So `retries` stays empty and `retryCount` at most one, and
an object that a server leaves out is fetched by the completion phase or not at
all. The model keeps these branches as the code has them; `ReadingProofs`
shows that they are dead (`Bookkeeping`).

### References

The goroutines `Procs` share one client, so one `negotiateMu`, `negotiated` and
`negotiatedCaps`. A call goes through `lookup` (`GetRef`), `caps` (the first look of
`effectiveReceivePackCapabilities`, behind the read lock, for which it must not be
locked for writing), `lock` (the second look), `probe` (`FetchReceivePackCapabilities`,
under the lock), `send` and `wait`. A failure at any of them returns an error;
`NegotiationFails` is the deferred `Unlock`. The four calls differ in what they make
of the lookup (`Answered`, `Answer`), and in the old and new value of the request
(`Update`, where the zero hash is `None`).

A capability is the key of its token, which is what `IntersectCapabilities` compares.
The answer of ls-refs is the value of the one name asked for: that `GetRef` looks
for the exact name among those with the prefix is taken for granted; how the list is
read is in `Requests`. An answer that ends between two packets is a shorter list to the
code (`protocol/lsrefs.go:25`; fault `short`), so that `GetRef` may miss a reference that exists. A retried
`POST` fails without effect (`Doc_resend`), which `GiveUp` includes.

The server is external: it compares and sets, may refuse for reasons of its own, may
apply a request whose client has gone (`late`), and may be replaced by one that
advertises something else. It reports what became of a request only if the request asks
for `report-status-v2` and it knows of that; a response without a report passes for
success (`parseReceivePackResponse`). So a client that is told to leave the
capability out takes a refusal for a success, and `ImplementsAtomicRefs` is
stated where `ReportsGuaranteed` holds; `MCReferences` has only such options, and
the theorem has it as its premise.

`AtomicRefs` has, for each call, one moment between its beginning and end at which it
looks and acts. For a change this is the server's comparison, not `GetRef`; for
the answers "not found" and "already exists" it is `GetRef`. Two answers mislead the code, which cannot tell: half a
list, and an answer to a change that ends before its report (`SilentReply`, fault `silent`), which is a success to
`ReceivePack` whether a report was asked for or not. `misled` has the goroutines whose call ended by one of these. In
`AtomicRefs` such a call may say "not found" or "ok" when it is not so (`Mislead`); what it changes is still what it was
asked to change, at once, later or not at all. All other answers are true.

### ReceivePackReport

The body is a sequence of tokens of a few bytes: two for the length of a packet, then its
data. The server has a report, some lines of `unpack` and of references, and sends
it in packets of its own (`bare`) or through channel 1, as packets in the packets
(`nested`) or as lines (`raw`), cut into pieces anywhere; between them come progress, empty
and special packets, or an abort. The body may end or fail at any token, and every read
returns as much as it likes. `Read` is `limitedReadCloser.Read` under `io.ReadFull`,
`ReadPacketLength` and `ReadPacketData` are `Parser.Next`, `Classify` is
`classifyReceivePackLine`, `Verdict` the end of `parseReceivePackResponse`.
`arrived` and `said` are history: how much of the report, and of channel 2, has been read.
The scans of a report that channel 1 carried are functions, compared with `Meaning`.

### Deltas and Fetch

An object is its type and data and its own hash. A delta's instructions are decoded, but
the loop of `parseDelta` is kept as it is, its counter of 64 bits included (`Wrap`), as is the
size that zero stands for (`ZeroSize`). `Made` is what the sender meant, `WellFormed` says for
which deltas that is anything.

`Fetch` follows the call: `CheckCache` looks up one want at a time, so that the storage may change
in between; `SendFetchRequest`; then the packfile reader asks for packets (`Packet`,
`PacketsEnd`) and `ReadObject` takes an entry once its cells are there. An entry that cannot be
read is an error, with or without its second cell. `ReadFails` is `classifyReadObjectErr`. The trailer
follows the last entry that the header announces; its checksum is not looked at by the code.
`ResolveDelta` is one delta of `resolveDeltaIteration`, `EndIteration` its end with the three ways
out of `resolveDeltas`. `Foreign` is another user of the storage.

A response may break off before its section `packfile`. `ParseFetchResponse` takes that for the end of a response
without one (`protocol/model.go:203`), there is no packfile reader, and the call succeeds with what it had in its cache.
`WantedServed` excepts this by `ended = "early"`, and only this: in the pack every cut is noticed. The callers find that
the object they wanted is not among the results, and say that it does not exist.

The branch of `classifyReadObjectErr` that forgives a response over the limit when everything
wanted was read is kept and is dead: the early stop comes first.

### PathPatterns and Clone

`ShouldIncludePath` is translated case by case on paths as sequences of names; `Glob` is what such
patterns mean elsewhere. The two differ for some patterns (`**` alone, wildcards before `/**`,
`a/**/*` on the path `a`), so the patterns of `MCClone` are those that the options' comments and the tests show.

A job is a batch, or a single file where batches are off. `Submit` is the loop with `g.Go`, which
waits for a place; `FetchBlobBatch`, `WriteFound`, `FoundDone`, `GetBlob`, `WriteFile` and `EndJob` are
one goroutine's work, with the blobs that its batch lacked fetched one by one at the end. The first
failure cancels the context of all (`Cancelled`), after which only what is cached can be fetched;
`Return` is `g.Wait`.

### TreeDiff, History and CommitHistory

`CompareTrees` is the comparison with its maps and sorts, `DetectRenames` the pairing by hash,
`AddUp` what a list of changes has to be. The code compares hashes, and nothing where the head has a directory, so
that it says nothing of a file whose mode alone changed, nor that a file became a directory; these paths are `Exempt`,
and the changes may say of them what they like. At all others they turn the files of the base, with contents and modes,
into those of the head. Paths are ordered by their place in `PathOrder`, and `Sorted` takes
the foremost change again and again; no two changes have one path, so that it does not matter that `sort.Slice` is not
stable.

`History` says what a repository is (`GoodRepository`): finitely many commits, none its own ancestor; trees in which a
path has one entry, below directories that have entries, none of them empty; hashes that stand for contents. Trees have
submodules and modes. It also says what has to come back: the entry that is meant by a path (`Meant`), the log (`Log`),
the changes (`AddUp`).

A path's parts may have blanks around them: `TrimSpace` is the function `Padded` on names. `GetTreeByPath` and the log's
filter trim them, `GetBlobByPath` does not. A directory whose own name has blanks around it therefore cannot be read by
`GetTreeByPath`, and a submodule is to all these calls as if it were not there (`Entries`): `ReadsAreRight` says so, and
that a path is reported missing only if neither a file nor a directory is at the path that the call makes of it.

`Log` is what `ListCommits` is documented to give: the commits created in time that change anything at the path,
submodules and modes included. The code goes by the author's time (`commit.go:742`) and by hashes of files and
directories. `PagesAreTheLog` claims the equality where these agree: where all commits were created on the side of the
bounds on which they were written (`SameTimes`), and the path is no submodule and no file whose mode alone changes
(`SamePaths`; below a directory any of these may be). The rest is refuted by `Doc_log_times` or said below. What
`PagesAreTheLog` says of refused paths has no premise. Of a merge the code, and so the model, keeps one parent, the last
(`protocol/packfile.go:363`).

`CommitHistory` is what the code does, and has the calls as alternatives: `GetCommit` and the loop
over a response in the order of a map; `GetBlobByPath` and `GetTreeByPath`, one part of the path at a
time; a caller that reads the log page after page (`ListCommits`, `Visit`, `Filter`,
`EndWalk`), each page a walk from the start; and `CompareCommits` with its two goroutines and
buffered channels. `Evict` is the storage that forgets; a server may send other objects as well (`extra`), or
less (`lacks`).

### Requests

`ServerAnswers` has the servers, the bodies they send, the ways a body can be read (`Readings`), the parsers, and
what the server would say for itself (`Truth`). `Requests` is the call: `retry.Do` around `rawClient.do`, with
`Attempt`, `Decide` with `ShouldRetry` of both retriers, `Wait`, and `Answered` with the status or the body. `Mishaps`
are the faults. What parses a body is a function of the packets and of how
and where the body stopped: `NextLine` is `Parser.Next`, which takes a length that is cut short for the
end, `ParseLsRefsResponse` reads for itself and does not. `open` is the set of attempts
whose response has a body that nobody has closed. A `POST` whose body was read fails in the HTTP client when it is
sent again (`unsent`).

## Runs

| run | shows |
|---|---|
| `StagedWriter_careful` | on an empty repository, one with directories and one with a submodule, with the disciplines (but `pushEach`): the writer implements `StagedChanges`; the index is sound, nothing is missing from a request, the server stays connected, `ErrNothingToCommit` is true, no removed submodule comes back |
| `StagedWriter_any` | on a repository with a submodule, every operation, every fault, no discipline at all: the branch only moves forward, no unpushed commit is forgotten |
| `Packfile_faults` | every storage mode, a disk that fails anywhere, requests cut short and retried: what is written is what was staged until the file is damaged, no object twice, memory bounded |
| `Push_faults` | two calls with two attempts each; requests turned away, timed out, broken, late; answers without a report; a disk that fails: a reported success happened unless an answer was silent, commits are applied once, nothing of a push outlives it that reads the writer, and everything comes to rest |
| `Tree_collection` | two calls, storages shared or not, servers and other operations of every kind: every call ends, no incomplete tree is flattened, a failure has one of the named causes, every batch asks for something new |
| `References` | two goroutines and two calls, other clients, every fault, answers cut short among them: the calls implement `AtomicRefs`, requests carry the one negotiated set, one goroutine negotiates at a time, every call ends |
| `Report` | reports in every framing, cut anywhere, with bodies that are malformed, cut, over the limit or broken: the verdict is the report's meaning, no refusal or lack of `unpack ok` passes for success, an error brings what the server had said, the limit is exact |
| `Fetch` | packs of up to four entries in any order, storages with and without bases, others that store and evict, responses cut before the pack and anywhere in it: what was wanted is returned unless the pack never began, deltas are resolved whatever their order, the bound on rounds is never met |
| `Clone` | patterns, batches, one or two goroutines, caches, files that were there, failures everywhere: a success has written the chosen files and only those, every call returns |
| `History` | single reads, paths, logs with filters and comparisons, a storage that forgets, servers that send more or less: reads return what was asked for, the pages are the log where the filters agree with git's, the changes add up, every goroutine ends |
| `Requests` | five questions to eleven servers, one to three attempts, every status, error and way to break off: an answer is the server's own, and every response is closed |
| `Doc_move_staged` | a blob staged in a directory that `MoveTree` then moves is missing from the commit (`writer.go:841`, against `writer.go:856`): see the finding in `PROJECT.json` |

One more configuration is kept that holds and is not among the runs of `PROJECT.json`: `StagedWriter_submodules` checks
`NoGitlinkRevival` where submodules may be shadowed and every commit is pushed before the next edit. Nine are kept that TLC refutes, each a statement of a comment or a document that the
code does not keep:

- `Doc_stage_after_failed_push` (`PackfileWriter`, `AllObjectsWritten`): a push that is cut short leaves the offset of
  the temporary file inside it, and the next object overwrites what was staged (`protocol/packfile.go:1225`;
  line 1124 says that objects remain staged for the retry).
- `Doc_retry` (`StagedWriterRefines`, `RetrySucceeds`): after a push whose reply was lost every retry is
  refused (`writer.go:1009`; `writer.go:1007` and `docs/guides/writing.md:89` promise the retry).
- `Doc_resend` (`PushTransport`, `RetriesAreWhole`): a push turned away with 429 is sent again with a body that the
  HTTP client has closed (`protocol/client/rawclient.go:197`; `docs/architecture/retry.md:290` says that the body
  can be re-sent).
- `Doc_shared_storage` (`TreeCollection`, `SharingHarmless`): a commit that `GetCommit` left in a shared storage
  keeps `GetFlatTree` from asking for its trees, and it fails (`protocol/client/fetch.go:96`;
  `docs/architecture/storage.md:86` says that a storage can be shared across operations).
- `Doc_push_success` (`PushTransport`, `SuccessIsAcceptance`): a push that the server did not apply is reported as a
  success, because its answer ended before the report (`protocol/client/receivepack.go:225`; `writer.go:999` says that
  success means that the remote has accepted the push).
- `Doc_not_found` (`References`, `NotFoundIsTrue`): a reference that exists is reported as missing, because the list
  ended between two packets (`protocol/lsrefs.go:25`; `refs.go:76` says `ErrRefNotFound` if the reference doesn't exist).
- `Doc_changes` (`CommitHistory`, `AllReported`): a file whose mode alone changed, or that became a directory, is in no
  change of `CompareCommits` (`commit.go:284`; `commit.go:130`, `commit.go:242` and `docs/guides/history.md:64` promise a
  change for a different mode, for a deletion and for a change of type).
- `Doc_log_times` (`CommitHistory`, `CommitsByCreation`): `Since` and `Until` bound the author's time, so that a commit
  that was created after `Since` is left out if it was written before (`commit.go:742`; `commit.go:554`, `commit.go:557`
  and `docs/guides/history.md:32` say created, which by `commit.go:62` is the committer's time).
- `Doc_log_path` (`CommitHistory`, `DirectoriesWithSlash`): a path that ends in a slash is refused (`commit.go:932`;
  `docs/guides/history.md:31` has `dashboards/` as its example).

More statements that the code does not keep have no run:

- `Push` alone prunes a shadowed submodule from the cache, so a submodule that is shadowed
  in one commit and uncovered in the next comes back if no push lies between them
  (`writer.go:1078`; `writer.go:1064` says that the pruning prevents it).
  `StagedWriter_submodules` without `pushEach` shows it. With four edits and without
  the disciplines of the index it shows another way: a directory that is moved with edits in it is committed without its
  listing, and so without its submodules, until it is edited again.
- A blob created under the name of a directory that was edited and then deleted is
  committed with the hash of an empty tree, because the directory's mark is still
  there (`writer.go:1274`; `writer.go:856` says the commit contains all staged changes).
- A `Push` of objects without a commit succeeds, sends nothing and lets them go
  (`writer.go:979`; `docs/guides/writing.md:88` says it returns `ErrNothingToPush`).
- `UpdateBlob` of a directory succeeds (`writer.go:319`; `writer.go:288` says the
  blob must exist).
- A second `Commit` with nothing staged since the first makes a commit
  (`writer.go:909`; `docs/guides/writing.md:88`), because the objects of the first
  still wait for their push.
- After `DeleteTree` of the root and a `Push`, `Commit` answers that nothing is
  staged (`writer.go:582`; `errors.go:31`).
- Deleting the only blob of a directory leaves an empty directory in the commit
  (`writer.go:1397`; `writer.go:348`).
- When the move to a file fails after the file was created, the objects held in
  memory are counted but never written (`packfile.go:1336`; `packfile.go:1100`).
  `StreamIsStaged` and `SentIsWhole` leave this out by `damaged`.
- A commit that changes the mode of a file only, or a submodule, is not in the log of that path (`commit.go:828` compares
  hashes of files and directories; `commit.go:551` says the commits that affect the path).
- Text of `error:` or `fatal:` on channel 2 is taken for progress, as the tests have it
  (`protocol/client/receivepack_test.go:1198-1244`), and as `ReceivePackReport` has it. The comments at
  `protocol/pack.go:431-440` and `protocol/client/receivepack_test.go:879-883` still call it an error.
- `(page - 1) * perPage` may overflow for huge page numbers (`commit.go:600`); the bounds of the run keep away from it.
- `ListRefs` by a server that closes the connection between two packets, before the flush, returns
  the part of the list that came (`protocol/lsrefs.go:27`); `AnswersAreTrue` allows for it.
- A `POST` of `fetch` or `ls-refs` that is turned away with 429 is sent again with a body that was read, and fails, as in
  `Doc_resend`.
- A retrier with `MaxAttempts` of zero makes one attempt where it implements the interface itself, and three where
  it is the backoff retrier (`retry/retry.go:25`, `retry/retrier.go:182`; the interface's comment says unlimited).

### Bounds

Two names and paths of at most two components give directories in directories, siblings, and moves that change
the depth. Two contents tell an update from what it replaces; the runs about submodules and about any
caller have one, because what they ask does not look at contents. `MaxEdits` and
`MaxCommits` bound the calls: every finding needs at most three edits and two
commits of the writer, and each mutant of the code is caught within the same
bounds. Calls that would move entries outside `Paths` are left out, a bound on
names and not a behaviour. For the packfile writer, two objects
and a commit against thresholds of two objects and of three bytes let every
crossing happen: by number, by length, at the object and before it. `Chunk` is
three cells, so an interrupted copy stops inside an object as well as between
two. `MaxBytes` bounds repeated failed writes.
For the transport, two calls let a request of the first be late for the second,
two attempts read one pipe at the same time, and with two cells a body can be cut
off after the reference update.
For the tree collection, four trees make three levels below the commit, one of them
(`b`) in two places, so that a tree is examined before and after what it lacks was
asked for. Batches of one tree make the batch boundary fall between any two trees;
two batches let the limit be met or not; completions of two trees are cut too. The
second call meets a storage that the first has filled, wholly or in part. One
change by others, at any moment, is enough for every failure that sharing
causes. An instance with five trees and batches of two (1.35 million states) holds as
well.
For references, two calls at a time are enough for one to act between the other's
lookup and its request, and for both to wait for the lock; one name, because calls
on different names share nothing but the negotiation; two hashes, to tell an update
from what it replaces. The one foreign step is a change by another client or an upgrade of
the server.
For the report, three pieces put two cuts into it, and two extras let something stand at each cut; the limits 9
and 14 fall inside a line, inside a length and on a boundary of some of the reports, 0 is none. A buffer of two tokens
is filled and overfilled by two packets of progress.
For the fetch, packs of up to three entries from a blob, a tree and a chain of two deltas come in every order and with
every repetition; one of four has the chain backwards, so that three rounds are needed; and each kind of entry that is
not as it should be stands first and last. `Wrap` is 16, beyond all sizes but those that a sum wraps at.
For the clone, one tree of five blobs, two of them equal, is cut into batches of one, two and three, the last of which is
short; two goroutines show every interleaving there is between a failure and the others. The filter is checked with
every documented pattern of up to three segments, to include and to exclude.
For history, logs of three and six commits against pages of one, two and three end on a page's end and
inside one; in one commit a mode changes and a submodule comes, in another the submodule changes, and two commits were
created later than they were written, each across one of the bounds. Paths have up to three parts, with blanks, dots and
nothing among them. Comparisons are of all pairs of trees of four files, with two contents, a submodule and a mode that
changes, so that renames have more than one candidate.
For the requests, three attempts are those of the default retrier; bodies break off at every packet.

### Fairness

In `Doc_retry`, `FairSpec` lets a begun `Commit` end and a caller who can push do
so eventually: `Commit` is a loop over a finite set, and the caller of the
documentation retries. Foreign clients are off in that run, so that nothing else
can be the reason that a retry fails.

For `ComesToRest`, `FairSpec` of `PushTransport` says that goroutines which can run do
run, that the HTTP client reads and closes the bodies it is given, and that a
request received to its end is answered. The last is an assumption on the
environment: the library sets no timeout, so a server that never answers, with
a context that never ends, blocks `Push` for ever.

For `Terminates`, `FairSpec` of `TreeCollection` says that a call goes on while it
can, and so that every request is answered or fails, with the same caveat. `Step` is
one action for fairness: the call is one goroutine, and exactly one of its steps is
possible at a time, up to the order of trees and the answers. Nothing is assumed of what
the server answers, of evictions or of other operations.

For `EveryCallEnds`, `FairSpec` of `References` has strong fairness for every
goroutine: one that waits for the lock meets it free again and again only if others
take it in between, and `sync.RWMutex` hands the lock to those who wait. That
requests are answered or fail is assumed as above.

For `Returns`, `EverythingEnds` and `EndsClosed`, `FairSpec` of `Clone`, `CommitHistory` and `Requests` is weak
fairness of the code's own steps taken together: the scheduler runs some goroutine that can run, requests
end with or without success, timers fire. Which one is left open; it is enough because the
steps of a call are finitely many. Storages that forget, other users and cancelled contexts are not assumed to
do anything.

## Proofs

All theorems hold for all values of the constants that satisfy the named
assumptions of the modules, which TLC evaluates for its instances.

`StagedWriterProofs`:
- `TypeCorrect`: `Spec => []TypeOK`. `TypeOK` contains, besides the shapes, that
  a commit's ancestors are older than it. It is inductive as it stands.
- `CommitsRetained`: `Spec => []UnpushedRetained`, for any caller and faults. It is
  inductive relative to `TypeOK`. The step that matters is that `AddCommit` makes
  the old `lastCommit` the parent, so what lies between `refHash` and
  `lastCommit` grows by just the commit that enters the pack, and that a lost
  reply changes neither.
- `FastForward`: `Spec => OnlyFastForward`. The server accepts a push only where
  the branch has the value `refHash`, which by `UnpushedRetained` is an ancestor
  of `lastCommit`; it is a proper ancestor because the two are equal only if no commit
  is in the pack, and then nothing is applied.
- `IndexStaysSound`: `IndexDisciplines \subseteq Careful => (Spec => []IndexSound)`, with the first four
  disciplines and any faults. `IndexSound` is inductive relative to `TypeOK`. A call
  changes the listings of one directory (of two, when it moves something) and marks it with all
  above it; what the proof rests on is that these walks are not cut short, that a put below marks what a
  put made, and that `Rebase` of a moved subtree goes with `Child` and with
  `Ancestors` (`RebaseChild`, `RebaseAncestor`). `Commit` builds the deepest marked directory, so the ones
  below it already have their hashes.
- `PushesAreComplete` and `BranchConnected`: `CarefulCaller => (Spec => []NothingMissing)` and
  `... []ServerConnected`, for a caller that keeps these four and `pushCommits`, and a disk that works. The
  invariant `CompleteInv` has both, `IndexSound`, `UnpushedRetained`, and that the ancestors of an
  ancestor are ancestors (`PastsNest`): a push leaves on the server what it had and what was in the
  pack, and both are needed to hold all that the new branch refers to.
- `NothingToCommitTrue`: `Spec => []NothingToCommitIsTrue`, for the four and `pushSettled` and a disk that
  works. `TreeInv` adds that a pack without objects means that the root tree is the last commit's or is
  marked.
- `StagedChangesImplemented`: `EditDisciplines \subseteq Careful => (Spec => ImplementsStagedChanges)`,
  the whole refinement, with the four and `noShadow`, and any faults. Initial states map to initial states and each action to
  an edit, a commit or a push of `StagedChanges` or to a stutter. The step that matters is a commit: what a reader
  finds in the tree of a sound index with nothing marked is what the index holds, at every path
  (`ResolveFresh`), and trees of earlier commits are values, so that no later step changes what
  they hold. The steps that stage need that one entry, or one
  subtree, is all that changes for a reader (`PutBlobEdits` to `MoveTreeEdits`).
- `RemovedLinksStayRemoved`: `LinkCaller => (Spec => NoGitlinkRevival)`, with the four and either of
  `noShadow` and `pushEach`, and any faults. By `LinksInv` the submodules of the index that
  nothing hides are in the last commit's tree, and after a push, which prunes the hidden ones, all of them.

`PackfileWriterProofs`:
- `TypeCorrect`: `Spec => []TypeOK`, with any faults.
- `StreamCorrect`: `Spec => []StreamIsStaged`, with any faults. What was written is
  what was staged until `damaged`, a history variable that the disk's first failure
  sets, and an object written to the file between an interrupted request and its
  retry. `StreamIsStaged` is not inductive: that memory is empty once the file
  exists, and that the offset is at the end of the file unless the last request
  was interrupted, are added. Both causes of damage are real: see
  `Doc_stage_after_failed_push`, and the failed migration above.
- `RequestsWhole`: `Spec => []SentIsWhole`, from `StreamCorrect` and the fact that
  each object is acknowledged once.
- `EachBodyOnce`: `Spec => []NoDuplicates`, with any faults and without `damaged`. A write that
  fails half way leaves no body of its object (`CellsOnce`), one that fails in a
  migration leaves bodies of acknowledged objects only, which are not written again, and what is
  overwritten only goes away (`WrittenOnce`). The invariant is that the bodies in the file are of
  acknowledged objects, each once, and so is what memory holds.
- `MemoryStaysBounded`: `Spec => []MemoryBounded`, with any faults. The invariant adds that what memory holds
  was acknowledged, each object once, and that its bytes are among those counted (`Counted`): failed writes count
  bytes more often than that, never less. `Bytes` is a recursive sum; that it grows by the length of the object
  added is proved by the least place where two sums differ (`SumsUnique`).

`TransportProofs`, about `PushTransport` for packfiles of any size, any number of calls and attempts
and any faults:
- `TypeCorrect`: `Spec => []TypeOK`, no attempt beyond `MaxAttempts` included.
- `SuccessTrue` and `EffectOnce`: `Spec => []SuccessIsTrue` and `Spec => []AppliedOnce`,
  from one invariant, `Outcomes`. `Push` succeeds only where the request of the
  current attempt is applied, which is never undone, or after a silent answer; a second request is not
  applied because the branch no longer has the value it names.
- `Quiet`: `Spec => []QuietBetweenCalls`, from `PipeShut`. `Return` waits for the
  goroutine; that the pipe is closed is the caller's doing after a failure, and
  after a success follows from the server's having read the body to its end.

The same module, about `Requests` for any servers, retriers and faults; the assumptions of `Requests` and
`ServerAnswers` are premises:
- `OnlyTrueAnswers`: `R!Spec => []AnswersAreTrue`, from `Answering`: what a running call takes for an
  answer is the server's own status or a 400, and what makes it try again is neither. Each reading is a whole body or the beginning of
  one (`ReadingIsStart`), and so the theorem rests on a pair of lemmas for each parser. One says what it makes of
  any beginning: the version is never mistaken (`VersionNeverMistaken`), because a version 2 body starts with
  nothing that looks like a reference; capabilities are all or nothing (`CapabilitiesAllOrNothing`), because they come
  with the first reference; a list is complete or was cut between two packets (`ListCompleteOrCutClean`). The other says
  that a whole body is understood (`WholeVersionKnown`, `WholeCapabilitiesKnown`, `WholeListKnown`).
- `NothingLeftOpen`: `R!Spec => []ClosedWhenDone`, from `OneOpen`: only the response of the current attempt is open, and
  only until it was decided or read; there are at most `MaxAttempts`. This is the part of `EndsClosed`
  that is not liveness.

`ReadingProofs`, about `TreeCollection` for any repository, sizes of batches, number of calls and
faults:
- `TypeCorrect`: `Spec => []TypeOK`.
- `CompleteWhenFlattened`: `Spec => []CollectionComplete`. The call flattens only after
  a verification that found no gap, and a set of trees that holds the root and
  with every tree it knows its directories holds all of them (`NoGaps`). That the
  storage keeps them is `Kept`, and that the walk stays inside them `WalkInside`.
- `BatchesEnd`: `Spec => []BatchesProgress`, from `Bookkeeping`: what is pending was
  requested, once, and `retries` is empty. Each batch therefore uses up at least one of the
  hashes that were requested, which are trees, each counted once.
- `FailuresHaveCauses`: `Spec => []FailsOnlyForCause`. Where nothing was omitted, broken or
  evicted, two cases are left. With a storage of its own, each tree that is at hand
  and lacks a directory is yet to be examined, or has had the directory asked for and it is
  pending; so nothing is missing once the batches end. With a shared one, full responses
  bring all that is below a tree asked for (`WholeResponse`), so that one round of
  completion is enough, unless single trees entered the storage in another way.

The same module, about `CommitHistory` for any calls, repositories, sizes of pages and faults. The premises are
the assumptions of `CommitHistory`, which TLC evaluates for the calls of `MCCommitHistory`:
- `ReadsRight`: `H!Spec => []ReadsAreRight`, from `OnTheWay`: after `k` parts of the path, `at` is what counts
  of them (`KeptParts`: empty parts on the way to a blob do not, nor blanks in the path of a directory), and there is an entry of the right type there. So what is found at the
  end is what was meant. A path is reported missing where the next part has no entry, or one of
  the wrong type; then nothing lies below, because in a good tree what lies above an entry is a directory
  (`PathsClosed`, `MissingOnTheWay`).
- `PagesRight`: `H!Spec => []PagesAreTheLog`. The log is a recursive function on commits; that it exists, and
  starts with the commit itself if it is listed, comes from the ages that an acyclic history has (`LogsExist`,
  `LogIs`). The filter compares hashes along the path where the log compares what is below it, and lists the same
  commits under `Agree`, which is `SameTimes` and `SamePaths`, because hashes stand for contents (`MatchesIs`,
  `HashForPathIs`). The invariant of a walk is `Walking`: what it has found, followed by the log
  from the next commit on, is the log, and every commit that was visited has a greater age
  than those to come (a parent's age is less than its child's), so that the check for a cycle never stops it. A page takes up where the pages before it end (`NextPage`), although each starts anew.
- `ChangesRight`: `H!Spec => []ChangesAddUp`. The work is in the operators. `Sorted` lists each change once and in order
  (`SortedIs`: sorting by selection, over finite sets by their size); the changes turn the files of the base
  into those of the head at all paths that are not exempt (`PatchTurns`); pairing deleted and added files of one hash, in order, keeps what the changes
  say (`RenamesSaySame`) and leaves no pair behind (`NoneLeft`). `CompareAddsUp` puts these together, and the
  invariant is that what is in the buffers of the two goroutines is the trees of the two commits.

`ReferencesProofs`, for any goroutines, names, hashes, options, advertisements,
bounds and faults:
- `TypeCorrect`: `Spec => []TypeOK`.
- `NegotiatesOnce` and `SameForAll`: `Spec => []OneNegotiation` and
  `Spec => []RequestsAgree`, from `Negotiation`: who negotiates holds the lock, the
  result is there from the first success on and never changes, and it is not empty,
  so that `FormatCapabilities` does not put the default set in its place.
- `Atomic`: `ReportsGuaranteed => (Spec => ImplementsAtomicRefs)`, the whole
  refinement. Initial states map to initial states, and each action maps to a
  step of `AtomicRefs` or changes nothing there. It needs that a request was sent only
  where the lookup agreed with the call (`CallsWell`), and that every request in
  flight asks for the report (`Asking`), so that "ok" means applied where any report came.

`ReceivePackReportProofs`, for any reports, framings, limits, faults and numbers of packets:
- `TypeCorrect`: `Spec => []TypeOK`.
- `VerdictsRight` and `SuccessNeverFalse`: `Spec => []VerdictIsRight` and `Spec => []NoFalseSuccess`, from one
  invariant, `IInv`. The packet on its way is the beginning of one that was sent, and as long as the body goes on it is
  that packet (`OnItsWay`); what is pending is the rest of the report (`IsRest`); between two packets, what the parser has had
  of the report is what was sent of it; and what channel 1 carried, put together, is the beginning of the report's stream
  of that length, wherever it was cut (`Gathered`). `ScanIs` is about the operators alone: the scan of any
  beginning of a stream, of packets or of lines, finds `unpack ok` and refusals in just the lines whose text is there, and
  looks incomplete or ends well where the beginning stops in the middle. Both properties follow where something is returned (`Settled`).
- `RejectionsExplained`: `Spec => []RejectionIsExplained`. The payloads that the buffer keeps, put together, are the first
  `MaxRemoteProgress` tokens of what channel 2 said (`Explained`), and `Fields` is applied to these.
- `LimitIsExact`: `Spec => []LimitExact`, from `InPlace`: what remains and what was delivered are the limit together.

The scans and `FlattenSeq` are recursive. That there are such functions, and what they give, comes again from the
least place where it would fail (`JoinsExist`, `ScanExists`); a scan from one place looks at later ones only
(`ScanAgrees`), which is why `ScanAt` is an operator of its own. TLC checked the parts of `IInv` on the instance of `Report`
before they were proved.

`FetchProofs`, for any packs, wants, storages and faults:
- `TypeCorrect`: `Spec => []TypeOK`, from `Types` and `Calling`.
- `IterationsEnough`: `Spec => []IterationsSuffice`. A round that resolves nothing ends the
  rounds and every other one leaves fewer deltas for the next, so what remains and the number of the round
  together never exceed the number of deltas by more than one (`RoundsInv`).
- `DeltasAreRight` (a lemma): a delta that is as it should be is read to its end without an error and applies to its base, and
  makes the object its sender meant. It rests on `ReadOne`: after `n` instructions
  `parseDelta` has recorded those `n`, and what is left of the target is what they
  have not made, which never wraps around and is zero only after the last (`JoinsGrow`: no piece is empty). That each of these
  sequences exists and is the only one comes from the least place where it would fail (`LeastNat`).
- `WantedAreServed`: `Spec => []WantedServed`, of calls whose response reached its pack, or that needed
  none. What was wanted was in the storage or was asked for; what was asked for was read, resolved, or is still to be
  looked for (`ServedInv`).
- `PacksAreResolved`: `Spec => []PackResolved`, from `ResolveInv`: what waits are deltas; nothing is among the results that
  was not asked for or sent; a pack that was read to its end is all there; and while a round
  has resolved nothing, no delta that it left has its base among the results (`Stuck`). So where a call
  gives up, the results are closed under what the pack can make, and a base is not among them.
- `EarlyStopComplete`: `Spec => []StopsComplete`. A call that stops reading early has all it was
  asked for.

`CloneProofs`, for any trees, patterns, sizes of batches, limits of concurrency, storages,
directories and faults:
- `TypeCorrect`: `FilterRight => (Spec => []TypeOK)`.
- `Faithful`: `FilterRight => (Spec => []CloneFaithful)`. The batches cover the entries
  (`BatchesCover`, by the arithmetic of their number and ends); as long as nothing failed, each
  entry of a job is on disk, still to be written, or put off until the batch has been
  gone through (`NothingLost`); no two entries have one path, so that nothing written is overwritten (`StaysOnDisk`);
  a return without an error comes after the end of every job. `NothingElse` is the rest of
  `CloneFaithful`. The premise, that `ShouldIncludePath` keeps what the patterns name, is about a
  recursive function; TLC evaluates it as the assumption `FilterIsRight` of `MCClone`.

Only model-checked:
- `ComesToRest`, `Terminates`, `EveryCallEnds`, `Returns`, `EverythingEnds` and `EndsClosed`, which are liveness and out of the
  prover's reach (of the last, `NothingLeftOpen` is the safety half);
- that `ShouldIncludePath` keeps what the patterns name, the premise of `Faithful`.

Every invariant and every action property of the runs is stated by a theorem, and so are both refinements.

The type invariants of the modules with theorems are proved (`TypeCorrect`) and are no properties of runs.

## Not modelled

- File modes (a moved blob keeps its mode, an updated one becomes 100644),
  messages, identities, signatures and the encoding of objects.
- In `PushTransport`, what the report of a push looks like: `GoodReport` is what the parser, modelled in
  `ReceivePackReport`, makes of one that has arrived, `SilentAnswer` what it makes of nothing.
- Compression, hashing and the bytes of packfiles, objects and packets; the trailer's checksum, which the code
  does not look at. Words of errors and of progress.
- A capability lookup that fails in `Push` or `Cleanup`: the value is cached by
  the time the writer exists (`SameForAll`).
- The text of advertisements and of the lines of ls-refs. A reference
  name that is empty or a hash that is malformed is refused before anything is sent.
- Temporary files that a failed `Cleanup` leaves on disk.
- The pointer that `Commit` returns, which the writer keeps as `lastCommit`.
- `BlobExists` and `GetTree`, which change nothing of the state.
- What `flatten` makes of the entries of complete trees; blobs and submodules, which
  the collection skips; hashes that do not parse; deltas, which `Fetch` resolves before it
  returns (module `Fetch`). In `Clone` and `CommitHistory` a fetch or the collection of a tree is one step. Each verification looks at the storage in one step.
- The components of the table above that `PROJECT.json` lists as not modelled.

- The access times and the clock of the in-memory storage. `Get` writes the time of an access under the read lock
  (`storage/inmemory.go:66`), so two readers race on the map; a model would only restate the missing lock.
- File modes of a clone, which are not kept; the counters of its result, which count directories too; the
  progress of `maxDepth`, which is never reached; walks deeper than the trees of `MCClone`.

## Plan

What could come next:

1. The composition of `Fetch` with `TreeCollection`, whose fetch is one step now.
