----------------------------- MODULE StagedWriter -----------------------------
(***************************************************************************)
(* The staged writer of nanogit (writer.go): an in-memory index of the     *)
(* tree of one branch that API calls edit, that Commit turns into Git tree *)
(* and commit objects, and that Push sends to the server as one            *)
(* compare-and-swap of the branch.                                         *)
(*                                                                         *)
(* Data abstraction.  A path is a sequence of names.  A Git hash is the    *)
(* value it is the hash of, so that equal objects have equal hashes: a     *)
(* blob is its content, a tree its listing, a gitlink the commit it names. *)
(* A commit is a number that indexes the history variable `commits', which *)
(* gives its root tree and the set of its ancestors.                       *)
(*                                                                         *)
(* A push of commits that succeeds was applied.  That ReceivePack also     *)
(* takes an answer without a report for a success is left to PushTransport *)
(* (SuccessIsAcceptance): the writer would then let go of a pack that the  *)
(* server does not have.                                                   *)
(***************************************************************************)
EXTENDS Naturals, Sequences, SequencesExt

CONSTANTS
    Names,       \* the names a path component may take
    Paths,       \* the paths API calls may use: nonempty, prefix-closed
    Contents,    \* the contents a blob may be given
    Links,       \* the commits of other repositories that submodules point to
    NoLink,      \* "no submodule here"
    Repos,       \* the branch heads NewStagedWriter may find
    Ops,         \* the API calls the caller makes
    Careful,     \* the disciplines the caller follows, a subset of Disciplines
    Faults,      \* the failures of the environment, a subset of FaultKinds
    MaxEdits,    \* bound: staging calls that change something
    MaxCommits   \* bound: commits in the history, those of other clients included

VARIABLES
    treeEntries,      \* stagedWriter.treeEntries, for every path
    submoduleEntries, \* stagedWriter.submoduleEntries, for every path
    dirtyPaths,       \* stagedWriter.dirtyPaths; during Commit, those not yet built
    lastTree,         \* stagedWriter.lastTree: the root tree
    lastCommit,       \* stagedWriter.lastCommit
    refHash,          \* stagedWriter.ref.Hash: the value Push expects on the server
    packObjects,      \* blobs and trees held by the current PackfileWriter
    packCommits,      \* commits held by the current PackfileWriter
    packClosed,       \* PackfileWriter.isCleanedUp after a Cleanup that failed
    isCleanedUp,      \* stagedWriter.isCleanedUp
    phase             \* "idle", or "building" inside Commit

VARIABLES
    remoteRef,        \* the branch on the server
    remoteObjects,    \* blobs and trees the server has
    remoteCommits     \* commits the server has

VARIABLES  \* history and bounds; the program has no such state
    commits,          \* the root tree and the ancestors of every commit made
    numCommits,       \* how many there are
    editedSince,      \* an API call changed something since the last commit
    edits             \* how many staging calls changed something

index    == <<treeEntries, submoduleEntries, dirtyPaths, lastTree>>
pack     == <<packObjects, packCommits, packClosed>>
server   == <<remoteRef, remoteObjects, remoteCommits>>
history  == <<commits, numCommits>>
vars     == <<index, lastCommit, refHash, pack, isCleanedUp, phase, server,
              history, editedSince, edits>>

(***************************************************************************)
(* What the caller may promise, and what the environment may do.  The      *)
(* disciplines are preconditions the code does not check.                  *)
(***************************************************************************)
Disciplines == {
    "plainParents",  \* no blob is put below a path that is a blob
    "blobUpdates",   \* UpdateBlob only where there is a blob
    "freshNames",    \* no blob is put at a path still marked as a dirty directory
    "settledMoves",  \* MoveTree only of directories with nothing staged below
    "noShadow",      \* nothing is put at or below the path of a submodule
    "pushCommits",   \* Push only when a commit waits for it
    "pushSettled",   \* Push only when nothing is staged after the last commit
    "pushEach"       \* after a Commit, Push before staging anything else
  }

FaultKinds == {"disk", "signer", "lostReply", "foreign"}

-----------------------------------------------------------------------------
(***************************************************************************)
(* Objects, entries and paths.                                             *)
(***************************************************************************)
Root == <<>>
Dirs == Paths \cup {Root}

Zero == [kind |-> "zero"]                       \* hash.Zero
Blob(c) == [kind |-> "blob", content |-> c]
Tree(listing) == [kind |-> "tree", listing |-> listing]
Gitlink(l) == [kind |-> "gitlink", link |-> l]
ForeignTree(i) == [kind |-> "foreign", by |-> i]

Entry(t, h) == [type |-> t, hash |-> h]
Absent == Entry("none", Zero)
NewDir == Entry("tree", Zero)                   \* its hash is computed by Commit

Present(E, p) == E[p].type # "none"
IsTree(E, p) == E[p].type = "tree"
IsBlob(E, p) == E[p].type = "blob"

Ancestors(p) == {q \in Paths : Len(q) < Len(p) /\ IsPrefix(q, p)}
Subtree(p) == {q \in Paths : IsPrefix(p, q)}    \* p and everything below it

\* The path that MoveTree(src, dest) gives to a path q of the subtree of src.
Rebase(q, src, dest) == dest \o SubSeq(q, Len(src) + 1, Len(q))

\* One line of a tree listing: a staged entry wins over a submodule.
Child(E, S, q) ==
    IF q \notin Paths THEN Absent
    ELSE IF Present(E, q) THEN E[q]
    ELSE IF S[q] # NoLink THEN Entry("commit", Gitlink(S[q]))
    ELSE Absent

Listing(E, S, p) == [n \in Names |-> Child(E, S, Append(p, n))]

EmptyTree == Tree([n \in Names |-> Absent])

(***************************************************************************)
(* What NewStagedWriter relies on: the flat tree, the submodules and the   *)
(* root tree that it read are those of one commit the server has.          *)
(***************************************************************************)
Closed(objs) ==
    \A o \in objs : o.kind = "tree" =>
        \A n \in Names : o.listing[n].type \in {"blob", "tree"}
                             => o.listing[n].hash \in objs

IsIndex(E) ==
    /\ E = [p \in Paths |-> Entry(E[p].type, E[p].hash)]
    /\ \A p \in Paths : E[p].type \in {"none", "blob", "tree"}

NoOrphans(E, S) ==
    \A p \in Paths :
        Present(E, p) \/ S[p] # NoLink => \A q \in Ancestors(p) : IsTree(E, q)

\* flatten gives a path to the entries or to the submodules, not to both.
Apart(E, S) == \A p \in Paths : S[p] # NoLink => ~Present(E, p)

Fresh(E, S, root, p) ==
    IF p = Root THEN root = Tree(Listing(E, S, Root))
    ELSE IsTree(E, p) => E[p].hash = Tree(Listing(E, S, p))

Consistent(r) ==
    /\ IsIndex(r.entries)
    /\ r.links \in [Paths -> Links \cup {NoLink}]
    /\ NoOrphans(r.entries, r.links)
    /\ Apart(r.entries, r.links)
    /\ \A p \in Paths : IsBlob(r.entries, p) => r.entries[p].hash \in {Blob(c) : c \in Contents}
    /\ \A p \in Dirs : Fresh(r.entries, r.links, r.tree, p)
    /\ Closed(r.objects)
    /\ r.tree \in r.objects
    /\ \A p \in Paths : Present(r.entries, p) => r.entries[p].hash \in r.objects

ASSUME PathsAssumption ==
    \A p \in Paths :
        /\ p \in Seq(Names) /\ p # Root
        /\ \A i \in 1 .. Len(p) - 1 : SubSeq(p, 1, i) \in Paths

ASSUME LinksAssumption == NoLink \notin Links

ASSUME ReposAssumption == \A r \in Repos : Consistent(r)

\* Mutant: blobs are all that counts.
HasBlobs == ~packClosed /\ \E o \in packObjects : o.kind = "blob"
HasObjects == ~packClosed /\ (packObjects # {} \/ packCommits # {})

Lineage(i) == commits[i].past \cup {i}            \* commit i and its ancestors

-----------------------------------------------------------------------------
(***************************************************************************)
(* Marking directories.  Both walks go from the root towards p and stop at *)
(* the first ancestor that will not do, keeping the marks made before it;  *)
(* the root is marked last.                                                *)
(***************************************************************************)
BlobsAbove(E, p) == {q \in Ancestors(p) : IsBlob(E, q)}
NonTreesAbove(E, p) == {q \in Ancestors(p) : ~IsTree(E, q)}

Before(p, stops) == {q \in Ancestors(p) : \A s \in stops : Len(q) < Len(s)}

Marked(p, stops) == Before(p, stops) \cup (IF stops = {} THEN {Root} ELSE {})

\* addMissingOrStaleTreeEntries: directories that are missing are created ...
WithMissingDirs(E, p) ==
    [q \in Paths |-> IF q \in Before(p, BlobsAbove(E, p)) /\ ~Present(E, q)
                     THEN NewDir ELSE E[q]]
\* ... and every directory passed is marked.  (Mutant: the root only when p is
\* directly below it.)
MarkedByAddBelowRoot(E, p) ==
    Before(p, BlobsAbove(E, p)) \cup (IF Len(p) = 1 THEN {Root} ELSE {})
MarkedByAdd(E, p) == Marked(p, BlobsAbove(E, p))

\* removeBlobFromTree and removeTreeFromTree: missing directories are errors.
MarkedByRemove(E, p) == Marked(p, NonTreesAbove(E, p))

-----------------------------------------------------------------------------
(***************************************************************************)
(* Initial states: NewStagedWriter has read the head commit of the branch, *)
(* its root tree, its flat tree and its submodules.                        *)
(***************************************************************************)
Init ==
    \E r \in Repos :
        /\ treeEntries = r.entries
        /\ submoduleEntries = r.links
        /\ dirtyPaths = {}
        /\ lastTree = r.tree
        /\ lastCommit = 1 /\ refHash = 1
        /\ packObjects = {} /\ packCommits = {} /\ packClosed = FALSE
        /\ isCleanedUp = FALSE
        /\ phase = "idle"
        /\ remoteRef = 1
        /\ remoteObjects = r.objects
        /\ remoteCommits = {1}
        /\ commits = [i \in {1} |-> [tree |-> r.tree, past |-> {}]]
        /\ numCommits = 1
        /\ editedSince = FALSE
        /\ edits = 0

-----------------------------------------------------------------------------
(***************************************************************************)
(* Staging.  Each action is one API call that passes its checks; a call    *)
(* that fails one changes nothing.  A call whose path walk is stopped      *)
(* returns an error too, but what it changed before stays changed.         *)
(***************************************************************************)
Staging(op) ==
    /\ op \in Ops
    /\ ~isCleanedUp /\ phase = "idle"
    /\ edits < MaxEdits /\ edits' = edits + 1
    /\ editedSince' = TRUE
    /\ "pushEach" \in Careful => packCommits = {}
    /\ UNCHANGED <<lastCommit, refHash, packCommits, packClosed, isCleanedUp,
                   phase, server, history>>

Unshadowing(p) ==
    "noShadow" \in Careful =>
        \A q \in Ancestors(p) \cup {p} : submoduleEntries[q] = NoLink

\* What a careful caller sees to before a blob appears at p.
MayPut(p) ==
    /\ "plainParents" \in Careful => BlobsAbove(treeEntries, p) = {}
    /\ "freshNames" \in Careful => p \notin dirtyPaths
    /\ Unshadowing(p)

\* PackfileWriter.AddObject returns no error: an object it cannot store is dropped.
AddObject(o) ==
    \/ ~packClosed /\ packObjects' = packObjects \cup {o}
    \/ (packClosed \/ "disk" \in Faults) /\ UNCHANGED packObjects

PutBlob(p, c) ==
    LET E == [treeEntries EXCEPT ![p] = Entry("blob", Blob(c))]
    IN  /\ ~packClosed              \* AddBlob fails on a closed writer
        /\ MayPut(p)
        /\ packObjects' = packObjects \cup {Blob(c)}
        /\ treeEntries' = WithMissingDirs(E, p)
        /\ dirtyPaths' = dirtyPaths \cup MarkedByAdd(E, p)
        /\ UNCHANGED <<submoduleEntries, lastTree>>

CreateBlob(p, c) ==
    /\ Staging("CreateBlob")
    /\ ~Present(treeEntries, p)
    /\ PutBlob(p, c)

UpdateBlob(p, c) ==
    /\ Staging("UpdateBlob")
    /\ Present(treeEntries, p)
    /\ "blobUpdates" \in Careful => IsBlob(treeEntries, p)
    /\ PutBlob(p, c)

DeleteBlob(p) ==
    LET E == [treeEntries EXCEPT ![p] = Absent]
    IN  /\ Staging("DeleteBlob")
        /\ IsBlob(treeEntries, p)
        /\ treeEntries' = E
        /\ dirtyPaths' = dirtyPaths \cup MarkedByRemove(E, p)
        /\ UNCHANGED <<submoduleEntries, lastTree, packObjects>>

MoveBlob(src, dest) ==
    LET E1 == [treeEntries EXCEPT ![dest] = Entry("blob", treeEntries[src].hash)]
        E2 == WithMissingDirs(E1, dest)
        E3 == [E2 EXCEPT ![src] = Absent]
        marked == dirtyPaths \cup MarkedByAdd(E1, dest)
    IN  /\ Staging("MoveBlob")
        /\ src # dest
        /\ IsBlob(treeEntries, src)
        /\ ~Present(treeEntries, dest)
        /\ MayPut(dest)
        /\ "plainParents" \in Careful => src \notin Ancestors(dest)
        /\ \/ /\ BlobsAbove(E1, dest) # {}
              /\ treeEntries' = E2
              /\ dirtyPaths' = marked
           \/ /\ BlobsAbove(E1, dest) = {}
              /\ treeEntries' = E3
              /\ dirtyPaths' = marked \cup MarkedByRemove(E3, src)
        /\ UNCHANGED <<submoduleEntries, lastTree, packObjects>>

\* (Mutant: the submodules below p are kept.)
DeleteTreeOfEntries(p) ==
    LET E == [q \in Paths |-> IF q \in Subtree(p) THEN Absent ELSE treeEntries[q]]
    IN  /\ Staging("DeleteTree")
        /\ IsTree(treeEntries, p)
        /\ treeEntries' = E
        /\ dirtyPaths' = dirtyPaths \cup MarkedByRemove(E, p)
        /\ UNCHANGED <<submoduleEntries, lastTree, packObjects>>

DeleteTree(p) ==
    LET E == [q \in Paths |-> IF q \in Subtree(p) THEN Absent ELSE treeEntries[q]]
    IN  /\ Staging("DeleteTree")
        /\ IsTree(treeEntries, p)
        /\ treeEntries' = E
        /\ submoduleEntries' = [q \in Paths |->
               IF q \in Subtree(p) THEN NoLink ELSE submoduleEntries[q]]
        /\ dirtyPaths' = dirtyPaths \cup MarkedByRemove(E, p)
        /\ UNCHANGED <<lastTree, packObjects>>

\* DeleteTree("") and DeleteTree(".").  (Mutant: the empty tree is not sent.)
DeleteRootUnsent ==
    /\ Staging("DeleteRoot")
    /\ treeEntries' = [q \in Paths |-> Absent]
    /\ submoduleEntries' = [q \in Paths |-> NoLink]
    /\ dirtyPaths' = {}
    /\ lastTree' = EmptyTree
    /\ UNCHANGED packObjects

DeleteRoot ==
    /\ Staging("DeleteRoot")
    /\ AddObject(EmptyTree)
    /\ treeEntries' = [q \in Paths |-> Absent]
    /\ submoduleEntries' = [q \in Paths |-> NoLink]
    /\ dirtyPaths' = {}
    /\ lastTree' = EmptyTree

\* q lies below dest and is the new place of a path of src's subtree.
Arrives(q, src, dest) == q \in Subtree(dest) /\ Rebase(q, dest, src) \in Paths

\* moveTreeEntries: every entry is copied to its new path, then the originals go.
MovedEntries(src, dest) ==
    [q \in Paths |->
        IF q \in Subtree(src) /\ Present(treeEntries, q) THEN Absent
        ELSE IF /\ Arrives(q, src, dest)
                /\ Present(treeEntries, Rebase(q, dest, src))
             THEN treeEntries[Rebase(q, dest, src)]
             ELSE treeEntries[q]]

\* reparentSubmodules.
ReparentedSubmodules(src, dest) ==
    [q \in Paths |->
        IF /\ Arrives(q, src, dest)
           /\ submoduleEntries[Rebase(q, dest, src)] # NoLink
        THEN submoduleEntries[Rebase(q, dest, src)]
        ELSE IF q \in Subtree(src) THEN NoLink ELSE submoduleEntries[q]]

MoveTree(src, dest) ==
    LET E1 == MovedEntries(src, dest)
        E2 == WithMissingDirs(E1, dest)
        marked == dirtyPaths \cup MarkedByAdd(E1, dest)
    IN  /\ Staging("MoveTree")
        /\ src # dest
        /\ IsTree(treeEntries, src)
        /\ ~Present(treeEntries, dest)
        /\ \A q \in Subtree(src) :   \* bound: what moves stays within Paths
               Present(treeEntries, q) \/ submoduleEntries[q] # NoLink
                   => Rebase(q, src, dest) \in Paths
        /\ "settledMoves" \in Careful => Subtree(src) \cap dirtyPaths = {}
        /\ "plainParents" \in Careful => BlobsAbove(treeEntries, dest) = {}
        /\ "freshNames" \in Careful => Subtree(dest) \cap dirtyPaths = {}
        /\ Unshadowing(dest)
        /\ treeEntries' = E2
        /\ submoduleEntries' = ReparentedSubmodules(src, dest)
        /\ \/ /\ BlobsAbove(E1, dest) # {}
              /\ dirtyPaths' = marked
           \/ /\ BlobsAbove(E1, dest) = {}
              /\ dirtyPaths' = marked \cup MarkedByRemove(E2, src)
        /\ UNCHANGED <<lastTree, packObjects>>

-----------------------------------------------------------------------------
(***************************************************************************)
(* Commit.  buildPendingTrees builds one dirty directory at a time, the    *)
(* deepest first, so that a parent lists the new hashes of its children;   *)
(* then the commit object is made of the root tree and the last commit.    *)
(***************************************************************************)
Committing == phase = "building" /\ dirtyPaths = {}

BeginCommit ==
    /\ "Commit" \in Ops
    /\ ~isCleanedUp /\ phase = "idle"
    /\ numCommits < MaxCommits
    /\ phase' = "building"
    /\ UNCHANGED <<index, lastCommit, refHash, pack, isCleanedUp, server, history,
                   editedSince, edits>>

\* The order of buildPendingTrees.  (Mutant: parents first.)
Shallowest(p) == \A q \in dirtyPaths : Len(p) <= Len(q)
Deepest(p) == \A q \in dirtyPaths : Len(q) <= Len(p)

\* A dirty path that no longer exists is skipped, whatever else it once was.
BuildSingleTree(p) ==
    LET t == Tree(Listing(treeEntries, submoduleEntries, p))
        gone == p # Root /\ ~Present(treeEntries, p)
    IN  /\ phase = "building"
        /\ p \in dirtyPaths
        /\ Deepest(p)
        /\ dirtyPaths' = dirtyPaths \ {p}
        /\ \/ gone /\ UNCHANGED <<treeEntries, lastTree, packObjects>>
           \/ /\ ~gone
              /\ AddObject(t)
              /\ lastTree' = IF p = Root THEN t ELSE lastTree
              /\ treeEntries' = [q \in Paths |->
                     IF q = p THEN Entry(treeEntries[q].type, t) ELSE treeEntries[q]]
        /\ UNCHANGED <<submoduleEntries, lastCommit, refHash, packCommits, packClosed,
                       isCleanedUp, phase, server, history, editedSince, edits>>

NothingToCommit ==                \* ErrNothingToCommit
    /\ Committing /\ ~HasObjects
    /\ phase' = "idle"
    /\ UNCHANGED <<index, lastCommit, refHash, pack, isCleanedUp, server, history,
                   editedSince, edits>>

\* The ancestors of the commit being made.  (Mutant: its parent is read after
\* lastCommit has become the commit itself.)
PastReadLate(new) == Lineage(lastCommit) \cup {new}
Past(new) == Lineage(lastCommit)

AddCommit ==
    LET new == numCommits + 1
    IN  /\ Committing /\ HasObjects
        /\ phase' = "idle"
        /\ numCommits' = new
        /\ commits' = [i \in 1 .. new |->
               IF i = new
               THEN [tree |-> lastTree, past |-> Past(new)]
               ELSE commits[i]]
        /\ packCommits' = packCommits \cup {new}
        /\ lastCommit' = new
        /\ editedSince' = FALSE
        /\ UNCHANGED <<index, refHash, packObjects, packClosed, isCleanedUp, server, edits>>

\* Mutant: the failure throws the pack away.
AddCommitFailsEmptied ==
    /\ Committing /\ HasObjects
    /\ Faults \cap {"signer", "disk"} # {}
    /\ phase' = "idle"
    /\ packObjects' = {} /\ packCommits' = {}
    /\ UNCHANGED <<index, lastCommit, refHash, packClosed, isCleanedUp, server, history,
                   editedSince, edits>>
AddCommitFails ==                 \* the signer or the disk: the trees stay built
    /\ Committing /\ HasObjects
    /\ Faults \cap {"signer", "disk"} # {}
    /\ phase' = "idle"
    /\ UNCHANGED <<index, lastCommit, refHash, pack, isCleanedUp, server, history,
                   editedSince, edits>>

-----------------------------------------------------------------------------
(***************************************************************************)
(* Push.  The request carries refHash as the value the branch must have,   *)
(* lastCommit as its new value and every object of the pack.  The server   *)
(* takes all of it or nothing.  WritePackfile refuses to write a pack      *)
(* without a commit, which ends the request body before its first byte.    *)
(***************************************************************************)
MayPush ==
    /\ "Push" \in Ops
    /\ ~isCleanedUp /\ phase = "idle" /\ HasObjects
    /\ "pushCommits" \in Careful => packCommits # {}
    /\ "pushSettled" \in Careful => ~editedSince

\* The value the request says the branch has.  (Mutant: the one it has now.)
CurrentValue == remoteRef
OldValue == refHash

ServerApplies ==
    /\ packCommits # {}
    /\ remoteRef = OldValue
    /\ remoteRef' = lastCommit
    /\ remoteObjects' = remoteObjects \cup packObjects
    /\ remoteCommits' = remoteCommits \cup packCommits

\* pruneSubmoduleEntriesAfterPush.
PrunedSubmodules ==
    [q \in Paths |->
        IF Present(treeEntries, q) \/ NonTreesAbove(treeEntries, q) # {}
        THEN NoLink ELSE submoduleEntries[q]]

\* What Push does once ReceivePack returned no error.
Acknowledged ==
    /\ packObjects' = {} /\ packCommits' = {} /\ packClosed' = FALSE
    /\ refHash' = lastCommit
    /\ submoduleEntries' = PrunedSubmodules
    /\ UNCHANGED <<treeEntries, dirtyPaths, lastTree, lastCommit, isCleanedUp, phase,
                   history, editedSince, edits>>

PushAccepted == MayPush /\ ServerApplies /\ Acknowledged

\* The request has no body and the response no report: ReceivePack returns nil.
PushOfNothing ==
    /\ MayPush /\ packCommits = {}
    /\ UNCHANGED server
    /\ Acknowledged

\* The server moved the branch, but ReceivePack fails before it learns so.
\* (Mutant: the pack is replaced before the answer is known.)
PushReplyLostEmptied ==
    /\ MayPush /\ ServerApplies
    /\ "lostReply" \in Faults
    /\ packObjects' = {} /\ packCommits' = {}
    /\ UNCHANGED <<index, lastCommit, refHash, packClosed, isCleanedUp, phase, history,
                   editedSince, edits>>
PushReplyLost ==
    /\ MayPush /\ ServerApplies
    /\ "lostReply" \in Faults
    /\ UNCHANGED <<index, lastCommit, refHash, pack, isCleanedUp, phase, history,
                   editedSince, edits>>

\* Another client pushes a commit made on the current head of the branch.
ForeignPush ==
    LET new == numCommits + 1
    IN  /\ "foreign" \in Faults
        /\ new <= MaxCommits
        /\ numCommits' = new
        /\ commits' = [i \in 1 .. new |->
               IF i = new
               THEN [tree |-> ForeignTree(new),
                     past |-> Lineage(remoteRef)]
               ELSE commits[i]]
        /\ remoteRef' = new
        /\ remoteObjects' = remoteObjects \cup {ForeignTree(new)}
        /\ remoteCommits' = remoteCommits \cup {new}
        /\ UNCHANGED <<index, lastCommit, refHash, pack, isCleanedUp, phase,
                       editedSince, edits>>

-----------------------------------------------------------------------------
(***************************************************************************)
(* Cleanup.  When the PackfileWriter cannot remove its temporary file it   *)
(* has closed itself all the same, and the staged writer is left open.     *)
(***************************************************************************)
Cleanup ==
    /\ "Cleanup" \in Ops
    /\ ~isCleanedUp /\ phase = "idle" /\ ~packClosed
    /\ packObjects' = {} /\ packCommits' = {}
    /\ \/ /\ isCleanedUp' = TRUE
          /\ treeEntries' = [q \in Paths |-> Absent]
          /\ submoduleEntries' = [q \in Paths |-> NoLink]
          /\ dirtyPaths' = {}
          /\ UNCHANGED <<lastTree, packClosed>>
       \/ /\ "disk" \in Faults
          /\ packClosed' = TRUE
          /\ UNCHANGED <<index, isCleanedUp>>
    /\ UNCHANGED <<lastCommit, refHash, phase, server, history, editedSince, edits>>

-----------------------------------------------------------------------------
Stage ==
    \/ \E p \in Paths, c \in Contents : CreateBlob(p, c) \/ UpdateBlob(p, c)
    \/ \E p \in Paths : DeleteBlob(p) \/ DeleteTree(p)
    \/ \E p, q \in Paths : MoveBlob(p, q) \/ MoveTree(p, q)
    \/ DeleteRoot

Commit ==
    \/ BeginCommit
    \/ \E p \in Dirs : BuildSingleTree(p)
    \/ NothingToCommit \/ AddCommit \/ AddCommitFails

Push == PushAccepted \/ PushOfNothing \/ PushReplyLost

Next == Stage \/ Commit \/ Push \/ ForeignPush \/ Cleanup

Spec == Init /\ [][Next]_vars
-----------------------------------------------------------------------------
(***************************************************************************)
(* What must hold.                                                         *)
(***************************************************************************)
IndexTypeOK ==
    /\ IsIndex(treeEntries)
    /\ submoduleEntries \in [Paths -> Links \cup {NoLink}]
    /\ dirtyPaths \subseteq Dirs

HistoryTypeOK ==
    /\ numCommits \in Nat \ {0}
    /\ {lastCommit, refHash, remoteRef} \subseteq 1 .. numCommits
    /\ packCommits \subseteq 1 .. numCommits
    /\ remoteCommits \subseteq 1 .. numCommits
    /\ commits = [i \in 1 .. numCommits |->
                     [tree |-> commits[i].tree, past |-> commits[i].past]]
    /\ \A i \in 1 .. numCommits : commits[i].past \subseteq 1 .. (i - 1)

\* The state has the shape of the program's data, and the history of the
\* commits has no cycle: the parent of a commit is older than it.
TypeOK ==
    /\ IndexTypeOK
    /\ HistoryTypeOK
    /\ packClosed \in BOOLEAN /\ isCleanedUp \in BOOLEAN /\ editedSince \in BOOLEAN
    /\ phase \in {"idle", "building"}
    /\ edits \in Nat

\* A directory that is not marked has the hash of what it now lists.  Commit
\* rebuilds the marked ones only, so this is what makes the root tree of a
\* commit the tree that was staged.
UnmarkedIsFresh ==
    ~isCleanedUp =>
        \A p \in Dirs \ dirtyPaths : Fresh(treeEntries, submoduleEntries, lastTree, p)

\* Around it, the bookkeeping it depends on: no entry is left below a path
\* that is not a directory, a marked path has all its ancestors marked, the
\* root included, and a marked path is a directory or is gone, so that
\* rebuilding it never overwrites the hash of a blob.
IndexSound ==
    /\ NoOrphans(treeEntries, submoduleEntries)
    /\ \A p \in dirtyPaths \ {Root} :
           Ancestors(p) \cup {Root} \subseteq dirtyPaths /\ ~IsBlob(treeEntries, p)
    /\ UnmarkedIsFresh

Sendable == remoteObjects \cup packObjects

\* A request can always be completed by the server: whatever a staged entry,
\* a commit or a tree object refers to is in the pack or was sent before.
NothingMissing ==
    ~isCleanedUp /\ ~packClosed =>
        /\ Closed(Sendable)
        /\ lastTree \in Sendable \/ Root \in dirtyPaths
        /\ \A p \in Paths \ dirtyPaths :
               Present(treeEntries, p) => treeEntries[p].hash \in Sendable
        /\ \A i \in Lineage(lastCommit) :
               /\ commits[i].tree \in Sendable
               /\ i \in remoteCommits \cup packCommits

\* The branch on the server only ever names a commit whose history and whose
\* trees and blobs the server has, whoever pushed last and whatever was lost.
ServerConnected ==
    /\ Closed(remoteObjects)
    /\ remoteRef \in remoteCommits
    /\ \A i \in remoteCommits :
           /\ commits[i].past \subseteq remoteCommits
           /\ commits[i].tree \in remoteObjects

\* Every move of the branch is a fast-forward: no push drops a commit that
\* another client pushed meanwhile, and no retry of a push that had already
\* been applied moves the branch again.
OnlyFastForward ==
    [][remoteRef' # remoteRef => remoteRef \in commits'[remoteRef'].past]_vars

\* The value Push expects on the server is lastCommit or one of its
\* ancestors, and the commits made since are all still in the pack: after any
\* failure of a push, the next one still carries them.
UnpushedRetained ==
    /\ refHash \in Lineage(lastCommit)
    /\ ~isCleanedUp /\ ~packClosed =>
           Lineage(lastCommit) = Lineage(refHash) \cup packCommits

\* Commit answers ErrNothingToCommit only when the staged tree is the tree of
\* the last commit.
NothingToCommitIsTrue ==
    Committing /\ ~HasObjects /\ ~packClosed => lastTree = commits[lastCommit].tree

\* The content that a tree has at a path: the walk a reader of the commit makes.
Resolve(t, p) ==
    LET at[i \in 0 .. Len(p)] ==
            IF i = 0 THEN Entry("tree", t)
            ELSE IF at[i - 1].type = "tree" /\ at[i - 1].hash.kind = "tree"
                 THEN at[i - 1].hash.listing[p[i]]
                 ELSE Absent
    IN  at[Len(p)]

GitlinksIn(t) ==
    {r \in {Resolve(t, p) : p \in Paths} : r.type = "commit"}

\* A submodule that a commit removed from the tree, whether it was deleted,
\* its directory was, or another entry was put in its place, does not come
\* back with a later commit.
NoGitlinkRevival ==
    [][GitlinksIn(commits'[lastCommit'].tree) \subseteq GitlinksIn(commits[lastCommit].tree)]_vars

=============================================================================
