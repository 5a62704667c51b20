-------------------------------- MODULE History --------------------------------
(***************************************************************************)
(* A repository, what a call of CommitHistory asks of it, and what it has  *)
(* to return.                                                              *)
(*                                                                         *)
(* Data abstraction.  Commits are values; of what a commit holds the model *)
(* keeps its parent (the only one the code looks at), the author's time,   *)
(* the committer's, when the commit was created, and all entries of its    *)
(* tree, submodules included.                                              *)
(***************************************************************************)
EXTENDS TreeDiff, Integers, FiniteSets

CONSTANTS
    NoCommit,   \* hash.Zero
    Padded      \* from names with blanks around them to what is left without

PaddedAssumption ==
    \A name \in DOMAIN Padded :
        name \in STRING /\ Padded[name] \in STRING /\ Padded[name] \notin DOMAIN Padded
ASSUME PaddedAssumption

VARIABLES
    call,       \* an operation, what it takes, and the repository
    foundObj,   \* what getCommit, GetBlobByPath or GetTreeByPath has found
    pages,      \* history: the commits of the pages of ListCommits so far
    changes,    \* what CompareCommits returns
    result      \* "none", "ok" or the error

repo    == call.repo
Commits == DOMAIN repo

\* strings.TrimSpace, of a name and of those of a path.
TrimSpace(name) == IF name \in DOMAIN Padded THEN Padded[name] ELSE name
Trimmed(path) == [i \in DOMAIN path |-> TrimSpace(path[i])]

-----------------------------------------------------------------------------
(* What a repository is.                                                   *)
\* What a path leads to: files and submodules, with their modes.
Under(tree, path) ==
    {<<e.path, e.hash, e.mode>> : e \in {e \in tree : e.type # "tree" /\ IsPrefix(path, e.path)}}

\* A path has one entry, below directories that have entries, none of which is empty.
GoodTree(tree) ==
    /\ IsFiniteSet(tree)
    /\ \A e, f \in tree : e.path = f.path => e = f
    /\ \A e \in tree :
        /\ e.path \in ToSet(PathOrder) /\ e.path # <<>> /\ "" \notin ToSet(e.path)
        /\ e.hash \notin {"nothing", "error"}
        /\ \A i \in 1 .. Len(e.path) - 1 :
               \E d \in tree : d.path = SubSeq(e.path, 1, i) /\ d.type = "tree"
        /\ Under(tree, e.path) # {}

\* Hashes stand for contents: that of a directory for all that is below it.
HashesOfContents(r) ==
    \A c, d \in DOMAIN r : \A e \in r[c].tree, f \in r[d].tree :
        /\ e.hash = f.hash => (e.type = "tree" <=> f.type = "tree")
        /\ e.path = f.path /\ e.type = "tree" /\ f.type = "tree" =>
            (e.hash = f.hash <=> Under(r[c].tree, e.path) = Under(r[d].tree, f.path))

\* No commit is its own ancestor.
Acyclic(r) ==
    \E age \in [DOMAIN r -> 1 .. Cardinality(DOMAIN r)] :
        \A c \in DOMAIN r : r[c].parent # NoCommit => age[r[c].parent] < age[c]

GoodRepository(r) ==
    /\ IsFiniteSet(DOMAIN r) /\ NoCommit \notin DOMAIN r
    /\ \A c \in DOMAIN r : r[c].parent \in DOMAIN r \cup {NoCommit} /\ GoodTree(r[c].tree)
    /\ Acyclic(r) /\ HashesOfContents(r)

-----------------------------------------------------------------------------
(* Reading a commit, and a path of its tree.                               *)
Wants(type) == call.wants = type
rootTree == repo[call.commit].tree
HashAt(path) == IF path = <<>> THEN "root" ELSE EntryAt(rootTree, path).hash

\* GetTreeByPath takes the blanks from around each part of its path.
Name(part) == IF Wants("tree") THEN TrimSpace(part) ELSE part

\* What a read returns is what was asked for: GetCommit the commit, GetBlobByPath and
\* GetTreeByPath what the tree has at the path, where empty parts on the way to a blob count
\* for nothing, blanks around the parts of a directory's path are none of it, and "." is the
\* root.  A path is reported missing only if no file and no directory is there (a submodule,
\* and a directory whose name has blanks around it, are to these calls as if they were not
\* there), whatever else the responses held and however the storage forgets.
Part(part) == IF Name(part) = "" THEN <<>> ELSE <<Name(part)>>
Meant == IF Wants("tree") /\ call.path = <<".">> THEN <<>>
         ELSE FlattenSeq([i \in DOMAIN call.path |-> Part(call.path[i])])
ReadsAreRight ==
    /\ (call.op = "get" /\ result = "ok") => foundObj = call.commit
    /\ (call.op = "path" /\ result = "ok") =>
        /\ foundObj = HashAt(Meant)
        /\ Meant # <<>> => Meant \in PathsOf(rootTree) /\ EntryAt(rootTree, Meant).type = call.wants
        /\ Wants("tree") => Meant \in {<<>>, Trimmed(call.path)}
    /\ (call.op = "path" /\ result = "path not found") => Meant \notin PathsOf(rootTree)

-----------------------------------------------------------------------------
(* The log.                                                                *)
\* commitMatchesFilters, of the times: the author's.
InTime(c) ==
    /\ call.since # 0 => repo[c].time >= call.since
    /\ call.until # 0 => repo[c].time <= call.until

\* The commits that ListCommits names by its docs, and git log: the ancestors of the first,
\* in order, that were created in time and change anything at the path or below it.
CreatedInTime(c) ==
    /\ call.since # 0 => repo[c].created >= call.since
    /\ call.until # 0 => repo[c].created <= call.until
Changed(c, path) ==
    Under(repo[c].tree, path)
        # IF repo[c].parent = NoCommit THEN {} ELSE Under(repo[repo[c].parent].tree, path)
Listed(c) == CreatedInTime(c) /\ (call.path # <<>> => Changed(c, Trimmed(call.path)))
Log ==
    LET log[c \in Commits] ==
            (IF Listed(c) THEN <<c>> ELSE <<>>)
                \o (IF repo[c].parent = NoCommit THEN <<>> ELSE log[repo[c].parent])
    IN  log[call.start]

\* Where the code's filters and the docs' agree: all commits were created on the side of the
\* bounds on which they were written, and the path never is a submodule, nor a file whose
\* mode alone changes.
EntriesAt(c, path) == {e \in repo[c].tree : e.path = path}
SameTimes == \A c \in Commits : InTime(c) <=> CreatedInTime(c)
SamePaths ==
    \A c \in Commits : \A e \in EntriesAt(c, Trimmed(call.path)) :
        /\ e.type # "commit"
        /\ repo[c].parent # NoCommit =>
            \A f \in EntriesAt(repo[c].parent, Trimmed(call.path)) :
                e.type # "tree" /\ f.hash = e.hash => f.mode = e.mode

\* A path that a commit may refuse: one with an empty part, or through a file.
Refusable(path) ==
    \/ \E i \in DOMAIN path : path[i] = ""
    \/ \E c \in Commits, i \in 1 .. Len(path) - 1 :
           \E e \in EntriesAt(c, SubSeq(path, 1, i)) : e.type # "tree"

\* Where the filters agree, a caller that asks for page after page until one is empty gets
\* every commit of the log once and in order, whatever size of page it names, however the
\* storage forgets between the calls, and nothing else on the way (collectCommitObjects,
\* paginateCommits).  And always, a path is refused only for what it is, never because the
\* file or directory is not there yet, or no more.
PagesAreTheLog ==
    call.op = "list" =>
        /\ SameTimes /\ SamePaths => IsPrefix(pages, Log)
        /\ SameTimes /\ SamePaths /\ result = "ok" => pages = Log
        /\ result = "path refused" => Refusable(Trimmed(call.path))

\* As ListCommits documents its bounds (commit.go:62-69, 554-558), the commits of its pages
\* are those that were created in time.
CommitsByCreation ==
    (call.op = "list" /\ call.path = <<>> /\ result = "ok") => pages = Log

\* A directory's path may end in "/", as the guide writes it (history.md:31).
DirectoriesWithSlash ==
    (call.op = "list" /\ Len(call.path) = 2 /\ call.path[1] # "" /\ call.path[2] = "") =>
        result # "path refused"

-----------------------------------------------------------------------------
(* Comparisons.                                                            *)
\* The changes that CompareCommits returns make of the files of the one commit those of the
\* other, with their modes, except at the exempt paths, and whatever they say there; and they
\* name nothing that is alike in both (compareTrees, detectRenames): see AddUp.
ChangesAddUp ==
    (call.op = "compare" /\ result = "ok") =>
        AddUp(repo[call.base].tree, repo[call.head].tree, call.detectRenames, changes)

\* As CompareCommits documents it (commit.go:128-132, 242; history.md:64-67), there is a change
\* for every file that is in one of the commits only, or differs in content or mode.
AllReported ==
    (call.op = "compare" /\ result = "ok") =>
        LET base == Files(repo[call.base].tree)
            head == Files(repo[call.head].tree)
        IN  \A f \in (base \ head) \cup (head \ base) :
                \E i \in DOMAIN changes : changes[i].path = f[1]
                    \/ (changes[i].status = "renamed" /\ changes[i].oldPath = f[1])
=============================================================================
