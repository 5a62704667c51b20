------------------------------ MODULE CommitHistory ------------------------------
(***************************************************************************)
(* Reading a repository (commit.go, blob.go, tree.go): GetCommit,          *)
(* GetBlobByPath and GetTreeByPath, a caller that reads all pages of       *)
(* ListCommits, and CompareCommits with its two goroutines.                *)
(*                                                                         *)
(* Data abstraction.  Commits are values; of what a commit holds the model *)
(* keeps its parent (the only one the code looks at), the times of author  *)
(* and committer and the entries of the tree.  A fetch is one step, which  *)
(* the storage answers if it can; trees are read in the step that needs    *)
(* them.                                                                   *)
(***************************************************************************)
EXTENDS History

CONSTANTS
    Calls,      \* records: op ("get", "path", "list" or "compare") and what that operation takes;
                \* repo, a function from commits to records with parent, time, created
                \* and tree;
                \* cached, the commits that the storage has to begin with
    DefaultPerPage, MaxPerPage,   \* 30 and 100
    Faults      \* "fetch": a request fails; "lacks": an answer without the commit;
                \* "evict": the storage forgets; "extra": an answer with other objects

ASSUME PageAssumption == DefaultPerPage \in 1 .. MaxPerPage /\ MaxPerPage \in Nat

CallsAssumption ==
    \A c \in Calls :
        /\ c.op \in {"get", "path", "list", "compare"} /\ GoodRepository(c.repo)
        /\ c.op = "path" =>
            /\ c.commit \in DOMAIN c.repo
            /\ c.wants \in {"blob", "tree"} /\ c.path \in Seq(STRING)
        /\ c.op = "list" =>
            /\ c.start \in DOMAIN c.repo
            /\ c.perPage \in Int /\ c.path \in Seq(STRING)
        /\ c.op = "compare" =>
            {c.base, c.head} \subseteq DOMAIN c.repo /\ c.detectRenames \in BOOLEAN
ASSUME CallsAssumption

VARIABLES
    pc,
    storage,    \* the commits in the storage of the context
    page,       \* the page the caller asks for next
    \* collectCommitObjects
    queue, visited, current, commitObjs,
    \* getCommit
    objects,
    at,         \* GetBlobByPath and GetTreeByPath: the directory reached
    rest,       \* and the parts of the path that are left
    \* CompareCommits
    goroutine,  \* where the goroutines are
    channel     \* what their channels hold

vars == <<pc, call, storage, page, pages, queue, visited, current, commitObjs, objects,
          foundObj, at, rest, goroutine, channel, changes, result>>
paging  == <<page, pages>>
walk    == <<queue, visited, current, commitObjs>>
getting == <<objects, foundObj, at, rest>>
comparing == <<goroutine, channel, changes>>

Sides == {"base", "head"}
Return(r) == pc' = "done" /\ result' = r

Init ==
    /\ call \in Calls /\ storage = call.cached
    /\ pc = call.op
    /\ page = 1 /\ pages = <<>>
    /\ queue = <<>> /\ visited = {} /\ current = NoCommit /\ commitObjs = <<>>
    /\ objects = {} /\ foundObj = NoCommit
    /\ at = <<>> /\ rest = <<>>
    /\ goroutine = [s \in Sides |-> "none"] /\ channel = [s \in Sides |-> "empty"]
    /\ changes = <<>>
    /\ result = "none"

\* The storage of the context is others' as well, and forgets what has not been used.
Evict ==
    /\ pc \in {"get", "list", "walk", "filter"} /\ "evict" \in Faults
    /\ \E c \in storage : storage' = storage \ {c}
    /\ UNCHANGED <<pc, call, paging, walk, getting, comparing, result>>

-----------------------------------------------------------------------------
(* GetCommit.                                                              *)
\* Fetch: the commit alone if the storage has it, else what the server sends.
GetCommit ==
    /\ pc = "get"
    /\ \/ /\ call.commit \in storage
          /\ objects' = {call.commit} /\ pc' = "scan"
          /\ UNCHANGED <<storage, result>>
       \/ /\ call.commit \notin storage
          /\ \E answer \in SUBSET (Commits \cup {"tree", "blob"}) :
                /\ call.commit \notin answer => "lacks" \in Faults
                /\ answer \ {call.commit, "tree"} # {} => "extra" \in Faults
                /\ objects' = answer /\ storage' = storage \cup (answer \cap Commits)
                /\ IF answer = {} THEN Return("not found") ELSE pc' = "scan" /\ UNCHANGED result
       \/ /\ call.commit \notin storage /\ "fetch" \in Faults
          /\ Return("error") /\ UNCHANGED <<storage, objects>>
    /\ UNCHANGED <<call, paging, walk, foundObj, at, rest, comparing>>

\* The loop over the objects, a map, in any order.
ScanObject(o) ==
    /\ pc = "scan" /\ o \in objects
    /\ objects' = objects \ {o}
    /\ \/ o = "tree" /\ UNCHANGED <<pc, foundObj, result>>
       \/ o = "blob" /\ Return("error") /\ UNCHANGED foundObj
       \/ /\ o \in Commits
          /\ IF foundObj # NoCommit THEN Return("error") /\ UNCHANGED foundObj
             ELSE /\ foundObj' = IF o = call.commit THEN o ELSE foundObj
                  /\ UNCHANGED <<pc, result>>
    /\ UNCHANGED <<call, storage, paging, walk, at, rest, comparing>>
EndScan ==
    /\ pc = "scan" /\ objects = {}
    /\ Return(IF foundObj = NoCommit THEN "not found" ELSE "ok")
    /\ UNCHANGED <<call, storage, paging, walk, getting, comparing>>

-----------------------------------------------------------------------------
(* GetBlobByPath and GetTreeByPath, in the tree of a commit.               *)
ByPathCall ==
    /\ pc = "path"
    /\ IF Wants("blob") /\ (call.path = <<>> \/ Last(call.path) = "")
       THEN Return("error") /\ UNCHANGED rest
       ELSE /\ rest' = IF Wants("tree") /\ call.path = <<".">> THEN <<>> ELSE call.path
            /\ pc' = "descend" /\ UNCHANGED result
    /\ UNCHANGED <<call, storage, paging, walk, objects, foundObj, at, comparing>>

\* getTree and GetBlob accept a response with the object they want and nothing of another
\* type; GetBlob may stumble over another blob, if the map yields it after the one it wants.
FetchFails ==
    \/ "fetch" \in Faults /\ Return("error")
    \/ "lacks" \in Faults /\ Return("not found")
    \/ "extra" \in Faults /\ Return("wrong type")

\* (Mutant: the directory entered is still the one before.)
EnteredNothing(child) == at
Entered(child) == child

\* One part of the path.  An empty one is skipped on the way to a blob.
Descend ==
    /\ pc = "descend" /\ rest # <<>>
    /\ LET part  == Name(Head(rest))
           child == Append(at, part)
           type  == IF Wants("blob") /\ Len(rest) = 1 THEN "blob" ELSE "tree"
       IN  IF part = ""
           THEN IF Wants("blob") THEN rest' = Tail(rest) /\ UNCHANGED <<pc, result, at>>
                ELSE Return("error") /\ UNCHANGED <<at, rest>>
           ELSE \/ FetchFails /\ UNCHANGED <<at, rest>>
                \/ child \notin PathsOf(rootTree) /\ Return("path not found") /\ UNCHANGED <<at, rest>>
                \/ /\ child \in PathsOf(rootTree) /\ EntryAt(rootTree, child).type # type
                   /\ Return("wrong type") /\ UNCHANGED <<at, rest>>
                \/ /\ child \in PathsOf(rootTree) /\ EntryAt(rootTree, child).type = type
                   /\ at' = Entered(child) /\ rest' = Tail(rest)
                   /\ UNCHANGED <<pc, result>>
    /\ UNCHANGED <<call, storage, paging, walk, objects, foundObj, comparing>>

\* GetTree or GetBlob of what the path has led to.
GetObject ==
    /\ pc = "descend" /\ rest = <<>>
    /\ \/ FetchFails /\ UNCHANGED foundObj
       \/ foundObj' = HashAt(at) /\ Return("ok")
    /\ UNCHANGED <<call, storage, paging, walk, objects, at, rest, comparing>>

-----------------------------------------------------------------------------
(* ListCommits.                                                            *)
\* validatePagination, of the number of commits on a page.
PerPage ==
    IF call.perPage <= 0 THEN DefaultPerPage
    ELSE IF call.perPage > MaxPerPage THEN MaxPerPage ELSE call.perPage

\* (Mutant: a page starts with the last commit of the page before.)
SkipOneLess == IF page = 1 THEN 0 ELSE (page - 1) * PerPage - 1
Skip == (page - 1) * PerPage

ListCommits ==
    /\ pc = "list"
    /\ queue' = <<call.start>> /\ visited' = {} /\ commitObjs' = <<>> /\ current' = NoCommit
    /\ pc' = "walk"
    /\ UNCHANGED <<call, storage, paging, getting, comparing, result>>

\* What a server sends with a commit: its ancestors, as many as a page has.
Sent(c) ==
    LET sent[n \in 0 .. PerPage, d \in Commits] ==
            {d} \cup IF n <= 1 \/ repo[d].parent = NoCommit THEN {}
                     ELSE sent[n - 1, repo[d].parent]
    IN  sent[PerPage, c]

\* collectCommitObjects: the next commit, up to the end of the page, and fetchCommitObject.
Visit ==
    /\ pc = "walk" /\ queue # <<>> /\ Len(commitObjs) < Skip + PerPage
    /\ queue' = Tail(queue)
    /\ LET c == Head(queue)
       IN  IF c \in visited
           THEN UNCHANGED <<pc, storage, visited, current, result>>
           ELSE /\ visited' = visited \cup {c}
                /\ current' = c
                /\ \/ c \in storage /\ pc' = "filter" /\ UNCHANGED <<storage, result>>
                   \/ /\ c \notin storage
                      /\ storage' = storage \cup Sent(c)
                      /\ pc' = "filter" /\ UNCHANGED result
                   \/ /\ c \notin storage
                      /\ {"fetch", "lacks"} \cap Faults # {}
                      /\ Return("error") /\ UNCHANGED storage
    /\ UNCHANGED <<call, paging, commitObjs, getting, comparing>>

\* hashForPath: what the path leads to, "nothing" (submodules among it), or an error where a
\* component is empty or leads through a file.
HashForPath(c, path) ==
    LET tree == repo[c].tree
        names == Trimmed(path)
        n == Len(path)
        prefix(i) == SubSeq(names, 1, i)
        exists(i) == prefix(i) \in PathsOf(tree)
        ends == {i \in 1 .. n : \/ names[i] = "" \/ ~exists(i) \/ i = n
                                \/ EntryAt(tree, prefix(i)).type # "tree"}
        i == Min(ends)
    IN  IF names[i] = "" THEN "error"
        ELSE IF ~exists(i) THEN "nothing"
        ELSE IF i = n THEN EntryAt(tree, names).hash
        ELSE "error"

\* commitAffectsPath: in which of its commits hashForPath may fail, and what it compares.
Compared(c) == IF repo[c].parent = NoCommit THEN {c} ELSE {repo[c].parent, c}
AffectsPath(c, path) ==
    IF repo[c].parent = NoCommit THEN HashForPath(c, path) # "nothing"
    ELSE HashForPath(repo[c].parent, path) # HashForPath(c, path)

\* commitMatchesFilters
Matches(c) == InTime(c) /\ (call.path # <<>> => AffectsPath(c, call.path))

\* The filters, and the next commit to visit.
Filter ==
    /\ pc = "filter"
    /\ LET c == current
           looks == InTime(c) /\ call.path # <<>>
           fails == looks /\ \E d \in Compared(c) : HashForPath(d, call.path) = "error"
       IN  \/ /\ ~fails
              /\ storage' = IF looks THEN storage \cup Compared(c) ELSE storage
              /\ commitObjs' = IF Matches(c) THEN Append(commitObjs, c) ELSE commitObjs
              /\ queue' = IF repo[c].parent = NoCommit THEN queue ELSE Append(queue, repo[c].parent)
              /\ pc' = "walk" /\ UNCHANGED result
           \/ /\ \/ fails /\ Return("path refused")
                 \/ looks /\ "fetch" \in Faults /\ Return("error")
              /\ \E some \in SUBSET Compared(c) : storage' = storage \cup some
              /\ UNCHANGED <<commitObjs, queue>>
    /\ UNCHANGED <<call, paging, visited, current, getting, comparing>>

\* paginateCommits, and the caller, who asks for pages until one is empty.
EndWalk ==
    /\ pc = "walk" /\ (queue = <<>> \/ Len(commitObjs) >= Skip + PerPage)
    /\ LET n == Len(commitObjs)
           commits == IF Skip >= n THEN <<>>
                      ELSE SubSeq(commitObjs, Skip + 1, Min({Skip + PerPage, n}))
       IN  /\ pages' = pages \o commits
           /\ page' = page + 1
           /\ IF commits = <<>> THEN Return("ok") ELSE pc' = "list" /\ UNCHANGED result
    /\ UNCHANGED <<call, storage, walk, getting, comparing>>

-----------------------------------------------------------------------------
(* CompareCommits.                                                         *)
CompareCommits ==
    /\ pc = "compare"
    /\ goroutine' = [s \in Sides |-> "running"]
    /\ pc' = "receive base"
    /\ UNCHANGED <<call, storage, paging, walk, getting, channel, changes, result>>

\* GetFlatTree
GetFlatTree(s) ==
    /\ goroutine[s] = "running"
    /\ \/ goroutine' = [goroutine EXCEPT ![s] = "tree"]
       \/ "fetch" \in Faults /\ goroutine' = [goroutine EXCEPT ![s] = "error"]
    /\ UNCHANGED <<pc, call, storage, paging, walk, getting, channel, changes, result>>

\* The channels hold one value: a goroutine can send when nobody waits for it.  (Mutant:
\* they hold none.)
Receiver(s) == pc = (IF s = "base" THEN "receive base" ELSE "receive head")
RoomIfAwaited(s) == channel[s] = "empty" /\ Receiver(s)
Room(s) == channel[s] = "empty"
Send(s) ==
    /\ goroutine[s] \in {"tree", "error"} /\ Room(s)
    /\ channel' = [channel EXCEPT ![s] = goroutine[s]]
    /\ goroutine' = [goroutine EXCEPT ![s] = "ended"]
    /\ UNCHANGED <<pc, call, storage, paging, walk, getting, changes, result>>

\* The base first: when it fails, nobody waits for the head any more.
Receive(s) ==
    /\ Receiver(s) /\ channel[s] # "empty"
    /\ channel' = [channel EXCEPT ![s] = "empty"]
    /\ IF channel[s] = "error" THEN Return("error") /\ UNCHANGED changes
       ELSE IF s = "base" THEN pc' = "receive head" /\ UNCHANGED <<changes, result>>
       ELSE /\ changes' = CompareTrees(repo[call.base].tree, repo[call.head].tree, call.detectRenames)
            /\ Return("ok")
    /\ UNCHANGED <<call, storage, paging, walk, getting, goroutine>>

-----------------------------------------------------------------------------
Step ==
    \/ GetCommit \/ (\E o \in objects : ScanObject(o)) \/ EndScan
    \/ ByPathCall \/ Descend \/ GetObject
    \/ ListCommits \/ Visit \/ Filter \/ EndWalk
    \/ CompareCommits
    \/ \E s \in Sides : GetFlatTree(s) \/ Send(s) \/ Receive(s)
Next == Step \/ Evict
Spec == Init /\ [][Next]_vars

\* Goroutines run and requests end, with or without success.
FairSpec == Spec /\ WF_vars(Step)

-----------------------------------------------------------------------------
(* Properties.                                                             *)
\* Every call returns, and every goroutine ends, also the one that reads the head when the
\* base has failed and nobody receives its tree.
EverythingEnds ==
    /\ <>(pc = "done")
    /\ \A s \in Sides : goroutine[s] = "running" ~> goroutine[s] = "ended"
=============================================================================
