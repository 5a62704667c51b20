-------------------------- MODULE StagedWriterProofs --------------------------
(***************************************************************************)
(* What TLAPS proves of StagedWriter, for all paths, contents, submodules  *)
(* and repositories, and for every number of edits and commits.  Type      *)
(* correctness, and what is kept of commits that were not pushed, hold     *)
(* whatever the caller and the environment do.  That the index is sound,   *)
(* that a push is complete and that ErrNothingToCommit is true hold for a  *)
(* caller that keeps some of the Disciplines: each of these theorems names *)
(* those it needs.                                                         *)
(***************************************************************************)
EXTENDS StagedWriterRefines, SequenceTheorems, WellFoundedInduction, TLAPS

(***************************************************************************)
(* The index stays a map from all paths to entries.                        *)
(***************************************************************************)
\* An index changed at one path is an index.
LEMMA IndexExcept ==
    ASSUME NEW E, IsIndex(E), NEW p \in Paths, NEW t \in {"none", "blob", "tree"}, NEW h
    PROVE  IsIndex([E EXCEPT ![p] = Entry(t, h)])
BY DEF IsIndex, Entry

\* So is one that takes every entry from an index or from those of Absent and
\* NewDir.
LEMMA IndexOf ==
    ASSUME NEW E, E = [q \in Paths |-> E[q]],
           \A q \in Paths : \E t \in {"none", "blob", "tree"} : \E h : E[q] = Entry(t, h)
    PROVE  IsIndex(E)
<1>1. ASSUME NEW q \in Paths
      PROVE  E[q] = Entry(E[q].type, E[q].hash) /\ E[q].type \in {"none", "blob", "tree"}
  <2>1. PICK t \in {"none", "blob", "tree"} : \E h : E[q] = Entry(t, h)
    OBVIOUS
  <2>2. PICK h : E[q] = Entry(t, h)
    BY <2>1
  <2> QED
    BY <2>2 DEF Entry
<1> QED
  BY <1>1 DEF IsIndex

LEMMA EntryOf ==
    ASSUME NEW E, IsIndex(E), NEW q \in Paths
    PROVE  \E t \in {"none", "blob", "tree"} : \E h : E[q] = Entry(t, h)
BY DEF IsIndex

LEMMA IndexWithMissingDirs ==
    ASSUME NEW E, IsIndex(E), NEW p
    PROVE  IsIndex(WithMissingDirs(E, p))
<1> DEFINE F == WithMissingDirs(E, p)
<1>1. F = [q \in Paths |-> F[q]]
  BY DEF WithMissingDirs
<1>2. ASSUME NEW q \in Paths
      PROVE  \E t \in {"none", "blob", "tree"} : \E h : F[q] = Entry(t, h)
  <2>1. F[q] = NewDir \/ F[q] = E[q]
    BY DEF WithMissingDirs
  <2> QED
    BY <2>1, EntryOf DEF NewDir
<1> HIDE DEF F
<1>3. IsIndex(F)
  BY <1>1, <1>2, IndexOf
<1> QED
  BY <1>3 DEF F

LEMMA IndexCleared ==
    ASSUME NEW E, IsIndex(E), NEW D
    PROVE  IsIndex([q \in Paths |-> IF q \in D THEN Absent ELSE E[q]])
<1> DEFINE F == [q \in Paths |-> IF q \in D THEN Absent ELSE E[q]]
<1>1. ASSUME NEW q \in Paths
      PROVE  \E t \in {"none", "blob", "tree"} : \E h : F[q] = Entry(t, h)
  BY EntryOf DEF Absent
<1>2. F = [q \in Paths |-> F[q]]
  OBVIOUS
<1> HIDE DEF F
<1>3. IsIndex(F)
  BY <1>1, <1>2, IndexOf
<1> QED
  BY <1>3 DEF F

LEMMA IndexEmpty == IsIndex([q \in Paths |-> Absent])
BY DEF IsIndex, Absent, Entry

\* The marks of a walk are directories of the index.
LEMMA MarkedDirs ==
    ASSUME NEW p, NEW stops
    PROVE  Marked(p, stops) \subseteq Dirs
BY DEF Marked, Before, Ancestors, Dirs

-----------------------------------------------------------------------------
(***************************************************************************)
(* Type correctness.                                                       *)
(***************************************************************************)
LEMMA PutBlobType ==
    ASSUME IndexTypeOK, NEW p \in Paths, NEW c, PutBlob(p, c)
    PROVE  IndexTypeOK'
<1> DEFINE E == [treeEntries EXCEPT ![p] = Entry("blob", Blob(c))]
<1>1. IsIndex(E)
  BY IndexExcept DEF IndexTypeOK
<1>2. /\ treeEntries' = WithMissingDirs(E, p)
      /\ dirtyPaths' = dirtyPaths \cup MarkedByAdd(E, p)
      /\ submoduleEntries' = submoduleEntries
  BY DEF PutBlob
<1> HIDE DEF E
<1>3. IsIndex(treeEntries')
  BY <1>1, <1>2, IndexWithMissingDirs
<1>4. dirtyPaths' \subseteq Dirs
  BY <1>2, MarkedDirs DEF IndexTypeOK, MarkedByAdd
<1> QED
  BY <1>2, <1>3, <1>4 DEF IndexTypeOK

LEMMA DeleteBlobType ==
    ASSUME IndexTypeOK, NEW p \in Paths, DeleteBlob(p)
    PROVE  IndexTypeOK'
<1>1. IsIndex(treeEntries')
  BY IndexExcept DEF IndexTypeOK, DeleteBlob, Absent
<1>2. dirtyPaths' \subseteq Dirs
  BY MarkedDirs DEF IndexTypeOK, DeleteBlob, MarkedByRemove
<1> QED
  BY <1>1, <1>2 DEF IndexTypeOK, DeleteBlob

LEMMA MoveBlobType ==
    ASSUME IndexTypeOK, NEW src \in Paths, NEW dest \in Paths, MoveBlob(src, dest)
    PROVE  IndexTypeOK'
<1> DEFINE E1 == [treeEntries EXCEPT ![dest] = Entry("blob", treeEntries[src].hash)]
           E2 == WithMissingDirs(E1, dest)
           E3 == [E2 EXCEPT ![src] = Absent]
<1>1. IsIndex(E1)
  BY IndexExcept DEF IndexTypeOK
<1>2. IsIndex(E2)
  <2> HIDE DEF E1
  <2> QED
    BY <1>1, IndexWithMissingDirs
<1>3. IsIndex(E3)
  <2> HIDE DEF E2
  <2> QED
    BY <1>2, IndexExcept DEF Absent
<1>4. treeEntries' \in {E2, E3}
  BY DEF MoveBlob
<1>5. dirtyPaths' \subseteq dirtyPaths \cup MarkedByAdd(E1, dest) \cup MarkedByRemove(E3, src)
  BY DEF MoveBlob
<1>6. submoduleEntries' = submoduleEntries
  BY DEF MoveBlob
<1> HIDE DEF E1, E2, E3
<1>7. dirtyPaths' \subseteq Dirs
  BY <1>5, MarkedDirs DEF IndexTypeOK, MarkedByAdd, MarkedByRemove
<1> QED
  BY <1>2, <1>3, <1>4, <1>6, <1>7 DEF IndexTypeOK

LEMMA DeleteTreeType ==
    ASSUME IndexTypeOK, NEW p \in Paths, DeleteTree(p)
    PROVE  IndexTypeOK'
<1> DEFINE E == [q \in Paths |-> IF q \in Subtree(p) THEN Absent ELSE treeEntries[q]]
<1>1. /\ treeEntries' = E
      /\ submoduleEntries' = [q \in Paths |->
             IF q \in Subtree(p) THEN NoLink ELSE submoduleEntries[q]]
      /\ dirtyPaths' = dirtyPaths \cup MarkedByRemove(E, p)
  BY DEF DeleteTree
<1>2. IsIndex(E)
  BY IndexCleared DEF IndexTypeOK
<1> HIDE DEF E
<1>3. dirtyPaths' \subseteq Dirs
  BY <1>1, MarkedDirs DEF IndexTypeOK, MarkedByRemove
<1>4. submoduleEntries' \in [Paths -> Links \cup {NoLink}]
  BY <1>1 DEF IndexTypeOK
<1> QED
  BY <1>1, <1>2, <1>3, <1>4 DEF IndexTypeOK

LEMMA MovedEntriesIndex ==
    ASSUME IndexTypeOK, NEW src, NEW dest
    PROVE  IsIndex(MovedEntries(src, dest))
<1> DEFINE F == MovedEntries(src, dest)
<1>1. F = [q \in Paths |-> F[q]]
  BY DEF MovedEntries
<1>2. ASSUME NEW q \in Paths
      PROVE  \E t \in {"none", "blob", "tree"} : \E h : F[q] = Entry(t, h)
  <2>1. \/ F[q] = Absent
        \/ Arrives(q, src, dest) /\ F[q] = treeEntries[Rebase(q, dest, src)]
        \/ F[q] = treeEntries[q]
    BY DEF MovedEntries
  <2>2. IsIndex(treeEntries)
    BY DEF IndexTypeOK
  <2> QED
    BY <2>1, <2>2, EntryOf DEF Arrives, Absent
<1> HIDE DEF F
<1>3. IsIndex(F)
  BY <1>1, <1>2, IndexOf
<1> QED
  BY <1>3 DEF F

LEMMA MoveTreeType ==
    ASSUME IndexTypeOK, NEW src \in Paths, NEW dest \in Paths, MoveTree(src, dest)
    PROVE  IndexTypeOK'
<1> DEFINE E1 == MovedEntries(src, dest)
           E2 == WithMissingDirs(E1, dest)
<1>1. /\ treeEntries' = E2
      /\ dirtyPaths' \subseteq dirtyPaths \cup MarkedByAdd(E1, dest) \cup MarkedByRemove(E2, src)
      /\ submoduleEntries' = ReparentedSubmodules(src, dest)
  BY DEF MoveTree
<1>2. IsIndex(E1)
  BY MovedEntriesIndex
<1> HIDE DEF E1
<1>3. IsIndex(E2)
  BY <1>2, IndexWithMissingDirs
<1> HIDE DEF E2
<1>4. dirtyPaths' \subseteq Dirs
  BY <1>1, MarkedDirs DEF IndexTypeOK, MarkedByAdd, MarkedByRemove
<1>5. submoduleEntries' \in [Paths -> Links \cup {NoLink}]
  BY <1>1 DEF IndexTypeOK, ReparentedSubmodules, Arrives
<1> QED
  BY <1>1, <1>3, <1>4, <1>5 DEF IndexTypeOK

LEMMA StageIndexType ==
    ASSUME IndexTypeOK, Stage
    PROVE  IndexTypeOK'
<1>1. ASSUME NEW p \in Paths, NEW c \in Contents, CreateBlob(p, c) \/ UpdateBlob(p, c)
      PROVE  IndexTypeOK'
  BY <1>1, PutBlobType DEF CreateBlob, UpdateBlob
<1>2. ASSUME NEW p \in Paths, DeleteBlob(p)
      PROVE  IndexTypeOK'
  BY <1>2, DeleteBlobType
<1>3. ASSUME NEW p \in Paths, DeleteTree(p)
      PROVE  IndexTypeOK'
  BY <1>3, DeleteTreeType
<1>4. ASSUME NEW p \in Paths, NEW q \in Paths, MoveBlob(p, q)
      PROVE  IndexTypeOK'
  BY <1>4, MoveBlobType
<1>5. ASSUME NEW p \in Paths, NEW q \in Paths, MoveTree(p, q)
      PROVE  IndexTypeOK'
  BY <1>5, MoveTreeType
<1>6. CASE DeleteRoot
  BY <1>6, IndexEmpty DEF DeleteRoot, IndexTypeOK
<1> QED
  BY <1>1, <1>2, <1>3, <1>4, <1>5, <1>6 DEF Stage

\* What every staging call leaves alone besides.
LEMMA StageFrame ==
    ASSUME Stage
    PROVE  \E op : Staging(op)
<1>1. ASSUME NEW p \in Paths, NEW c \in Contents, CreateBlob(p, c) \/ UpdateBlob(p, c) PROVE \E op : Staging(op)
  BY <1>1 DEF CreateBlob, UpdateBlob
<1>2. ASSUME NEW p \in Paths, DeleteBlob(p) \/ DeleteTree(p) PROVE \E op : Staging(op)
  BY <1>2 DEF DeleteBlob, DeleteTree
<1>3. ASSUME NEW p \in Paths, NEW q \in Paths, MoveBlob(p, q) \/ MoveTree(p, q) PROVE \E op : Staging(op)
  BY <1>3 DEF MoveBlob, MoveTree
<1>4. ASSUME DeleteRoot PROVE \E op : Staging(op)
  BY <1>4 DEF DeleteRoot
<1> QED
  BY <1>1, <1>2, <1>3, <1>4 DEF Stage

LEMMA BuildIndexType ==
    ASSUME IndexTypeOK, NEW p \in Dirs, BuildSingleTree(p)
    PROVE  IndexTypeOK'
<1> DEFINE t == Tree(Listing(treeEntries, submoduleEntries, p))
           F == [q \in Paths |-> IF q = p THEN Entry(treeEntries[q].type, t)
                                 ELSE treeEntries[q]]
<1>1. treeEntries' \in {treeEntries, F}
  BY DEF BuildSingleTree
<1>2. ASSUME NEW q \in Paths
      PROVE  \E u \in {"none", "blob", "tree"} : \E h : F[q] = Entry(u, h)
  <2>1. IsIndex(treeEntries)
    BY DEF IndexTypeOK
  <2>2. treeEntries[q].type \in {"none", "blob", "tree"}
    BY <2>1 DEF IsIndex
  <2>3. F[q] = Entry(treeEntries[q].type, t) \/ F[q] = treeEntries[q]
    OBVIOUS
  <2> HIDE DEF F, t
  <2> QED
    BY <2>1, <2>2, <2>3, EntryOf
<1>3. F = [q \in Paths |-> F[q]]
  OBVIOUS
<1> HIDE DEF F
<1>4. IsIndex(F)
  BY <1>2, <1>3, IndexOf
<1>5. dirtyPaths' \subseteq dirtyPaths /\ submoduleEntries' = submoduleEntries
  BY DEF BuildSingleTree
<1> QED
  BY <1>1, <1>4, <1>5 DEF IndexTypeOK

\* A new commit is one more than there were; the others stay as they are.
LEMMA NewCommitHistory ==
    ASSUME HistoryTypeOK, NEW tree, NEW past, past \subseteq 1 .. numCommits,
           numCommits' = numCommits + 1,
           commits' = [i \in 1 .. numCommits + 1 |->
               IF i = numCommits + 1 THEN [tree |-> tree, past |-> past] ELSE commits[i]]
    PROVE  /\ numCommits' \in Nat \ {0}
           /\ 1 .. numCommits' = 1 .. numCommits \cup {numCommits'}
           /\ numCommits' \notin 1 .. numCommits
           /\ commits' = [i \in 1 .. numCommits' |->
                             [tree |-> commits'[i].tree, past |-> commits'[i].past]]
           /\ \A i \in 1 .. numCommits' : commits'[i].past \subseteq 1 .. (i - 1)
           /\ \A i \in 1 .. numCommits : commits'[i] = commits[i]
           /\ commits'[numCommits'].past = past
<1>1. numCommits \in Nat \ {0} /\ numCommits' = numCommits + 1
  BY DEF HistoryTypeOK
<1>2. /\ 1 .. numCommits' = 1 .. numCommits \cup {numCommits'}
      /\ numCommits' \notin 1 .. numCommits /\ numCommits' \in Nat \ {0}
      /\ numCommits' - 1 = numCommits
  BY <1>1
<1>3. commits'[numCommits'] = [tree |-> tree, past |-> past]
  BY <1>1, <1>2
<1>4. ASSUME NEW i \in 1 .. numCommits
      PROVE  /\ commits'[i] = commits[i]
             /\ commits[i] = [tree |-> commits[i].tree, past |-> commits[i].past]
             /\ commits[i].past \subseteq 1 .. (i - 1)
  BY <1>1, <1>2 DEF HistoryTypeOK
<1>5. ASSUME NEW i \in 1 .. numCommits'
      PROVE  /\ commits'[i] = [tree |-> commits'[i].tree, past |-> commits'[i].past]
             /\ commits'[i].past \subseteq 1 .. (i - 1)
  BY <1>2, <1>3, <1>4
<1>6. DOMAIN commits' = 1 .. numCommits' /\ commits' = [i \in 1 .. numCommits' |-> commits'[i]]
  BY <1>1
<1>7. commits' = [i \in 1 .. numCommits' |->
                     [tree |-> commits'[i].tree, past |-> commits'[i].past]]
  BY <1>5, <1>6
<1> QED
  BY <1>2, <1>3, <1>4, <1>5, <1>7

LEMMA LineageType ==
    ASSUME HistoryTypeOK, NEW i \in 1 .. numCommits
    PROVE  Lineage(i) \subseteq 1 .. numCommits
<1>1. numCommits \in Nat /\ commits[i].past \subseteq 1 .. (i - 1)
  BY DEF HistoryTypeOK
<1> QED
  BY <1>1 DEF Lineage

LEMMA AddCommitHistory ==
    ASSUME HistoryTypeOK, AddCommit
    PROVE  /\ HistoryTypeOK'
           /\ \A i \in 1 .. numCommits : commits'[i] = commits[i]
           /\ commits'[lastCommit'].past = Lineage(lastCommit)
           /\ lastCommit' \notin 1 .. numCommits
<1>1. /\ numCommits' = numCommits + 1
      /\ commits' = [i \in 1 .. numCommits + 1 |->
               IF i = numCommits + 1
               THEN [tree |-> lastTree, past |-> Lineage(lastCommit)] ELSE commits[i]]
      /\ packCommits' = packCommits \cup {numCommits'}
      /\ lastCommit' = numCommits'
      /\ UNCHANGED <<refHash, remoteRef, remoteCommits>>
  BY DEF AddCommit, Past, server
<1>2. Lineage(lastCommit) \subseteq 1 .. numCommits
  BY LineageType DEF HistoryTypeOK
<1>3. /\ numCommits' \in Nat \ {0}
      /\ 1 .. numCommits' = 1 .. numCommits \cup {numCommits'}
      /\ numCommits' \notin 1 .. numCommits
      /\ commits' = [i \in 1 .. numCommits' |->
                        [tree |-> commits'[i].tree, past |-> commits'[i].past]]
      /\ \A i \in 1 .. numCommits' : commits'[i].past \subseteq 1 .. (i - 1)
      /\ \A i \in 1 .. numCommits : commits'[i] = commits[i]
      /\ commits'[numCommits'].past = Lineage(lastCommit)
  BY <1>1, <1>2, NewCommitHistory
<1>4. /\ {lastCommit', refHash', remoteRef'} \subseteq 1 .. numCommits'
      /\ packCommits' \subseteq 1 .. numCommits' /\ remoteCommits' \subseteq 1 .. numCommits'
  BY <1>1, <1>3 DEF HistoryTypeOK
<1>5. HistoryTypeOK'
  BY <1>3, <1>4 DEF HistoryTypeOK
<1> QED
  BY <1>1, <1>3, <1>5

LEMMA ForeignPushHistory ==
    ASSUME HistoryTypeOK, ForeignPush
    PROVE  /\ HistoryTypeOK'
           /\ \A i \in 1 .. numCommits : commits'[i] = commits[i]
           /\ commits'[remoteRef'].past = Lineage(remoteRef)
<1>1. /\ numCommits' = numCommits + 1
      /\ commits' = [i \in 1 .. numCommits + 1 |->
               IF i = numCommits + 1
               THEN [tree |-> ForeignTree(numCommits + 1), past |-> Lineage(remoteRef)]
               ELSE commits[i]]
      /\ remoteCommits' = remoteCommits \cup {numCommits'}
      /\ remoteRef' = numCommits'
      /\ UNCHANGED <<refHash, lastCommit, packCommits>>
  BY DEF ForeignPush, pack
<1>2. Lineage(remoteRef) \subseteq 1 .. numCommits
  BY LineageType DEF HistoryTypeOK
<1>3. /\ numCommits' \in Nat \ {0}
      /\ 1 .. numCommits' = 1 .. numCommits \cup {numCommits'}
      /\ commits' = [i \in 1 .. numCommits' |->
                        [tree |-> commits'[i].tree, past |-> commits'[i].past]]
      /\ \A i \in 1 .. numCommits' : commits'[i].past \subseteq 1 .. (i - 1)
      /\ \A i \in 1 .. numCommits : commits'[i] = commits[i]
      /\ commits'[numCommits'].past = Lineage(remoteRef)
  BY <1>1, <1>2, NewCommitHistory
<1>4. /\ {lastCommit', refHash', remoteRef'} \subseteq 1 .. numCommits'
      /\ packCommits' \subseteq 1 .. numCommits' /\ remoteCommits' \subseteq 1 .. numCommits'
  BY <1>1, <1>3 DEF HistoryTypeOK
<1>5. HistoryTypeOK'
  BY <1>3, <1>4 DEF HistoryTypeOK
<1> QED
  BY <1>1, <1>3, <1>5

\* The server takes the writer's last commit as the value of the branch, and
\* the writer's commits.
LEMMA ServerAppliesHistory ==
    ASSUME HistoryTypeOK, ServerApplies,
           refHash' \in {refHash, lastCommit},
           packCommits' \in {packCommits, {}},
           UNCHANGED <<history, lastCommit>>
    PROVE  HistoryTypeOK'
<1>1. remoteRef' = lastCommit /\ remoteCommits' = remoteCommits \cup packCommits
  BY DEF ServerApplies
<1>2. UNCHANGED <<commits, numCommits>>
  BY DEF history
<1> QED
  BY <1>1, <1>2 DEF HistoryTypeOK

LEMMA TypeInit == Init => TypeOK
<1> SUFFICES ASSUME Init PROVE TypeOK
  OBVIOUS
<1>1. PICK r \in Repos :
        /\ treeEntries = r.entries /\ submoduleEntries = r.links
        /\ commits = [i \in {1} |-> [tree |-> r.tree, past |-> {}]]
  BY DEF Init
<1>2. IsIndex(r.entries) /\ r.links \in [Paths -> Links \cup {NoLink}]
  BY ReposAssumption DEF Consistent
<1>3. IndexTypeOK
  BY <1>1, <1>2 DEF Init, IndexTypeOK
<1>4. /\ numCommits = 1 /\ lastCommit = 1 /\ refHash = 1 /\ remoteRef = 1
      /\ packCommits = {} /\ remoteCommits = {1}
  BY DEF Init
<1>5. HistoryTypeOK
  BY <1>1, <1>4 DEF HistoryTypeOK
<1>6. packClosed \in BOOLEAN /\ isCleanedUp \in BOOLEAN /\ editedSince \in BOOLEAN
  BY DEF Init
<1>7. phase \in {"idle", "building"} /\ edits \in Nat
  BY DEF Init
<1> QED
  BY <1>3, <1>5, <1>6, <1>7 DEF TypeOK

LEMMA TypeStep == TypeOK /\ [Next]_vars => TypeOK'
<1> SUFFICES ASSUME TypeOK, [Next]_vars
             PROVE  TypeOK'
  OBVIOUS
<1> USE DEF history, server, pack, index
<1>1. CASE Stage
  <2>1. IndexTypeOK'
    BY <1>1, StageIndexType DEF TypeOK
  <2>2. PICK op : Staging(op)
    BY <1>1, StageFrame
  <2>3. UNCHANGED <<lastCommit, refHash, packCommits, packClosed, isCleanedUp,
                    phase, remoteRef, remoteCommits, commits, numCommits>>
    BY <2>2 DEF Staging
  <2>4. HistoryTypeOK'
    BY <2>3 DEF TypeOK, HistoryTypeOK
  <2>5. edits' \in Nat
    BY <2>2 DEF Staging, TypeOK
  <2>6. editedSince' \in BOOLEAN
    BY <2>2 DEF Staging
  <2> QED
    BY <2>1, <2>3, <2>4, <2>5, <2>6 DEF TypeOK
<1>2. CASE BeginCommit \/ NothingToCommit \/ AddCommitFails
  BY <1>2 DEF BeginCommit, NothingToCommit, AddCommitFails, TypeOK, IndexTypeOK, HistoryTypeOK
<1>3. ASSUME NEW p \in Dirs, BuildSingleTree(p)
      PROVE  TypeOK'
  BY <1>3, BuildIndexType DEF BuildSingleTree, TypeOK, HistoryTypeOK
<1>4. CASE AddCommit
  <2>1. HistoryTypeOK'
    BY <1>4, AddCommitHistory DEF TypeOK
  <2>2. UNCHANGED <<treeEntries, submoduleEntries, dirtyPaths, packClosed, isCleanedUp, edits>>
    BY <1>4 DEF AddCommit
  <2>3. phase' = "idle" /\ editedSince' \in BOOLEAN
    BY <1>4 DEF AddCommit
  <2> QED
    BY <2>1, <2>2, <2>3 DEF TypeOK, IndexTypeOK
<1>5. CASE Acknowledged /\ (ServerApplies \/ UNCHANGED server)
  <2>1. /\ packCommits' = {} /\ refHash' = lastCommit
        /\ UNCHANGED <<treeEntries, dirtyPaths, lastCommit, isCleanedUp, phase,
                       commits, numCommits, editedSince, edits>>
        /\ submoduleEntries' = PrunedSubmodules
    BY <1>5 DEF Acknowledged
  <2>2. submoduleEntries' \in [Paths -> Links \cup {NoLink}]
    BY <2>1 DEF PrunedSubmodules, TypeOK, IndexTypeOK
  <2>3. IndexTypeOK'
    BY <2>1, <2>2 DEF TypeOK, IndexTypeOK
  <2>4. HistoryTypeOK'
    <3>1. CASE ServerApplies
      BY <2>1, <3>1, ServerAppliesHistory DEF TypeOK
    <3>2. CASE UNCHANGED server
      BY <2>1, <3>2 DEF TypeOK, HistoryTypeOK
    <3> QED
      BY <1>5, <3>1, <3>2
  <2>5. packClosed' \in BOOLEAN
    BY <1>5 DEF Acknowledged
  <2> QED
    BY <2>1, <2>3, <2>4, <2>5 DEF TypeOK
<1>6. CASE PushReplyLost
  <2>1. HistoryTypeOK'
    BY <1>6, ServerAppliesHistory DEF TypeOK, PushReplyLost
  <2>2. UNCHANGED <<treeEntries, submoduleEntries, dirtyPaths, packClosed, isCleanedUp,
                    phase, editedSince, edits>>
    BY <1>6 DEF PushReplyLost
  <2> QED
    BY <2>1, <2>2 DEF TypeOK, IndexTypeOK
<1>7. CASE ForeignPush
  <2>1. HistoryTypeOK'
    BY <1>7, ForeignPushHistory DEF TypeOK
  <2>2. UNCHANGED <<treeEntries, submoduleEntries, dirtyPaths, packClosed, isCleanedUp,
                    phase, editedSince, edits>>
    BY <1>7 DEF ForeignPush
  <2> QED
    BY <2>1, <2>2 DEF TypeOK, IndexTypeOK
<1>8. CASE Cleanup
  <2>1. packCommits' = {} /\ UNCHANGED <<lastCommit, refHash, phase, remoteRef,
                    remoteCommits, commits, numCommits, editedSince, edits>>
    BY <1>8 DEF Cleanup
  <2>2. HistoryTypeOK'
    BY <2>1 DEF TypeOK, HistoryTypeOK
  <2>3. IndexTypeOK'
    BY <1>8, IndexEmpty DEF Cleanup, TypeOK, IndexTypeOK
  <2>4. packClosed' \in BOOLEAN /\ isCleanedUp' \in BOOLEAN
    BY <1>8 DEF Cleanup, TypeOK
  <2> QED
    BY <2>1, <2>2, <2>3, <2>4 DEF TypeOK
<1>9. CASE UNCHANGED vars
  BY <1>9 DEF vars, TypeOK, IndexTypeOK, HistoryTypeOK
<1> QED
  BY <1>1, <1>2, <1>3, <1>4, <1>5, <1>6, <1>7, <1>8, <1>9
  DEF Next, Commit, Push, PushAccepted, PushOfNothing

\* The staged writer keeps the shape of its data, and a commit its place after
\* its ancestors, whatever the caller does and whatever fails.
THEOREM TypeCorrect == Spec => []TypeOK
BY TypeInit, TypeStep, PTL DEF Spec

-----------------------------------------------------------------------------
(***************************************************************************)
(* The commits that wait for a push.                                       *)
(***************************************************************************)
RetainedInv == TypeOK /\ UnpushedRetained

LEMMA RetainedInit == Init => RetainedInv
<1> SUFFICES ASSUME Init PROVE UnpushedRetained
  BY TypeInit DEF RetainedInv
<1>1. lastCommit = 1 /\ refHash = 1 /\ packCommits = {}
  BY DEF Init
<1> QED
  BY <1>1 DEF UnpushedRetained, Lineage

\* A step that leaves the writer's commits alone, and those that were made.
LEMMA RetainedFrame ==
    ASSUME RetainedInv,
           UNCHANGED <<lastCommit, refHash>>,
           commits'[lastCommit] = commits[lastCommit],
           commits'[refHash] = commits[refHash],
           UNCHANGED <<packCommits, packClosed, isCleanedUp>>
    PROVE  UnpushedRetained'
BY DEF RetainedInv, UnpushedRetained, Lineage

LEMMA RetainedStep == RetainedInv /\ [Next]_vars => RetainedInv'
<1> SUFFICES ASSUME RetainedInv, [Next]_vars
             PROVE  UnpushedRetained'
  BY TypeStep DEF RetainedInv
<1> USE DEF history, server, pack
<1>1. CASE Stage
  <2>1. PICK op : Staging(op)
    BY <1>1, StageFrame
  <2> QED
    BY <2>1, RetainedFrame DEF Staging
<1>2. CASE BeginCommit \/ NothingToCommit \/ AddCommitFails
  BY <1>2, RetainedFrame DEF BeginCommit, NothingToCommit, AddCommitFails
<1>3. ASSUME NEW p \in Dirs, BuildSingleTree(p)
      PROVE  UnpushedRetained'
  BY <1>3, RetainedFrame DEF BuildSingleTree
<1>4. CASE AddCommit
  <2>1. /\ HistoryTypeOK /\ UnpushedRetained
        /\ lastCommit \in 1 .. numCommits /\ refHash \in 1 .. numCommits
    BY DEF RetainedInv, TypeOK, HistoryTypeOK
  <2>2. /\ commits'[lastCommit'].past = Lineage(lastCommit)
        /\ commits'[refHash] = commits[refHash]
    BY <1>4, <2>1, AddCommitHistory
  <2>3. /\ packCommits' = packCommits \cup {lastCommit'}
        /\ UNCHANGED <<refHash, packClosed, isCleanedUp>>
    BY <1>4 DEF AddCommit
  <2> QED
    BY <2>1, <2>2, <2>3 DEF UnpushedRetained, Lineage
<1>5. CASE Acknowledged
  <2>1. packCommits' = {} /\ refHash' = lastCommit /\ UNCHANGED <<lastCommit, commits>>
    BY <1>5 DEF Acknowledged
  <2> QED
    BY <2>1 DEF UnpushedRetained, Lineage
<1>6. CASE PushReplyLost
  BY <1>6, RetainedFrame DEF PushReplyLost
<1>7. CASE ForeignPush
  <2>1. HistoryTypeOK /\ lastCommit \in 1 .. numCommits /\ refHash \in 1 .. numCommits
    BY DEF RetainedInv, TypeOK, HistoryTypeOK
  <2> QED
    BY <1>7, <2>1, ForeignPushHistory, RetainedFrame DEF ForeignPush
<1>8. CASE Cleanup
  <2>1. isCleanedUp' \/ packClosed'
    BY <1>8 DEF Cleanup
  <2>2. UNCHANGED <<lastCommit, refHash, commits>>
    BY <1>8 DEF Cleanup
  <2> QED
    BY <2>1, <2>2 DEF RetainedInv, UnpushedRetained, Lineage
<1>9. CASE UNCHANGED vars
  BY <1>9, RetainedFrame DEF vars
<1> QED
  BY <1>1, <1>2, <1>3, <1>4, <1>5, <1>6, <1>7, <1>8, <1>9
  DEF Next, Commit, Push, PushAccepted, PushOfNothing

\* Whatever fails, and whatever the caller does: the commits made since the
\* value Push expects on the server are all in the pack.
THEOREM CommitsRetained == Spec => []UnpushedRetained
<1>1. RetainedInv => UnpushedRetained
  BY DEF RetainedInv
<1> QED
  BY <1>1, RetainedInit, RetainedStep, PTL DEF Spec

\* A step that moves the branch moves it forward.
LEMMA ForwardStep ==
    ASSUME RetainedInv, [Next]_vars
    PROVE  remoteRef' # remoteRef => remoteRef \in commits'[remoteRef'].past
<1> SUFFICES ASSUME remoteRef' # remoteRef
             PROVE  remoteRef \in commits'[remoteRef'].past
  OBVIOUS
<1> USE DEF history, server, pack
<1>1. CASE ServerApplies /\ UNCHANGED commits
  <2>1. remoteRef = refHash /\ remoteRef' = lastCommit
    BY <1>1 DEF ServerApplies, OldValue
  <2> QED
    BY <1>1, <2>1 DEF RetainedInv, UnpushedRetained, Lineage
<1>2. CASE ForeignPush
  BY <1>2, ForeignPushHistory DEF RetainedInv, TypeOK, Lineage
<1>3. CASE Stage
  <2>1. PICK op : Staging(op)
    BY <1>3, StageFrame
  <2> QED
    BY <2>1 DEF Staging
<1>4. CASE Commit
  BY <1>4 DEF Commit, BeginCommit, BuildSingleTree, NothingToCommit, AddCommit, AddCommitFails
<1>5. CASE Push
  BY <1>1, <1>5 DEF Push, PushAccepted, PushOfNothing, PushReplyLost, Acknowledged
<1>6. CASE Cleanup
  BY <1>6 DEF Cleanup
<1>7. CASE UNCHANGED vars
  BY <1>7 DEF vars
<1> QED
  BY <1>2, <1>3, <1>4, <1>5, <1>6, <1>7 DEF Next

\* No push drops a commit of the branch, neither its own nor another client's,
\* whatever was lost before.
THEOREM FastForward == Spec => OnlyFastForward
<1>1. RetainedInv /\ [Next]_vars =>
          [remoteRef' # remoteRef => remoteRef \in commits'[remoteRef'].past]_vars
  BY ForwardStep
<1> QED
  BY <1>1, RetainedInit, RetainedStep, PTL DEF Spec, OnlyFastForward

-----------------------------------------------------------------------------
(***************************************************************************)
(* Paths: sequences of names, and those above and below them.              *)
(***************************************************************************)
\* A path is a sequence of names, so its length is a number.
LEMMA PathSeq ==
    ASSUME NEW p \in Dirs
    PROVE  /\ p \in Seq(Names) /\ Len(p) \in Nat
           /\ p # Root => p \in Paths /\ Len(p) > 0
           /\ p = Root => Len(p) = 0
<1>1. CASE p = Root
  BY <1>1, EmptySeq DEF Root
<1>2. CASE p \in Paths
  <2>1. p \in Seq(Names) /\ p # Root
    BY <1>2, PathsAssumption
  <2>2. Len(p) \in Nat /\ Len(p) # 0
    BY <2>1 DEF Root
  <2> QED
    BY <1>2, <2>1, <2>2
<1> QED
  BY <1>1, <1>2 DEF Dirs

\* A prefix, position by position.
LEMMA PrefixPointwise ==
    ASSUME NEW s \in Seq(Names), NEW t \in Seq(Names)
    PROVE  IsPrefix(s, t) <=> Len(s) <= Len(t) /\ \A i \in 1 .. Len(s) : s[i] = t[i]
<1>1. SubSeq(s, 1, Len(s)) = s
  OBVIOUS
<1>2. ASSUME Len(s) <= Len(t)
      PROVE  /\ SubSeq(t, 1, Len(s)) \in Seq(Names)
             /\ Len(SubSeq(t, 1, Len(s))) = Len(s)
             /\ \A i \in 1 .. Len(s) : SubSeq(t, 1, Len(s))[i] = t[i]
  BY <1>2, SubSeqProperties
<1>3. ASSUME Len(s) <= Len(t), \A i \in 1 .. Len(s) : s[i] = t[i]
      PROVE  s = SubSeq(t, 1, Len(s))
  <2> HIDE DEF IsPrefix
  <2> DEFINE u == SubSeq(t, 1, Len(s))
  <2>1. /\ u \in Seq(Names) /\ Len(u) = Len(s) /\ \A i \in 1 .. Len(s) : s[i] = u[i]
    BY <1>2, <1>3
  <2> HIDE DEF u
  <2>2. s = u
    BY <2>1, SeqEqual
  <2> QED
    BY <2>2 DEF u
<1> QED
  BY <1>1, <1>2, <1>3 DEF IsPrefix

\* The ancestors of a path are the shorter paths that agree with it.
LEMMA AncestorIs ==
    ASSUME NEW p \in Paths, NEW q
    PROVE  q \in Ancestors(p) <=>
               q \in Paths /\ Len(q) < Len(p) /\ \A i \in 1 .. Len(q) : q[i] = p[i]
<1>1. p \in Seq(Names)
  BY PathsAssumption
<1>2. q \in Paths => q \in Seq(Names)
  BY PathsAssumption
<1>3. Len(p) \in Nat /\ (q \in Paths => Len(q) \in Nat)
  BY <1>1, <1>2
<1>4. q \in Paths => (IsPrefix(q, p) <=> Len(q) <= Len(p) /\ \A i \in 1 .. Len(q) : q[i] = p[i])
  BY <1>1, <1>2, PrefixPointwise
<1> QED
  BY <1>3, <1>4 DEF Ancestors

\* No path is its own ancestor, and the root is none.
LEMMA AncestorNot ==
    ASSUME NEW p \in Paths
    PROVE  p \notin Ancestors(p) /\ Root \notin Paths /\ Ancestors(p) \subseteq Paths
<1>1. Len(p) \in Nat
  BY PathsAssumption
<1> QED
  BY <1>1, PathsAssumption DEF Ancestors

\* What is above an ancestor of a path is above the path.
LEMMA AncestorOfAncestor ==
    ASSUME NEW p \in Paths, NEW q \in Ancestors(p), NEW r \in Ancestors(q)
    PROVE  r \in Ancestors(p)
<1>1. q \in Paths /\ r \in Paths
  BY DEF Ancestors
<1>2. Len(p) \in Nat /\ Len(q) \in Nat /\ Len(r) \in Nat
  BY <1>1, PathsAssumption
<1> QED
  BY <1>1, <1>2, AncestorIs

\* Two ancestors of one path lie on one line.
LEMMA AncestorsCompare ==
    ASSUME NEW p \in Paths, NEW q \in Ancestors(p), NEW r \in Ancestors(p)
    PROVE  q = r \/ q \in Ancestors(r) \/ r \in Ancestors(q)
<1>1. q \in Paths /\ r \in Paths
  BY DEF Ancestors
<1>2. q \in Seq(Names) /\ r \in Seq(Names) /\ Len(q) \in Nat /\ Len(r) \in Nat
  BY <1>1, PathsAssumption
<1>3. \A i \in 1 .. Len(q) : q[i] = p[i]
  BY AncestorIs
<1>4. \A i \in 1 .. Len(r) : r[i] = p[i]
  BY AncestorIs
<1>5. CASE Len(q) < Len(r)
  BY <1>1, <1>2, <1>3, <1>4, <1>5, AncestorIs
<1>6. CASE Len(r) < Len(q)
  BY <1>1, <1>2, <1>3, <1>4, <1>6, AncestorIs
<1>7. CASE Len(r) = Len(q)
  BY <1>1, <1>2, <1>3, <1>4, <1>7, SeqEqual
<1> QED
  BY <1>2, <1>5, <1>6, <1>7

\* The subtree of a path: the path and what it is an ancestor of.
LEMMA SubtreeIs ==
    ASSUME NEW p \in Paths, NEW q
    PROVE  q \in Subtree(p) <=> q \in Paths /\ (q = p \/ p \in Ancestors(q))
<1>1. p \in Seq(Names) /\ Len(p) \in Nat
  BY PathsAssumption
<1>2. q \in Paths => q \in Seq(Names) /\ Len(q) \in Nat
  BY PathsAssumption
<1>3. q \in Paths => (IsPrefix(p, q) <=> Len(p) <= Len(q) /\ \A i \in 1 .. Len(p) : p[i] = q[i])
  BY <1>1, <1>2, PrefixPointwise
<1>4. ASSUME q \in Paths, IsPrefix(p, q), ~ Len(p) < Len(q)
      PROVE  q = p
  <2>1. Len(p) = Len(q) /\ \A i \in 1 .. Len(p) : p[i] = q[i]
    BY <1>1, <1>2, <1>3, <1>4
  <2> QED
    BY <1>1, <1>2, <1>4, <2>1, SeqEqual
<1>5. q \in Paths => (p \in Ancestors(q) <=> Len(p) < Len(q) /\ IsPrefix(p, q))
  BY DEF Ancestors
<1>6. q = p => IsPrefix(p, q)
  BY DEF IsPrefix
<1> QED
  BY <1>1, <1>2, <1>4, <1>5, <1>6 DEF Subtree

\* A child's ancestors are its directory and what is above that.
LEMMA ChildIs ==
    ASSUME NEW p \in Dirs, NEW n \in Names, Append(p, n) \in Paths
    PROVE  /\ Len(Append(p, n)) = Len(p) + 1
           /\ p = Root \/ p \in Ancestors(Append(p, n))
           /\ \A q \in Ancestors(Append(p, n)) : q = p \/ q \in Ancestors(p)
<1> DEFINE c == Append(p, n)
<1>1. /\ p \in Seq(Names) /\ Len(p) \in Nat /\ (p # Root => p \in Paths)
      /\ (p = Root => Len(p) = 0)
  BY PathSeq
<1>2. /\ Len(c) = Len(p) + 1 /\ \A i \in 1 .. Len(p) : c[i] = p[i]
      /\ c \in Paths
  BY <1>1
<1> HIDE DEF c
<1>3. p = Root \/ p \in Ancestors(c)
  BY <1>1, <1>2, AncestorIs
<1>4. ASSUME NEW q \in Ancestors(c), q # p
      PROVE  q \in Ancestors(p)
  <2>1. q \in Paths /\ Len(q) < Len(c) /\ \A i \in 1 .. Len(q) : q[i] = c[i]
    BY <1>2, AncestorIs
  <2>2. q \in Seq(Names) /\ Len(q) \in Nat /\ q # Root /\ Len(q) > 0
    BY <2>1, PathSeq, PathsAssumption DEF Dirs
  <2>3. p # Root
    BY <1>1, <1>2, <2>1, <2>2
  <2>4. p \in Ancestors(c)
    BY <1>3, <2>3
  <2>5. q \in Ancestors(p) \/ p \in Ancestors(q)
    BY <1>2, <1>4, <2>4, AncestorsCompare
  <2>6. p \in Ancestors(q) => Len(p) < Len(q)
    BY DEF Ancestors
  <2> QED
    BY <1>1, <1>2, <2>1, <2>2, <2>5, <2>6
<1> QED
  BY <1>2, <1>3, <1>4 DEF c

-----------------------------------------------------------------------------
(***************************************************************************)
(* One entry of the index put or removed, and what is marked for it.       *)
(***************************************************************************)
\* What the caller sees to, so that the index stays sound.
IndexDisciplines == {"plainParents", "blobUpdates", "freshNames", "settledMoves"}

LEMMA TypeOf ==
    ASSUME NEW E, IsIndex(E), NEW q \in Paths
    PROVE  E[q].type \in {"none", "blob", "tree"}
BY DEF IsIndex

\* The directories above p, with the root.
Above(p) == Ancestors(p) \cup {Root}

\* When nothing ends the walk towards the root, all of it is marked.
LEMMA AllAboveMarked ==
    ASSUME NEW p
    PROVE  Marked(p, {}) = Above(p)
BY DEF Marked, Before, Above

\* E and F agree on the children of p.
SameBelow(F, E, p) ==
    \A n \in Names : Append(p, n) \in Paths => F[Append(p, n)] = E[Append(p, n)]

\* A directory whose children are the same has the same listing.
LEMMA SameListing ==
    ASSUME NEW E, NEW S, NEW F, NEW T, NEW p, SameBelow(F, E, p), SameBelow(T, S, p)
    PROVE  Listing(F, T, p) = Listing(E, S, p)
<1>1. ASSUME NEW n \in Names
      PROVE  Child(F, T, Append(p, n)) = Child(E, S, Append(p, n))
  BY DEF Child, Present, SameBelow
<1> QED
  BY <1>1 DEF Listing

\* A directory with a child that is d, or above d, is above d.
LEMMA ChildAbove ==
    ASSUME NEW p \in Dirs, NEW n \in Names, NEW d \in Paths,
           Append(p, n) = d \/ Append(p, n) \in Ancestors(d)
    PROVE  p \in Above(d)
<1>1. Append(p, n) \in Paths
  BY DEF Ancestors
<1>2. p = Root \/ p \in Ancestors(Append(p, n))
  BY <1>1, ChildIs
<1>3. p \in Ancestors(Append(p, n)) => p \in Ancestors(d)
  BY AncestorOfAncestor
<1> QED
  BY <1>2, <1>3 DEF Above

\* addMissingOrStaleTreeEntries, where no blob is in the way: every directory
\* above p is there and marked, and what was there is kept.
LEMMA MissingDirsMade ==
    ASSUME NEW E, IsIndex(E), NEW p \in Paths, BlobsAbove(E, p) = {}
    PROVE  /\ MarkedByAdd(E, p) = Above(p)
           /\ \A q \in Ancestors(p) : IsTree(WithMissingDirs(E, p), q)
           /\ \A q \in Paths : q \notin Ancestors(p) \/ Present(E, q)
                                  => WithMissingDirs(E, p)[q] = E[q]
<1>1. Before(p, BlobsAbove(E, p)) = Ancestors(p)
  BY DEF Before
<1>2. MarkedByAdd(E, p) = Above(p)
  BY AllAboveMarked DEF MarkedByAdd
<1>3. ASSUME NEW q \in Ancestors(p)
      PROVE  IsTree(WithMissingDirs(E, p), q)
  <2>1. q \in Paths /\ E[q].type # "blob"
    BY DEF BlobsAbove, Ancestors, IsBlob
  <2>2. E[q].type \in {"none", "blob", "tree"}
    BY <2>1, TypeOf
  <2>3. WithMissingDirs(E, p)[q] = IF Present(E, q) THEN E[q] ELSE NewDir
    BY <1>1, <2>1 DEF WithMissingDirs
  <2> QED
    BY <2>1, <2>2, <2>3 DEF Present, IsTree, NewDir, Entry
<1>4. \A q \in Paths : q \notin Ancestors(p) \/ Present(E, q)
                           => WithMissingDirs(E, p)[q] = E[q]
  BY <1>1 DEF WithMissingDirs
<1> QED
  BY <1>2, <1>3, <1>4

\* The index after a blob was put at p, and after the one at p was removed.
BlobPut(E, p, h) == [E EXCEPT ![p] = Entry("blob", h)]
AfterPut(E, p, h) == WithMissingDirs(BlobPut(E, p, h), p)
Removed(E, p) == [E EXCEPT ![p] = Absent]

\* A blob put at p: every directory whose listing changed is marked.
LEMMA PutSound ==
    ASSUME NEW E, NEW S, IsIndex(E), NoOrphans(E, S),
           NEW p \in Paths, ~IsTree(E, p), BlobsAbove(E, p) = {},
           NEW h, NEW F, F = AfterPut(E, p, h)
    PROVE  /\ BlobsAbove(BlobPut(E, p, h), p) = {}
           /\ MarkedByAdd(BlobPut(E, p, h), p) = Above(p)
           /\ IsIndex(F)
           /\ F[p] = Entry("blob", h)
           /\ \A q \in Ancestors(p) : IsTree(F, q)
           /\ \A q \in Paths \ {p} : q \notin Ancestors(p) \/ Present(E, q) => F[q] = E[q]
           /\ NoOrphans(F, S)
           /\ \A q \in Dirs \ Above(p) : Listing(F, S, q) = Listing(E, S, q)
<1> DEFINE E1 == BlobPut(E, p, h)
<1>1. IsIndex(E1)
  BY IndexExcept DEF BlobPut
<1>2. E1[p] = Entry("blob", h) /\ \A q \in Paths \ {p} : E1[q] = E[q]
  BY DEF IsIndex, BlobPut
<1>0. F = WithMissingDirs(E1, p)
  BY DEF AfterPut
<1> HIDE DEF E1
<1>3. BlobsAbove(E1, p) = {}
  BY <1>2, AncestorNot DEF BlobsAbove, IsBlob
<1>4. /\ MarkedByAdd(E1, p) = Above(p)
      /\ \A q \in Ancestors(p) : IsTree(F, q)
      /\ \A q \in Paths : q \notin Ancestors(p) \/ Present(E1, q) => F[q] = E1[q]
  BY <1>0, <1>1, <1>3, MissingDirsMade
<1>5. IsIndex(F)
  BY <1>0, <1>1, IndexWithMissingDirs
<1>6. \A q \in Paths \ {p} : q \notin Ancestors(p) \/ Present(E, q) => F[q] = E[q]
  BY <1>2, <1>4 DEF Present
<1>7. F[p] = Entry("blob", h)
  BY <1>2, <1>4, AncestorNot
<1>8. ASSUME NEW q \in Paths, Present(F, q) \/ S[q] # NoLink, NEW a \in Ancestors(q)
      PROVE  IsTree(F, a)
  <2>1. CASE q = p \/ q \in Ancestors(p)
    <3>1. a \in Ancestors(p)
      BY <1>8, <2>1, AncestorOfAncestor
    <3> QED
      BY <3>1, <1>4
  <2>2. CASE q # p /\ q \notin Ancestors(p)
    <3>1. Present(E, q) \/ S[q] # NoLink
      BY <1>6, <1>8, <2>2 DEF Present
    <3>2. IsTree(E, a)
      BY <3>1 DEF NoOrphans
    <3>3. a \in Paths /\ a # p /\ Present(E, a)
      BY <3>2 DEF Ancestors, IsTree, Present
    <3> QED
      BY <1>6, <3>2, <3>3 DEF IsTree
  <2> QED
    BY <2>1, <2>2
<1>9. NoOrphans(F, S)
  BY <1>8 DEF NoOrphans
<1>10. ASSUME NEW q \in Dirs \ Above(p)
       PROVE  Listing(F, S, q) = Listing(E, S, q)
  <2>1. SameBelow(F, E, q)
    BY <1>6, ChildAbove DEF SameBelow
  <2>2. SameBelow(S, S, q)
    BY DEF SameBelow
  <2> QED
    BY <2>1, <2>2, SameListing
<1> QED
  BY <1>3, <1>4, <1>5, <1>6, <1>7, <1>9, <1>10 DEF E1

\* A blob removed from p: every directory whose listing changed is marked.
LEMMA RemoveSound ==
    ASSUME NEW E, NEW S, IsIndex(E), NoOrphans(E, S),
           NEW p \in Paths, IsBlob(E, p),
           NEW F, F = Removed(E, p)
    PROVE  /\ MarkedByRemove(F, p) = Above(p)
           /\ F[p] = Absent
           /\ \A q \in Paths \ {p} : F[q] = E[q]
           /\ NoOrphans(F, S)
           /\ \A q \in Dirs \ Above(p) : Listing(F, S, q) = Listing(E, S, q)
<1>1. F[p] = Absent /\ \A q \in Paths \ {p} : F[q] = E[q]
  BY DEF IsIndex, Removed
<1>2. \A q \in Ancestors(p) : IsTree(E, q)
  BY DEF NoOrphans, IsBlob, Present
<1>3. \A q \in Ancestors(p) : IsTree(F, q)
  BY <1>1, <1>2, AncestorNot DEF IsTree
<1>4. MarkedByRemove(F, p) = Above(p)
  <2>1. NonTreesAbove(F, p) = {}
    BY <1>3 DEF NonTreesAbove
  <2> QED
    BY <2>1, AllAboveMarked DEF MarkedByRemove
<1>5. ASSUME NEW q \in Paths, Present(F, q) \/ S[q] # NoLink, NEW a \in Ancestors(q)
      PROVE  IsTree(F, a)
  <2>1. CASE q = p
    BY <1>3, <2>1, <1>5
  <2>2. CASE q # p
    <3>1. Present(E, q) \/ S[q] # NoLink
      BY <1>1, <1>5, <2>2 DEF Present
    <3>2. IsTree(E, a)
      BY <3>1 DEF NoOrphans
    <3>3. a \in Paths /\ a # p
      BY <3>2 DEF Ancestors, IsTree, IsBlob
    <3> QED
      BY <1>1, <3>2, <3>3 DEF IsTree
  <2> QED
    BY <2>1, <2>2
<1>6. NoOrphans(F, S)
  BY <1>5 DEF NoOrphans
<1>7. ASSUME NEW q \in Dirs \ Above(p)
       PROVE  Listing(F, S, q) = Listing(E, S, q)
  <2>1. SameBelow(F, E, q)
    BY <1>1, ChildAbove DEF SameBelow
  <2>2. SameBelow(S, S, q)
    BY DEF SameBelow
  <2> QED
    BY <2>1, <2>2, SameListing
<1> QED
  BY <1>1, <1>4, <1>6, <1>7

-----------------------------------------------------------------------------
(***************************************************************************)
(* The steps that stage a blob.                                            *)
(***************************************************************************)
\* What IndexSound says of the marked directories: all above them are marked
\* as well, and no blob took their place.
MarksSound(E, D) ==
    \A p \in D \ {Root} : Above(p) \subseteq D /\ ~IsBlob(E, p)

\* Marking p's directories as well keeps the marks sound.
LEMMA MoreMarks ==
    ASSUME NEW E, NEW F, NEW D, D \subseteq Dirs, MarksSound(E, D), NEW p \in Paths,
           \A q \in (D \cup Above(p)) \ {Root} : ~IsBlob(F, q)
    PROVE  MarksSound(F, D \cup Above(p))
<1>1. ASSUME NEW q \in D \ {Root}
      PROVE  Above(q) \subseteq D
  BY DEF MarksSound
<1>2. ASSUME NEW q \in Above(p) \ {Root}
      PROVE  Above(q) \subseteq Above(p)
  BY AncestorOfAncestor DEF Above
<1> QED
  BY <1>1, <1>2 DEF MarksSound

LEMMA FreshKept ==
    ASSUME NEW E, NEW S, NEW F, NEW T, NEW root, NEW q, Fresh(E, S, root, q),
           Listing(F, T, q) = Listing(E, S, q), q = Root \/ F[q] = E[q]
    PROVE  Fresh(F, T, root, q)
BY DEF Fresh, IsTree

\* CreateBlob and UpdateBlob.
LEMMA PutBlobSound ==
    ASSUME IndexTypeOK, IndexSound, "plainParents" \in Careful, "freshNames" \in Careful,
           NEW p \in Paths, NEW c, PutBlob(p, c), ~IsTree(treeEntries, p),
           ~isCleanedUp
    PROVE  IndexSound'
<1> DEFINE E1 == BlobPut(treeEntries, p, Blob(c))
           F == AfterPut(treeEntries, p, Blob(c))
           D == dirtyPaths \cup Above(p)
<1>1. /\ BlobsAbove(treeEntries, p) = {} /\ p \notin dirtyPaths
      /\ treeEntries' = F
      /\ dirtyPaths' = dirtyPaths \cup MarkedByAdd(E1, p)
      /\ submoduleEntries' = submoduleEntries /\ lastTree' = lastTree
  BY DEF PutBlob, MayPut, BlobPut, AfterPut
<1>2. /\ IsIndex(treeEntries) /\ dirtyPaths \subseteq Dirs
      /\ NoOrphans(treeEntries, submoduleEntries)
      /\ MarksSound(treeEntries, dirtyPaths)
      /\ UnmarkedIsFresh
  BY DEF IndexTypeOK, IndexSound, MarksSound, Above
<1>3. /\ MarkedByAdd(E1, p) = Above(p)
      /\ \A q \in Ancestors(p) : IsTree(F, q)
      /\ F[p] = Entry("blob", Blob(c))
      /\ \A q \in Paths \ {p} : q \notin Ancestors(p) \/ Present(treeEntries, q)
                                    => F[q] = treeEntries[q]
      /\ NoOrphans(F, submoduleEntries)
      /\ \A q \in Dirs \ Above(p) :
             Listing(F, submoduleEntries, q) = Listing(treeEntries, submoduleEntries, q)
  BY <1>1, <1>2, PutSound
<1>4. dirtyPaths' = D
  BY <1>1, <1>3
<1> HIDE DEF E1, F
<1>5. ASSUME NEW q \in D \ {Root}
      PROVE  ~IsBlob(F, q)
  <2>1. CASE q \in Ancestors(p)
    BY <1>3, <2>1 DEF IsTree, IsBlob
  <2>2. CASE q \notin Ancestors(p)
    <3>1. q \in dirtyPaths \ {Root} /\ q \in Paths /\ q # p
      BY <1>1, <1>2, <2>2 DEF Above, Dirs
    <3> QED
      BY <1>2, <1>3, <2>2, <3>1 DEF MarksSound, IsBlob
  <2> QED
    BY <2>1, <2>2
<1>6. MarksSound(F, D)
  BY <1>2, <1>5, MoreMarks
<1>7. ASSUME NEW q \in Dirs \ D
      PROVE  Fresh(F, submoduleEntries, lastTree, q)
  <2>1. q \in Paths /\ q \notin Ancestors(p) /\ q \in Dirs \ dirtyPaths /\ q \in Dirs \ Above(p)
    BY DEF Dirs, Above
  <2>2. CASE q = p
    BY <1>3, <2>1, <2>2, AncestorNot DEF Fresh, IsTree, Entry
  <2>3. CASE q # p
    BY <1>2, <1>3, <2>1, <2>3, FreshKept DEF UnmarkedIsFresh
  <2> QED
    BY <2>2, <2>3
<1> HIDE DEF D
<1>8. MarksSound(treeEntries', dirtyPaths') /\ NoOrphans(treeEntries', submoduleEntries')
  BY <1>1, <1>3, <1>4, <1>6
<1>9. UnmarkedIsFresh'
  BY <1>1, <1>4, <1>7 DEF UnmarkedIsFresh
<1> QED
  BY <1>8, <1>9 DEF IndexSound, MarksSound, Above

\* DeleteBlob.
LEMMA DeleteBlobSound ==
    ASSUME IndexTypeOK, IndexSound, NEW p \in Paths, DeleteBlob(p)
    PROVE  IndexSound'
<1> DEFINE F == Removed(treeEntries, p)
           D == dirtyPaths \cup Above(p)
<1>1. /\ IsBlob(treeEntries, p) /\ ~isCleanedUp
      /\ treeEntries' = F
      /\ dirtyPaths' = dirtyPaths \cup MarkedByRemove(F, p)
      /\ submoduleEntries' = submoduleEntries /\ lastTree' = lastTree
  BY DEF DeleteBlob, Staging, Removed
<1>2. /\ IsIndex(treeEntries) /\ dirtyPaths \subseteq Dirs
      /\ NoOrphans(treeEntries, submoduleEntries)
      /\ MarksSound(treeEntries, dirtyPaths)
      /\ UnmarkedIsFresh
  BY DEF IndexTypeOK, IndexSound, MarksSound, Above
<1>3. /\ MarkedByRemove(F, p) = Above(p)
      /\ F[p] = Absent
      /\ \A q \in Paths \ {p} : F[q] = treeEntries[q]
      /\ NoOrphans(F, submoduleEntries)
      /\ \A q \in Dirs \ Above(p) :
             Listing(F, submoduleEntries, q) = Listing(treeEntries, submoduleEntries, q)
  BY <1>1, <1>2, RemoveSound
<1>4. dirtyPaths' = D
  BY <1>1, <1>3
<1>5. \A q \in Ancestors(p) : IsTree(treeEntries, q)
  BY <1>1, <1>2 DEF NoOrphans, IsBlob, Present
<1> HIDE DEF F
<1>6. ASSUME NEW q \in D \ {Root}
      PROVE  ~IsBlob(F, q)
  <2>1. q \in Paths
    BY <1>2 DEF Above, Ancestors, Dirs
  <2>2. ~IsBlob(treeEntries, q)
    BY <1>2, <1>5 DEF MarksSound, Above, IsTree, IsBlob
  <2> QED
    BY <1>3, <2>1, <2>2 DEF IsBlob, Absent, Entry
<1>7. MarksSound(F, D)
  BY <1>2, <1>6, MoreMarks
<1>8. ASSUME NEW q \in Dirs \ D
      PROVE  Fresh(F, submoduleEntries, lastTree, q)
  <2>1. q \in Paths /\ q \in Dirs \ dirtyPaths /\ q \in Dirs \ Above(p)
    BY DEF Dirs, Above
  <2>2. CASE q = p
    BY <1>3, <2>1, <2>2, AncestorNot DEF Fresh, IsTree, Absent, Entry
  <2>3. CASE q # p
    BY <1>1, <1>2, <1>3, <2>1, <2>3, FreshKept DEF UnmarkedIsFresh
  <2> QED
    BY <2>2, <2>3
<1> HIDE DEF D
<1>9. MarksSound(treeEntries', dirtyPaths') /\ NoOrphans(treeEntries', submoduleEntries')
  BY <1>1, <1>3, <1>4, <1>7
<1>10. UnmarkedIsFresh'
  BY <1>1, <1>4, <1>8 DEF UnmarkedIsFresh
<1> QED
  BY <1>9, <1>10 DEF IndexSound, MarksSound, Above

\* The parts of IndexSound and of the types that the steps below start from.
LEMMA SoundParts ==
    ASSUME IndexTypeOK, IndexSound
    PROVE  /\ IsIndex(treeEntries) /\ dirtyPaths \subseteq Dirs
           /\ submoduleEntries \in [Paths -> Links \cup {NoLink}]
           /\ NoOrphans(treeEntries, submoduleEntries)
           /\ MarksSound(treeEntries, dirtyPaths)
           /\ UnmarkedIsFresh
BY DEF IndexTypeOK, IndexSound, MarksSound, Above

\* MoveBlob puts first and removes then; it marks above both paths.
LEMMA MoveBlobSound ==
    ASSUME IndexTypeOK, IndexSound, "plainParents" \in Careful, "freshNames" \in Careful,
           NEW src \in Paths, NEW dest \in Paths, MoveBlob(src, dest)
    PROVE  IndexSound'
<1> DEFINE h == treeEntries[src].hash
           F == AfterPut(treeEntries, dest, h)
           G == Removed(F, src)
           D1 == dirtyPaths \cup Above(dest)
           D == D1 \cup Above(src)
<1>1. /\ IsIndex(treeEntries) /\ dirtyPaths \subseteq Dirs
      /\ NoOrphans(treeEntries, submoduleEntries)
      /\ MarksSound(treeEntries, dirtyPaths)
      /\ UnmarkedIsFresh
  BY SoundParts
<1>2. /\ ~isCleanedUp /\ src # dest
      /\ IsBlob(treeEntries, src) /\ ~Present(treeEntries, dest)
      /\ BlobsAbove(treeEntries, dest) = {} /\ dest \notin dirtyPaths
      /\ src \notin Ancestors(dest)
      /\ submoduleEntries' = submoduleEntries /\ lastTree' = lastTree
  BY DEF MoveBlob, Staging, MayPut
<1>3. ~IsTree(treeEntries, dest)
  BY <1>2 DEF Present, IsTree
<1>4. /\ BlobsAbove(BlobPut(treeEntries, dest, h), dest) = {}
      /\ MarkedByAdd(BlobPut(treeEntries, dest, h), dest) = Above(dest)
      /\ IsIndex(F)
      /\ \A q \in Ancestors(dest) : IsTree(F, q)
      /\ F[dest] = Entry("blob", h)
      /\ \A q \in Paths \ {dest} : q \notin Ancestors(dest) \/ Present(treeEntries, q)
                                    => F[q] = treeEntries[q]
      /\ NoOrphans(F, submoduleEntries)
      /\ \A q \in Dirs \ Above(dest) :
             Listing(F, submoduleEntries, q) = Listing(treeEntries, submoduleEntries, q)
  BY <1>1, <1>2, <1>3, PutSound
<1>5. /\ treeEntries' = G
      /\ dirtyPaths' = dirtyPaths \cup MarkedByAdd(BlobPut(treeEntries, dest, h), dest)
                           \cup MarkedByRemove(G, src)
  BY <1>4 DEF MoveBlob, BlobPut, AfterPut, Removed
<1> HIDE DEF F
<1>6. IsBlob(F, src)
  BY <1>2, <1>4 DEF IsBlob
<1>7. /\ MarkedByRemove(G, src) = Above(src)
      /\ G[src] = Absent
      /\ \A q \in Paths \ {src} : G[q] = F[q]
      /\ NoOrphans(G, submoduleEntries)
      /\ \A q \in Dirs \ Above(src) :
             Listing(G, submoduleEntries, q) = Listing(F, submoduleEntries, q)
  BY <1>4, <1>6, RemoveSound
<1>8. dirtyPaths' = D
  BY <1>4, <1>5, <1>7
<1> HIDE DEF G
<1>9. ASSUME NEW q \in D1 \ {Root}
      PROVE  ~IsBlob(F, q)
  <2>1. CASE q \in Ancestors(dest)
    BY <1>4, <2>1 DEF IsTree, IsBlob
  <2>2. CASE q \notin Ancestors(dest)
    <3>1. q \in dirtyPaths \ {Root} /\ q \in Paths /\ q # dest
      BY <1>1, <1>2, <2>2 DEF Above, Dirs
    <3> QED
      BY <1>1, <1>4, <2>2, <3>1 DEF MarksSound, IsBlob
  <2> QED
    BY <2>1, <2>2
<1>10. MarksSound(F, D1)
  BY <1>1, <1>9, MoreMarks
<1>11. ASSUME NEW q \in D \ {Root}
       PROVE  ~IsBlob(G, q)
  <2>1. q \in Paths
    BY <1>1 DEF Above, Ancestors, Dirs
  <2>2. q \in Ancestors(src) => IsTree(F, q)
    BY <1>4, <1>6 DEF NoOrphans, IsBlob, Present
  <2>3. ~IsBlob(F, q)
    BY <1>10, <2>2 DEF MarksSound, Above, IsTree, IsBlob
  <2> QED
    BY <1>7, <2>1, <2>3 DEF IsBlob, Absent, Entry
<1>12. D1 \subseteq Dirs
  BY <1>1 DEF Above, Ancestors, Dirs
<1>13. MarksSound(G, D)
  <2> HIDE DEF D1
  <2> QED
    BY <1>10, <1>11, <1>12, MoreMarks
<1>14. ASSUME NEW q \in Dirs \ D
       PROVE  Fresh(G, submoduleEntries, lastTree, q)
  <2>1. /\ q \in Paths /\ q \in Dirs \ dirtyPaths /\ q \in Dirs \ Above(src)
        /\ q \in Dirs \ Above(dest) /\ q \notin Ancestors(dest)
    BY DEF Dirs, Above
  <2>2. CASE q = src
    BY <1>7, <2>1, <2>2, AncestorNot DEF Fresh, IsTree, Absent, Entry
  <2>3. CASE q = dest
    BY <1>2, <1>4, <1>7, <2>1, <2>3, AncestorNot DEF Fresh, IsTree, Entry
  <2>4. CASE q # src /\ q # dest
    <3>1. Listing(G, submoduleEntries, q) = Listing(treeEntries, submoduleEntries, q)
      BY <1>4, <1>7, <2>1
    <3>2. G[q] = treeEntries[q]
      BY <1>4, <1>7, <2>1, <2>4
    <3>3. Fresh(treeEntries, submoduleEntries, lastTree, q)
      BY <1>1, <1>2, <2>1 DEF UnmarkedIsFresh
    <3> QED
      BY <3>1, <3>2, <3>3, FreshKept
  <2> QED
    BY <2>2, <2>3, <2>4
<1> HIDE DEF D
<1>15. MarksSound(treeEntries', dirtyPaths') /\ NoOrphans(treeEntries', submoduleEntries')
  BY <1>2, <1>5, <1>7, <1>8, <1>13
<1>16. UnmarkedIsFresh'
  BY <1>2, <1>5, <1>8, <1>14 DEF UnmarkedIsFresh
<1> QED
  BY <1>15, <1>16 DEF IndexSound, MarksSound, Above

\* Nothing above p lies in the subtree of p, and what a directory outside it
\* lists of it is p itself.
LEMMA OutsideSubtree ==
    ASSUME NEW p \in Paths
    PROVE  /\ p \in Subtree(p) /\ Ancestors(p) \cap Subtree(p) = {}
           /\ \A q \in Paths : \A a \in Ancestors(q) :
                  q \notin Subtree(p) => a \notin Subtree(p)
           /\ \A q \in Dirs : \A n \in Names :
                  q \notin Subtree(p) /\ Append(q, n) \in Subtree(p) => q \in Above(p)
<1>1. p \in Subtree(p)
  BY SubtreeIs
<1>2. ASSUME NEW q \in Paths, NEW a \in Ancestors(q), a \in Subtree(p)
      PROVE  q \in Subtree(p)
  <2>1. a = p \/ p \in Ancestors(a)
    BY <1>2, SubtreeIs
  <2>2. p \in Ancestors(q)
    BY <2>1, AncestorOfAncestor
  <2> QED
    BY <2>2, SubtreeIs
<1>3. ASSUME NEW a \in Ancestors(p), a \in Subtree(p)
      PROVE  FALSE
  <2>1. a \in Paths /\ (a = p \/ p \in Ancestors(a))
    BY <1>3, SubtreeIs
  <2>2. Len(a) < Len(p) /\ (p \in Ancestors(a) => Len(p) < Len(a))
    BY DEF Ancestors
  <2>3. Len(a) \in Nat /\ Len(p) \in Nat
    BY <2>1, PathsAssumption
  <2> QED
    BY <2>1, <2>2, <2>3, AncestorNot
<1>4. ASSUME NEW q \in Dirs, NEW n \in Names, q \notin Subtree(p), Append(q, n) \in Subtree(p)
      PROVE  q \in Above(p)
  <2>1. Append(q, n) \in Paths /\ (Append(q, n) = p \/ p \in Ancestors(Append(q, n)))
    BY <1>4, SubtreeIs
  <2>2. CASE Append(q, n) = p
    BY <2>2, ChildAbove
  <2>3. CASE p \in Ancestors(Append(q, n))
    <3>1. p = q \/ p \in Ancestors(q)
      BY <2>1, <2>3, ChildIs
    <3>2. q = Root \/ q \in Paths
      BY DEF Dirs
    <3> QED
      BY <1>4, <3>1, <3>2, SubtreeIs DEF Above
  <2> QED
    BY <2>1, <2>2, <2>3
<1> QED
  BY <1>1, <1>2, <1>3, <1>4

\* DeleteTree.
LEMMA DeleteTreeSound ==
    ASSUME IndexTypeOK, IndexSound, NEW p \in Paths, DeleteTree(p)
    PROVE  IndexSound'
<1> DEFINE F == [q \in Paths |-> IF q \in Subtree(p) THEN Absent ELSE treeEntries[q]]
           T == [q \in Paths |-> IF q \in Subtree(p) THEN NoLink ELSE submoduleEntries[q]]
           D == dirtyPaths \cup Above(p)
<1>1. /\ IsIndex(treeEntries) /\ dirtyPaths \subseteq Dirs
      /\ NoOrphans(treeEntries, submoduleEntries)
      /\ MarksSound(treeEntries, dirtyPaths)
      /\ UnmarkedIsFresh
  BY SoundParts
<1>2. /\ ~isCleanedUp /\ IsTree(treeEntries, p)
      /\ treeEntries' = F /\ submoduleEntries' = T /\ lastTree' = lastTree
      /\ dirtyPaths' = dirtyPaths \cup MarkedByRemove(F, p)
  BY DEF DeleteTree, Staging
<1>3. /\ \A q \in Subtree(p) : q \in Paths /\ F[q] = Absent /\ T[q] = NoLink
      /\ \A q \in Paths \ Subtree(p) : F[q] = treeEntries[q] /\ T[q] = submoduleEntries[q]
  BY DEF Subtree
<1> HIDE DEF F, T
<1>4. \A q \in Ancestors(p) : IsTree(treeEntries, q) /\ IsTree(F, q)
  <2>1. \A q \in Ancestors(p) : IsTree(treeEntries, q) /\ q \in Paths \ Subtree(p)
    BY <1>1, <1>2, OutsideSubtree DEF NoOrphans, Present, IsTree, Ancestors
  <2> QED
    BY <1>3, <2>1 DEF IsTree
<1>5. dirtyPaths' = D
  <2>1. NonTreesAbove(F, p) = {}
    BY <1>4 DEF NonTreesAbove
  <2> QED
    BY <1>2, <2>1, AllAboveMarked DEF MarkedByRemove
<1>6. ASSUME NEW q \in D \ {Root}
      PROVE  ~IsBlob(F, q)
  <2>1. q \in Paths
    BY <1>1 DEF Above, Ancestors, Dirs
  <2>2. ~IsBlob(treeEntries, q)
    BY <1>1, <1>4 DEF MarksSound, Above, IsTree, IsBlob
  <2> QED
    BY <1>3, <2>1, <2>2 DEF IsBlob, Absent, Entry
<1>7. MarksSound(F, D)
  BY <1>1, <1>6, MoreMarks
<1>8. ASSUME NEW q \in Paths, Present(F, q) \/ T[q] # NoLink, NEW a \in Ancestors(q)
      PROVE  IsTree(F, a)
  <2>1. q \notin Subtree(p)
    BY <1>3, <1>8 DEF Present, Absent, Entry
  <2>2. a \in Paths \ Subtree(p)
    BY <2>1, OutsideSubtree DEF Ancestors
  <2>3. IsTree(treeEntries, a)
    BY <1>1, <1>3, <1>8, <2>1 DEF NoOrphans, Present
  <2> QED
    BY <1>3, <2>2, <2>3 DEF IsTree
<1>9. NoOrphans(F, T)
  BY <1>8 DEF NoOrphans
<1>10. ASSUME NEW q \in Dirs \ D
       PROVE  Fresh(F, T, lastTree, q)
  <2>1. q \in Paths /\ q \in Dirs \ dirtyPaths /\ q \notin Above(p) /\ q # Root
    BY DEF Dirs, Above
  <2>2. CASE q \in Subtree(p)
    BY <1>3, <2>1, <2>2 DEF Fresh, IsTree, Absent, Entry
  <2>3. CASE q \notin Subtree(p)
    <3>1. \A n \in Names : Append(q, n) \notin Subtree(p)
      BY <2>1, <2>3, OutsideSubtree
    <3>2. SameBelow(F, treeEntries, q) /\ SameBelow(T, submoduleEntries, q)
      BY <1>3, <3>1 DEF SameBelow
    <3>3. Listing(F, T, q) = Listing(treeEntries, submoduleEntries, q)
      BY <3>2, SameListing
    <3>4. Fresh(treeEntries, submoduleEntries, lastTree, q) /\ F[q] = treeEntries[q]
      BY <1>1, <1>2, <1>3, <2>1, <2>3 DEF UnmarkedIsFresh
    <3> QED
      BY <3>3, <3>4, FreshKept
  <2> QED
    BY <2>2, <2>3
<1> HIDE DEF D
<1>11. MarksSound(treeEntries', dirtyPaths') /\ NoOrphans(treeEntries', submoduleEntries')
  BY <1>2, <1>5, <1>7, <1>9
<1>12. UnmarkedIsFresh'
  BY <1>2, <1>5, <1>10 DEF UnmarkedIsFresh
<1> QED
  BY <1>11, <1>12 DEF IndexSound, MarksSound, Above

-----------------------------------------------------------------------------
(***************************************************************************)
(* The other steps that change the index.                                  *)
(***************************************************************************)
\* DeleteTree of the root: all is dropped, the marks too.
LEMMA DeleteRootSound ==
    ASSUME IndexTypeOK, IndexSound, DeleteRoot
    PROVE  IndexSound'
<1> DEFINE F == [q \in Paths |-> Absent]
           T == [q \in Paths |-> NoLink]
<1>1. treeEntries' = F /\ submoduleEntries' = T /\ dirtyPaths' = {} /\ lastTree' = EmptyTree
  BY DEF DeleteRoot
<1>2. \A q \in Paths : F[q].type = "none" /\ F[q] = Absent /\ T[q] = NoLink
  BY DEF Absent, Entry
<1> HIDE DEF F, T
<1>3. Listing(F, T, Root) = [n \in Names |-> Absent]
  <2>1. \A n \in Names : Child(F, T, Append(Root, n)) = Absent
    BY <1>2 DEF Child, Present
  <2> QED
    BY <2>1 DEF Listing
<1>4. NoOrphans(F, T)
  BY <1>2 DEF NoOrphans, Present
<1>5. \A q \in Dirs : Fresh(F, T, EmptyTree, q)
  BY <1>2, <1>3 DEF Fresh, IsTree, EmptyTree, Dirs
<1> QED
  BY <1>1, <1>4, <1>5 DEF IndexSound, UnmarkedIsFresh

\* Building a directory changes the hash of its own entry and nothing else.
LEMMA BuildChanges ==
    ASSUME IndexTypeOK, IndexSound, NEW p \in Dirs, BuildSingleTree(p)
    PROVE  /\ p \in dirtyPaths /\ dirtyPaths' = dirtyPaths \ {p}
           /\ \A q \in dirtyPaths : Len(q) <= Len(p)
           /\ submoduleEntries' = submoduleEntries
           /\ \A q \in Paths : treeEntries'[q].type = treeEntries[q].type
           /\ \A q \in Paths \ {p} : treeEntries'[q] = treeEntries[q]
           /\ p # Root => lastTree' = lastTree
           /\ \/ p # Root /\ ~Present(treeEntries, p) /\ UNCHANGED <<packObjects, treeEntries, lastTree>>
              \/ /\ AddObject(Tree(Listing(treeEntries, submoduleEntries, p)))
                 /\ p = Root => lastTree' = Tree(Listing(treeEntries, submoduleEntries, p))
                 /\ p # Root => treeEntries'[p].hash = Tree(Listing(treeEntries, submoduleEntries, p))
<1>1. /\ p \in dirtyPaths /\ dirtyPaths' = dirtyPaths \ {p}
      /\ \A q \in dirtyPaths : Len(q) <= Len(p)
      /\ submoduleEntries' = submoduleEntries
  BY DEF BuildSingleTree, Deepest
<1> DEFINE t == Tree(Listing(treeEntries, submoduleEntries, p))
<1>2. CASE p # Root /\ ~Present(treeEntries, p) /\ UNCHANGED <<treeEntries, lastTree, packObjects>>
  BY <1>1, <1>2
<1>3. CASE /\ AddObject(t)
           /\ lastTree' = IF p = Root THEN t ELSE lastTree
           /\ treeEntries' = [q \in Paths |->
                  IF q = p THEN Entry(treeEntries[q].type, t) ELSE treeEntries[q]]
  <2> HIDE DEF t
  <2>1. \A q \in Paths : treeEntries'[q] = IF q = p THEN Entry(treeEntries[q].type, t) ELSE treeEntries[q]
    BY <1>3
  <2>4. \A u, h : Entry(u, h).type = u /\ Entry(u, h).hash = h
    BY DEF Entry
  <2>2. ASSUME NEW q \in Paths
        PROVE  treeEntries'[q].type = treeEntries[q].type
    <3>1. CASE q = p
      <4>1. treeEntries'[q] = Entry(treeEntries[q].type, t)
        BY <2>1, <3>1
      <4> QED
        BY <4>1, <2>4
    <3> QED
      BY <2>1, <3>1
  <2>3. ASSUME p # Root
        PROVE  treeEntries'[p].hash = t
    <3>1. treeEntries'[p] = Entry(treeEntries[p].type, t)
      BY <2>1, <2>3 DEF Dirs
    <3> QED
      BY <3>1, <2>4
  <2> QED
    BY <1>1, <1>3, <2>1, <2>2, <2>3 DEF t
<1> QED
  BY <1>2, <1>3 DEF BuildSingleTree

\* Built deepest first, a tree lists what its subdirectories were built to.
LEMMA BuildSound ==
    ASSUME IndexTypeOK, IndexSound, NEW p \in Dirs, BuildSingleTree(p)
    PROVE  IndexSound'
<1> DEFINE E == treeEntries
           S == submoduleEntries
           D == dirtyPaths \ {p}
<1>1. /\ IsIndex(E) /\ dirtyPaths \subseteq Dirs /\ NoOrphans(E, S)
      /\ MarksSound(E, dirtyPaths) /\ UnmarkedIsFresh
  BY SoundParts
<1>2. /\ p \in dirtyPaths /\ dirtyPaths' = D
      /\ \A q \in dirtyPaths : Len(q) <= Len(p)
      /\ submoduleEntries' = S
      /\ \A q \in Paths : treeEntries'[q].type = E[q].type
      /\ \A q \in Paths \ {p} : treeEntries'[q] = E[q]
      /\ p # Root => lastTree' = lastTree
      /\ isCleanedUp' = isCleanedUp
  BY BuildChanges DEF BuildSingleTree
<1>3. NoOrphans(treeEntries', submoduleEntries')
  BY <1>1, <1>2 DEF NoOrphans, Present, IsTree, Ancestors
<1>4. ASSUME NEW q \in D \ {Root}
      PROVE  Above(q) \subseteq D /\ ~IsBlob(treeEntries', q)
  <2>1. q \in Paths /\ q \in dirtyPaths \ {Root}
    BY <1>1 DEF Dirs
  <2>2. Above(q) \subseteq dirtyPaths /\ ~IsBlob(E, q)
    BY <1>1, <2>1 DEF MarksSound
  <2>3. p \notin Ancestors(q)
    <3>1. Len(q) <= Len(p) /\ Len(q) \in Nat /\ Len(p) \in Nat
      BY <1>2, <2>1, PathSeq DEF Dirs
    <3> QED
      BY <3>1 DEF Ancestors
  <2>4. p # Root
    <3>1. Len(q) > 0 /\ Len(q) <= Len(p) /\ Len(q) \in Nat
      BY <1>2, <2>1, PathSeq DEF Dirs
    <3> QED
      BY <3>1 DEF Root
  <2> QED
    BY <1>2, <2>1, <2>2, <2>3, <2>4 DEF Above, IsBlob
<1>5. MarksSound(treeEntries', dirtyPaths')
  BY <1>2, <1>4 DEF MarksSound
<1>6. ASSUME NEW q \in Dirs \ D, ~isCleanedUp
      PROVE  Fresh(treeEntries', submoduleEntries', lastTree', q)
  <2>1. \A n \in Names : q # Append(q, n)
    BY PathSeq
  <2>2. CASE q = p
    <3>1. SameBelow(treeEntries', E, p)
      BY <1>2, <2>1, <2>2 DEF SameBelow
    <3>2. SameBelow(submoduleEntries', S, p)
      BY <1>2 DEF SameBelow
    <3>3. Listing(treeEntries', submoduleEntries', p) = Listing(E, S, p)
      BY <3>1, <3>2, SameListing
    <3>4. \/ p # Root /\ ~Present(E, p)
          \/ /\ p = Root => lastTree' = Tree(Listing(E, S, p))
             /\ p # Root => treeEntries'[p].hash = Tree(Listing(E, S, p))
      BY BuildChanges
    <3>5. p # Root => treeEntries'[p].type = E[p].type
      BY <1>2 DEF Dirs
    <3> QED
      BY <2>2, <3>3, <3>4, <3>5 DEF Fresh, IsTree, Present
  <2>3. CASE q # p
    <3>1. q \in Dirs \ dirtyPaths
      BY <2>3
    <3>2. ASSUME NEW n \in Names, Append(q, n) \in Paths
          PROVE  Append(q, n) # p
      <4>1. q \in Above(Append(q, n))
        BY <3>2, ChildIs DEF Above
      <4>2. Append(q, n) # Root
        BY <3>2, AncestorNot
      <4> QED
        BY <1>1, <1>2, <3>1, <4>1, <4>2 DEF MarksSound
    <3>3. SameBelow(treeEntries', E, q) /\ SameBelow(submoduleEntries', S, q)
      BY <1>2, <3>2 DEF SameBelow
    <3>4. Listing(treeEntries', submoduleEntries', q) = Listing(E, S, q)
      BY <3>3, SameListing
    <3>5. Fresh(E, S, lastTree, q)
      BY <1>1, <1>6, <3>1 DEF UnmarkedIsFresh
    <3>6. q # Root => treeEntries'[q] = E[q]
      BY <1>2, <2>3 DEF Dirs
    <3>7. q = Root => lastTree' = lastTree
      <4>1. ASSUME q = Root PROVE p # Root
        BY <2>3, <4>1
      <4> QED
        BY <4>1, <1>2
    <3> QED
      BY <3>4, <3>5, <3>6, <3>7 DEF Fresh, IsTree
  <2> QED
    BY <2>2, <2>3
<1>7. UnmarkedIsFresh'
  BY <1>2, <1>6 DEF UnmarkedIsFresh
<1> QED
  BY <1>3, <1>5, <1>7 DEF IndexSound, MarksSound, Above

\* What pruneSubmoduleEntriesAfterPush removes was hidden behind an entry.
LEMMA PruneSound ==
    ASSUME IndexTypeOK, IndexSound, submoduleEntries' = PrunedSubmodules,
           UNCHANGED <<treeEntries, dirtyPaths, lastTree, isCleanedUp>>
    PROVE  IndexSound'
<1> DEFINE E == treeEntries
           S == submoduleEntries
           T == submoduleEntries'
<1>1. /\ NoOrphans(E, S) /\ MarksSound(E, dirtyPaths) /\ UnmarkedIsFresh
  BY SoundParts
<1>2. \A q \in Paths : \/ T[q] = S[q]
                       \/ Present(E, q) \/ S[q] = NoLink
  BY <1>1 DEF PrunedSubmodules, NoOrphans, NonTreesAbove
<1>3. \A q \in Paths : T[q] # NoLink => S[q] # NoLink
  BY DEF PrunedSubmodules
<1>4. NoOrphans(E, T)
  BY <1>1, <1>3 DEF NoOrphans
<1>5. \A q : Child(E, T, q) = Child(E, S, q)
  BY <1>2, <1>3 DEF Child
<1>6. \A q : Listing(E, T, q) = Listing(E, S, q)
  BY <1>5 DEF Listing
<1>7. ~isCleanedUp => \A q \in Dirs \ dirtyPaths : Fresh(E, T, lastTree, q)
  BY <1>1, <1>6 DEF UnmarkedIsFresh, Fresh
<1>8. UnmarkedIsFresh'
  BY <1>7 DEF UnmarkedIsFresh
<1> QED
  BY <1>1, <1>4, <1>8 DEF IndexSound, MarksSound, Above

LEMMA CleanupSound ==
    ASSUME IndexSound, Cleanup
    PROVE  IndexSound'
<1>1. CASE UNCHANGED <<index, isCleanedUp>>
  BY <1>1 DEF IndexSound, UnmarkedIsFresh, index
<1>2. CASE /\ isCleanedUp' = TRUE
           /\ treeEntries' = [q \in Paths |-> Absent]
           /\ submoduleEntries' = [q \in Paths |-> NoLink]
           /\ dirtyPaths' = {}
  <2>1. NoOrphans(treeEntries', submoduleEntries')
    BY <1>2 DEF NoOrphans, Present, Absent, Entry
  <2> QED
    BY <1>2, <2>1 DEF IndexSound, UnmarkedIsFresh
<1> QED
  BY <1>1, <1>2 DEF Cleanup

-----------------------------------------------------------------------------
(***************************************************************************)
(* Where MoveTree puts the paths of a subtree.                             *)
(***************************************************************************)
\* The rebased path, position by position.
LEMMA RebaseIs ==
    ASSUME NEW from \in Paths, NEW to \in Paths, NEW q \in Seq(Names), Len(from) <= Len(q)
    PROVE  /\ Rebase(q, from, to) \in Seq(Names)
           /\ Len(Rebase(q, from, to)) = Len(to) + Len(q) - Len(from)
           /\ \A i \in 1 .. Len(to) : Rebase(q, from, to)[i] = to[i]
           /\ \A i \in Len(to) + 1 .. Len(to) + Len(q) - Len(from) :
                  Rebase(q, from, to)[i] = q[i - Len(to) + Len(from)]
<1> DEFINE u == SubSeq(q, Len(from) + 1, Len(q))
           r == to \o u
<1>1. /\ from \in Seq(Names) /\ to \in Seq(Names)
      /\ Len(from) \in Nat /\ Len(to) \in Nat /\ Len(q) \in Nat
  BY PathsAssumption
<1>2. \A i \in Len(from) + 1 .. Len(q) : q[i] \in Names
  BY <1>1, ElementOfSeq
<1>3. /\ u \in Seq(Names) /\ Len(u) = Len(q) - Len(from)
      /\ \A i \in 1 .. Len(q) - Len(from) : u[i] = q[Len(from) + i]
  <2>1. /\ u \in Seq(Names)
        /\ Len(u) = IF Len(from) + 1 <= Len(q) THEN Len(q) - (Len(from) + 1) + 1 ELSE 0
        /\ \A i \in 1 .. Len(q) - (Len(from) + 1) + 1 : u[i] = q[(Len(from) + 1) + i - 1]
    BY <1>1, <1>2, SubSeqProperties
  <2> HIDE DEF u
  <2>2. Len(u) = Len(q) - Len(from)
    BY <1>1, <2>1
  <2>3. ASSUME NEW i \in 1 .. Len(q) - Len(from)
        PROVE  u[i] = q[Len(from) + i]
    <3>1. (Len(from) + 1) + i - 1 = Len(from) + i /\ Len(q) - (Len(from) + 1) + 1 = Len(q) - Len(from)
      BY <1>1
    <3> QED
      BY <2>1, <3>1
  <2> QED
    BY <2>1, <2>2, <2>3
<1> HIDE DEF u
<1>4. /\ r \in Seq(Names) /\ Len(r) = Len(to) + Len(u)
      /\ \A i \in 1 .. Len(to) + Len(u) : r[i] = IF i <= Len(to) THEN to[i] ELSE u[i - Len(to)]
  BY <1>1, <1>3, ConcatProperties
<1>5. Rebase(q, from, to) = r
  BY DEF Rebase, u
<1> HIDE DEF r
<1>6. ASSUME NEW i \in 1 .. Len(to)
      PROVE  r[i] = to[i]
  <2>1. i \in 1 .. Len(to) + Len(u) /\ i <= Len(to)
    BY <1>1, <1>3
  <2> QED
    BY <1>4, <2>1
<1>7. ASSUME NEW i \in Len(to) + 1 .. Len(to) + Len(q) - Len(from)
      PROVE  r[i] = q[i - Len(to) + Len(from)]
  <2>1. i \in 1 .. Len(to) + Len(u) /\ ~ i <= Len(to) /\ i - Len(to) \in 1 .. Len(q) - Len(from)
    BY <1>1, <1>3
  <2>2. r[i] = u[i - Len(to)]
    BY <1>4, <2>1
  <2>3. u[i - Len(to)] = q[Len(from) + (i - Len(to))]
    BY <1>3, <2>1
  <2>4. Len(from) + (i - Len(to)) = i - Len(to) + Len(from)
    BY <1>1
  <2> QED
    BY <2>2, <2>3, <2>4
<1>8. Len(to) + Len(u) = Len(to) + Len(q) - Len(from)
  BY <1>1, <1>3
<1> QED
  BY <1>4, <1>5, <1>6, <1>7, <1>8

\* The subtree of a path, position by position.
LEMMA InSubtree ==
    ASSUME NEW p \in Paths, NEW q
    PROVE  q \in Subtree(p) <=>
               q \in Paths /\ Len(p) <= Len(q) /\ \A i \in 1 .. Len(p) : p[i] = q[i]
<1>1. p \in Seq(Names) /\ (q \in Paths => q \in Seq(Names))
  BY PathsAssumption
<1> QED
  BY <1>1, PrefixPointwise DEF Subtree

\* Rebasing to dest and back gives the same path.
LEMMA RebaseIn ==
    ASSUME NEW from \in Paths, NEW to \in Paths, NEW q \in Subtree(from),
           Rebase(q, from, to) \in Paths
    PROVE  /\ Rebase(q, from, to) \in Subtree(to)
           /\ Rebase(Rebase(q, from, to), to, from) = q
<1> DEFINE r == Rebase(q, from, to)
           s == Rebase(r, to, from)
<1>1. /\ from \in Seq(Names) /\ to \in Seq(Names)
      /\ Len(from) \in Nat /\ Len(to) \in Nat
  BY PathsAssumption
<1>2. q \in Paths /\ Len(from) <= Len(q) /\ \A i \in 1 .. Len(from) : from[i] = q[i]
  BY InSubtree
<1>3. q \in Seq(Names) /\ Len(q) \in Nat
  BY <1>2, PathsAssumption
<1>4. /\ r \in Seq(Names) /\ r \in Paths /\ Len(r) = Len(to) + Len(q) - Len(from)
      /\ \A i \in 1 .. Len(to) : r[i] = to[i]
      /\ \A i \in Len(to) + 1 .. Len(to) + Len(q) - Len(from) : r[i] = q[i - Len(to) + Len(from)]
  BY <1>2, <1>3, RebaseIs
<1> HIDE DEF r
<1>5. Len(to) <= Len(r)
  BY <1>1, <1>2, <1>3, <1>4
<1>6. r \in Subtree(to)
  BY <1>4, <1>5, InSubtree
<1>7. /\ s \in Seq(Names) /\ Len(s) = Len(from) + Len(r) - Len(to)
      /\ \A i \in 1 .. Len(from) : s[i] = from[i]
      /\ \A i \in Len(from) + 1 .. Len(from) + Len(r) - Len(to) : s[i] = r[i - Len(from) + Len(to)]
  BY <1>4, <1>5, RebaseIs
<1> HIDE DEF s
<1>8. Len(s) = Len(q)
  BY <1>1, <1>3, <1>4, <1>7
<1>9. ASSUME NEW i \in 1 .. Len(q)
      PROVE  s[i] = q[i]
  <2>1. CASE i <= Len(from)
    BY <1>1, <1>2, <1>7, <2>1
  <2>2. CASE ~ i <= Len(from)
    <3> DEFINE j == i - Len(from) + Len(to)
    <3>1. /\ i \in Len(from) + 1 .. Len(from) + Len(r) - Len(to)
          /\ j \in Len(to) + 1 .. Len(to) + Len(q) - Len(from)
          /\ j - Len(to) + Len(from) = i
      BY <1>1, <1>3, <1>4, <2>2
    <3>2. s[i] = r[j]
      BY <1>7, <3>1
    <3> HIDE DEF j
    <3>3. r[j] = q[i]
      BY <1>4, <3>1
    <3> QED
      BY <3>2, <3>3
  <2> QED
    BY <2>1, <2>2
<1>10. s = q
  BY <1>3, <1>7, <1>8, <1>9, SeqEqual
<1> QED
  BY <1>6, <1>10 DEF r, s

\* A path is rebased to the destination itself,
LEMMA RebaseRoot ==
    ASSUME NEW from \in Paths, NEW to \in Paths
    PROVE  Rebase(from, from, to) = to
<1>1. /\ from \in Seq(Names) /\ to \in Seq(Names)
      /\ Len(from) \in Nat /\ Len(to) \in Nat
  BY PathsAssumption
<1> DEFINE r == Rebase(from, from, to)
<1>2. /\ r \in Seq(Names) /\ Len(r) = Len(to) + Len(from) - Len(from)
      /\ \A i \in 1 .. Len(to) : r[i] = to[i]
  BY <1>1, RebaseIs
<1> HIDE DEF r
<1>3. Len(r) = Len(to)
  BY <1>1, <1>2
<1>4. r = to
  BY <1>1, <1>2, <1>3, SeqEqual
<1> QED
  BY <1>4 DEF r

\* rebasing goes with taking a child,
LEMMA RebaseChild ==
    ASSUME NEW from \in Paths, NEW to \in Paths, NEW q \in Subtree(from), NEW n \in Names
    PROVE  Rebase(Append(q, n), from, to) = Append(Rebase(q, from, to), n)
<1>1. /\ from \in Seq(Names) /\ to \in Seq(Names)
      /\ Len(from) \in Nat /\ Len(to) \in Nat
  BY PathsAssumption
<1>2. q \in Seq(Names) /\ Len(q) \in Nat /\ Len(from) <= Len(q)
  BY PathsAssumption, InSubtree
<1> DEFINE c == Append(q, n)
           r == Rebase(q, from, to)
           s == Rebase(c, from, to)
           t == Append(r, n)
           m == Len(to) + Len(q) - Len(from)
<1>3. /\ c \in Seq(Names) /\ Len(c) = Len(q) + 1 /\ c[Len(q) + 1] = n
      /\ \A i \in 1 .. Len(q) : c[i] = q[i]
  BY <1>2, AppendProperties
<1> HIDE DEF c
<1>4. /\ r \in Seq(Names) /\ Len(r) = m
      /\ \A i \in 1 .. Len(to) : r[i] = to[i]
      /\ \A i \in Len(to) + 1 .. m : r[i] = q[i - Len(to) + Len(from)]
  BY <1>2, RebaseIs
<1> HIDE DEF r
<1>5. /\ s \in Seq(Names) /\ Len(s) = Len(to) + Len(c) - Len(from)
      /\ \A i \in 1 .. Len(to) : s[i] = to[i]
      /\ \A i \in Len(to) + 1 .. Len(to) + Len(c) - Len(from) : s[i] = c[i - Len(to) + Len(from)]
  <2>1. Len(from) <= Len(c)
    BY <1>1, <1>2, <1>3
  <2> QED
    BY <1>3, <2>1, RebaseIs
<1> HIDE DEF s
<1>6. /\ t \in Seq(Names) /\ Len(t) = m + 1 /\ t[m + 1] = n
      /\ \A i \in 1 .. m : t[i] = r[i]
  BY <1>4, AppendProperties
<1> HIDE DEF t
<1>7. m \in Nat /\ Len(to) <= m /\ Len(to) + Len(c) - Len(from) = m + 1 /\ m - Len(to) + Len(from) = Len(q)
  BY <1>1, <1>2, <1>3
<1> HIDE DEF m
<1>8. ASSUME NEW i \in 1 .. Len(s)
      PROVE  s[i] = t[i]
  <2>1. CASE i <= Len(to)
    BY <1>1, <1>4, <1>5, <1>6, <1>7, <2>1
  <2>2. CASE ~ i <= Len(to) /\ i <= m
    <3> DEFINE j == i - Len(to) + Len(from)
    <3>1. /\ i \in Len(to) + 1 .. m /\ i \in Len(to) + 1 .. Len(to) + Len(c) - Len(from)
          /\ i \in 1 .. m
      BY <1>1, <1>5, <1>7, <2>2
    <3>2. s[i] = c[j] /\ t[i] = r[i] /\ r[i] = q[j]
      BY <1>4, <1>5, <1>6, <3>1
    <3>3. j \in 1 .. Len(q)
      BY <1>1, <1>2, <1>7, <3>1
    <3> HIDE DEF j
    <3> QED
      BY <1>3, <3>2, <3>3
  <2>3. CASE ~ i <= m
    <3>1. i = m + 1 /\ i \in Len(to) + 1 .. Len(to) + Len(c) - Len(from)
      BY <1>1, <1>5, <1>7, <2>3
    <3>2. i - Len(to) + Len(from) = Len(q) + 1
      BY <1>1, <1>2, <1>7, <3>1
    <3>3. s[i] = c[Len(q) + 1]
      BY <1>5, <3>1, <3>2
    <3> QED
      BY <1>3, <1>6, <3>1, <3>3
  <2> QED
    BY <2>1, <2>2, <2>3
<1>9. s = t
  <2>1. Len(s) = Len(t)
    BY <1>5, <1>6, <1>7
  <2> QED
    BY <1>5, <1>6, <1>8, <2>1, SeqEqual
<1> QED
  BY <1>9 DEF s, t, r, c

\* and with taking an ancestor.
LEMMA RebaseAncestor ==
    ASSUME NEW from \in Paths, NEW to \in Paths, NEW q \in Subtree(from),
           Rebase(q, from, to) \in Paths, NEW a \in Ancestors(q), a \in Subtree(from)
    PROVE  Rebase(a, from, to) \in Ancestors(Rebase(q, from, to))
<1> DEFINE r == Rebase(q, from, to)
           s == Rebase(a, from, to)
<1>1. /\ from \in Seq(Names) /\ to \in Seq(Names)
      /\ Len(from) \in Nat /\ Len(to) \in Nat
  BY PathsAssumption
<1>2. /\ q \in Paths /\ q \in Seq(Names) /\ Len(q) \in Nat /\ Len(from) <= Len(q)
      /\ a \in Paths /\ a \in Seq(Names) /\ Len(a) \in Nat /\ Len(from) <= Len(a)
      /\ Len(a) < Len(q) /\ \A i \in 1 .. Len(a) : a[i] = q[i]
  BY PathsAssumption, InSubtree, AncestorIs
<1>3. /\ r \in Seq(Names) /\ Len(r) = Len(to) + Len(q) - Len(from)
      /\ \A i \in 1 .. Len(to) : r[i] = to[i]
      /\ \A i \in Len(to) + 1 .. Len(to) + Len(q) - Len(from) : r[i] = q[i - Len(to) + Len(from)]
  BY <1>2, RebaseIs
<1>4. /\ s \in Seq(Names) /\ Len(s) = Len(to) + Len(a) - Len(from)
      /\ \A i \in 1 .. Len(to) : s[i] = to[i]
      /\ \A i \in Len(to) + 1 .. Len(to) + Len(a) - Len(from) : s[i] = a[i - Len(to) + Len(from)]
  <2>1. a \in Seq(Names) /\ Len(from) <= Len(a)
    BY <1>2
  <2> QED
    BY <2>1, RebaseIs
<1>5. r \in Paths
  OBVIOUS
<1> HIDE DEF r, s
<1>6. Len(s) \in Nat /\ Len(s) < Len(r) /\ Len(s) >= 1
  <2>1. Len(to) >= 1
    BY <1>1, PathSeq, PathsAssumption DEF Dirs
  <2> QED
    BY <1>1, <1>2, <1>3, <1>4, <2>1
<1>7. ASSUME NEW i \in 1 .. Len(s)
      PROVE  s[i] = r[i]
  <2>1. CASE i <= Len(to)
    BY <1>1, <1>3, <1>4, <2>1
  <2>2. CASE ~ i <= Len(to)
    <3> DEFINE j == i - Len(to) + Len(from)
    <3>1. /\ i \in Len(to) + 1 .. Len(to) + Len(a) - Len(from)
          /\ i \in Len(to) + 1 .. Len(to) + Len(q) - Len(from)
          /\ j \in 1 .. Len(a)
      BY <1>1, <1>2, <1>4, <2>2
    <3>2. s[i] = a[j] /\ r[i] = q[j]
      BY <1>3, <1>4, <3>1
    <3> HIDE DEF j
    <3> QED
      BY <1>2, <3>1, <3>2
  <2> QED
    BY <2>1, <2>2
<1>8. s \in Paths
  <2> DEFINE k == Len(s)
             u == SubSeq(r, 1, k)
  <2>1. k \in 1 .. Len(r) - 1 /\ k \in Nat /\ Len(r) \in Nat
    BY <1>3, <1>6
  <2>2. u \in Paths
    BY <1>5, <2>1, PathsAssumption
  <2>3. \A i \in 1 .. k : r[i] \in Names
    BY <1>3, <2>1, ElementOfSeq
  <2>4. /\ u \in Seq(Names) /\ Len(u) = (IF 1 <= k THEN k - 1 + 1 ELSE 0)
        /\ \A i \in 1 .. k - 1 + 1 : u[i] = r[1 + i - 1]
    BY <2>1, <2>3, SubSeqProperties
  <2> HIDE DEF u
  <2>5. Len(u) = Len(s) /\ k - 1 + 1 = k
    BY <2>1, <2>4
  <2>6. ASSUME NEW i \in 1 .. Len(s)
        PROVE  s[i] = u[i]
    <3>1. 1 + i - 1 = i
      OBVIOUS
    <3>2. u[i] = r[i]
      BY <2>4, <2>5, <3>1
    <3> QED
      BY <1>7, <3>2
  <2>7. s = u
    BY <1>4, <2>4, <2>5, <2>6, SeqEqual
  <2> QED
    BY <2>2, <2>7
<1>9. s \in Ancestors(r)
  BY <1>5, <1>6, <1>7, <1>8, AncestorIs
<1> QED
  BY <1>9 DEF r, s

\* What the index holds after MoveTree, for a caller that moves to where
\* nothing is and whose parents are directories.
LEMMA MovedIndex ==
    ASSUME IndexTypeOK, IndexSound, NEW src \in Paths, NEW dest \in Paths,
           ~Present(treeEntries, dest), BlobsAbove(treeEntries, dest) = {},
           NEW E1, E1 = MovedEntries(src, dest), NEW G, G = WithMissingDirs(E1, dest)
    PROVE  /\ BlobsAbove(E1, dest) = {}
           /\ MarkedByAdd(E1, dest) = Above(dest)
           /\ \A q \in Subtree(dest) :
                  /\ q \in Paths
                  /\ ~Present(treeEntries, q)
                  /\ q # dest => submoduleEntries[q] = NoLink
                  /\ q \notin Ancestors(dest)
           /\ \A q \in Ancestors(dest) : IsTree(G, q)
           /\ \A q \in Subtree(dest) :
                  IF Arrives(q, src, dest) /\ Present(treeEntries, Rebase(q, dest, src))
                  THEN G[q] = treeEntries[Rebase(q, dest, src)]
                  ELSE ~Present(G, q)
           /\ \A q \in Paths \ (Subtree(dest) \cup Ancestors(dest)) :
                  IF q \in Subtree(src) THEN ~Present(G, q) ELSE G[q] = treeEntries[q]
<1> DEFINE E == treeEntries
<1>1. IsIndex(E) /\ NoOrphans(E, submoduleEntries)
  BY SoundParts
<1>2. IsIndex(E1)
  BY MovedEntriesIndex
<1>3. ASSUME NEW q \in Subtree(dest)
      PROVE  /\ q \in Paths /\ ~Present(E, q)
             /\ q # dest => submoduleEntries[q] = NoLink
             /\ q \notin Ancestors(dest)
  <2>1. q \in Paths /\ (q # dest => dest \in Ancestors(q)) /\ q \notin Ancestors(dest)
    BY SubtreeIs, OutsideSubtree
  <2>2. ~IsTree(E, dest)
    BY DEF Present, IsTree
  <2> QED
    BY <1>1, <2>1, <2>2 DEF NoOrphans
<1>4. \A q \in Paths : E1[q] = IF q \in Subtree(src) /\ Present(E, q) THEN Absent
                               ELSE IF Arrives(q, src, dest) /\ Present(E, Rebase(q, dest, src))
                                    THEN E[Rebase(q, dest, src)] ELSE E[q]
  BY DEF MovedEntries
<1>5. \A q : Arrives(q, src, dest) => q \in Subtree(dest)
  BY DEF Arrives
<1>6. BlobsAbove(E1, dest) = {}
  <2>1. ASSUME NEW a \in Ancestors(dest)
        PROVE  ~IsBlob(E1, a)
    <3>1. a \in Paths /\ a \notin Subtree(dest) /\ ~IsBlob(E, a)
      BY OutsideSubtree DEF Ancestors, BlobsAbove
    <3>2. E1[a] = Absent \/ E1[a] = E[a]
      BY <1>4, <1>5, <3>1
    <3> QED
      BY <3>1, <3>2 DEF IsBlob, Absent, Entry
  <2> QED
    BY <2>1 DEF BlobsAbove
<1>7. /\ MarkedByAdd(E1, dest) = Above(dest)
      /\ \A q \in Ancestors(dest) : IsTree(G, q)
      /\ \A q \in Paths : q \notin Ancestors(dest) \/ Present(E1, q) => G[q] = E1[q]
  BY <1>2, <1>6, MissingDirsMade
<1>8. ASSUME NEW q \in Subtree(dest)
      PROVE  IF Arrives(q, src, dest) /\ Present(E, Rebase(q, dest, src))
             THEN G[q] = E[Rebase(q, dest, src)]
             ELSE ~Present(G, q)
  <2>1. q \in Paths /\ ~Present(E, q) /\ G[q] = E1[q]
    BY <1>3, <1>7
  <2>2. E1[q] = IF Arrives(q, src, dest) /\ Present(E, Rebase(q, dest, src))
                THEN E[Rebase(q, dest, src)] ELSE E[q]
    BY <1>4, <2>1
  <2> QED
    BY <2>1, <2>2 DEF Present
<1>9. ASSUME NEW q \in Paths \ (Subtree(dest) \cup Ancestors(dest))
      PROVE  IF q \in Subtree(src) THEN ~Present(G, q) ELSE G[q] = E[q]
  <2>1. G[q] = E1[q]
    BY <1>7
  <2>2. E1[q] = IF q \in Subtree(src) /\ Present(E, q) THEN Absent ELSE E[q]
    BY <1>4, <1>5
  <2> QED
    BY <2>1, <2>2 DEF Present, Absent, Entry
<1> QED
  BY <1>3, <1>6, <1>7, <1>8, <1>9

\* What becomes of the submodules of a subtree that is moved.
LEMMA ReparentedIs ==
    ASSUME NEW src, NEW dest
    PROVE  /\ \A q \in Subtree(dest) :
                  \/ /\ Arrives(q, src, dest) /\ submoduleEntries[Rebase(q, dest, src)] # NoLink
                     /\ ReparentedSubmodules(src, dest)[q] = submoduleEntries[Rebase(q, dest, src)]
                  \/ /\ ~Arrives(q, src, dest) \/ submoduleEntries[Rebase(q, dest, src)] = NoLink
                     /\ ReparentedSubmodules(src, dest)[q] \in {NoLink, submoduleEntries[q]}
           /\ \A q \in Paths \ Subtree(dest) :
                  ReparentedSubmodules(src, dest)[q] =
                      IF q \in Subtree(src) THEN NoLink ELSE submoduleEntries[q]
BY DEF ReparentedSubmodules, Arrives, Subtree

\* MoveTree.
LEMMA MoveTreeSound ==
    ASSUME IndexTypeOK, IndexSound, "plainParents" \in Careful, "freshNames" \in Careful,
           "settledMoves" \in Careful,
           NEW src \in Paths, NEW dest \in Paths, MoveTree(src, dest)
    PROVE  /\ IndexSound'
           /\ BlobsAbove(treeEntries, dest) = {}
           /\ dirtyPaths' = (dirtyPaths \cup Above(dest)) \cup Above(src)
<1> DEFINE E == treeEntries
           S == submoduleEntries
           E1 == MovedEntries(src, dest)
           G == WithMissingDirs(E1, dest)
           T == ReparentedSubmodules(src, dest)
           D1 == dirtyPaths \cup Above(dest)
           D == D1 \cup Above(src)
<1>1. /\ IsIndex(E) /\ dirtyPaths \subseteq Dirs
      /\ NoOrphans(E, S) /\ MarksSound(E, dirtyPaths) /\ UnmarkedIsFresh
  BY SoundParts
<1>2. /\ ~isCleanedUp /\ src # dest
      /\ IsTree(E, src) /\ ~Present(E, dest)
      /\ \A q \in Subtree(src) : Present(E, q) \/ S[q] # NoLink => Rebase(q, src, dest) \in Paths
      /\ Subtree(src) \cap dirtyPaths = {}
      /\ BlobsAbove(E, dest) = {}
      /\ Subtree(dest) \cap dirtyPaths = {}
      /\ treeEntries' = G /\ submoduleEntries' = T /\ lastTree' = lastTree
  BY DEF MoveTree, Staging
<1>3. /\ BlobsAbove(E1, dest) = {}
      /\ MarkedByAdd(E1, dest) = Above(dest)
      /\ \A q \in Subtree(dest) :
             /\ q \in Paths
             /\ ~Present(E, q)
             /\ q # dest => S[q] = NoLink
             /\ q \notin Ancestors(dest)
      /\ \A q \in Ancestors(dest) : IsTree(G, q)
      /\ \A q \in Subtree(dest) :
             IF Arrives(q, src, dest) /\ Present(E, Rebase(q, dest, src))
             THEN G[q] = E[Rebase(q, dest, src)]
             ELSE ~Present(G, q)
      /\ \A q \in Paths \ (Subtree(dest) \cup Ancestors(dest)) :
             IF q \in Subtree(src) THEN ~Present(G, q) ELSE G[q] = E[q]
  BY <1>2, MovedIndex
<1>4. dirtyPaths' = dirtyPaths \cup MarkedByAdd(E1, dest) \cup MarkedByRemove(G, src)
  BY <1>3 DEF MoveTree
<1>5. /\ \A q \in Subtree(dest) :
             \/ /\ Arrives(q, src, dest) /\ S[Rebase(q, dest, src)] # NoLink
                /\ T[q] = S[Rebase(q, dest, src)]
             \/ /\ ~Arrives(q, src, dest) \/ S[Rebase(q, dest, src)] = NoLink
                /\ T[q] \in {NoLink, S[q]}
      /\ \A q \in Paths \ Subtree(dest) :
             T[q] = IF q \in Subtree(src) THEN NoLink ELSE S[q]
  BY ReparentedIs
<1> HIDE DEF G, E1, T
<1>6. ASSUME NEW a \in Ancestors(src)
      PROVE  a \in Paths /\ IsTree(E, a) /\ IsTree(G, a)
  <2>1. a \in Paths /\ IsTree(E, a) /\ a \notin Subtree(src)
    BY <1>1, <1>2, OutsideSubtree DEF NoOrphans, IsTree, Present, Ancestors
  <2>2. a \notin Subtree(dest)
    BY <1>3, <2>1 DEF Present, IsTree
  <2> QED
    BY <1>3, <2>1, <2>2 DEF IsTree
<1>7. MarkedByRemove(G, src) = Above(src)
  <2>1. NonTreesAbove(G, src) = {}
    BY <1>6 DEF NonTreesAbove
  <2> QED
    BY <2>1, AllAboveMarked DEF MarkedByRemove
<1>8. dirtyPaths' = D
  BY <1>3, <1>4, <1>7
<1>9. ASSUME NEW q \in D \ {Root}
      PROVE  ~IsBlob(G, q)
  <2>1. CASE q \in Ancestors(dest) \cup Ancestors(src)
    BY <1>3, <1>6, <2>1 DEF IsTree, IsBlob
  <2>2. CASE q \notin Ancestors(dest) \cup Ancestors(src)
    <3>1. q \in dirtyPaths \ {Root} /\ q \in Paths \ (Subtree(dest) \cup Ancestors(dest))
      BY <1>1, <1>2, <2>2 DEF Above, Dirs
    <3>2. ~IsBlob(E, q)
      BY <1>1, <3>1 DEF MarksSound
    <3>3. ~Present(G, q) \/ G[q] = E[q]
      BY <1>3, <3>1
    <3> QED
      BY <3>2, <3>3 DEF IsBlob, Present
  <2> QED
    BY <2>1, <2>2
<1>10. MarksSound(G, D)
  <2>1. ASSUME NEW q \in D \ {Root}
        PROVE  Above(q) \subseteq D
    BY <1>1, AncestorOfAncestor DEF MarksSound, Above
  <2> QED
    BY <1>9, <2>1 DEF MarksSound
<1>11. ASSUME NEW q \in Subtree(dest), Arrives(q, src, dest)
       PROVE  /\ Rebase(q, dest, src) \in Paths /\ Rebase(q, dest, src) \in Subtree(src)
              /\ Rebase(Rebase(q, dest, src), src, dest) = q
  BY <1>11, RebaseIn DEF Arrives
<1>12. ASSUME NEW q \in Paths, Present(G, q) \/ T[q] # NoLink, NEW a \in Ancestors(q)
       PROVE  IsTree(G, a)
  <2>0. a \in Paths
    BY DEF Ancestors
  <2>1. CASE a \in Ancestors(dest)
    BY <1>3, <2>1
  <2>2. CASE q \in Subtree(dest) /\ a \notin Ancestors(dest)
    <3>1. q # dest /\ dest \in Ancestors(q)
      BY <1>12, <2>2, SubtreeIs
    <3>2. a \in Subtree(dest)
      BY <2>0, <2>2, <3>1, AncestorsCompare, SubtreeIs
    <3> DEFINE r == Rebase(q, dest, src)
               b == Rebase(a, dest, src)
    <3>3. Arrives(q, src, dest) /\ (Present(E, r) \/ S[r] # NoLink)
      BY <1>3, <1>5, <1>12, <2>2, <3>1
    <3>4. r \in Paths
      BY <2>2, <3>3 DEF Arrives
    <3>5. b \in Ancestors(r)
      BY <2>2, <3>2, <3>4, RebaseAncestor
    <3> HIDE DEF r, b
    <3>6. IsTree(E, b) /\ b \in Paths
      BY <1>1, <3>3, <3>4, <3>5 DEF NoOrphans, Ancestors
    <3>7. Arrives(a, src, dest) /\ Present(E, b)
      BY <3>2, <3>6 DEF Arrives, b, Present, IsTree
    <3>8. G[a] = E[b]
      BY <1>3, <3>2, <3>7 DEF b
    <3> QED
      BY <3>6, <3>8 DEF IsTree
  <2>3. CASE q \in Ancestors(dest)
    BY <1>3, <2>3, <1>12, AncestorOfAncestor
  <2>4. CASE q \notin Subtree(dest) /\ q \notin Ancestors(dest) /\ a \notin Ancestors(dest)
    <3>1. q \notin Subtree(src)
      BY <1>3, <1>5, <1>12, <2>4
    <3>2. Present(E, q) \/ S[q] # NoLink
      BY <1>3, <1>5, <1>12, <2>4, <3>1 DEF Present
    <3>3. IsTree(E, a)
      BY <1>1, <1>12, <3>2 DEF NoOrphans
    <3>4. a \notin Subtree(src) /\ a \notin Subtree(dest)
      BY <1>12, <2>4, <3>1, OutsideSubtree
    <3> QED
      BY <1>3, <2>0, <2>4, <3>3, <3>4 DEF IsTree
  <2> QED
    BY <2>1, <2>2, <2>3, <2>4
<1>13. NoOrphans(G, T)
  BY <1>12 DEF NoOrphans
\* A directory that moved lists at its new place what it listed at the old one.
<1>14. ASSUME NEW q \in Subtree(dest), Arrives(q, src, dest)
       PROVE  Listing(G, T, q) = Listing(E, S, Rebase(q, dest, src))
  <2> DEFINE r == Rebase(q, dest, src)
  <2>1. r \in Paths /\ r \in Subtree(src) /\ Rebase(r, src, dest) = q /\ q \in Paths
    BY <1>3, <1>11, <1>14
  <2>2. ASSUME NEW n \in Names
        PROVE  Child(G, T, Append(q, n)) = Child(E, S, Append(r, n))
    <3> DEFINE c == Append(q, n)
               d == Append(r, n)
    <3>1. Rebase(c, dest, src) = d
      BY <1>14, RebaseChild
    <3>2. Rebase(d, src, dest) = c
      <4> HIDE DEF r
      <4> QED
        BY <2>1, RebaseChild
    <3>3. q \in Dirs /\ r \in Dirs
      BY <2>1 DEF Dirs
    <3>4. ASSUME c \in Paths
          PROVE  c \in Subtree(dest) /\ c # dest
      <4>1. q \in Ancestors(c)
        BY <2>1, <3>3, <3>4, ChildIs, AncestorNot
      <4>2. dest = q \/ dest \in Ancestors(q)
        BY SubtreeIs
      <4>3. dest \in Ancestors(c)
        BY <3>4, <4>1, <4>2, AncestorOfAncestor
      <4> QED
        BY <3>4, <4>3, SubtreeIs, AncestorNot
    <3>5. ASSUME d \in Paths
          PROVE  d \in Subtree(src)
      <4>1. r \in Ancestors(d)
        BY <2>1, <3>3, <3>5, ChildIs, AncestorNot
      <4>2. src = r \/ src \in Ancestors(r)
        BY <2>1, SubtreeIs
      <4>3. src \in Ancestors(d)
        BY <3>5, <4>1, <4>2, AncestorOfAncestor
      <4> QED
        BY <3>5, <4>3, SubtreeIs
    <3> HIDE DEF c, d, r
    <3>6. ASSUME d \in Paths /\ (Present(E, d) \/ S[d] # NoLink)
          PROVE  Child(G, T, c) = Child(E, S, d)
      <4>1. c \in Paths
        BY <1>2, <3>2, <3>5, <3>6
      <4>2. c \in Subtree(dest) /\ Arrives(c, src, dest)
        BY <3>1, <3>4, <3>6, <4>1 DEF Arrives
      <4>3. Present(E, d) => G[c] = E[d]
        BY <1>3, <3>1, <4>2
      <4>4. ~Present(E, d) => ~Present(G, c) /\ T[c] = S[d]
        BY <1>3, <1>5, <3>1, <3>6, <4>2
      <4> QED
        BY <3>6, <4>1, <4>3, <4>4 DEF Child, Present
    <3>7. ASSUME ~(d \in Paths /\ (Present(E, d) \/ S[d] # NoLink))
          PROVE  Child(G, T, c) = Child(E, S, d)
      <4>1. Child(E, S, d) = Absent
        BY <3>7 DEF Child
      <4>2. ASSUME c \in Paths
            PROVE  ~Present(G, c) /\ T[c] = NoLink
        <5>1. c \in Subtree(dest) /\ S[c] = NoLink
          BY <1>3, <3>4, <4>2
        <5>2. Arrives(c, src, dest) => d \in Paths
          BY <3>1 DEF Arrives
        <5> QED
          BY <1>3, <1>5, <3>1, <3>7, <5>1, <5>2
      <4>3. Child(G, T, c) = Absent
        BY <4>2 DEF Child
      <4> QED
        BY <4>1, <4>3
    <3>8. Child(G, T, c) = Child(E, S, d)
      BY <3>6, <3>7
    <3> QED
      BY <3>8 DEF c, d, r
  <2> HIDE DEF r
  <2>3. Listing(G, T, q) = Listing(E, S, r)
    BY <2>2 DEF Listing
  <2> QED
    BY <2>3 DEF r
<1>15. ASSUME NEW q \in Dirs \ D
       PROVE  Fresh(G, T, lastTree, q)
  <2>1. /\ q \in Paths /\ q # Root /\ q \notin dirtyPaths
        /\ q \notin Above(src) /\ q \notin Above(dest) /\ q \notin Ancestors(dest)
    BY DEF Dirs, Above
  <2>2. CASE q \in Subtree(dest) /\ ~(Arrives(q, src, dest) /\ Present(E, Rebase(q, dest, src)))
    BY <1>3, <2>1, <2>2 DEF Fresh, Present, IsTree
  <2>3. CASE q \in Subtree(dest) /\ Arrives(q, src, dest) /\ Present(E, Rebase(q, dest, src))
    <3> DEFINE r == Rebase(q, dest, src)
    <3>1. G[q] = E[r] /\ Listing(G, T, q) = Listing(E, S, r)
      BY <1>3, <1>14, <2>3
    <3>2. r \in Paths /\ r \in Subtree(src)
      BY <1>11, <2>3
    <3> HIDE DEF r
    <3>3. r \in Dirs \ dirtyPaths /\ r # Root
      BY <1>2, <3>2, AncestorNot DEF Dirs
    <3>4. Fresh(E, S, lastTree, r)
      BY <1>1, <1>2, <3>3 DEF UnmarkedIsFresh
    <3> QED
      BY <2>1, <3>1, <3>3, <3>4 DEF Fresh, IsTree
  <2>4. CASE q \notin Subtree(dest) /\ q \in Subtree(src)
    BY <1>3, <2>1, <2>4 DEF Fresh, Present, IsTree
  <2>5. CASE q \notin Subtree(dest) /\ q \notin Subtree(src)
    <3>1. ASSUME NEW n \in Names, Append(q, n) \in Paths
          PROVE  /\ Append(q, n) \notin Subtree(dest) /\ Append(q, n) \notin Subtree(src)
                 /\ Append(q, n) \notin Ancestors(dest)
      BY <2>1, <2>5, OutsideSubtree, ChildAbove
    <3>2. SameBelow(G, E, q) /\ SameBelow(T, S, q)
      BY <1>3, <1>5, <3>1 DEF SameBelow
    <3>3. Listing(G, T, q) = Listing(E, S, q)
      BY <3>2, SameListing
    <3>4. Fresh(E, S, lastTree, q) /\ G[q] = E[q]
      BY <1>1, <1>2, <1>3, <2>1, <2>5 DEF UnmarkedIsFresh
    <3> QED
      BY <3>3, <3>4, FreshKept
  <2> QED
    BY <2>2, <2>3, <2>4, <2>5
<1>16. MarksSound(treeEntries', dirtyPaths') /\ NoOrphans(treeEntries', submoduleEntries')
  BY <1>2, <1>8, <1>10, <1>13
<1> HIDE DEF D
<1>17. UnmarkedIsFresh'
  BY <1>2, <1>8, <1>15 DEF UnmarkedIsFresh
<1>18. IndexSound'
  BY <1>16, <1>17 DEF IndexSound, MarksSound, Above
<1> QED
  BY <1>2, <1>8, <1>18 DEF D

-----------------------------------------------------------------------------
(***************************************************************************)
(* The index stays sound.                                                  *)
(***************************************************************************)
\* A step that leaves the index alone.
LEMMA SoundFrame ==
    ASSUME IndexSound, UNCHANGED <<index, isCleanedUp>>
    PROVE  IndexSound'
BY DEF IndexSound, UnmarkedIsFresh, index

\* A staging call keeps the index sound.
LEMMA StageSound ==
    ASSUME IndexTypeOK, IndexSound, IndexDisciplines \subseteq Careful, Stage
    PROVE  IndexSound'
<1> USE DEF IndexDisciplines
<1>1. ASSUME NEW p \in Paths, NEW c \in Contents, CreateBlob(p, c) \/ UpdateBlob(p, c)
      PROVE  IndexSound'
  <2>1. PutBlob(p, c) /\ ~isCleanedUp
    BY <1>1 DEF CreateBlob, UpdateBlob, Staging
  <2>2. ~IsTree(treeEntries, p)
    BY <1>1 DEF CreateBlob, UpdateBlob, Present, IsTree, IsBlob
  <2> QED
    BY <2>1, <2>2, PutBlobSound
<1>2. ASSUME NEW p \in Paths, DeleteBlob(p)
      PROVE  IndexSound'
  BY <1>2, DeleteBlobSound
<1>3. ASSUME NEW p \in Paths, DeleteTree(p)
      PROVE  IndexSound'
  BY <1>3, DeleteTreeSound
<1>4. ASSUME NEW p \in Paths, NEW q \in Paths, MoveBlob(p, q)
      PROVE  IndexSound'
  BY <1>4, MoveBlobSound
<1>5. ASSUME NEW p \in Paths, NEW q \in Paths, MoveTree(p, q)
      PROVE  IndexSound'
  BY <1>5, MoveTreeSound
<1>6. CASE DeleteRoot
  BY <1>6, DeleteRootSound
<1> QED
  BY <1>1, <1>2, <1>3, <1>4, <1>5, <1>6 DEF Stage

LEMMA SoundInit == Init => IndexSound
<1> SUFFICES ASSUME Init PROVE IndexSound
  OBVIOUS
<1>1. PICK r \in Repos : /\ treeEntries = r.entries /\ submoduleEntries = r.links
                         /\ lastTree = r.tree
  BY DEF Init
<1>2. NoOrphans(r.entries, r.links) /\ \A p \in Dirs : Fresh(r.entries, r.links, r.tree, p)
  BY ReposAssumption DEF Consistent
<1>3. dirtyPaths = {}
  BY DEF Init
<1> QED
  BY <1>1, <1>2, <1>3 DEF IndexSound, UnmarkedIsFresh

\* So does every step.
LEMMA SoundStep ==
    ASSUME IndexDisciplines \subseteq Careful, TypeOK, IndexSound, [Next]_vars
    PROVE  IndexSound'
<1>1. IndexTypeOK
  BY DEF TypeOK
<1>2. CASE Stage
  BY <1>1, <1>2, StageSound
<1>3. CASE BeginCommit \/ NothingToCommit \/ AddCommit \/ AddCommitFails
  BY <1>3, SoundFrame DEF BeginCommit, NothingToCommit, AddCommit, AddCommitFails
<1>4. ASSUME NEW p \in Dirs, BuildSingleTree(p)
      PROVE  IndexSound'
  BY <1>1, <1>4, BuildSound
<1>5. CASE Acknowledged
  BY <1>1, <1>5, PruneSound DEF Acknowledged
<1>6. CASE PushReplyLost \/ ForeignPush
  BY <1>6, SoundFrame DEF PushReplyLost, ForeignPush
<1>7. CASE Cleanup
  BY <1>7, CleanupSound
<1>8. CASE UNCHANGED vars
  BY <1>8, SoundFrame DEF vars
<1> QED
  BY <1>2, <1>3, <1>4, <1>5, <1>6, <1>7, <1>8
  DEF Next, Commit, Push, PushAccepted, PushOfNothing

\* A tree hash that the writer does not recompute is the hash of what the index
\* holds below it: the optimisation of buildPendingTrees to rebuild the marked
\* directories only is right, for a caller that puts no blob below a blob,
\* updates blobs only, puts no blob where a marked directory was and moves no
\* directory with something staged below it.  Nothing is asked of the disk, the
\* signer or the server.
THEOREM IndexStaysSound == IndexDisciplines \subseteq Careful => (Spec => []IndexSound)
<1> SUFFICES ASSUME IndexDisciplines \subseteq Careful
             PROVE  Spec => []IndexSound
  OBVIOUS
<1>1. TypeOK /\ IndexSound /\ [Next]_vars => IndexSound'
  BY SoundStep
<1> QED
  BY <1>1, SoundInit, TypeInit, TypeStep, PTL DEF Spec

-----------------------------------------------------------------------------
(***************************************************************************)
(* Nothing that a commit needs is missing.  A set of objects supports a    *)
(* tree when it holds all that the tree lists.                             *)
(***************************************************************************)
\* The parts of NothingMissing.
RootKnown == lastTree \in Sendable \/ Root \in dirtyPaths
EntriesKnown ==
    \A p \in Paths \ dirtyPaths :
        Present(treeEntries, p) => treeEntries[p].hash \in Sendable
LineageKnown ==
    \A i \in Lineage(lastCommit) :
        commits[i].tree \in Sendable /\ i \in remoteCommits \cup packCommits

\* NothingMissing, in its parts.
LEMMA NothingMissingIs ==
    NothingMissing <=>
        (~isCleanedUp /\ ~packClosed =>
             Closed(Sendable) /\ RootKnown /\ EntriesKnown /\ LineageKnown)
BY DEF NothingMissing, RootKnown, EntriesKnown, LineageKnown

LEMMA NothingMissingIsPrimed ==
    NothingMissing' <=>
        (~isCleanedUp' /\ ~packClosed' =>
             Closed(Sendable)' /\ RootKnown' /\ EntriesKnown' /\ LineageKnown')
BY DEF NothingMissing, RootKnown, EntriesKnown, LineageKnown

\* What an object refers to is in K.
Supported(o, K) ==
    o.kind = "tree" =>
        \A n \in Names : o.listing[n].type \in {"blob", "tree"} => o.listing[n].hash \in K

LEMMA ClosedWith ==
    ASSUME NEW K, Closed(K), NEW L, K \subseteq L, \A o \in L \ K : Supported(o, L)
    PROVE  Closed(L)
BY DEF Closed, Supported

LEMMA BlobSupported ==
    ASSUME NEW c, NEW K
    PROVE  Supported(Blob(c), K)
BY DEF Supported, Blob

LEMMA EmptyTreeSupported ==
    ASSUME NEW K
    PROVE  Supported(EmptyTree, K)
<1>1. \A n \in Names : EmptyTree.listing[n] = Absent
  BY DEF EmptyTree, Tree
<1> QED
  BY <1>1 DEF Supported, Absent, Entry

\* A tree object is supported once the entries it lists are.
LEMMA TreeSupported ==
    ASSUME NEW E, NEW S, NEW p, NEW K,
           \A n \in Names : Append(p, n) \in Paths /\ Present(E, Append(p, n))
                                => E[Append(p, n)].hash \in K
    PROVE  Supported(Tree(Listing(E, S, p)), K)
<1> DEFINE o == Tree(Listing(E, S, p))
<1>1. ASSUME NEW n \in Names, o.listing[n].type \in {"blob", "tree"}
      PROVE  o.listing[n].hash \in K
  <2>1. o.listing[n] = Child(E, S, Append(p, n))
    BY DEF Tree, Listing
  <2> HIDE DEF o
  <2>2. Append(p, n) \in Paths /\ Present(E, Append(p, n)) /\ o.listing[n] = E[Append(p, n)]
    BY <1>1, <2>1 DEF Child, Absent, Entry
  <2> QED
    BY <2>2
<1> HIDE DEF o
<1>2. Supported(o, K)
  BY <1>1 DEF Supported
<1> QED
  BY <1>2 DEF o

\* PackfileWriter.AddObject, of an open pack with a disk that works.
LEMMA ObjectAdded ==
    ASSUME NEW o, AddObject(o), ~packClosed, "disk" \notin Faults
    PROVE  packObjects' = packObjects \cup {o}
BY DEF AddObject

\* A staging call sends new objects along and keeps the others.
LEMMA StageComplete ==
    ASSUME IndexTypeOK, IndexSound, IndexDisciplines \subseteq Careful, "disk" \notin Faults,
           ~packClosed, Closed(Sendable), RootKnown, EntriesKnown, Stage
    PROVE  /\ Sendable \subseteq Sendable'
           /\ Closed(Sendable)' /\ RootKnown' /\ EntriesKnown'
<1> USE DEF IndexDisciplines
<1> DEFINE E == treeEntries
<1>1. PICK op : Staging(op)
  BY StageFrame
<1>2. remoteObjects' = remoteObjects
  BY <1>1 DEF Staging, server
<1>3. /\ IsIndex(E) /\ dirtyPaths \subseteq Dirs
      /\ NoOrphans(E, submoduleEntries)
      /\ MarksSound(E, dirtyPaths)
  BY SoundParts
\* It is enough that it keeps the root tree or sends a new one, and that the
\* entries that are not marked come from those that were not, or are sent.
<1>4. ASSUME packObjects \subseteq packObjects',
             \A o \in packObjects' \ packObjects : Supported(o, Sendable'),
             lastTree' \in packObjects' \/ (lastTree' = lastTree /\ dirtyPaths \subseteq dirtyPaths'),
             \A q \in Paths \ dirtyPaths' : Present(treeEntries', q) =>
                 \/ treeEntries'[q].hash \in packObjects'
                 \/ \E r \in Paths \ dirtyPaths : Present(E, r) /\ treeEntries'[q].hash = E[r].hash
      PROVE  /\ Sendable \subseteq Sendable'
             /\ Closed(Sendable)' /\ RootKnown' /\ EntriesKnown'
  <2>1. Sendable \subseteq Sendable' /\ packObjects' \subseteq Sendable'
    BY <1>2, <1>4 DEF Sendable
  <2>2. Closed(Sendable')
    BY <1>2, <1>4, <2>1, ClosedWith DEF Sendable
  <2>3. RootKnown'
    BY <1>4, <2>1 DEF RootKnown
  <2>4. EntriesKnown'
    BY <1>4, <2>1 DEF EntriesKnown
  <2> QED
    BY <2>1, <2>2, <2>3, <2>4
<1>5. ASSUME NEW p \in Paths, NEW c \in Contents, CreateBlob(p, c) \/ UpdateBlob(p, c)
      PROVE  /\ Sendable \subseteq Sendable'
             /\ Closed(Sendable)' /\ RootKnown' /\ EntriesKnown'
  <2>1. /\ BlobsAbove(E, p) = {} /\ treeEntries' = AfterPut(E, p, Blob(c))
        /\ dirtyPaths' = dirtyPaths \cup MarkedByAdd(BlobPut(E, p, Blob(c)), p)
        /\ packObjects' = packObjects \cup {Blob(c)} /\ lastTree' = lastTree
        /\ ~IsTree(E, p)
    BY <1>5 DEF CreateBlob, UpdateBlob, PutBlob, MayPut, BlobPut, AfterPut, Present, IsTree, IsBlob
  <2>2. /\ MarkedByAdd(BlobPut(E, p, Blob(c)), p) = Above(p)
        /\ treeEntries'[p] = Entry("blob", Blob(c))
        /\ \A q \in Paths \ {p} : q \notin Ancestors(p) \/ Present(E, q) => treeEntries'[q] = E[q]
    BY <1>3, <2>1, PutSound
  <2>3. ASSUME NEW q \in Paths \ dirtyPaths', Present(treeEntries', q)
        PROVE  \/ treeEntries'[q].hash \in packObjects'
               \/ \E r \in Paths \ dirtyPaths : Present(E, r) /\ treeEntries'[q].hash = E[r].hash
    <3>1. CASE q = p
      BY <2>1, <2>2, <3>1 DEF Entry
    <3>2. CASE q # p
      <4>1. treeEntries'[q] = E[q] /\ q \in Paths \ dirtyPaths
        BY <2>1, <2>2, <2>3, <3>2 DEF Above
      <4> QED
        BY <2>3, <4>1 DEF Present
    <3> QED
      BY <3>1, <3>2
  <2>4. \A o \in packObjects' \ packObjects : Supported(o, Sendable')
    BY <2>1, BlobSupported
  <2> QED
    BY <1>4, <2>1, <2>3, <2>4
<1>6. ASSUME NEW p \in Paths, DeleteBlob(p)
      PROVE  /\ Sendable \subseteq Sendable'
             /\ Closed(Sendable)' /\ RootKnown' /\ EntriesKnown'
  <2>1. /\ treeEntries' = Removed(E, p) /\ IsBlob(E, p)
        /\ dirtyPaths \subseteq dirtyPaths'
        /\ packObjects' = packObjects /\ lastTree' = lastTree
    BY <1>6 DEF DeleteBlob, Removed
  <2>2. treeEntries'[p] = Absent /\ \A q \in Paths \ {p} : treeEntries'[q] = E[q]
    BY <1>3, <2>1, RemoveSound
  <2>3. \A q \in Paths \ dirtyPaths' : Present(treeEntries', q) =>
            q \in Paths \ dirtyPaths /\ Present(E, q) /\ treeEntries'[q].hash = E[q].hash
    BY <2>1, <2>2 DEF Present, Absent, Entry
  <2> QED
    BY <1>4, <2>1, <2>3
<1>7. ASSUME NEW p \in Paths, DeleteTree(p)
      PROVE  /\ Sendable \subseteq Sendable'
             /\ Closed(Sendable)' /\ RootKnown' /\ EntriesKnown'
  <2>1. /\ treeEntries' = [q \in Paths |-> IF q \in Subtree(p) THEN Absent ELSE E[q]]
        /\ dirtyPaths \subseteq dirtyPaths'
        /\ packObjects' = packObjects /\ lastTree' = lastTree
    BY <1>7 DEF DeleteTree
  <2>2. \A q \in Paths : treeEntries'[q] = Absent \/ treeEntries'[q] = E[q]
    BY <2>1
  <2>3. \A q \in Paths \ dirtyPaths' : Present(treeEntries', q) =>
            q \in Paths \ dirtyPaths /\ Present(E, q) /\ treeEntries'[q].hash = E[q].hash
    BY <2>1, <2>2 DEF Present, Absent, Entry
  <2> QED
    BY <1>4, <2>1, <2>3
<1>8. ASSUME NEW src \in Paths, NEW dest \in Paths, MoveBlob(src, dest)
      PROVE  /\ Sendable \subseteq Sendable'
             /\ Closed(Sendable)' /\ RootKnown' /\ EntriesKnown'
  <2> DEFINE h == E[src].hash
             F == AfterPut(E, dest, h)
  <2>1. /\ BlobsAbove(E, dest) = {} /\ ~IsTree(E, dest) /\ IsBlob(E, src)
        /\ src # dest
        /\ packObjects' = packObjects /\ lastTree' = lastTree
    BY <1>8 DEF MoveBlob, MayPut, Present, IsTree
  <2>2. /\ BlobsAbove(BlobPut(E, dest, h), dest) = {}
        /\ MarkedByAdd(BlobPut(E, dest, h), dest) = Above(dest)
        /\ F[dest] = Entry("blob", h)
        /\ IsIndex(F)
        /\ \A q \in Paths \ {dest} : q \notin Ancestors(dest) \/ Present(E, q) => F[q] = E[q]
    BY <1>3, <2>1, PutSound
  <2>3. /\ treeEntries' = Removed(F, src)
        /\ dirtyPaths \cup Above(dest) \subseteq dirtyPaths'
    BY <1>8, <2>2 DEF MoveBlob, BlobPut, AfterPut, Removed
  <2> HIDE DEF F
  <2>4. treeEntries'[src] = Absent /\ \A q \in Paths \ {src} : treeEntries'[q] = F[q]
    BY <2>2, <2>3 DEF Removed, IsIndex
  <2>5. src \notin dirtyPaths
    BY <1>3, <2>1, AncestorNot DEF MarksSound
  <2>6. ASSUME NEW q \in Paths \ dirtyPaths', Present(treeEntries', q)
        PROVE  \E r \in Paths \ dirtyPaths : Present(E, r) /\ treeEntries'[q].hash = E[r].hash
    <3>1. q # src /\ q \notin Ancestors(dest) /\ q \notin dirtyPaths
      BY <2>3, <2>4, <2>6 DEF Present, Absent, Entry, Above
    <3>2. CASE q = dest
      <4>1. treeEntries'[q].hash = E[src].hash
        BY <2>2, <2>4, <3>1, <3>2 DEF Entry
      <4> QED
        BY <2>1, <2>5, <4>1 DEF Present, IsBlob
    <3>3. CASE q # dest
      BY <2>2, <2>4, <2>6, <3>1, <3>3 DEF Present
    <3> QED
      BY <3>2, <3>3
  <2> QED
    BY <1>4, <2>1, <2>3, <2>6
<1>9. ASSUME NEW src \in Paths, NEW dest \in Paths, MoveTree(src, dest)
      PROVE  /\ Sendable \subseteq Sendable'
             /\ Closed(Sendable)' /\ RootKnown' /\ EntriesKnown'
  <2> DEFINE G == WithMissingDirs(MovedEntries(src, dest), dest)
  <2>1. /\ ~Present(E, dest) /\ Subtree(src) \cap dirtyPaths = {}
        /\ treeEntries' = G /\ packObjects' = packObjects /\ lastTree' = lastTree
    BY <1>9 DEF MoveTree
  <2>2. /\ BlobsAbove(E, dest) = {}
        /\ dirtyPaths' = (dirtyPaths \cup Above(dest)) \cup Above(src)
    BY <1>9, MoveTreeSound
  <2>3. /\ \A q \in Subtree(dest) :
             IF Arrives(q, src, dest) /\ Present(E, Rebase(q, dest, src))
             THEN G[q] = E[Rebase(q, dest, src)]
             ELSE ~Present(G, q)
        /\ \A q \in Paths \ (Subtree(dest) \cup Ancestors(dest)) :
             IF q \in Subtree(src) THEN ~Present(G, q) ELSE G[q] = E[q]
    BY <2>1, <2>2, MovedIndex
  <2> HIDE DEF G
  <2>4. ASSUME NEW q \in Paths \ dirtyPaths', Present(G, q)
        PROVE  \E r \in Paths \ dirtyPaths : Present(E, r) /\ G[q].hash = E[r].hash
    <3>1. q \notin Ancestors(dest) /\ q \notin dirtyPaths
      BY <2>2 DEF Above
    <3>2. CASE q \in Subtree(dest)
      <4>1. Arrives(q, src, dest) /\ Present(E, Rebase(q, dest, src))
        BY <2>3, <2>4, <3>2
      <4>2. Rebase(q, dest, src) \in Paths /\ Rebase(q, dest, src) \in Subtree(src)
        BY <3>2, <4>1, RebaseIn DEF Arrives
      <4> QED
        BY <2>1, <2>3, <3>2, <4>1, <4>2
    <3>3. CASE q \notin Subtree(dest)
      BY <2>3, <2>4, <3>1, <3>3 DEF Present
    <3> QED
      BY <3>2, <3>3
  <2> QED
    BY <1>4, <2>1, <2>2, <2>4
<1>10. ASSUME DeleteRoot
       PROVE  /\ Sendable \subseteq Sendable'
              /\ Closed(Sendable)' /\ RootKnown' /\ EntriesKnown'
  <2>1. /\ packObjects' = packObjects \cup {EmptyTree} /\ lastTree' = EmptyTree
        /\ treeEntries' = [q \in Paths |-> Absent]
    BY <1>10, ObjectAdded DEF DeleteRoot
  <2>2. \A q \in Paths : ~Present(treeEntries', q)
    BY <2>1 DEF Present, Absent, Entry
  <2>3. \A o \in packObjects' \ packObjects : Supported(o, Sendable')
    BY <2>1, EmptyTreeSupported
  <2> QED
    BY <1>4, <2>1, <2>2, <2>3
<1> QED
  BY <1>5, <1>6, <1>7, <1>8, <1>9, <1>10 DEF Stage

\* A tree that is built lists entries that are not marked any more, because
\* the directories below it were built before it.
LEMMA BuildComplete ==
    ASSUME IndexTypeOK, IndexSound, "disk" \notin Faults, ~packClosed,
           Closed(Sendable), RootKnown, EntriesKnown,
           NEW p \in Dirs, BuildSingleTree(p)
    PROVE  /\ Sendable \subseteq Sendable'
           /\ Closed(Sendable)' /\ RootKnown' /\ EntriesKnown'
<1> DEFINE E == treeEntries
           t == Tree(Listing(E, submoduleEntries, p))
<1>1. /\ p \in dirtyPaths /\ dirtyPaths' = dirtyPaths \ {p}
      /\ \A q \in dirtyPaths : Len(q) <= Len(p)
      /\ \A q \in Paths : treeEntries'[q].type = E[q].type
      /\ \A q \in Paths \ {p} : treeEntries'[q] = E[q]
      /\ p # Root => lastTree' = lastTree
      /\ \/ p # Root /\ ~Present(E, p) /\ UNCHANGED <<packObjects, treeEntries, lastTree>>
         \/ /\ AddObject(t)
            /\ p = Root => lastTree' = t
            /\ p # Root => treeEntries'[p].hash = t
  BY BuildChanges
<1>2. remoteObjects' = remoteObjects
  BY DEF BuildSingleTree, server
<1>3. \A q \in Paths : Present(treeEntries', q) <=> Present(E, q)
  BY <1>1 DEF Present
<1>4. CASE p # Root /\ ~Present(E, p) /\ UNCHANGED <<packObjects, treeEntries, lastTree>>
  <2>1. Sendable' = Sendable
    BY <1>2, <1>4 DEF Sendable
  <2>2. RootKnown'
    BY <1>1, <1>4, <2>1 DEF RootKnown
  <2>3. EntriesKnown'
    BY <1>1, <1>4, <2>1 DEF EntriesKnown
  <2> QED
    BY <2>1, <2>2, <2>3
<1>5. CASE /\ AddObject(t)
           /\ p = Root => lastTree' = t
           /\ p # Root => treeEntries'[p].hash = t
  <2>1. packObjects' = packObjects \cup {t}
    BY <1>5, ObjectAdded
  <2>2. ASSUME NEW n \in Names, Append(p, n) \in Paths, Present(E, Append(p, n))
        PROVE  E[Append(p, n)].hash \in Sendable
    <3>1. Append(p, n) \notin dirtyPaths
      <4>1. Len(Append(p, n)) = Len(p) + 1 /\ Len(p) \in Nat
        BY <2>2, ChildIs, PathSeq
      <4>2. Append(p, n) \in dirtyPaths => Len(Append(p, n)) <= Len(p)
        BY <1>1
      <4> HIDE DEF t
      <4> QED
        BY <4>1, <4>2
    <3> QED
      BY <2>2, <3>1 DEF EntriesKnown
  <2>3. Supported(t, Sendable)
    BY <2>2, TreeSupported
  <2> HIDE DEF t
  <2>4. Sendable' = Sendable \cup {t}
    BY <1>2, <2>1 DEF Sendable
  <2>5. Closed(Sendable')
    <3>1. \A o \in Sendable' \ Sendable : Supported(o, Sendable')
      BY <2>3, <2>4 DEF Supported
    <3> QED
      BY <2>4, <3>1, ClosedWith
  <2>6. RootKnown'
    BY <1>1, <1>5, <2>4 DEF RootKnown
  <2>7. EntriesKnown'
    <3>1. ASSUME NEW q \in Paths \ dirtyPaths', Present(treeEntries', q)
          PROVE  treeEntries'[q].hash \in Sendable'
      <4>1. CASE q = p
        BY <1>5, <2>4, <4>1, AncestorNot
      <4>2. CASE q # p
        BY <1>1, <1>3, <2>4, <3>1, <4>2 DEF EntriesKnown
      <4> QED
        BY <4>1, <4>2
    <3> QED
      BY <3>1 DEF EntriesKnown
  <2> QED
    BY <2>4, <2>5, <2>6, <2>7
<1> QED
  BY <1>1, <1>4, <1>5

\* The ancestors of an ancestor of a commit are ancestors of the commit.
PastsNest ==
    \A i \in 1 .. numCommits : \A j \in commits[i].past :
        commits[j].past \subseteq commits[i].past

LEMMA NestedLineage ==
    ASSUME HistoryTypeOK, PastsNest, NEW i \in 1 .. numCommits, NEW j \in Lineage(i)
    PROVE  commits[j].past \subseteq Lineage(i)
BY DEF PastsNest, Lineage

\* A commit made on top of another one.
LEMMA NewNest ==
    ASSUME HistoryTypeOK, PastsNest, NEW k \in 1 .. numCommits,
           numCommits' \in Nat,
           1 .. numCommits' = 1 .. numCommits \cup {numCommits'},
           \A i \in 1 .. numCommits : commits'[i] = commits[i],
           commits'[numCommits'].past = Lineage(k)
    PROVE  PastsNest'
<1>1. ASSUME NEW i \in 1 .. numCommits', NEW j \in commits'[i].past
      PROVE  commits'[j].past \subseteq commits'[i].past
  <2>1. CASE i \in 1 .. numCommits
    <3>1. j \in commits[i].past /\ commits[i].past \subseteq 1 .. numCommits
      BY <1>1, <2>1, LineageType DEF Lineage
    <3> QED
      BY <2>1, <3>1 DEF PastsNest
  <2>2. CASE i = numCommits'
    <3>1. j \in Lineage(k) /\ j \in 1 .. numCommits
      BY <1>1, <2>2, LineageType
    <3> QED
      BY <2>2, <3>1, NestedLineage
  <2> QED
    BY <2>1, <2>2
<1> QED
  BY <1>1 DEF PastsNest

\* What every run of the writer keeps, for a caller that is careful and a disk
\* that works: the index is sound, and nothing a commit needs is missing.
CompleteInv ==
    RetainedInv /\ IndexSound /\ PastsNest /\ NothingMissing /\ ServerConnected

\* The caller of these theorems: the index disciplines, a push only when a
\* commit waits for it, and a disk that does not fail.
CarefulCaller ==
    IndexDisciplines \cup {"pushCommits"} \subseteq Careful /\ "disk" \notin Faults

LEMMA CompleteInit == Init => CompleteInv
<1> SUFFICES ASSUME Init PROVE PastsNest /\ NothingMissing /\ ServerConnected
  BY RetainedInit, SoundInit DEF CompleteInv
<1>1. PICK r \in Repos :
        /\ treeEntries = r.entries /\ lastTree = r.tree /\ remoteObjects = r.objects
        /\ commits = [i \in {1} |-> [tree |-> r.tree, past |-> {}]]
  BY DEF Init
<1>2. /\ Closed(r.objects) /\ r.tree \in r.objects
      /\ \A p \in Paths : Present(r.entries, p) => r.entries[p].hash \in r.objects
  BY ReposAssumption DEF Consistent
<1>3. /\ packObjects = {} /\ packCommits = {} /\ remoteRef = 1 /\ remoteCommits = {1}
      /\ lastCommit = 1 /\ numCommits = 1
  BY DEF Init
<1>4. commits[1].tree = r.tree /\ commits[1].past = {}
  BY <1>1
<1>5. Sendable = r.objects
  BY <1>1, <1>3 DEF Sendable
<1>6. PastsNest
  BY <1>3, <1>4 DEF PastsNest
<1>7. NothingMissing
  BY <1>1, <1>2, <1>3, <1>4, <1>5 DEF NothingMissing, Lineage
<1>8. ServerConnected
  BY <1>1, <1>2, <1>3, <1>4 DEF ServerConnected
<1> QED
  BY <1>6, <1>7, <1>8

\* A step that changes none of what the writer's part of the invariant reads.
LEMMA CompleteFrame ==
    ASSUME NothingMissing, Sendable \subseteq Sendable', Closed(Sendable)',
           UNCHANGED <<treeEntries, dirtyPaths, lastTree, lastCommit, packClosed, isCleanedUp>>,
           \A i \in Lineage(lastCommit) : commits'[i] = commits[i],
           remoteCommits \cup packCommits \subseteq remoteCommits' \cup packCommits'
    PROVE  NothingMissing'
<1>1. Lineage(lastCommit)' = Lineage(lastCommit)
  BY DEF Lineage
<1>2. ASSUME ~isCleanedUp', ~packClosed'
      PROVE  RootKnown' /\ EntriesKnown' /\ LineageKnown'
  <2>1. RootKnown /\ EntriesKnown /\ LineageKnown
    BY <1>2, NothingMissingIs
  <2>2. RootKnown' /\ EntriesKnown'
    BY <2>1 DEF RootKnown, EntriesKnown
  <2>3. LineageKnown'
    BY <2>1, <1>1 DEF LineageKnown
  <2> QED
    BY <2>2, <2>3
<1> QED
  BY <1>2, NothingMissingIsPrimed

\* The server takes the whole pack: it then has all there was to send.
LEMMA ServerTakesAll ==
    ASSUME CompleteInv, ~isCleanedUp, ~packClosed, ServerApplies, UNCHANGED history
    PROVE  /\ ServerConnected'
           /\ remoteObjects' = Sendable
           /\ remoteCommits' = remoteCommits \cup packCommits
<1>1. /\ remoteRef' = lastCommit
      /\ remoteObjects' = Sendable
      /\ remoteCommits' = remoteCommits \cup packCommits
  BY DEF ServerApplies, Sendable
<1>2. Closed(Sendable) /\ LineageKnown
  BY NothingMissingIs DEF CompleteInv
<1>3. /\ HistoryTypeOK /\ PastsNest /\ lastCommit \in 1 .. numCommits
      /\ Lineage(lastCommit) = Lineage(refHash) \cup packCommits
  BY DEF CompleteInv, RetainedInv, TypeOK, HistoryTypeOK, UnpushedRetained
<1>4. ASSUME NEW i \in remoteCommits'
      PROVE  commits[i].past \subseteq remoteCommits' /\ commits[i].tree \in remoteObjects'
  <2>1. CASE i \in remoteCommits
    BY <1>1, <2>1 DEF CompleteInv, ServerConnected, Sendable
  <2>2. CASE i \in packCommits
    <3>1. i \in Lineage(lastCommit)
      BY <1>3, <2>2
    <3>2. commits[i].past \subseteq Lineage(lastCommit)
      BY <1>3, <3>1, NestedLineage
    <3> QED
      BY <1>1, <1>2, <3>1, <3>2 DEF LineageKnown
  <2> QED
    BY <1>1, <2>1, <2>2
<1>5. remoteRef' \in remoteCommits'
  BY <1>1, <1>2 DEF LineageKnown, Lineage
<1>6. ServerConnected'
  BY <1>1, <1>2, <1>4, <1>5 DEF ServerConnected, history
<1> QED
  BY <1>1, <1>6

LEMMA ConnectedFrame ==
    ASSUME HistoryTypeOK, ServerConnected, UNCHANGED server,
           \A i \in 1 .. numCommits : commits'[i] = commits[i]
    PROVE  ServerConnected'
BY DEF HistoryTypeOK, ServerConnected, server

LEMMA NestFrame ==
    ASSUME PastsNest, UNCHANGED history
    PROVE  PastsNest'
BY DEF PastsNest, history

\* Commit adds a commit whose tree is known.
LEMMA AddCommitComplete ==
    ASSUME CompleteInv, AddCommit
    PROVE  PastsNest' /\ NothingMissing' /\ ServerConnected'
<1>1. /\ HistoryTypeOK /\ PastsNest /\ ServerConnected
      /\ lastCommit \in 1 .. numCommits
  BY DEF CompleteInv, RetainedInv, TypeOK, HistoryTypeOK
<1>2. Lineage(lastCommit) \subseteq 1 .. numCommits
  BY <1>1, LineageType
<1>3. /\ numCommits' = numCommits + 1
      /\ commits' = [i \in 1 .. numCommits + 1 |->
               IF i = numCommits + 1
               THEN [tree |-> lastTree, past |-> Lineage(lastCommit)] ELSE commits[i]]
      /\ packCommits' = packCommits \cup {numCommits'}
      /\ lastCommit' = numCommits'
      /\ dirtyPaths = {}
      /\ UNCHANGED <<index, packObjects, packClosed, isCleanedUp, server>>
  BY DEF AddCommit, Past, Committing
<1>4. /\ numCommits' \in Nat
      /\ 1 .. numCommits' = 1 .. numCommits \cup {numCommits'}
      /\ \A i \in 1 .. numCommits : commits'[i] = commits[i]
      /\ commits'[numCommits'].past = Lineage(lastCommit)
  BY <1>1, <1>2, <1>3, NewCommitHistory
<1>5. commits'[numCommits'].tree = lastTree
  <2>1. numCommits + 1 \in 1 .. numCommits + 1
    BY <1>1 DEF HistoryTypeOK
  <2> QED
    BY <1>3, <2>1
<1>6. PastsNest'
  BY <1>1, <1>4, NewNest
<1>7. ServerConnected'
  BY <1>1, <1>3, <1>4, ConnectedFrame
<1>8. Sendable' = Sendable
  BY <1>3 DEF Sendable, server
<1>9. ASSUME ~isCleanedUp', ~packClosed'
      PROVE  Closed(Sendable)' /\ RootKnown' /\ EntriesKnown' /\ LineageKnown'
  <2>1. Closed(Sendable) /\ RootKnown /\ EntriesKnown /\ LineageKnown
    BY <1>3, <1>9, NothingMissingIs DEF CompleteInv
  <2>2. lastTree \in Sendable
    BY <1>3, <2>1 DEF RootKnown
  <2>3. RootKnown' /\ EntriesKnown'
    BY <1>3, <1>8, <2>1 DEF RootKnown, EntriesKnown, index
  <2>4. ASSUME NEW i \in Lineage(lastCommit)'
        PROVE  commits'[i].tree \in Sendable' /\ i \in remoteCommits' \cup packCommits'
    <3>1. i \in Lineage(lastCommit) \/ i = numCommits'
      BY <1>3, <1>4 DEF Lineage
    <3>2. CASE i = numCommits'
      BY <1>3, <1>5, <1>8, <2>2, <3>2
    <3>3. CASE i \in Lineage(lastCommit)
      BY <1>2, <1>3, <1>4, <1>8, <2>1, <3>3 DEF LineageKnown, server
    <3> QED
      BY <3>1, <3>2, <3>3
  <2>5. LineageKnown'
    BY <2>4 DEF LineageKnown
  <2> QED
    BY <1>8, <2>1, <2>3, <2>5
<1>10. NothingMissing'
  BY <1>9, NothingMissingIsPrimed
<1> QED
  BY <1>6, <1>7, <1>10

\* Another client's push adds to the server and takes nothing.
LEMMA ForeignComplete ==
    ASSUME CompleteInv, ForeignPush
    PROVE  PastsNest' /\ NothingMissing' /\ ServerConnected'
<1>1. /\ HistoryTypeOK /\ PastsNest /\ ServerConnected
      /\ lastCommit \in 1 .. numCommits /\ remoteRef \in 1 .. numCommits
      /\ remoteCommits \subseteq 1 .. numCommits
  BY DEF CompleteInv, RetainedInv, TypeOK, HistoryTypeOK
<1>2. Lineage(lastCommit) \subseteq 1 .. numCommits /\ Lineage(remoteRef) \subseteq 1 .. numCommits
  BY <1>1, LineageType
<1>3. /\ numCommits' = numCommits + 1
      /\ commits' = [i \in 1 .. numCommits + 1 |->
               IF i = numCommits + 1
               THEN [tree |-> ForeignTree(numCommits + 1), past |-> Lineage(remoteRef)]
               ELSE commits[i]]
      /\ remoteRef' = numCommits'
      /\ remoteObjects' = remoteObjects \cup {ForeignTree(numCommits')}
      /\ remoteCommits' = remoteCommits \cup {numCommits'}
      /\ UNCHANGED <<index, lastCommit, pack, isCleanedUp>>
  BY DEF ForeignPush
<1>4. /\ numCommits' \in Nat
      /\ 1 .. numCommits' = 1 .. numCommits \cup {numCommits'}
      /\ \A i \in 1 .. numCommits : commits'[i] = commits[i]
      /\ commits'[numCommits'].past = Lineage(remoteRef)
  BY <1>1, <1>2, <1>3, NewCommitHistory
<1>5. commits'[numCommits'].tree = ForeignTree(numCommits')
  <2>1. numCommits + 1 \in 1 .. numCommits + 1
    BY <1>1 DEF HistoryTypeOK
  <2> QED
    BY <1>3, <2>1
<1>6. PastsNest'
  BY <1>1, <1>4, NewNest
<1>7. \A K : Supported(ForeignTree(numCommits'), K)
  BY DEF Supported, ForeignTree
<1>8. Closed(remoteObjects')
  <2>1. Closed(remoteObjects)
    BY <1>1 DEF ServerConnected
  <2>2. remoteObjects \subseteq remoteObjects' /\ \A o \in remoteObjects' \ remoteObjects : Supported(o, remoteObjects')
    BY <1>3, <1>7
  <2> QED
    BY <2>1, <2>2, ClosedWith
<1>9. ServerConnected'
  <2>1. ASSUME NEW i \in remoteCommits'
        PROVE  commits'[i].past \subseteq remoteCommits' /\ commits'[i].tree \in remoteObjects'
    <3>1. CASE i \in remoteCommits
      BY <1>1, <1>3, <1>4, <3>1 DEF ServerConnected
    <3>2. CASE i = numCommits'
      BY <1>1, <1>3, <1>4, <1>5, <3>2 DEF ServerConnected, Lineage
    <3> QED
      BY <1>3, <3>1, <3>2
  <2> QED
    BY <1>3, <1>8, <2>1 DEF ServerConnected
<1>10. Sendable' = Sendable \cup {ForeignTree(numCommits')}
  BY <1>3 DEF Sendable, pack
<1>11. NothingMissing'
  <2>1. CASE isCleanedUp \/ packClosed
    BY <1>3, <2>1 DEF NothingMissing, pack
  <2>2. CASE ~isCleanedUp /\ ~packClosed
    <3>1. Closed(Sendable)
      BY <2>2, NothingMissingIs DEF CompleteInv
    <3>2. Sendable \subseteq Sendable' /\ \A o \in Sendable' \ Sendable : Supported(o, Sendable')
      BY <1>7, <1>10
    <3>3. Closed(Sendable')
      BY <3>1, <3>2, ClosedWith
    <3>4. \A i \in Lineage(lastCommit) : commits'[i] = commits[i]
      BY <1>2, <1>4
    <3>5. UNCHANGED <<index, lastCommit, packClosed, isCleanedUp, packCommits>>
      BY <1>3 DEF pack
    <3> QED
      BY <1>3, <3>2, <3>3, <3>4, <3>5, CompleteFrame DEF CompleteInv, index
  <2> QED
    BY <2>1, <2>2
<1> QED
  BY <1>6, <1>9, <1>11

\* Push, in all of its outcomes.
LEMMA PushComplete ==
    ASSUME CompleteInv, CarefulCaller, Push
    PROVE  PastsNest' /\ NothingMissing' /\ ServerConnected'
<1>1. /\ ~isCleanedUp /\ HasObjects /\ packCommits # {}
      /\ ServerApplies
  BY DEF Push, PushAccepted, PushOfNothing, PushReplyLost, MayPush, CarefulCaller
<1>2. ~packClosed /\ packClosed = FALSE
  BY <1>1 DEF HasObjects, CompleteInv, RetainedInv, TypeOK
<1>3. UNCHANGED history
  BY DEF Push, PushAccepted, PushOfNothing, PushReplyLost, Acknowledged
<1>4. /\ ServerConnected'
      /\ remoteObjects' = Sendable
      /\ remoteCommits' = remoteCommits \cup packCommits
  BY <1>1, <1>2, <1>3, ServerTakesAll
<1>5. PastsNest'
  BY <1>3, NestFrame DEF CompleteInv
<1>6. /\ UNCHANGED <<treeEntries, dirtyPaths, lastTree, lastCommit, packClosed, isCleanedUp>>
      /\ packObjects' = {} \/ packObjects' = packObjects
  BY <1>2 DEF Push, PushAccepted, PushOfNothing, PushReplyLost, Acknowledged, index, pack
<1>7. Sendable' = Sendable
  BY <1>4, <1>6 DEF Sendable
<1>8. Closed(Sendable)'
  BY <1>1, <1>2, <1>7, NothingMissingIs DEF CompleteInv
<1>9. \A i \in Lineage(lastCommit) : commits'[i] = commits[i]
  BY <1>3 DEF history
<1>10. remoteCommits \cup packCommits \subseteq remoteCommits' \cup packCommits'
  BY <1>4
<1>11. NothingMissing'
  BY <1>6, <1>7, <1>8, <1>9, <1>10, CompleteFrame DEF CompleteInv
<1> QED
  BY <1>4, <1>5, <1>11

LEMMA StagingComplete ==
    ASSUME CompleteInv, CarefulCaller, Stage
    PROVE  PastsNest' /\ NothingMissing' /\ ServerConnected'
<1>1. PICK op : Staging(op)
  BY StageFrame
<1>2. ~isCleanedUp /\ UNCHANGED <<lastCommit, packCommits, packClosed, isCleanedUp, server, history>>
  BY <1>1 DEF Staging
<1>3. PastsNest'
  BY <1>2, NestFrame DEF CompleteInv
<1>4. ServerConnected'
  BY <1>2, ConnectedFrame DEF CompleteInv, RetainedInv, TypeOK, history
<1>5. ASSUME ~packClosed
      PROVE  Closed(Sendable)' /\ RootKnown' /\ EntriesKnown' /\ LineageKnown'
  <2>1. Closed(Sendable) /\ RootKnown /\ EntriesKnown /\ LineageKnown
    BY <1>2, <1>5, NothingMissingIs DEF CompleteInv
  <2>2. /\ Sendable \subseteq Sendable'
        /\ Closed(Sendable)' /\ RootKnown' /\ EntriesKnown'
    BY <1>5, <2>1, StageComplete DEF CompleteInv, RetainedInv, TypeOK, CarefulCaller
  <2>3. LineageKnown'
    BY <1>2, <2>1, <2>2 DEF LineageKnown, Lineage, history, server
  <2> QED
    BY <2>2, <2>3
<1>6. NothingMissing'
  BY <1>2, <1>5, NothingMissingIsPrimed
<1> QED
  BY <1>3, <1>4, <1>6

LEMMA BuildingComplete ==
    ASSUME CompleteInv, CarefulCaller, NEW p \in Dirs, BuildSingleTree(p)
    PROVE  PastsNest' /\ NothingMissing' /\ ServerConnected'
<1>1. UNCHANGED <<lastCommit, packCommits, packClosed, isCleanedUp, server, history>>
  BY DEF BuildSingleTree
<1>2. PastsNest'
  BY <1>1, NestFrame DEF CompleteInv
<1>3. ServerConnected'
  BY <1>1, ConnectedFrame DEF CompleteInv, RetainedInv, TypeOK, history
<1>4. ASSUME ~packClosed, ~isCleanedUp
      PROVE  Closed(Sendable)' /\ RootKnown' /\ EntriesKnown' /\ LineageKnown'
  <2>1. Closed(Sendable) /\ RootKnown /\ EntriesKnown /\ LineageKnown
    BY <1>4, NothingMissingIs DEF CompleteInv
  <2>2. /\ Sendable \subseteq Sendable'
        /\ Closed(Sendable)' /\ RootKnown' /\ EntriesKnown'
    BY <1>4, <2>1, BuildComplete DEF CompleteInv, RetainedInv, TypeOK, CarefulCaller
  <2>3. LineageKnown'
    BY <1>1, <2>1, <2>2 DEF LineageKnown, Lineage, history, server
  <2> QED
    BY <2>2, <2>3
<1>5. NothingMissing'
  BY <1>1, <1>4, NothingMissingIsPrimed
<1> QED
  BY <1>2, <1>3, <1>5

LEMMA CompleteStep == CarefulCaller /\ CompleteInv /\ [Next]_vars => CompleteInv'
<1> SUFFICES ASSUME CarefulCaller, CompleteInv, [Next]_vars
             PROVE  PastsNest' /\ NothingMissing' /\ ServerConnected'
  BY RetainedStep, SoundStep DEF CompleteInv, CarefulCaller, RetainedInv
<1>1. CASE Stage
  BY <1>1, StagingComplete
<1>2. CASE UNCHANGED <<index, lastCommit, pack, isCleanedUp, server, history>>
  <2>1. PastsNest' /\ ServerConnected'
    BY <1>2, NestFrame, ConnectedFrame DEF CompleteInv, RetainedInv, TypeOK, history
  <2>2. NothingMissing'
    BY <1>2 DEF CompleteInv, NothingMissing, Sendable, Lineage, index, pack, server, history
  <2> QED
    BY <2>1, <2>2
<1>3. CASE BeginCommit \/ NothingToCommit \/ AddCommitFails
  BY <1>2, <1>3 DEF BeginCommit, NothingToCommit, AddCommitFails
<1>4. ASSUME NEW p \in Dirs, BuildSingleTree(p)
      PROVE  PastsNest' /\ NothingMissing' /\ ServerConnected'
  BY <1>4, BuildingComplete
<1>5. CASE AddCommit
  BY <1>5, AddCommitComplete
<1>6. CASE Push
  BY <1>6, PushComplete
<1>7. CASE ForeignPush
  BY <1>7, ForeignComplete
<1>8. CASE Cleanup
  <2>1. isCleanedUp' \/ packClosed'
    BY <1>8 DEF Cleanup
  <2>2. UNCHANGED <<server, history>>
    BY <1>8 DEF Cleanup
  <2> QED
    BY <2>1, <2>2, NestFrame, ConnectedFrame
    DEF CompleteInv, RetainedInv, TypeOK, history, NothingMissing
<1>9. CASE UNCHANGED vars
  BY <1>2, <1>9 DEF vars
<1> QED
  BY <1>1, <1>3, <1>4, <1>5, <1>6, <1>7, <1>8, <1>9 DEF Next, Commit

\* What the writer would send next is complete: every tree, blob and commit that
\* its last commit needs is in the pack or on the server, at every step of
\* staging, Commit and Push, for a caller that keeps the index disciplines and
\* pushes only when a commit waits, whatever replies and signatures are lost.
THEOREM PushesAreComplete == CarefulCaller => (Spec => []NothingMissing)
<1> SUFFICES ASSUME CarefulCaller
             PROVE  Spec => []NothingMissing
  OBVIOUS
<1>1. CompleteInv => NothingMissing
  BY DEF CompleteInv
<1>2. CompleteInv /\ [Next]_vars => CompleteInv'
  BY CompleteStep
<1> QED
  BY <1>1, <1>2, CompleteInit, PTL DEF Spec

\* The server's branch is never left with a commit or an object missing: what
\* Push sends and what the server has hold the whole tree of every commit of the
\* branch, across lost replies and other clients' pushes.
THEOREM BranchConnected == CarefulCaller => (Spec => []ServerConnected)
<1> SUFFICES ASSUME CarefulCaller
             PROVE  Spec => []ServerConnected
  OBVIOUS
<1>1. CompleteInv => ServerConnected
  BY DEF CompleteInv
<1>2. CompleteInv /\ [Next]_vars => CompleteInv'
  BY CompleteStep
<1> QED
  BY <1>1, <1>2, CompleteInit, PTL DEF Spec

-----------------------------------------------------------------------------
(***************************************************************************)
(* ErrNothingToCommit.                                                     *)
(***************************************************************************)
\* Without an edit since the last commit nothing is marked; with an empty
\* pack, the root tree is that of the last commit unless it is marked.
TreeInv ==
    /\ isCleanedUp => phase = "idle"
    /\ ~isCleanedUp /\ ~editedSince =>
           dirtyPaths = {} /\ lastTree = commits[lastCommit].tree
    /\ ~isCleanedUp /\ ~packClosed /\ packObjects = {} /\ Root \notin dirtyPaths =>
           lastTree = commits[lastCommit].tree

\* The caller of this theorem.
CommitDisciplines == IndexDisciplines \cup {"pushSettled"}

\* Every staging call leaves an object in the pack or the root marked, so that a
\* Commit after it finds something to commit.
LEMMA StageMarks ==
    ASSUME IndexTypeOK, IndexSound, IndexDisciplines \subseteq Careful, "disk" \notin Faults,
           ~packClosed, Stage
    PROVE  packObjects' # {} \/ Root \in dirtyPaths'
<1> USE DEF IndexDisciplines
<1>1. ASSUME NEW p \in Paths, NEW c \in Contents, CreateBlob(p, c) \/ UpdateBlob(p, c)
      PROVE  packObjects' # {}
  BY <1>1 DEF CreateBlob, UpdateBlob, PutBlob
<1>2. IsIndex(treeEntries) /\ NoOrphans(treeEntries, submoduleEntries)
  BY SoundParts
<1>3. ASSUME NEW p \in Paths, DeleteBlob(p)
      PROVE  Root \in dirtyPaths'
  <2>1. MarkedByRemove(Removed(treeEntries, p), p) = Above(p)
    BY <1>2, <1>3, RemoveSound DEF DeleteBlob
  <2> QED
    BY <1>3, <2>1 DEF DeleteBlob, Removed, Above
<1>4. ASSUME NEW p \in Paths, DeleteTree(p)
      PROVE  Root \in dirtyPaths'
  <2> DEFINE F == [q \in Paths |-> IF q \in Subtree(p) THEN Absent ELSE treeEntries[q]]
  <2>1. dirtyPaths' = dirtyPaths \cup MarkedByRemove(F, p) /\ IsTree(treeEntries, p)
    BY <1>4 DEF DeleteTree
  <2>2. \A q \in Ancestors(p) : q \in Paths \ Subtree(p) /\ IsTree(treeEntries, q)
    BY <1>2, <2>1, OutsideSubtree DEF NoOrphans, Present, IsTree, Ancestors
  <2>3. \A q \in Ancestors(p) : IsTree(F, q)
    BY <2>2 DEF IsTree
  <2> HIDE DEF F
  <2>4. NonTreesAbove(F, p) = {}
    BY <2>3 DEF NonTreesAbove
  <2> QED
    BY <2>1, <2>4, AllAboveMarked DEF MarkedByRemove, Above
<1>5. ASSUME NEW src \in Paths, NEW dest \in Paths, MoveBlob(src, dest)
      PROVE  Root \in dirtyPaths'
  <2> DEFINE h == treeEntries[src].hash
  <2>1. /\ BlobsAbove(treeEntries, dest) = {} /\ ~IsTree(treeEntries, dest)
        /\ MarkedByAdd(BlobPut(treeEntries, dest, h), dest) \subseteq dirtyPaths'
    BY <1>5 DEF MoveBlob, MayPut, Present, IsTree, BlobPut
  <2>2. MarkedByAdd(BlobPut(treeEntries, dest, h), dest) = Above(dest)
    BY <1>2, <2>1, PutSound
  <2> QED
    BY <2>1, <2>2 DEF Above
<1>6. ASSUME NEW src \in Paths, NEW dest \in Paths, MoveTree(src, dest)
      PROVE  Root \in dirtyPaths'
  BY <1>6, MoveTreeSound DEF Above
<1>7. CASE DeleteRoot
  BY <1>7, ObjectAdded DEF DeleteRoot
<1> QED
  BY <1>1, <1>3, <1>4, <1>5, <1>6, <1>7 DEF Stage

LEMMA TreeStep ==
    ASSUME CommitDisciplines \subseteq Careful, "disk" \notin Faults,
           TypeOK, IndexSound, TreeInv, [Next]_vars
    PROVE  TreeInv'
<1>1. /\ IndexTypeOK /\ HistoryTypeOK /\ lastCommit \in 1 .. numCommits
      /\ editedSince \in BOOLEAN /\ phase \in {"idle", "building"}
  BY DEF TypeOK, HistoryTypeOK
<1>2. CASE Stage
  <2>1. PICK op : Staging(op)
    BY <1>2, StageFrame
  <2>2. /\ ~isCleanedUp /\ editedSince' = TRUE
        /\ UNCHANGED <<isCleanedUp, phase, packClosed>>
    BY <2>1 DEF Staging
  <2>3. ~packClosed => packObjects' # {} \/ Root \in dirtyPaths'
    BY <1>1, <1>2, StageMarks DEF CommitDisciplines
  <2> QED
    BY <2>2, <2>3 DEF TreeInv
<1>3. CASE UNCHANGED <<isCleanedUp, editedSince, packClosed, packObjects, dirtyPaths,
                       lastTree, lastCommit, commits>>
           /\ (isCleanedUp => phase' = "idle")
  BY <1>3 DEF TreeInv
<1>4. CASE BeginCommit \/ NothingToCommit \/ AddCommitFails \/ PushReplyLost
  BY <1>3, <1>4
  DEF BeginCommit, NothingToCommit, AddCommitFails, PushReplyLost, MayPush, index, pack, history
<1>5. ASSUME NEW p \in Dirs, BuildSingleTree(p)
      PROVE  TreeInv'
  <2>1. /\ p \in dirtyPaths /\ dirtyPaths' = dirtyPaths \ {p}
        /\ p # Root => lastTree' = lastTree
        /\ \/ p # Root /\ UNCHANGED packObjects
           \/ AddObject(Tree(Listing(treeEntries, submoduleEntries, p)))
    BY <1>1, <1>5, BuildChanges
  <2>2. UNCHANGED <<isCleanedUp, phase, editedSince, packClosed, lastCommit, commits>>
    BY <1>5 DEF BuildSingleTree, history
  <2>3. ~packClosed =>
            \/ p # Root /\ UNCHANGED packObjects
            \/ packObjects' # {}
    BY <2>1, ObjectAdded
  <2> QED
    BY <2>1, <2>2, <2>3 DEF TreeInv
<1>6. CASE AddCommit
  <2>1. /\ commits' = [i \in 1 .. numCommits + 1 |->
               IF i = numCommits + 1
               THEN [tree |-> lastTree, past |-> Past(numCommits + 1)] ELSE commits[i]]
        /\ lastCommit' = numCommits + 1 /\ phase' = "idle"
        /\ dirtyPaths = {} /\ dirtyPaths' = dirtyPaths /\ lastTree' = lastTree
    BY <1>6 DEF AddCommit, Committing, index
  <2>2. numCommits + 1 \in 1 .. numCommits + 1
    BY <1>1 DEF HistoryTypeOK
  <2>3. commits'[lastCommit'].tree = lastTree'
    BY <2>1, <2>2
  <2> QED
    BY <2>1, <2>3 DEF TreeInv
<1>7. CASE MayPush /\ Acknowledged
  <2>1. /\ ~editedSince /\ ~isCleanedUp
        /\ UNCHANGED <<dirtyPaths, lastTree, lastCommit, commits, isCleanedUp, phase, editedSince>>
    BY <1>7 DEF MayPush, Acknowledged, CommitDisciplines, history
  <2> QED
    BY <2>1 DEF TreeInv
<1>8. CASE ForeignPush
  <2>1. commits'[lastCommit] = commits[lastCommit]
    BY <1>1, <1>8, ForeignPushHistory
  <2>2. UNCHANGED <<isCleanedUp, phase, editedSince, packClosed, packObjects, dirtyPaths,
                    lastTree, lastCommit>>
    BY <1>8 DEF ForeignPush, index, pack
  <2> QED
    BY <2>1, <2>2 DEF TreeInv
<1>9. CASE Cleanup
  <2>1. phase = "idle" /\ phase' = phase /\ isCleanedUp' = TRUE
    BY <1>9 DEF Cleanup, CommitDisciplines
  <2> QED
    BY <2>1 DEF TreeInv
<1>10. CASE UNCHANGED vars
  BY <1>3, <1>10 DEF vars, TreeInv, index, pack, history
<1> QED
  BY <1>2, <1>4, <1>5, <1>6, <1>7, <1>8, <1>9, <1>10
  DEF Next, Commit, Push, PushAccepted, PushOfNothing

\* Commit answers ErrNothingToCommit only when the root tree is that of the last
\* commit: no staged change is dropped by the test that the pack is empty, for a
\* caller that keeps the index disciplines and pushes nothing half staged.
THEOREM NothingToCommitTrue ==
    CommitDisciplines \subseteq Careful /\ "disk" \notin Faults
        => (Spec => []NothingToCommitIsTrue)
<1> SUFFICES ASSUME CommitDisciplines \subseteq Careful, "disk" \notin Faults
             PROVE  Spec => []NothingToCommitIsTrue
  OBVIOUS
<1>1. Init => TreeInv
  <2> SUFFICES ASSUME Init PROVE TreeInv
    OBVIOUS
  <2>1. PICK r \in Repos : /\ lastTree = r.tree
                           /\ commits = [i \in {1} |-> [tree |-> r.tree, past |-> {}]]
    BY DEF Init
  <2>2. dirtyPaths = {} /\ lastCommit = 1 /\ phase = "idle"
    BY DEF Init
  <2> QED
    BY <2>1, <2>2 DEF TreeInv
<1>2. TypeOK /\ IndexSound /\ TreeInv /\ [Next]_vars => TreeInv'
  BY TreeStep
<1>3. TypeOK /\ IndexSound /\ [Next]_vars => IndexSound'
  BY SoundStep DEF CommitDisciplines
<1>4. TreeInv => NothingToCommitIsTrue
  <2> SUFFICES ASSUME TreeInv, Committing, ~HasObjects, ~packClosed
               PROVE  lastTree = commits[lastCommit].tree
    BY DEF NothingToCommitIsTrue
  <2>1. packObjects = {} /\ dirtyPaths = {} /\ phase = "building"
    BY DEF HasObjects, Committing
  <2> QED
    BY <2>1 DEF TreeInv
<1> QED
  BY <1>1, <1>2, <1>3, <1>4, SoundInit, TypeInit, TypeStep, PTL DEF Spec

-----------------------------------------------------------------------------
(***************************************************************************)
(* What a reader of a tree finds at a path.  Resolve walks the listings    *)
(* from the root down: the lemmas follow the walk by its first difference. *)
(***************************************************************************)

\* A set of numbers that is not empty has a least element.
LEMMA LeastNat ==
    ASSUME NEW T, T \subseteq Nat, T # {}
    PROVE  \E x \in T : \A y \in T : ~ (y < x)
<1>1. PICK x \in T : \A y \in T : ~ (<<y, x>> \in OpToRel(<, Nat))
  BY WFMin, NatLessThanWellFounded
<1>2. \A y \in T : <<y, x>> \in Nat \X Nat
  OBVIOUS
<1>3. ASSUME NEW y \in T, y < x PROVE FALSE
  <2>1. <<y, x>> \in OpToRel(<, Nat)
    BY <1>2, <1>3 DEF OpToRel
  <2> QED BY <1>1, <2>1
<1> QED BY <1>1, <1>3

\* The walk of Resolve: what is met after i names of p.
Walk(t, p, f) ==
    [i \in 0 .. Len(p) |->
        IF i = 0 THEN Entry("tree", t)
        ELSE IF f[i - 1].type = "tree" /\ f[i - 1].hash.kind = "tree"
             THEN f[i - 1].hash.listing[p[i]]
             ELSE Absent]

\* There is one walk only.
LEMMA ResolveIs ==
    ASSUME NEW t, NEW p, Len(p) \in Nat, NEW g, g = Walk(t, p, g)
    PROVE  Resolve(t, p) = g[Len(p)]
<1> DEFINE at == CHOOSE f : f = Walk(t, p, f)
<1>1. Resolve(t, p) = at[Len(p)]
  BY DEF Resolve, Walk
<1>2. at = Walk(t, p, at)
  OBVIOUS
<1> HIDE DEF at
<1>3. ASSUME NEW i \in 0 .. Len(p), at[i] # g[i]
      PROVE  FALSE
  <2> DEFINE T == {j \in 0 .. Len(p) : at[j] # g[j]}
  <2>0. T \subseteq Nat /\ i \in T
    BY <1>3
  <2>1. PICK x \in T : \A y \in T : ~(y < x)
    <3> HIDE DEF T
    <3> QED
      BY <2>0, LeastNat
  <2>2. x \in 0 .. Len(p) /\ at[x] # g[x] /\ \A y \in 0 .. Len(p) : y < x => at[y] = g[y]
    BY <2>1
  <2> HIDE DEF T
  <2>3. CASE x = 0
    BY <1>2, <2>2, <2>3 DEF Walk
  <2>4. CASE x # 0
    <3>1. x - 1 \in 0 .. Len(p) /\ x - 1 < x
      BY <2>2, <2>4
    <3>2. at[x - 1] = g[x - 1]
      BY <2>2, <3>1
    <3>3. /\ at[x] = IF at[x - 1].type = "tree" /\ at[x - 1].hash.kind = "tree"
                     THEN at[x - 1].hash.listing[p[x]] ELSE Absent
          /\ g[x] = IF g[x - 1].type = "tree" /\ g[x - 1].hash.kind = "tree"
                     THEN g[x - 1].hash.listing[p[x]] ELSE Absent
      BY <1>2, <2>2, <2>4 DEF Walk
    <3> QED
      BY <2>2, <3>2, <3>3
  <2> QED
    BY <2>3, <2>4
<1> QED
  BY <1>1, <1>3

\* What a reader of the tree t of a sound index finds: the listings, name by name.
EntriesTo(E, S, t, p) ==
    [i \in 0 .. Len(p) |->
        IF i = 0 THEN Entry("tree", t) ELSE Child(E, S, SubSeq(p, 1, i))]

\* Every directory has the hash of what the index holds.
AllFresh(E, S, t) == \A p \in Dirs : Fresh(E, S, t, p)

\* The first i names of a path are a path, and the child of the one before.
LEMMA PrefixIs ==
    ASSUME NEW p \in Paths, NEW i \in 1 .. Len(p)
    PROVE  /\ Len(p) \in Nat /\ p[i] \in Names
           /\ SubSeq(p, 1, i) \in Paths
           /\ i > 1 => /\ SubSeq(p, 1, i - 1) \in Paths
                       /\ SubSeq(p, 1, i) = Append(SubSeq(p, 1, i - 1), p[i])
                       /\ SubSeq(p, 1, i - 1) \in Ancestors(SubSeq(p, 1, i))
           /\ i = 1 => SubSeq(p, 1, i) = Append(Root, p[i])
<1>1. p \in Seq(Names) /\ Len(p) \in Nat
  BY PathsAssumption
<1>2. SubSeq(p, 1, Len(p)) = p
  BY <1>1
<1>3. \A j \in 1 .. Len(p) : SubSeq(p, 1, j) \in Paths
  <2>1. \A j \in 1 .. Len(p) : j = Len(p) \/ j \in 1 .. Len(p) - 1
    BY <1>1
  <2> QED
    BY <1>2, <2>1, PathsAssumption
<1>4. ASSUME i = 1
      PROVE  SubSeq(p, 1, i) = Append(Root, p[i])
  <2> DEFINE u == SubSeq(p, 1, 1)
             v == Append(<<>>, p[1])
  <2>1. p[1] \in Names
    BY <1>1, <1>4
  <2>2. u \in Seq(Names) /\ Len(u) = 1 /\ u[1] = p[1]
    BY <1>1, <1>4
  <2>3. v \in Seq(Names) /\ Len(v) = 1 /\ v[1] = p[1]
    BY <2>1
  <2> HIDE DEF u, v
  <2>4. u = v
    BY <2>2, <2>3, SeqEqual
  <2> QED
    BY <1>4, <2>4 DEF u, v, Root
<1>5. ASSUME i > 1
      PROVE  /\ i - 1 \in 1 .. Len(p)
             /\ SubSeq(p, 1, i) = Append(SubSeq(p, 1, i - 1), p[i])
  BY <1>1, <1>5
<1>6. ASSUME i > 1
      PROVE  SubSeq(p, 1, i - 1) \in Ancestors(SubSeq(p, 1, i))
  <2>1. /\ SubSeq(p, 1, i - 1) \in Paths /\ SubSeq(p, 1, i) \in Paths
        /\ p[i] \in Names
    BY <1>1, <1>3, <1>5, <1>6
  <2>2. Append(SubSeq(p, 1, i - 1), p[i]) \in Paths
    BY <1>5, <1>6, <2>1
  <2>3. SubSeq(p, 1, i - 1) \in Dirs /\ SubSeq(p, 1, i - 1) # Root
    BY <2>1, PathsAssumption DEF Dirs
  <2> QED
    BY <1>5, <1>6, <2>1, <2>2, <2>3, ChildIs
<1> QED
  BY <1>1, <1>3, <1>4, <1>5, <1>6

\* Reading them is a walk of the tree,
LEMMA EntriesToWalk ==
    ASSUME NEW E, NEW S, NEW t, NoOrphans(E, S), AllFresh(E, S, t), NEW p \in Paths
    PROVE  EntriesTo(E, S, t, p) = Walk(t, p, EntriesTo(E, S, t, p))
<1> DEFINE g == EntriesTo(E, S, t, p)
<1>0. Len(p) \in Nat
  BY PathsAssumption
<1>1. ASSUME NEW i \in 0 .. Len(p)
      PROVE  g[i] = Walk(t, p, g)[i]
  <2>1. CASE i = 0
    BY <2>1 DEF EntriesTo, Walk
  <2>2. CASE i # 0
    <3> DEFINE d == SubSeq(p, 1, i - 1)
               q == SubSeq(p, 1, i)
    <3>1. i \in 1 .. Len(p) /\ i - 1 \in 0 .. Len(p)
      BY <1>0, <2>2
    <3>2. /\ g[i] = Child(E, S, q)
          /\ g[i - 1] = IF i = 1 THEN Entry("tree", t) ELSE Child(E, S, d)
          /\ Walk(t, p, g)[i] = IF g[i - 1].type = "tree" /\ g[i - 1].hash.kind = "tree"
                                THEN g[i - 1].hash.listing[p[i]] ELSE Absent
      BY <2>2, <3>1 DEF EntriesTo, Walk
    <3>3. p[i] \in Names /\ q \in Paths
      BY <3>1, PrefixIs
    <3>6. ASSUME NEW c \in Dirs, q = Append(c, p[i]), g[i - 1].type = "tree",
                 g[i - 1].hash = Tree(Listing(E, S, c))
          PROVE  g[i] = Walk(t, p, g)[i]
      <4> HIDE DEF g, q
      <4> QED
        BY <3>2, <3>3, <3>6 DEF Tree, Listing
    <3>4. CASE i = 1
      <4>1. q = Append(Root, p[i])
        BY <3>1, <3>4, PrefixIs
      <4>2. t = Tree(Listing(E, S, Root))
        BY DEF AllFresh, Fresh, Dirs
      <4>3. g[i - 1].type = "tree" /\ g[i - 1].hash = Tree(Listing(E, S, Root))
        BY <3>2, <3>4, <4>2 DEF Entry
      <4> QED
        BY <3>6, <4>1, <4>3 DEF Dirs
    <3>5. CASE i > 1
      <4>1. d \in Paths /\ q = Append(d, p[i]) /\ d \in Ancestors(q)
        BY <3>1, <3>5, PrefixIs
      <4>2. CASE IsTree(E, d)
        <5>1. E[d].hash = Tree(Listing(E, S, d))
          BY <4>1, <4>2, PathsAssumption DEF AllFresh, Fresh, Dirs
        <5>2. g[i - 1] = E[d]
          BY <3>2, <3>5, <4>1, <4>2 DEF Child, Present, IsTree
        <5> QED
          BY <3>6, <4>1, <4>2, <5>1, <5>2 DEF IsTree, Dirs
      <4>3. CASE ~IsTree(E, d)
        <5>1. ~Present(E, q) /\ S[q] = NoLink
          BY <3>3, <4>1, <4>3 DEF NoOrphans
        <5>2. g[i] = Absent
          BY <3>2, <3>3, <5>1 DEF Child
        <5>3. g[i - 1].type # "tree"
          BY <3>2, <3>5, <4>1, <4>3 DEF Child, IsTree, Entry, Absent
        <5> HIDE DEF g
        <5> QED
          BY <3>2, <5>2, <5>3
      <4> QED
        BY <4>2, <4>3
    <3> QED
      BY <3>1, <3>4, <3>5
  <2> QED
    BY <2>1, <2>2
<1>2. g = [i \in 0 .. Len(p) |-> g[i]] /\ Walk(t, p, g) = [i \in 0 .. Len(p) |-> Walk(t, p, g)[i]]
  BY DEF EntriesTo, Walk
<1> QED
  BY <1>1, <1>2

\* so what a reader finds at a path is what the index holds there.
LEMMA ResolveFresh ==
    ASSUME NEW E, NEW S, NEW t, NoOrphans(E, S), AllFresh(E, S, t), NEW p \in Paths
    PROVE  Resolve(t, p) = Child(E, S, p)
<1>1. p \in Seq(Names) /\ Len(p) \in Nat \ {0} /\ SubSeq(p, 1, Len(p)) = p
  BY PathsAssumption, EmptySeq DEF Root
<1>2. Resolve(t, p) = EntriesTo(E, S, t, p)[Len(p)]
  BY <1>1, EntriesToWalk, ResolveIs
<1>3. Len(p) \in 0 .. Len(p) /\ Len(p) # 0
  BY <1>1
<1>4. EntriesTo(E, S, t, p)[Len(p)] = Child(E, S, SubSeq(p, 1, Len(p)))
  BY <1>3 DEF EntriesTo
<1> QED
  BY <1>1, <1>2, <1>4

\* In a tree of another client there is nothing to find.
LEMMA ResolveForeign ==
    ASSUME NEW i, NEW p \in Paths
    PROVE  Resolve(ForeignTree(i), p) = Absent
<1> DEFINE g == [j \in 0 .. Len(p) |-> IF j = 0 THEN Entry("tree", ForeignTree(i)) ELSE Absent]
<1>1. p \in Seq(Names) /\ Len(p) \in Nat \ {0}
  BY PathsAssumption, EmptySeq DEF Root
<1>2. ASSUME NEW j \in 0 .. Len(p)
      PROVE  g[j] = Walk(ForeignTree(i), p, g)[j]
  <2>1. CASE j = 0
    BY <2>1 DEF Walk
  <2>2. CASE j # 0
    <3>1. j - 1 \in 0 .. Len(p)
      BY <1>1, <2>2
    <3>2. g[j - 1].type # "tree" \/ g[j - 1].hash.kind # "tree"
      BY <3>1 DEF Entry, Absent, ForeignTree
    <3> QED
      BY <2>2, <3>2 DEF Walk
  <2> QED
    BY <2>1, <2>2
<1>3. g = Walk(ForeignTree(i), p, g)
  <2>1. Walk(ForeignTree(i), p, g) = [j \in 0 .. Len(p) |-> Walk(ForeignTree(i), p, g)[j]]
    BY DEF Walk
  <2> HIDE DEF Walk
  <2> QED
    BY <1>2, <2>1
<1>4. g[Len(p)] = Absent
  BY <1>1
<1> HIDE DEF g
<1> QED
  BY <1>1, <1>3, <1>4, ResolveIs

-----------------------------------------------------------------------------
(***************************************************************************)
(* The files of the working copy, and what the edits of the index do to    *)
(* them.                                                                   *)
(***************************************************************************)

\* The file that the index holds at p; the working copy is all of them.
FileAt(E, S, p) == FileOf(Child(E, S, p))

FilesIn(E, S) == [p \in Paths |-> FileAt(E, S, p)]

LEMMA FileIs ==
    ASSUME NEW E, NEW S, IsIndex(E), NEW p \in Paths
    PROVE  /\ IsBlob(E, p) => FileAt(E, S, p) = E[p].hash
           /\ IsTree(E, p) => FileAt(E, S, p) = Zero
           /\ ~Present(E, p) /\ S[p] # NoLink => FileAt(E, S, p) = Gitlink(S[p])
           /\ ~Present(E, p) /\ S[p] = NoLink => FileAt(E, S, p) = Zero
           /\ IsBlob(E, p) \/ IsTree(E, p) \/ ~Present(E, p)
<1>1. E[p].type \in {"none", "blob", "tree"}
  BY TypeOf
<1> QED
  BY <1>1 DEF FileAt, FileOf, Child, Present, IsBlob, IsTree, Absent, Entry

\* Where the index did not change, the file is the same.
LEMMA SameFile ==
    ASSUME NEW E, NEW S, NEW F, NEW T, NEW p \in Paths,
           F[p] = E[p], Present(E, p) \/ T[p] = S[p]
    PROVE  FileAt(F, T, p) = FileAt(E, S, p)
BY DEF FileAt, Child, Present

\* A blob put at p, by CreateBlob, UpdateBlob or MoveBlob.
LEMMA PutFiles ==
    ASSUME NEW E, NEW S, IsIndex(E), NoOrphans(E, S),
           NEW p \in Paths, ~IsTree(E, p), BlobsAbove(E, p) = {},
           \A q \in Ancestors(p) : S[q] = NoLink,
           NEW h, NEW F, F = AfterPut(E, p, h)
    PROVE  FilesIn(F, S) = [FilesIn(E, S) EXCEPT ![p] = h]
<1>1. /\ IsIndex(F) /\ F[p] = Entry("blob", h)
      /\ \A q \in Ancestors(p) : IsTree(F, q)
      /\ \A q \in Paths \ {p} : q \notin Ancestors(p) \/ Present(E, q) => F[q] = E[q]
  BY PutSound
<1>2. FileAt(F, S, p) = h
  BY <1>1, FileIs DEF IsBlob, Entry
<1>3. ASSUME NEW q \in Paths, q # p
      PROVE  FileAt(F, S, q) = FileAt(E, S, q)
  <2>1. CASE q \in Ancestors(p) /\ ~Present(E, q)
    BY <1>1, <2>1, FileIs
  <2>2. CASE q \notin Ancestors(p) \/ Present(E, q)
    BY <1>1, <1>3, <2>2, SameFile
  <2> QED
    BY <2>1, <2>2
<1> QED
  BY <1>2, <1>3 DEF FilesIn

\* A subtree emptied, or one path of it when nothing is below.
LEMMA EraseFiles ==
    ASSUME NEW E, NEW S, IsIndex(E), NEW F, NEW T, IsIndex(F), NEW gone \in SUBSET Paths,
           \A q \in gone : ~Present(F, q) /\ T[q] = NoLink,
           \A q \in Paths \ gone : F[q] = E[q] /\ T[q] = S[q]
    PROVE  FilesIn(F, T) = [q \in Paths |-> IF q \in gone THEN Zero ELSE FilesIn(E, S)[q]]
<1>1. \A q \in gone : FileAt(F, T, q) = Zero
  BY FileIs
<1>2. \A q \in Paths \ gone : FileAt(F, T, q) = FileAt(E, S, q)
  BY SameFile
<1> QED
  BY <1>1, <1>2 DEF FilesIn

\* What StagedChanges says of a move.
MoveOf(W, V, src, dest) ==
    /\ \A q \in Subtree(dest) \ Subtree(src) : W[q] = Zero
    /\ V = [q \in Paths |->
           IF q \in Subtree(dest) /\ Rebase(q, dest, src) \in Paths
           THEN W[Rebase(q, dest, src)]
           ELSE IF q \in Subtree(src) THEN Zero ELSE W[q]]

\* MoveBlob moves the one file at src.
LEMMA MoveBlobFiles ==
    ASSUME NEW E, NEW S, IsIndex(E), NoOrphans(E, S), Apart(E, S),
           NEW src \in Paths, NEW dest \in Paths, src # dest,
           IsBlob(E, src), ~Present(E, dest), BlobsAbove(E, dest) = {},
           \A q \in Ancestors(dest) \cup {dest} : S[q] = NoLink,
           src \notin Ancestors(dest),
           NEW F, F = AfterPut(E, dest, E[src].hash), NEW G, G = Removed(F, src)
    PROVE  MoveOf(FilesIn(E, S), FilesIn(G, S), src, dest)
<1>1. /\ IsIndex(F) /\ F[dest] = Entry("blob", E[src].hash)
      /\ \A q \in Ancestors(dest) : IsTree(F, q)
      /\ \A q \in Paths \ {dest} : q \notin Ancestors(dest) \/ Present(E, q) => F[q] = E[q]
  BY PutSound DEF Present, IsTree
<1>2. ~Present(G, src) /\ \A q \in Paths \ {src} : G[q] = F[q]
  BY <1>1 DEF IsIndex, Removed, Present, Absent, Entry
<1>3. IsIndex(G)
  BY <1>1, IndexExcept DEF Removed, Absent
<1>4. S[src] = NoLink
  BY DEF Apart, Present, IsBlob
<1>5. ASSUME NEW q \in Subtree(src), q # src
      PROVE  q \in Paths /\ ~Present(E, q) /\ S[q] = NoLink /\ FileAt(E, S, q) = Zero
  <2>1. q \in Paths /\ src \in Ancestors(q)
    BY <1>5, SubtreeIs
  <2> QED
    BY <2>1, FileIs DEF NoOrphans, IsTree, IsBlob
<1>6. ASSUME NEW q \in Subtree(dest)
      PROVE  q \in Paths /\ ~Present(E, q) /\ S[q] = NoLink /\ FileAt(E, S, q) = Zero
  <2>1. q \in Paths /\ (q # dest => dest \in Ancestors(q))
    BY SubtreeIs
  <2> QED
    BY <2>1, FileIs DEF NoOrphans, IsTree, Present
<1>7. FileAt(G, S, dest) = FileAt(E, S, src) /\ Rebase(dest, dest, src) = src
  <2>1. G[dest] = Entry("blob", E[src].hash)
    BY <1>1, <1>2
  <2>2. FileAt(G, S, dest) = E[src].hash
    BY <1>3, <2>1, FileIs DEF IsBlob, Entry
  <2> QED
    BY <2>2, FileIs, RebaseRoot
<1>8. ASSUME NEW q \in Subtree(dest), q # dest
      PROVE  /\ FileAt(G, S, q) = Zero
             /\ Rebase(q, dest, src) \in Paths => FileAt(E, S, Rebase(q, dest, src)) = Zero
  <2>1. q \notin Ancestors(dest) /\ q # src
    BY <1>6, OutsideSubtree DEF Present, IsBlob
  <2>2. FileAt(G, S, q) = Zero
    <3>1. G[q] = E[q]
      BY <1>1, <1>2, <1>6, <1>8, <2>1
    <3> QED
      BY <1>6, <3>1, SameFile
  <2>3. ASSUME Rebase(q, dest, src) \in Paths
        PROVE  FileAt(E, S, Rebase(q, dest, src)) = Zero
    <3>1. /\ Rebase(q, dest, src) \in Subtree(src)
          /\ Rebase(Rebase(q, dest, src), src, dest) = q
      BY <2>3, RebaseIn
    <3>2. Rebase(src, src, dest) = dest
      BY RebaseRoot
    <3> QED
      BY <1>5, <1>8, <3>1, <3>2
  <2> QED
    BY <2>2, <2>3
<1>9. ASSUME NEW q \in Paths, q \notin Subtree(dest)
      PROVE  FileAt(G, S, q) = IF q \in Subtree(src) THEN Zero ELSE FileAt(E, S, q)
  <2>1. dest \in Subtree(dest) /\ src \in Subtree(src)
    BY SubtreeIs
  <2>2. CASE q = src
    BY <1>2, <1>3, <1>4, <2>1, <2>2, FileIs
  <2>3. CASE q # src /\ q \in Ancestors(dest) /\ ~Present(E, q)
    <3>1. IsTree(G, q)
      BY <1>1, <1>2, <2>3 DEF IsTree
    <3>2. FileAt(G, S, q) = Zero /\ FileAt(E, S, q) = Zero
      BY <1>3, <2>3, <3>1, FileIs
    <3> QED
      BY <3>2
  <2>4. CASE q # src /\ (q \notin Ancestors(dest) \/ Present(E, q))
    <3>1. G[q] = E[q]
      BY <1>1, <1>2, <1>9, <2>1, <2>4
    <3>2. FileAt(G, S, q) = FileAt(E, S, q)
      BY <3>1, SameFile
    <3> QED
      BY <1>5, <2>4, <3>2
  <2> QED
    BY <2>2, <2>3, <2>4
<1>10. ASSUME NEW q \in Paths
       PROVE  FilesIn(G, S)[q] =
                  IF q \in Subtree(dest) /\ Rebase(q, dest, src) \in Paths
                  THEN FilesIn(E, S)[Rebase(q, dest, src)]
                  ELSE IF q \in Subtree(src) THEN Zero ELSE FilesIn(E, S)[q]
  BY <1>6, <1>7, <1>8, <1>9 DEF FilesIn
<1> QED
  BY <1>6, <1>10 DEF MoveOf, FilesIn, Subtree

\* MoveTree moves all the files below src.
LEMMA MoveTreeFiles ==
    ASSUME NEW E, NEW S, IsIndex(E), NEW G, NEW T, IsIndex(G),
           NEW src \in Paths, NEW dest \in Paths,
           \A q \in Subtree(dest) : q \in Paths /\ ~Present(E, q) /\ S[q] = NoLink,
           \A q \in Ancestors(dest) : IsTree(G, q) /\ ~IsBlob(E, q) /\ S[q] = NoLink,
           \A q \in Subtree(dest) :
               IF Arrives(q, src, dest) /\ Present(E, Rebase(q, dest, src))
               THEN G[q] = E[Rebase(q, dest, src)] ELSE ~Present(G, q),
           \A q \in Subtree(dest) :
               IF Arrives(q, src, dest) THEN T[q] = S[Rebase(q, dest, src)] ELSE T[q] = NoLink,
           \A q \in Paths \ (Subtree(dest) \cup Ancestors(dest)) :
               IF q \in Subtree(src) THEN ~Present(G, q) /\ T[q] = NoLink
               ELSE G[q] = E[q] /\ T[q] = S[q]
    PROVE  MoveOf(FilesIn(E, S), FilesIn(G, T), src, dest)
<1>1. ASSUME NEW q \in Subtree(dest)
      PROVE  q \in Paths /\ FileAt(E, S, q) = Zero
  BY FileIs
<1>2. ASSUME NEW q \in Subtree(dest), Rebase(q, dest, src) \in Paths
      PROVE  FileAt(G, T, q) = FileAt(E, S, Rebase(q, dest, src))
  <2> DEFINE r == Rebase(q, dest, src)
  <2>1. Arrives(q, src, dest) /\ q \in Paths /\ T[q] = S[r]
    BY <1>1, <1>2 DEF Arrives
  <2>2. CASE Present(E, r)
    <3>1. G[q] = E[r]
      BY <2>1, <2>2
    <3> HIDE DEF r
    <3> QED
      BY <1>1, <1>2, <2>1, <2>2, <3>1 DEF FileAt, Child, Present, r
  <2>3. CASE ~Present(E, r)
    <3>1. ~Present(G, q)
      BY <2>1, <2>3
    <3> HIDE DEF r
    <3> QED
      BY <1>1, <1>2, <2>1, <2>3, <3>1 DEF FileAt, Child, r
  <2> QED
    BY <2>2, <2>3
<1>3. ASSUME NEW q \in Subtree(dest), Rebase(q, dest, src) \notin Paths
      PROVE  FileAt(G, T, q) = Zero
  <2>1. ~Arrives(q, src, dest)
    BY <1>3 DEF Arrives
  <2> QED
    BY <1>1, <2>1, FileIs
<1>4. ASSUME NEW q \in Paths, q \notin Subtree(dest)
      PROVE  FileAt(G, T, q) = IF q \in Subtree(src) THEN Zero ELSE FileAt(E, S, q)
  <2>1. CASE q \in Ancestors(dest)
    BY <2>1, FileIs
  <2>2. CASE q \notin Ancestors(dest) /\ q \in Subtree(src)
    BY <1>4, <2>2, FileIs
  <2>3. CASE q \notin Ancestors(dest) /\ q \notin Subtree(src)
    BY <1>4, <2>3, SameFile
  <2> QED
    BY <2>1, <2>2, <2>3
<1>5. ASSUME NEW q \in Paths
      PROVE  FilesIn(G, T)[q] =
                  IF q \in Subtree(dest) /\ Rebase(q, dest, src) \in Paths
                  THEN FilesIn(E, S)[Rebase(q, dest, src)]
                  ELSE IF q \in Subtree(src) THEN Zero ELSE FilesIn(E, S)[q]
  BY <1>1, <1>2, <1>3, <1>4 DEF FilesIn
<1> QED
  BY <1>1, <1>5 DEF MoveOf, FilesIn, Subtree

-----------------------------------------------------------------------------
(***************************************************************************)
(* Every staging call is an edit of StagedChanges, or changes nothing      *)
(* there.                                                                  *)
(***************************************************************************)

\* What the caller sees to, so that an edit changes the files it names.
EditDisciplines == IndexDisciplines \cup {"noShadow"}

LEMMA WorkingIs ==
    /\ WorkingCopy = FilesIn(treeEntries, submoduleEntries)
    /\ WorkingCopy' = FilesIn(treeEntries', submoduleEntries')
BY DEF WorkingCopy, FilesIn, FileAt

\* An edit of StagedChanges, of the working copy alone.
Edited(W, V) ==
    \/ \E p \in Paths : \E c \in Contents : V = [W EXCEPT ![p] = Blob(c)]
    \/ \E p \in Paths : \E gone \in {{p}, Subtree(p)} :
           V = [q \in Paths |-> IF q \in gone THEN Zero ELSE W[q]]
    \/ V = [q \in Paths |-> Zero]
    \/ \E p \in Paths : \E q \in Paths : p # q /\ MoveOf(W, V, p, q)

\* CreateBlob and UpdateBlob.
LEMMA PutBlobEdits ==
    ASSUME IndexTypeOK, IndexSound, Apart(treeEntries, submoduleEntries),
           EditDisciplines \subseteq Careful,
           NEW p \in Paths, NEW c \in Contents, CreateBlob(p, c) \/ UpdateBlob(p, c)
    PROVE  /\ Apart(treeEntries', submoduleEntries')
           /\ Edited(WorkingCopy, WorkingCopy')
<1> DEFINE E == treeEntries
           S == submoduleEntries
           F == AfterPut(E, p, Blob(c))
<1>1. /\ PutBlob(p, c) /\ ~IsTree(E, p)
  BY DEF CreateBlob, UpdateBlob, EditDisciplines, IndexDisciplines, Present, IsTree, IsBlob
<1>2. /\ treeEntries' = F /\ submoduleEntries' = S
      /\ BlobsAbove(E, p) = {} /\ \A q \in Ancestors(p) \cup {p} : S[q] = NoLink
  BY <1>1 DEF PutBlob, MayPut, Unshadowing, EditDisciplines, IndexDisciplines, AfterPut, BlobPut
<1>3. IsIndex(E) /\ NoOrphans(E, S)
  BY SoundParts
<1>4. /\ \A q \in Ancestors(p) : IsTree(F, q)
      /\ \A q \in Paths \ {p} : q \notin Ancestors(p) \/ Present(E, q) => F[q] = E[q]
  BY <1>1, <1>2, <1>3, PutSound
<1>5. Apart(F, S)
  BY <1>2, <1>4 DEF Apart, Present
<1>6. FilesIn(F, S) = [FilesIn(E, S) EXCEPT ![p] = Blob(c)]
  BY <1>1, <1>2, <1>3, PutFiles
<1> QED
  BY <1>2, <1>5, <1>6, WorkingIs DEF Edited

\* DeleteBlob.
LEMMA DeleteBlobEdits ==
    ASSUME IndexTypeOK, IndexSound, Apart(treeEntries, submoduleEntries),
           NEW p \in Paths, DeleteBlob(p)
    PROVE  /\ Apart(treeEntries', submoduleEntries')
           /\ Edited(WorkingCopy, WorkingCopy')
<1> DEFINE E == treeEntries
           S == submoduleEntries
           F == Removed(E, p)
<1>1. treeEntries' = F /\ submoduleEntries' = S /\ IsBlob(E, p)
  BY DEF DeleteBlob, Removed
<1>2. IsIndex(E) /\ IsIndex(F) /\ S[p] = NoLink
  BY <1>1, IndexExcept, SoundParts DEF Apart, Removed, Absent, Present, IsBlob
<1>3. ~Present(F, p) /\ \A q \in Paths \ {p} : F[q] = E[q]
  BY <1>2 DEF Removed, IsIndex, Present, Absent, Entry
<1>4. Apart(F, S)
  BY <1>3 DEF Apart, Present
<1> HIDE DEF F
<1>5. FileAt(F, S, p) = Zero /\ \A q \in Paths \ {p} : FileAt(F, S, q) = FileAt(E, S, q)
  BY <1>2, <1>3, FileIs, SameFile
<1>6. FilesIn(F, S) = [q \in Paths |-> IF q \in {p} THEN Zero ELSE FilesIn(E, S)[q]]
  BY <1>5 DEF FilesIn
<1> QED
  BY <1>1, <1>4, <1>6, WorkingIs DEF Edited

\* DeleteTree, of a path that is not the root.
LEMMA DeleteTreeEdits ==
    ASSUME IndexTypeOK, IndexSound, Apart(treeEntries, submoduleEntries),
           IndexTypeOK',
           NEW p \in Paths, DeleteTree(p)
    PROVE  /\ Apart(treeEntries', submoduleEntries')
           /\ Edited(WorkingCopy, WorkingCopy')
<1> DEFINE E == treeEntries
           S == submoduleEntries
           F == treeEntries'
           T == submoduleEntries'
<1>1. \A q \in Paths : /\ F[q] = IF q \in Subtree(p) THEN Absent ELSE E[q]
                       /\ T[q] = IF q \in Subtree(p) THEN NoLink ELSE S[q]
  BY DEF DeleteTree
<1>2. IsIndex(E) /\ IsIndex(F)
  BY DEF IndexTypeOK
<1>3. Subtree(p) \subseteq Paths
  BY DEF Subtree
<1>4. /\ \A q \in Subtree(p) : ~Present(F, q) /\ T[q] = NoLink
      /\ \A q \in Paths \ Subtree(p) : F[q] = E[q] /\ T[q] = S[q]
  BY <1>1, <1>3 DEF Present, Absent, Entry
<1>5. Apart(F, T)
  BY <1>4 DEF Apart, Present
<1>6. FilesIn(F, T) = [q \in Paths |-> IF q \in Subtree(p) THEN Zero ELSE FilesIn(E, S)[q]]
  BY <1>2, <1>3, <1>4, EraseFiles
<1> QED
  BY <1>5, <1>6, WorkingIs DEF Edited

\* The index emptied, by DeleteRoot or Cleanup.
LEMMA ClearedEdits ==
    ASSUME IndexTypeOK, treeEntries' = [q \in Paths |-> Absent],
           submoduleEntries' = [q \in Paths |-> NoLink]
    PROVE  /\ Apart(treeEntries', submoduleEntries')
           /\ Edited(WorkingCopy, WorkingCopy')
<1> DEFINE E == treeEntries
           S == submoduleEntries
           F == [q \in Paths |-> Absent]
           T == [q \in Paths |-> NoLink]
<1>1. IsIndex(E) /\ IsIndex(F)
  BY IndexEmpty DEF IndexTypeOK
<1>2. \A q \in Paths : ~Present(F, q) /\ T[q] = NoLink
  BY DEF Present, Absent, Entry
<1> HIDE DEF F, T
<1>3. FilesIn(F, T) = [q \in Paths |-> Zero]
  BY <1>1, <1>2, FileIs DEF FilesIn
<1>4. Apart(F, T)
  BY <1>2 DEF Apart
<1>5. treeEntries' = F /\ submoduleEntries' = T
  BY DEF F, T
<1> QED
  BY <1>3, <1>4, <1>5, WorkingIs DEF Edited

\* MoveBlob.
LEMMA MoveBlobEdits ==
    ASSUME IndexTypeOK, IndexSound, Apart(treeEntries, submoduleEntries),
           EditDisciplines \subseteq Careful,
           NEW src \in Paths, NEW dest \in Paths, MoveBlob(src, dest)
    PROVE  /\ Apart(treeEntries', submoduleEntries')
           /\ Edited(WorkingCopy, WorkingCopy')
<1> DEFINE E == treeEntries
           S == submoduleEntries
           h == E[src].hash
           F == AfterPut(E, dest, h)
           G == Removed(F, src)
<1>1. /\ src # dest /\ IsBlob(E, src) /\ ~Present(E, dest)
      /\ BlobsAbove(E, dest) = {} /\ src \notin Ancestors(dest)
      /\ \A q \in Ancestors(dest) \cup {dest} : S[q] = NoLink
      /\ submoduleEntries' = S
  BY DEF MoveBlob, MayPut, Unshadowing, EditDisciplines, IndexDisciplines
<1>2. IsIndex(E) /\ NoOrphans(E, S)
  BY SoundParts
<1>3. /\ BlobsAbove(BlobPut(E, dest, h), dest) = {}
      /\ IsIndex(F) /\ F[dest] = Entry("blob", h)
      /\ \A q \in Ancestors(dest) : IsTree(F, q)
      /\ \A q \in Paths \ {dest} : q \notin Ancestors(dest) \/ Present(E, q) => F[q] = E[q]
  BY <1>1, <1>2, PutSound DEF Present, IsTree
<1>4. treeEntries' = G
  BY <1>3 DEF MoveBlob, BlobPut, AfterPut, Removed
<1>5. Apart(G, S)
  <2>1. ASSUME NEW q \in Paths, S[q] # NoLink
        PROVE  ~Present(G, q)
    <3>1. ~Present(E, q) /\ q # src /\ q # dest /\ q \notin Ancestors(dest)
      BY <1>1, <2>1 DEF Apart, Present, IsBlob
    <3>2. G[q] = E[q]
      BY <1>3, <3>1 DEF Removed, IsIndex
    <3> QED
      BY <3>1, <3>2 DEF Present
  <2> QED
    BY <2>1 DEF Apart
<1>6. MoveOf(FilesIn(E, S), FilesIn(G, S), src, dest)
  BY <1>1, <1>2, MoveBlobFiles
<1> QED
  BY <1>1, <1>4, <1>5, <1>6, WorkingIs DEF Edited

\* MoveTree.
LEMMA MoveTreeEdits ==
    ASSUME IndexTypeOK, IndexSound, Apart(treeEntries, submoduleEntries),
           IndexTypeOK', EditDisciplines \subseteq Careful,
           NEW src \in Paths, NEW dest \in Paths, MoveTree(src, dest)
    PROVE  /\ Apart(treeEntries', submoduleEntries')
           /\ Edited(WorkingCopy, WorkingCopy')
<1> DEFINE E == treeEntries
           S == submoduleEntries
           E1 == MovedEntries(src, dest)
           G == WithMissingDirs(E1, dest)
           T == ReparentedSubmodules(src, dest)
<1>1. /\ src # dest /\ ~Present(E, dest) /\ BlobsAbove(E, dest) = {}
      /\ \A q \in Ancestors(dest) \cup {dest} : S[q] = NoLink
      /\ treeEntries' = G /\ submoduleEntries' = T
  BY DEF MoveTree, Unshadowing, EditDisciplines, IndexDisciplines
<1>2. /\ \A q \in Subtree(dest) :
             /\ q \in Paths
             /\ ~Present(E, q)
             /\ q # dest => S[q] = NoLink
             /\ q \notin Ancestors(dest)
      /\ \A q \in Ancestors(dest) : IsTree(G, q)
      /\ \A q \in Subtree(dest) :
             IF Arrives(q, src, dest) /\ Present(E, Rebase(q, dest, src))
             THEN G[q] = E[Rebase(q, dest, src)]
             ELSE ~Present(G, q)
      /\ \A q \in Paths \ (Subtree(dest) \cup Ancestors(dest)) :
             IF q \in Subtree(src) THEN ~Present(G, q) ELSE G[q] = E[q]
  BY <1>1, MovedIndex
<1>3. /\ \A q \in Subtree(dest) :
             \/ /\ Arrives(q, src, dest) /\ S[Rebase(q, dest, src)] # NoLink
                /\ T[q] = S[Rebase(q, dest, src)]
             \/ /\ ~Arrives(q, src, dest) \/ S[Rebase(q, dest, src)] = NoLink
                /\ T[q] \in {NoLink, S[q]}
      /\ \A q \in Paths \ Subtree(dest) :
             T[q] = IF q \in Subtree(src) THEN NoLink ELSE S[q]
  BY ReparentedIs
<1>4. IsIndex(E) /\ IsIndex(G)
  BY <1>1 DEF IndexTypeOK
<1> HIDE DEF G, T
<1>5. \A q \in Subtree(dest) : q \in Paths /\ ~Present(E, q) /\ S[q] = NoLink
  BY <1>1, <1>2
<1>6. \A q \in Subtree(dest) :
          IF Arrives(q, src, dest) THEN T[q] = S[Rebase(q, dest, src)] ELSE T[q] = NoLink
  BY <1>3, <1>5
<1>7. \A q \in Ancestors(dest) : IsTree(G, q) /\ ~IsBlob(E, q) /\ S[q] = NoLink
  BY <1>1, <1>2 DEF BlobsAbove
<1>8. \A q \in Paths \ (Subtree(dest) \cup Ancestors(dest)) :
          IF q \in Subtree(src) THEN ~Present(G, q) /\ T[q] = NoLink
          ELSE G[q] = E[q] /\ T[q] = S[q]
  BY <1>2, <1>3
<1>9. MoveOf(FilesIn(E, S), FilesIn(G, T), src, dest)
  BY <1>2, <1>4, <1>5, <1>6, <1>7, <1>8, MoveTreeFiles
<1>10. Apart(G, T)
  <2>1. ASSUME NEW q \in Paths, T[q] # NoLink
        PROVE  ~Present(G, q)
    <3>1. CASE q \in Subtree(dest)
      <4>1. Arrives(q, src, dest) /\ S[Rebase(q, dest, src)] # NoLink
        BY <1>6, <2>1, <3>1
      <4>2. ~Present(E, Rebase(q, dest, src))
        BY <4>1 DEF Apart, Arrives
      <4> QED
        BY <1>2, <3>1, <4>2
    <3>2. CASE q \notin Subtree(dest)
      <4>1. q \notin Subtree(src) /\ T[q] = S[q]
        BY <1>3, <2>1, <3>2
      <4>2. q \notin Ancestors(dest) /\ ~Present(E, q)
        BY <1>1, <2>1, <4>1 DEF Apart
      <4>3. G[q] = E[q]
        BY <1>2, <3>2, <4>1, <4>2
      <4> QED
        BY <4>2, <4>3 DEF Present
    <3> QED
      BY <3>1, <3>2
  <2> QED
    BY <2>1 DEF Apart
<1> QED
  BY <1>1, <1>9, <1>10, WorkingIs DEF Edited

\* The staging calls, all of them.
LEMMA StageEdits ==
    ASSUME IndexTypeOK, IndexSound, Apart(treeEntries, submoduleEntries),
           IndexTypeOK', EditDisciplines \subseteq Careful, Stage
    PROVE  /\ Apart(treeEntries', submoduleEntries')
           /\ Edited(WorkingCopy, WorkingCopy')
<1>1. CASE DeleteRoot
  BY <1>1, ClearedEdits DEF DeleteRoot
<1> QED
  BY <1>1, PutBlobEdits, DeleteBlobEdits, DeleteTreeEdits, MoveBlobEdits, MoveTreeEdits DEF Stage

-----------------------------------------------------------------------------
(***************************************************************************)
(* What the operators of StagedChanges say in terms of the writer's.       *)
(***************************************************************************)

\* StagedChanges has the same paths.
LEMMA BelowIs ==
    /\ \A p : Abstract!Below(p) = Subtree(p)
    /\ \A q, src, dest : Abstract!Moved(q, src, dest) = Rebase(q, src, dest)
    /\ Abstract!None = Zero
BY DEF Abstract!Below, Subtree, Abstract!IsPrefix, IsPrefix, Abstract!Moved, Rebase,
       Abstract!None, Zero

\* An edit of the working copy is a step of StagedChanges.
LEMMA EditedIsEdit ==
    ASSUME Edited(WorkingCopy, WorkingCopy'), UNCHANGED <<history, lastCommit, refHash, remoteRef>>
    PROVE  Abstract!Edit
<1> DEFINE W == WorkingCopy
           V == WorkingCopy'
<1>0. W = [q \in Paths |-> W[q]]
  BY DEF WorkingCopy
<1>1. /\ UNCHANGED <<[i \in 1 .. numCommits |-> SnapshotOf(i)], lastCommit, refHash, remoteRef>>
  BY DEF history, SnapshotOf
<1>2. ASSUME NEW p \in Paths, NEW c \in Contents, V = [W EXCEPT ![p] = Blob(c)]
      PROVE  Abstract!Edit
  <2>1. Abstract!Write(p)
    BY <1>2 DEF Abstract!Write
  <2> QED
    BY <1>1, <2>1 DEF Abstract!Edit
<1>3. ASSUME NEW p \in Paths, V = [q \in Paths |-> IF q \in Subtree(p) THEN Zero ELSE W[q]]
      PROVE  Abstract!Edit
  <2>1. Abstract!EraseAll(p)
    BY <1>3, BelowIs DEF Abstract!EraseAll
  <2> QED
    BY <1>1, <2>1 DEF Abstract!Edit
<1>4. ASSUME NEW p \in Paths, V = [q \in Paths |-> IF q \in {p} THEN Zero ELSE W[q]]
      PROVE  Abstract!Edit
  <2>1. V = [W EXCEPT ![p] = Zero]
    <3> HIDE DEF W, V
    <3> QED
      BY <1>0, <1>4
  <2>2. Abstract!Erase(p)
    BY <2>1, BelowIs DEF Abstract!Erase
  <2> QED
    BY <1>1, <2>2 DEF Abstract!Edit
<1>5. ASSUME V = [q \in Paths |-> Zero]
      PROVE  Abstract!Edit
  <2>2. Abstract!Wipe
    BY <1>5, BelowIs DEF Abstract!Wipe
  <2> QED
    BY <1>1, <2>2 DEF Abstract!Edit
<1>6. ASSUME NEW p \in Paths, NEW q \in Paths, p # q, MoveOf(W, V, p, q)
      PROVE  Abstract!Edit
  <2>1. Abstract!Move(p, q)
    BY <1>6, BelowIs DEF Abstract!Move, MoveOf
  <2> QED
    BY <1>1, <1>6, <2>1 DEF Abstract!Edit
<1> HIDE DEF W, V
<1> QED
  BY <1>2, <1>3, <1>4, <1>5, <1>6 DEF Edited, W, V

\* f is a function on 1 .. n, so a sequence.
OnRange(f, n) == f = [i \in 1 .. n |-> f[i]]

LEMMA SeqFrom ==
    ASSUME NEW n \in Nat, NEW X, NEW f \in [1 .. n -> X]
    PROVE  f \in Seq(X) /\ Len(f) = n
OBVIOUS

LEMMA Appended ==
    ASSUME NEW n \in Nat, NEW f, NEW g, NEW x, OnRange(f, n), OnRange(g, n + 1),
           \A i \in 1 .. n : g[i] = f[i], g[n + 1] = x
    PROVE  g = Append(f, x) /\ Len(g) = n + 1
<1> DEFINE X == {g[i] : i \in 1 .. n + 1}
           a == Append(f, x)
<1>1. n + 1 \in Nat /\ n + 1 \in 1 .. n + 1 /\ \A i \in 1 .. n : i \in 1 .. n + 1
  OBVIOUS
<1>2. \A i \in 1 .. n + 1 : g[i] \in X
  OBVIOUS
<1>3. x \in X /\ \A i \in 1 .. n : f[i] \in X
  BY <1>1, <1>2
<1> HIDE DEF X
<1>4. f \in Seq(X) /\ Len(f) = n
  <2>1. f \in [1 .. n -> X]
    BY <1>3 DEF OnRange
  <2> QED
    BY <2>1, SeqFrom
<1>5. g \in Seq(X) /\ Len(g) = n + 1
  <2>1. g \in [1 .. n + 1 -> X]
    BY <1>2 DEF OnRange
  <2> QED
    BY <1>1, <2>1, SeqFrom
<1>6. /\ a \in Seq(X) /\ Len(a) = n + 1
      /\ \A i \in 1 .. n : a[i] = f[i]
      /\ a[n + 1] = x
  BY <1>3, <1>4, AppendProperties
<1>7. \A i \in 1 .. n + 1 : a[i] = g[i]
  <2>1. \A i \in 1 .. n + 1 : i \in 1 .. n \/ i = n + 1
    OBVIOUS
  <2> QED
    BY <1>6, <2>1
<1> HIDE DEF a
<1>8. a = g
  BY <1>5, <1>6, <1>7, SeqEqual
<1> QED
  BY <1>5, <1>8 DEF a

\* A commit appends one snapshot and changes none.
LEMMA SnapshotsGrow ==
    ASSUME HistoryTypeOK, NEW k \in 1 .. numCommits, NEW t,
           numCommits' = numCommits + 1,
           commits' = [i \in 1 .. numCommits + 1 |->
               IF i = numCommits + 1 THEN [tree |-> t, past |-> Lineage(k)] ELSE commits[i]]
    PROVE  /\ Abstract!NewCommit(k, [p \in Paths |-> FileOf(Resolve(t, p))])
           /\ Len([i \in 1 .. numCommits |-> SnapshotOf(i)]') = numCommits + 1
<1> DEFINE f == [i \in 1 .. numCommits |-> SnapshotOf(i)]
           g == [i \in 1 .. numCommits |-> SnapshotOf(i)]'
           x == [files |-> [p \in Paths |-> FileOf(Resolve(t, p))], past |-> Lineage(k)]
<1>1. numCommits \in Nat
  BY DEF HistoryTypeOK
<1>2. ASSUME NEW i \in 1 .. numCommits + 1
      PROVE  g[i] = [files |-> [p \in Paths |-> FileOf(Resolve(commits'[i].tree, p))],
                     past |-> commits'[i].past]
  BY DEF SnapshotOf
<1>3. ASSUME NEW i \in 1 .. numCommits
      PROVE  g[i] = f[i]
  <2>1. i \in 1 .. numCommits + 1 /\ commits'[i] = commits[i]
    BY <1>1
  <2>2. f[i] = [files |-> [p \in Paths |-> FileOf(Resolve(commits[i].tree, p))],
                past |-> commits[i].past]
    BY DEF SnapshotOf
  <2> HIDE DEF f, g
  <2> QED
    BY <1>2, <2>1, <2>2
<1>4. g[numCommits + 1] = x
  <2>1. numCommits + 1 \in 1 .. numCommits + 1
    BY <1>1
  <2>2. commits'[numCommits + 1] = [tree |-> t, past |-> Lineage(k)]
    BY <2>1
  <2> HIDE DEF g
  <2> QED
    BY <1>2, <2>1, <2>2
<1>5. OnRange(f, numCommits) /\ OnRange(g, numCommits + 1)
  BY DEF OnRange
<1>6. Lineage(k) = f[k].past \cup {k}
  BY DEF Lineage, SnapshotOf
<1>7. g = Append(f, x) /\ Len(g) = numCommits + 1
  <2> HIDE DEF f, g, x
  <2> QED
    BY <1>1, <1>3, <1>4, <1>5, Appended
<1> QED
  BY <1>6, <1>7 DEF Abstract!NewCommit

-----------------------------------------------------------------------------
(***************************************************************************)
(* The staged writer implements StagedChanges.                             *)
(***************************************************************************)

\* What the refinement starts from in every state.
RefineInv ==
    /\ RetainedInv /\ IndexSound
    /\ Apart(treeEntries, submoduleEntries)
    /\ isCleanedUp => phase = "idle"

\* The state of StagedChanges.
AbstractState ==
    <<WorkingCopy, [i \in 1 .. numCommits |-> SnapshotOf(i)], lastCommit, refHash, remoteRef>>

LEMMA AbstractVars == Abstract!vars = AbstractState /\ (Abstract!vars)' = AbstractState'
BY DEF Abstract!vars, AbstractState

\* Building a tree changes no file,
LEMMA BuildKeeps ==
    ASSUME IndexTypeOK, IndexSound, Apart(treeEntries, submoduleEntries),
           NEW p \in Dirs, BuildSingleTree(p)
    PROVE  /\ Apart(treeEntries', submoduleEntries')
           /\ WorkingCopy' = WorkingCopy
<1>1. /\ p \in dirtyPaths /\ submoduleEntries' = submoduleEntries
      /\ \A q \in Paths : treeEntries'[q].type = treeEntries[q].type
      /\ \A q \in Paths \ {p} : treeEntries'[q] = treeEntries[q]
  BY BuildChanges
<1>2. p # Root => ~IsBlob(treeEntries, p)
  BY <1>1 DEF IndexSound
<1>3. ASSUME NEW q \in Paths
      PROVE  FileAt(treeEntries', submoduleEntries, q) = FileAt(treeEntries, submoduleEntries, q)
  <2>1. CASE q # p
    BY <1>1, <2>1, SameFile
  <2>2. CASE q = p
    <3>1. ~IsBlob(treeEntries, p) /\ treeEntries'[p].type = treeEntries[p].type
      BY <1>1, <1>2, <2>2, PathsAssumption
    <3>2. treeEntries[p].type \in {"none", "tree"}
      BY <2>2, <3>1, TypeOf DEF IndexTypeOK, IsBlob
    <3> QED
      BY <2>2, <3>1, <3>2 DEF FileAt, FileOf, Child, Present, Entry, Absent
  <2> QED
    BY <2>1, <2>2
<1>4. FilesIn(treeEntries', submoduleEntries) = FilesIn(treeEntries, submoduleEntries)
  BY <1>3 DEF FilesIn
<1> QED
  BY <1>1, <1>4, WorkingIs DEF Apart, Present

\* nor does forgetting the submodules that an entry hides.
LEMMA PruneKeeps ==
    ASSUME IndexTypeOK, IndexSound, Apart(treeEntries, submoduleEntries),
           treeEntries' = treeEntries, submoduleEntries' = PrunedSubmodules
    PROVE  /\ Apart(treeEntries', submoduleEntries')
           /\ WorkingCopy' = WorkingCopy
<1> DEFINE T == PrunedSubmodules
<1>1. ASSUME NEW q \in Paths
      PROVE  T[q] = submoduleEntries[q] \/ (T[q] = NoLink /\ Present(treeEntries, q))
  <2>1. NonTreesAbove(treeEntries, q) # {} => submoduleEntries[q] = NoLink
    BY DEF IndexSound, NoOrphans, NonTreesAbove
  <2> QED
    BY <2>1 DEF PrunedSubmodules
<1> HIDE DEF T
<1>2. Apart(treeEntries, T)
  BY <1>1 DEF Apart
<1>3. \A q \in Paths : FileAt(treeEntries, T, q) = FileAt(treeEntries, submoduleEntries, q)
  BY <1>1, SameFile
<1>4. FilesIn(treeEntries, T) = FilesIn(treeEntries, submoduleEntries)
  BY <1>3 DEF FilesIn
<1>5. submoduleEntries' = T
  BY DEF T
<1> QED
  BY <1>2, <1>4, <1>5, WorkingIs

\* A commit of a sound index with nothing marked is a snapshot of the working copy.
LEMMA CommitIsSnapshot ==
    ASSUME IndexSound, ~isCleanedUp, dirtyPaths = {}
    PROVE  [p \in Paths |-> FileOf(Resolve(lastTree, p))] = WorkingCopy
<1>1. AllFresh(treeEntries, submoduleEntries, lastTree) /\ NoOrphans(treeEntries, submoduleEntries)
  BY DEF IndexSound, UnmarkedIsFresh, AllFresh
<1>2. \A p \in Paths : Resolve(lastTree, p) = Child(treeEntries, submoduleEntries, p)
  BY <1>1, ResolveFresh
<1> QED
  BY <1>2 DEF WorkingCopy

\* CommitObject of the writer.
LEMMA AddCommitRefines ==
    ASSUME RefineInv, AddCommit
    PROVE  Abstract!Commit
<1>1. /\ HistoryTypeOK /\ lastCommit \in 1 .. numCommits /\ ~isCleanedUp /\ dirtyPaths = {}
  BY DEF RefineInv, RetainedInv, TypeOK, HistoryTypeOK, AddCommit, Committing
<1>2. /\ numCommits' = numCommits + 1 /\ lastCommit' = numCommits + 1
      /\ commits' = [i \in 1 .. numCommits + 1 |->
             IF i = numCommits + 1 THEN [tree |-> lastTree, past |-> Lineage(lastCommit)]
             ELSE commits[i]]
      /\ UNCHANGED <<treeEntries, submoduleEntries, refHash, remoteRef>>
  BY DEF AddCommit, Past, index, server
<1>3. /\ Abstract!NewCommit(lastCommit, [p \in Paths |-> FileOf(Resolve(lastTree, p))])
      /\ Len([i \in 1 .. numCommits |-> SnapshotOf(i)]') = numCommits + 1
  BY <1>1, <1>2, SnapshotsGrow
<1>4. [p \in Paths |-> FileOf(Resolve(lastTree, p))] = WorkingCopy
  BY <1>1, CommitIsSnapshot DEF RefineInv
<1>5. WorkingCopy' = WorkingCopy
  BY <1>2 DEF WorkingCopy
<1> QED
  BY <1>2, <1>3, <1>4, <1>5 DEF Abstract!Commit

\* Another client's push.
LEMMA ForeignRefines ==
    ASSUME RefineInv, ForeignPush
    PROVE  Abstract!Foreign
<1> DEFINE t == ForeignTree(numCommits + 1)
           content == [p \in Paths |-> FileOf(Resolve(t, p))]
<1>1. HistoryTypeOK /\ remoteRef \in 1 .. numCommits
  BY DEF RefineInv, RetainedInv, TypeOK, HistoryTypeOK
<1>2. /\ numCommits' = numCommits + 1 /\ remoteRef' = numCommits + 1
      /\ commits' = [i \in 1 .. numCommits + 1 |->
             IF i = numCommits + 1 THEN [tree |-> t, past |-> Lineage(remoteRef)]
             ELSE commits[i]]
      /\ UNCHANGED <<treeEntries, submoduleEntries, lastCommit, refHash>>
  BY DEF ForeignPush, index
<1>3. /\ Abstract!NewCommit(remoteRef, content)
      /\ Len([i \in 1 .. numCommits |-> SnapshotOf(i)]') = numCommits + 1
  BY <1>1, <1>2, SnapshotsGrow
<1>4. \A p \in Paths : FileOf(Resolve(t, p)) = Zero
  BY ResolveForeign DEF FileOf, Absent, Entry
<1>5. content \in [Paths -> ({Blob(c) : c \in Contents} \cup {Gitlink(l) : l \in Links})
                                \cup {Abstract!None}]
  BY <1>4, BelowIs
<1>6. WorkingCopy' = WorkingCopy
  BY <1>2 DEF WorkingCopy
<1> HIDE DEF content
<1> QED
  BY <1>2, <1>3, <1>5, <1>6 DEF Abstract!Foreign

\* An accepted push.
LEMMA PushRefines ==
    ASSUME RefineInv, Push
    PROVE  /\ Apart(treeEntries', submoduleEntries')
           /\ Abstract!Push \/ UNCHANGED AbstractState
<1>1. IndexTypeOK /\ HistoryTypeOK
  BY DEF RefineInv, RetainedInv, TypeOK
<1>2. UNCHANGED <<commits, numCommits, lastCommit, treeEntries>>
  BY DEF Push, PushAccepted, PushOfNothing, PushReplyLost, Acknowledged, history, index
<1>3. UNCHANGED [i \in 1 .. numCommits |-> SnapshotOf(i)]
  BY <1>2 DEF SnapshotOf
<1>4. CASE PushAccepted
  <2>1. /\ remoteRef = refHash /\ remoteRef' = lastCommit /\ refHash' = lastCommit
        /\ submoduleEntries' = PrunedSubmodules
    BY <1>4 DEF PushAccepted, ServerApplies, OldValue, Acknowledged
  <2>2. Apart(treeEntries', submoduleEntries') /\ WorkingCopy' = WorkingCopy
    BY <1>1, <1>2, <2>1, PruneKeeps DEF RefineInv
  <2> QED
    BY <1>2, <1>3, <2>1, <2>2 DEF Abstract!Push, AbstractState
<1>5. CASE PushReplyLost
  <2>1. /\ remoteRef = refHash /\ remoteRef' = lastCommit /\ refHash' = refHash
        /\ submoduleEntries' = submoduleEntries
    BY <1>5 DEF PushReplyLost, ServerApplies, OldValue, index
  <2>2. WorkingCopy' = WorkingCopy
    BY <1>2, <2>1 DEF WorkingCopy
  <2> QED
    BY <1>2, <1>3, <2>1, <2>2 DEF Abstract!Push, AbstractState, RefineInv
<1>6. CASE PushOfNothing
  <2>1. /\ packCommits = {} /\ ~isCleanedUp /\ ~packClosed
        /\ refHash' = lastCommit /\ remoteRef' = remoteRef
        /\ submoduleEntries' = PrunedSubmodules
    BY <1>6 DEF PushOfNothing, MayPush, HasObjects, Acknowledged, server
  <2>2. Apart(treeEntries', submoduleEntries') /\ WorkingCopy' = WorkingCopy
    BY <1>1, <1>2, <2>1, PruneKeeps DEF RefineInv
  <2>3. lastCommit = refHash
    <3>1. lastCommit \in Lineage(refHash) /\ refHash \in Lineage(lastCommit)
      BY <2>1 DEF RefineInv, RetainedInv, UnpushedRetained, Lineage
    <3>2. /\ lastCommit \in 1 .. numCommits /\ refHash \in 1 .. numCommits
          /\ commits[lastCommit].past \subseteq 1 .. (lastCommit - 1)
          /\ commits[refHash].past \subseteq 1 .. (refHash - 1)
          /\ numCommits \in Nat
      BY <1>1 DEF HistoryTypeOK
    <3>3. lastCommit <= refHash /\ refHash <= lastCommit
      BY <3>1, <3>2 DEF Lineage
    <3> QED
      BY <3>2, <3>3
  <2> QED
    BY <1>2, <1>3, <2>1, <2>2, <2>3 DEF AbstractState
<1> QED
  BY <1>4, <1>5, <1>6 DEF Push

\* Every step of the writer is a step of StagedChanges or a stutter.
LEMMA RefineStep ==
    ASSUME EditDisciplines \subseteq Careful, RefineInv, [Next]_vars
    PROVE  /\ Apart(treeEntries', submoduleEntries')
           /\ isCleanedUp' => phase' = "idle"
           /\ [Abstract!Next]_(Abstract!vars)
<1>1. /\ IndexTypeOK /\ IndexTypeOK' /\ IndexSound
      /\ Apart(treeEntries, submoduleEntries)
  <2>1. TypeOK /\ TypeOK'
    BY TypeStep DEF RefineInv, RetainedInv
  <2> QED
    BY <2>1 DEF RefineInv, TypeOK
<1>2. CASE Stage
  <2>1. PICK op : Staging(op)
    BY <1>2, StageFrame
  <2>2. UNCHANGED <<history, lastCommit, refHash, remoteRef, isCleanedUp, phase>>
    BY <2>1 DEF Staging, server
  <2>3. Apart(treeEntries', submoduleEntries') /\ Edited(WorkingCopy, WorkingCopy')
    BY <1>1, <1>2, StageEdits
  <2> QED
    BY <2>2, <2>3, EditedIsEdit DEF Abstract!Next, RefineInv
<1>3. ASSUME UNCHANGED <<treeEntries, submoduleEntries, history, lastCommit, refHash, remoteRef>>
      PROVE  Apart(treeEntries', submoduleEntries') /\ [Abstract!Next]_(Abstract!vars)
  <2>1. WorkingCopy' = WorkingCopy
    BY <1>3 DEF WorkingCopy
  <2>2. UNCHANGED [i \in 1 .. numCommits |-> SnapshotOf(i)]
    BY <1>3 DEF SnapshotOf, history
  <2> QED
    BY <1>1, <1>3, <2>1, <2>2, AbstractVars DEF AbstractState
<1>4. CASE BeginCommit \/ NothingToCommit \/ AddCommitFails
  <2>1. /\ UNCHANGED <<treeEntries, submoduleEntries, history, lastCommit, refHash, remoteRef>>
        /\ isCleanedUp' => phase' = "idle"
    BY <1>4 DEF BeginCommit, NothingToCommit, AddCommitFails, index, server
  <2> QED
    BY <1>3, <2>1
<1>5. ASSUME NEW p \in Dirs, BuildSingleTree(p)
      PROVE  /\ Apart(treeEntries', submoduleEntries')
             /\ isCleanedUp' => phase' = "idle"
             /\ [Abstract!Next]_(Abstract!vars)
  <2>1. Apart(treeEntries', submoduleEntries') /\ WorkingCopy' = WorkingCopy
    BY <1>1, <1>5, BuildKeeps
  <2>2. UNCHANGED <<history, lastCommit, refHash, remoteRef, isCleanedUp, phase>>
    BY <1>5 DEF BuildSingleTree, server
  <2>3. UNCHANGED [i \in 1 .. numCommits |-> SnapshotOf(i)]
    BY <2>2 DEF SnapshotOf, history
  <2> QED
    BY <2>1, <2>2, <2>3, AbstractVars DEF AbstractState, RefineInv
<1>6. CASE AddCommit
  <2>1. /\ UNCHANGED <<treeEntries, submoduleEntries>> /\ phase' = "idle"
    BY <1>6 DEF AddCommit, index
  <2> QED
    BY <1>1, <1>6, <2>1, AddCommitRefines DEF Abstract!Next
<1>7. CASE Push
  <2>1. UNCHANGED <<isCleanedUp, phase>>
    BY <1>7 DEF Push, PushAccepted, PushOfNothing, PushReplyLost, Acknowledged
  <2> QED
    BY <1>7, <2>1, PushRefines, AbstractVars DEF RefineInv, Abstract!Next
<1>8. CASE ForeignPush
  <2>1. UNCHANGED <<treeEntries, submoduleEntries, isCleanedUp, phase>>
    BY <1>8 DEF ForeignPush, index
  <2> QED
    BY <1>1, <1>8, <2>1, ForeignRefines DEF RefineInv, Abstract!Next
<1>9. CASE Cleanup
  <2>1. UNCHANGED <<history, lastCommit, refHash, remoteRef, phase>> /\ phase = "idle"
    BY <1>9 DEF Cleanup, server
  <2>2. CASE UNCHANGED <<treeEntries, submoduleEntries>>
    BY <1>3, <2>1, <2>2
  <2>3. CASE /\ treeEntries' = [q \in Paths |-> Absent]
             /\ submoduleEntries' = [q \in Paths |-> NoLink]
    <3>1. Apart(treeEntries', submoduleEntries') /\ Edited(WorkingCopy, WorkingCopy')
      BY <1>1, <2>3, ClearedEdits
    <3> QED
      BY <2>1, <3>1, EditedIsEdit DEF Abstract!Next
  <2> QED
    BY <1>9, <2>2, <2>3 DEF Cleanup, index
<1>10. CASE UNCHANGED vars
  BY <1>3, <1>10 DEF vars, index, history, server, RefineInv
<1> QED
  BY <1>2, <1>4, <1>5, <1>6, <1>7, <1>8, <1>9, <1>10 DEF Next, Commit

\* The first state is one of StagedChanges.
LEMMA RefineInit ==
    ASSUME Init
    PROVE  /\ Apart(treeEntries, submoduleEntries)
           /\ isCleanedUp => phase = "idle"
           /\ Abstract!Init
<1>1. PICK r \in Repos : /\ treeEntries = r.entries /\ submoduleEntries = r.links
                         /\ lastTree = r.tree
                         /\ commits = [i \in {1} |-> [tree |-> r.tree, past |-> {}]]
  BY DEF Init
<1>2. /\ dirtyPaths = {} /\ lastCommit = 1 /\ refHash = 1 /\ remoteRef = 1 /\ numCommits = 1
      /\ phase = "idle" /\ isCleanedUp = FALSE
  BY DEF Init
<1>3. /\ IsIndex(r.entries) /\ r.links \in [Paths -> Links \cup {NoLink}]
      /\ Apart(r.entries, r.links)
      /\ \A p \in Paths : IsBlob(r.entries, p) => r.entries[p].hash \in {Blob(c) : c \in Contents}
  BY ReposAssumption DEF Consistent
<1>4. \A p \in Paths : FileAt(r.entries, r.links, p) \in
          ({Blob(c) : c \in Contents} \cup {Gitlink(l) : l \in Links}) \cup {Zero}
  BY <1>3, FileIs
<1>5. WorkingCopy \in [Paths -> ({Blob(c) : c \in Contents} \cup {Gitlink(l) : l \in Links})
                                    \cup {Abstract!None}]
  BY <1>1, <1>4, BelowIs, WorkingIs DEF FilesIn
<1>6. [i \in 1 .. numCommits |-> SnapshotOf(i)] = <<[files |-> WorkingCopy, past |-> {}]>>
  <2>1. [p \in Paths |-> FileOf(Resolve(lastTree, p))] = WorkingCopy
    BY <1>2, SoundInit, CommitIsSnapshot
  <2>2. SnapshotOf(1) = [files |-> WorkingCopy, past |-> {}]
    BY <1>1, <2>1 DEF SnapshotOf
  <2>3. 1 .. numCommits = {1}
    BY <1>2
  <2>4. \A i \in 1 .. numCommits : SnapshotOf(i) = [files |-> WorkingCopy, past |-> {}]
    BY <2>2, <2>3
  <2> QED
    BY <2>3, <2>4
<1> QED
  BY <1>1, <1>2, <1>3, <1>5, <1>6 DEF Abstract!Init

LEMMA RefineKept ==
    ASSUME EditDisciplines \subseteq Careful, RefineInv, [Next]_vars
    PROVE  RefineInv'
<1>1. RetainedInv'
  BY RetainedStep DEF RefineInv
<1>2. IndexSound'
  BY SoundStep DEF RefineInv, RetainedInv, EditDisciplines
<1>3. Apart(treeEntries', submoduleEntries') /\ (isCleanedUp' => phase' = "idle")
  BY RefineStep
<1> QED
  BY <1>1, <1>2, <1>3 DEF RefineInv

\* Commits contain exactly what was staged, an edit changes exactly the files its
\* API call names, and the branch moves in one step from the value the writer knew
\* to the last commit: the staged writer implements StagedChanges, whatever fails,
\* for a caller that keeps the index sound and creates no blob where a submodule is.
THEOREM StagedChangesImplemented ==
    EditDisciplines \subseteq Careful => (Spec => ImplementsStagedChanges)
<1> SUFFICES ASSUME EditDisciplines \subseteq Careful
             PROVE  Spec => ImplementsStagedChanges
  OBVIOUS
<1>1. Init => RefineInv /\ Abstract!Init
  BY RetainedInit, SoundInit, RefineInit DEF RefineInv
<1>2. RefineInv /\ [Next]_vars => RefineInv' /\ [Abstract!Next]_(Abstract!vars)
  BY RefineKept, RefineStep DEF RefineInv
<1> QED
  BY <1>1, <1>2, PTL DEF Spec, Abstract!Spec, ImplementsStagedChanges

-----------------------------------------------------------------------------
(***************************************************************************)
(* Submodules that were removed stay removed.                              *)
(***************************************************************************)

\* The submodule of the index at p, when there is one, is in the tree t.
LinkIn(S, p, t) == S[p] # NoLink => Entry("commit", Gitlink(S[p])) \in GitlinksIn(t)

\* Of the submodules of the index, those that no entry hides are in the tree of
\* the last commit, and all of them are once that commit was pushed.
LinksInv ==
    ~isCleanedUp /\ ~packClosed =>
        \A p \in Paths :
            packCommits = {} \/ ~Present(treeEntries, p) =>
                LinkIn(submoduleEntries, p, commits[lastCommit].tree)

\* What the caller sees to, so that no submodule comes back.
LinkCaller ==
    IndexDisciplines \subseteq Careful /\ ("pushEach" \in Careful \/ "noShadow" \in Careful)

\* The submodules of the tree of a sound index.
LEMMA SoundTreeLinks ==
    ASSUME NEW E, NEW S, NEW t, IsIndex(E), NoOrphans(E, S), AllFresh(E, S, t)
    PROVE  GitlinksIn(t) = {Entry("commit", Gitlink(S[p])) :
                                p \in {q \in Paths : ~Present(E, q) /\ S[q] # NoLink}}
<1>1. \A p \in Paths : Resolve(t, p) = Child(E, S, p)
  BY ResolveFresh
<1>2. ASSUME NEW p \in Paths
      PROVE  /\ Present(E, p) => Resolve(t, p) = E[p] /\ E[p].type # "commit"
             /\ ~Present(E, p) /\ S[p] # NoLink =>
                    /\ Resolve(t, p) = Entry("commit", Gitlink(S[p]))
                    /\ Resolve(t, p).type = "commit"
             /\ ~Present(E, p) /\ S[p] = NoLink => Resolve(t, p).type # "commit"
  <2>1. E[p].type \in {"none", "blob", "tree"}
    BY TypeOf
  <2> QED
    BY <1>1, <2>1 DEF Child, Present, Entry, Absent
<1> QED
  BY <1>2 DEF GitlinksIn

\* When nothing is marked, those of the last tree.
LEMMA CommittedLinks ==
    ASSUME IndexTypeOK, IndexSound, ~isCleanedUp, dirtyPaths = {}
    PROVE  GitlinksIn(lastTree) =
               {Entry("commit", Gitlink(submoduleEntries[p])) :
                    p \in {q \in Paths : /\ ~Present(treeEntries, q)
                                         /\ submoduleEntries[q] # NoLink}}
<1>1. AllFresh(treeEntries, submoduleEntries, lastTree)
  BY DEF IndexSound, UnmarkedIsFresh, AllFresh
<1> QED
  BY <1>1, SoundTreeLinks DEF IndexTypeOK, IndexSound

\* A staging call adds no submodule, it moves or drops some.
LEMMA StageLinks ==
    ASSUME IndexTypeOK, Stage, NEW p \in Paths, submoduleEntries'[p] # NoLink
    PROVE  \E q \in Paths : submoduleEntries'[p] = submoduleEntries[q]
<1>1. CASE submoduleEntries' = submoduleEntries
  BY <1>1
<1>2. ASSUME NEW q \in Paths, DeleteTree(q)
      PROVE  submoduleEntries'[p] = submoduleEntries[p]
  BY <1>2 DEF DeleteTree
<1>3. CASE DeleteRoot
  BY <1>3 DEF DeleteRoot
<1>4. ASSUME NEW src \in Paths, NEW dest \in Paths, MoveTree(src, dest)
      PROVE  \E q \in Paths : submoduleEntries'[p] = submoduleEntries[q]
  <2>1. submoduleEntries' = ReparentedSubmodules(src, dest)
    BY <1>4 DEF MoveTree
  <2>2. \/ submoduleEntries'[p] = submoduleEntries[p]
        \/ /\ Rebase(p, dest, src) \in Paths
           /\ submoduleEntries'[p] = submoduleEntries[Rebase(p, dest, src)]
    BY <2>1 DEF ReparentedSubmodules, Arrives
  <2> QED
    BY <2>2
<1> QED
  BY <1>1, <1>2, <1>3, <1>4 DEF Stage, CreateBlob, UpdateBlob, PutBlob, DeleteBlob, MoveBlob

\* Every step keeps that, and no commit has a submodule its parent had not.
LEMMA LinksStep ==
    ASSUME "pushEach" \in Careful \/ Apart(treeEntries, submoduleEntries),
           TypeOK, IndexSound, isCleanedUp => phase = "idle", LinksInv, [Next]_vars
    PROVE  /\ LinksInv'
           /\ isCleanedUp' => phase' = "idle"
           /\ GitlinksIn(commits'[lastCommit'].tree) \subseteq GitlinksIn(commits[lastCommit].tree)
<1> DEFINE Goal == /\ LinksInv'
                   /\ isCleanedUp' => phase' = "idle"
                   /\ GitlinksIn(commits'[lastCommit'].tree)
                          \subseteq GitlinksIn(commits[lastCommit].tree)
           L == GitlinksIn(commits[lastCommit].tree)
<1>1. IndexTypeOK /\ HistoryTypeOK /\ lastCommit \in 1 .. numCommits
  BY DEF TypeOK, HistoryTypeOK
<1>2. CASE Stage
  <2>1. PICK op : Staging(op)
    BY <1>2, StageFrame
  <2>2. /\ packCommits = {} \/ Apart(treeEntries, submoduleEntries)
        /\ ~isCleanedUp
        /\ UNCHANGED <<commits, lastCommit, packCommits, packClosed, isCleanedUp, phase>>
    BY <2>1 DEF Staging, history
  <2>3. ASSUME NEW p \in Paths, ~packClosed
        PROVE  LinkIn(submoduleEntries', p, commits[lastCommit].tree)
    <3>1. ASSUME submoduleEntries'[p] # NoLink
          PROVE  Entry("commit", Gitlink(submoduleEntries'[p])) \in L
      <4>1. PICK q \in Paths : submoduleEntries'[p] = submoduleEntries[q]
        BY <1>1, <1>2, <3>1, StageLinks
      <4> QED
        BY <2>2, <2>3, <3>1, <4>1 DEF LinksInv, LinkIn, Apart
    <3> QED
      BY <3>1 DEF LinkIn
  <2> QED
    BY <2>2, <2>3 DEF LinksInv
<1>3. CASE /\ UNCHANGED <<treeEntries, submoduleEntries, commits, lastCommit,
                          packCommits, packClosed, isCleanedUp>>
           /\ isCleanedUp' => phase' = "idle"
  BY <1>3 DEF LinksInv
<1>4. CASE BeginCommit \/ NothingToCommit \/ AddCommitFails \/ PushReplyLost
  BY <1>3, <1>4
  DEF BeginCommit, NothingToCommit, AddCommitFails, PushReplyLost, MayPush, index, pack, history
<1>5. ASSUME NEW p \in Dirs, BuildSingleTree(p)
      PROVE  Goal
  <2>1. /\ submoduleEntries' = submoduleEntries
        /\ \A q \in Paths : treeEntries'[q].type = treeEntries[q].type
    BY <1>1, <1>5, BuildChanges
  <2>2. UNCHANGED <<commits, lastCommit, packCommits, packClosed, isCleanedUp, phase>>
    BY <1>5 DEF BuildSingleTree, history
  <2> QED
    BY <2>1, <2>2 DEF LinksInv, Present
<1>6. CASE AddCommit
  <2>1. /\ ~isCleanedUp /\ ~packClosed /\ dirtyPaths = {}
        /\ commits' = [i \in 1 .. numCommits + 1 |->
               IF i = numCommits + 1
               THEN [tree |-> lastTree, past |-> Past(numCommits + 1)] ELSE commits[i]]
        /\ lastCommit' = numCommits + 1 /\ packCommits' = packCommits \cup {numCommits + 1}
        /\ phase' = "idle"
        /\ UNCHANGED <<treeEntries, submoduleEntries>>
    BY <1>6 DEF AddCommit, Committing, HasObjects, index
  <2>2. numCommits + 1 \in 1 .. numCommits + 1
    BY <1>1 DEF HistoryTypeOK
  <2>3. commits'[lastCommit'].tree = lastTree
    BY <2>1, <2>2
  <2>4. GitlinksIn(lastTree) = {Entry("commit", Gitlink(submoduleEntries[p])) :
                    p \in {q \in Paths : /\ ~Present(treeEntries, q)
                                         /\ submoduleEntries[q] # NoLink}}
    BY <1>1, <2>1, CommittedLinks
  <2>5. GitlinksIn(lastTree) \subseteq L
    BY <2>1, <2>4 DEF LinksInv, LinkIn
  <2>6. packCommits' # {}
    BY <2>1
  <2>7. \A p \in Paths : ~Present(treeEntries, p) => LinkIn(submoduleEntries, p, lastTree)
    BY <2>4 DEF LinkIn
  <2>8. LinksInv'
    BY <2>1, <2>3, <2>6, <2>7 DEF LinksInv
  <2> QED
    BY <2>1, <2>3, <2>5, <2>8
<1>7. CASE MayPush /\ Acknowledged
  <2>1. /\ ~isCleanedUp /\ ~packClosed
        /\ UNCHANGED <<treeEntries, commits, lastCommit, isCleanedUp, phase>>
        /\ submoduleEntries' = PrunedSubmodules
    BY <1>7 DEF MayPush, HasObjects, Acknowledged, history
  <2>2. ASSUME NEW p \in Paths
        PROVE  LinkIn(submoduleEntries', p, commits[lastCommit].tree)
    <3>1. \/ submoduleEntries'[p] = NoLink
          \/ ~Present(treeEntries, p) /\ submoduleEntries'[p] = submoduleEntries[p]
      BY <2>1 DEF PrunedSubmodules
    <3> QED
      BY <2>1, <3>1 DEF LinksInv, LinkIn
  <2> QED
    BY <2>1, <2>2 DEF LinksInv
<1>8. CASE ForeignPush
  <2>1. commits'[lastCommit] = commits[lastCommit]
    BY <1>1, <1>8, ForeignPushHistory
  <2>2. UNCHANGED <<treeEntries, submoduleEntries, lastCommit, packCommits, packClosed,
                    isCleanedUp, phase>>
    BY <1>8 DEF ForeignPush, index, pack
  <2> QED
    BY <2>1, <2>2 DEF LinksInv
<1>9. CASE Cleanup
  <2>1. /\ phase' = "idle" /\ (isCleanedUp' \/ packClosed')
        /\ UNCHANGED <<commits, lastCommit>>
    BY <1>9 DEF Cleanup, history
  <2>2. isCleanedUp' => phase' = "idle"
    BY <1>9 DEF Cleanup
  <2> QED
    BY <2>1, <2>2 DEF LinksInv
<1>10. CASE UNCHANGED vars
  BY <1>3, <1>10 DEF vars, index, pack, history
<1> QED
  BY <1>2, <1>4, <1>5, <1>6, <1>7, <1>8, <1>9, <1>10
  DEF Next, Commit, Push, PushAccepted, PushOfNothing

\* No commit gets a submodule that its parent had not: what was removed stays
\* away, across moves, failed pushes and commits that wait for their push, for a
\* caller that keeps the index sound and either puts nothing where a submodule is or
\* pushes each commit before it stages more (reparentSubmodules,
\* pruneSubmoduleEntriesAfterPush).
THEOREM RemovedLinksStayRemoved == LinkCaller => (Spec => NoGitlinkRevival)
<1> SUFFICES ASSUME LinkCaller
             PROVE  Spec => NoGitlinkRevival
  OBVIOUS
<1>0. IndexDisciplines \subseteq Careful /\ ("pushEach" \in Careful \/ EditDisciplines \subseteq Careful)
  BY DEF LinkCaller, EditDisciplines
<1> DEFINE Inv == /\ TypeOK /\ IndexSound /\ (isCleanedUp => phase = "idle") /\ LinksInv
                  /\ ("pushEach" \in Careful \/ RefineInv)
<1>1. Init => Inv
  <2> SUFFICES ASSUME Init PROVE Inv
    OBVIOUS
  <2>1. TypeOK /\ IndexSound
    BY TypeInit, SoundInit
  <2>2. PICK r \in Repos : /\ lastTree = r.tree
                           /\ commits = [i \in {1} |-> [tree |-> r.tree, past |-> {}]]
    BY DEF Init
  <2>3. /\ dirtyPaths = {} /\ lastCommit = 1 /\ phase = "idle" /\ isCleanedUp = FALSE
    BY DEF Init
  <2>4. GitlinksIn(lastTree) = {Entry("commit", Gitlink(submoduleEntries[p])) :
                    p \in {q \in Paths : /\ ~Present(treeEntries, q)
                                         /\ submoduleEntries[q] # NoLink}}
    BY <2>1, <2>3, CommittedLinks DEF TypeOK
  <2>5. Apart(treeEntries, submoduleEntries)
    BY RefineInit
  <2>6. commits[lastCommit].tree = lastTree
    BY <2>2, <2>3
  <2>7. LinksInv
    BY <2>4, <2>5, <2>6 DEF LinksInv, LinkIn, Apart
  <2>8. RefineInv
    BY RetainedInit, SoundInit, RefineInit DEF RefineInv
  <2> QED
    BY <2>1, <2>3, <2>7, <2>8
<1>2. Inv /\ [Next]_vars => Inv' /\
         [GitlinksIn(commits'[lastCommit'].tree) \subseteq GitlinksIn(commits[lastCommit].tree)]_vars
  <2> SUFFICES ASSUME Inv, [Next]_vars
               PROVE  Inv' /\ (GitlinksIn(commits'[lastCommit'].tree)
                                   \subseteq GitlinksIn(commits[lastCommit].tree))
    OBVIOUS
  <2>1. TypeOK'
    BY TypeStep
  <2>2. IndexSound'
    BY <1>0, SoundStep
  <2>3. "pushEach" \in Careful \/ Apart(treeEntries, submoduleEntries)
    BY DEF RefineInv
  <2>4. "pushEach" \in Careful \/ RefineInv'
    BY <1>0, RefineKept
  <2>5. /\ LinksInv' /\ (isCleanedUp' => phase' = "idle")
        /\ GitlinksIn(commits'[lastCommit'].tree) \subseteq GitlinksIn(commits[lastCommit].tree)
    BY <2>3, LinksStep
  <2> QED
    BY <2>1, <2>2, <2>4, <2>5
<1> HIDE DEF Inv
<1> QED
  BY <1>1, <1>2, PTL DEF Spec, NoGitlinkRevival

=============================================================================
