---------------------------- MODULE MCStagedWriter ----------------------------
(***************************************************************************)
(* Instances of StagedWriterRefines for TLC.                               *)
(***************************************************************************)
EXTENDS StagedWriterRefines, TLC

SeqsUpTo(n) == UNION {[1 .. k -> Names] : k \in 1 .. n}

\* Every path of at most two names.
Paths2 == SeqsUpTo(2)

NoLinks == [p \in Paths |-> NoLink]

(***************************************************************************)
(* A consistent repository from its files and its submodules.              *)
(***************************************************************************)
RECURSIVE HashOf(_, _, _)
HashOf(files, links, p) ==
    LET dirs == {q \in Paths : \E f \in DOMAIN files \cup DOMAIN links :
                     IsStrictPrefix(q, f)}
        child(q) == CASE q \in DOMAIN files -> Entry("blob", Blob(files[q]))
                      [] q \in dirs -> Entry("tree", HashOf(files, links, q))
                      [] q \in DOMAIN links -> Entry("commit", Gitlink(links[q]))
                      [] OTHER -> Absent
    IN  Tree([n \in Names |-> child(Append(p, n))])

Repo(files, links) ==
    LET dirs == {q \in Paths : \E f \in DOMAIN files \cup DOMAIN links :
                     IsStrictPrefix(q, f)}
        entry(q) == CASE q \in DOMAIN files -> Entry("blob", Blob(files[q]))
                      [] q \in dirs -> Entry("tree", HashOf(files, links, q))
                      [] OTHER -> Absent
    IN  [entries |-> [q \in Paths |-> entry(q)],
         links   |-> [q \in Paths |-> IF q \in DOMAIN links THEN links[q] ELSE NoLink],
         tree    |-> HashOf(files, links, Root),
         objects |-> {entry(q).hash : q \in {f \in Paths : entry(f) # Absent}}
                         \cup {HashOf(files, links, Root)}]

EmptyRepo  == Repo(<<>>, <<>>)
OneDir     == Repo(<<"a", "a">> :> 1, <<>>)
DirAndFile == Repo((<<"a", "a">> :> 1) @@ (<<"b">> :> 2), <<>>)
WithModule == Repo(<<"a", "a">> :> 1, <<"a", "b">> :> "lib")

DirRepos    == {DirAndFile}
MixedRepos  == {EmptyRepo, DirAndFile, WithModule}
OneDirRepos == {OneDir}
ModuleRepos == {WithModule}

AllOps == {"CreateBlob", "UpdateBlob", "DeleteBlob", "MoveBlob", "DeleteTree",
           "DeleteRoot", "MoveTree", "Commit", "Push", "Cleanup"}

=============================================================================
