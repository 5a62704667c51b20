----------------------------- MODULE StagedChanges -----------------------------
(***************************************************************************)
(* What the staged writer promises, with no index, no directories to mark  *)
(* and no objects to send: a working copy that edits change, commits that  *)
(* are snapshots of it, and a branch that moves from the commit the writer *)
(* started at to the writer's last commit, at once or not at all.          *)
(***************************************************************************)
EXTENDS Naturals, Sequences, SequencesExt

CONSTANTS Paths,    \* the paths of files
          Files     \* what a file may be; None is not one
VARIABLES
    files,          \* the working copy: what is at every path
    snapshots,      \* the content and the ancestors of every commit made
    head,           \* the writer's last commit
    base,           \* the commit the writer knows the branch to be at
    branch          \* the commit the branch is at

vars == <<files, snapshots, head, base, branch>>

None == [kind |-> "zero"]

Below(p) == {q \in Paths : IsPrefix(p, q)}
Moved(q, src, dest) == dest \o SubSeq(q, Len(src) + 1, Len(q))

Init ==
    /\ files \in [Paths -> Files \cup {None}]
    /\ snapshots = <<[files |-> files, past |-> {}]>>
    /\ head = 1 /\ base = 1 /\ branch = 1

Write(p) ==
    \E f \in Files : files' = [files EXCEPT ![p] = f]

Erase(p) == files' = [files EXCEPT ![p] = None]

EraseAll(p) ==
    files' = [q \in Paths |-> IF q \in Below(p) THEN None ELSE files[q]]

Wipe == files' = [q \in Paths |-> None]

\* A file or a whole directory moves to where nothing is.
Move(src, dest) ==
    /\ \A q \in Below(dest) \ Below(src) : files[q] = None
    /\ files' = [q \in Paths |->
           IF q \in Below(dest) /\ Moved(q, dest, src) \in Paths
           THEN files[Moved(q, dest, src)]
           ELSE IF q \in Below(src) THEN None ELSE files[q]]

Edit ==
    /\ \/ \E p \in Paths : Write(p) \/ Erase(p) \/ EraseAll(p)
       \/ \E p, q \in Paths : p # q /\ Move(p, q)
       \/ Wipe
    /\ UNCHANGED <<snapshots, head, base, branch>>

NewCommit(parent, content) ==
    snapshots' = Append(snapshots,
        [files |-> content, past |-> snapshots[parent].past \cup {parent}])

\* A commit holds the working copy: every edit made so far and nothing else.
Commit ==
    /\ NewCommit(head, files)
    /\ head' = Len(snapshots')
    /\ UNCHANGED <<files, base, branch>>

\* The branch moves to the writer's last commit if nobody moved it before.
\* The writer may not learn of it.
Push ==
    /\ branch = base /\ head # base
    /\ branch' = head
    /\ base' \in {base, head}
    /\ UNCHANGED <<files, snapshots, head>>

\* Another client moves the branch to a commit of its own.
Foreign ==
    /\ \E content \in [Paths -> Files \cup {None}] : NewCommit(branch, content)
    /\ branch' = Len(snapshots')
    /\ UNCHANGED <<files, head, base>>

Next == Edit \/ Commit \/ Push \/ Foreign

Spec == Init /\ [][Next]_vars

=============================================================================
