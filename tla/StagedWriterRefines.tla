-------------------------- MODULE StagedWriterRefines --------------------------
(***************************************************************************)
(* The staged writer implements StagedChanges: read through the refinement *)
(* mapping below, every step of it is a step of that module or changes     *)
(* nothing there.                                                          *)
(***************************************************************************)
EXTENDS StagedWriter

FileOf(entry) == IF entry.type \in {"blob", "commit"} THEN entry.hash ELSE Zero

WorkingCopy ==
    [p \in Paths |-> FileOf(Child(treeEntries, submoduleEntries, p))]

SnapshotOf(i) ==
    [files |-> [p \in Paths |-> FileOf(Resolve(commits[i].tree, p))],
     past  |-> commits[i].past]

Abstract == INSTANCE StagedChanges WITH
    Files     <- {Blob(c) : c \in Contents} \cup {Gitlink(l) : l \in Links},
    files     <- WorkingCopy,
    snapshots <- [i \in 1 .. numCommits |-> SnapshotOf(i)],
    head      <- lastCommit,
    base      <- refHash,
    branch    <- remoteRef

\* A commit contains exactly what was staged, an edit changes exactly the
\* files its API call names, and the branch moves to the writer's last commit
\* in one step from the value the writer knew.
ImplementsStagedChanges == Abstract!Spec

-----------------------------------------------------------------------------
(***************************************************************************)
(* What the documentation and the comments of the repository say.  Each    *)
(* holds for a caller that follows the disciplines of StagedWriter, or for *)
(* none; the violation runs drop one discipline at a time.                 *)
(***************************************************************************)

\* writer.go:856: Commit takes all the changes that have been staged and
\* creates a single commit containing all of them; making the commit changes
\* nothing of what is staged.
CommitHoldsWhatIsStaged ==
    [][/\ phase = "building" => WorkingCopy' = WorkingCopy
       /\ lastCommit' # lastCommit =>
            \A p \in Paths :
                FileOf(Resolve(commits'[lastCommit'].tree, p)) = WorkingCopy[p]]_vars

\* writer.go:1007, docs/guides/writing.md:89: a failed Push can be retried
\* with the same staged objects.  If no other client moves the branch and the
\* caller retries for ever, the push gets through in the end.
FairSpec == Spec /\ WF_vars(Commit) /\ WF_vars(PushAccepted)

RetrySucceeds == packCommits # {} ~> packCommits = {}

=============================================================================
