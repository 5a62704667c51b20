-------------------------------- MODULE TreeDiff --------------------------------
(***************************************************************************)
(* The comparison of two flat trees (commit.go): what was added, modified  *)
(* and deleted, and which of it are renames.                               *)
(*                                                                         *)
(* Data abstraction.  A tree is the set of its entries at any depth, each  *)
(* with a path, a type, a mode and a hash; a submodule has type "commit".  *)
(* A path is a sequence of names; PathOrder lists the paths as the sorts   *)
(* of the code do.                                                         *)
(***************************************************************************)
EXTENDS Naturals, Sequences, SequencesExt, FiniteSetsExt

CONSTANT PathOrder

OrderAssumption ==
    /\ PathOrder \in Seq(Seq(STRING))
    /\ \A i, j \in DOMAIN PathOrder : PathOrder[i] = PathOrder[j] => i = j
ASSUME OrderAssumption

Rank(path) == CHOOSE i \in DOMAIN PathOrder : PathOrder[i] = path
\* sort.Slice by path, which leaves the order of equal paths open.
Foremost(changes) == CHOOSE c \in changes : \A d \in changes : Rank(c.path) <= Rank(d.path)
Sorted(changes) ==
    LET sorted[S \in SUBSET changes] ==
            IF S = {} THEN <<>> ELSE <<Foremost(S)>> \o sorted[S \ {Foremost(S)}]
    IN  sorted[changes]

\* What GetTree and GetFlatTree keep of a tree: submodules are left out.
Entries(tree) == {e \in tree : e.type # "commit"}
PathsOf(tree) == {e.path : e \in Entries(tree)}
EntryAt(tree, path) == CHOOSE e \in Entries(tree) : e.path = path

\* CommitFile.  What a change has no use for is what the code's zero value stands for.
CommitFile(status, path, e, oldPath, old) ==
    [status |-> status, path |-> path, mode |-> e.mode, hash |-> e.hash, type |-> e.type,
     oldPath |-> oldPath, oldMode |-> old.mode, oldHash |-> old.hash, oldType |-> old.type]
Nothing == [mode |-> "none", hash |-> "none", type |-> "none"]

Added(base, head) ==
    {CommitFile("added", e.path, e, "none", Nothing) :
        e \in {e \in Entries(head) : e.path \notin PathsOf(base)}}
Modified(base, head) ==
    {CommitFile("modified", e.path, e, "none", EntryAt(base, e.path)) :
        e \in {e \in Entries(head) :
                  /\ e.path \in PathsOf(base)
                  /\ EntryAt(base, e.path).hash # e.hash
                  /\ e.type # "tree"}}
Deleted(base, head) ==
    {CommitFile("deleted", e.path, e, "none", [Nothing EXCEPT !.hash = e.hash, !.type = e.type]) :
        e \in {e \in Entries(base) : e.path \notin PathsOf(head)}}

-----------------------------------------------------------------------------
(* detectRenames: deletions and additions of one hash, each in the order   *)
(* of their paths, in pairs for as long as there are some of both.         *)
With(changes, status, hash) == Sorted({c \in changes : c.status = status /\ c.hash = hash})

Pair(deleted, added) ==
    CommitFile("renamed", added.path, added, deleted.path,
               [mode |-> deleted.mode, hash |-> deleted.oldHash, type |-> deleted.oldType])

\* (Mutant: as many pairs as there are additions, the last deletion again and again.)
PairsOfAdded(changes, hash) ==
    LET deleted == With(changes, "deleted", hash)
        added   == With(changes, "added", hash)
    IN  IF deleted = <<>> THEN {}
        ELSE {Pair(deleted[IF i < Len(deleted) THEN i ELSE Len(deleted)], added[i]) : i \in DOMAIN added}
Pairs(changes, hash) ==
    LET deleted == With(changes, "deleted", hash)
        added   == With(changes, "added", hash)
    IN  {Pair(deleted[i], added[i]) : i \in DOMAIN deleted \cap DOMAIN added}

DetectRenames(changes) ==
    LET renames == UNION {Pairs(changes, h) : h \in {c.hash : c \in changes}}
    IN  renames \cup
        {c \in changes :
            /\ c.status = "deleted" => \A r \in renames : r.oldPath # c.path
            /\ c.status = "added" => \A r \in renames : r.path # c.path}

\* compareTrees
CompareTrees(base, head, detectRenames) ==
    LET changes == Added(base, head) \cup Modified(base, head) \cup Deleted(base, head)
    IN  Sorted(IF detectRenames THEN DetectRenames(changes) ELSE changes)

-----------------------------------------------------------------------------
\* The files of a tree, neither directories nor submodules, and what a list of changes makes
\* of them.
Files(tree) ==
    {<<e.path, e.hash, e.mode>> : e \in {e \in Entries(tree) : e.type # "tree"}}
Patch(files, changes) ==
    LET cs == {changes[i] : i \in {i \in DOMAIN changes : changes[i].type # "tree"}}
        gone == {c.path : c \in {c \in cs : c.status \in {"deleted", "modified"}}}
                    \cup {c.oldPath : c \in {c \in cs : c.status = "renamed"}}
    IN  {f \in files : f[1] \notin gone}
            \cup {<<c.path, c.hash, c.mode>> : c \in {c \in cs : c.status # "deleted"}}

\* The paths of which the code says nothing although its docs say it does (AllReported): of
\* files that became directories, and of files whose mode alone changed.
Exempt(base, head) ==
    {e.path : e \in {e \in Entries(base) :
        /\ e.type # "tree"
        /\ \E f \in Entries(head) :
               f.path = e.path /\ (f.type = "tree" \/ (f.hash = e.hash /\ f.mode # e.mode))}}
Demanded(files, base, head) == {f \in files : f[1] \notin Exempt(base, head)}

\* But for the exempt paths, for which they may say what they like, the changes turn the
\* files of the base into those of the head.  There is one for each path, none for what both
\* trees have alike, no path is renamed twice, and with the detection of renames no deletion
\* and addition of one content are left.
AddUp(base, head, detectRenames, changes) ==
    LET cs == {changes[i] : i \in DOMAIN changes}
        olds == [i \in {i \in DOMAIN changes : changes[i].status = "renamed"} |-> changes[i].oldPath]
    IN  /\ Demanded(Patch(Files(base), changes), base, head) = Demanded(Files(head), base, head)
        /\ \A c \in cs, e \in Entries(base) \cap Entries(head) :
               c.path # e.path /\ (c.status = "renamed" => c.oldPath # e.path)
        /\ \A i, j \in DOMAIN changes : i < j => Rank(changes[i].path) < Rank(changes[j].path)
        /\ \A i, j \in DOMAIN olds : olds[i] = olds[j] => i = j
        /\ detectRenames =>
               ~\E c, d \in cs : c.status = "deleted" /\ d.status = "added" /\ c.hash = d.hash
=============================================================================
