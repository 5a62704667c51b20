---------------------------- MODULE MCCommitHistory ----------------------------
(* Repositories for TLC: one history of six commits in which files and a submodule are   *)
(* added, changed, moved and removed, a mode changes alone, a directory comes and goes   *)
(* and not all commits were created when they were written; and pairs of commits with    *)
(* all trees of some files.                                                              *)
EXTENDS CommitHistory, TLC

Order == << <<"a">>, <<"b">>, <<"b", "a">>, <<"b", "b">>, <<"c">> >>

\* Blanks in a name are shown as "_".
Blanks == ("_" :> "") @@ ("_a" :> "a") @@ ("b_" :> "b")

Entry(path, type, mode, hash) == [path |-> path, type |-> type, mode |-> mode, hash |-> hash]
\* Contents, which have a hash: files, one of which may be executed, and a submodule's commits.
Contents == ("x" :> <<"blob", "644", "x">>) @@ ("y" :> <<"blob", "644", "y">>)
            @@ ("z" :> <<"blob", "644", "z">>) @@ ("x755" :> <<"blob", "755", "x">>)
            @@ ("y755" :> <<"blob", "755", "y">>)
            @@ ("s1" :> <<"commit", "160000", "s1">>) @@ ("s2" :> <<"commit", "160000", "s2">>)
\* The tree that has these, functions from paths to contents.
TreeOf(files) ==
    LET dirs == {<<p[1]>> : p \in {p \in DOMAIN files : Len(p) = 2}}
        file(p) == LET f == Contents[files[p]] IN Entry(p, f[1], f[2], f[3])
        below(p) == {[path |-> q, hash |-> files[q]] : q \in {q \in DOMAIN files : IsStrictPrefix(p, q)}}
        dir(p) == Entry(p, "tree", "dir", ToString(Sorted(below(p))))
    IN  {file(p) : p \in DOMAIN files} \cup {dir(p) : p \in dirs}

Commit(parent, time, created, files) ==
    [parent |-> parent, time |-> time, created |-> created, tree |-> TreeOf(files)]

Log6 ==
    ("c1" :> Commit(NoCommit, 1, 1, <<"a">> :> "x"))
    @@ ("c2" :> Commit("c1", 2, 2, (<<"a">> :> "x") @@ (<<"b", "a">> :> "y")))
    @@ ("c3" :> Commit("c2", 4, 4, (<<"a">> :> "z") @@ (<<"b", "a">> :> "y")))
    @@ ("c4" :> Commit("c3", 3, 4, (<<"a">> :> "z") @@ (<<"b", "b">> :> "y")))
    @@ ("c5" :> Commit("c4", 5, 5, (<<"a">> :> "z") @@ (<<"b", "b">> :> "y755") @@ (<<"c">> :> "s1")))
    @@ ("c6" :> Commit("c5", 5, 6, (<<"a">> :> "z") @@ (<<"c">> :> "s2")))

\* No path is both a file and a directory.
FileSets == {ps \in SUBSET {Order[i] : i \in 1 .. 4} :
                \A p, q \in ps : ~IsStrictPrefix(p, q)}
Pair2 ==
    LET all == {f \in UNION {[ps -> {"x", "y", "s1"}] : ps \in FileSets} :
                   /\ <<"a">> \in DOMAIN f => f[<<"a">>] = "x"
                   /\ \A p \in DOMAIN f : f[p] = "s1" => p = <<"b", "b">>}
        \* In the second commit <<"a">> may be executed.
        Executable(f) == [p \in DOMAIN f |-> IF p = <<"a">> THEN "x755" ELSE f[p]]
    IN  {("c1" :> Commit(NoCommit, 1, 1, f)) @@ ("c2" :> Commit("c1", 2, 2, Executable(g))) :
            f, g \in all}

Get(c, cached) == [op |-> "get", repo |-> Log6, cached |-> cached, commit |-> c]
List(start, perPage, path, since, until, cached) ==
    [op |-> "list", repo |-> Log6, cached |-> cached, start |-> start, perPage |-> perPage,
     path |-> path, since |-> since, until |-> until]
ByPathOf(wants, commit, path) ==
    [op |-> "path", repo |-> Log6, cached |-> {}, commit |-> commit, wants |-> wants, path |-> path]
Compare(r, detectRenames) ==
    [op |-> "compare", repo |-> r, cached |-> {}, base |-> "c1", head |-> "c2",
     detectRenames |-> detectRenames]
SomeCalls ==
    {Get("c2", cached) : cached \in {{}, {"c1", "c2"}}}
        \cup {List(start, perPage, path, times[1], times[2], cached) :
                 start \in {"c3", "c6"}, perPage \in {-1, 1}, times \in {<<0, 0>>, <<2, 4>>, <<4, 5>>},
                 path \in {<<>>, <<"a">>, <<"b_">>, <<"b", "a">>, <<"a", "a">>, <<"b", "">>,
                           <<"b", "b">>, <<"c">>},
                 cached \in {{"c1", "c3"}}}
        \cup {List("c6", 9, path, 0, 0, {}) : path \in {<<>>, <<"b">>}}
        \cup {ByPathOf(wants, commit, path) :
                 wants \in {"blob", "tree"}, commit \in {"c3", "c6"},
                 path \in UNION {[1 .. n -> {"a", "b", "c", "", ".", "_", "_a", "b_"}] : n \in 0 .. 2}
                            \cup [1 .. 3 -> {"a", "b", "", "b_"}]}
        \cup {Compare(r, detectRenames) : r \in Pair2, detectRenames \in BOOLEAN}
=============================================================================
