-------------------------------- MODULE MCClone --------------------------------
(* Calls for TLC: every documented pattern of up to three segments in a call without *)
(* faults to speak of, and trees of up to five blobs with batches and concurrency.   *)
EXTENDS Clone

\* What the patterns mean is a premise of CloneProofs, and is checked here.
ASSUME FilterIsRight == FilterRight

Entry(path, type, hash) == [path |-> path, type |-> type, hash |-> hash]
Tree == <<Entry(<<"a">>, "tree", "t1"), Entry(<<"a", "a">>, "tree", "t2"),
          Entry(<<"a", "a", "b">>, "blob", "h1"), Entry(<<"a", "b">>, "blob", "h2"),
          Entry(<<"b">>, "blob", "h1"), Entry(<<"c">>, "submodule", "s1"),
          Entry(<<"d">>, "tree", "t3"), Entry(<<"d", "a">>, "blob", "h3"),
          Entry(<<"d", "b">>, "blob", "h4")>>

\* The patterns that the options' comments and the tests show: what comes before "**" has no
\* wildcards, but for "**/dir/**", and what comes after a directory and "**" names more than
\* any one segment.
Patterns == UNION {[1 .. n -> {"a", "b", "*", "**"}] : n \in 1 .. 3}
Documented(p) ==
    \/ \A i \in DOMAIN p : p[i] # "**"
    \/ p[1] = "**" /\ Len(p) > 1 /\ \A i \in 2 .. Len(p) : p[i] # "**"
    \/ p[1] = "**" /\ Len(p) > 2 /\ p[Len(p)] = "**" /\ \A i \in 2 .. Len(p) - 1 : p[i] \notin Wild
    \/ \E k \in 2 .. Len(p) :
          /\ p[k] = "**" /\ \A i \in 1 .. k - 1 : p[i] \notin Wild
          /\ \A i \in k + 1 .. Len(p) : p[i] # "**"
          /\ ~(k + 1 = Len(p) /\ p[k + 1] = "*")

Call(include, exclude, batchSize, concurrency) ==
    [tree |-> Tree, include |-> include, exclude |-> exclude, batchSize |-> batchSize,
     concurrency |-> concurrency]
SomeCalls ==
    {Call({p}, {}, 4, 1) : p \in {p \in Patterns : Documented(p)}}
        \cup {Call({<<"a", "**">>, <<"b">>}, {p}, 4, 1) : p \in {p \in Patterns : Documented(p)}}
        \cup {Call({}, {}, size, conc) : size \in {1, 2, 3}, conc \in {0, 2}}
SomeCaches == {{}, {"h2"}, {"h1", "h3"}}
SomeDisks == {<<>>, (<<"b">> :> "old") @@ (<<"e">> :> "mine")}
=============================================================================
