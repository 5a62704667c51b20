-------------------------------- MODULE MCFetch --------------------------------
(* Packs for TLC: a blob, a chain of two deltas on it, a tree, and a delta whose *)
(* base only a storage may have; and entries that are not as they should be.     *)
EXTENDS Fetch

Blob(data) == [type |-> "blob", data |-> data]
B1 == Blob(<<"a", "b">>)
B2 == Blob(<<"b", "c">>)
B3 == Blob(<<"b", "c", "b", "c">>)
T1 == [type |-> "tree", data |-> <<"t">>]
B0 == Blob(<<"z">>)

Plain(o) == [kind |-> "plain", base |-> o, payload |-> <<>>]
Delta(base, source, target, cmds) ==
    [kind |-> "delta", base |-> base,
     payload |-> [source |-> source, target |-> target, cmds |-> cmds]]
Unread(kind) == [kind |-> kind, base |-> B0, payload |-> <<>>]

D2 == Delta(B1, 2, 2, <<Copy(1, 1), Add(<<"c">>)>>)
D3 == Delta(B2, 2, 4, <<Copy(0, 2), Copy(0, 0)>>)
D0 == Delta(B0, 1, 1, <<Add(<<"y">>)>>)

Good == {Plain(B1), Plain(T1), D2, D3}
Bad  == {Unread("unsupported"), Unread("garbled"),
         Delta(B1, 2, 2, <<Copy(1, 2)>>),              \* copies beyond the source
         Delta(B1, 2, 1, <<Copy(0, 1), Add(<<"x">>)>>),  \* has more than its target
         Delta(B1, 2, 3, <<Copy(0, 2), Copy(0, 2)>>),  \* overfills its target
         Delta(B1, 3, 1, <<Copy(2, 1)>>),              \* is for another source
         Delta(B1, 2, 1, <<Odd("reserved")>>),
         Delta(B1, 2, 3, <<Copy(0, 2)>>)}              \* has less than its target
SomePacks ==
    UNION {[1 .. n -> Good] : n \in 0 .. 3}
        \cup {<<Plain(T1), D3, D2, Plain(B1)>>, <<D0>>, <<D0, Plain(Blob(<<"y">>))>>, <<D0, Plain(B1)>>, <<D2, D0, Plain(B1)>>}
        \cup {<<Plain(B1), b>> : b \in Bad} \cup {<<b, Plain(B1), Plain(T1)>> : b \in Bad}
SomeWants == {<<B1>>, <<B2>>, <<B1, T1>>, <<T1, T1>>}
SomeOthers == {B0, B2}
SomeCaches == {{}, {B0, T1}}
=============================================================================
