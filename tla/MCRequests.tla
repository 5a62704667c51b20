------------------------------ MODULE MCRequests ------------------------------
(* Servers for TLC: of both versions and of none, that allow, forbid or hide *)
(* the repository, with and without references.                              *)
EXTENDS Requests

Server(version, readStatus, writeStatus, refs) ==
    [version |-> version, readStatus |-> readStatus, writeStatus |-> writeStatus,
     refs |-> refs, caps |-> <<"report-status", "agent">>]

SomeServers ==
    {Server("v2", "200", w, <<"HEAD", "main", "dev">>) : w \in {"200", "401", "403", "404"}}
        \cup {Server("v1", "200", "200", <<"main">>), Server("v2", "200", "200", <<>>),
              Server("other", "200", "200", <<>>)}
        \cup {Server("v2", r, r, <<"main">>) : r \in {"401", "403", "404"}}
=============================================================================
