---------------------------- MODULE MCReferences ----------------------------
(* Clients and servers for TLC.  A client that does not negotiate asks for  *)
(* the report of its updates, and every server can make it.                 *)
EXTENDS References

Clients == {[wanted |-> {}, negotiate |-> FALSE], [wanted |-> {"quiet"}, negotiate |-> TRUE]}
Servers == {{"report-status-v2", "quiet"}, {"report-status-v2"}}
Defaults == {"report-status-v2", "agent", "quiet"}
=============================================================================
