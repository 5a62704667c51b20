--------------------------- MODULE MCPushTransport ----------------------------
(***************************************************************************)
(* PushTransport for TLC.  Its parameters are numbers and names of faults, *)
(* which the configurations give.                                          *)
(***************************************************************************)
EXTENDS PushTransport

=============================================================================
