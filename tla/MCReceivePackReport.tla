-------------------------- MODULE MCReceivePackReport --------------------------
(* Reports for TLC: none, good ones, refusals of all or of one reference, and *)
(* one that does not say what became of the objects.                          *)
EXTENDS ReceivePackReport

Some == {<<>>, <<"unpackOk">>, <<"unpackOk", "okRef">>, <<"unpackOk", "ngRef">>,
         <<"unpackBad", "ngRef">>, <<"okRef">>}
=============================================================================
