--------------------------- MODULE MCPackfileWriter ---------------------------
(***************************************************************************)
(* Instances of PackfileWriter for TLC.                                    *)
(***************************************************************************)
EXTENDS PackfileWriter, TLC

\* One blob is as long as everything else together.
SmallAndLarge == [o \in AllObjects |-> IF o = "large" THEN 3 ELSE 1]

=============================================================================
