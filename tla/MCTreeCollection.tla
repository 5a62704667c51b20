-------------------------- MODULE MCTreeCollection --------------------------
(***************************************************************************)
(* Instances of TreeCollection for TLC.                                    *)
(***************************************************************************)
EXTENDS TreeCollection, TLC

\* A directory that is in the root and in another directory, with one below it.
Nested == [t \in Trees |-> CASE t = "root" -> {"a", "b"}
                             [] t = "a" -> {"b"}
                             [] t = "b" -> {"c"}
                             [] t = "c" -> {}]

=============================================================================
