---------------------------- MODULE MCConnection ----------------------------
(* Connection on small instances; the .cfg files choose the environment.   *)
EXTENDS Connection, TLC

Symmetry == Permutations(Users)

=============================================================================
