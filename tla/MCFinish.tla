------------------------------ MODULE MCFinish ------------------------------
(* Small instances of Finish for TLC. *)
EXTENDS Finish, TLC

CONSTANTS b1, b2, f1, f2, f3, f4

Symmetric == Permutations({b1, b2}) \cup Permutations({f1, f2, f3, f4})
=============================================================================
