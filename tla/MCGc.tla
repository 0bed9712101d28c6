-------------------------------- MODULE MCGc --------------------------------
(* Small instances of Gc for TLC. *)
EXTENDS Gc

OptionalBudgets == {None, 0, 4}
OptionalLimits == {None, 1}
SmallTides == {-1, 0, 1}
=============================================================================
