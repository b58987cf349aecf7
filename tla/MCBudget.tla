------------------------------- MODULE MCBudget -------------------------------
(***************************************************************************)
(* Small instances of Budget: see the .cfg files. Amounts of 1 and 2        *)
(* against limits of 1 and 2 make the limit both met exactly and exceeded;   *)
(* -1 is the negative amount every operation refuses.                       *)
(***************************************************************************)
EXTENDS Budget, TLC

MCLimits == {-1, 2}
MCAmounts == {-1, 1, 2}
=============================================================================
