---------------------------- MODULE MCCoordinator ----------------------------
(***************************************************************************)
(* Small instances of Coordinator. Two reservations of 1 or 2 against a     *)
(* limit of 2 let one be refused, both fit, or a commit meet the limit.     *)
(***************************************************************************)
EXTENDS Coordinator, TLC

MCAmounts == {-1, 1, 2}
MCSymmetry == Permutations(Session)
=============================================================================
