----------------------------- MODULE MCRecovery -----------------------------
(***************************************************************************)
(* Small instances of Recovery: one session saving at a time, with crashes  *)
(* between all its steps, and two sessions saving concurrently.             *)
(***************************************************************************)
EXTENDS Recovery

MCAmounts == {-1, 1, 2}
=============================================================================
