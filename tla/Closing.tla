------------------------------- MODULE Closing -------------------------------
(***************************************************************************)
(* The budgets of module Budget, with a note of those that have come to the  *)
(* end of their life. Two fences keep such a budget from being charged once  *)
(* its epoch is over: the terminal lifecycle, and the epoch. Each has a gap: *)
(* release assigns a lifecycle without looking at the one before             *)
(* (governor.cpp 261), and consume does not compare the budget's epoch with  *)
(* the coordinator's (governor.cpp 272).                                     *)
(***************************************************************************)
EXTENDS Budget

VARIABLE ended   \* history: the budgets that were EXHAUSTED or EXPIRED at some time

cvars == <<vars, ended>>

CInit == Init /\ ended = {}

CNext ==
  /\ Next
  /\ ended' = ended \cup {id \in DOMAIN budgets' : is_terminal(budgets'[id])}

CSpec == CInit /\ [][CNext]_cvars

(* A budget that was used up or has expired is not charged any more when its *)
(* epoch is over. This follows from README.md 79, "terminal lifecycles       *)
(* remain terminal" (test_property.cpp 99, "terminal cannot resurrect:       *)
(* further consume/reserve rejected"), and it follows as well from README.md *)
(* 113-114, "Stale actions are rejected without mutating state".             *)
EndedNeverCharged ==
  [][\A id \in ended :
       budgets[id].epoch # epoch => budgets'[id].consumed = budgets[id].consumed]_cvars
=============================================================================
