----------------------------- MODULE MCDispatch -----------------------------
(***************************************************************************)
(* A small instance of Dispatch. A dear and a cheap plan for two workers,    *)
(* which cost the same at the price zero; the first plan's id also comes     *)
(* with a broken SLO. Observations: one that is too old at the later time;  *)
(* one of the same id, another price and a worker's incarnation that is not  *)
(* yet in force at the earlier; and one that lapses in between, whose label  *)
(* no policy accepts.                                                       *)
(***************************************************************************)
EXTENDS Dispatch

CONSTANTS w1, w2

(* The first worker restarts; the second one only announces itself. *)
MCAnnounced == {<<w1, 1>>, <<w1, 2>>, <<w2, 1>>}

MCPlans == {
  [id |-> 1, worker |-> w1, units |-> 1, meets_hard_slo |-> TRUE, label |-> "POLICY",
   requests |-> 1, tokens |-> 0, completion_probability |-> 90],
  [id |-> 1, worker |-> w1, units |-> 1, meets_hard_slo |-> FALSE, label |-> "POLICY",
   requests |-> 1, tokens |-> 0, completion_probability |-> 90],
  [id |-> 2, worker |-> w2, units |-> 2, meets_hard_slo |-> TRUE, label |-> "POLICY",
   requests |-> 1, tokens |-> 0, completion_probability |-> 90]}

MCObservations == {
  [id |-> 1, amount |-> 0, label |-> "POLICY", valid_from |-> 0, valid_to |-> 0,
   observed_at |-> 1, worker |-> w1, boot |-> 0],
  [id |-> 1, amount |-> 1, label |-> "POLICY", valid_from |-> 2, valid_to |-> 0,
   observed_at |-> 3, worker |-> w1, boot |-> 1],
  [id |-> 2, amount |-> 1, label |-> "UNSUPPORTED", valid_from |-> 0, valid_to |-> 2,
   observed_at |-> 2, worker |-> w2, boot |-> 0]}
=============================================================================
