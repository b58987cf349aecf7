----------------------------- MODULE MCSessions -----------------------------
(***************************************************************************)
(* A small instance of Sessions: one plan, one observation that may be       *)
(* published again with another price.                                      *)
(***************************************************************************)
EXTENDS Sessions

CONSTANTS w1

MCAnnounced == {<<w1, 1>>, <<w1, 2>>}

MCPlans == {
  [id |-> 1, worker |-> w1, units |-> 1, meets_hard_slo |-> TRUE, label |-> "POLICY",
   requests |-> 1, tokens |-> 0, completion_probability |-> 90]}

MCObservations == {
  [id |-> 1, amount |-> a, label |-> "POLICY", valid_from |-> 0, valid_to |-> 0,
   observed_at |-> 1, worker |-> w1, boot |-> 0] : a \in {1, 2}}
=============================================================================
