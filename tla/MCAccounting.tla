---------------------------- MODULE MCAccounting ----------------------------
(***************************************************************************)
(* A small instance of Accounting. The first request has an attempt that    *)
(* failed and one whose evidence comes in two generations; one evidence     *)
(* names a device, one recomputes, one is negative and one unsupported. The *)
(* prices are general, a device's, a resource's, one that lapses, and one   *)
(* so high that a cost no longer fits.                                     *)
(***************************************************************************)
EXTENDS Accounting

Acc == "ACCELERATOR_TIME"
Tra == "TRANSFER"

MCDenominator == (Acc :> 2) @@ (Tra :> 3)

Sent(r, a, gen, acc, tra, recompute, device, ok) ==
  [request |-> r, attempt |-> a, gen |-> gen, worker |-> 1, label |-> "MEASURED",
   usage |-> (Acc :> acc) @@ (Tra :> tra), recompute |-> recompute,
   device |-> device, resource |-> 0, is_completion |-> TRUE, completed_successfully |-> ok]

MCEvidence == {
  Sent(1, 1, 1, 5, 0, 0, 1, FALSE),
  Sent(1, 2, 1, 3, 0, 1, 0, FALSE),
  Sent(1, 2, 2, 1, 4, 0, 2, TRUE),
  Sent(1, 2, 3, -1, 0, 0, 0, TRUE),
  Sent(2, 1, 1, 0, 1, 0, 0, TRUE),
  [Sent(2, 2, 1, 1, 0, 0, 0, TRUE) EXCEPT !.label = "UNSUPPORTED"]}

Price(id, kind, amount, device, resource, to) ==
  [id |-> id, kind |-> kind, amount |-> amount, device |-> device, resource |-> resource,
   valid_from |-> 0, valid_to |-> to]

MCObservations == {
  Price(1, Acc, 3, 0, 0, 0), Price(1, Acc, 31, 0, 0, 0),
  Price(2, Acc, 5, 1, 0, 0), Price(2, Acc, 4, 0, 1, 0), Price(3, Tra, 4, 0, 0, 2)}
=============================================================================
