------------------------------- MODULE Totals -------------------------------
(***************************************************************************)
(* Sums of a sequence of amounts, and the sums a ledger is audited against. *)
(* Total is a recursive function, so that its properties can be proved     *)
(* (module TotalsProofs).                                                  *)
(***************************************************************************)
EXTENDS Integers, Sequences

(* c[1] + ... + c[n]. *)
Total(c, n) ==
  LET sum[i \in 0..n] == IF i = 0 THEN 0 ELSE sum[i - 1] + c[i]
  IN  sum[n]

(* What entry e contributes to budget id when its state is in S. *)
Share(e, id, S) == IF e.budget = id /\ e.state \in S THEN e.amount ELSE 0

(* The shares of the entries of seq. *)
Shares(seq, id, S) == [i \in 1..Len(seq) |-> Share(seq[i], id, S)]

(* Their sum. *)
SumIn(seq, id, S) == Total(Shares(seq, id, S), Len(seq))
=============================================================================
