------------------------------ MODULE BudgetOps ------------------------------
(***************************************************************************)
(* The critical sections of the budget operations of CostGovernor          *)
(* (src/src/governor.cpp), as functions of the budget b, the caller's      *)
(* reservation r, the governor's epoch e and the clock's reading t: what   *)
(* each returns and what it leaves in the budget and in the reservation.   *)
(* Every one of them runs under Impl::mtx, hence in one step.              *)
(***************************************************************************)
EXTENDS Integers

Mode == {"HARD", "SOFT", "ADVISORY"}

(* The lifecycles the governor assigns: CREATED, CANCELLED, SUPERSEDED and  *)
(* CLOSED are declared in budget.hpp and never assigned.                   *)
Lifecycle == {"ACTIVE", "RESERVED", "PARTIALLY_CONSUMED", "EXHAUSTED", "EXPIRED"}

ReservationState == {"ACTIVE", "COMMITTED", "RELEASED", "EXPIRED"}

Budget == [generation : Nat, epoch : Nat, mode : Mode, limit : Nat, expires_at : Nat,
           lifecycle : Lifecycle, reserved : Int, consumed : Int, released : Int]

(* Faulty variant: a budget whose limit is used up still counts as live. *)
is_live_when_exhausted(b) == b.lifecycle # "EXPIRED"

is_live(b) == b.lifecycle \in {"ACTIVE", "RESERVED", "PARTIALLY_CONSUMED"}

is_terminal(b) == b.lifecycle \in {"EXHAUSTED", "EXPIRED"}

remaining(b) == b.limit - b.consumed

(* expires_at_ms = 0 means never; x is a budget or a reservation. *)
lapsed(x, t) == x.expires_at # 0 /\ t > x.expires_at

(* Faulty variant: the amount to be charged is left out of the test. *)
over_hard_limit_no_amount(b, a) == b.mode = "HARD" /\ b.consumed > b.limit

(* A charge of a would take the budget over a limit that binds. *)
over_hard_limit(b, a) == b.mode = "HARD" /\ b.consumed + a > b.limit

(* Faulty variant: off by one at the limit. *)
lifecycle_after_charge_off_by_one(consumed, limit) ==
  IF consumed <= limit THEN "PARTIALLY_CONSUMED" ELSE "EXHAUSTED"

(* The lifecycle a charge leaves behind. *)
lifecycle_after_charge(consumed, limit) ==
  IF consumed < limit THEN "PARTIALLY_CONSUMED" ELSE "EXHAUSTED"
-----------------------------------------------------------------------------
(* Faulty variant: a negative amount is accepted. *)
reserve_status_no_sign(b, gen, ep, a, e, t) ==
  IF b.generation # gen \/ b.epoch # ep \/ b.epoch # e THEN "STALE_AUTHORITY"
  ELSE IF ~is_live(b) \/ lapsed(b, t) THEN "BUDGET_EXPIRED"
  ELSE IF b.reserved + a > b.limit THEN "BUDGET_EXCEEDED"
  ELSE "OK"

(* CostGovernor::reserve: the tests in the order of the code. *)
reserve_status(b, gen, ep, a, e, t) ==
  IF b.generation # gen \/ b.epoch # ep \/ b.epoch # e THEN "STALE_AUTHORITY"
  ELSE IF ~is_live(b) \/ lapsed(b, t) THEN "BUDGET_EXPIRED"
  ELSE IF a < 0 THEN "INVALID_INPUT"
  ELSE IF b.reserved + a > b.limit THEN "BUDGET_EXCEEDED"
  ELSE "OK"

(* A live budget that is found past its expiry is marked EXPIRED. *)
reserve_budget(b, gen, ep, a, e, t) ==
  LET st == reserve_status(b, gen, ep, a, e, t)
  IN  CASE st = "OK" -> [b EXCEPT !.reserved = @ + a, !.lifecycle = "RESERVED"]
        [] st = "BUDGET_EXPIRED" /\ is_live(b) -> [b EXCEPT !.lifecycle = "EXPIRED"]
        [] OTHER -> b

(* The reservation an accepted reserve hands out. *)
new_reservation(id, b, a) ==
  [budget |-> id, generation |-> b.generation, epoch |-> b.epoch, amount |-> a,
   expires_at |-> b.expires_at, state |-> "ACTIVE"]
-----------------------------------------------------------------------------
(* CostGovernor::commit. A reservation that is no longer ACTIVE is answered *)
(* OK and left alone.                                                      *)
commit_status(b, r, e, t) ==
  IF b.generation # r.generation \/ r.epoch # e \/ b.epoch # e THEN "STALE_AUTHORITY"
  ELSE IF r.state # "ACTIVE" THEN "OK"
  ELSE IF ~is_live(b) \/ lapsed(r, t) THEN "BUDGET_EXPIRED"
  ELSE IF over_hard_limit(b, r.amount) THEN "BUDGET_EXCEEDED"
  ELSE "OK"

(* Faulty variant: a commit repeated charges again. *)
commit_charges_again(b, r, e, t) == commit_status(b, r, e, t) = "OK"

commit_charges(b, r, e, t) == commit_status(b, r, e, t) = "OK" /\ r.state = "ACTIVE"

(* The commit came too late: the reservation gives its amount back. *)
commit_lapses(b, r, e, t) == commit_status(b, r, e, t) = "BUDGET_EXPIRED" /\ is_live(b)

commit_budget(b, r, e, t) ==
  CASE commit_charges(b, r, e, t) ->
         [b EXCEPT !.reserved = @ - r.amount, !.consumed = @ + r.amount,
                   !.lifecycle = lifecycle_after_charge(b.consumed + r.amount, b.limit)]
    [] commit_lapses(b, r, e, t) ->
         [b EXCEPT !.reserved = @ - r.amount, !.released = @ + r.amount]
    [] OTHER -> b

(* Faulty variant: the caller's reservation is not marked. *)
commit_state_unmarked(b, r, e, t) == r.state

commit_state(b, r, e, t) ==
  CASE commit_charges(b, r, e, t) -> "COMMITTED"
    [] commit_lapses(b, r, e, t)  -> "EXPIRED"
    [] OTHER -> r.state
-----------------------------------------------------------------------------
(* Faulty variant: the epoch is not compared. *)
release_status_no_epoch(b, r, e) ==
  IF b.generation # r.generation THEN "STALE_AUTHORITY" ELSE "OK"

(* CostGovernor::release. It tests neither the budget's epoch nor its       *)
(* lifecycle.                                                              *)
release_status(b, r, e) ==
  IF b.generation # r.generation \/ r.epoch # e THEN "STALE_AUTHORITY" ELSE "OK"

(* Faulty variant: what is not ACTIVE is returned again. *)
release_returns_again(b, r, e) == release_status(b, r, e) = "OK"

release_returns(b, r, e) == release_status(b, r, e) = "OK" /\ r.state = "ACTIVE"

(* any_active: the governor's own list of this budget's reservations holds  *)
(* one whose state is ACTIVE.                                              *)
release_budget(b, r, e, any_active) ==
  IF release_returns(b, r, e)
    THEN [b EXCEPT !.reserved = @ - r.amount, !.released = @ + r.amount,
                   !.lifecycle = IF any_active THEN "RESERVED"
                                 ELSE IF b.consumed = 0 THEN "ACTIVE"
                                 ELSE "PARTIALLY_CONSUMED"]
    ELSE b

release_state(b, r, e) == IF release_returns(b, r, e) THEN "RELEASED" ELSE r.state
-----------------------------------------------------------------------------
(* Faulty variant: the clock is not consulted. *)
consume_status_no_clock(b, gen, ep, a, t) ==
  IF b.generation # gen \/ b.epoch # ep THEN "STALE_AUTHORITY"
  ELSE IF ~is_live(b) THEN "BUDGET_EXPIRED"
  ELSE IF a < 0 THEN "INVALID_INPUT"
  ELSE IF over_hard_limit(b, a) THEN "BUDGET_EXCEEDED"
  ELSE "OK"

(* CostGovernor::consume. The caller's epoch is compared with the budget's, *)
(* not with the governor's.                                                *)
consume_status(b, gen, ep, a, t) ==
  IF b.generation # gen \/ b.epoch # ep THEN "STALE_AUTHORITY"
  ELSE IF ~is_live(b) THEN "BUDGET_EXPIRED"
  ELSE IF a < 0 THEN "INVALID_INPUT"
  ELSE IF lapsed(b, t) THEN "BUDGET_EXPIRED"
  ELSE IF over_hard_limit(b, a) THEN "BUDGET_EXCEEDED"
  ELSE "OK"

consume_budget(b, gen, ep, a, t) ==
  LET st == consume_status(b, gen, ep, a, t)
  IN  CASE st = "OK" ->
             [b EXCEPT !.consumed = @ + a,
                       !.lifecycle = lifecycle_after_charge(b.consumed + a, b.limit)]
        [] st = "BUDGET_EXPIRED" /\ is_live(b) -> [b EXCEPT !.lifecycle = "EXPIRED"]
        [] OTHER -> b
=============================================================================
