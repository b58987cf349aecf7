------------------------------ MODULE Pricing ------------------------------
(***************************************************************************)
(* CostCalculator: the choice of a price and the cost of a set of attempts. *)
(* Prices are in the policy's currency and not negative, which publish_price *)
(* establishes. A device or resource 0 is none: it stands for any.          *)
(*                                                                         *)
(* The sums are of integers of any size: what MoneyMicros does when a sum   *)
(* does not fit is the subject of module Money.                            *)
(***************************************************************************)
EXTENDS Money, SequencesExt

CONSTANTS
  Kinds,         \* measurable components, each priced by its own kind of price
  Denominator,   \* units of a kind that its price is for
  Accelerator    \* the kind that recomputation is priced by

ASSUME PricingAssumption ==
  /\ IsFiniteSet(Kinds)
  /\ Denominator \in [Kinds -> Nat \ {0}]
  /\ Accelerator \in Kinds

PriceObservation ==
  [id : Nat, kind : Kinds, amount : Nat, device : Nat, resource : Nat,
   valid_from : Nat, valid_to : Nat]

denominator_for(kind) == Denominator[kind]

obs_applies(p, kind, t, dev, res) ==
  /\ p.kind = kind
  /\ p.valid_from <= t /\ (p.valid_to = 0 \/ t < p.valid_to)
  /\ dev # 0 /\ p.device # 0 => p.device = dev
  /\ res # 0 /\ p.resource # 0 => p.resource = res

(* Faulty variant: the last price that applies, however general it is. *)
find_price_last(obs, kind, t, dev, res) ==
  FoldLeftDomain(LAMBDA best, i : IF obs_applies(obs[i], kind, t, dev, res) THEN i ELSE best, 0, obs)

(* The index of the price to charge by, 0 if none applies: the first, unless *)
(* a later one has a device or a resource where the best so far has none.   *)
find_price(obs, kind, t, dev, res) ==
  LET best[n \in 0..Len(obs)] ==
        IF n = 0 THEN 0
        ELSE LET b == best[n - 1]
             IN  IF /\ obs_applies(obs[n], kind, t, dev, res)
                    /\ \/ b = 0
                       \/ obs[n].device # 0 /\ obs[b].device = 0
                       \/ obs[n].resource # 0 /\ obs[b].resource = 0
                 THEN n ELSE b
  IN  best[Len(obs)]

project_component(obs, kind, amount, t, dev, res) ==
  LET i == find_price(obs, kind, t, dev, res)
  IN  IF i = 0 THEN Thrown ELSE ceil_mul_div(amount, obs[i].amount, denominator_for(obs[i].kind))

(* The cost of an amount of evidence ev: nothing is asked for no amount. *)
priced(obs, t, ev, kind, amount) ==
  IF amount = 0 THEN Value(0)
  ELSE project_component(obs, kind, amount, t, ev.device, ev.resource)

measured(obs, t, ev, kind) == priced(obs, t, ev, kind, ev.usage[kind])

recomputed(obs, t, ev) == priced(obs, t, ev, Accelerator, ev.recompute)

failed(ev) == ev.is_completion /\ ~ev.completed_successfully

(* What the measured amounts of evidence ev cost. *)
measured_cost(obs, t, ev) == SumFunction([k \in Kinds |-> measured(obs, t, ev, k).value])

(* project of a set of evidence: a price that is missing or a cost that is  *)
(* too large for any of it throws. The component RETRY sums the failed      *)
(* attempts once more and is left out of the total.                        *)
components(obs, evs, t) ==
  [measured      |-> SumFunction([ev \in evs |-> measured_cost(obs, t, ev)]),
   retry         |-> SumFunction([ev \in {x \in evs : failed(x)} |-> measured_cost(obs, t, ev)]),
   recomputation |-> SumFunction([ev \in evs |-> recomputed(obs, t, ev).value])]

throws(obs, evs, t) ==
  \E ev \in evs : recomputed(obs, t, ev).thrown \/ \E k \in Kinds : measured(obs, t, ev, k).thrown

(* Faulty variant: every component is added up. *)
total_of_all(c) == c.measured + c.recomputation + c.retry

total(c) == c.measured + c.recomputation
=============================================================================
