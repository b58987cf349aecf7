------------------------------ MODULE Dispatch ------------------------------
(***************************************************************************)
(* Cost decisions and their revalidation before dispatch: evaluate and      *)
(* validate_for_dispatch of CostGovernor, between the operations that make  *)
(* a decision stale (publish_price, set_price_schedule, set_policy,         *)
(* advance_epoch, set_worker_boot, a charge to the budget, the clock).      *)
(* Each runs under Impl::mtx and is one action.                             *)
(*                                                                         *)
(* One kind of cost is priced, in the policy's currency and for any device; *)
(* a plan uses some units of it. One hard budget exists. validate changes   *)
(* no state: it is the operator validate_status, and properties say what it *)
(* would answer in every state and for every list of candidates.           *)
(***************************************************************************)
EXTENDS Integers, FiniteSets, SequencesExt

CONSTANTS
  Caller,            \* those who ask for decisions and hold on to them
  Worker,            \* workers
  Boots,             \* incarnations of workers; 0 is none
  Announced,         \* the incarnations each worker may announce
  Plans,             \* the plans that may be proposed
  Observations,      \* the price observations that may be published
  PolicyGenerations, \* generations of cost policies
  Times,             \* readings of the clock
  MaxAge,            \* policy.max_evidence_age_ms; 0 is no limit
  MaxScheduleAge,    \* policy.price_schedule_max_age_ms; 0 is no limit
  Limit,             \* limit of the hard budget
  MaxCandidates,     \* bound on the plans of one request
  MaxInstalled,      \* bound on the observations of a schedule that is installed whole
  MaxEpoch,          \* bound on the coordinator epoch
  MaxGeneration      \* bound on the generation of the price schedule

ASSUME DispatchAssumption ==
  /\ Boots \subseteq Nat \ {0} /\ Times \subseteq Nat /\ PolicyGenerations \subseteq Nat
  /\ Announced \subseteq Worker \X Boots
  /\ MaxAge \in Nat /\ MaxScheduleAge \in Nat /\ Limit \in Nat
  /\ MaxCandidates \in Nat /\ MaxInstalled \in Nat /\ MaxEpoch \in Nat \ {0} /\ MaxGeneration \in Nat \ {0}
  /\ \A p \in Plans :
       p \in [id : Nat, worker : Worker, units : Nat, meets_hard_slo : BOOLEAN,
              label : {"POLICY", "UNSUPPORTED"}, requests : Nat, tokens : Nat,
              completion_probability : 0..100]
  /\ \A o \in Observations :
       o \in [id : Nat, amount : Nat, label : {"POLICY", "UNSUPPORTED"},
              valid_from : Nat, valid_to : Nat, observed_at : Nat,
              worker : Worker, boot : Boots \cup {0}]

VARIABLES
  epoch,               \* Impl::epoch
  policy_generation,   \* Impl::policy.generation
  revalidation_needed, \* Impl::revalidation_needed
  generation,          \* Impl::schedule.generation
  created_at,          \* Impl::schedule.created_at_ms
  observations,        \* Impl::schedule.observations
  worker_boots,        \* Impl::worker_boots
  consumed,            \* what is charged to the hard budget
  now,                 \* what clock->now_ms() returns
  decision,            \* the decision each caller was last given
  since                \* history: what happened after the decision a caller holds

authority == <<epoch, policy_generation, revalidation_needed>>
schedule  == <<generation, created_at, observations>>
vars == <<authority, schedule, worker_boots, consumed, now, decision, since>>

Epochs == 1..MaxEpoch

(* The lists of candidates a request may bring; two may have one id. *)
Candidates == {L \in BoundedSeq(Plans, MaxCandidates) : IsInjective(L)}

(* The schedules a caller of set_price_schedule may bring; the ids of their *)
(* observations are not compared.                                          *)
Schedules == BoundedSeq(Observations, MaxInstalled)

(* What a caller holds before its first decision. *)
Undecided == [kind |-> "NO_FEASIBLE_PLAN"]

AuthorityContext ==
  [epoch : Epochs, policy_generation : PolicyGenerations, price_generation : 1..MaxGeneration,
   worker : Worker, boot : Boots \cup {0}]

CostDecision ==
  [kind : {"REVALIDATE", "NO_FEASIBLE_PLAN"}] \cup
  [kind : {"AUTHORIZE"}, plan : Nat, total : Nat, authority : AuthorityContext]

(* Nothing, a price published or the epoch or the policy set, or a whole    *)
(* schedule installed.                                                     *)
Since == {"nothing", "change", "install"}

TypeOK ==
  /\ epoch \in Epochs /\ policy_generation \in PolicyGenerations
  /\ revalidation_needed \in BOOLEAN
  /\ generation \in 1..MaxGeneration
  /\ observations \in Seq(Observations)
  /\ worker_boots \in [Worker -> Boots \cup {0}]
  /\ consumed \in 0..Limit
  /\ now \in Times /\ created_at \in Times
  /\ decision \in [Caller -> CostDecision]
  /\ \A c \in Caller :
       decision[c].kind = "AUTHORIZE" =>
         \E p \in Plans : decision[c].plan = p.id /\ decision[c].authority.worker = p.worker
  /\ since \in [Caller -> Since]
-----------------------------------------------------------------------------
current_boot_for(w) == worker_boots[w]

in_interval(o, t) == o.valid_from <= t /\ (o.valid_to = 0 \/ t < o.valid_to)

(* accepts_label for a policy that allows every kind of evidence. *)
accepts_label(l) == l # "UNSUPPORTED"

(* The observation check_price tests: the first in force whose label the    *)
(* policy accepts; 0 when there is none.                                   *)
check_price == SelectInSeq(observations, LAMBDA o : in_interval(o, now) /\ accepts_label(o.label))

(* The schedule or the observation is too old. Publishing a price does not  *)
(* make the schedule younger.                                              *)
price_stale(i) ==
  \/ MaxScheduleAge > 0 /\ now - created_at > MaxScheduleAge
  \/ MaxAge > 0 /\ now - observations[i].observed_at > MaxAge

(* The observation CostCalculator::project charges by: the first in force;  *)
(* it is not given the policy.                                             *)
find_price == SelectInSeq(observations, LAMBDA o : in_interval(o, now))

amount_present(p) == p.units # 0

(* The evidence that stands for a plan when its cost is projected: of its    *)
(* amounts (times, bytes, energy, recomputation) the one that is priced.    *)
plan_to_evidence(p) == [units |-> p.units]

total(p) ==
  IF ~amount_present(p) THEN 0
  ELSE plan_to_evidence(p).units * observations[find_price].amount

(* With one kind of cost, a price that passes check_price is one project     *)
(* finds: the MISSING_PRICE it may throw, which becomes                     *)
(* INSUFFICIENT_EVIDENCE here, does not come up.                            *)
evaluate_plan(p) ==
  IF p.label = "UNSUPPORTED" THEN "UNKNOWN"
  ELSE IF ~p.meets_hard_slo THEN "INFEASIBLE"
  ELSE IF revalidation_needed THEN "REVALIDATION_REQUIRED"
  ELSE IF amount_present(p) /\ check_price = 0 THEN "INSUFFICIENT_EVIDENCE"
  ELSE IF amount_present(p) /\ price_stale(check_price) THEN "REVALIDATION_REQUIRED"
  ELSE IF total(p) > Limit - consumed THEN "INFEASIBLE"
  ELSE "FEASIBLE"

(* projected_per_request and projected_per_token: a share, rounded up. *)
per(cost, n) == IF n > 0 THEN (cost + n - 1) \div n ELSE 0

(* What evaluate compares plans by, in this order. The energy and transfer  *)
(* components are unknown here and count as zero; the one that is priced is *)
(* the total.                                                              *)
keys(p) ==
  LET cost == total(p)
  IN  <<cost, per(cost, p.requests), per(cost, p.tokens), -p.completion_probability, p.id>>

(* Faulty variant: plans that cost the same are left in the order given. *)
better_by_cost(p, q) == total(p) < total(q)

better(p, q) ==
  LET kp == keys(p)
      kq == keys(q)
  IN  \E i \in 1..5 : kp[i] < kq[i] /\ \A j \in 1..(i - 1) : kp[j] = kq[j]

feasible(L) == {p \in Range(L) : evaluate_plan(p) = "FEASIBLE"}

(* The front of the feasible candidates after the stable sort: the first,   *)
(* in the order of L, that no other is better than.                        *)
front(L) ==
  L[SelectInSeq(L, LAMBDA p : p \in feasible(L) /\ \A q \in feasible(L) : ~better(q, p))]

authority_snapshot_from(p) ==
  [epoch |-> epoch, policy_generation |-> policy_generation, price_generation |-> generation,
   worker |-> p.worker, boot |-> current_boot_for(p.worker)]

evaluate(L) ==
  IF revalidation_needed THEN [kind |-> "REVALIDATE"]
  ELSE IF feasible(L) = {} THEN [kind |-> "NO_FEASIBLE_PLAN"]
  ELSE LET best == front(L)
       IN  [kind |-> "AUTHORIZE", plan |-> best.id, total |-> total(best),
            authority |-> authority_snapshot_from(best)]

(* validate_for_dispatch of decision d, with the candidates L: the first    *)
(* that has the decision's id is judged. The budget is tested once more     *)
(* after evaluate_plan has done so.                                        *)
validate_status(d, L) ==
  IF d.kind # "AUTHORIZE" THEN "OK"
  ELSE IF \/ d.authority.epoch # epoch
          \/ d.authority.policy_generation # policy_generation
          \/ d.authority.price_generation # generation
          \/ d.authority.boot # current_boot_for(d.authority.worker) THEN "STALE_AUTHORITY"
  ELSE IF revalidation_needed THEN "STALE_EVIDENCE"
  ELSE LET i == SelectInSeq(L, LAMBDA p : p.id = d.plan)
       IN  IF i = 0 THEN "PLAN_SUPERSEDED"
           ELSE IF evaluate_plan(L[i]) # "FEASIBLE" THEN "PLAN_INFEASIBLE"
           ELSE IF total(L[i]) > Limit - consumed THEN "BUDGET_EXCEEDED"
           ELSE "OK"
-----------------------------------------------------------------------------
Init ==
  /\ epoch = 1 /\ policy_generation \in PolicyGenerations
  /\ revalidation_needed = FALSE
  /\ generation = 1 /\ observations = <<>>
  /\ worker_boots = [w \in Worker |-> 0]
  /\ consumed = 0
  /\ now \in Times /\ created_at = now
  /\ decision = [c \in Caller |-> Undecided]
  /\ since = [c \in Caller |-> "nothing"]

(* The history: this happened to every authorization that is held. *)
Happened(what) ==
  since' = [c \in Caller |->
              IF decision[c].kind = "AUTHORIZE" /\ since[c] # "install" THEN what ELSE since[c]]

Evaluate(c, L) ==
  /\ decision' = [decision EXCEPT ![c] = evaluate(L)]
  /\ since' = [since EXCEPT ![c] = "nothing"]
  /\ UNCHANGED <<authority, schedule, worker_boots, consumed, now>>

(* publish_price: an observation of the same id is replaced in its place. *)
publish_status(o, ep) ==
  IF ep # epoch THEN "STALE_AUTHORITY"
  ELSE IF o.boot # 0 /\ o.boot # current_boot_for(o.worker) THEN "STALE_AUTHORITY"
  ELSE "OK"

with_observation(o) ==
  LET i == SelectInSeq(observations, LAMBDA x : x.id = o.id)
  IN  IF i # 0 THEN [observations EXCEPT ![i] = o] ELSE Append(observations, o)

(* Faulty variant: replacing an observation is not a new generation. *)
PublishPriceSilently(o, ep) ==
  /\ publish_status(o, ep) = "OK"
  /\ generation < MaxGeneration
  /\ observations' = with_observation(o)
  /\ generation' = IF Len(observations') = Len(observations) THEN generation ELSE generation + 1
  /\ revalidation_needed' = FALSE
  /\ Happened("change")
  /\ UNCHANGED <<epoch, policy_generation, created_at, worker_boots, consumed, now, decision>>

PublishPrice(o, ep) ==
  /\ publish_status(o, ep) = "OK"
  /\ generation < MaxGeneration
  /\ observations' = with_observation(o)
  /\ generation' = generation + 1
  /\ revalidation_needed' = FALSE
  /\ Happened("change")
  /\ UNCHANGED <<epoch, policy_generation, created_at, worker_boots, consumed, now, decision>>

(* set_price_schedule takes what it is given: the generation may be the     *)
(* current one (ex_common.hpp 41-43 puts back a copy with a price added) or *)
(* one that is long over, and the date any.                                *)
SetPriceSchedule(gen, date, obs) ==
  /\ generation' = gen
  /\ created_at' = date
  /\ observations' = obs
  /\ revalidation_needed' = FALSE
  /\ Happened("install")
  /\ UNCHANGED <<epoch, policy_generation, worker_boots, consumed, now, decision>>

SetPolicy(ep, gen) ==
  /\ epoch' = ep
  /\ policy_generation' = gen
  /\ revalidation_needed' = TRUE
  /\ Happened("change")
  /\ UNCHANGED <<schedule, worker_boots, consumed, now, decision>>

AdvanceEpoch ==
  /\ epoch < MaxEpoch
  /\ epoch' = epoch + 1
  /\ revalidation_needed' = TRUE
  /\ Happened("change")
  /\ UNCHANGED <<policy_generation, schedule, worker_boots, consumed, now, decision>>

(* Faulty variant: one incarnation for all workers. *)
SetWorkerBootForAll(w, boot) ==
  /\ worker_boots' = [x \in Worker |-> boot]
  /\ UNCHANGED <<authority, schedule, consumed, now, decision, since>>

SetWorkerBoot(w, boot) ==
  /\ worker_boots' = [worker_boots EXCEPT ![w] = boot]
  /\ UNCHANGED <<authority, schedule, consumed, now, decision, since>>

(* Faulty variant: the limit is compared with what was charged before. *)
ChargeUnchecked(a) ==
  /\ consumed <= Limit
  /\ consumed' = consumed + a
  /\ UNCHANGED <<authority, schedule, worker_boots, now, decision, since>>

(* A commit or consume that the hard budget allows (module Budget). *)
Charge(a) ==
  /\ consumed + a <= Limit
  /\ consumed' = consumed + a
  /\ UNCHANGED <<authority, schedule, worker_boots, now, decision, since>>

ClockReads(t) ==
  /\ now' = t
  /\ UNCHANGED <<authority, schedule, worker_boots, consumed, decision, since>>

Next ==
  \/ \E c \in Caller, L \in Candidates : Evaluate(c, L)
  \/ \E o \in Observations, ep \in Epochs : PublishPrice(o, ep)
  \/ \E gen \in 1..MaxGeneration, date \in Times, obs \in Schedules :
       SetPriceSchedule(gen, date, obs)
  \/ \E ep \in Epochs, gen \in PolicyGenerations : SetPolicy(ep, gen)
  \/ AdvanceEpoch
  \/ \E w \in Worker, boot \in Boots : <<w, boot>> \in Announced /\ SetWorkerBoot(w, boot)
  \/ \E a \in 1..Limit : Charge(a)
  \/ \E t \in Times : ClockReads(t)

Spec == Init /\ [][Next]_vars
-----------------------------------------------------------------------------
(* validate_for_dispatch compares numbers: an epoch and a policy generation  *)
(* that set_policy may set back, and the generation of the prices. Even so   *)
(* an authorized plan passes only if nothing was published and neither the   *)
(* epoch nor the policy was set since its decision: what set_policy and      *)
(* advance_epoch close is opened by a new generation (governor.cpp 118-120,  *)
(* 147-148, 170-174, 462-468). This is so until a whole schedule is          *)
(* installed: set_price_schedule may bring the generation of the decision    *)
(* with other prices, and reopens what was closed.                          *)
DecisionStands ==
  \A c \in Caller, L \in Candidates :
    /\ decision[c].kind = "AUTHORIZE" /\ validate_status(decision[c], L) = "OK"
    /\ since[c] # "install"
    => since[c] = "nothing"

(* README.md 114-117: a worker's restart "never invalidates another         *)
(* worker's authority": the validation of another worker's decision has the *)
(* same outcome before and after.                                          *)
WorkerIsolation ==
  [][\A w \in Worker, boot \in Boots :
       SetWorkerBoot(w, boot) =>
         \A c \in Caller, L \in Candidates :
           decision[c].kind = "AUTHORIZE" /\ decision[c].authority.worker # w
             => validate_status(decision[c], L)' = validate_status(decision[c], L)]_vars

(* Pairs of lists that hold the same plans, of different ids, in another order. *)
Reordered ==
  {pair \in Candidates \X Candidates :
     /\ pair[1] # pair[2] /\ Range(pair[1]) = Range(pair[2])
     /\ \A p, q \in Range(pair[1]) : p.id = q.id => p = q}

(* README.md 94: "candidates are ranked deterministically". Whatever is      *)
(* priced, charged and announced, the decision does not depend on the order  *)
(* in which a client lists its plans, equal costs included (governor.cpp     *)
(* 417-441).                                                                *)
OrderIrrelevant == \A pair \in Reordered : evaluate(pair[1]) = evaluate(pair[2])
=============================================================================
