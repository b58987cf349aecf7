----------------------------- MODULE Accounting -----------------------------
(***************************************************************************)
(* What requests really cost: record_attempt, realized_request_cost and     *)
(* finalize_request of CostGovernor behind the coordinator's HELLO,         *)
(* PUBLISH_PRICE, RECORD_ATTEMPT and REALIZE, with restarts of the process.  *)
(* Evidence may arrive late, repeatedly and in any order.                   *)
(*                                                                         *)
(* A save is one step here and succeeds; its own steps are module Recovery. *)
(* Observations are those whose epoch, boot and currency publish_price      *)
(* accepts; the tests themselves are in module Dispatch.                    *)
(***************************************************************************)
EXTENDS Pricing

CONSTANTS
  Requests,      \* requests
  Workers,       \* workers
  Boots,         \* incarnations a worker may announce; 0 is none
  Evidence,      \* evidence that workers send, for a request and an attempt
  Observations,  \* price observations that are published
  Times,         \* readings of the clock
  MaxEpoch       \* bound on the coordinator epoch

CostEvidence ==
  [request : Requests, attempt : Nat, gen : Nat, worker : Workers,
   label : {"MEASURED", "UNSUPPORTED"}, usage : [Kinds -> Int], recompute : Int,
   device : Nat, resource : Nat, is_completion : BOOLEAN, completed_successfully : BOOLEAN]

HistoryEntry == [request : Requests, realized_cost : Nat, attempts : Nat]

ASSUME AccountingAssumption ==
  /\ Boots \subseteq Nat \ {0} /\ Times \subseteq Nat /\ MaxEpoch \in Nat \ {0}
  /\ \A e \in Evidence : e \in CostEvidence
  /\ \A o \in Observations : o \in PriceObservation

VARIABLES
  epoch,         \* Impl::epoch
  worker_boots,  \* Impl::worker_boots
  observations,  \* Impl::schedule.observations; every change of it is saved
  attempts,      \* Impl::attempts: for each request a map from attempts to evidence
  history,       \* Impl::history
  now,           \* what clock->now_ms() returns
  saved,         \* the epoch and the history in the state file; epoch 0 if there is none
  accepted       \* history: the evidence for which this process answered OK

vars == <<epoch, worker_boots, observations, attempts, history, now, saved, accepted>>

Epochs == 1..MaxEpoch

negative(e) == e.recompute < 0 \/ \E k \in Kinds : e.usage[k] < 0

evidence_of(r) == {attempts[r][a] : a \in DOMAIN attempts[r]}

(* The maps that Impl::attempts holds. *)
EvidenceMap == UNION {[A -> Evidence] : A \in SUBSET {e.attempt : e \in Evidence}}

TypeOK ==
  /\ epoch \in Epochs
  /\ worker_boots \in [Workers -> Boots \cup {0}]
  /\ observations \in Seq(Observations)
  /\ \A i, j \in 1..Len(observations) : observations[i].id = observations[j].id => i = j
  /\ attempts \in [Requests -> EvidenceMap]
  /\ \A r \in Requests : \A a \in DOMAIN attempts[r] :
       /\ ~negative(attempts[r][a])
       /\ attempts[r][a].request = r /\ attempts[r][a].attempt = a
  /\ history \in Seq(HistoryEntry)
  /\ now \in Times
  /\ saved \in [epoch : 0..MaxEpoch, history : Seq(HistoryEntry)]
  /\ accepted \subseteq Evidence
-----------------------------------------------------------------------------
Init ==
  /\ epoch = 1
  /\ worker_boots = [w \in Workers |-> 0]
  /\ observations = <<>>
  /\ attempts = [r \in Requests |-> <<>>]
  /\ history = <<>>
  /\ now \in Times
  /\ saved = [epoch |-> 0, history |-> <<>>]
  /\ accepted = {}

persist == saved' = [epoch |-> epoch, history |-> history]

(* HELLO *)
SetWorkerBoot(w, boot) ==
  /\ worker_boots' = [worker_boots EXCEPT ![w] = boot]
  /\ UNCHANGED <<epoch, observations, attempts, history, now, saved, accepted>>

(* PUBLISH_PRICE *)
PublishPrice(o) ==
  /\ LET i == SelectInSeq(observations, LAMBDA x : x.id = o.id)
     IN  observations' = IF i # 0 THEN [observations EXCEPT ![i] = o] ELSE Append(observations, o)
  /\ persist
  /\ UNCHANGED <<epoch, worker_boots, attempts, history, now, accepted>>

(* Faulty variant: the sign of the amounts is not looked at. *)
record_status_no_sign(e, ep, boot) ==
  IF ep # epoch \/ boot # worker_boots[e.worker] THEN "STALE_AUTHORITY"
  ELSE IF e.attempt \in DOMAIN attempts[e.request] /\ attempts[e.request][e.attempt].gen = e.gen
  THEN "INVALID_INPUT"
  ELSE "OK"

record_status(e, ep, boot) ==
  IF ep # epoch \/ boot # worker_boots[e.worker] THEN "STALE_AUTHORITY"
  ELSE IF e.label = "UNSUPPORTED" \/ negative(e) THEN "INVALID_INPUT"
  ELSE IF e.attempt \in DOMAIN attempts[e.request] /\ attempts[e.request][e.attempt].gen = e.gen
  THEN "INVALID_INPUT"
  ELSE "OK"

(* Faulty variant: evidence is kept by attempt and generation. *)
RecordAttemptByGeneration(e, ep, boot) ==
  /\ record_status(e, ep, boot) = "OK"
  /\ attempts' = [attempts EXCEPT ![e.request] = (10 * e.attempt + e.gen :> e) @@ @]
  /\ accepted' = accepted \cup {e}
  /\ persist
  /\ UNCHANGED <<epoch, worker_boots, observations, history, now>>

(* What is known of the attempts of a request once evidence e is kept. *)
kept(m, e) == [a \in DOMAIN m \cup {e.attempt} |-> IF a = e.attempt THEN e ELSE m[a]]

(* RECORD_ATTEMPT: evidence of another generation, later or earlier,        *)
(* replaces what is known of the attempt.                                  *)
RecordAttempt(e, ep, boot) ==
  /\ record_status(e, ep, boot) = "OK"
  /\ attempts' = [attempts EXCEPT ![e.request] = kept(@, e)]
  /\ accepted' = accepted \cup {e}
  /\ persist
  /\ UNCHANGED <<epoch, worker_boots, observations, history, now>>

realized_request_cost(r) == total(components(observations, evidence_of(r), now))

entry(r) ==
  [request       |-> r,
   realized_cost |-> realized_request_cost(r),
   attempts      |-> Cardinality(evidence_of(r))]

finalized(r) == \E i \in 1..Len(history) : history[i].request = r

(* Faulty variant: only the last entry is looked at. *)
FinalizeAfterOther(r) ==
  /\ ~(history # <<>> /\ Last(history).request = r)
  /\ evidence_of(r) # {}
  /\ ~throws(observations, evidence_of(r), now)
  /\ history' = Append(history, entry(r))
  /\ UNCHANGED <<epoch, worker_boots, observations, attempts, now, saved, accepted>>

(* finalize_request. A missing price leaves the request open. *)
Finalize(r) ==
  /\ ~finalized(r)
  /\ evidence_of(r) # {}
  /\ ~throws(observations, evidence_of(r), now)
  /\ history' = Append(history, entry(r))
  /\ UNCHANGED <<epoch, worker_boots, observations, attempts, now, saved, accepted>>

(* REALIZE: the state is not saved after it. The answer also holds what     *)
(* realized_request_cost returns, which changes nothing.                   *)
Realize(r) == Finalize(r)

(* The process is killed and started again: the history is as it was saved, *)
(* attempts and boots are gone, and the epoch follows the saved one.       *)
Restart ==
  /\ saved.epoch < MaxEpoch
  /\ epoch' = saved.epoch + 1
  /\ history' = saved.history
  /\ worker_boots' = [w \in Workers |-> 0]
  /\ attempts' = [r \in Requests |-> <<>>]
  /\ accepted' = {}
  /\ UNCHANGED <<observations, now, saved>>

ClockReads(t) ==
  /\ now' = t
  /\ UNCHANGED <<epoch, worker_boots, observations, attempts, history, saved, accepted>>

Next ==
  \/ \E w \in Workers, boot \in Boots : SetWorkerBoot(w, boot)
  \/ \E o \in Observations : PublishPrice(o)
  \/ \E e \in Evidence, ep \in Epochs, boot \in Boots \cup {0} : RecordAttempt(e, ep, boot)
  \/ \E r \in Requests : Realize(r)
  \/ Restart
  \/ \E t \in Times : ClockReads(t)

Spec == Init /\ [][Next]_vars
-----------------------------------------------------------------------------
(* What evidence e costs by a definition that does not refer to             *)
(* ceil_mul_div: for each of its amounts the least c that pays for it. An   *)
(* amount that has no price now counts as nothing.                         *)
LeastCost(e, k, amount) ==
  LET i == find_price(observations, k, now, e.device, e.resource)
  IN  IF i = 0 THEN 0
      ELSE CHOOSE c \in 0..(amount * observations[i].amount) :
             /\ c * denominator_for(k) >= amount * observations[i].amount
             /\ (c - 1) * denominator_for(k) < amount * observations[i].amount

MeasuredCost(e) == SumFunction([k \in Kinds |-> LeastCost(e, k, e.usage[k])])

FullCost(e) == MeasuredCost(e) + LeastCost(e, Accelerator, e.recompute)

Priced(r) == ~throws(observations, evidence_of(r), now)

(* README.md 102-105: the realized cost of a request is the sum across its  *)
(* attempts, and "duplicate or stale completion never double-charges":      *)
(* whatever was delivered twice, late or in another generation, each        *)
(* attempt is charged for exactly one evidence that was accepted for it.   *)
ChargedOncePerAttempt ==
  \A r \in Requests : Priced(r) =>
    LET of(a) == {e \in accepted : e.request = r /\ e.attempt = a}
        tried == {e.attempt : e \in {x \in accepted : x.request = r}}
        dearest  == [a \in tried |-> Max({FullCost(e) : e \in of(a)})]
        cheapest == [a \in tried |-> Min({FullCost(e) : e \in of(a)})]
    IN  /\ realized_request_cost(r) <= SumFunction(dearest)
        /\ realized_request_cost(r) >= SumFunction(cheapest)

(* cost.cpp 158-161, "each unit of cost is counted exactly once": the total *)
(* is what the failed attempts cost (component RETRY), what the others cost *)
(* and all recomputation, none of it twice.                                *)
RetryCountedOnce ==
  \A r \in Requests : Priced(r) =>
    realized_request_cost(r) =
      components(observations, evidence_of(r), now).retry
      + SumFunction([e \in {x \in evidence_of(r) : ~failed(x)} |-> MeasuredCost(e)])
      + SumFunction([e \in evidence_of(r) |-> LeastCost(e, Accelerator, e.recompute)])

(* cost.cpp 38-39: an amount is charged its price rounded up to a whole     *)
(* micro-unit, and is refused only if the product or the result does not    *)
(* fit the integers that hold them.                                        *)
RoundedUp ==
  \A e \in accepted : \A k \in {k \in Kinds : e.usage[k] # 0} :
    LET i == find_price(observations, k, now, e.device, e.resource)
        c == measured(observations, now, e, k)
    IN  i # 0 =>
          IF c.thrown
          THEN \/ e.usage[k] * observations[i].amount > UIntMax
               \/ LeastCost(e, k, e.usage[k]) > IntMax
          ELSE c.value = LeastCost(e, k, e.usage[k])

(* A price for any device and resource is charged only when no price for    *)
(* the device or the resource of the evidence is in force, whatever the     *)
(* order in which prices were published and replaced (cost.cpp 77-79).     *)
SpecificBeforeGeneral ==
  \A e \in accepted, k \in Kinds :
    LET general(o) == o.device = 0 /\ o.resource = 0
        i == find_price(observations, k, now, e.device, e.resource)
    IN  i # 0 /\ general(observations[i]) =>
          \A j \in 1..Len(observations) :
            obs_applies(observations[j], k, now, e.device, e.resource) => general(observations[j])

(* governor.hpp 103, "appends realized cost once": a request has one entry  *)
(* in the history, also when REALIZE is repeated after other requests or   *)
(* after a restart that kept or lost the first entry.                      *)
FinalizedOnce ==
  \A i, j \in 1..Len(history) : history[i].request = history[j].request => i = j
=============================================================================
