---------------------------- MODULE DispatchProofs ----------------------------
(***************************************************************************)
(* Theorems about decisions and their revalidation, for every number of     *)
(* callers, workers, plans, observations and epochs.                        *)
(***************************************************************************)
EXTENDS Dispatch, TotalsProofs

(* The smallest of some natural numbers is one of them. *)
LEMMA MinIn ==
  ASSUME NEW I \in SUBSET Nat, I # {} PROVE Min(I) \in I
BY LeastElement DEF Min

(* A number is given to every observation, and to every plan, in the lists  *)
(* that are searched.                                                      *)
LEMMA CandidateList ==
  ASSUME NEW L \in Candidates
  PROVE  /\ Len(L) \in Nat /\ DOMAIN L = 1..Len(L) /\ L \in [1..Len(L) -> Plans]
         /\ Range(L) \subseteq Plans
<1>1. PICK n \in Nat : L \in [1..n -> Plans]
  BY DispatchAssumption DEF Candidates, BoundedSeq, SeqOf
<1>2. Len(L) = n
  BY <1>1
<1>. QED BY <1>1, <1>2 DEF Range

(* The fields of a plan that is proposed. *)
LEMMA PlanTyped ==
  ASSUME NEW p \in Plans
  PROVE  /\ p.id \in Nat /\ p.worker \in Worker /\ p.units \in Nat
         /\ p.requests \in Nat /\ p.tokens \in Nat /\ p.completion_probability \in 0..100
BY DispatchAssumption

(* Where the policy accepts a price in force, project finds one to charge by. *)
LEMMA PriceFound ==
  ASSUME TypeOK, check_price # 0
  PROVE  find_price \in 1..Len(observations) /\ observations[find_price].amount \in Nat
<1> DEFINE I == {i \in 1..Len(observations) :
                   in_interval(observations[i], now) /\ accepts_label(observations[i].label)}
           J == {i \in 1..Len(observations) : in_interval(observations[i], now)}
<1>1. check_price = IF I # {} THEN Min(I) ELSE 0
  BY DEF check_price, SelectInSeq
<1>2. find_price = IF J # {} THEN Min(J) ELSE 0
  BY DEF find_price, SelectInSeq
<1>3. I # {} /\ I \subseteq J /\ J \in SUBSET Nat
  BY <1>1
<1>4. find_price \in J
  <2> HIDE DEF I, J
  <2>. QED BY <1>2, <1>3, MinIn
<1>5. observations[find_price] \in Observations
  BY <1>4 DEF TypeOK
<1>. QED BY <1>4, <1>5, DispatchAssumption

LEMMA ProductNat ==
  ASSUME NEW m \in Nat, NEW n \in Nat PROVE m * n \in Nat
OBVIOUS

(* A plan is only found feasible at a price that exists. *)
LEMMA FeasiblePriced ==
  ASSUME TypeOK, NEW p \in Plans, evaluate_plan(p) = "FEASIBLE"
  PROVE  total(p) \in Nat /\ ~revalidation_needed
<1>1. ~revalidation_needed /\ (amount_present(p) => check_price # 0)
  BY DEF evaluate_plan
<1>2. p.units \in Nat
  BY PlanTyped
<1>3. CASE ~amount_present(p)
  BY <1>1, <1>3 DEF total
<1>4. CASE amount_present(p)
  <2>1. total(p) = p.units * observations[find_price].amount
    BY <1>4 DEF total, plan_to_evidence
  <2>2. observations[find_price].amount \in Nat
    BY <1>1, <1>4, PriceFound
  <2>. QED BY <1>1, <1>2, <2>1, <2>2, ProductNat
<1>. QED BY <1>3, <1>4
-----------------------------------------------------------------------------
(* What two feasible plans are compared by are numbers. *)
LEMMA KeysTyped ==
  ASSUME TypeOK, NEW p \in Plans, evaluate_plan(p) = "FEASIBLE"
  PROVE  /\ total(p) \in Nat /\ per(total(p), p.requests) \in Nat /\ per(total(p), p.tokens) \in Nat
         /\ p.completion_probability \in 0..100 /\ p.id \in Nat
<1>1. total(p) \in Nat
  BY FeasiblePriced
<1>2. \A n \in Nat : per(total(p), n) \in Nat
  <2>1. SUFFICES ASSUME NEW n \in Nat, n > 0 PROVE (total(p) + n - 1) \div n \in Nat
    BY DEF per
  <2>. QED BY <1>1, <2>1
<1>. QED BY <1>1, <1>2, PlanTyped

(* The comparison, key by key. *)
LEMMA BetterMeans ==
  ASSUME NEW p, NEW q
  PROVE  better(p, q) <=>
           \/ total(p) < total(q)
           \/ /\ total(p) = total(q)
              /\ \/ per(total(p), p.requests) < per(total(q), q.requests)
                 \/ /\ per(total(p), p.requests) = per(total(q), q.requests)
                    /\ \/ per(total(p), p.tokens) < per(total(q), q.tokens)
                       \/ /\ per(total(p), p.tokens) = per(total(q), q.tokens)
                          /\ \/ -p.completion_probability < -q.completion_probability
                             \/ /\ -p.completion_probability = -q.completion_probability
                                /\ p.id < q.id
<1> DEFINE k == keys(p)
           m == keys(q)
<1>1. /\ k[1] = total(p) /\ k[2] = per(total(p), p.requests) /\ k[3] = per(total(p), p.tokens)
      /\ k[4] = -p.completion_probability /\ k[5] = p.id
      /\ m[1] = total(q) /\ m[2] = per(total(q), q.requests) /\ m[3] = per(total(q), q.tokens)
      /\ m[4] = -q.completion_probability /\ m[5] = q.id
  BY DEF keys
<1> HIDE DEF k, m
<1>2. better(p, q) <=> \E i \in 1..5 : k[i] < m[i] /\ \A j \in 1..(i - 1) : k[j] = m[j]
  BY DEF better, k, m
<1>3. (\E i \in 1..5 : k[i] < m[i] /\ \A j \in 1..(i - 1) : k[j] = m[j]) <=>
        \/ k[1] < m[1]
        \/ k[1] = m[1] /\ k[2] < m[2]
        \/ k[1] = m[1] /\ k[2] = m[2] /\ k[3] < m[3]
        \/ k[1] = m[1] /\ k[2] = m[2] /\ k[3] = m[3] /\ k[4] < m[4]
        \/ k[1] = m[1] /\ k[2] = m[2] /\ k[3] = m[3] /\ k[4] = m[4] /\ k[5] < m[5]
  OBVIOUS
<1>. QED BY <1>1, <1>2, <1>3

(* Of two feasible plans with different ids one is better. *)
LEMMA BetterTotal ==
  ASSUME TypeOK, NEW p \in Plans, NEW q \in Plans, p.id # q.id,
         evaluate_plan(p) = "FEASIBLE", evaluate_plan(q) = "FEASIBLE"
  PROVE  better(p, q) \/ better(q, p)
<1>1. /\ total(p) \in Nat /\ per(total(p), p.requests) \in Nat /\ per(total(p), p.tokens) \in Nat
      /\ p.completion_probability \in Nat /\ p.id \in Nat
      /\ total(q) \in Nat /\ per(total(q), q.requests) \in Nat /\ per(total(q), q.tokens) \in Nat
      /\ q.completion_probability \in Nat /\ q.id \in Nat
  BY KeysTyped
<1>2. CASE total(p) # total(q)
  BY <1>1, <1>2, BetterMeans
<1>3. CASE total(p) = total(q) /\ per(total(p), p.requests) # per(total(q), q.requests)
  BY <1>1, <1>3, BetterMeans
<1>4. CASE /\ total(p) = total(q) /\ per(total(p), p.requests) = per(total(q), q.requests)
           /\ per(total(p), p.tokens) # per(total(q), q.tokens)
  BY <1>1, <1>4, BetterMeans
<1>5. CASE /\ total(p) = total(q) /\ per(total(p), p.requests) = per(total(q), q.requests)
           /\ per(total(p), p.tokens) = per(total(q), q.tokens)
  BY <1>1, <1>5, BetterMeans
<1>. QED BY <1>2, <1>3, <1>4, <1>5

(* Numbers that are not below lo have a least one among them. *)
LEMMA LeastBy ==
  ASSUME NEW S, S # {}, NEW f \in [S -> Int], NEW lo \in Int, \A x \in S : f[x] >= lo
  PROVE  \E m \in S : \A x \in S : f[m] <= f[x]
<1> DEFINE T == {f[x] - lo : x \in S}
<1>1. T \in SUBSET Nat /\ T # {}
  OBVIOUS
<1>2. PICK t \in T : \A k \in T : t <= k
  <2> HIDE DEF T
  <2>. QED BY <1>1, LeastElement
<1>3. PICK m \in S : t = f[m] - lo
  OBVIOUS
<1>4. ASSUME NEW x \in S PROVE f[m] <= f[x]
  <2>1. t <= f[x] - lo
    BY <1>2
  <2>. QED BY <1>3, <2>1
<1>. QED BY <1>4

(* Some feasible plan is such that none is better: the comparison has no    *)
(* cycles.                                                                 *)
LEMMA BestExists ==
  ASSUME TypeOK, NEW F \in SUBSET Plans, F # {}, \A p \in F : evaluate_plan(p) = "FEASIBLE"
  PROVE  \E p \in F : \A q \in F : ~better(q, p)
<1>1. \A p \in F : /\ total(p) \in Nat /\ per(total(p), p.requests) \in Nat /\ per(total(p), p.tokens) \in Nat
                   /\ p.completion_probability \in 0..100 /\ p.id \in Nat
  BY KeysTyped
<1> DEFINE f1 == [p \in F |-> total(p)]
<1>2. PICK p1 \in F : \A x \in F : f1[p1] <= f1[x]
  <2>1. f1 \in [F -> Int] /\ \A x \in F : f1[x] >= 0
    BY <1>1
  <2> HIDE DEF f1
  <2>. QED BY <2>1, LeastBy
<1> DEFINE F2 == {p \in F : total(p) = total(p1)}
           f2 == [p \in F2 |-> per(total(p), p.requests)]
<1>3. PICK p2 \in F2 : \A x \in F2 : f2[p2] <= f2[x]
  <2>1. f2 \in [F2 -> Int] /\ F2 # {} /\ \A x \in F2 : f2[x] >= 0
    BY <1>1
  <2> HIDE DEF f2, F2
  <2>. QED BY <2>1, LeastBy
<1> DEFINE F3 == {p \in F2 : per(total(p), p.requests) = per(total(p2), p2.requests)}
           f3 == [p \in F3 |-> per(total(p), p.tokens)]
<1>4. PICK p3 \in F3 : \A x \in F3 : f3[p3] <= f3[x]
  <2>1. f3 \in [F3 -> Int] /\ F3 # {} /\ \A x \in F3 : f3[x] >= 0
    BY <1>1
  <2> HIDE DEF f3, F3
  <2>. QED BY <2>1, LeastBy
<1> DEFINE F4 == {p \in F3 : per(total(p), p.tokens) = per(total(p3), p3.tokens)}
           f4 == [p \in F4 |-> -p.completion_probability]
<1>5. PICK p4 \in F4 : \A x \in F4 : f4[p4] <= f4[x]
  <2>1. f4 \in [F4 -> Int] /\ F4 # {} /\ -100 \in Int /\ \A x \in F4 : f4[x] >= -100
    BY <1>1
  <2> HIDE DEF f4, F4
  <2>. QED BY <2>1, LeastBy
<1> DEFINE F5 == {p \in F4 : -p.completion_probability = -p4.completion_probability}
           f5 == [p \in F5 |-> p.id]
<1>6. PICK p5 \in F5 : \A x \in F5 : f5[p5] <= f5[x]
  <2>1. f5 \in [F5 -> Int] /\ F5 # {} /\ \A x \in F5 : f5[x] >= 0
    BY <1>1
  <2> HIDE DEF f5, F5
  <2>. QED BY <2>1, LeastBy
<1>7. /\ p5 \in F /\ \A q \in F : total(p5) <= total(q)
      /\ \A q \in F2 : per(total(p5), p5.requests) <= per(total(q), q.requests)
      /\ \A q \in F3 : per(total(p5), p5.tokens) <= per(total(q), q.tokens)
      /\ \A q \in F4 : -p5.completion_probability <= -q.completion_probability
      /\ \A q \in F5 : p5.id <= q.id
  BY <1>2, <1>3, <1>4, <1>5, <1>6
<1>8. /\ \A q \in F : total(q) = total(p5) => q \in F2
      /\ \A q \in F2 : per(total(q), q.requests) = per(total(p5), p5.requests) => q \in F3
      /\ \A q \in F3 : per(total(q), q.tokens) = per(total(p5), p5.tokens) => q \in F4
      /\ \A q \in F4 : -q.completion_probability = -p5.completion_probability => q \in F5
  BY <1>6
<1> HIDE DEF F2, F3, F4, F5
<1>9. ASSUME NEW q \in F, better(q, p5) PROVE FALSE
  <2>1. /\ total(q) \in Int /\ per(total(q), q.requests) \in Int /\ per(total(q), q.tokens) \in Int
        /\ -q.completion_probability \in Int /\ q.id \in Int
        /\ total(p5) \in Int /\ per(total(p5), p5.requests) \in Int /\ per(total(p5), p5.tokens) \in Int
        /\ -p5.completion_probability \in Int /\ p5.id \in Int
    BY <1>1, <1>7
  <2>2. total(q) = total(p5) /\ q \in F2
    BY <1>7, <1>8, <1>9, <2>1, BetterMeans
  <2>3. per(total(q), q.requests) = per(total(p5), p5.requests) /\ q \in F3
    BY <1>7, <1>8, <1>9, <2>1, <2>2, BetterMeans
  <2>4. per(total(q), q.tokens) = per(total(p5), p5.tokens) /\ q \in F4
    BY <1>7, <1>8, <1>9, <2>1, <2>2, <2>3, BetterMeans
  <2>5. -q.completion_probability = -p5.completion_probability /\ q \in F5
    BY <1>7, <1>8, <1>9, <2>1, <2>2, <2>3, <2>4, BetterMeans
  <2>. QED BY <1>7, <1>9, <2>1, <2>2, <2>3, <2>4, <2>5, BetterMeans
<1>. QED BY <1>7, <1>9

(* evaluate picks a feasible candidate that none is better than. *)
LEMMA FrontBest ==
  ASSUME TypeOK, NEW L \in Candidates, feasible(L) # {}
  PROVE  /\ front(L) \in feasible(L) /\ front(L) \in Plans
         /\ evaluate_plan(front(L)) = "FEASIBLE"
         /\ \A q \in feasible(L) : ~better(q, front(L))
<1> DEFINE F == feasible(L)
           I == {i \in 1..Len(L) : L[i] \in F /\ \A q \in F : ~better(q, L[i])}
<1>1. F \in SUBSET Plans /\ \A p \in F : p \in Range(L) /\ evaluate_plan(p) = "FEASIBLE"
  BY CandidateList DEF feasible
<1>2. front(L) = L[IF I # {} THEN Min(I) ELSE 0]
  BY DEF front, SelectInSeq
<1> HIDE DEF F
<1>3. PICK p \in F : \A q \in F : ~better(q, p)
  <2>1. F # {}
    BY DEF F
  <2>. QED BY <1>1, <2>1, BestExists
<1>4. PICK i \in 1..Len(L) : L[i] = p
  BY <1>1, <1>3, CandidateList DEF Range
<1>5. i \in I /\ I \in SUBSET Nat
  BY <1>3, <1>4
<1>6. Min(I) \in I
  <2> HIDE DEF I
  <2>. QED BY <1>5, MinIn
<1>7. front(L) = L[Min(I)]
  <2> HIDE DEF I
  <2>. QED BY <1>2, <1>5
<1>8. front(L) \in F /\ \A q \in F : ~better(q, front(L))
  BY <1>6, <1>7
<1>. QED BY <1>1, <1>8 DEF F

(* Which candidate that is does not depend on their order. *)
LEMMA FrontUnique ==
  ASSUME TypeOK, NEW K \in Candidates, NEW L \in Candidates, Range(K) = Range(L),
         \A p, q \in Range(K) : p.id = q.id => p = q, feasible(K) # {}
  PROVE  front(K) = front(L)
<1>1. feasible(L) = feasible(K)
  BY DEF feasible
<1>2. /\ front(K) \in feasible(K) /\ front(K) \in Plans /\ evaluate_plan(front(K)) = "FEASIBLE"
      /\ front(L) \in feasible(K) /\ front(L) \in Plans /\ evaluate_plan(front(L)) = "FEASIBLE"
      /\ ~better(front(L), front(K)) /\ ~better(front(K), front(L))
  BY <1>1, FrontBest
<1>3. front(K).id = front(L).id
  BY <1>2, BetterTotal
<1>. QED BY <1>2, <1>3 DEF feasible

(* The decision depends on the order of the candidates in no state that is  *)
(* well typed.                                                             *)
LEMMA OrderIrrelevantTyped == TypeOK => OrderIrrelevant
<1>1. SUFFICES ASSUME TypeOK, NEW pair \in Reordered
               PROVE  evaluate(pair[1]) = evaluate(pair[2])
  BY DEF OrderIrrelevant
<1>2. PICK K \in Candidates, L \in Candidates : pair = <<K, L>>
  BY DEF Reordered
<1>3. /\ Range(K) = Range(L) /\ \A p, q \in Range(K) : p.id = q.id => p = q
      /\ pair[1] = K /\ pair[2] = L
  BY <1>2 DEF Reordered
<1>4. feasible(L) = feasible(K)
  BY <1>3 DEF feasible
<1>5. feasible(K) # {} => front(K) = front(L)
  BY <1>1, <1>3, FrontUnique
<1>. QED BY <1>3, <1>4, <1>5 DEF evaluate
-----------------------------------------------------------------------------
(* Until a whole schedule is installed generations only go up, and what was  *)
(* done since a decision shows in the generation or waits to be revalidated. *)
StandInv ==
  \A c \in Caller :
    decision[c].kind = "AUTHORIZE" /\ since[c] # "install" =>
      /\ decision[c].authority.price_generation <= generation
      /\ decision[c].authority.price_generation = generation =>
           since[c] = "nothing" \/ revalidation_needed

(* The inductive invariant. *)
IInv == TypeOK /\ StandInv

(* The generation a decision carries is a number. *)
LEMMA GenerationTyped ==
  ASSUME TypeOK, NEW c \in Caller, decision[c].kind = "AUTHORIZE"
  PROVE  decision[c].authority.price_generation \in Nat
<1>1. decision[c] \in CostDecision
  BY DEF TypeOK
<1>2. decision[c].authority \in AuthorityContext
  BY <1>1 DEF CostDecision
<1>. QED BY <1>2, DispatchAssumption DEF AuthorityContext

(* evaluate: a decision carries the authority of the moment. *)
LEMMA DecisionMade ==
  ASSUME IInv, NEW L \in Candidates, NEW d, d = evaluate(L)
  PROVE  /\ d \in CostDecision
         /\ d.kind = "AUTHORIZE" =>
              /\ \E p \in Plans : d.plan = p.id /\ d.authority.worker = p.worker
              /\ d.authority.price_generation = generation
<1>1. CASE revalidation_needed \/ feasible(L) = {}
  BY <1>1 DEF evaluate, CostDecision
<1>2. CASE ~revalidation_needed /\ feasible(L) # {}
  <2>1. PICK p \in Plans : p = front(L) /\ evaluate_plan(p) = "FEASIBLE"
    BY <1>2, FrontBest DEF IInv
  <2>2. total(p) \in Nat /\ p.id \in Nat /\ p.worker \in Worker
    BY <2>1, FeasiblePriced, PlanTyped DEF IInv
  <2>3. PICK a : a = authority_snapshot_from(p)
    OBVIOUS
  <2>4. a \in AuthorityContext /\ a.price_generation = generation /\ a.worker = p.worker
    BY <2>2, <2>3 DEF authority_snapshot_from, AuthorityContext, current_boot_for, IInv, TypeOK
  <2>5. d = [kind |-> "AUTHORIZE", plan |-> p.id, total |-> total(p), authority |-> a]
    BY <1>2, <2>1, <2>3 DEF evaluate
  <2>6. d \in CostDecision
    BY <2>2, <2>4, <2>5 DEF CostDecision
  <2>. QED BY <2>4, <2>5, <2>6
<1>. QED BY <1>1, <1>2

(* A decision made now satisfies what is claimed of decisions. *)
LEMMA EvaluateStep ==
  ASSUME IInv, NEW c \in Caller, NEW L \in Candidates, Evaluate(c, L) PROVE IInv'
<1>1. PICK d : d = evaluate(L)
  OBVIOUS
<1>2. /\ decision' = [decision EXCEPT ![c] = d] /\ decision \in [Caller -> CostDecision]
      /\ since' = [since EXCEPT ![c] = "nothing"] /\ since \in [Caller -> Since]
      /\ UNCHANGED <<epoch, policy_generation, revalidation_needed, generation,
                     created_at, observations, worker_boots, consumed, now>>
  BY <1>1 DEF Evaluate, authority, schedule, IInv, TypeOK
<1>3. /\ d \in CostDecision
      /\ d.kind = "AUTHORIZE" =>
           /\ \E p \in Plans : d.plan = p.id /\ d.authority.worker = p.worker
           /\ d.authority.price_generation = generation
  BY <1>1, DecisionMade
<1>4. /\ decision'[c] = d /\ \A x \in Caller : x # c => decision'[x] = decision[x]
      /\ decision' \in [Caller -> CostDecision]
      /\ since'[c] = "nothing" /\ \A x \in Caller : x # c => since'[x] = since[x]
      /\ since' \in [Caller -> Since]
  BY <1>2, <1>3 DEF Since
<1>5. TypeOK'
  BY <1>2, <1>3, <1>4 DEF IInv, TypeOK
<1>6. StandInv'
  <2>1. generation \in Int
    BY DEF IInv, TypeOK
  <2>2. ASSUME NEW x \in Caller, decision'[x].kind = "AUTHORIZE", since'[x] # "install"
        PROVE  /\ decision'[x].authority.price_generation <= generation
               /\ decision'[x].authority.price_generation = generation =>
                    since'[x] = "nothing" \/ revalidation_needed
    BY <1>3, <1>4, <2>1, <2>2 DEF IInv, StandInv
  <2>. QED BY <1>2, <2>2 DEF StandInv
<1>. QED BY <1>5, <1>6 DEF IInv

(* The history says what happened, and is left alone from an install on. *)
LEMMA HappenedMeans ==
  ASSUME TypeOK, NEW what \in Since, Happened(what)
  PROVE  /\ since' \in [Caller -> Since]
         /\ \A c \in Caller :
              decision[c].kind = "AUTHORIZE" =>
                since'[c] = IF since[c] = "install" THEN "install" ELSE what
BY DEF TypeOK, Happened

(* What publish_price leaves is a schedule of observations. *)
LEMMA ObservationAdded ==
  ASSUME TypeOK, NEW o \in Observations
  PROVE  with_observation(o) \in Seq(Observations)
<1> DEFINE I == {i \in 1..Len(observations) : observations[i].id = o.id}
<1>1. observations \in Seq(Observations)
  BY DEF TypeOK
<1>2. PICK n : n = IF I # {} THEN Min(I) ELSE 0
  OBVIOUS
<1>3. with_observation(o) = IF n # 0 THEN [observations EXCEPT ![n] = o] ELSE Append(observations, o)
  BY <1>2 DEF with_observation, SelectInSeq
<1>4. CASE n # 0
  <2>1. n \in 1..Len(observations)
    <3>1. I \in SUBSET Nat /\ I \subseteq 1..Len(observations)
      OBVIOUS
    <3> HIDE DEF I
    <3>. QED BY <1>2, <1>4, <3>1, MinIn
  <2>. QED BY <1>1, <1>3, <1>4, <2>1
<1>5. CASE n = 0
  BY <1>1, <1>3, <1>5
<1>. QED BY <1>4, <1>5

(* publish_price: a new generation of the schedule. *)
LEMMA PublishStep ==
  ASSUME IInv, NEW o \in Observations, NEW ep \in Epochs, PublishPrice(o, ep) PROVE IInv'
<1>1. /\ generation < MaxGeneration /\ observations' = with_observation(o)
      /\ generation' = generation + 1 /\ Happened("change")
      /\ UNCHANGED <<epoch, policy_generation, created_at, worker_boots, consumed, now, decision>>
  BY DEF PublishPrice
<1>2. revalidation_needed' \in BOOLEAN
  BY Zenon DEF PublishPrice
<1>3. observations' \in Seq(Observations)
  BY <1>1, ObservationAdded DEF IInv
<1>4. generation \in Nat /\ generation' \in 1..MaxGeneration
  BY <1>1, DispatchAssumption DEF IInv, TypeOK
<1>5. /\ since' \in [Caller -> Since]
      /\ \A c \in Caller : decision[c].kind = "AUTHORIZE" /\ since'[c] # "install" =>
           since[c] # "install"
  BY <1>1, HappenedMeans DEF IInv, Since
<1>6. TypeOK'
  BY <1>1, <1>2, <1>3, <1>4, <1>5 DEF IInv, TypeOK
<1>7. ASSUME NEW c \in Caller, decision[c].kind = "AUTHORIZE", since'[c] # "install"
      PROVE  /\ decision[c].authority.price_generation <= generation'
             /\ decision[c].authority.price_generation # generation'
  <2>1. decision[c].authority.price_generation \in Nat
    BY <1>7, GenerationTyped DEF IInv
  <2>2. decision[c].authority.price_generation <= generation
    BY <1>5, <1>7 DEF IInv, StandInv
  <2>. QED BY <1>1, <1>4, <2>1, <2>2
<1>8. StandInv'
  BY <1>1, <1>7 DEF StandInv
<1>. QED BY <1>6, <1>8 DEF IInv

(* set_price_schedule: whatever it brings, no decision is claimed to stand. *)
LEMMA ScheduleStep ==
  ASSUME IInv, NEW gen \in 1..MaxGeneration, NEW date \in Times, NEW obs \in Schedules,
         SetPriceSchedule(gen, date, obs)
  PROVE  IInv'
<1>1. /\ generation' = gen /\ created_at' = date /\ observations' = obs /\ Happened("install")
      /\ UNCHANGED <<epoch, policy_generation, worker_boots, consumed, now, decision>>
  BY DEF SetPriceSchedule
<1>2. revalidation_needed' \in BOOLEAN
  BY Zenon DEF SetPriceSchedule
<1>3. obs \in Seq(Observations)
  <2>1. PICK n \in Nat : obs \in [1..n -> Observations]
    BY DispatchAssumption DEF Schedules, BoundedSeq, SeqOf
  <2>. QED BY <2>1
<1>4. /\ since' \in [Caller -> Since]
      /\ \A c \in Caller : decision[c].kind = "AUTHORIZE" => since'[c] = "install"
  BY <1>1, HappenedMeans DEF IInv, Since
<1>5. TypeOK'
  BY <1>1, <1>2, <1>3, <1>4 DEF IInv, TypeOK
<1>6. StandInv'
  BY <1>1, <1>4 DEF StandInv
<1>. QED BY <1>5, <1>6 DEF IInv

(* set_policy and advance_epoch: the prices at hand must be revalidated. *)
LEMMA EpochStep ==
  ASSUME IInv, AdvanceEpoch \/ \E ep \in Epochs, gen \in PolicyGenerations : SetPolicy(ep, gen)
  PROVE  IInv'
<1>1. /\ epoch' \in Epochs /\ policy_generation' \in PolicyGenerations /\ Happened("change")
      /\ UNCHANGED <<generation, created_at, observations, worker_boots, consumed, now, decision>>
  BY DispatchAssumption DEF AdvanceEpoch, SetPolicy, schedule, Epochs, IInv, TypeOK
<1>2. revalidation_needed' = TRUE
  BY DEF AdvanceEpoch, SetPolicy
<1>3. revalidation_needed' \in BOOLEAN
  BY <1>2, Zenon
<1>4. /\ since' \in [Caller -> Since]
      /\ \A c \in Caller : decision[c].kind = "AUTHORIZE" /\ since'[c] # "install" =>
           since[c] # "install"
  BY <1>1, HappenedMeans DEF IInv, Since
<1>5. TypeOK'
  BY <1>1, <1>3, <1>4 DEF IInv, TypeOK
<1>6. ASSUME NEW c \in Caller, decision[c].kind = "AUTHORIZE", since'[c] # "install"
      PROVE  decision[c].authority.price_generation <= generation
  BY <1>4, <1>6 DEF IInv, StandInv
<1>7. StandInv'
  BY <1>1, <1>2, <1>6 DEF StandInv
<1>. QED BY <1>5, <1>7 DEF IInv

(* set_worker_boot, a charge and the clock touch neither prices nor epochs. *)
LEMMA OtherStep ==
  ASSUME IInv,
         \/ \E w \in Worker, boot \in Boots : SetWorkerBoot(w, boot)
         \/ \E a \in 1..Limit : Charge(a)
         \/ \E t \in Times : ClockReads(t)
         \/ UNCHANGED vars
  PROVE  IInv'
<1>1. UNCHANGED <<epoch, policy_generation, revalidation_needed, generation, created_at,
                  observations, decision, since>>
  BY DEF SetWorkerBoot, Charge, ClockReads, vars, authority, schedule
<1>2. worker_boots' \in [Worker -> Boots \cup {0}] /\ now' \in Times
  BY DEF SetWorkerBoot, Charge, ClockReads, vars, IInv, TypeOK
<1>3. consumed' \in 0..Limit
  BY DispatchAssumption DEF SetWorkerBoot, Charge, ClockReads, vars, IInv, TypeOK
<1>. QED BY <1>1, <1>2, <1>3 DEF IInv, TypeOK, StandInv

LEMMA InvariantStep ==
  ASSUME IInv, [Next]_vars PROVE IInv'
BY EvaluateStep, PublishStep, ScheduleStep, EpochStep, OtherStep DEF Next

LEMMA InvariantInit ==
  ASSUME Init PROVE IInv
<1>1. revalidation_needed \in BOOLEAN
  BY Zenon DEF Init
<1>2. Undecided \in CostDecision /\ Undecided.kind # "AUTHORIZE"
  BY DEF Undecided, CostDecision
<1>3. \A c \in Caller : decision[c].kind # "AUTHORIZE"
  BY <1>2 DEF Init
<1>4. TypeOK
  BY <1>1, <1>2, <1>3, DispatchAssumption DEF Init, TypeOK, Epochs, Since
<1>. QED BY <1>3, <1>4 DEF IInv, StandInv
-----------------------------------------------------------------------------
(* The inductive invariant holds in every behaviour of the governor. *)
THEOREM Invariance == Spec => []IInv
BY InvariantInit, InvariantStep, PTL DEF Spec

(* The variables have their types; in particular a plan is never authorized *)
(* at a price that does not exist, and its total is not negative.          *)
THEOREM TypeCorrect == Spec => []TypeOK
<1>1. IInv => TypeOK
  BY DEF IInv
<1>. QED BY <1>1, Invariance, PTL

(* Unless a whole schedule was installed since, a decision that validates    *)
(* is one since which no price was published and neither the epoch nor the   *)
(* policy was set, whatever numbers set_policy set back.                     *)
THEOREM DecisionsStand == Spec => []DecisionStands
<1>1. ASSUME IInv, NEW c \in Caller, NEW L \in Candidates, decision[c].kind = "AUTHORIZE",
             validate_status(decision[c], L) = "OK", since[c] # "install"
      PROVE  since[c] = "nothing"
  <2>1. decision[c].authority.price_generation = generation /\ ~revalidation_needed
    BY <1>1 DEF validate_status
  <2>. QED BY <1>1, <2>1 DEF IInv, StandInv
<1>2. IInv => DecisionStands
  BY <1>1 DEF DecisionStands
<1>. QED BY <1>2, Invariance, PTL

(* evaluate's ranking is deterministic: for any number of candidates, the    *)
(* order in which a client lists them does not matter.                     *)
THEOREM RankingDeterministic == Spec => []OrderIrrelevant
BY OrderIrrelevantTyped, TypeCorrect, PTL

(* A worker's restart changes no validation of another worker's decision. *)
LEMMA BootIsolated ==
  ASSUME TypeOK, NEW w \in Worker, NEW boot \in Boots, SetWorkerBoot(w, boot),
         NEW c \in Caller, NEW L \in Candidates,
         decision[c].kind = "AUTHORIZE", decision[c].authority.worker # w
  PROVE  validate_status(decision[c], L)' = validate_status(decision[c], L)
<1>1. /\ worker_boots' = [worker_boots EXCEPT ![w] = boot]
      /\ UNCHANGED <<epoch, policy_generation, revalidation_needed, generation, created_at,
                     observations, consumed, now, decision>>
  BY DEF SetWorkerBoot, authority, schedule
<1>2. decision[c].authority.worker \in Worker
  BY DEF TypeOK, CostDecision, AuthorityContext
<1>3. worker_boots'[decision[c].authority.worker] = worker_boots[decision[c].authority.worker]
  BY <1>1, <1>2 DEF TypeOK
<1>4. check_price' = check_price /\ find_price' = find_price
  BY <1>1 DEF check_price, find_price, SelectInSeq, in_interval
<1>5. \A p : total(p)' = total(p)
  BY <1>1, <1>4 DEF total
<1>6. \A p : evaluate_plan(p)' = evaluate_plan(p)
  BY <1>1, <1>4, <1>5 DEF evaluate_plan, price_stale
<1>7. PICK d : d = decision[c] /\ d = decision'[c]
  BY <1>1
<1>8. validate_status(d, L)' = validate_status(d, L)
  BY <1>1, <1>3, <1>5, <1>6, <1>7 DEF validate_status, current_boot_for, SelectInSeq
<1>. QED BY <1>7, <1>8

(* No worker's restart invalidates another worker's authority. *)
THEOREM WorkersIsolated == Spec => WorkerIsolation
<1> DEFINE A == \A w \in Worker, boot \in Boots :
                  SetWorkerBoot(w, boot) =>
                    \A c \in Caller, L \in Candidates :
                      decision[c].kind = "AUTHORIZE" /\ decision[c].authority.worker # w
                        => validate_status(decision[c], L)' = validate_status(decision[c], L)
<1>1. TypeOK => A
  BY BootIsolated
<1>2. TypeOK => [A]_vars
  BY <1>1
<1>3. []TypeOK => [][A]_vars
  BY <1>2, PTL
<1>. QED BY <1>3, TypeCorrect, PTL DEF WorkerIsolation
=============================================================================
