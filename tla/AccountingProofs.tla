--------------------------- MODULE AccountingProofs ---------------------------
(***************************************************************************)
(* Theorems about what requests cost, for every number of requests, workers, *)
(* attempts, evidence, prices and epochs.                                  *)
(***************************************************************************)
EXTENDS Accounting, TotalsProofs, SequenceTheorems

(* A request has one entry in h. *)
OnePerRequest(h) == \A i, j \in 1..Len(h) : h[i].request = h[j].request => i = j

(* What is known of an attempt was accepted for it, and something is known   *)
(* of every attempt for which evidence was accepted.                       *)
Known ==
  /\ \A r \in Requests : \A a \in DOMAIN attempts[r] : attempts[r][a] \in accepted
  /\ \A e \in accepted : ~negative(e) /\ e.attempt \in DOMAIN attempts[e.request]
  /\ IsFiniteSet(accepted)
  /\ \A r \in Requests : IsFiniteSet(DOMAIN attempts[r])

IInv == TypeOK /\ Known /\ OnePerRequest(history) /\ OnePerRequest(saved.history)
-----------------------------------------------------------------------------
(* A recursion over a sequence, as find_price is one, has the values that   *)
(* its definition says.                                                    *)
LEMMA FindPriceSteps ==
  ASSUME NEW obs, Len(obs) \in Nat, NEW kind, NEW t, NEW dev, NEW res
  PROVE  \E b : /\ find_price(obs, kind, t, dev, res) = b[Len(obs)]
                /\ b[0] = 0
                /\ \A n \in 1..Len(obs) :
                     b[n] = IF /\ obs_applies(obs[n], kind, t, dev, res)
                               /\ \/ b[n - 1] = 0
                                  \/ obs[n].device # 0 /\ obs[b[n - 1]].device = 0
                                  \/ obs[n].resource # 0 /\ obs[b[n - 1]].resource = 0
                            THEN n ELSE b[n - 1]
<1> DEFINE L == Len(obs)
           Step(n, v) == IF /\ obs_applies(obs[n], kind, t, dev, res)
                            /\ \/ v = 0
                               \/ obs[n].device # 0 /\ obs[v].device = 0
                               \/ obs[n].resource # 0 /\ obs[v].resource = 0
                         THEN n ELSE v
           Steps(g, m) == g = [n \in 0..m |-> IF n = 0 THEN 0 ELSE Step(n, g[n - 1])]
           T == {m \in Nat : ~ \E g : Steps(g, m)}
<1> HIDE DEF Step
<1>1. T = {}
  <2>1. SUFFICES ASSUME T # {} PROVE FALSE
    OBVIOUS
  <2>2. T \in SUBSET Nat
    OBVIOUS
  <2>3. PICK m \in T : \A k \in T : m <= k
    <3> HIDE DEF T
    <3>. QED BY <2>1, <2>2, LeastElement
  <2>4. CASE m = 0
    <3>1. Steps([n \in 0..0 |-> 0], 0)
      OBVIOUS
    <3>. QED BY <2>3, <2>4, <3>1
  <2>5. CASE m # 0
    <3>1. m - 1 \in Nat /\ m - 1 \notin T /\ m \in Nat
      <4> HIDE DEF T
      <4>. QED BY <2>2, <2>3, <2>5
    <3>2. PICK g : Steps(g, m - 1)
      BY <3>1
    <3> DEFINE h == [n \in 0..m |-> IF n = m THEN Step(m, g[m - 1]) ELSE g[n]]
    <3>3. \A n \in 0..m : h[n] = IF n = 0 THEN 0 ELSE Step(n, h[n - 1])
      BY <2>5, <3>1, <3>2
    <3>4. Steps(h, m)
      BY <3>3
    <3>. QED BY <2>3, <3>4
  <2>. QED BY <2>4, <2>5
<1>2. \E g : Steps(g, L)
  BY <1>1
<1> DEFINE b == CHOOSE g : Steps(g, L)
<1>3. Steps(b, L)
  <2> HIDE DEF Steps
  <2>. QED BY <1>2
<1>4. find_price(obs, kind, t, dev, res) = b[L]
  BY DEF find_price, Step
<1> HIDE DEF b
<1>. QED BY <1>3, <1>4 DEF Step

(* o is for any device and any resource. *)
General(o) == o.device = 0 /\ o.resource = 0

(* find_price returns a price that applies if there is one, and a general    *)
(* one only if every price that applies is general.                        *)
LEMMA FindPrice ==
  ASSUME NEW obs, Len(obs) \in Nat, NEW kind, NEW t, NEW dev, NEW res,
         NEW i, i = find_price(obs, kind, t, dev, res)
  PROVE  /\ i \in 0..Len(obs)
         /\ i # 0 => obs_applies(obs[i], kind, t, dev, res)
         /\ i # 0 /\ General(obs[i]) =>
              \A j \in 1..Len(obs) : obs_applies(obs[j], kind, t, dev, res) => General(obs[j])
<1> DEFINE App(j) == obs_applies(obs[j], kind, t, dev, res)
           Step(n, v) == IF /\ App(n)
                            /\ \/ v = 0
                               \/ obs[n].device # 0 /\ obs[v].device = 0
                               \/ obs[n].resource # 0 /\ obs[v].resource = 0
                         THEN n ELSE v
           Good(n, v) == /\ v \in 0..n
                         /\ v = 0 => \A j \in 1..n : ~App(j)
                         /\ v # 0 => App(v)
                         /\ v # 0 /\ General(obs[v]) => \A j \in 1..n : App(j) => General(obs[j])
<1>1. PICK b : i = b[Len(obs)] /\ b[0] = 0 /\ \A n \in 1..Len(obs) : b[n] = Step(n, b[n - 1])
  BY FindPriceSteps
<1>2. ASSUME NEW n \in Nat, n # 0, NEW v, Good(n - 1, v) PROVE Good(n, Step(n, v))
  <2> HIDE DEF App
  <2>1. v \in 0..n /\ n \in 1..n /\ \A j \in 1..n : j = n \/ j \in 1..n - 1
    BY <1>2
  <2>2. CASE Step(n, v) = n
    <3>1. Step(n, v) # 0 /\ Step(n, v) \in 0..n
      BY <1>2, <2>2
    <3>2. App(n)
      BY <1>2, <2>2
    <3>3. ASSUME General(obs[n]), NEW j \in 1..n, App(j) PROVE General(obs[j])
      <4>1. v = 0 \/ v = n
        BY <2>2, <3>3 DEF General
      <4>2. v = 0
        BY <1>2, <4>1
      <4>. QED BY <1>2, <2>1, <3>3, <4>2
    <3> HIDE DEF Step
    <3>. QED BY <2>2, <3>1, <3>2, <3>3
  <2>3. CASE Step(n, v) # n
    <3>1. Step(n, v) = v
      BY <2>3
    <3>2. v = 0 => ~App(n)
      BY <2>3
    <3>3. v # 0 /\ General(obs[v]) /\ App(n) => General(obs[n])
      BY <2>3 DEF General
    <3> HIDE DEF Step
    <3>. QED BY <1>2, <2>1, <3>1, <3>2, <3>3
  <2>. QED BY <2>2, <2>3
<1> DEFINE T == {n \in 0..Len(obs) : ~Good(n, b[n])}
<1>3. T = {}
  <2>1. SUFFICES ASSUME T # {} PROVE FALSE
    OBVIOUS
  <2>2. T \in SUBSET Nat
    OBVIOUS
  <2>3. PICK m \in T : \A k \in T : m <= k
    <3> HIDE DEF T
    <3>. QED BY <2>1, <2>2, LeastElement
  <2>4. m # 0
    BY <1>1, <2>3
  <2> HIDE DEF Good, Step
  <2>5. m - 1 \in 0..Len(obs) /\ m - 1 \notin T /\ m \in 1..Len(obs)
    BY <2>3, <2>4
  <2>6. Good(m - 1, b[m - 1])
    BY <2>5
  <2>7. Good(m, b[m])
    BY <1>1, <1>2, <2>5, <2>6
  <2>. QED BY <2>3, <2>7
<1>4. Good(Len(obs), b[Len(obs)])
  <2> HIDE DEF Good
  <2>. QED BY <1>3
<1>. QED BY <1>1, <1>4
-----------------------------------------------------------------------------
(* The least c that pays for an amount m at d for each. *)
Pays(c, m, d) == c \in 0..m /\ c * d >= m /\ (c - 1) * d < m

(* There is one such c. *)
LEMMA PaysUnique ==
  ASSUME NEW m \in Nat, NEW d \in Nat, d # 0, NEW c, Pays(c, m, d), NEW e, Pays(e, m, d)
  PROVE  c = e
<1>1. ASSUME NEW x \in Nat, NEW y \in Nat, x < y, x * d >= m, (y - 1) * d < m PROVE FALSE
  <2>1. PICK z \in Nat : z = (y - 1) - x
    BY <1>1
  <2>2. y - 1 = x + z
    BY <2>1
  <2>3. (x + z) * d = x * d + z * d
    OBVIOUS
  <2>4. z * d \in Nat /\ x * d \in Nat
    OBVIOUS
  <2>. QED BY <1>1, <2>2, <2>3, <2>4
<1>2. c \in Nat /\ e \in Nat
  BY DEF Pays
<1>3. ~(c < e) /\ ~(e < c)
  BY <1>1, <1>2 DEF Pays
<1>. QED BY <1>2, <1>3

(* Division rounded up is it. *)
LEMMA RoundUpPays ==
  ASSUME NEW m \in Nat, NEW d \in Nat, d # 0,
         NEW up, up = IF m % d # 0 THEN m \div d + 1 ELSE m \div d
  PROVE  Pays(up, m, d)
<1>1. m \div d \in Nat /\ m % d \in Nat /\ m % d < d /\ m = d * (m \div d) + (m % d)
  OBVIOUS
<1>2. PICK q \in Nat, r \in Nat : q = m \div d /\ r = m % d /\ r < d /\ m = d * q + r
  BY <1>1
<1>3. up = IF r # 0 THEN q + 1 ELSE q
  BY <1>2
<1>4. (q + 1) * d = d * q + d /\ (q - 1) * d = d * q - d /\ q * d = d * q /\ d * q \in Nat
  OBVIOUS
<1>5. q <= d * q
  OBVIOUS
<1>6. up \in Nat /\ up * d >= m /\ (up - 1) * d < m
  <2>1. CASE r = 0
    BY <1>2, <1>3, <1>4, <2>1
  <2>2. CASE r # 0
    <3>1. up = q + 1 /\ (q + 1) - 1 = q
      BY <1>3, <2>2
    <3>. QED BY <1>2, <1>4, <2>2, <3>1
  <2>. QED BY <2>1, <2>2
<1>7. up <= m
  BY <1>2, <1>3, <1>5
<1>. QED BY <1>6, <1>7 DEF Pays

(* The largest product that fits is a natural number. *)
LEMMA UIntMaxInt == UIntMax \in Nat
BY WidthAssumption DEF UIntMax

(* ceil_mul_div returns the least cost that pays for the amount, and throws *)
(* only if the product or the cost does not fit.                           *)
LEMMA CeilMulDiv ==
  ASSUME NEW a \in Nat, NEW b \in Nat, NEW d \in Nat, d # 0, NEW c, c = ceil_mul_div(a, b, d)
  PROVE  /\ ~c.thrown => Pays(c.value, a * b, d)
         /\ c.thrown => a * b > UIntMax \/ \A v : Pays(v, a * b, d) => v > IntMax
<1> DEFINE up == IF (a * b) % d # 0 THEN (a * b) \div d + 1 ELSE (a * b) \div d
<1>1. CASE a = 0
  <2>1. c = Value(0)
    BY <1>1 DEF ceil_mul_div
  <2>2. ~c.thrown /\ c.value = 0
    BY <2>1 DEF Value
  <2>3. a * b = 0 /\ 0 * d = 0 /\ (0 - 1) * d = 0 - d
    BY <1>1
  <2>4. Pays(0, 0, d)
    BY <2>3 DEF Pays
  <2>. QED BY <2>2, <2>3, <2>4
<1>2. CASE a # 0 /\ b > UIntMax \div a
  <2>1. PICK u \in Nat : u = UIntMax
    BY UIntMaxInt
  <2>2. c = Thrown
    BY <1>2 DEF ceil_mul_div
  <2>3. PICK q \in Nat, r \in Nat : q = u \div a /\ u = a * q + r /\ r < a
    BY <1>2, <2>1
  <2>4. PICK z \in Nat : b = q + 1 + z
    <3>1. b > q
      BY <1>2, <2>1, <2>3
    <3>2. b - (q + 1) \in Nat /\ b = q + 1 + (b - (q + 1))
      BY <3>1
    <3>. QED BY <3>2
  <2>5. a * b = a * q + a + a * z /\ a * z \in Nat /\ a * q \in Nat
    BY <2>4
  <2>6. a * b > u
    BY <2>3, <2>5
  <2>. QED BY <2>1, <2>2, <2>6 DEF Thrown
<1>3. CASE a # 0 /\ ~(b > UIntMax \div a)
  <2>1. a * b \in Nat
    OBVIOUS
  <2>2. Pays(up, a * b, d)
    <3>1. PICK m \in Nat : m = a * b
      BY <2>1
    <3>. QED BY <3>1, RoundUpPays
  <2>3. c = IF up > IntMax THEN Thrown ELSE Value(up)
    BY <1>3 DEF ceil_mul_div
  <2> HIDE DEF up
  <2>4. CASE up > IntMax
    <3>1. \A v : Pays(v, a * b, d) => v = up
      BY <2>1, <2>2, PaysUnique
    <3>2. c.thrown
      BY <2>3, <2>4 DEF Thrown
    <3>. QED BY <2>4, <3>1, <3>2
  <2>5. CASE ~(up > IntMax)
    <3>1. ~c.thrown /\ c.value = up
      BY <2>3, <2>5 DEF Value
    <3>. QED BY <2>2, <3>1
  <2>. QED BY <2>4, <2>5
<1>. QED BY <1>1, <1>2, <1>3

(* LeastCost is what pays for the amount at the price that find_price finds. *)
LEMMA LeastCostPays ==
  ASSUME NEW e, NEW k, NEW amount \in Nat,
         NEW i, i = find_price(observations, k, now, e.device, e.resource), i # 0,
         observations[i].amount \in Nat, Denominator[k] \in Nat \ {0}
  PROVE  Pays(LeastCost(e, k, amount), amount * observations[i].amount, Denominator[k])
<1> DEFINE b == observations[i].amount
           d == Denominator[k]
<1>1. LeastCost(e, k, amount) = CHOOSE c \in 0..(amount * b) : c * d >= amount * b /\ (c - 1) * d < amount * b
  BY DEF LeastCost, denominator_for
<1>2. PICK m \in Nat : m = amount * b
  OBVIOUS
<1>3. PICK n \in Nat \ {0} : n = d
  OBVIOUS
<1>4. LeastCost(e, k, amount) = CHOOSE c \in 0..m : c * n >= m /\ (c - 1) * n < m
  BY <1>1, <1>2, <1>3
<1>5. \E c \in 0..m : c * n >= m /\ (c - 1) * n < m
  BY RoundUpPays DEF Pays
<1>6. Pays(LeastCost(e, k, amount), m, n)
  BY <1>4, <1>5 DEF Pays
<1>. QED BY <1>2, <1>3, <1>6
-----------------------------------------------------------------------------
(* The parts of the type invariant that a cost depends on. *)
LEMMA Typed ==
  ASSUME TypeOK
  PROVE  /\ Len(observations) \in Nat
         /\ \A i \in 1..Len(observations) : observations[i] \in PriceObservation
         /\ \A k \in Kinds : Denominator[k] \in Nat \ {0}
         /\ \A r \in Requests : \A a \in DOMAIN attempts[r] : attempts[r][a] \in Evidence
         /\ \A e \in Evidence : e \in CostEvidence
<1>1. observations \in Seq(Observations)
  BY DEF TypeOK
<1>2. Len(observations) \in Nat /\ \A i \in 1..Len(observations) : observations[i] \in Observations
  BY <1>1
<1>3. ASSUME NEW r \in Requests, NEW a \in DOMAIN attempts[r] PROVE attempts[r][a] \in Evidence
  <2>1. attempts[r] \in EvidenceMap
    BY DEF TypeOK
  <2>2. PICK A : attempts[r] \in [A -> Evidence]
    BY <2>1 DEF EvidenceMap
  <2>. QED BY <2>2
<1>. QED BY <1>2, <1>3, AccountingAssumption, PricingAssumption

(* The cost of an amount that is not negative: if it does not throw it is   *)
(* the least that pays, and it throws for want of a price or for size.     *)
LEMMA PricedIs ==
  ASSUME TypeOK, NEW e, NEW k \in Kinds, NEW amount \in Nat,
         NEW c, c = priced(observations, now, e, k, amount),
         NEW i, i = find_price(observations, k, now, e.device, e.resource)
  PROVE  /\ ~c.thrown => c.value = LeastCost(e, k, amount)
         /\ c.thrown /\ i # 0 => \/ amount * observations[i].amount > UIntMax
                                 \/ LeastCost(e, k, amount) > IntMax
         /\ LeastCost(e, k, amount) \in Nat
<1>1. /\ i \in 0..Len(observations)
      /\ i # 0 => obs_applies(observations[i], k, now, e.device, e.resource)
  BY Typed, FindPrice
<1>2. CASE i = 0
  <2>1. LeastCost(e, k, amount) = 0
    BY <1>2 DEF LeastCost
  <2>2. c = IF amount = 0 THEN Value(0) ELSE Thrown
    BY <1>2 DEF priced, project_component
  <2>. QED BY <1>2, <2>1, <2>2 DEF Value, Thrown
<1>3. CASE i # 0
  <2>1. i \in 1..Len(observations)
    BY <1>1, <1>3, Typed
  <2>2. observations[i] \in PriceObservation /\ observations[i].kind = k
    BY <1>1, <1>3, <2>1, Typed DEF obs_applies
  <2>3. PICK b \in Nat : b = observations[i].amount
    BY <2>2 DEF PriceObservation
  <2>4. PICK d \in Nat \ {0} : d = Denominator[k]
    BY Typed
  <2>5. Pays(LeastCost(e, k, amount), amount * b, d)
    BY <1>3, <2>3, <2>4, LeastCostPays
  <2>6. PICK m \in Nat : m = amount * b
    OBVIOUS
  <2>7. LeastCost(e, k, amount) \in Nat
    BY <2>5, <2>6 DEF Pays
  <2>8. CASE amount = 0
    <3>1. c = Value(0)
      BY <2>8 DEF priced
    <3>2. Pays(LeastCost(e, k, amount), 0, d)
      BY <2>5, <2>8
    <3>3. LeastCost(e, k, amount) = 0
      BY <3>2 DEF Pays
    <3>. QED BY <2>7, <3>1, <3>3 DEF Value
  <2>9. CASE amount # 0
    <3>1. c = ceil_mul_div(amount, b, d)
      BY <1>3, <2>2, <2>3, <2>4, <2>9 DEF priced, project_component, denominator_for
    <3>2. /\ ~c.thrown => Pays(c.value, m, d)
          /\ c.thrown => m > UIntMax \/ \A v : Pays(v, m, d) => v > IntMax
      BY <2>6, <3>1, CeilMulDiv
    <3>3. Pays(LeastCost(e, k, amount), m, d)
      BY <2>5, <2>6
    <3>4. ~c.thrown => c.value = LeastCost(e, k, amount)
      BY <3>2, <3>3, PaysUnique
    <3>. QED BY <2>3, <2>6, <2>7, <3>2, <3>3, <3>4
  <2>. QED BY <2>8, <2>9
<1>. QED BY <1>2, <1>3

(* Evidence that was accepted has amounts. *)
LEMMA AcceptedAmounts ==
  ASSUME IInv, NEW e \in accepted
  PROVE  /\ e \in CostEvidence /\ e.recompute \in Nat /\ \A k \in Kinds : e.usage[k] \in Nat
         /\ e.request \in Requests /\ e.attempt \in DOMAIN attempts[e.request]
<1>1. e \in CostEvidence
  BY Typed DEF IInv, TypeOK
<1>2. ~negative(e) /\ e.attempt \in DOMAIN attempts[e.request]
  BY DEF IInv, Known
<1>3. e.recompute \in Int /\ (\A k \in Kinds : e.usage[k] \in Int) /\ e.request \in Requests
  BY <1>1 DEF CostEvidence
<1>. QED BY <1>1, <1>2, <1>3 DEF negative

(* Its costs round up. *)
LEMMA RoundedUpHolds ==
  ASSUME IInv PROVE RoundedUp
<1>1. SUFFICES ASSUME NEW e \in accepted, NEW k \in Kinds, e.usage[k] # 0,
                      NEW i, i = find_price(observations, k, now, e.device, e.resource), i # 0,
                      NEW c, c = measured(observations, now, e, k)
               PROVE  IF c.thrown
                      THEN \/ e.usage[k] * observations[i].amount > UIntMax
                           \/ LeastCost(e, k, e.usage[k]) > IntMax
                      ELSE c.value = LeastCost(e, k, e.usage[k])
  BY DEF RoundedUp
<1>2. PICK n \in Nat : n = e.usage[k]
  BY AcceptedAmounts
<1>3. c = priced(observations, now, e, k, n)
  BY <1>1, <1>2 DEF measured
<1>4. /\ ~c.thrown => c.value = LeastCost(e, k, n)
      /\ c.thrown /\ i # 0 => n * observations[i].amount > UIntMax \/ LeastCost(e, k, n) > IntMax
  BY <1>1, <1>3, PricedIs DEF IInv
<1>. QED BY <1>1, <1>2, <1>4

(* A price for a device or a resource goes first. *)
LEMMA SpecificBeforeGeneralHolds ==
  ASSUME IInv PROVE SpecificBeforeGeneral
<1>1. TypeOK
  BY DEF IInv
<1>. QED BY <1>1, Typed, FindPrice DEF SpecificBeforeGeneral, General
-----------------------------------------------------------------------------
(* The largest and the smallest of finitely many numbers. *)
LEMMA MaxMin ==
  ASSUME NEW S, IsFiniteSet(S), S # {}, NEW f \in [S -> Nat]
  PROVE  /\ Max({f[x] : x \in S}) \in Nat /\ Min({f[x] : x \in S}) \in Nat
         /\ \A x \in S : f[x] <= Max({f[y] : y \in S}) /\ Min({f[y] : y \in S}) <= f[x]
<1> DEFINE V == {f[x] : x \in S}
           P == {R \in SUBSET S : R = {} \/ \E x \in R : \A y \in R : f[x] >= f[y]}
<1>1. ASSUME NEW R \in SUBSET S, \A x \in R : R \ {x} \in P PROVE R \in P
  <2>1. SUFFICES ASSUME R # {} PROVE \E x \in R : \A y \in R : f[x] >= f[y]
    OBVIOUS
  <2>2. PICK z \in R : TRUE
    BY <2>1
  <2>3. CASE R \ {z} = {}
    BY <2>2, <2>3
  <2>4. CASE R \ {z} # {}
    <3>1. PICK x \in R \ {z} : \A y \in R \ {z} : f[x] >= f[y]
      BY <1>1, <2>4
    <3>2. CASE f[x] >= f[z]
      BY <3>1, <3>2
    <3>3. CASE ~(f[x] >= f[z])
      <4>1. \A y \in R : f[z] >= f[y]
        BY <3>1, <3>3
      <4>. QED BY <4>1
    <3>. QED BY <3>2, <3>3
  <2>. QED BY <2>3, <2>4
<1>2. S \in P
  <2> HIDE DEF P
  <2>. QED BY <1>1, SubsetInduction
<1>3. V \in SUBSET Nat /\ V # {} /\ \E x \in V : \A y \in V : x >= y
  BY <1>2
<1>4. \E x \in V : \A y \in V : x <= y
  <2> HIDE DEF V
  <2>. QED BY <1>3, LeastElement
<1>5. Max(V) \in V /\ (\A y \in V : Max(V) >= y) /\ Min(V) \in V /\ \A y \in V : Min(V) <= y
  <2> HIDE DEF V
  <2>. QED BY <1>3, <1>4 DEF Max, Min
<1>. QED BY <1>3, <1>5

(* What the amounts of evidence cost. *)
LEMMA CostsTyped ==
  ASSUME IInv, NEW e \in accepted
  PROVE  /\ \A k \in Kinds : LeastCost(e, k, e.usage[k]) \in Nat
         /\ LeastCost(e, Accelerator, e.recompute) \in Nat
         /\ MeasuredCost(e) \in Nat /\ FullCost(e) \in Nat
<1>1. \A k \in Kinds : LeastCost(e, k, e.usage[k]) \in Nat
  BY AcceptedAmounts, PricedIs DEF IInv
<1>2. LeastCost(e, Accelerator, e.recompute) \in Nat
  BY AcceptedAmounts, PricedIs, PricingAssumption DEF IInv
<1> DEFINE f == [k \in Kinds |-> LeastCost(e, k, e.usage[k])]
<1>3. f \in [Kinds -> Nat] /\ DOMAIN f = Kinds /\ Kinds \in SUBSET Kinds
  BY <1>1
<1>4. MeasuredCost(e) = SumFunctionOnSet(f, Kinds)
  BY <1>3 DEF MeasuredCost, SumFunction
<1>5. MeasuredCost(e) \in Nat
  <2> HIDE DEF f
  <2>. QED BY <1>3, <1>4, SumNat, PricingAssumption
<1>. QED BY <1>1, <1>2, <1>5 DEF FullCost

(* They are what project charges if it does not throw. *)
LEMMA CostsCharged ==
  ASSUME IInv, NEW e \in accepted, ~recomputed(observations, now, e).thrown,
         \A k \in Kinds : ~measured(observations, now, e, k).thrown
  PROVE  /\ measured_cost(observations, now, e) = MeasuredCost(e)
         /\ recomputed(observations, now, e).value = LeastCost(e, Accelerator, e.recompute)
<1>1. ASSUME NEW k \in Kinds
      PROVE  measured(observations, now, e, k).value = LeastCost(e, k, e.usage[k])
  <2>1. PICK n \in Nat : n = e.usage[k]
    BY AcceptedAmounts
  <2>2. PICK c : c = priced(observations, now, e, k, n)
    OBVIOUS
  <2>3. measured(observations, now, e, k) = c
    BY <2>1, <2>2 DEF measured
  <2>4. ~c.thrown
    BY <2>3
  <2>5. c.value = LeastCost(e, k, n)
    BY <2>2, <2>4, PricedIs DEF IInv
  <2>. QED BY <2>1, <2>3, <2>5
<1>2. recomputed(observations, now, e).value = LeastCost(e, Accelerator, e.recompute)
  BY AcceptedAmounts, PricedIs, PricingAssumption DEF IInv, recomputed
<1>3. [k \in Kinds |-> measured(observations, now, e, k).value]
      = [k \in Kinds |-> LeastCost(e, k, e.usage[k])]
  BY <1>1
<1>. QED BY <1>2, <1>3 DEF measured_cost, MeasuredCost

(* The evidence of a request was accepted, and there is finitely much. *)
LEMMA EvidenceOf ==
  ASSUME IInv, NEW r \in Requests
  PROVE  evidence_of(r) \in SUBSET accepted /\ IsFiniteSet(evidence_of(r))
<1>1. evidence_of(r) \in SUBSET accepted
  BY DEF IInv, Known, evidence_of
<1>2. IsFiniteSet(accepted)
  BY DEF IInv, Known
<1>. QED BY <1>1, <1>2, FS_Subset

(* The measured cost and the recomputation of the evidence of a request. *)
Measured(r) == [e \in evidence_of(r) |-> MeasuredCost(e)]
Recomputed(r) == [e \in evidence_of(r) |-> LeastCost(e, Accelerator, e.recompute)]

(* Their sum is what the request is charged, and what the failed attempts    *)
(* measured is the component RETRY.                                        *)
LEMMA RealizedIs ==
  ASSUME IInv, NEW r \in Requests, Priced(r)
  PROVE  /\ Measured(r) \in [evidence_of(r) -> Nat]
         /\ Recomputed(r) \in [evidence_of(r) -> Nat]
         /\ realized_request_cost(r) =
              SumFunctionOnSet(Measured(r), evidence_of(r))
              + SumFunctionOnSet(Recomputed(r), evidence_of(r))
         /\ components(observations, evidence_of(r), now).retry =
              SumFunctionOnSet(Measured(r), {e \in evidence_of(r) : failed(e)})
<1> DEFINE E == evidence_of(r)
           F == {e \in E : failed(e)}
           G == [e \in F |-> MeasuredCost(e)]
           c == components(observations, E, now)
<1>1. E \in SUBSET accepted /\ IsFiniteSet(E)
  BY EvidenceOf
<1>2. /\ Measured(r) \in [E -> Nat] /\ Recomputed(r) \in [E -> Nat]
  BY <1>1, CostsTyped DEF Measured, Recomputed
<1>3. \A e \in E : ~recomputed(observations, now, e).thrown
                   /\ \A k \in Kinds : ~measured(observations, now, e, k).thrown
  BY DEF Priced, throws
<1>4. \A e \in E : /\ measured_cost(observations, now, e) = MeasuredCost(e)
                   /\ recomputed(observations, now, e).value = LeastCost(e, Accelerator, e.recompute)
  BY <1>1, <1>3, CostsCharged
<1> HIDE DEF E
<1>5. /\ [e \in E |-> measured_cost(observations, now, e)] = Measured(r)
      /\ [e \in E |-> recomputed(observations, now, e).value] = Recomputed(r)
      /\ [e \in {x \in E : failed(x)} |-> measured_cost(observations, now, e)] = G
  BY <1>4 DEF Measured, Recomputed, E
<1>6. /\ c.measured = SumFunction(Measured(r)) /\ c.recomputation = SumFunction(Recomputed(r))
      /\ c.retry = SumFunction(G)
  BY <1>5 DEF components
<1>7. DOMAIN Measured(r) = E /\ DOMAIN Recomputed(r) = E /\ DOMAIN G = F
  BY <1>2
<1>8. c.measured + c.recomputation = SumFunctionOnSet(Measured(r), E) + SumFunctionOnSet(Recomputed(r), E)
  BY <1>6, <1>7 DEF SumFunction
<1>9. G \in [F -> Nat] /\ IsFiniteSet(F) /\ F \in SUBSET E /\ \A e \in F : G[e] = Measured(r)[e]
  <2>1. F \in SUBSET E
    OBVIOUS
  <2>2. IsFiniteSet(F)
    BY <1>1, <2>1, FS_Subset
  <2>. QED BY <1>1, <2>1, <2>2, CostsTyped DEF Measured, E
<1>10. c.retry = SumFunctionOnSet(G, F)
  BY <1>6, <1>7 DEF SumFunction
<1>11. SumFunctionOnSet(G, F) = SumFunctionOnSet(Measured(r), F)
  <2> HIDE DEF G, F
  <2>. QED BY <1>1, <1>2, <1>9, SumSame
<1>12. realized_request_cost(r) = c.measured + c.recomputation
  BY DEF realized_request_cost, total, E
<1>. QED BY <1>2, <1>8, <1>10, <1>11, <1>12 DEF E

(* Every unit of cost is counted once. *)
LEMMA RetryCountedOnceHolds ==
  ASSUME IInv PROVE RetryCountedOnce
<1>1. SUFFICES ASSUME NEW r \in Requests, Priced(r)
               PROVE  realized_request_cost(r) =
                        components(observations, evidence_of(r), now).retry
                        + SumFunction([e \in {x \in evidence_of(r) : ~failed(x)} |-> MeasuredCost(e)])
                        + SumFunction([e \in evidence_of(r) |-> LeastCost(e, Accelerator, e.recompute)])
  BY DEF RetryCountedOnce
<1> DEFINE E == evidence_of(r)
           F == {e \in E : failed(e)}
           N == {e \in E : ~failed(e)}
           G == [e \in N |-> MeasuredCost(e)]
<1>2. E \in SUBSET accepted /\ IsFiniteSet(E)
  BY EvidenceOf
<1>3. /\ Measured(r) \in [E -> Nat] /\ Recomputed(r) \in [E -> Nat]
      /\ realized_request_cost(r) = SumFunctionOnSet(Measured(r), E) + SumFunctionOnSet(Recomputed(r), E)
      /\ components(observations, E, now).retry = SumFunctionOnSet(Measured(r), F)
  BY <1>1, RealizedIs
<1>4. F \in SUBSET E /\ N \in SUBSET E /\ E \ F = N
  OBVIOUS
<1>5. SumFunctionOnSet(Measured(r), E) = SumFunctionOnSet(Measured(r), F) + SumFunctionOnSet(Measured(r), N)
  <2> HIDE DEF E, F, N
  <2>. QED BY <1>2, <1>3, <1>4, SumSplit
<1>6. G \in [N -> Nat] /\ DOMAIN G = N /\ \A e \in N : G[e] = Measured(r)[e]
  BY <1>2, CostsTyped DEF Measured
<1>7. SumFunction(G) = SumFunctionOnSet(Measured(r), N)
  <2>1. IsFiniteSet(N)
    BY <1>2, <1>4, FS_Subset
  <2> HIDE DEF E, N, G
  <2>2. SumFunctionOnSet(G, N) = SumFunctionOnSet(Measured(r), N)
    BY <1>2, <1>3, <1>4, <1>6, <2>1, SumSame
  <2>. QED BY <1>6, <2>2 DEF SumFunction
<1>8. SumFunction(Recomputed(r)) = SumFunctionOnSet(Recomputed(r), E)
  BY <1>3 DEF SumFunction
<1>9. /\ SumFunctionOnSet(Measured(r), F) \in Nat /\ SumFunctionOnSet(Measured(r), N) \in Nat
      /\ SumFunctionOnSet(Recomputed(r), E) \in Nat
  <2>1. E \in SUBSET E
    OBVIOUS
  <2> HIDE DEF E, F, N
  <2>. QED BY <1>2, <1>3, <1>4, <2>1, SumNat
<1>. QED BY <1>3, <1>5, <1>7, <1>8, <1>9 DEF Recomputed

(* Each attempt is charged for one evidence that was accepted for it. *)
LEMMA ChargedOncePerAttemptHolds ==
  ASSUME IInv PROVE ChargedOncePerAttempt
<1> DEFINE Of(r, a) == {e \in accepted : e.request = r /\ e.attempt = a}
           Tried(r) == {e.attempt : e \in {x \in accepted : x.request = r}}
           Dearest(r) == [a \in Tried(r) |-> Max({FullCost(e) : e \in Of(r, a)})]
           Cheapest(r) == [a \in Tried(r) |-> Min({FullCost(e) : e \in Of(r, a)})]
<1>1. SUFFICES ASSUME NEW r \in Requests, Priced(r)
               PROVE  /\ realized_request_cost(r) <= SumFunction(Dearest(r))
                      /\ realized_request_cost(r) >= SumFunction(Cheapest(r))
  BY DEF ChargedOncePerAttempt
<1> DEFINE E == evidence_of(r)
           A == DOMAIN attempts[r]
           m == [a \in A |-> attempts[r][a]]
           C == [e \in E |-> FullCost(e)]
           H == [a \in A |-> FullCost(attempts[r][a])]
<1>2. E \in SUBSET accepted /\ IsFiniteSet(E) /\ IsFiniteSet(A)
  BY EvidenceOf DEF IInv, Known
<1>3. \A a \in A : /\ attempts[r][a] \in accepted /\ attempts[r][a] \in E
                   /\ attempts[r][a].request = r /\ attempts[r][a].attempt = a
  BY DEF IInv, Known, TypeOK, evidence_of
<1>4. Tried(r) = A
  <2>1. ASSUME NEW a \in A PROVE a \in Tried(r)
    BY <1>3
  <2>2. ASSUME NEW e \in accepted, e.request = r PROVE e.attempt \in A
    BY <2>2, AcceptedAmounts
  <2>. QED BY <2>1, <2>2
<1>5. C \in [E -> Nat] /\ H \in [A -> Nat]
  BY <1>2, <1>3, CostsTyped
<1>6. realized_request_cost(r) = SumFunctionOnSet(C, E)
  <2>1. /\ Measured(r) \in [E -> Nat] /\ Recomputed(r) \in [E -> Nat]
        /\ realized_request_cost(r) = SumFunctionOnSet(Measured(r), E) + SumFunctionOnSet(Recomputed(r), E)
    BY <1>1, RealizedIs
  <2>2. \A e \in E : C[e] = Measured(r)[e] + Recomputed(r)[e]
    BY DEF FullCost, Measured, Recomputed
  <2> HIDE DEF C, E
  <2>. QED BY <1>2, <1>5, <2>1, <2>2, SumPlus
<1>7. SumFunctionOnSet(C, E) = SumFunctionOnSet(H, A)
  <2>1. m \in [A -> E] /\ \A a, b \in A : m[a] = m[b] => a = b
    BY <1>3
  <2>2. \A a \in A : H[a] = C[m[a]]
    BY <1>3
  <2>3. E = {m[a] : a \in A}
    BY DEF evidence_of
  <2> HIDE DEF C, E, H, m, A
  <2>4. SumFunctionOnSet(C, {m[a] : a \in A}) = SumFunctionOnSet(H, A)
    BY <1>2, <1>5, <2>1, <2>2, SumReindex
  <2>. QED BY <2>3, <2>4
<1>8. ASSUME NEW a \in A
      PROVE  /\ Dearest(r)[a] \in Nat /\ Cheapest(r)[a] \in Nat
             /\ H[a] <= Dearest(r)[a] /\ Cheapest(r)[a] <= H[a]
  <2> DEFINE S == Of(r, a)
             f == [e \in S |-> FullCost(e)]
  <2>1. attempts[r][a] \in S
    BY <1>3
  <2>2. IsFiniteSet(S)
    <3>1. S \in SUBSET accepted /\ IsFiniteSet(accepted)
      BY DEF IInv, Known
    <3>. QED BY <3>1, FS_Subset
  <2>3. f \in [S -> Nat] /\ f[attempts[r][a]] = H[a]
    BY <2>1, CostsTyped
  <2>4. {FullCost(e) : e \in Of(r, a)} = {f[e] : e \in S}
    OBVIOUS
  <2>5. Dearest(r)[a] = Max({f[e] : e \in S}) /\ Cheapest(r)[a] = Min({f[e] : e \in S})
    BY <1>4, <2>4
  <2> HIDE DEF S, f, H, Dearest, Cheapest
  <2>. QED BY <2>1, <2>2, <2>3, <2>5, MaxMin
<1>9. Dearest(r) \in [A -> Nat] /\ Cheapest(r) \in [A -> Nat]
  BY <1>4, <1>8
<1>10. SumFunction(Dearest(r)) = SumFunctionOnSet(Dearest(r), A) /\ SumFunction(Cheapest(r)) = SumFunctionOnSet(Cheapest(r), A)
  BY <1>9 DEF SumFunction
<1> HIDE DEF Dearest, Cheapest, H, A
<1>11. SumFunctionOnSet(H, A) <= SumFunctionOnSet(Dearest(r), A)
  BY <1>2, <1>5, <1>8, <1>9, SumMonotone
<1>12. SumFunctionOnSet(Cheapest(r), A) <= SumFunctionOnSet(H, A)
  BY <1>2, <1>5, <1>8, <1>9, SumMonotone
<1>13. /\ SumFunctionOnSet(H, A) \in Nat /\ SumFunctionOnSet(Dearest(r), A) \in Nat
       /\ SumFunctionOnSet(Cheapest(r), A) \in Nat
  BY <1>2, <1>5, <1>9, SumNat
<1>. QED BY <1>6, <1>7, <1>10, <1>11, <1>12, <1>13
-----------------------------------------------------------------------------
(* Nothing is known of any attempt at the start of a process. *)
LEMMA NothingKnown == <<>> \in EvidenceMap /\ DOMAIN <<>> = {} /\ IsFiniteSet({})
<1>1. <<>> \in [{} -> Evidence] /\ DOMAIN <<>> = {}
  OBVIOUS
<1>. QED BY <1>1, FS_EmptySet DEF EvidenceMap

(* Publishing a price keeps the ids apart. *)
LEMMA PublishPriceStep ==
  ASSUME IInv, NEW o \in Observations, PublishPrice(o) PROVE IInv'
<1> DEFINE I == {n \in 1..Len(observations) : observations[n].id = o.id}
           i == SelectInSeq(observations, LAMBDA x : x.id = o.id)
<1>1. i = IF I # {} THEN Min(I) ELSE 0
  BY DEF SelectInSeq
<1>2. observations \in Seq(Observations) /\ Len(observations) \in Nat
      /\ \A n \in 1..Len(observations) : observations[n] \in Observations
  BY DEF IInv, TypeOK
<1>3. (i = 0 => I = {}) /\ (i # 0 => i \in I)
  <2>1. I \in SUBSET Nat /\ 0 \notin I
    OBVIOUS
  <2>2. I # {} => Min(I) \in I
    <3> HIDE DEF I
    <3>. QED BY <2>1, LeastElement DEF Min
  <2> HIDE DEF I, i
  <2>. QED BY <1>1, <2>1, <2>2
<1>4. observations' = IF i # 0 THEN [observations EXCEPT ![i] = o] ELSE Append(observations, o)
  BY DEF PublishPrice
<1> HIDE DEF i
<1>5. /\ observations' \in Seq(Observations)
      /\ \A n, j \in 1..Len(observations') : observations'[n].id = observations'[j].id => n = j
  <2>1. \A n, j \in 1..Len(observations) : observations[n].id = observations[j].id => n = j
    BY DEF IInv, TypeOK
  <2>2. CASE i # 0
    <3>1. i \in 1..Len(observations) /\ observations[i].id = o.id
      BY <1>3, <2>2
    <3>2. /\ observations' \in Seq(Observations) /\ Len(observations') = Len(observations)
          /\ \A n \in 1..Len(observations) : observations'[n] = IF n = i THEN o ELSE observations[n]
      BY <1>2, <1>4, <2>2, <3>1
    <3>3. \A n \in 1..Len(observations) : observations'[n].id = observations[n].id
      BY <3>1, <3>2
    <3>. QED BY <2>1, <3>2, <3>3
  <2>3. CASE i = 0
    <3>1. \A n \in 1..Len(observations) : observations[n].id # o.id
      BY <1>3, <2>3
    <3>2. /\ observations' \in Seq(Observations) /\ Len(observations') = Len(observations) + 1
          /\ \A n \in 1..Len(observations') : observations'[n] = IF n = Len(observations) + 1 THEN o ELSE observations[n]
      BY <1>2, <1>4, <2>3
    <3>3. \A n \in 1..Len(observations') : n = Len(observations) + 1 \/ n \in 1..Len(observations)
      BY <1>2, <3>2
    <3>. QED BY <2>1, <3>1, <3>2, <3>3
  <2>. QED BY <2>2, <2>3
<1>6. /\ UNCHANGED <<epoch, worker_boots, attempts, history, now, accepted>>
      /\ saved' = [epoch |-> epoch, history |-> history]
  BY DEF PublishPrice, persist
<1>7. epoch \in Epochs /\ history \in Seq(HistoryEntry) /\ OnePerRequest(history)
  BY DEF IInv, TypeOK
<1>8. saved' \in [epoch : 0..MaxEpoch, history : Seq(HistoryEntry)] /\ saved'.history = history
  BY <1>6, <1>7, AccountingAssumption DEF Epochs
<1>9. TypeOK'
  BY <1>5, <1>6, <1>8 DEF IInv, TypeOK, negative
<1>10. Known'
  BY <1>6 DEF IInv, Known, negative
<1>11. OnePerRequest(history') /\ OnePerRequest(saved'.history)
  BY <1>6, <1>7, <1>8
<1>. QED BY <1>9, <1>10, <1>11 DEF IInv

(* Recording evidence replaces what is known of its attempt. *)
LEMMA RecordAttemptStep ==
  ASSUME IInv, NEW e \in Evidence, NEW ep \in Epochs, NEW boot \in Boots \cup {0},
         RecordAttempt(e, ep, boot)
  PROVE  IInv'
<1> DEFINE r == e.request
           M == kept(attempts[r], e)
<1>1. /\ attempts' = [attempts EXCEPT ![r] = M] /\ accepted' = accepted \cup {e}
      /\ UNCHANGED <<epoch, worker_boots, observations, history, now>>
      /\ saved' = [epoch |-> epoch, history |-> history]
  BY DEF RecordAttempt, persist
<1>2. ~negative(e)
  BY DEF RecordAttempt, record_status
<1>3. e \in CostEvidence /\ r \in Requests
  BY AccountingAssumption DEF CostEvidence
<1>4. /\ DOMAIN M = DOMAIN attempts[r] \cup {e.attempt}
      /\ \A a \in DOMAIN M : M[a] = IF a = e.attempt THEN e ELSE attempts[r][a]
      /\ M = [a \in DOMAIN M |-> M[a]]
  BY DEF kept
<1>5. M \in EvidenceMap
  <2>1. attempts[r] \in EvidenceMap
    BY <1>3 DEF IInv, TypeOK
  <2>2. PICK A \in SUBSET {x.attempt : x \in Evidence} : attempts[r] \in [A -> Evidence]
    BY <2>1 DEF EvidenceMap
  <2>3. M \in [A \cup {e.attempt} -> Evidence]
    BY <2>2 DEF kept
  <2>4. A \cup {e.attempt} \in SUBSET {x.attempt : x \in Evidence}
    OBVIOUS
  <2> HIDE DEF M
  <2>. QED BY <2>3, <2>4 DEF EvidenceMap
<1> HIDE DEF M
<1>6. /\ attempts' \in [Requests -> EvidenceMap]
      /\ \A q \in Requests : attempts'[q] = IF q = r THEN M ELSE attempts[q]
  BY <1>1, <1>3, <1>5 DEF IInv, TypeOK
<1>7. epoch \in Epochs /\ history \in Seq(HistoryEntry) /\ OnePerRequest(history)
  BY DEF IInv, TypeOK
<1>8. saved' \in [epoch : 0..MaxEpoch, history : Seq(HistoryEntry)] /\ saved'.history = history
  BY <1>1, <1>7, AccountingAssumption DEF Epochs
<1>9. ASSUME NEW q \in Requests, NEW a \in DOMAIN attempts'[q]
      PROVE  /\ ~negative(attempts'[q][a])
             /\ attempts'[q][a].request = q /\ attempts'[q][a].attempt = a
             /\ attempts'[q][a] \in accepted'
  <2>1. CASE q = r /\ a = e.attempt
    <3>1. attempts'[q][a] = e
      BY <1>4, <1>6, <2>1
    <3>. QED BY <1>1, <1>2, <2>1, <3>1
  <2>2. CASE ~(q = r /\ a = e.attempt)
    <3>1. a \in DOMAIN attempts[q] /\ attempts'[q][a] = attempts[q][a]
      BY <1>4, <1>6, <2>2
    <3>2. /\ ~negative(attempts[q][a]) /\ attempts[q][a] \in accepted
          /\ attempts[q][a].request = q /\ attempts[q][a].attempt = a
      BY <3>1 DEF IInv, TypeOK, Known
    <3>. QED BY <1>1, <3>1, <3>2, SMTT(40)
  <2>. QED BY <2>1, <2>2
<1>10. accepted' \subseteq Evidence
  BY <1>1 DEF IInv, TypeOK
<1>11. \A q \in Requests : \A a : ~negative(attempts'[q][a]) <=> ~negative(attempts[q][a])'
  BY DEF negative
<1>12. TypeOK'
  BY <1>1, <1>6, <1>8, <1>9, <1>10, <1>11 DEF IInv, TypeOK
<1>13. Known'
  <2>1. ASSUME NEW x \in accepted' PROVE ~negative(x) /\ x.attempt \in DOMAIN attempts'[x.request]
    <3>1. CASE x = e
      BY <1>2, <1>3, <1>4, <1>6, <3>1
    <3>2. CASE x \in accepted
      BY <1>4, <1>6, <3>2, AcceptedAmounts DEF IInv, Known
    <3>. QED BY <1>1, <3>1, <3>2
  <2>2. IsFiniteSet(accepted')
    BY <1>1, FS_AddElement DEF IInv, Known
  <2>3. ASSUME NEW q \in Requests PROVE IsFiniteSet(DOMAIN attempts'[q])
    <3>1. IsFiniteSet(DOMAIN attempts[q])
      BY DEF IInv, Known
    <3>2. IsFiniteSet(DOMAIN attempts[q] \cup {e.attempt})
      BY <3>1, FS_AddElement
    <3>. QED BY <1>4, <1>6, <3>1, <3>2
  <2>. QED BY <1>9, <2>1, <2>2, <2>3 DEF Known, negative
<1>14. OnePerRequest(history') /\ OnePerRequest(saved'.history)
  BY <1>1, <1>7, <1>8
<1>. QED BY <1>12, <1>13, <1>14 DEF IInv

(* finalize_request appends an entry for a request that has none. *)
LEMMA FinalizeStep ==
  ASSUME IInv, NEW r \in Requests, Realize(r) PROVE IInv'
<1>1. /\ history' = Append(history, entry(r)) /\ ~finalized(r) /\ Priced(r)
      /\ UNCHANGED <<epoch, worker_boots, observations, attempts, now, saved, accepted>>
  BY DEF Realize, Finalize, Priced
<1>2. history \in Seq(HistoryEntry) /\ OnePerRequest(history)
  BY DEF IInv, TypeOK
<1>3. entry(r) \in HistoryEntry /\ entry(r).request = r
  <2>1. realized_request_cost(r) \in Nat
    <3>1. /\ Measured(r) \in [evidence_of(r) -> Nat] /\ Recomputed(r) \in [evidence_of(r) -> Nat]
          /\ realized_request_cost(r) = SumFunctionOnSet(Measured(r), evidence_of(r))
                                        + SumFunctionOnSet(Recomputed(r), evidence_of(r))
      BY <1>1, RealizedIs
    <3>2. IsFiniteSet(evidence_of(r)) /\ evidence_of(r) \in SUBSET evidence_of(r)
      BY EvidenceOf
    <3>3. /\ SumFunctionOnSet(Measured(r), evidence_of(r)) \in Nat
          /\ SumFunctionOnSet(Recomputed(r), evidence_of(r)) \in Nat
      BY <3>1, <3>2, SumNat
    <3>. QED BY <3>1, <3>3
  <2>2. Cardinality(evidence_of(r)) \in Nat
    BY EvidenceOf, FS_CardinalityType
  <2>. QED BY <2>1, <2>2 DEF entry, HistoryEntry
<1>4. PICK n : n = entry(r)
  OBVIOUS
<1>5. /\ history' \in Seq(HistoryEntry) /\ Len(history') = Len(history) + 1 /\ Len(history) \in Nat
      /\ \A i \in 1..Len(history') : history'[i] = IF i = Len(history) + 1 THEN n ELSE history[i]
  BY <1>1, <1>2, <1>3, <1>4, SMTT(40)
<1>6. OnePerRequest(history')
  <2>1. \A i \in 1..Len(history') : i = Len(history) + 1 \/ i \in 1..Len(history)
    BY <1>5
  <2>2. \A i \in 1..Len(history) : history[i].request # r
    BY <1>1 DEF finalized
  <2>. QED BY <1>2, <1>3, <1>4, <1>5, <2>1, <2>2 DEF OnePerRequest
<1>7. TypeOK'
  BY <1>1, <1>5 DEF IInv, TypeOK, negative
<1>8. Known'
  BY <1>1 DEF IInv, Known, negative
<1>. QED BY <1>1, <1>6, <1>7, <1>8 DEF IInv

(* A restart takes the history from the file. *)
LEMMA RestartStep ==
  ASSUME IInv, Restart PROVE IInv'
<1>1. /\ epoch' = saved.epoch + 1 /\ saved.epoch < MaxEpoch /\ history' = saved.history
      /\ worker_boots' = [w \in Workers |-> 0] /\ attempts' = [r \in Requests |-> <<>>]
      /\ accepted' = {} /\ UNCHANGED <<observations, now, saved>>
  BY DEF Restart
<1>2. saved \in [epoch : 0..MaxEpoch, history : Seq(HistoryEntry)]
  BY DEF IInv, TypeOK
<1>3. epoch' \in Epochs /\ history' \in Seq(HistoryEntry)
  BY <1>1, <1>2, AccountingAssumption DEF Epochs
<1>4. attempts' \in [Requests -> EvidenceMap] /\ \A r \in Requests : DOMAIN attempts'[r] = {}
  BY <1>1, NothingKnown
<1>5. worker_boots' \in [Workers -> Boots \cup {0}]
  BY <1>1
<1>6. TypeOK'
  BY <1>1, <1>3, <1>4, <1>5 DEF IInv, TypeOK
<1>7. Known'
  BY <1>1, <1>4, NothingKnown DEF Known
<1>. QED BY <1>1, <1>6, <1>7 DEF IInv

(* The other steps leave all but the boots and the clock. *)
LEMMA OtherStep ==
  ASSUME IInv,
         \/ \E w \in Workers, boot \in Boots : SetWorkerBoot(w, boot)
         \/ \E t \in Times : ClockReads(t)
         \/ UNCHANGED vars
  PROVE  IInv'
<1>1. /\ UNCHANGED <<epoch, observations, attempts, history, saved, accepted>>
      /\ worker_boots' \in [Workers -> Boots \cup {0}] /\ now' \in Times
  BY DEF SetWorkerBoot, ClockReads, vars, IInv, TypeOK
<1>2. TypeOK'
  BY <1>1 DEF IInv, TypeOK, negative
<1>3. Known'
  BY <1>1 DEF IInv, Known, negative
<1>. QED BY <1>1, <1>2, <1>3 DEF IInv

(* Every step keeps the invariant. *)
LEMMA InvariantStep == IInv /\ [Next]_vars => IInv'
BY PublishPriceStep, RecordAttemptStep, FinalizeStep, RestartStep, OtherStep DEF Next

(* The invariant holds before the first call. *)
LEMMA InvariantInit == Init => IInv
<1>1. SUFFICES ASSUME Init PROVE IInv
  OBVIOUS
<1>2. attempts \in [Requests -> EvidenceMap] /\ \A r \in Requests : DOMAIN attempts[r] = {}
  BY <1>1, NothingKnown DEF Init
<1>3. /\ observations \in Seq(Observations) /\ Len(observations) = 0
      /\ history \in Seq(HistoryEntry) /\ Len(history) = 0
      /\ saved \in [epoch : 0..MaxEpoch, history : Seq(HistoryEntry)] /\ Len(saved.history) = 0
  BY <1>1, AccountingAssumption DEF Init
<1>4. TypeOK
  BY <1>1, <1>2, <1>3, AccountingAssumption DEF Init, TypeOK, Epochs
<1>5. Known
  BY <1>1, <1>2, NothingKnown DEF Init, Known
<1>6. OnePerRequest(history) /\ OnePerRequest(saved.history)
  BY <1>3 DEF OnePerRequest
<1>. QED BY <1>4, <1>5, <1>6 DEF IInv
-----------------------------------------------------------------------------
(* Every reachable state satisfies the inductive invariant. *)
THEOREM Invariance == Spec => []IInv
BY InvariantInit, InvariantStep, PTL DEF Spec

(* record_attempt, finalize_request, publish_price and a restart keep every  *)
(* field in its type, and what is known of an attempt under its own number. *)
THEOREM TypeCorrect == Spec => []TypeOK
<1>1. IInv => TypeOK
  BY DEF IInv
<1>. QED BY Invariance, <1>1, PTL

(* record_attempt and realized_request_cost: whatever is delivered twice,    *)
(* late or in another generation, a request is charged for exactly one      *)
(* accepted evidence of each attempt, for any number of them.              *)
THEOREM ChargedOnce == Spec => []ChargedOncePerAttempt
BY Invariance, ChargedOncePerAttemptHolds, PTL

(* CostCalculator::project: the total counts every unit of cost once, the    *)
(* failed attempts' included.                                              *)
THEOREM CountedOnce == Spec => []RetryCountedOnce
BY Invariance, RetryCountedOnceHolds, PTL

(* ceil_mul_div: an amount is charged the least whole cost that pays for it *)
(* and is refused only where integers of Width bits cannot hold it.        *)
THEOREM CostRoundedUp == Spec => []RoundedUp
BY Invariance, RoundedUpHolds, PTL

(* find_price: a general price is charged only if no price for the device   *)
(* or the resource applies, in whatever order the prices were published.   *)
THEOREM SpecificFirst == Spec => []SpecificBeforeGeneral
BY Invariance, SpecificBeforeGeneralHolds, PTL

(* finalize_request: a request has one entry in the history, also after a    *)
(* restart.                                                                *)
THEOREM OneEntry == Spec => []FinalizedOnce
<1>1. IInv => FinalizedOnce
  BY DEF IInv, OnePerRequest, FinalizedOnce
<1>. QED BY Invariance, <1>1, PTL
=============================================================================
