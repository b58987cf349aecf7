----------------------------- MODULE BudgetProofs -----------------------------
(***************************************************************************)
(* Theorems about Budget, for every value of its constants.                 *)
(*                                                                         *)
(* The proof has two halves. The first (lemma NextEffect) reads the code's  *)
(* operations once and says what a step can do to the ledger: nothing that  *)
(* moves an amount, or one of the five movements defined below. The second  *)
(* shows that each movement preserves the inductive invariant IInv.         *)
(***************************************************************************)
EXTENDS Budget, BudgetOpsProofs, TotalsProofs, SequenceTheorems

(* Budget id's amounts move by the given differences, and nothing else does. *)
Moves(id, res, con, rel) ==
  /\ id \in DOMAIN budgets
  /\ DOMAIN budgets' = DOMAIN budgets
  /\ \A x \in DOMAIN budgets : x # id => budgets'[x] = budgets[x]
  /\ budgets' \in [DOMAIN budgets -> Budget]
  /\ SameTerms(budgets[id], budgets'[id])
  /\ budgets'[id].reserved = budgets[id].reserved + res
  /\ budgets'[id].consumed = budgets[id].consumed + con
  /\ budgets'[id].released = budgets[id].released + rel

Marked(i, st) == held' = [held EXCEPT ![i] = [held[i] EXCEPT !.state = st]]

Quiet ==
  /\ \/ UNCHANGED budgets
     \/ \E id \in DOMAIN budgets :
          /\ Moves(id, 0, 0, 0)
          /\ budgets'[id].lifecycle \in {budgets[id].lifecycle, "EXPIRED"}
  /\ UNCHANGED <<held, direct>>

Opened(id, in) ==
  /\ id \in BudgetId \ DOMAIN budgets
  /\ in \in BudgetInput /\ in.limit >= 0
  /\ budgets' = [b \in DOMAIN budgets \cup {id} |->
                   IF b = id THEN new_budget(in) ELSE budgets[b]]
  /\ UNCHANGED <<held, direct>>

Reserved(id, a) ==
  /\ a \in Amounts \cap Nat
  /\ is_live(budgets[id]) /\ budgets[id].epoch = epoch
  /\ Moves(id, a, 0, 0)
  /\ budgets'[id].lifecycle = "RESERVED"
  /\ budgets[id].reserved + a <= budgets[id].limit
  /\ held' = Append(held, new_reservation(id, budgets[id], a))
  /\ UNCHANGED direct

LifecycleOfCharge(id) ==
  budgets'[id].lifecycle = lifecycle_after_charge(budgets'[id].consumed, budgets[id].limit)

Charged(i) ==
  LET r == held[i]
  IN  /\ i \in 1..Len(held)
      /\ r.state = "ACTIVE"
      /\ is_live(budgets[r.budget]) /\ r.epoch = epoch
      /\ ~lapsed(r, now)
      /\ ~over_hard_limit(budgets[r.budget], r.amount)
      /\ Moves(r.budget, -r.amount, r.amount, 0)
      /\ LifecycleOfCharge(r.budget)
      /\ Marked(i, "COMMITTED")
      /\ UNCHANGED direct

Returned(i, st) ==
  LET r == held[i]
  IN  /\ i \in 1..Len(held)
      /\ r.state = "ACTIVE"
      /\ r.epoch = epoch
      /\ st \in {"RELEASED", "EXPIRED"}
      /\ st = "RELEASED" => budgets'[r.budget].lifecycle = "RESERVED"
      /\ st = "EXPIRED" => /\ is_live(budgets[r.budget])
                           /\ budgets'[r.budget].lifecycle = budgets[r.budget].lifecycle
      /\ Moves(r.budget, -r.amount, 0, r.amount)
      /\ Marked(i, st)
      /\ UNCHANGED direct

Spent(id, a) ==
  /\ a \in Amounts \cap Nat
  /\ is_live(budgets[id])
  /\ ~lapsed(budgets[id], now)
  /\ ~over_hard_limit(budgets[id], a)
  /\ Moves(id, 0, a, 0)
  /\ LifecycleOfCharge(id)
  /\ UNCHANGED held
  /\ direct' = [direct EXCEPT ![id] = @ + a]

Effect ==
  \/ Quiet
  \/ \E id, in : Opened(id, in)
  \/ \E id, a : Reserved(id, a) \/ Spent(id, a)
  \/ \E i, st : Charged(i) \/ Returned(i, st)

(* A reservation names a budget the governor knows and carries its epoch    *)
(* and its expiry.                                                         *)
HeldKnown ==
  \A i \in 1..Len(held) :
    /\ held[i].budget \in DOMAIN budgets
    /\ held[i].epoch = budgets[held[i].budget].epoch
    /\ held[i].expires_at = budgets[held[i].budget].expires_at

Known == TypeOK /\ HeldKnown

(* The inductive invariant. A budget that is created finds nothing charged  *)
(* or reserved under its identity.                                         *)
IInv ==
  /\ Known
  /\ \A id \in BudgetId \ DOMAIN budgets : direct[id] = 0
  /\ AccountsMatch
  /\ HardLimitHeld
  /\ ReservedWithinLimit
  /\ LifecycleTruthful
-----------------------------------------------------------------------------
(* Writing a rewritten budget in the map moves the ledger's amounts. *)
LEMMA MovesByUpdate ==
  ASSUME TypeOK, NEW id \in DOMAIN budgets, NEW c,
         NEW res \in Int, NEW con \in Int, NEW rel \in Int,
         budgets' = [budgets EXCEPT ![id] = c],
         Rewrites(budgets[id], c, res, con, rel)
  PROVE  Moves(id, res, con, rel)
BY DEF Moves, TypeOK, Rewrites
-----------------------------------------------------------------------------
(* A step of reserve grants the amount or moves nothing. *)
LEMMA ReserveEffect ==
  ASSUME Known, NEW id \in BudgetId, NEW gen \in Generations, NEW ep \in Epochs,
         NEW a \in Amounts, Reserve(id, gen, ep, a)
  PROVE  Quiet \/ Reserved(id, a)
<1> DEFINE b == budgets[id]
           st == reserve_status(b, gen, ep, a, epoch, now)
           c == reserve_budget(b, gen, ep, a, epoch, now)
<1>1. TypeOK /\ b \in Budget /\ a \in Int /\ 0 \in Int /\ id \in DOMAIN budgets
  BY BudgetAssumption DEF Known, TypeOK, Reserve
<1>2. budgets' = [budgets EXCEPT ![id] = c]
  BY DEF Reserve
<1>3. CASE st = "OK"
  <2>1. a \in Nat /\ b.reserved + a <= b.limit /\ is_live(b) /\ b.epoch = epoch
    BY <1>1, <1>3 DEF reserve_status, Budget
  <2>2. c = [b EXCEPT !.reserved = @ + a, !.lifecycle = "RESERVED"]
    BY <1>3 DEF reserve_budget
  <2>3. Rewrites(b, c, a, 0, 0)
    <3> HIDE DEF b, c
    <3>. QED BY <1>1, <2>2, RewriteReserved
  <2>4. Moves(id, a, 0, 0)
    <3> HIDE DEF c
    <3>. QED BY <1>1, <1>2, <2>3, MovesByUpdate, Zenon
  <2>5. budgets'[id].lifecycle = "RESERVED"
    BY <1>1, <1>2, <2>2 DEF TypeOK, Budget
  <2>. QED BY <1>3, <2>1, <2>4, <2>5 DEF Reserved, Reserve
<1>4. CASE st # "OK"
  <2>1. c = b \/ c = [b EXCEPT !.lifecycle = "EXPIRED"]
    BY <1>4 DEF reserve_budget
  <2>2. Rewrites(b, c, 0, 0, 0)
    <3> HIDE DEF b, c
    <3>. QED BY <1>1, <2>1, RewriteQuiet
  <2>3. Moves(id, 0, 0, 0)
    <3> HIDE DEF c
    <3>. QED BY <1>1, <1>2, <2>2, MovesByUpdate, Zenon
  <2>4. budgets'[id].lifecycle \in {b.lifecycle, "EXPIRED"}
    BY <1>1, <1>2, <2>1 DEF TypeOK, Budget
  <2>. QED BY <1>1, <1>4, <2>3, <2>4 DEF Quiet, Reserve
<1>. QED BY <1>3, <1>4

(* A step of consume charges the amount or moves nothing. *)
LEMMA ConsumeEffect ==
  ASSUME Known, NEW id \in BudgetId, NEW gen \in Generations, NEW ep \in Epochs,
         NEW a \in Amounts, Consume(id, gen, ep, a)
  PROVE  Quiet \/ Spent(id, a)
<1> DEFINE b == budgets[id]
           st == consume_status(b, gen, ep, a, now)
           c == consume_budget(b, gen, ep, a, now)
           lc == lifecycle_after_charge(b.consumed + a, b.limit)
<1>1. TypeOK /\ b \in Budget /\ a \in Int /\ 0 \in Int /\ id \in DOMAIN budgets
  BY BudgetAssumption DEF Known, TypeOK, Consume
<1>2. budgets' = [budgets EXCEPT ![id] = c]
  BY DEF Consume
<1>3. CASE st = "OK"
  <2>1. a \in Nat /\ is_live(b) /\ ~lapsed(b, now) /\ ~over_hard_limit(b, a)
    BY <1>1, <1>3 DEF consume_status
  <2>2. c = [b EXCEPT !.consumed = @ + a, !.lifecycle = lc]
    BY <1>3 DEF consume_budget
  <2>3. lc \in Lifecycle
    BY DEF lifecycle_after_charge, Lifecycle
  <2>4. Rewrites(b, c, 0, a, 0)
    <3> HIDE DEF b, c, lc
    <3>. QED BY <1>1, <2>2, <2>3, RewriteSpent
  <2>5. Moves(id, 0, a, 0)
    <3> HIDE DEF c
    <3>. QED BY <1>1, <1>2, <2>4, MovesByUpdate, Zenon
  <2>6. budgets'[id].lifecycle = lc /\ budgets'[id].consumed = b.consumed + a
    <3> HIDE DEF lc
    <3>. QED BY <1>1, <1>2, <2>2 DEF TypeOK, Budget
  <2>. QED BY <1>3, <2>1, <2>5, <2>6 DEF Spent, Consume, LifecycleOfCharge
<1>4. CASE st # "OK"
  <2>1. c = b \/ c = [b EXCEPT !.lifecycle = "EXPIRED"]
    BY <1>4 DEF consume_budget
  <2>2. Rewrites(b, c, 0, 0, 0)
    <3> HIDE DEF b, c
    <3>. QED BY <1>1, <2>1, RewriteQuiet
  <2>3. Moves(id, 0, 0, 0)
    <3> HIDE DEF c
    <3>. QED BY <1>1, <1>2, <2>2, MovesByUpdate, Zenon
  <2>4. budgets'[id].lifecycle \in {b.lifecycle, "EXPIRED"}
    BY <1>1, <1>2, <2>1 DEF TypeOK, Budget
  <2>. QED BY <1>1, <1>4, <2>3, <2>4 DEF Quiet, Consume
<1>. QED BY <1>3, <1>4

(* Writing a reservation's own state back changes nothing. *)
LEMMA SameStateSameHeld ==
  ASSUME TypeOK, NEW i \in 1..Len(held)
  PROVE  [held EXCEPT ![i] = [held[i] EXCEPT !.state = held[i].state]] = held
<1>1. held[i] \in Reservation
  BY DEF TypeOK
<1>2. [held[i] EXCEPT !.state = held[i].state] = held[i]
  BY <1>1 DEF Reservation
<1>. QED BY <1>2 DEF TypeOK

(* A step of commit charges the reservation, gives its amount back because  *)
(* it came too late, or moves nothing.                                     *)
LEMMA CommitEffect ==
  ASSUME Known, NEW i \in 1..Len(held), Commit(i)
  PROVE  Quiet \/ Charged(i) \/ Returned(i, "EXPIRED")
<1> DEFINE r == held[i]
           id == r.budget
           b == budgets[id]
           c == commit_budget(b, r, epoch, now)
           lc == lifecycle_after_charge(b.consumed + r.amount, b.limit)
<1>1. TypeOK /\ id \in DOMAIN budgets /\ b \in Budget
  BY DEF Known, HeldKnown, TypeOK
<1>2. r \in Reservation
  BY DEF Known, TypeOK
<1>3. r.amount \in Int /\ -r.amount \in Int /\ 0 \in Int
  BY <1>2 DEF Reservation
<1>4. /\ budgets' = [budgets EXCEPT ![id] = c]
      /\ Marked(i, commit_state(b, r, epoch, now))
      /\ UNCHANGED direct
  BY DEF Commit, Marked
<1>5. CASE commit_charges(b, r, epoch, now)
  <2>1. /\ r.state = "ACTIVE" /\ is_live(b) /\ r.epoch = epoch
        /\ ~lapsed(r, now) /\ ~over_hard_limit(b, r.amount)
    BY <1>5 DEF commit_charges, commit_status
  <2>0. ~commit_lapses(b, r, epoch, now)
    BY <1>5 DEF commit_charges, commit_lapses
  <2>2. c = [b EXCEPT !.reserved = @ - r.amount, !.consumed = @ + r.amount, !.lifecycle = lc]
    BY <1>5, <2>0 DEF commit_budget
  <2>3. lc \in Lifecycle
    BY DEF lifecycle_after_charge, Lifecycle
  <2>4. Rewrites(b, c, -r.amount, r.amount, 0)
    <3> HIDE DEF b, c, lc, r
    <3>. QED BY <1>1, <1>3, <2>2, <2>3, RewriteCharged
  <2>5. Moves(id, -r.amount, r.amount, 0)
    <3> HIDE DEF c, r
    <3>. QED BY <1>1, <1>3, <1>4, <2>4, MovesByUpdate, Zenon
  <2>6. Marked(i, "COMMITTED")
    BY <1>4, <1>5, <2>0 DEF commit_state
  <2>7. budgets'[id].lifecycle = lc /\ budgets'[id].consumed = b.consumed + r.amount
    <3> HIDE DEF lc, r
    <3>. QED BY <1>1, <1>4, <2>2 DEF TypeOK, Budget
  <2>. QED BY <1>4, <2>1, <2>5, <2>6, <2>7 DEF Charged, LifecycleOfCharge
<1>6. CASE ~commit_charges(b, r, epoch, now) /\ commit_lapses(b, r, epoch, now)
  <2>1. r.state = "ACTIVE" /\ is_live(b) /\ r.epoch = epoch
    BY <1>6 DEF commit_lapses, commit_status
  <2>2. c = [b EXCEPT !.reserved = @ - r.amount, !.released = @ + r.amount]
    BY <1>6 DEF commit_budget
  <2>3. b.lifecycle \in Lifecycle /\ c = [b EXCEPT !.reserved = @ - r.amount,
                                     !.released = @ + r.amount, !.lifecycle = b.lifecycle]
    <3> HIDE DEF b, c, r
    <3>. QED BY <1>1, <1>3, <2>2 DEF Budget
  <2>4. Rewrites(b, c, -r.amount, 0, r.amount)
    <3> HIDE DEF b, c, r
    <3>. QED BY <1>1, <1>3, <2>3, RewriteReturned
  <2>5. Moves(id, -r.amount, 0, r.amount)
    <3> HIDE DEF c, r
    <3>. QED BY <1>1, <1>3, <1>4, <2>4, MovesByUpdate, Zenon
  <2>6. Marked(i, "EXPIRED")
    BY <1>4, <1>6 DEF commit_state
  <2>7. budgets'[id].lifecycle = b.lifecycle
    <3> HIDE DEF r
    <3>. QED BY <1>1, <1>4, <2>2 DEF TypeOK, Budget
  <2>. QED BY <1>4, <2>1, <2>5, <2>6, <2>7 DEF Returned
<1>7. CASE ~commit_charges(b, r, epoch, now) /\ ~commit_lapses(b, r, epoch, now)
  <2>1. c = b /\ commit_state(b, r, epoch, now) = r.state
    BY <1>7 DEF commit_budget, commit_state
  <2>2. UNCHANGED budgets
    BY <1>1, <1>4, <2>1 DEF TypeOK
  <2>3. UNCHANGED held
    BY <1>1, <1>4, <2>1, SameStateSameHeld DEF Marked
  <2>. QED BY <1>4, <2>2, <2>3 DEF Quiet
<1>. QED BY <1>5, <1>6, <1>7

(* A step of release returns the amount or moves nothing. *)
LEMMA ReleaseEffect ==
  ASSUME Known, NEW i \in 1..Len(held), Release(i)
  PROVE  Quiet \/ Returned(i, "RELEASED")
<1> DEFINE r == held[i]
           id == r.budget
           b == budgets[id]
           c == release_budget(b, r, epoch, any_active(id))
           lc == IF any_active(id) THEN "RESERVED"
                 ELSE IF b.consumed = 0 THEN "ACTIVE" ELSE "PARTIALLY_CONSUMED"
<1>1. TypeOK /\ id \in DOMAIN budgets /\ b \in Budget
  BY DEF Known, HeldKnown, TypeOK
<1>2. r \in Reservation
  BY DEF Known, TypeOK
<1>3. r.amount \in Int /\ -r.amount \in Int /\ 0 \in Int
  BY <1>2 DEF Reservation
<1>4. /\ budgets' = [budgets EXCEPT ![id] = c]
      /\ Marked(i, release_state(b, r, epoch))
      /\ UNCHANGED direct
  BY DEF Release, Marked
<1>5. CASE release_returns(b, r, epoch)
  <2>1. r.state = "ACTIVE" /\ r.epoch = epoch
    BY <1>5 DEF release_returns, release_status
  <2>2. c = [b EXCEPT !.reserved = @ - r.amount, !.released = @ + r.amount, !.lifecycle = lc]
    BY <1>5 DEF release_budget
  <2>3. lc \in Lifecycle
    BY DEF Lifecycle
  <2>4. Rewrites(b, c, -r.amount, 0, r.amount)
    <3> HIDE DEF b, c, r, lc
    <3>. QED BY <1>1, <1>3, <2>2, <2>3, RewriteReturned
  <2>5. Moves(id, -r.amount, 0, r.amount)
    <3> HIDE DEF c, r
    <3>. QED BY <1>1, <1>3, <1>4, <2>4, MovesByUpdate, Zenon
  <2>6. Marked(i, "RELEASED")
    BY <1>4, <1>5 DEF release_state
  <2>7. lc = "RESERVED"
    BY DEF any_active
  <2>8. budgets'[id].lifecycle = "RESERVED"
    <3> HIDE DEF r, lc
    <3>. QED BY <1>1, <1>4, <2>2, <2>7 DEF TypeOK, Budget
  <2>. QED BY <1>4, <2>1, <2>5, <2>6, <2>8 DEF Returned
<1>6. CASE ~release_returns(b, r, epoch)
  <2>1. c = b /\ release_state(b, r, epoch) = r.state
    BY <1>6 DEF release_budget, release_state
  <2>2. UNCHANGED budgets
    BY <1>1, <1>4, <2>1 DEF TypeOK
  <2>3. UNCHANGED held
    BY <1>1, <1>4, <2>1, SameStateSameHeld DEF Marked
  <2>. QED BY <1>4, <2>2, <2>3 DEF Quiet
<1>. QED BY <1>5, <1>6

(* What a step can do to the ledger. *)
LEMMA NextEffect ==
  ASSUME Known, [Next]_vars
  PROVE  Effect
<1>1. ASSUME NEW id \in BudgetId, NEW in \in BudgetInput, CreateBudget(id, in)
      PROVE  Opened(id, in)
  <2>1. in.limit \in Int
    BY BudgetAssumption DEF BudgetInput
  <2>2. id \notin DOMAIN budgets /\ in.limit >= 0
    BY <1>1, <2>1 DEF CreateBudget, create_budget_status
  <2>. QED BY <1>1, <2>2 DEF Opened, CreateBudget
<1>2. ASSUME NEW id \in BudgetId, NEW gen \in Generations, NEW ep \in Epochs,
             NEW a \in Amounts, Reserve(id, gen, ep, a) \/ Consume(id, gen, ep, a)
      PROVE  Effect
  BY <1>2, ReserveEffect, ConsumeEffect DEF Effect
<1>3. ASSUME NEW i \in 1..Len(held), Commit(i) \/ Release(i)
      PROVE  Effect
  BY <1>3, CommitEffect, ReleaseEffect DEF Effect
<1>4. CASE AdvanceEpoch \/ UNCHANGED vars
  BY <1>4 DEF AdvanceEpoch, vars, Effect, Quiet
<1>5. ASSUME NEW ep \in Epochs, NEW gen \in PolicyGenerations, SetPolicy(ep, gen)
      PROVE  Effect
  BY <1>5 DEF SetPolicy, Effect, Quiet
<1>6. ASSUME NEW t \in Times, ClockReads(t)
      PROVE  Effect
  BY <1>6 DEF ClockReads, Effect, Quiet
<1>. QED BY <1>1, <1>2, <1>3, <1>4, <1>5, <1>6 DEF Next, Effect
-----------------------------------------------------------------------------
(* The parts of the state that are not the ledger keep their types. *)
LEMMA RestTyped ==
  ASSUME TypeOK, [Next]_vars
  PROVE  epoch' \in Epochs /\ policy_generation' \in PolicyGenerations /\ now' \in Times
<1>1. ASSUME NEW id \in BudgetId, NEW in \in BudgetInput, CreateBudget(id, in)
      PROVE  UNCHANGED <<epoch, policy_generation, now>>
  BY <1>1 DEF CreateBudget
<1>2. ASSUME NEW id \in BudgetId, NEW gen \in Generations, NEW ep \in Epochs,
             NEW a \in Amounts, Reserve(id, gen, ep, a) \/ Consume(id, gen, ep, a)
      PROVE  UNCHANGED <<epoch, policy_generation, now>>
  BY <1>2 DEF Reserve, Consume
<1>3. ASSUME NEW i \in 1..Len(held), Commit(i) \/ Release(i)
      PROVE  UNCHANGED <<epoch, policy_generation, now>>
  BY <1>3 DEF Commit, Release
<1>4. CASE AdvanceEpoch
  BY <1>4, BudgetAssumption DEF AdvanceEpoch, TypeOK, Epochs
<1>5. ASSUME NEW ep \in Epochs, NEW gen \in PolicyGenerations, SetPolicy(ep, gen)
      PROVE  epoch' \in Epochs /\ policy_generation' \in PolicyGenerations /\ now' = now
  BY <1>5 DEF SetPolicy
<1>6. ASSUME NEW t \in Times, ClockReads(t)
      PROVE  epoch' = epoch /\ policy_generation' = policy_generation /\ now' \in Times
  BY <1>6 DEF ClockReads
<1>7. CASE UNCHANGED vars
  BY <1>7 DEF vars, TypeOK
<1>. QED BY <1>1, <1>2, <1>3, <1>4, <1>5, <1>6, <1>7 DEF Next, TypeOK

(* A reservation whose state is rewritten is still a reservation. *)
LEMMA MarkTyped ==
  ASSUME TypeOK, NEW i \in 1..Len(held), NEW st \in ReservationState, Marked(i, st)
  PROVE  /\ [held[i] EXCEPT !.state = st] \in Reservation
         /\ held' \in Seq(Reservation) /\ Len(held') = Len(held)
         /\ \A j \in 1..Len(held) : /\ held'[j].budget = held[j].budget
                                    /\ held'[j].epoch = held[j].epoch
                                    /\ held'[j].expires_at = held[j].expires_at
<1>1. held \in Seq(Reservation) /\ held[i] \in Reservation
  BY DEF TypeOK
<1>2. [held[i] EXCEPT !.state = st] \in Reservation
  BY <1>1 DEF Reservation
<1>3. /\ [held[i] EXCEPT !.state = st].budget = held[i].budget
      /\ [held[i] EXCEPT !.state = st].epoch = held[i].epoch
      /\ [held[i] EXCEPT !.state = st].expires_at = held[i].expires_at
  BY <1>1 DEF Reservation
<1>. QED BY <1>1, <1>2, <1>3 DEF Marked

(* The types, and the link from a reservation to its budget, are inductive. *)
LEMMA KnownStep ==
  ASSUME Known, [Next]_vars
  PROVE  Known'
<1>1. Effect
  BY NextEffect
<1>2. TypeOK
  BY DEF Known
<1>3. \A id, res, con, rel : Moves(id, res, con, rel) =>
        /\ DOMAIN budgets' = DOMAIN budgets
        /\ budgets' \in [DOMAIN budgets -> Budget]
        /\ \A x \in DOMAIN budgets : /\ budgets'[x].epoch = budgets[x].epoch
                                     /\ budgets'[x].expires_at = budgets[x].expires_at
  BY DEF Moves, SameTerms
<1>4. SUFFICES /\ DOMAIN budgets' \subseteq BudgetId
               /\ budgets' \in [DOMAIN budgets' -> Budget]
               /\ held' \in Seq(Reservation)
               /\ direct' \in [BudgetId -> Nat]
               /\ HeldKnown'
  BY <1>2, RestTyped DEF Known, TypeOK
<1>5. CASE Quiet
  BY <1>2, <1>3, <1>5 DEF Quiet, Known, TypeOK, HeldKnown
<1>6. ASSUME NEW id, NEW in, Opened(id, in)
      PROVE  <1>4!1
  <2>1. in.limit \in Int /\ in.limit >= 0
    BY <1>6, BudgetAssumption DEF Opened, BudgetInput
  <2>2. in \in BudgetInput /\ in.limit \in Nat
    BY <1>6, <2>1 DEF Opened
  <2>3. /\ in.generation \in Nat /\ in.epoch \in Nat /\ in.mode \in Mode
        /\ in.limit \in Nat /\ in.expires_at \in Nat
    <3>1. /\ in.generation \in Generations /\ in.epoch \in 1..MaxEpoch /\ in.mode \in Modes
          /\ in.expires_at \in Expiries
      BY <2>2 DEF BudgetInput, Epochs
    <3>2. in.generation \in Nat /\ in.expires_at \in Nat /\ in.mode \in Mode
      BY <3>1, BudgetAssumption
    <3>3. in.epoch \in Nat
      BY <3>1, BudgetAssumption
    <3>. QED BY <2>2, <3>2, <3>3
  <2>4. new_budget(in) \in Budget
    BY <2>3 DEF new_budget, Budget, Lifecycle
  <2> HIDE DEF new_budget
  <2>. QED BY <1>2, <1>6, <2>4 DEF Opened, Known, TypeOK, HeldKnown
<1>7. ASSUME NEW id, NEW a, Reserved(id, a)
      PROVE  <1>4!1
  <2> DEFINE r == new_reservation(id, budgets[id], a)
  <2>1. id \in DOMAIN budgets /\ a \in Nat
    BY <1>7 DEF Reserved, Moves
  <2>2. budgets[id] \in Budget /\ id \in BudgetId
    BY <1>2, <2>1 DEF TypeOK
  <2>3. /\ r \in Reservation /\ r.budget = id
        /\ r.epoch = budgets[id].epoch /\ r.expires_at = budgets[id].expires_at
    BY <2>1, <2>2 DEF new_reservation, Reservation, ReservationState, Budget
  <2>4. held' = Append(held, r) /\ UNCHANGED direct
    BY <1>7 DEF Reserved
  <2> HIDE DEF r
  <2>5. /\ held' \in Seq(Reservation) /\ Len(held') = Len(held) + 1
        /\ \A j \in 1..Len(held') : held'[j] = held[j] \/ held'[j] = r
        /\ \A j \in 1..Len(held') : j \in 1..Len(held) \/ held'[j] = r
    BY <1>2, <2>3, <2>4 DEF TypeOK
  <2>6. \A j \in 1..Len(held) : held'[j] = held[j]
    BY <1>2, <2>3, <2>4 DEF TypeOK
  <2>7. /\ DOMAIN budgets' = DOMAIN budgets
        /\ budgets' \in [DOMAIN budgets -> Budget]
        /\ \A x \in DOMAIN budgets : /\ budgets'[x].epoch = budgets[x].epoch
                                     /\ budgets'[x].expires_at = budgets[x].expires_at
    BY <1>3, <1>7 DEF Reserved
  <2>8. HeldKnown'
    BY <2>1, <2>3, <2>5, <2>6, <2>7 DEF Known, HeldKnown
  <2>. QED BY <1>2, <2>4, <2>5, <2>7, <2>8 DEF TypeOK
<1>8. ASSUME NEW id, NEW a, Spent(id, a)
      PROVE  <1>4!1
  <2>1. id \in BudgetId /\ direct[id] \in Nat /\ a \in Nat
    BY <1>2, <1>8 DEF Spent, Moves, TypeOK
  <2>2. UNCHANGED held /\ direct' = [direct EXCEPT ![id] = @ + a]
    BY <1>8 DEF Spent
  <2>3. /\ DOMAIN budgets' = DOMAIN budgets
        /\ budgets' \in [DOMAIN budgets -> Budget]
        /\ \A x \in DOMAIN budgets : /\ budgets'[x].epoch = budgets[x].epoch
                                     /\ budgets'[x].expires_at = budgets[x].expires_at
    BY <1>3, <1>8 DEF Spent
  <2>4. HeldKnown'
    BY <2>2, <2>3 DEF Known, HeldKnown
  <2>. QED BY <1>2, <2>1, <2>2, <2>3, <2>4 DEF TypeOK
<1>9. ASSUME NEW i, NEW st, Charged(i) \/ Returned(i, st)
      PROVE  <1>4!1
  <2>1. PICK s \in ReservationState : Marked(i, s)
    BY <1>9 DEF Charged, Returned, ReservationState
  <2>2. i \in 1..Len(held) /\ UNCHANGED direct
    BY <1>9 DEF Charged, Returned
  <2>3. /\ held' \in Seq(Reservation) /\ Len(held') = Len(held)
        /\ \A j \in 1..Len(held) : /\ held'[j].budget = held[j].budget
                                   /\ held'[j].epoch = held[j].epoch
                                   /\ held'[j].expires_at = held[j].expires_at
    BY <1>2, <2>1, <2>2, MarkTyped
  <2>4. /\ DOMAIN budgets' = DOMAIN budgets
        /\ budgets' \in [DOMAIN budgets -> Budget]
        /\ \A x \in DOMAIN budgets : /\ budgets'[x].epoch = budgets[x].epoch
                                     /\ budgets'[x].expires_at = budgets[x].expires_at
    BY <1>3, <1>9 DEF Charged, Returned
  <2>5. HeldKnown'
    BY <2>3, <2>4 DEF Known, HeldKnown
  <2>. QED BY <1>2, <2>2, <2>3, <2>4, <2>5 DEF TypeOK
<1>. QED BY <1>1, <1>5, <1>6, <1>7, <1>8, <1>9 DEF Effect
-----------------------------------------------------------------------------
(* The reservations are a ledger in the sense of TotalsProofs. *)
LEMMA HeldIsLedger ==
  ASSUME TypeOK
  PROVE  IsLedger(held, Reservation)
BY DEF TypeOK, IsLedger, Reservation

(* The three sums AccountsMatch compares the amounts of a budget with. *)
ActiveSum(id)    == SumIn(held, id, {"ACTIVE"})
CommittedSum(id) == SumIn(held, id, {"COMMITTED"})
ReturnedSum(id)  == SumIn(held, id, {"RELEASED", "EXPIRED"})

(* They are natural numbers. *)
LEMMA SumsTyped ==
  ASSUME TypeOK, NEW id
  PROVE  ActiveSum(id) \in Nat /\ CommittedSum(id) \in Nat /\ ReturnedSum(id) \in Nat
BY HeldIsLedger, SumInBounds DEF ActiveSum, CommittedSum, ReturnedSum

(* An accepted reserve adds to what is ACTIVE. *)
LEMMA SumsReserved ==
  ASSUME TypeOK, NEW id \in BudgetId, budgets[id] \in Budget, NEW a \in Nat,
         held' = Append(held, new_reservation(id, budgets[id], a)), NEW x
  PROVE  /\ ActiveSum(x)' = ActiveSum(x) + IF x = id THEN a ELSE 0
         /\ CommittedSum(x)' = CommittedSum(x)
         /\ ReturnedSum(x)' = ReturnedSum(x)
<1> DEFINE r == new_reservation(id, budgets[id], a)
<1>1. r \in Reservation /\ r.budget = id /\ r.amount = a /\ r.state = "ACTIVE"
  BY DEF new_reservation, Reservation, ReservationState, Budget
<1>2. IsLedger(held, Reservation) /\ held' = Append(held, r)
  BY HeldIsLedger
<1> HIDE DEF r
<1>3. ASSUME NEW S
      PROVE  SumIn(held', x, S) = SumIn(held, x, S) + Share(r, x, S)
  BY <1>1, <1>2, SumInAppend
<1>4. /\ Share(r, x, {"ACTIVE"}) = IF x = id THEN a ELSE 0
      /\ Share(r, x, {"COMMITTED"}) = 0
      /\ Share(r, x, {"RELEASED", "EXPIRED"}) = 0
  BY <1>1 DEF Share
<1>. QED BY <1>3, <1>4, SumsTyped DEF ActiveSum, CommittedSum, ReturnedSum

(* A reservation that leaves the state ACTIVE moves its amount. *)
LEMMA SumsMarked ==
  ASSUME TypeOK, NEW i \in 1..Len(held), held[i].state = "ACTIVE",
         NEW st \in {"COMMITTED", "RELEASED", "EXPIRED"}, Marked(i, st), NEW x
  PROVE  LET a == IF x = held[i].budget THEN held[i].amount ELSE 0
         IN  /\ ActiveSum(x)' = ActiveSum(x) - a
             /\ CommittedSum(x)' = CommittedSum(x) + IF st = "COMMITTED" THEN a ELSE 0
             /\ ReturnedSum(x)' = ReturnedSum(x) + IF st = "COMMITTED" THEN 0 ELSE a
<1> DEFINE r == held[i]
           m == [r EXCEPT !.state = st]
<1>1. r \in Reservation
  BY DEF TypeOK
<1>2. m \in Reservation /\ m.budget = r.budget /\ m.amount = r.amount /\ m.state = st
  BY <1>1 DEF Reservation, ReservationState
<1>3. IsLedger(held, Reservation) /\ held' = [held EXCEPT ![i] = m]
  BY HeldIsLedger DEF Marked
<1>4. r.amount \in Nat
  BY <1>1 DEF Reservation
<1> HIDE DEF m
<1>5. ASSUME NEW S
      PROVE  SumIn(held', x, S) = SumIn(held, x, S) - Share(r, x, S) + Share(m, x, S)
  <2>1. IsLedger(held', Reservation) /\ DiffersAt(held, held', i) /\ held'[i] = m
    BY <1>2, <1>3 DEF IsLedger, DiffersAt
  <2>0. IsLedger(held, Reservation)
    BY <1>3
  <2>2. SumIn(held', x, S) = SumIn(held, x, S) - Share(held[i], x, S) + Share(held'[i], x, S)
    BY ONLY <2>0, <2>1, SumInReplace, SMT
  <2>. QED BY <2>1, <2>2
<1> DEFINE a == IF x = r.budget THEN r.amount ELSE 0
<1>6. /\ Share(r, x, {"ACTIVE"}) = a /\ Share(m, x, {"ACTIVE"}) = 0
      /\ Share(r, x, {"COMMITTED"}) = 0
      /\ Share(m, x, {"COMMITTED"}) = IF st = "COMMITTED" THEN a ELSE 0
      /\ Share(r, x, {"RELEASED", "EXPIRED"}) = 0
      /\ Share(m, x, {"RELEASED", "EXPIRED"}) = IF st = "COMMITTED" THEN 0 ELSE a
  BY <1>2 DEF Share
<1>. QED BY <1>4, <1>5, <1>6, SumsTyped DEF ActiveSum, CommittedSum, ReturnedSum

(* Each movement of the ledger moves the sums by as much. *)
LEMMA AccountsStep ==
  ASSUME IInv, Effect
  PROVE  AccountsMatch' /\ \A id \in BudgetId \ DOMAIN budgets' : direct'[id] = 0
<1> DEFINE Match(id) == /\ budgets[id].reserved = ActiveSum(id)
                        /\ budgets[id].consumed = CommittedSum(id) + direct[id]
                        /\ budgets[id].released = ReturnedSum(id)
<1>1. TypeOK /\ \A id \in DOMAIN budgets : Match(id)
  BY DEF IInv, Known, AccountsMatch, ActiveSum, CommittedSum, ReturnedSum
<1>2. SUFFICES /\ \A id \in DOMAIN budgets' : Match(id)'
               /\ \A id \in BudgetId \ DOMAIN budgets' : direct'[id] = 0
  BY DEF AccountsMatch, ActiveSum, CommittedSum, ReturnedSum
<1>3. \A id \in BudgetId \ DOMAIN budgets : direct[id] = 0
  BY DEF IInv
<1>4. \A id \in DOMAIN budgets : /\ id \in BudgetId /\ budgets[id] \in Budget
                                 /\ direct[id] \in Nat
  BY <1>1 DEF TypeOK
<1>5. ASSUME UNCHANGED held
      PROVE  \A id : /\ ActiveSum(id)' = ActiveSum(id)
                     /\ CommittedSum(id)' = CommittedSum(id)
                     /\ ReturnedSum(id)' = ReturnedSum(id)
  BY <1>5 DEF ActiveSum, CommittedSum, ReturnedSum
<1>6. \A id \in DOMAIN budgets : /\ budgets[id].reserved \in Int
                                 /\ budgets[id].consumed \in Int
                                 /\ budgets[id].released \in Int
  BY <1>4 DEF Budget
<1>7. CASE Quiet
  BY <1>1, <1>3, <1>5, <1>6, <1>7 DEF Quiet, Moves
<1>8. ASSUME NEW id, NEW in, Opened(id, in) PROVE <1>2!1
  <2>1. \A i \in 1..Len(held) : held[i].budget # id
    BY <1>8 DEF Opened, IInv, Known, HeldKnown
  <2>2. ActiveSum(id) = 0 /\ CommittedSum(id) = 0 /\ ReturnedSum(id) = 0
    BY <1>1, <2>1, HeldIsLedger, SumInAbsent DEF ActiveSum, CommittedSum, ReturnedSum
  <2>3. direct[id] = 0
    BY <1>3, <1>8 DEF Opened
  <2>4. Match(id)'
    BY <1>5, <1>8, <2>2, <2>3 DEF Opened, new_budget
  <2>5. \A x \in DOMAIN budgets : x # id => Match(x)'
    BY <1>1, <1>5, <1>8 DEF Opened
  <2>6. DOMAIN budgets' = DOMAIN budgets \cup {id} /\ UNCHANGED direct
    BY <1>8 DEF Opened
  <2>. QED BY <1>3, <2>4, <2>5, <2>6
<1>9. ASSUME NEW id, NEW a, Reserved(id, a) PROVE <1>2!1
  <2>1. id \in DOMAIN budgets /\ a \in Nat /\ UNCHANGED direct
    BY <1>9 DEF Reserved, Moves
  <2>2. \A x : /\ ActiveSum(x)' = ActiveSum(x) + IF x = id THEN a ELSE 0
               /\ CommittedSum(x)' = CommittedSum(x)
               /\ ReturnedSum(x)' = ReturnedSum(x)
    BY <1>1, <1>4, <1>9, <2>1, SumsReserved DEF Reserved
  <2>. QED BY <1>1, <1>3, <1>6, <1>9, <2>1, <2>2, SumsTyped DEF Reserved, Moves
<1>10. ASSUME NEW id, NEW a, Spent(id, a) PROVE <1>2!1
  <2>1. id \in DOMAIN budgets /\ a \in Nat /\ UNCHANGED held
    BY <1>10 DEF Spent, Moves
  <2>2. direct'[id] = direct[id] + a /\ \A x : x # id => direct'[x] = direct[x]
    BY <1>1, <1>4, <1>10, <2>1 DEF Spent, TypeOK
  <2>. QED BY <1>1, <1>3, <1>4, <1>5, <1>6, <1>10, <2>1, <2>2, SumsTyped DEF Spent, Moves
<1>11. ASSUME NEW i, NEW st, Charged(i) \/ Returned(i, st) PROVE <1>2!1
  <2> DEFINE r == held[i]
             a(x) == IF x = r.budget THEN r.amount ELSE 0
  <2>1. i \in 1..Len(held) /\ r.state = "ACTIVE" /\ UNCHANGED direct
    BY <1>11 DEF Charged, Returned
  <2>2. r.amount \in Nat /\ r.budget \in DOMAIN budgets
    <3>1. r \in Reservation
      BY <1>1, <2>1 DEF TypeOK
    <3>2. r.budget \in DOMAIN budgets
      BY <2>1 DEF IInv, Known, HeldKnown
    <3>. QED BY <3>1, <3>2 DEF Reservation
  <2>3. CASE Charged(i)
    <3>1. Moves(r.budget, -r.amount, r.amount, 0) /\ Marked(i, "COMMITTED")
      BY <2>3 DEF Charged
    <3>2. \A x : /\ ActiveSum(x)' = ActiveSum(x) - a(x)
                 /\ CommittedSum(x)' = CommittedSum(x) + a(x)
                 /\ ReturnedSum(x)' = ReturnedSum(x)
      BY <1>1, <2>1, <2>2, <3>1, SumsMarked, SumsTyped
    <3>3. ASSUME NEW x \in DOMAIN budgets PROVE Match(x)'
      <4>1. CASE x = r.budget
        <5>1. Match(x) /\ direct'[x] = direct[x] /\ direct[x] \in Nat
          BY <1>1, <1>4, <2>1
        <5>2. ActiveSum(x) \in Nat /\ CommittedSum(x) \in Nat /\ ReturnedSum(x) \in Nat
          BY <1>1, SumsTyped
        <5>. QED BY <2>2, <3>1, <3>2, <4>1, <5>1, <5>2, SMTT(40) DEF Moves
      <4>2. CASE x # r.budget
        BY <1>1, <2>1, <3>1, <3>2, <4>2, SumsTyped DEF Moves
      <4>. QED BY <4>1, <4>2
    <3>. QED BY <1>3, <2>1, <3>1, <3>3 DEF Moves
  <2>4. CASE Returned(i, st)
    <3>1. Moves(r.budget, -r.amount, 0, r.amount) /\ Marked(i, st)
          /\ st \in {"RELEASED", "EXPIRED"}
      BY <2>4 DEF Returned
    <3>2. \A x : /\ ActiveSum(x)' = ActiveSum(x) - a(x)
                 /\ CommittedSum(x)' = CommittedSum(x)
                 /\ ReturnedSum(x)' = ReturnedSum(x) + a(x)
      BY <1>1, <2>1, <2>2, <3>1, SumsMarked, SumsTyped
    <3>3. ASSUME NEW x \in DOMAIN budgets PROVE Match(x)'
      <4>1. CASE x = r.budget
        <5>1. Match(x) /\ direct'[x] = direct[x] /\ direct[x] \in Nat
          BY <1>1, <1>4, <2>1
        <5>2. ActiveSum(x) \in Nat /\ CommittedSum(x) \in Nat /\ ReturnedSum(x) \in Nat
          BY <1>1, SumsTyped
        <5>. QED BY <2>2, <3>1, <3>2, <4>1, <5>1, <5>2, SMTT(40) DEF Moves
      <4>2. CASE x # r.budget
        BY <1>1, <2>1, <3>1, <3>2, <4>2, SumsTyped, SMTT(40) DEF Moves
      <4>. QED BY <4>1, <4>2
    <3>. QED BY <1>3, <2>1, <3>1, <3>3 DEF Moves
  <2>. QED BY <1>11, <2>3, <2>4
<1>. QED BY <1>7, <1>8, <1>9, <1>10, <1>11 DEF Effect

(* A charge is tested against a hard limit before it is made, and nothing   *)
(* else raises what is consumed.                                           *)
LEMMA HardLimitStep ==
  ASSUME IInv, Effect
  PROVE  HardLimitHeld'
<1>1. TypeOK /\ \A id \in DOMAIN budgets : budgets[id] \in Budget
  BY DEF IInv, Known, TypeOK
<1>2. \A id \in DOMAIN budgets : budgets[id].mode = "HARD" =>
                                  budgets[id].limit - budgets[id].consumed >= 0
  BY DEF IInv, HardLimitHeld, remaining
<1>3. SUFFICES ASSUME NEW id \in DOMAIN budgets', budgets'[id].mode = "HARD"
               PROVE  budgets'[id].limit - budgets'[id].consumed >= 0
  BY DEF HardLimitHeld, remaining
<1>4. \A x \in DOMAIN budgets : budgets[x].limit \in Nat /\ budgets[x].consumed \in Int
  BY <1>1 DEF Budget
<1>5. ASSUME NEW x, NEW res, NEW con \in Int, NEW rel, Moves(x, res, con, rel),
             con > 0 => ~over_hard_limit(budgets[x], con)
      PROVE  <1>3!1!3
  BY <1>2, <1>3, <1>4, <1>5 DEF Moves, SameTerms, over_hard_limit
<1>6. CASE Quiet
  BY <1>2, <1>3, <1>5, <1>6 DEF Quiet
<1>7. ASSUME NEW x, NEW in, Opened(x, in) PROVE <1>3!1!3
  <2>1. in.limit \in Int /\ in.limit >= 0
    BY <1>7, BudgetAssumption DEF Opened, BudgetInput
  <2>2. CASE id = x
    BY <1>7, <2>1, <2>2 DEF Opened, new_budget
  <2>3. CASE id # x
    BY <1>2, <1>3, <1>7, <2>3 DEF Opened
  <2>. QED BY <2>2, <2>3
<1>8. ASSUME NEW x, NEW a, Reserved(x, a) \/ Spent(x, a) PROVE <1>3!1!3
  <2>1. CASE Reserved(x, a)
    BY <1>5, <2>1 DEF Reserved
  <2>2. CASE Spent(x, a)
    BY <1>5, <2>2 DEF Spent
  <2>. QED BY <1>8, <2>1, <2>2
<1>9. ASSUME NEW i, NEW st, Charged(i) \/ Returned(i, st) PROVE <1>3!1!3
  <2>1. i \in 1..Len(held)
    BY <1>9 DEF Charged, Returned
  <2>2. held[i].amount \in Int
    <3>1. held[i] \in Reservation
      BY <1>1, <2>1 DEF TypeOK
    <3>. QED BY <3>1 DEF Reservation
  <2>. QED BY <1>5, <1>9, <2>2 DEF Charged, Returned
<1>. QED BY <1>6, <1>7, <1>8, <1>9 DEF Effect

(* What is reserved is a sum of amounts, and only reserve raises it. *)
LEMMA ReservedStep ==
  ASSUME IInv, Effect, Known', AccountsMatch'
  PROVE  ReservedWithinLimit'
<1>1. TypeOK /\ TypeOK' /\ \A id \in DOMAIN budgets : budgets[id] \in Budget
  BY DEF IInv, Known, TypeOK
<1>2. \A id \in DOMAIN budgets : budgets[id].reserved <= budgets[id].limit
  BY DEF IInv, ReservedWithinLimit
<1>3. SUFFICES ASSUME NEW id \in DOMAIN budgets'
               PROVE  budgets'[id].reserved \in 0..budgets'[id].limit
  BY DEF ReservedWithinLimit
<1>4. \A x \in DOMAIN budgets : budgets[x].limit \in Nat /\ budgets[x].reserved \in Int
  BY <1>1 DEF Budget
<1>5. budgets'[id].reserved \in Nat
  <2>1. IsLedger(held', Reservation)
    BY <1>1, HeldIsLedger DEF TypeOK, IsLedger, Reservation
  <2>2. SumIn(held', id, {"ACTIVE"}) \in Nat
    BY ONLY <2>1, SumInBounds, SMT
  <2>. QED BY <2>2 DEF AccountsMatch
<1>6. budgets'[id].limit \in Nat
  BY <1>1 DEF TypeOK, Budget
<1>7. SUFFICES budgets'[id].reserved <= budgets'[id].limit
  BY <1>5, <1>6
<1>8. ASSUME NEW x, NEW res \in Int, NEW con, NEW rel, Moves(x, res, con, rel),
             res > 0 => budgets[x].reserved + res <= budgets[x].limit
      PROVE  <1>7!1
  BY <1>2, <1>3, <1>4, <1>8 DEF Moves, SameTerms
<1>9. CASE Quiet
  <2>1. CASE UNCHANGED budgets
    BY <1>2, <1>3, <2>1
  <2>2. CASE \E x \in DOMAIN budgets : Moves(x, 0, 0, 0)
    BY <1>8, <2>2
  <2>. QED BY <1>9, <2>1, <2>2 DEF Quiet
<1>10. ASSUME NEW x, NEW in, Opened(x, in) PROVE <1>7!1
  <2>1. in.limit \in Int /\ in.limit >= 0
    BY <1>10, BudgetAssumption DEF Opened, BudgetInput
  <2>2. CASE id = x
    BY <1>10, <2>1, <2>2 DEF Opened, new_budget
  <2>3. CASE id # x
    BY <1>2, <1>3, <1>10, <2>3 DEF Opened
  <2>. QED BY <2>2, <2>3
<1>11. ASSUME NEW x, NEW a, Reserved(x, a) \/ Spent(x, a) PROVE <1>7!1
  BY <1>8, <1>11, SMTT(40) DEF Reserved, Spent
<1>12. ASSUME NEW i, NEW st, Charged(i) \/ Returned(i, st) PROVE <1>7!1
  <2>1. i \in 1..Len(held)
    BY <1>12 DEF Charged, Returned
  <2>2. held[i].amount \in Nat
    <3>1. held[i] \in Reservation
      BY <1>1, <2>1 DEF TypeOK
    <3>. QED BY <3>1 DEF Reservation
  <2>3. -held[i].amount \in Int /\ ~(-held[i].amount > 0)
    BY <2>2
  <2>4. \E con, rel : Moves(held[i].budget, -held[i].amount, con, rel)
    BY <1>12 DEF Charged, Returned
  <2>. QED BY <1>8, <2>3, <2>4
<1>. QED BY <1>9, <1>10, <1>11, <1>12 DEF Effect

(* The lifecycle follows the amounts. The one movement that keeps it while   *)
(* an amount moves, a commit that comes too late, takes nothing from an      *)
(* ACTIVE budget: nothing is reserved there.                                *)
LEMMA LifecycleStep ==
  ASSUME IInv, Effect, Known', ReservedWithinLimit'
  PROVE  LifecycleTruthful'
<1> DEFINE Truthful(b) == /\ b.lifecycle = "ACTIVE" => b.reserved = 0 /\ b.consumed = 0
                          /\ b.lifecycle = "PARTIALLY_CONSUMED" => b.limit - b.consumed > 0
                          /\ b.lifecycle = "EXHAUSTED" => b.limit - b.consumed <= 0
<1>1. TypeOK /\ \A x \in DOMAIN budgets : budgets[x] \in Budget
  BY DEF IInv, Known, TypeOK
<1>2. \A x \in DOMAIN budgets : Truthful(budgets[x])
  BY DEF IInv, LifecycleTruthful, remaining
<1>3. SUFFICES ASSUME NEW id \in DOMAIN budgets'
               PROVE  Truthful(budgets'[id])
  BY DEF LifecycleTruthful, remaining
<1>4. \A x \in DOMAIN budgets : /\ budgets[x].limit \in Int /\ budgets[x].reserved \in Int
                                /\ budgets[x].consumed \in Int
  BY <1>1 DEF Budget
<1>5. ASSUME NEW x, NEW res, NEW con, NEW rel, Moves(x, res, con, rel), id # x
      PROVE  Truthful(budgets'[id])
  BY <1>2, <1>3, <1>5 DEF Moves
<1>6. CASE Quiet
  <2>1. ASSUME Moves(id, 0, 0, 0), budgets'[id].lifecycle \in {budgets[id].lifecycle, "EXPIRED"}
        PROVE  Truthful(budgets'[id])
    BY <1>2, <1>4, <2>1 DEF Moves, SameTerms
  <2>. QED BY <1>2, <1>3, <1>5, <1>6, <2>1 DEF Quiet
<1>7. ASSUME NEW x, NEW in, Opened(x, in) PROVE Truthful(budgets'[id])
  BY <1>2, <1>3, <1>7 DEF Opened, new_budget
<1>8. ASSUME NEW x, NEW a, Reserved(x, a) PROVE Truthful(budgets'[id])
  <2>1. id = x => budgets'[id].lifecycle = "RESERVED"
    BY <1>8 DEF Reserved
  <2>. QED BY <1>5, <1>8, <2>1 DEF Reserved
<1>9. ASSUME NEW x, NEW res, NEW con \in Int, NEW rel,
             Moves(x, res, con, rel), LifecycleOfCharge(x)
      PROVE  Truthful(budgets'[id])
  <2>1. CASE id = x
    BY <1>3, <1>4, <1>9, <2>1 DEF Moves, SameTerms, LifecycleOfCharge, lifecycle_after_charge
  <2>. QED BY <1>5, <1>9, <2>1
<1>10. ASSUME NEW x, NEW a, Spent(x, a) PROVE Truthful(budgets'[id])
  BY <1>9, <1>10 DEF Spent
<1>11. ASSUME NEW i, i \in 1..Len(held) PROVE held[i].amount \in Nat
  <2>1. held[i] \in Reservation
    BY <1>1, <1>11 DEF TypeOK
  <2>. QED BY <2>1 DEF Reservation
<1>12. ASSUME NEW i, Charged(i) PROVE Truthful(budgets'[id])
  BY <1>9, <1>11, <1>12, SMTT(40) DEF Charged
<1>13. ASSUME NEW i, NEW st, Returned(i, st) PROVE Truthful(budgets'[id])
  <2> DEFINE a == held[i].amount
  <2>1. Moves(held[i].budget, -a, 0, a) /\ a \in Nat /\ st \in {"RELEASED", "EXPIRED"}
    BY <1>11, <1>13 DEF Returned
  <2>2. CASE id = held[i].budget /\ st = "RELEASED"
    BY <1>13, <2>2 DEF Returned
  <2>3. CASE id = held[i].budget /\ st = "EXPIRED"
    <3>1. budgets'[id].lifecycle = budgets[id].lifecycle
      BY <1>13, <2>3 DEF Returned
    <3>2. budgets'[id].reserved >= 0 /\ id \in DOMAIN budgets
      BY <1>3, <2>1, <2>3 DEF ReservedWithinLimit, Moves
    <3>3. /\ budgets'[id].reserved = budgets[id].reserved - a
          /\ budgets'[id].consumed = budgets[id].consumed
          /\ budgets'[id].limit = budgets[id].limit
      <4> HIDE DEF a
      <4>. QED BY <1>4, <2>1, <2>3, <3>2, SMTT(40) DEF Moves, SameTerms
    <3> HIDE DEF a
    <3>. QED BY <1>2, <1>4, <2>1, <3>1, <3>2, <3>3, SMTT(40)
  <2>. QED BY <1>5, <2>1, <2>2, <2>3
<1>. QED BY <1>6, <1>7, <1>8, <1>10, <1>12, <1>13 DEF Effect
-----------------------------------------------------------------------------
(* Init => IInv. *)
LEMMA InitIInv ==
  ASSUME Init
  PROVE  IInv
<1>1. DOMAIN budgets = {} /\ held = <<>> /\ Len(held) = 0
  BY DEF Init
<1>2. TypeOK
  BY <1>1, BudgetAssumption DEF Init, TypeOK, Epochs
<1>. QED BY <1>1, <1>2, SMTT(40) DEF Init, IInv, Known, HeldKnown, AccountsMatch, HardLimitHeld,
                          ReservedWithinLimit, LifecycleTruthful

(* IInv /\ [Next]_vars => IInv'. *)
LEMMA NextIInv ==
  ASSUME IInv, [Next]_vars
  PROVE  IInv'
<1>1. Known /\ Effect
  BY NextEffect DEF IInv
<1>2. Known'
  BY <1>1, KnownStep
<1>3. AccountsMatch' /\ \A id \in BudgetId \ DOMAIN budgets' : direct'[id] = 0
  BY <1>1, AccountsStep
<1>4. HardLimitHeld' /\ ReservedWithinLimit'
  BY <1>1, <1>2, <1>3, HardLimitStep, ReservedStep
<1>5. LifecycleTruthful'
  BY <1>1, <1>2, <1>4, LifecycleStep
<1>. QED BY <1>2, <1>3, <1>4, <1>5 DEF IInv

(* The inductive invariant holds in every reachable state. *)
THEOREM Invariance == Spec => []IInv
<1>1. Init => IInv
  BY InitIInv
<1>2. IInv /\ [Next]_vars => IInv'
  BY NextIInv
<1>. QED BY <1>1, <1>2, PTL DEF Spec

(* The state keeps its type. *)
THEOREM TypeCorrect == Spec => []TypeOK
<1>1. IInv => TypeOK
  BY DEF IInv, Known
<1>. QED BY <1>1, Invariance, PTL

(* No amount is charged, returned or lost twice: at all times a budget's    *)
(* three counters are the sums over its reservations and direct charges.   *)
THEOREM LedgerExact == Spec => []AccountsMatch
<1>1. IInv => AccountsMatch
  BY DEF IInv
<1>. QED BY <1>1, Invariance, PTL

(* A hard budget is never charged beyond its limit. *)
THEOREM HardLimit == Spec => []HardLimitHeld
<1>1. IInv => HardLimitHeld
  BY DEF IInv
<1>. QED BY <1>1, Invariance, PTL

(* What is reserved is never negative and never exceeds the limit. *)
THEOREM ReservedBounded == Spec => []ReservedWithinLimit
<1>1. IInv => ReservedWithinLimit
  BY DEF IInv
<1>. QED BY <1>1, Invariance, PTL

(* The lifecycle never denies the amounts. *)
THEOREM LifecycleMatches == Spec => []LifecycleTruthful
<1>1. IInv => LifecycleTruthful
  BY DEF IInv
<1>. QED BY <1>1, Invariance, PTL

(* No charge is made after the expiry of a budget. *)
THEOREM ExpiryRespected == Spec => NoChargeAfterExpiry
<1>1. ASSUME IInv, [Next]_vars
      PROVE  [\A id \in DOMAIN budgets :
                budgets'[id].consumed # budgets[id].consumed => ~lapsed(budgets[id], now)]_vars
  <2>1. Known /\ Effect
    BY <1>1, NextEffect DEF IInv
  <2>2. SUFFICES ASSUME NEW id \in DOMAIN budgets,
                        budgets'[id].consumed # budgets[id].consumed
                 PROVE  ~lapsed(budgets[id], now)
    OBVIOUS
  <2>3. budgets[id].consumed \in Int
    BY <2>1 DEF Known, TypeOK, Budget
  <2>4. CASE Quiet
    BY <2>2, <2>3, <2>4 DEF Quiet, Moves
  <2>5. ASSUME NEW x, NEW in, Opened(x, in) PROVE FALSE
    BY <2>2, <2>5 DEF Opened
  <2>6. ASSUME NEW x, NEW a, Reserved(x, a) \/ Spent(x, a) PROVE <2>2!1!3
    BY <2>2, <2>3, <2>6, SMTT(40) DEF Reserved, Spent, Moves
  <2>7. ASSUME NEW i, NEW st, Charged(i) \/ Returned(i, st) PROVE <2>2!1!3
    <3>1. Charged(i)
      BY <2>2, <2>3, <2>7, SMTT(40) DEF Returned, Moves
    <3>2. i \in 1..Len(held) /\ ~lapsed(held[i], now) /\ held[i].budget = id
      BY <2>2, <2>3, <3>1 DEF Charged, Moves
    <3>3. held[i].expires_at = budgets[id].expires_at
      BY <2>1, <3>2 DEF Known, HeldKnown
    <3>. QED BY <3>2, <3>3 DEF lapsed
  <2>. QED BY <2>1, <2>4, <2>5, <2>6, <2>7 DEF Effect
<1>. QED BY <1>1, Invariance, PTL DEF Spec, NoChargeAfterExpiry

(* A step leaves alone the reservations of other epochs. *)
LEMMA StaleHeld ==
  ASSUME Known, Effect, NEW i \in 1..Len(held), held[i].epoch # epoch
  PROVE  held'[i] = held[i]
<1>1. held \in Seq(Reservation) /\ Len(held) \in Nat
  BY DEF Known, TypeOK
<1>2. CASE UNCHANGED held
  BY <1>2
<1>3. ASSUME NEW x, NEW a, Reserved(x, a) PROVE held'[i] = held[i]
  <2>1. PICK r : held' = Append(held, r)
    BY <1>3 DEF Reserved
  <2>. QED BY <1>1, <2>1
<1>4. ASSUME NEW k, NEW st, Charged(k) \/ Returned(k, st) PROVE held'[i] = held[i]
  <2>1. k # i
    BY <1>4 DEF Charged, Returned
  <2>2. PICK r : held' = [held EXCEPT ![k] = r]
    BY <1>4 DEF Charged, Returned, Marked
  <2>. QED BY <1>1, <2>1, <2>2
<1>. QED BY <1>2, <1>3, <1>4 DEF Effect, Quiet, Opened, Spent

(* The budget of an epoch the coordinator has left, or has not reached,      *)
(* moves only through consume, whatever the order of the calls: a release,   *)
(* which does not test the budget's epoch, is fenced by the reservation's,   *)
(* and the two are the same (HeldKnown).                                     *)
LEMMA StaleBudget ==
  ASSUME Known, Effect, NEW id \in DOMAIN budgets, budgets[id].epoch # epoch
  PROVE  /\ budgets'[id].reserved = budgets[id].reserved
         /\ budgets'[id].released = budgets[id].released
         /\ budgets'[id].consumed - budgets[id].consumed = direct'[id] - direct[id]
<1> DEFINE Goal == /\ budgets'[id].reserved = budgets[id].reserved
                   /\ budgets'[id].released = budgets[id].released
                   /\ budgets'[id].consumed - budgets[id].consumed = direct'[id] - direct[id]
<1>1. /\ budgets[id] \in Budget /\ id \in BudgetId
      /\ direct \in [BudgetId -> Nat] /\ direct[id] \in Int
  BY DEF Known, TypeOK
<1>2. budgets[id].consumed \in Int /\ budgets[id].reserved \in Int /\ budgets[id].released \in Int
  BY <1>1 DEF Budget
<1>3. CASE Quiet
  BY <1>1, <1>2, <1>3 DEF Quiet, Moves
<1>4. ASSUME NEW x, NEW in, Opened(x, in) PROVE Goal
  BY <1>1, <1>2, <1>4 DEF Opened
<1>5. ASSUME NEW x, NEW a, Reserved(x, a) PROVE Goal
  BY <1>1, <1>2, <1>5 DEF Reserved, Moves
<1>6. ASSUME NEW x, NEW a, Spent(x, a) PROVE Goal
  BY <1>1, <1>2, <1>6, SMTT(40) DEF Spent, Moves
<1>7. ASSUME NEW i, NEW st, Charged(i) \/ Returned(i, st) PROVE Goal
  <2>1. held[i].budget # id
    BY <1>7 DEF Charged, Returned, Known, HeldKnown
  <2>2. budgets'[id] = budgets[id] /\ UNCHANGED direct
    BY <1>7, <2>1 DEF Charged, Returned, Moves
  <2>. QED BY <1>1, <1>2, <2>2
<1>. QED BY <1>3, <1>4, <1>5, <1>6, <1>7 DEF Effect

(* No reservation of an epoch that is over has any effect again. *)
THEOREM StaleFenced == Spec => StaleReservationRejected
<1>1. ASSUME IInv, [Next]_vars
      PROVE  [/\ \A i \in 1..Len(held) : held[i].epoch # epoch => held'[i] = held[i]
              /\ \A id \in DOMAIN budgets :
                   budgets[id].epoch # epoch =>
                     /\ budgets'[id].reserved = budgets[id].reserved
                     /\ budgets'[id].released = budgets[id].released
                     /\ budgets'[id].consumed - budgets[id].consumed
                          = direct'[id] - direct[id]]_vars
  <2>1. Known /\ Effect
    BY <1>1, NextEffect DEF IInv
  <2>. QED BY <2>1, StaleHeld, StaleBudget
<1>. QED BY <1>1, Invariance, PTL DEF Spec, StaleReservationRejected

(* Only the release of an ACTIVE reservation makes a terminal budget live. *)
THEOREM TerminalLeft == Spec => TerminalLeftByRelease
<1>1. ASSUME IInv, [Next]_vars
      PROVE  [\A id \in DOMAIN budgets :
                is_terminal(budgets[id]) /\ ~is_terminal(budgets'[id]) =>
                  \E i \in 1..Len(held) : /\ held[i].budget = id
                                          /\ held[i].state = "ACTIVE"
                                          /\ held'[i].state = "RELEASED"]_vars
  <2>1. Known /\ Effect
    BY <1>1, NextEffect DEF IInv
  <2>2. SUFFICES ASSUME NEW id \in DOMAIN budgets,
                        is_terminal(budgets[id]), ~is_terminal(budgets'[id])
                 PROVE  \E i \in 1..Len(held) : /\ held[i].budget = id
                                                /\ held[i].state = "ACTIVE"
                                                /\ held'[i].state = "RELEASED"
    OBVIOUS
  <2>3. ~is_live(budgets[id])
    BY <2>2 DEF is_live, is_terminal
  <2>4. CASE Quiet
    BY <2>2, <2>4 DEF Quiet, Moves, is_terminal
  <2>5. ASSUME NEW x, NEW in, Opened(x, in) PROVE FALSE
    BY <2>2, <2>5 DEF Opened
  <2>6. ASSUME NEW x, NEW a, Reserved(x, a) \/ Spent(x, a) PROVE FALSE
    BY <2>2, <2>3, <2>6 DEF Reserved, Spent, Moves
  <2>7. ASSUME NEW i, Charged(i) PROVE FALSE
    BY <2>2, <2>3, <2>7 DEF Charged, Moves
  <2>8. ASSUME NEW i, NEW st, Returned(i, st) PROVE <2>2!1!4
    <3>1. i \in 1..Len(held) /\ held[i].budget = id /\ held[i].state = "ACTIVE"
      BY <2>2, <2>8 DEF Returned, Moves
    <3>2. st = "RELEASED" /\ Marked(i, st)
      BY <2>3, <2>8, <3>1 DEF Returned
    <3>3. held[i] \in Reservation /\ held \in Seq(Reservation)
      BY <2>1, <3>1 DEF Known, TypeOK
    <3>4. held'[i].state = "RELEASED"
      BY <3>1, <3>2, <3>3 DEF Marked, Reservation
    <3>. QED BY <3>1, <3>4
  <2>. QED BY <2>1, <2>4, <2>5, <2>6, <2>7, <2>8 DEF Effect
<1>. QED BY <1>1, Invariance, PTL DEF Spec, TerminalLeftByRelease
-----------------------------------------------------------------------------
ClaimOf(r) == [budget |-> r.budget, amount |-> r.amount, state |-> phase_of(r.state)]

ClaimSet == [budget : BudgetId, amount : Nat, state : {"held", "charged", "returned"}]

(* Escrow's sums are those of Totals. *)
LEMMA SameSum ==
  ASSUME NEW seq, NEW id, NEW S
  PROVE  Promise!SumIn(seq, id, S) = SumIn(seq, id, S)
BY DEF SumIn, Promise!SumIn, Total, Promise!Total, Shares, Promise!Shares, Share, Promise!Share

(* The reservations, seen as the claims of Escrow. *)
LEMMA ClaimsTyped ==
  ASSUME TypeOK
  PROVE  /\ Claims \in Seq(ClaimSet)
         /\ Len(Claims) = Len(held)
         /\ \A i \in 1..Len(held) : Claims[i] = ClaimOf(held[i])
<1>1. held \in Seq(Reservation) /\ Len(held) \in Nat
  BY DEF TypeOK
<1>2. \A r \in Reservation : ClaimOf(r) \in ClaimSet
  BY DEF ClaimOf, ClaimSet, phase_of, Reservation
<1>3. Claims = [i \in 1..Len(held) |-> ClaimOf(held[i])]
  BY DEF Claims, ClaimOf
<1> HIDE DEF ClaimOf
<1>. QED BY <1>1, <1>2, <1>3

(* The sums Escrow is defined with are the sums over the reservations. *)
LEMMA ClaimSums ==
  ASSUME TypeOK, NEW id
  PROVE  /\ SumIn(Claims, id, {"held"}) = SumIn(held, id, {"ACTIVE"})
         /\ SumIn(Claims, id, {"charged"}) = SumIn(held, id, {"COMMITTED"})
<1>1. Len(Claims) = Len(held) /\ \A i \in 1..Len(held) : Claims[i] = ClaimOf(held[i])
  BY ClaimsTyped
<1>2. ASSUME NEW r
      PROVE  /\ Share(ClaimOf(r), id, {"held"}) = Share(r, id, {"ACTIVE"})
             /\ Share(ClaimOf(r), id, {"charged"}) = Share(r, id, {"COMMITTED"})
  <2>1. /\ ClaimOf(r).budget = r.budget /\ ClaimOf(r).amount = r.amount
        /\ ClaimOf(r).state = phase_of(r.state)
    BY DEF ClaimOf
  <2>2. (phase_of(r.state) = "held") <=> (r.state = "ACTIVE")
    BY DEF phase_of
  <2>3. (phase_of(r.state) = "charged") <=> (r.state = "COMMITTED")
    BY DEF phase_of
  <2> HIDE DEF ClaimOf
  <2>. QED BY <2>1, <2>2, <2>3 DEF Share
<1>3. Shares(Claims, id, {"held"}) = Shares(held, id, {"ACTIVE"})
  <2> HIDE DEF ClaimOf
  <2>. QED BY <1>1, <1>2 DEF Shares
<1>4. Shares(Claims, id, {"charged"}) = Shares(held, id, {"COMMITTED"})
  <2> HIDE DEF ClaimOf
  <2>. QED BY <1>1, <1>2 DEF Shares
<1>. QED BY <1>1, <1>3, <1>4 DEF SumIn

(* A movement of amounts leaves the accounts' terms alone. *)
LEMMA MovesKeepsAccounts ==
  ASSUME NEW id, NEW res, NEW con, NEW rel, Moves(id, res, con, rel)
  PROVE  Accounts' = Accounts /\ id \in DOMAIN Accounts
<1>1. DOMAIN budgets' = DOMAIN budgets /\ id \in DOMAIN budgets
  BY DEF Moves
<1>2. \A x \in DOMAIN budgets : /\ budgets'[x].limit = budgets[x].limit
                                /\ budgets'[x].mode = budgets[x].mode
  BY DEF Moves, SameTerms
<1>. QED BY <1>1, <1>2 DEF Accounts

(* A reservation that changes its state is a claim that changes its own. *)
LEMMA MarkedClaim ==
  ASSUME TypeOK, TypeOK', NEW i \in 1..Len(held), NEW st \in ReservationState, Marked(i, st)
  PROVE  Claims' = [Claims EXCEPT ![i].state = phase_of(st)]
<1> DEFINE m == [held[i] EXCEPT !.state = st]
<1>1. held[i] \in Reservation /\ held \in Seq(Reservation)
  BY DEF TypeOK
<1>2. m.budget = held[i].budget /\ m.amount = held[i].amount /\ m.state = st
  BY <1>1 DEF Reservation
<1>3. held' = [held EXCEPT ![i] = m]
  BY DEF Marked
<1> HIDE DEF m
<1>4. Len(held') = Len(held) /\ \A j \in 1..Len(held) : held'[j] = IF j = i THEN m ELSE held[j]
  BY <1>1, <1>3
<1>5. ClaimOf(m) = [ClaimOf(held[i]) EXCEPT !.state = phase_of(st)]
  BY <1>2 DEF ClaimOf
<1>6. Claims = [j \in 1..Len(held) |-> ClaimOf(held[j])]
  BY DEF Claims, ClaimOf
<1>7. Claims' = [j \in 1..Len(held) |-> IF j = i THEN ClaimOf(m) ELSE ClaimOf(held[j])]
  BY <1>4 DEF Claims, ClaimOf
<1> HIDE DEF ClaimOf
<1>. QED BY <1>5, <1>6, <1>7

(* A reservation issued is a claim made. *)
LEMMA AppendedClaim ==
  ASSUME TypeOK, NEW r \in Reservation, held' = Append(held, r)
  PROVE  Claims' = Append(Claims, ClaimOf(r))
<1>1. held \in Seq(Reservation) /\ Len(held) \in Nat
  BY DEF TypeOK
<1>2. /\ Len(held') = Len(held) + 1
      /\ \A j \in 1..Len(held) + 1 : held'[j] = IF j <= Len(held) THEN held[j] ELSE r
  BY <1>1
<1>3. Claims' = [j \in 1..Len(held) + 1 |-> IF j <= Len(held) THEN ClaimOf(held[j]) ELSE ClaimOf(r)]
  BY <1>2 DEF Claims, ClaimOf
<1>4. /\ Claims \in Seq(ClaimSet) /\ Len(Claims) = Len(held)
      /\ \A j \in 1..Len(held) : Claims[j] = ClaimOf(held[j])
  BY ClaimsTyped
<1>5. \A x \in Reservation : ClaimOf(x) \in ClaimSet
  BY DEF ClaimOf, ClaimSet, phase_of, Reservation
<1> DEFINE c == ClaimOf(r)
           longer == Append(Claims, c)
<1>6. c \in ClaimSet
  BY <1>5
<1> HIDE DEF ClaimOf, c
<1>7. /\ longer \in Seq(ClaimSet) /\ Len(longer) = Len(held) + 1
      /\ \A j \in 1..Len(held) : longer[j] = ClaimOf(held[j])
      /\ longer[Len(held) + 1] = c
  BY <1>1, <1>4, <1>6, AppendProperties
<1>8. Claims' \in Seq(ClaimSet) /\ Len(Claims') = Len(held) + 1
  BY <1>1, <1>3, <1>5
<1>9. \A j \in 1..Len(held) + 1 : Claims'[j] = longer[j]
  <2> HIDE DEF longer
  <2>. QED BY <1>1, <1>3, <1>7 DEF c
<1> HIDE DEF longer
<1>10. Claims' = longer
  BY <1>7, <1>8, <1>9, SeqEqual
<1>. QED BY <1>10 DEF longer, c

(* What passes the governor's test passes that of Escrow. *)
LEMMA AffordableCharge ==
  ASSUME IInv, NEW id \in DOMAIN budgets, NEW a, ~over_hard_limit(budgets[id], a), a \in Nat
  PROVE  Promise!Affordable(id, a)
<1>1. TypeOK
  BY DEF IInv, Known
<1>2. budgets[id].consumed = SumIn(Claims, id, {"charged"}) + direct[id]
  BY <1>1, ClaimSums DEF IInv, AccountsMatch
<1>3. budgets[id].consumed \in Int /\ budgets[id].limit \in Nat
  BY <1>1 DEF TypeOK, Budget
<1>4. Accounts[id].limit = budgets[id].limit /\ (Accounts[id].hard <=> budgets[id].mode = "HARD")
  BY DEF Accounts
<1>5. Promise!Charged(id) = budgets[id].consumed
  BY <1>2, SameSum DEF Promise!Charged
<1>6. Accounts[id].hard => budgets[id].consumed + a <= budgets[id].limit
  BY <1>3, <1>4 DEF over_hard_limit
<1>. QED BY <1>4, <1>5, <1>6 DEF Promise!Affordable

(* Budget implements Escrow: the counters decide as the sums would. *)
THEOREM Refinement == Spec => RefinesEscrow
<1>1. Init => Promise!Init
  BY DEF Init, Promise!Init, Accounts, Claims
<1>2. ASSUME IInv, [Next]_vars
      PROVE  [Promise!Next]_(Promise!evars)
  <2>1. TypeOK /\ Effect
    BY <1>2, NextEffect DEF IInv, Known
  <2>2. TypeOK'
    BY <1>2, NextIInv DEF IInv, Known
  <2>3. CASE Quiet
    <3>1. Accounts' = Accounts
      BY <2>3, MovesKeepsAccounts DEF Quiet, Accounts
    <3>2. Claims' = Claims /\ direct' = direct
      BY <2>3 DEF Quiet, Claims
    <3>. QED BY <3>1, <3>2 DEF Promise!evars
  <2>4. ASSUME NEW id, NEW in, Opened(id, in)
        PROVE  Promise!Next
    <3> DEFINE hard == in.mode = "HARD"
    <3>1. id \in BudgetId /\ in.limit \in Limits /\ hard \in BOOLEAN
      BY <2>4 DEF Opened, BudgetInput
    <3>2. Claims' = Claims /\ direct' = direct
      BY <2>4 DEF Opened, Claims
    <3>3. DOMAIN Accounts = DOMAIN budgets /\ id \notin DOMAIN Accounts
      BY <2>4 DEF Opened, Accounts
    <3>4. Accounts' = [x \in DOMAIN Accounts \cup {id} |->
                         IF x = id THEN [limit |-> in.limit, hard |-> hard] ELSE Accounts[x]]
      <4>1. DOMAIN budgets' = DOMAIN budgets \cup {id}
        BY <2>4 DEF Opened
      <4>2. budgets'[id].limit = in.limit /\ budgets'[id].mode = in.mode
        BY <2>4 DEF Opened, new_budget
      <4>3. \A x \in DOMAIN budgets : x # id => budgets'[x] = budgets[x]
        BY <2>4 DEF Opened
      <4>. QED BY <3>3, <4>1, <4>2, <4>3 DEF Accounts
    <3>5. Promise!Open(id, in.limit, hard)
      BY <3>2, <3>3, <3>4 DEF Promise!Open
    <3> HIDE DEF hard
    <3>. QED BY <3>1, <3>5 DEF Promise!Next
  <2>5. ASSUME NEW id, NEW a, Reserved(id, a)
        PROVE  Promise!Next
    <3>1. /\ Accounts' = Accounts /\ id \in DOMAIN Accounts /\ id \in DOMAIN budgets
          /\ direct' = direct /\ a \in Amounts /\ a \in Nat
      BY <2>5, MovesKeepsAccounts DEF Reserved, Moves
    <3>2. budgets[id].reserved = SumIn(Claims, id, {"held"})
      BY <1>2, <2>1, <3>1, ClaimSums DEF IInv, AccountsMatch
    <3>3. SumIn(Claims, id, {"held"}) + a <= Accounts[id].limit
      BY <2>5, <3>1, <3>2 DEF Reserved, Accounts
    <3>4. Claims' = Append(Claims, [budget |-> id, amount |-> a, state |-> "held"])
      <4> DEFINE r == new_reservation(id, budgets[id], a)
      <4>1. id \in BudgetId /\ budgets[id] \in Budget
        BY <2>1, <3>1 DEF TypeOK
      <4>2. r \in Reservation /\ held' = Append(held, r)
        BY <2>5, <3>1, <4>1 DEF Reserved, new_reservation, Reservation, ReservationState, Budget
      <4>3. ClaimOf(r) = [budget |-> id, amount |-> a, state |-> "held"]
        BY DEF ClaimOf, new_reservation, phase_of
      <4> HIDE DEF r
      <4>. QED BY <2>1, <4>2, <4>3, AppendedClaim
    <3>5. a >= 0
      BY <3>1
    <3>6. Promise!Held(id) = SumIn(Claims, id, {"held"})
      BY SameSum DEF Promise!Held
    <3>7. Promise!Claim(id, a)
      BY <3>1, <3>3, <3>4, <3>5, <3>6, Zenon DEF Promise!Claim
    <3>. QED BY <3>1, <3>7 DEF Promise!Next
  <2>6. ASSUME NEW id, NEW a, Spent(id, a)
        PROVE  Promise!Next
    <3>1. /\ Accounts' = Accounts /\ id \in DOMAIN Accounts /\ id \in DOMAIN budgets
          /\ a \in Amounts /\ a \in Nat
      BY <2>6, MovesKeepsAccounts DEF Spent, Moves
    <3>2. Claims' = Claims /\ direct' = [direct EXCEPT ![id] = @ + a]
      BY <2>6 DEF Spent, Claims
    <3>3. Promise!Affordable(id, a)
      BY <1>2, <2>6, <3>1, AffordableCharge DEF Spent
    <3>4. Promise!Spend(id, a)
      BY <3>1, <3>2, <3>3 DEF Promise!Spend
    <3>. QED BY <3>1, <3>4 DEF Promise!Next
  <2>7. ASSUME NEW i, NEW st, Charged(i) \/ Returned(i, st)
        PROVE  Promise!Next
    <3>1. i \in 1..Len(held) /\ held[i].state = "ACTIVE" /\ direct' = direct
      BY <2>7 DEF Charged, Returned
    <3>2. Accounts' = Accounts
      BY <2>7, MovesKeepsAccounts DEF Charged, Returned
    <3>3. /\ i \in 1..Len(Claims) /\ Claims[i].state = "held"
          /\ Claims[i].budget = held[i].budget /\ Claims[i].amount = held[i].amount
      <4>1. Len(Claims) = Len(held) /\ Claims[i] = ClaimOf(held[i])
        BY <2>1, <3>1, ClaimsTyped
      <4>2. /\ ClaimOf(held[i]).budget = held[i].budget
            /\ ClaimOf(held[i]).amount = held[i].amount
            /\ ClaimOf(held[i]).state = "held"
        BY <3>1 DEF ClaimOf, phase_of
      <4>. QED BY <3>1, <4>1, <4>2
    <3>4. CASE Charged(i)
      <4>1. Claims' = [Claims EXCEPT ![i].state = "charged"]
        BY <2>1, <2>2, <3>1, <3>4, MarkedClaim DEF Charged, phase_of, ReservationState
      <4>2. Promise!Affordable(Claims[i].budget, Claims[i].amount)
        <5>1. held[i].budget \in DOMAIN budgets
          BY <3>4 DEF Charged, Moves
        <5>2. held[i].amount \in Nat
          <6>1. held[i] \in Reservation
            BY <2>1, <3>1 DEF TypeOK
          <6>. QED BY <6>1 DEF Reservation
        <5>3. ~over_hard_limit(budgets[held[i].budget], held[i].amount)
          BY <3>4 DEF Charged
        <5>. QED BY <1>2, <3>3, <5>1, <5>2, <5>3, AffordableCharge
      <4>3. Promise!Charge(i)
        BY <3>1, <3>2, <3>3, <4>1, <4>2 DEF Promise!Charge
      <4>. QED BY <3>3, <4>3 DEF Promise!Next
    <3>5. CASE Returned(i, st)
      <4>1. Claims' = [Claims EXCEPT ![i].state = "returned"]
        BY <2>1, <2>2, <3>1, <3>5, MarkedClaim DEF Returned, phase_of, ReservationState
      <4>2. Promise!Return(i)
        BY <3>1, <3>2, <3>3, <4>1 DEF Promise!Return
      <4>. QED BY <3>3, <4>2 DEF Promise!Next
    <3>. QED BY <2>7, <3>4, <3>5
  <2>. QED BY <2>1, <2>3, <2>4, <2>5, <2>6, <2>7 DEF Effect
<1>. QED BY <1>1, <1>2, Invariance, PTL DEF Spec, RefinesEscrow, Promise!Spec
=============================================================================
