-------------------------------- MODULE Budget --------------------------------
(***************************************************************************)
(* The budgets of one CostGovernor and the reservations its callers hold.  *)
(* Each public operation takes Impl::mtx for its whole body, so it is one  *)
(* action here; the interleavings are those of calls from several threads. *)
(* A call that is refused and changes nothing is a step that stutters; the *)
(* *_status operators say what it returns.                                 *)
(*                                                                         *)
(* A reservation is an object of its caller: commit and release receive it *)
(* by reference and record in it what became of it. The object with number *)
(* i is held[i], and every call on it sees what the last one wrote, which  *)
(* is how a caller inside the process uses it. (Module Coordinator models  *)
(* the sessions, which copy the object before the call and store it after.) *)
(***************************************************************************)
EXTENDS BudgetOps, Totals

CONSTANTS
  BudgetId,          \* identities of budgets
  Generations,       \* budget generations a caller may name
  PolicyGenerations, \* generations of cost policies
  Currencies,        \* currencies a budget may be expressed in
  Currency,          \* the policy's currency
  Modes,             \* modes of the budgets created
  Limits,            \* limits of the budgets created
  Expiries,          \* expiry times of the budgets created; 0 is never
  Amounts,           \* amounts callers ask for
  Times,             \* readings of the clock
  MaxEpoch,          \* bound on the coordinator epoch
  MaxReservations    \* bound on the reservations issued

ASSUME BudgetAssumption ==
  /\ Generations \subseteq Nat /\ PolicyGenerations \subseteq Nat
  /\ Currency \in Currencies
  /\ Modes \subseteq Mode
  /\ Limits \subseteq Int /\ Expiries \subseteq Nat /\ Amounts \subseteq Int
  /\ Times \subseteq Nat /\ Times # {}
  /\ MaxEpoch \in Nat /\ MaxEpoch >= 1
  /\ MaxReservations \in Nat

VARIABLES
  epoch,             \* Impl::epoch
  policy_generation, \* Impl::policy.generation
  budgets,           \* Impl::budgets, a function on the identities in use
  held,              \* the reservations issued, in the order of their ids
  now,               \* what clock->now_ms() returns
  direct             \* history: what consume has charged to each budget

vars == <<epoch, policy_generation, budgets, held, now, direct>>

Epochs == 1..MaxEpoch

Reservation == [budget : BudgetId, generation : Nat, epoch : Nat, amount : Nat,
                expires_at : Nat, state : ReservationState]

(* What create_budget is given: its caller fills in these fields and leaves *)
(* the amounts at the zero they are declared with.                         *)
BudgetInput == [generation : Generations, policy_generation : PolicyGenerations,
                epoch : Epochs, currency : Currencies, mode : Modes,
                limit : Limits, expires_at : Expiries]

TypeOK ==
  /\ epoch \in Epochs
  /\ policy_generation \in PolicyGenerations
  /\ DOMAIN budgets \subseteq BudgetId
  /\ budgets \in [DOMAIN budgets -> Budget]
  /\ held \in Seq(Reservation)
  /\ now \in Times
  /\ direct \in [BudgetId -> Nat]

Init ==
  /\ epoch = 1
  /\ policy_generation \in PolicyGenerations
  /\ budgets = [b \in {} |-> {}]
  /\ held = <<>>
  /\ now \in Times
  /\ direct = [b \in BudgetId |-> 0]
-----------------------------------------------------------------------------
create_budget_status(id, in) ==
  IF in.limit < 0 THEN "INVALID_INPUT"
  ELSE IF in.currency # Currency THEN "CURRENCY_MISMATCH"
  ELSE IF in.epoch # epoch \/ in.policy_generation # policy_generation THEN "STALE_AUTHORITY"
  ELSE IF id \in DOMAIN budgets THEN "INVALID_INPUT"
  ELSE "OK"

new_budget(in) ==
  [generation |-> in.generation, epoch |-> in.epoch, mode |-> in.mode, limit |-> in.limit,
   expires_at |-> in.expires_at, lifecycle |-> "ACTIVE",
   reserved |-> 0, consumed |-> 0, released |-> 0]

CreateBudget(id, in) ==
  /\ create_budget_status(id, in) = "OK"
  /\ budgets' = [b \in DOMAIN budgets \cup {id} |->
                   IF b = id THEN new_budget(in) ELSE budgets[b]]
  /\ UNCHANGED <<epoch, policy_generation, held, now, direct>>

Reserve(id, gen, ep, a) ==
  /\ id \in DOMAIN budgets
  /\ Len(held) < MaxReservations
  /\ LET b == budgets[id]
         ok == reserve_status(b, gen, ep, a, epoch, now) = "OK"
     IN  /\ budgets' = [budgets EXCEPT ![id] = reserve_budget(b, gen, ep, a, epoch, now)]
         /\ \/ ok /\ held' = Append(held, new_reservation(id, b, a))
            \/ ~ok /\ UNCHANGED held
  /\ UNCHANGED <<epoch, policy_generation, now, direct>>

Commit(i) ==
  /\ LET r == held[i]
         b == budgets[r.budget]
     IN  /\ budgets' = [budgets EXCEPT ![r.budget] = commit_budget(b, r, epoch, now)]
         /\ held' = [held EXCEPT ![i] = [r EXCEPT !.state = commit_state(b, r, epoch, now)]]
  /\ UNCHANGED <<epoch, policy_generation, now, direct>>

(* The governor keeps a copy of each reservation, made when it is issued    *)
(* and never written again, so its state stays ACTIVE: the loop in release *)
(* finds an ACTIVE one as soon as any was issued on the budget.            *)
any_active(id) == \E i \in 1..Len(held) : held[i].budget = id

Release(i) ==
  /\ LET r == held[i]
         b == budgets[r.budget]
     IN  /\ budgets' = [budgets EXCEPT ![r.budget] =
                          release_budget(b, r, epoch, any_active(r.budget))]
         /\ held' = [held EXCEPT ![i] = [r EXCEPT !.state = release_state(b, r, epoch)]]
  /\ UNCHANGED <<epoch, policy_generation, now, direct>>

Consume(id, gen, ep, a) ==
  /\ id \in DOMAIN budgets
  /\ LET b == budgets[id]
         ok == consume_status(b, gen, ep, a, now) = "OK"
     IN  /\ budgets' = [budgets EXCEPT ![id] = consume_budget(b, gen, ep, a, now)]
         /\ direct' = IF ok THEN [direct EXCEPT ![id] = @ + a] ELSE direct
  /\ UNCHANGED <<epoch, policy_generation, held, now>>
-----------------------------------------------------------------------------
AdvanceEpoch ==
  /\ epoch < MaxEpoch
  /\ epoch' = epoch + 1
  /\ UNCHANGED <<policy_generation, budgets, held, now, direct>>

(* set_policy takes over the epoch of the policy it is given, whatever it   *)
(* is: the budgets and reservations of another epoch become stale.         *)
SetPolicy(ep, gen) ==
  /\ epoch' = ep
  /\ policy_generation' = gen
  /\ UNCHANGED <<budgets, held, now, direct>>

(* SystemClock reads the wall clock, which may be set back. *)
ClockReads(t) ==
  /\ now' = t
  /\ UNCHANGED <<epoch, policy_generation, budgets, held, direct>>

Next ==
  \/ \E id \in BudgetId :
       \/ \E in \in BudgetInput : CreateBudget(id, in)
       \/ \E gen \in Generations, ep \in Epochs, a \in Amounts :
            \/ Reserve(id, gen, ep, a)
            \/ Consume(id, gen, ep, a)
  \/ \E i \in 1..Len(held) : Commit(i) \/ Release(i)
  \/ AdvanceEpoch
  \/ \E ep \in Epochs, gen \in PolicyGenerations : SetPolicy(ep, gen)
  \/ \E t \in Times : ClockReads(t)

Spec == Init /\ [][Next]_vars
-----------------------------------------------------------------------------
(* The ledger agrees with the reservations: what a budget has reserved,     *)
(* consumed and released is, to the unit, the sum of its ACTIVE, its        *)
(* COMMITTED (plus what consume charged) and its RELEASED or EXPIRED        *)
(* reservations. Hence no sequence of reserve, commit, release and consume, *)
(* repeated or late calls included, charges or returns an amount twice or   *)
(* loses one (governor.cpp 199-281, governor.hpp 68-69).                    *)
AccountsMatch ==
  \A id \in DOMAIN budgets :
    /\ budgets[id].reserved = SumIn(held, id, {"ACTIVE"})
    /\ budgets[id].consumed = SumIn(held, id, {"COMMITTED"}) + direct[id]
    /\ budgets[id].released = SumIn(held, id, {"RELEASED", "EXPIRED"})

(* A hard budget is never charged beyond its limit, so that remaining() is  *)
(* not negative, by commit or by consume in any order (budget.hpp 105).    *)
HardLimitHeld ==
  \A id \in DOMAIN budgets : budgets[id].mode = "HARD" => remaining(budgets[id]) >= 0

(* What is reserved lies between zero and the limit in every mode: release  *)
(* and a late commit never take back more than was set aside.              *)
ReservedWithinLimit ==
  \A id \in DOMAIN budgets : budgets[id].reserved \in 0..budgets[id].limit

(* The lifecycle never denies the amounts: an ACTIVE budget is untouched, a *)
(* PARTIALLY_CONSUMED one has something left and an EXHAUSTED one nothing. *)
LifecycleTruthful ==
  \A id \in DOMAIN budgets :
    LET b == budgets[id]
    IN  /\ b.lifecycle = "ACTIVE" => b.reserved = 0 /\ b.consumed = 0
        /\ b.lifecycle = "PARTIALLY_CONSUMED" => remaining(b) > 0
        /\ b.lifecycle = "EXHAUSTED" => remaining(b) <= 0

(* No step charges a budget past its expiry, although release can turn an   *)
(* EXPIRED budget live again: every charge looks at the clock itself.      *)
NoChargeAfterExpiry ==
  [][\A id \in DOMAIN budgets :
       budgets'[id].consumed # budgets[id].consumed => ~lapsed(budgets[id], now)]_vars

(* The one way out of a terminal lifecycle: giving back an ACTIVE            *)
(* reservation of an EXHAUSTED or EXPIRED budget makes that budget RESERVED, *)
(* because release looks at no lifecycle. No other call, late or repeated,   *)
(* and no release of a reservation that is already settled, turns a terminal *)
(* budget live again (governor.cpp 246-274). README.md 79 knows of no way    *)
(* out at all: module Closing shows what comes of this one.                  *)
TerminalLeftByRelease ==
  [][\A id \in DOMAIN budgets :
       is_terminal(budgets[id]) /\ ~is_terminal(budgets'[id]) =>
         \E i \in 1..Len(held) : /\ held[i].budget = id
                                 /\ held[i].state = "ACTIVE"
                                 /\ held'[i].state = "RELEASED"]_vars

(* README.md 83: "a stale reservation is rejected". A reservation of another *)
(* epoch than the coordinator's is neither committed nor given back, and the *)
(* budget of such an epoch sets aside, takes back and charges nothing on     *)
(* account of one (governor.cpp 207, 229-230, 252). release does not look at *)
(* the budget's epoch; that of the reservation is the same one.              *)
StaleReservationRejected ==
  [][/\ \A i \in 1..Len(held) : held[i].epoch # epoch => held'[i] = held[i]
     /\ \A id \in DOMAIN budgets :
          budgets[id].epoch # epoch =>
            /\ budgets'[id].reserved = budgets[id].reserved
            /\ budgets'[id].released = budgets[id].released
            /\ budgets'[id].consumed - budgets[id].consumed = direct'[id] - direct[id]]_vars
-----------------------------------------------------------------------------
(* What the budgets promise, without counters, epochs or lifecycles. *)
phase_of(state) ==
  CASE state = "ACTIVE"    -> "held"
    [] state = "COMMITTED" -> "charged"
    [] OTHER               -> "returned"

Accounts ==
  [id \in DOMAIN budgets |->
     [limit |-> budgets[id].limit, hard |-> budgets[id].mode = "HARD"]]

Claims ==
  [i \in 1..Len(held) |->
     [budget |-> held[i].budget, amount |-> held[i].amount, state |-> phase_of(held[i].state)]]

Promise == INSTANCE Escrow WITH accounts <- Accounts, claims <- Claims, spent <- direct

(* Every behaviour of the budgets is one of the escrow: counters kept step  *)
(* by step decide as the sums over the reservations would.                 *)
RefinesEscrow == Promise!Spec
=============================================================================
