----------------------------- MODULE Coordinator -----------------------------
(***************************************************************************)
(* The coordinator process's sessions (src/distributed/coordinator.cpp):   *)
(* one thread per connection, each reading a request, handling it and       *)
(* answering, over one CostGovernor. This module has the requests that      *)
(* move a budget: RESERVE, COMMIT and RELEASE.                              *)
(*                                                                         *)
(* The governor's calls are atomic (Impl::mtx), and so is each access to    *)
(* the coordinator's own map of reservations (res_mtx), but a request is    *)
(* several of these: COMMIT copies the reservation out of the map, calls    *)
(* the governor on the copy, and writes the copy back.                      *)
(***************************************************************************)
EXTENDS BudgetOps, Totals, FiniteSets

CONSTANTS
  Session,          \* connections, each served by a thread
  BudgetId,         \* the identity of the budget created at the start
  Limit,            \* its limit
  Amounts,          \* amounts clients ask for
  MaxReservations,  \* bound on the reservations issued
  MaxRequests       \* bound on the COMMIT and RELEASE requests handled

ASSUME CoordinatorAssumption ==
  /\ Limit \in Nat /\ Amounts \subseteq Int
  /\ MaxReservations \in Nat /\ MaxRequests \in Nat

VARIABLES
  budgets,       \* Impl::budgets of the governor
  reservations,  \* res_map: the coordinator's reservations, by token
  frame,         \* what each session's thread is in the middle of
  requests,      \* COMMIT and RELEASE requests read so far
  exclusive,     \* never changes: is a token sent only by the session it was issued to?
  owner,         \* history: the session each token was issued to, in order
  charges        \* history: how often each token's amount was charged

vars == <<budgets, reservations, frame, requests, exclusive, owner, charges>>

Tokens == 1..MaxReservations

(* A restart aside (module Recovery), the epoch is the one the process      *)
(* started with, the budget's generation is 1 and it does not expire.      *)
Epoch == 1

Reservation == [budget : {BudgetId}, generation : {1}, epoch : {Epoch}, amount : Nat,
                expires_at : {0}, state : ReservationState]

(* The thread waits for a request, or has its handler's locals. *)
Waiting == [at |-> "recv"]

Frame == {Waiting} \cup [at : {"insert", "commit", "release", "store"},
                         token : Tokens, res : Reservation]

TypeOK ==
  /\ DOMAIN budgets \subseteq {BudgetId} /\ budgets \in [DOMAIN budgets -> Budget]
  /\ DOMAIN reservations \subseteq 1..Len(owner)
  /\ reservations \in [DOMAIN reservations -> Reservation]
  /\ frame \in [Session -> Frame]
  /\ requests \in 0..MaxRequests /\ exclusive \in BOOLEAN
  /\ owner \in Seq(Session) /\ Len(owner) <= MaxReservations
  /\ charges \in Seq(Nat) /\ Len(charges) = Len(owner)

Init ==
  /\ budgets = [b \in {} |-> {}]
  /\ reservations = [t \in {} |-> {}]
  /\ frame = [s \in Session |-> Waiting]
  /\ requests = 0
  /\ exclusive \in BOOLEAN
  /\ owner = <<>>
  /\ charges = <<>>

(* main, when there is no saved state: the hard budget is created before    *)
(* the process listens.                                                    *)
Start ==
  /\ budgets = [b \in {} |-> {}]
  /\ budgets' = [b \in {BudgetId} |->
                   [generation |-> 1, epoch |-> Epoch, mode |-> "HARD", limit |-> Limit,
                    expires_at |-> 0, lifecycle |-> "ACTIVE",
                    reserved |-> 0, consumed |-> 0, released |-> 0]]
  /\ UNCHANGED <<reservations, frame, requests, owner, charges, exclusive>>
-----------------------------------------------------------------------------
(* RESERVE, first part: gov.reserve. A refusal is answered at once and      *)
(* changes nothing. The governor numbers the reservations from 1.          *)
ReserveCall(s, a) ==
  /\ BudgetId \in DOMAIN budgets
  /\ frame[s] = Waiting
  /\ Len(owner) < MaxReservations
  /\ LET b == budgets[BudgetId]
     IN  /\ reserve_status(b, 1, Epoch, a, Epoch, 0) = "OK"
         /\ budgets' = [budgets EXCEPT ![BudgetId] = reserve_budget(@, 1, Epoch, a, Epoch, 0)]
         /\ frame' = [frame EXCEPT ![s] = [at |-> "insert", token |-> Len(owner) + 1,
                                           res |-> new_reservation(BudgetId, b, a)]]
  /\ owner' = Append(owner, s)
  /\ charges' = Append(charges, 0)
  /\ UNCHANGED <<reservations, requests, exclusive>>

(* RESERVE, second part: the map gets the reservation; then the answer. *)
ReserveInsert(s) ==
  /\ frame[s].at = "insert"
  /\ reservations' = [t \in DOMAIN reservations \cup {frame[s].token} |->
                        IF t = frame[s].token THEN frame[s].res ELSE reservations[t]]
  /\ frame' = [frame EXCEPT ![s] = Waiting]
  /\ UNCHANGED <<budgets, requests, owner, charges, exclusive>>

(* COMMIT and RELEASE, first part: the reservation is copied out of the map *)
(* under res_mtx. A token the map does not hold is refused.                *)
Fetch(s, request, t) ==
  /\ frame[s] = Waiting
  /\ requests < MaxRequests /\ requests' = requests + 1
  /\ t \in DOMAIN reservations
  /\ exclusive => owner[t] = s
  /\ frame' = [frame EXCEPT ![s] = [at |-> request, token |-> t, res |-> reservations[t]]]
  /\ UNCHANGED <<budgets, reservations, owner, charges, exclusive>>

(* COMMIT, second part: gov.commit on the copy. *)
CommitCall(s) ==
  /\ frame[s].at = "commit"
  /\ LET r == frame[s].res
         b == budgets[BudgetId]
     IN  /\ budgets' = [budgets EXCEPT ![BudgetId] = commit_budget(b, r, Epoch, 0)]
         /\ frame' = [frame EXCEPT ![s].at = "store",
                                   ![s].res.state = commit_state(b, r, Epoch, 0)]
         /\ charges' = [charges EXCEPT ![frame[s].token] =
                          IF commit_charges(b, r, Epoch, 0) THEN @ + 1 ELSE @]
  /\ UNCHANGED <<reservations, requests, owner, exclusive>>

(* Faulty variant: the copy does not show that its amount was returned. *)
ReleaseCallUnmarked(s) ==
  /\ frame[s].at = "release"
  /\ budgets' = [budgets EXCEPT ![BudgetId] =
                   release_budget(@, frame[s].res, Epoch, Len(owner) > 0)]
  /\ frame' = [frame EXCEPT ![s].at = "store"]
  /\ UNCHANGED <<reservations, requests, owner, charges, exclusive>>

(* RELEASE, second part: gov.release on the copy. The governor's own list   *)
(* holds this reservation, ACTIVE as it was issued.                        *)
ReleaseCall(s) ==
  /\ frame[s].at = "release"
  /\ LET r == frame[s].res
         b == budgets[BudgetId]
     IN  /\ budgets' = [budgets EXCEPT ![BudgetId] = release_budget(b, r, Epoch, Len(owner) > 0)]
         /\ frame' = [frame EXCEPT ![s].at = "store",
                                   ![s].res.state = release_state(b, r, Epoch)]
  /\ UNCHANGED <<reservations, requests, owner, charges, exclusive>>

(* Faulty variant: the copy is not written back. *)
StoreForgotten(s) ==
  /\ frame[s].at = "store"
  /\ frame' = [frame EXCEPT ![s] = Waiting]
  /\ UNCHANGED <<budgets, reservations, requests, owner, charges, exclusive>>

(* COMMIT and RELEASE, last part: the copy is written back, whatever the    *)
(* governor answered; then the answer.                                     *)
Store(s) ==
  /\ frame[s].at = "store"
  /\ reservations' = [reservations EXCEPT ![frame[s].token] = frame[s].res]
  /\ frame' = [frame EXCEPT ![s] = Waiting]
  /\ UNCHANGED <<budgets, requests, owner, charges, exclusive>>

Next ==
  \/ Start
  \/ \E s \in Session :
       \/ \E a \in Amounts : ReserveCall(s, a)
       \/ ReserveInsert(s)
       \/ \E request \in {"commit", "release"}, t \in Tokens : Fetch(s, request, t)
       \/ CommitCall(s)
       \/ ReleaseCall(s)
       \/ Store(s)

Spec == Init /\ [][Next]_vars
-----------------------------------------------------------------------------
(* The charge of a token is made at most once, whatever requests name it    *)
(* and however they interleave (governor.hpp 68: "idempotent; never        *)
(* double-charges"; README.md 83: "Committing twice is a no-op").          *)
ChargedOnceByAnyone == \A t \in 1..Len(charges) : charges[t] <= 1

(* It is, when each token is used by the session it was issued to.          *)
ChargedOnce == exclusive => ChargedOnceByAnyone

(* The hard limit holds even when sessions use one token concurrently: the  *)
(* governor tests it again at every charge.                                *)
HardLimitHeld ==
  \A id \in DOMAIN budgets : budgets[id].mode = "HARD" => remaining(budgets[id]) >= 0
-----------------------------------------------------------------------------
(* A token's reservation as the session working on it last left it, or as   *)
(* the map has it.                                                         *)
current(t) ==
  IF \E s \in Session : frame[s].at \in {"insert", "store"} /\ frame[s].token = t
    THEN frame[CHOOSE s \in Session :
                 frame[s].at \in {"insert", "store"} /\ frame[s].token = t].res
    ELSE reservations[t]

(* When sessions share tokens the mapping stays at Budget's initial state:   *)
(* nothing is claimed of them.                                             *)
Governor == INSTANCE Budget WITH
  BudgetId <- {BudgetId}, Generations <- {1}, PolicyGenerations <- {1},
  Currencies <- {"USD"}, Currency <- "USD", Modes <- {"HARD"}, Limits <- {Limit},
  Expiries <- {0}, Times <- {0}, MaxEpoch <- 1,
  epoch <- Epoch, policy_generation <- 1, now <- 0,
  budgets <- IF exclusive THEN budgets ELSE [b \in {} |-> {}],
  held <- IF exclusive THEN [t \in 1..Len(owner) |-> current(t)] ELSE <<>>,
  direct <- [id \in {BudgetId} |-> 0]

(* When each token is used by the session it was issued to, copying a       *)
(* reservation out and back is invisible: the sessions behave as callers    *)
(* that hand the governor the object itself, so all that is proved of       *)
(* Budget holds of them.                                                   *)
RefinesBudget == Governor!Spec
=============================================================================
