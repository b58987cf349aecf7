------------------------------ MODULE Sessions ------------------------------
(***************************************************************************)
(* The coordinator's sessions asking for decisions and revalidating them:   *)
(* REQUEST_EVAL and REVALIDATE of src/distributed/coordinator.cpp over the  *)
(* governor of module Dispatch. The process keeps ONE last_decision, under  *)
(* last_mtx: every REQUEST_EVAL writes it after the governor has answered,  *)
(* every REVALIDATE reads it before it asks the governor.                   *)
(*                                                                         *)
(* In the running process the epoch, the policy and the clock do not change *)
(* (main sets them before it listens, and the clock is a MockClock); prices *)
(* are published, workers say HELLO and the budget is charged.              *)
(***************************************************************************)
EXTENDS Dispatch

VARIABLES
  last_decision,  \* the process's last decision
  frame           \* what each session's thread is in the middle of

svars == <<vars, last_decision, frame>>

Waiting == [at |-> "recv"]

SInit ==
  /\ Init
  /\ last_decision = Undecided
  /\ frame = [s \in Caller |-> Waiting]

(* REQUEST_EVAL: gov.evaluate. *)
EvalCall(s, L) ==
  /\ frame[s] = Waiting
  /\ frame' = [frame EXCEPT ![s] = [at |-> "store", decision |-> evaluate(L)]]
  /\ UNCHANGED <<vars, last_decision>>

(* Then last_decision is written, and the session's client gets its answer. *)
EvalStore(s) ==
  /\ frame[s].at = "store"
  /\ last_decision' = frame[s].decision
  /\ decision' = [decision EXCEPT ![s] = frame[s].decision]
  /\ frame' = [frame EXCEPT ![s] = Waiting]
  /\ UNCHANGED <<authority, schedule, worker_boots, consumed, now, since>>

(* REVALIDATE: last_decision is read. *)
RevalidateFetch(s) ==
  /\ frame[s] = Waiting
  /\ frame' = [frame EXCEPT ![s] = [at |-> "validate", decision |-> last_decision]]
  /\ UNCHANGED <<vars, last_decision>>

(* Then gov.validate_for_dispatch judges what was read. *)
Revalidate(s, L) ==
  /\ frame[s].at = "validate"
  /\ frame' = [frame EXCEPT ![s] = Waiting]
  /\ UNCHANGED <<vars, last_decision>>

(* The governor's operations behind PUBLISH_PRICE, HELLO and COMMIT. *)
Meanwhile ==
  /\ \/ \E o \in Observations : PublishPrice(o, epoch)
     \/ \E w \in Worker, boot \in Boots : <<w, boot>> \in Announced /\ SetWorkerBoot(w, boot)
     \/ \E a \in 1..Limit : Charge(a)
  /\ UNCHANGED <<last_decision, frame>>

SNext ==
  \/ \E s \in Caller :
       \/ \E L \in Candidates : EvalCall(s, L) \/ Revalidate(s, L)
       \/ EvalStore(s)
       \/ RevalidateFetch(s)
  \/ Meanwhile

SSpec == SInit /\ [][SNext]_svars
-----------------------------------------------------------------------------
(* README.md 118: "a stale plan is never dispatched" (governor.hpp 81): the *)
(* session of a client whose decision is stale does not tell it OK.        *)
StaleNeverDispatched ==
  [][\A s \in Caller, L \in Candidates :
       Revalidate(s, L) /\ validate_status(frame[s].decision, L) = "OK"
         => validate_status(decision[s], L) # "STALE_AUTHORITY"]_svars
=============================================================================
