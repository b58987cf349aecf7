------------------------------- MODULE Restart -------------------------------
(***************************************************************************)
(* What a restarted coordinator decides by: module Recovery, with the prices *)
(* of its schedule told apart. A price is what one EvidenceId stands for; it *)
(* is recovered when the schedule got it from the file, and confirmed when   *)
(* this process has published it.                                           *)
(***************************************************************************)
EXTENDS Recovery

CONSTANT Price   \* the prices that may be published

VARIABLES
  prices,     \* the prices in Impl::schedule when it reached each generation
  confirmed,  \* history: the prices this process has published
  lived       \* history: the epochs earlier processes ran in

history == <<prices, confirmed, lived>>
rvars   == <<vars, history>>

RInit ==
  /\ Init
  /\ prices = [g \in 1..MaxGeneration |-> {}]
  /\ confirmed = {} /\ lived = {}

(* The file holds the schedule of its generation: a process that starts from *)
(* it goes on from there, and what a killed process published after its last *)
(* save is overwritten.                                                     *)
PublishPrice(s, k) ==
  /\ Publish(s)
  /\ prices' = [prices EXCEPT ![generation + 1] = prices[generation] \cup {k}]
  /\ confirmed' = confirmed \cup {k}
  /\ UNCHANGED lived

Start ==
  /\ StartFresh \/ StartRecovered
  /\ confirmed' = {}
  /\ UNCHANGED <<prices, lived>>

Killed ==
  /\ Crash
  /\ lived' = lived \cup {epoch}
  /\ UNCHANGED <<prices, confirmed>>

Save(s) ==
  /\ \/ RecordAttempt(s) \/ TakeSnapshot(s) \/ OpenTmp(s)
     \/ \E k \in Chunk : Write(s, k)
     \/ Rename(s) \/ SaveFails(s)
  /\ UNCHANGED history

RNext ==
  \/ Start \/ Killed
  \/ \E s \in Session : Save(s) \/ \E k \in Price : PublishPrice(s, k)

RSpec == RInit /\ [][RNext]_rvars

(* evaluate authorizes a plan that is charged by price k: nothing waits to   *)
(* be revalidated, and the schedule has the price.                          *)
authorizes(k) == up /\ ~revalidation_needed /\ k \in prices[generation]

(* README.md 131-132: "On restart the CoordinatorEpoch advances, and         *)
(* recovered dynamic evidence requires revalidation before any current cost  *)
(* decision resumes" (coordinator.cpp 168, "coordinator restart => fresh     *)
(* epoch"; persistence.hpp 32-33). One of the two holds at least: no plan is *)
(* authorized by a recovered price in an epoch that is not fresh.            *)
RestartFences == \A k \in Price : authorizes(k) => k \in confirmed \/ epoch \notin lived
=============================================================================
