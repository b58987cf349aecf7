---------------------------- MODULE Interventions ----------------------------
(***************************************************************************)
(* Cost-governance interventions (governor.cpp): proposal, authorization,  *)
(* acknowledgement and verification, with the snapshot that keeps their    *)
(* history over a restart.  An intent is given to an adjacent runtime as   *)
(* an id and a generation (a ticket); the runtime outlives the governor's  *)
(* process and presents the ticket again when it acts.                     *)
(***************************************************************************)
EXTENDS Integers, Sequences

CONSTANTS
    MaxProposals,   \* bound on the calls of propose_intervention
    MaxRestarts     \* bound on the restarts of the process

VARIABLES
    interventions,       \* Impl::interventions: id -> CostIntervention
    next_intervention,
    saved,               \* the interventions of the snapshot on disk
    restarts,
    tickets,             \* history: proposal -> [id, generation] answered
    served               \* history: <<proposal of the ticket, content of the entry>>
                         \* of every call that was answered OK

vars == <<interventions, next_intervention, saved, restarts, tickets, served>>

Init == /\ interventions = << >> /\ next_intervention = 1
        /\ saved = << >> /\ restarts = 0
        /\ tickets = << >> /\ served = {}

\* A CostIntervention as propose_intervention fills it in.  `content` numbers the
\* proposals, and stands for the kind; the snapshot keeps what is here.
proposed(content) == [content |-> content, generation |-> 1, lifecycle |-> "PROPOSED"]

\* propose_intervention: emplace leaves an entry that is already there.
Propose ==
    /\ Len(tickets) < MaxProposals
    /\ LET id == next_intervention
           new == proposed(Len(tickets) + 1)
       IN /\ tickets' = Append(tickets, [id |-> id, generation |-> 1])
          /\ interventions' = [i \in DOMAIN interventions \union {id} |->
                 IF i \in DOMAIN interventions THEN interventions[i] ELSE new]
          /\ next_intervention' = id + 1
    /\ UNCHANGED <<saved, restarts, served>>

\* The tests the three calls share: a known id of that generation.
known(t) == /\ t.id \in DOMAIN interventions
            /\ interventions[t.id].generation = t.generation

\* A call with ticket p that finds the entry in one of the stages `before`
\* moves it to `after`; every other call returns before it writes.
move(p, before, after) ==
    LET t == tickets[p] IN
    /\ known(t) /\ interventions[t.id].lifecycle \in before
    /\ interventions' = [interventions EXCEPT ![t.id].lifecycle = after]
    /\ served' = served \union {<<p, interventions[t.id].content>>}
    /\ UNCHANGED <<next_intervention, saved, restarts, tickets>>

\* authorize_intervention
Authorize(p) == move(p, {"PROPOSED"}, "AUTHORIZED")

\* acknowledge_intervention
Acknowledge(p) == move(p, {"AUTHORIZED", "DISPATCHED"}, "ACKNOWLEDGED")

\* verify_intervention with some evidence: whatever the evidence is, the
\* outcome is EFFECTIVE.
Verify(p) == move(p, {"ACKNOWLEDGED", "DISPATCHED"}, "EFFECTIVE")

\* persist
Persist == /\ saved' = interventions
           /\ UNCHANGED <<interventions, next_intervention, restarts, tickets, served>>

\* The process ends; the next one has a new Impl and loads the snapshot, which
\* does not hold next_intervention.
Restart == /\ restarts < MaxRestarts
           /\ restarts' = restarts + 1
           /\ interventions' = saved /\ next_intervention' = 1
           /\ UNCHANGED <<saved, tickets, served>>

Next == \/ Propose \/ Persist \/ Restart
        \/ \E p \in DOMAIN tickets : Authorize(p) \/ Acknowledge(p) \/ Verify(p)

Spec == Init /\ [][Next]_vars

-----------------------------------------------------------------------------
\* An intervention is generation fenced (decision.hpp:175): a call that is
\* answered OK has acted on the intervention its ticket was given out for, also
\* when the governor was restarted in between.
TicketsServeTheirOwn == \A s \in served : s[1] = s[2]
=============================================================================
