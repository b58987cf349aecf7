-------------------------------- MODULE Escrow --------------------------------
(***************************************************************************)
(* What reserve, commit, release and consume promise their callers, with   *)
(* no counters: an account has a limit; a claim on it is held, and then     *)
(* charged or returned, once; what is held and what is charged are DEFINED  *)
(* as sums over the claims, and the limit is tested against those sums.     *)
(***************************************************************************)
EXTENDS Totals

CONSTANTS
  BudgetId,  \* identities of accounts
  Limits,    \* limits an account may be opened with
  Amounts    \* amounts that may be claimed or spent

VARIABLES
  accounts,  \* the accounts opened: a limit, and whether it binds charges
  claims,    \* the claims made, in order
  spent      \* what was charged to each account without a claim

evars == <<accounts, claims, spent>>

Held(id)    == SumIn(claims, id, {"held"})
Charged(id) == SumIn(claims, id, {"charged"}) + spent[id]

Init ==
  /\ accounts = [id \in {} |-> {}]
  /\ claims = <<>>
  /\ spent = [id \in BudgetId |-> 0]

Open(id, limit, hard) ==
  /\ id \notin DOMAIN accounts
  /\ accounts' = [x \in DOMAIN accounts \cup {id} |->
                    IF x = id THEN [limit |-> limit, hard |-> hard] ELSE accounts[x]]
  /\ UNCHANGED <<claims, spent>>

(* A claim is granted when all that is held fits in the limit. *)
Claim(id, a) ==
  /\ a >= 0
  /\ Held(id) + a <= accounts[id].limit
  /\ claims' = Append(claims, [budget |-> id, amount |-> a, state |-> "held"])
  /\ UNCHANGED <<accounts, spent>>

(* A charge is made when all that is charged fits in a limit that binds. *)
Affordable(id, a) == accounts[id].hard => Charged(id) + a <= accounts[id].limit

Charge(i) ==
  /\ claims[i].state = "held"
  /\ Affordable(claims[i].budget, claims[i].amount)
  /\ claims' = [claims EXCEPT ![i].state = "charged"]
  /\ UNCHANGED <<accounts, spent>>

Return(i) ==
  /\ claims[i].state = "held"
  /\ claims' = [claims EXCEPT ![i].state = "returned"]
  /\ UNCHANGED <<accounts, spent>>

Spend(id, a) ==
  /\ a >= 0
  /\ Affordable(id, a)
  /\ spent' = [spent EXCEPT ![id] = @ + a]
  /\ UNCHANGED <<accounts, claims>>

Next ==
  \/ \E id \in BudgetId, limit \in Limits, hard \in BOOLEAN : Open(id, limit, hard)
  \/ \E id \in DOMAIN accounts, a \in Amounts : Claim(id, a) \/ Spend(id, a)
  \/ \E i \in 1..Len(claims) : Charge(i) \/ Return(i)

Spec == Init /\ [][Next]_evars
=============================================================================
