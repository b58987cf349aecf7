-------------------------- MODULE CoordinatorProofs --------------------------
(***************************************************************************)
(* Theorems about the coordinator's sessions, for every number of sessions, *)
(* tokens and requests. A COMMIT or RELEASE works on a copy of the          *)
(* reservation; the proof shows what it takes for that copy to be as good   *)
(* as the object itself.                                                   *)
(***************************************************************************)
EXTENDS Coordinator, BudgetOpsProofs, SequenceTheorems

Busy == {"insert", "commit", "release", "store"}

(* The budget main created, with its limit held. *)
BudgetInv ==
  /\ DOMAIN budgets \subseteq {BudgetId} /\ budgets \in [DOMAIN budgets -> Budget]
  /\ \A id \in DOMAIN budgets :
       LET b == budgets[id]
       IN  /\ b.generation = 1 /\ b.epoch = Epoch /\ b.mode = "HARD" /\ b.limit = Limit
           /\ b.expires_at = 0
           /\ b.consumed <= b.limit

(* Every token issued is in the map, or its reservation is in the hands of  *)
(* the session that will put it there, still ACTIVE.                       *)
TokenInv ==
  /\ owner \in Seq(Session) /\ Len(owner) <= MaxReservations
  /\ Len(owner) > 0 => BudgetId \in DOMAIN budgets
  /\ charges \in Seq(Nat) /\ Len(charges) = Len(owner)
  /\ DOMAIN reservations \subseteq 1..Len(owner)
  /\ reservations \in [DOMAIN reservations -> Reservation]
  /\ frame \in [Session -> Frame]
  /\ requests \in 0..MaxRequests /\ exclusive \in BOOLEAN
  /\ \A s \in Session :
       /\ frame[s].at = "insert" => /\ frame[s].token \in 1..Len(owner) \ DOMAIN reservations
                                    /\ owner[frame[s].token] = s
                                    /\ frame[s].res.state = "ACTIVE"
       /\ frame[s].at \in {"commit", "release", "store"} => frame[s].token \in DOMAIN reservations
  /\ \A t \in 1..Len(owner) :
       \/ t \in DOMAIN reservations
       \/ frame[owner[t]].at = "insert" /\ frame[owner[t]].token = t

(* Session s has token t's reservation in a newer state than the map. *)
Ahead(s, t) == frame[s].at \in {"insert", "store"} /\ frame[s].token = t

(* Token t's reservation as the session it was issued to last left it. *)
Latest(t) == IF Ahead(owner[t], t) THEN frame[owner[t]].res ELSE reservations[t]

(* When tokens are not shared, the copy a session works on is the map's,    *)
(* and a token that was charged is COMMITTED wherever it is looked up.     *)
CopyInv ==
  /\ \A s \in Session :
       /\ frame[s].at \in Busy => owner[frame[s].token] = s
       /\ frame[s].at \in {"commit", "release"} => frame[s].res = reservations[frame[s].token]
  /\ \A t \in 1..Len(owner) :
       charges[t] = 0 \/ (charges[t] = 1 /\ Latest(t).state = "COMMITTED")

(* The inductive invariant. *)
IInv == BudgetInv /\ TokenInv /\ (exclusive => CopyInv)
-----------------------------------------------------------------------------
(* What a session's thread has in its locals. *)
LEMMA FrameTyped ==
  ASSUME frame \in [Session -> Frame], NEW s \in Session
  PROVE  /\ frame[s].at = "recv" \/ frame[s].at \in Busy
         /\ frame[s].at = "recv" => frame[s] = Waiting
         /\ frame[s].at \in Busy =>
              /\ frame[s].token \in Tokens /\ frame[s].res \in Reservation
              /\ frame[s] = [at |-> frame[s].at, token |-> frame[s].token, res |-> frame[s].res]
<1>1. frame[s] \in Frame
  OBVIOUS
<1>. QED BY <1>1 DEF Frame, Waiting, Busy

(* A thread that is about to call commit or release has the budget to call  *)
(* it on.                                                                  *)
LEMMA BudgetThere ==
  ASSUME IInv, NEW s \in Session, frame[s].at \in {"commit", "release", "store"}
  PROVE  /\ BudgetId \in DOMAIN budgets /\ budgets[BudgetId] \in Budget
         /\ frame[s].token \in 1..Len(owner) /\ frame[s].token \in DOMAIN reservations
         /\ frame[s].res \in Reservation
<1>1. frame[s].token \in DOMAIN reservations /\ frame[s].token \in 1..Len(owner)
  BY DEF IInv, TokenInv
<1>2. Len(owner) \in Nat
  BY DEF IInv, TokenInv
<1>3. BudgetId \in DOMAIN budgets
  BY <1>1, <1>2 DEF IInv, TokenInv
<1>4. frame[s].res \in Reservation
  BY FrameTyped DEF IInv, TokenInv, Busy
<1>. QED BY <1>1, <1>3, <1>4 DEF IInv, BudgetInv

(* A budget rewritten within its limit is still the one main created. *)
LEMMA BudgetRewritten ==
  ASSUME BudgetInv, BudgetId \in DOMAIN budgets, NEW c, NEW x, NEW y, NEW z,
         Rewrites(budgets[BudgetId], c, x, y, z), c.consumed <= Limit,
         budgets' = [budgets EXCEPT ![BudgetId] = c]
  PROVE  BudgetInv' /\ DOMAIN budgets' = DOMAIN budgets
BY DEF BudgetInv, Rewrites, SameTerms, Epoch

(* main creates the budget before any session has a token. *)
LEMMA StartStep ==
  ASSUME IInv, Start PROVE IInv'
<1> DEFINE b == [generation |-> 1, epoch |-> Epoch, mode |-> "HARD", limit |-> Limit,
                 expires_at |-> 0, lifecycle |-> "ACTIVE",
                 reserved |-> 0, consumed |-> 0, released |-> 0]
<1>1. b \in Budget
  BY CoordinatorAssumption DEF Budget, Mode, Lifecycle, Epoch
<1>2. /\ b.generation = 1 /\ b.epoch = Epoch /\ b.mode = "HARD" /\ b.limit = Limit
      /\ b.expires_at = 0 /\ b.consumed = 0
  OBVIOUS
<1>3. /\ budgets' = [x \in {BudgetId} |-> b]
      /\ UNCHANGED <<reservations, frame, requests, owner, charges, exclusive>>
  BY DEF Start
<1> HIDE DEF b
<1>4. BudgetInv'
  BY <1>1, <1>2, <1>3, CoordinatorAssumption DEF BudgetInv, Epoch
<1>5. TokenInv'
  BY <1>3 DEF IInv, TokenInv
<1>6. exclusive' => CopyInv'
  BY <1>3 DEF IInv, CopyInv, Latest, Ahead
<1>. QED BY <1>4, <1>5, <1>6 DEF IInv

(* gov.reserve hands out a fresh token. *)
LEMMA ReserveCallStep ==
  ASSUME IInv, NEW s \in Session, NEW a \in Amounts, ReserveCall(s, a) PROVE IInv'
<1> DEFINE b == budgets[BudgetId]
           c == reserve_budget(b, 1, Epoch, a, Epoch, 0)
           n == Len(owner) + 1
           r == new_reservation(BudgetId, b, a)
           v == [at |-> "insert", token |-> n, res |-> r]
<1>1. /\ BudgetId \in DOMAIN budgets /\ b \in Budget /\ a \in Int /\ frame[s] = Waiting
      /\ n \in Nat /\ n \in 1..MaxReservations
      /\ b.generation = 1 /\ b.epoch = Epoch /\ b.expires_at = 0 /\ b.consumed <= Limit
      /\ b.consumed \in Int
  BY CoordinatorAssumption DEF ReserveCall, IInv, BudgetInv, TokenInv, Budget
<1>2. /\ reserve_status(b, 1, Epoch, a, Epoch, 0) = "OK"
      /\ budgets' = [budgets EXCEPT ![BudgetId] = c]
      /\ frame' = [frame EXCEPT ![s] = v]
      /\ owner' = Append(owner, s) /\ charges' = Append(charges, 0)
      /\ UNCHANGED <<reservations, requests, exclusive>>
  BY DEF ReserveCall
<1>3. a \in Nat /\ Rewrites(b, c, a, 0, 0)
  <2> HIDE DEF b
  <2>. QED BY <1>1, <1>2, ReserveAccepted
<1>4. r \in Reservation /\ r.state = "ACTIVE"
  BY <1>1, <1>3 DEF new_reservation, Reservation, ReservationState
<1> HIDE DEF c, r
<1>5. BudgetInv' /\ DOMAIN budgets' = DOMAIN budgets
  <2>1. c.consumed <= Limit
    BY <1>1, <1>3 DEF Rewrites
  <2>. QED BY <1>1, <1>2, <1>3, <2>1, BudgetRewritten DEF IInv
<1>6. v \in Frame
  BY <1>1, <1>4 DEF Frame, Tokens
<1>7. /\ owner \in Seq(Session) /\ charges \in Seq(Nat) /\ Len(charges) = Len(owner)
      /\ Len(owner) \in Nat
  BY DEF IInv, TokenInv
<1>8. /\ owner' \in Seq(Session) /\ Len(owner') = n /\ owner'[n] = s
      /\ \A t \in 1..Len(owner) : owner'[t] = owner[t]
      /\ charges' \in Seq(Nat) /\ Len(charges') = n /\ charges'[n] = 0
      /\ \A t \in 1..Len(owner) : charges'[t] = charges[t]
  BY <1>2, <1>7, AppendProperties
<1>9. /\ frame'[s] = v /\ \A x \in Session : x # s => frame'[x] = frame[x]
      /\ frame' \in [Session -> Frame]
  BY <1>2, <1>6 DEF IInv, TokenInv
<1>10. v.at = "insert" /\ v.token = n /\ v.res = r
  OBVIOUS
<1>11. \A t \in 1..n : t = n \/ t \in 1..Len(owner)
  BY <1>7
<1>12. \A t \in 1..Len(owner) : t \in 1..n /\ t # n
  BY <1>7
<1>13. frame[s].at = "recv"
  BY <1>1 DEF Waiting
<1> HIDE DEF v, n
<1>14. TokenInv'
  <2>1. \A x \in Session :
          /\ frame'[x].at = "insert" =>
               /\ frame'[x].token \in 1..Len(owner') \ DOMAIN reservations'
               /\ owner'[frame'[x].token] = x
               /\ frame'[x].res.state = "ACTIVE"
          /\ frame'[x].at \in {"commit", "release", "store"} =>
               frame'[x].token \in DOMAIN reservations'
    BY <1>1, <1>2, <1>4, <1>8, <1>9, <1>10, <1>12 DEF IInv, TokenInv
  <2>2. \A t \in 1..Len(owner') :
          \/ t \in DOMAIN reservations'
          \/ frame'[owner'[t]].at = "insert" /\ frame'[owner'[t]].token = t
    BY <1>2, <1>8, <1>9, <1>10, <1>11, <1>13 DEF IInv, TokenInv
  <2>3. DOMAIN reservations' \subseteq 1..Len(owner')
    BY <1>2, <1>8, <1>12 DEF IInv, TokenInv
  <2>. QED BY <1>1, <1>2, <1>5, <1>8, <1>9, <2>1, <2>2, <2>3 DEF IInv, TokenInv
<1>15. ASSUME exclusive' PROVE CopyInv'
  <2>1. CopyInv
    BY <1>2, <1>15 DEF IInv
  <2>2. \A x \in Session : frame[x].at \in Busy => frame[x].token \in 1..Len(owner)
    BY DEF IInv, TokenInv, Busy
  <2>3. ASSUME NEW x \in Session
        PROVE  /\ frame'[x].at \in Busy => owner'[frame'[x].token] = x
               /\ frame'[x].at \in {"commit", "release"} =>
                    frame'[x].res = reservations'[frame'[x].token]
    <3>1. CASE x = s
      BY <1>8, <1>9, <1>10, <3>1
    <3>2. CASE x # s
      BY <1>2, <1>8, <1>9, <2>1, <2>2, <3>2 DEF CopyInv
    <3>. QED BY <3>1, <3>2
  <2>4. ASSUME NEW t \in 1..Len(owner')
        PROVE  charges'[t] = 0 \/ (charges'[t] = 1 /\ Latest(t)'.state = "COMMITTED")
    <3>1. CASE t = n
      BY <1>8, <3>1
    <3>2. CASE t # n
      <4>1. t \in 1..Len(owner) /\ owner'[t] = owner[t] /\ charges'[t] = charges[t]
            /\ owner[t] \in Session
        BY <1>7, <1>8, <1>11, <3>2
      <4>2. Latest(t)' = Latest(t)
        BY <1>2, <1>9, <1>10, <1>13, <3>2, <4>1 DEF Latest, Ahead
      <4>. QED BY <2>1, <4>1, <4>2 DEF CopyInv
    <3>. QED BY <3>1, <3>2
  <2>. QED BY <2>3, <2>4 DEF CopyInv
<1>. QED BY <1>5, <1>14, <1>15 DEF IInv

(* Putting the reservation in the map, copying it out and writing the copy  *)
(* back change no token's latest state when tokens are not shared.         *)
LEMMA LatestKept ==
  ASSUME IInv, exclusive, NEW s \in Session,
         \/ ReserveInsert(s) \/ Store(s)
         \/ \E request \in {"commit", "release"}, k \in Tokens : Fetch(s, request, k),
         NEW t \in 1..Len(owner)
  PROVE  Latest(t)' = Latest(t)
<1>1. /\ owner[t] \in Session /\ UNCHANGED owner
      /\ frame \in [Session -> Frame]
      /\ \A x \in Session : x # s => frame'[x] = frame[x]
  <2>1. /\ UNCHANGED owner
        /\ \E v : frame' = [frame EXCEPT ![s] = v]
    BY DEF ReserveInsert, Store, Fetch
  <2>. QED BY <2>1 DEF IInv, TokenInv
<1>2. CASE ReserveInsert(s)
  <2> DEFINE k == frame[s].token
  <2>1. /\ k \in 1..Len(owner) /\ owner[k] = s /\ frame[s].at = "insert"
        /\ frame'[s] = Waiting /\ reservations'[k] = frame[s].res
        /\ \A x \in DOMAIN reservations : x # k => reservations'[x] = reservations[x]
    BY <1>1, <1>2 DEF IInv, TokenInv, ReserveInsert
  <2>2. frame'[s].at = "recv"
    BY <2>1 DEF Waiting
  <2>3. CASE t = k
    BY <1>1, <2>1, <2>2, <2>3 DEF Latest, Ahead
  <2>4. CASE t # k
    <3>1. CASE owner[t] = s
      <4>1. t \in DOMAIN reservations
        BY <2>1, <2>4, <3>1 DEF IInv, TokenInv
      <4>. QED BY <1>1, <2>1, <2>2, <2>4, <3>1, <4>1 DEF Latest, Ahead
    <3>2. CASE owner[t] # s
      <4>1. frame'[owner[t]] = frame[owner[t]]
        BY <1>1, <3>2
      <4>2. t \in DOMAIN reservations \/ Ahead(owner[t], t)
        BY DEF IInv, TokenInv, Ahead
      <4>. QED BY <1>1, <2>1, <2>4, <4>1, <4>2 DEF Latest, Ahead
    <3>. QED BY <3>1, <3>2
  <2>. QED BY <2>3, <2>4
<1>3. CASE Store(s)
  <2> DEFINE k == frame[s].token
  <2>1. /\ k \in DOMAIN reservations /\ frame[s].at = "store" /\ owner[k] = s
        /\ frame'[s] = Waiting
        /\ reservations' = [reservations EXCEPT ![k] = frame[s].res]
    BY <1>1, <1>3 DEF IInv, TokenInv, CopyInv, Store, Busy
  <2>2. frame'[s].at = "recv"
    BY <2>1 DEF Waiting
  <2>3. /\ reservations'[k] = frame[s].res
        /\ \A x : x # k => reservations'[x] = reservations[x] \/ x \notin DOMAIN reservations
    BY <2>1 DEF IInv, TokenInv
  <2>4. CASE t = k
    BY <1>1, <2>1, <2>2, <2>3, <2>4 DEF Latest, Ahead
  <2>5. CASE t # k
    <3>1. CASE owner[t] = s
      <4>1. t \in DOMAIN reservations
        BY <2>1, <3>1 DEF IInv, TokenInv
      <4>. QED BY <1>1, <2>1, <2>2, <2>3, <2>5, <3>1, <4>1 DEF Latest, Ahead
    <3>2. CASE owner[t] # s
      <4>1. frame'[owner[t]] = frame[owner[t]]
        BY <1>1, <3>2
      <4>2. t \in DOMAIN reservations \/ Ahead(owner[t], t)
        BY DEF IInv, TokenInv, Ahead
      <4>. QED BY <1>1, <2>3, <2>5, <4>1, <4>2 DEF Latest, Ahead
    <3>. QED BY <3>1, <3>2
  <2>. QED BY <2>4, <2>5
<1>4. ASSUME NEW request \in {"commit", "release"}, NEW k \in Tokens, Fetch(s, request, k)
      PROVE  Latest(t)' = Latest(t)
  <2>1. frame[s].at = "recv" /\ frame'[s].at = request /\ UNCHANGED reservations
    BY <1>1, <1>4 DEF Fetch, Waiting
  <2>. QED BY <1>1, <1>4, <2>1 DEF Latest, Ahead
<1>. QED BY <1>2, <1>3, <1>4

(* The map gets a new reservation. *)
LEMMA ReserveInsertStep ==
  ASSUME IInv, NEW s \in Session, ReserveInsert(s) PROVE IInv'
<1> DEFINE k == frame[s].token
<1>1. /\ frame[s].at = "insert" /\ k \in 1..Len(owner) /\ k \notin DOMAIN reservations
      /\ owner[k] = s /\ frame[s].res \in Reservation /\ frame \in [Session -> Frame]
  BY FrameTyped DEF ReserveInsert, IInv, TokenInv, Busy
<1>2. /\ reservations' = [t \in DOMAIN reservations \cup {k} |->
                            IF t = k THEN frame[s].res ELSE reservations[t]]
      /\ frame' = [frame EXCEPT ![s] = Waiting]
      /\ UNCHANGED <<budgets, requests, owner, charges, exclusive>>
  BY DEF ReserveInsert
<1>3. /\ frame'[s] = Waiting /\ frame'[s].at = "recv"
      /\ \A x \in Session : x # s => frame'[x] = frame[x]
      /\ frame' \in [Session -> Frame]
  BY <1>1, <1>2 DEF Waiting, Frame
<1>4. /\ DOMAIN reservations' = DOMAIN reservations \cup {k}
      /\ \A t \in DOMAIN reservations : reservations'[t] = reservations[t]
      /\ reservations' \in [DOMAIN reservations' -> Reservation]
  BY <1>1, <1>2 DEF IInv, TokenInv
<1> HIDE DEF k
<1>5. TokenInv'
  <2>1. ASSUME NEW x \in Session, frame'[x].at = "insert"
        PROVE  /\ frame'[x].token \in 1..Len(owner') \ DOMAIN reservations'
               /\ owner'[frame'[x].token] = x
               /\ frame'[x].res.state = "ACTIVE"
    BY <1>1, <1>2, <1>3, <1>4, <2>1 DEF IInv, TokenInv
  <2>2. ASSUME NEW t \in 1..Len(owner')
        PROVE  \/ t \in DOMAIN reservations'
               \/ frame'[owner'[t]].at = "insert" /\ frame'[owner'[t]].token = t
    <3>1. owner[t] \in Session
      BY <1>2 DEF IInv, TokenInv
    <3>. QED BY <1>2, <1>3, <1>4, <3>1 DEF IInv, TokenInv, k
  <2>3. ASSUME NEW x \in Session, frame'[x].at \in {"commit", "release", "store"}
        PROVE  frame'[x].token \in DOMAIN reservations'
    BY <1>3, <1>4, <2>3 DEF IInv, TokenInv
  <2>. QED BY <1>1, <1>2, <1>3, <1>4, <2>1, <2>2, <2>3 DEF IInv, TokenInv
<1>6. ASSUME exclusive' PROVE CopyInv'
  <2>1. CopyInv /\ exclusive
    BY <1>2, <1>6 DEF IInv
  <2>2. ASSUME NEW x \in Session
        PROVE  /\ frame'[x].at \in Busy => owner'[frame'[x].token] = x
               /\ frame'[x].at \in {"commit", "release"} =>
                    frame'[x].res = reservations'[frame'[x].token]
    BY <1>2, <1>3, <1>4, <2>1 DEF CopyInv, IInv, TokenInv, Busy
  <2>3. \A t \in 1..Len(owner) : Latest(t)' = Latest(t)
    BY <2>1, LatestKept
  <2>. QED BY <1>2, <2>1, <2>2, <2>3 DEF CopyInv
<1>. QED BY <1>2, <1>5, <1>6 DEF IInv, BudgetInv

(* COMMIT and RELEASE copy the reservation out of the map. *)
LEMMA FetchStep ==
  ASSUME IInv, NEW s \in Session, NEW request \in {"commit", "release"}, NEW k \in Tokens,
         Fetch(s, request, k)
  PROVE  IInv'
<1> DEFINE v == [at |-> request, token |-> k, res |-> reservations[k]]
<1>1. /\ frame \in [Session -> Frame] /\ frame[s].at = "recv" /\ k \in DOMAIN reservations
      /\ exclusive => owner[k] = s
      /\ frame' = [frame EXCEPT ![s] = v]
      /\ UNCHANGED <<budgets, reservations, owner, charges, exclusive>>
  BY DEF Fetch, Waiting, IInv, TokenInv
<1>2. v \in Frame /\ v.at = request /\ v.token = k /\ v.res = reservations[k]
  BY <1>1 DEF Frame, IInv, TokenInv
<1>3. requests' \in 0..MaxRequests
  BY CoordinatorAssumption DEF Fetch, IInv, TokenInv
<1> HIDE DEF v
<1>4. /\ frame'[s] = v /\ \A x \in Session : x # s => frame'[x] = frame[x]
      /\ frame' \in [Session -> Frame]
  BY <1>1, <1>2
<1>5. TokenInv'
  <2>1. ASSUME NEW t \in 1..Len(owner')
        PROVE  \/ t \in DOMAIN reservations'
               \/ frame'[owner'[t]].at = "insert" /\ frame'[owner'[t]].token = t
    <3>1. owner[t] \in Session
      BY <1>1 DEF IInv, TokenInv
    <3>. QED BY <1>1, <1>4, <3>1 DEF IInv, TokenInv
  <2>. QED BY <1>1, <1>2, <1>3, <1>4, <2>1 DEF IInv, TokenInv
<1>6. ASSUME exclusive' PROVE CopyInv'
  <2>1. CopyInv /\ exclusive
    BY <1>1, <1>6 DEF IInv
  <2>2. ASSUME NEW x \in Session
        PROVE  /\ frame'[x].at \in Busy => owner'[frame'[x].token] = x
               /\ frame'[x].at \in {"commit", "release"} =>
                    frame'[x].res = reservations'[frame'[x].token]
    BY <1>1, <1>2, <1>4, <2>1 DEF CopyInv
  <2>3. \A t \in 1..Len(owner) : Latest(t)' = Latest(t)
    BY <2>1, LatestKept
  <2>. QED BY <1>1, <2>1, <2>2, <2>3 DEF CopyInv
<1>. QED BY <1>1, <1>5, <1>6 DEF IInv, BudgetInv

(* The copy is written back. *)
LEMMA StoreStep ==
  ASSUME IInv, NEW s \in Session, Store(s) PROVE IInv'
<1> DEFINE k == frame[s].token
<1>1. /\ frame[s].at = "store" /\ k \in DOMAIN reservations
      /\ frame[s].res \in Reservation /\ frame \in [Session -> Frame]
  BY FrameTyped DEF Store, IInv, TokenInv, Busy
<1>2. /\ reservations' = [reservations EXCEPT ![k] = frame[s].res]
      /\ frame' = [frame EXCEPT ![s] = Waiting]
      /\ UNCHANGED <<budgets, requests, owner, charges, exclusive>>
  BY DEF Store
<1>3. /\ frame'[s] = Waiting /\ frame'[s].at = "recv"
      /\ \A x \in Session : x # s => frame'[x] = frame[x]
      /\ frame' \in [Session -> Frame]
  BY <1>1, <1>2 DEF Waiting, Frame
<1>4. /\ DOMAIN reservations' = DOMAIN reservations
      /\ \A t \in DOMAIN reservations : t # k => reservations'[t] = reservations[t]
      /\ reservations' \in [DOMAIN reservations' -> Reservation]
  BY <1>1, <1>2 DEF IInv, TokenInv
<1> HIDE DEF k
<1>5. TokenInv'
  <2>1. ASSUME NEW t \in 1..Len(owner')
        PROVE  \/ t \in DOMAIN reservations'
               \/ frame'[owner'[t]].at = "insert" /\ frame'[owner'[t]].token = t
    <3>1. owner[t] \in Session
      BY <1>2 DEF IInv, TokenInv
    <3>. QED BY <1>1, <1>2, <1>3, <1>4, <3>1 DEF IInv, TokenInv
  <2>. QED BY <1>1, <1>2, <1>3, <1>4, <2>1 DEF IInv, TokenInv
<1>6. ASSUME exclusive' PROVE CopyInv'
  <2>1. CopyInv /\ exclusive /\ owner[k] = s
    BY <1>1, <1>2, <1>6 DEF IInv, CopyInv, Busy, k
  <2>2. ASSUME NEW x \in Session
        PROVE  /\ frame'[x].at \in Busy => owner'[frame'[x].token] = x
               /\ frame'[x].at \in {"commit", "release"} =>
                    frame'[x].res = reservations'[frame'[x].token]
    <3>1. CASE x = s
      BY <1>3, <3>1 DEF Busy
    <3>2. CASE x # s
      <4>1. frame[x].at \in Busy => owner[frame[x].token] = x /\ frame[x].token # k
        BY <2>1, <3>2 DEF CopyInv
      <4>. QED BY <1>2, <1>3, <1>4, <2>1, <3>2, <4>1 DEF CopyInv, IInv, TokenInv, Busy
    <3>. QED BY <3>1, <3>2
  <2>3. \A t \in 1..Len(owner) : Latest(t)' = Latest(t)
    BY <2>1, LatestKept
  <2>. QED BY <1>2, <2>1, <2>2, <2>3 DEF CopyInv
<1>. QED BY <1>2, <1>5, <1>6 DEF IInv, BudgetInv
-----------------------------------------------------------------------------
(* Session s marks its copy with state st and will write it back. *)
Marks(s, st) ==
  /\ frame'[s].at = "store" /\ frame'[s].token = frame[s].token
  /\ frame'[s].res = [frame[s].res EXCEPT !.state = st]
  /\ frame'[s].res.state = st
  /\ \A x \in Session : x # s => frame'[x] = frame[x]
  /\ frame' \in [Session -> Frame]

(* gov.commit and gov.release leave their mark in the session's copy. *)
LEMMA CopyMarked ==
  ASSUME IInv, NEW s \in Session, frame[s].at \in {"commit", "release"},
         NEW st \in ReservationState,
         frame' = [frame EXCEPT ![s].at = "store", ![s].res.state = st]
  PROVE  Marks(s, st)
<1> DEFINE r == [frame[s].res EXCEPT !.state = st]
           v == [at |-> "store", token |-> frame[s].token, res |-> r]
<1>1. /\ frame \in [Session -> Frame] /\ frame[s].token \in Tokens /\ frame[s].res \in Reservation
      /\ frame[s] = [at |-> frame[s].at, token |-> frame[s].token, res |-> frame[s].res]
  BY FrameTyped DEF IInv, TokenInv, Busy
<1>2. r \in Reservation /\ r.state = st
  BY <1>1 DEF Reservation
<1>3. [[frame[s] EXCEPT !.at = "store"] EXCEPT !.res.state = st] = v
  <2> DEFINE u == [at |-> "store", token |-> frame[s].token, res |-> frame[s].res]
  <2>1. [frame[s] EXCEPT !.at = "store"] = u
    BY <1>1
  <2>2. [u EXCEPT !.res.state = st] = [u EXCEPT !.res = [u.res EXCEPT !.state = st]]
    OBVIOUS
  <2>3. u.res = frame[s].res
    OBVIOUS
  <2>4. [u EXCEPT !.res = r] = v
    <3> HIDE DEF r
    <3>. QED OBVIOUS
  <2> HIDE DEF u
  <2>. QED BY <2>1, <2>2, <2>3, <2>4
<1>4. frame' = [frame EXCEPT ![s] = v]
  <2> DEFINE w == [frame[s] EXCEPT !.at = "store"]
             g == [frame EXCEPT ![s] = w]
  <2>1. frame' = [g EXCEPT ![s] = [g[s] EXCEPT !.res.state = st]]
    OBVIOUS
  <2>2. g[s] = w /\ g \in [Session -> {g[x] : x \in Session}]
    BY <1>1
  <2>3. [w EXCEPT !.res.state = st] = v
    BY <1>3
  <2>4. frame' = [g EXCEPT ![s] = v]
    BY <2>1, <2>2, <2>3
  <2> HIDE DEF v, w
  <2>5. [g EXCEPT ![s] = v] = [frame EXCEPT ![s] = v]
    BY <1>1
  <2>. QED BY <2>4, <2>5
<1>5. v \in Frame
  <2> HIDE DEF r
  <2>. QED BY <1>1, <1>2 DEF Frame
<1>6. v.at = "store" /\ v.token = frame[s].token /\ v.res = r
  OBVIOUS
<1> HIDE DEF r, v
<1>7. frame'[s] = v /\ \A x \in Session : x # s => frame'[x] = frame[x]
  BY <1>1, <1>4
<1>8. frame' \in [Session -> Frame]
  BY <1>1, <1>4, <1>5
<1>9. frame'[s].at = "store" /\ frame'[s].token = frame[s].token /\ frame'[s].res = r
  BY <1>6, <1>7
<1>. QED BY <1>2, <1>7, <1>8, <1>9 DEF r, Marks

(* When tokens are not shared that mark is the token's latest state, and    *)
(* the copy was its latest state before.                                   *)
LEMMA LatestMarked ==
  ASSUME IInv, exclusive, NEW s \in Session, frame[s].at \in {"commit", "release"},
         NEW st \in ReservationState,
         Marks(s, st),
         UNCHANGED <<reservations, owner>>, NEW k, k = frame[s].token
  PROVE  /\ Latest(k) = frame[s].res
         /\ Latest(k)' = [frame[s].res EXCEPT !.state = st]
         /\ \A t \in 1..Len(owner) : t # k => Latest(t)' = Latest(t)
<1>1. /\ frame'[s].at = "store" /\ frame'[s].token = k
      /\ frame'[s].res = [frame[s].res EXCEPT !.state = st]
      /\ \A x \in Session : x # s => frame'[x] = frame[x]
  BY DEF Marks
<1>2. owner[k] = s /\ frame[s].res = reservations[k]
  BY DEF IInv, CopyInv, Busy
<1>3. Latest(k) = frame[s].res
  BY <1>2 DEF Latest, Ahead
<1>5. Latest(k)' = frame'[s].res
  BY <1>1, <1>2 DEF Latest, Ahead
<1>6. ASSUME NEW t \in 1..Len(owner), t # k PROVE Latest(t)' = Latest(t)
  <2>1. owner[t] \in Session
    BY DEF IInv, TokenInv
  <2>2. CASE owner[t] = s
    <3>1. ~Ahead(owner[t], t) /\ ~Ahead(owner[t], t)'
      BY <1>1, <1>6, <2>2 DEF Ahead
    <3>. QED BY <3>1, Zenon DEF Latest
  <2>3. CASE owner[t] # s
    <3>1. frame'[owner'[t]] = frame[owner[t]] /\ owner' = owner /\ reservations' = reservations
      BY <1>1, <2>1, <2>3
    <3>2. Ahead(owner[t], t)' = Ahead(owner[t], t)
      BY <3>1 DEF Ahead
    <3>. QED BY <3>1, <3>2 DEF Latest
  <2>. QED BY <2>2, <2>3
<1>. QED BY <1>1, <1>3, <1>5, <1>6

(* A call that marks the copy and charges the token at most while it is     *)
(* ACTIVE keeps the invariant about tokens.                                *)
LEMMA CallStep ==
  ASSUME IInv, NEW s \in Session, frame[s].at \in {"commit", "release"},
         NEW st \in ReservationState, NEW n \in Nat,
         Marks(s, st),
         charges' = [charges EXCEPT ![frame[s].token] = n],
         DOMAIN budgets' = DOMAIN budgets,
         UNCHANGED <<reservations, requests, owner, exclusive>>,
         \/ n = charges[frame[s].token] /\ (frame[s].res.state = "COMMITTED" => st = "COMMITTED")
         \/ /\ frame[s].res.state = "ACTIVE" /\ st = "COMMITTED"
            /\ n = charges[frame[s].token] + 1
  PROVE  TokenInv' /\ (exclusive' => CopyInv')
<1>0. PICK k : k = frame[s].token
  OBVIOUS
<1>1. k \in 1..Len(owner) /\ k \in DOMAIN reservations
  BY <1>0, BudgetThere
<1>2. /\ frame'[s].at = "store" /\ frame'[s].token = k
      /\ frame'[s].res.state = st
      /\ \A x \in Session : x # s => frame'[x] = frame[x]
      /\ frame' \in [Session -> Frame]
  BY <1>0 DEF Marks
<1>3. /\ charges \in Seq(Nat) /\ Len(charges) = Len(owner)
      /\ charges' \in Seq(Nat) /\ Len(charges') = Len(owner)
      /\ charges'[k] = n
      /\ \A t \in 1..Len(owner) : t # k => charges'[t] = charges[t]
  BY <1>0, <1>1, ExceptSeq DEF IInv, TokenInv
<1>4. TokenInv'
  <2>1. ASSUME NEW t \in 1..Len(owner)
        PROVE  \/ t \in DOMAIN reservations'
               \/ frame'[owner'[t]].at = "insert" /\ frame'[owner'[t]].token = t
    <3>1. owner[t] \in Session
      BY DEF IInv, TokenInv
    <3>. QED BY <1>1, <1>2, <3>1, SMTT(40) DEF IInv, TokenInv
  <2>2. ASSUME NEW x \in Session
        PROVE  /\ frame'[x].at = "insert" =>
                    /\ frame'[x].token \in 1..Len(owner') \ DOMAIN reservations'
                    /\ owner'[frame'[x].token] = x
                    /\ frame'[x].res.state = "ACTIVE"
               /\ frame'[x].at \in {"commit", "release", "store"} =>
                    frame'[x].token \in DOMAIN reservations'
    <3>1. CASE x = s
      BY <1>1, <1>2, <3>1
    <3>2. CASE x # s
      BY <1>2, <3>2 DEF IInv, TokenInv
    <3>. QED BY <3>1, <3>2
  <2>. QED BY <1>2, <1>3, <2>1, <2>2 DEF IInv, TokenInv
<1>5. ASSUME exclusive' PROVE CopyInv'
  <2>1. CopyInv /\ exclusive
    BY <1>5 DEF IInv
  <2>2. ASSUME NEW x \in Session
        PROVE  /\ frame'[x].at \in Busy => owner'[frame'[x].token] = x
               /\ frame'[x].at \in {"commit", "release"} =>
                    frame'[x].res = reservations'[frame'[x].token]
    BY <1>0, <1>2, <2>1 DEF CopyInv, Busy
  <2>3. /\ Latest(k) = frame[s].res
        /\ Latest(k)' = [frame[s].res EXCEPT !.state = st]
        /\ \A t \in 1..Len(owner) : t # k => Latest(t)' = Latest(t)
    BY <1>0, <2>1, LatestMarked
  <2>4. [frame[s].res EXCEPT !.state = st].state = st
    BY BudgetThere DEF Reservation
  <2>5. charges'[k] = 0 \/ (charges'[k] = 1 /\ Latest(k)'.state = "COMMITTED")
    BY <1>0, <1>1, <1>3, <2>1, <2>3, <2>4 DEF CopyInv
  <2>6. ASSUME NEW t \in 1..Len(owner)
        PROVE  charges'[t] = 0 \/ (charges'[t] = 1 /\ Latest(t)'.state = "COMMITTED")
    <3>1. CASE t = k
      BY <2>5, <3>1
    <3>2. CASE t # k
      BY <1>3, <2>1, <2>3, <3>2 DEF CopyInv
    <3>. QED BY <3>1, <3>2
  <2>. QED BY <2>2, <2>6 DEF CopyInv
<1>. QED BY <1>4, <1>5

(* gov.commit charges an ACTIVE copy within the limit, whoever else works   *)
(* on the token.                                                           *)
LEMMA CommitCallStep ==
  ASSUME IInv, NEW s \in Session, CommitCall(s) PROVE IInv'
<1> DEFINE r == frame[s].res
           b == budgets[BudgetId]
           c == commit_budget(b, r, Epoch, 0)
           st == commit_state(b, r, Epoch, 0)
           n == charges[frame[s].token]
<1>1. /\ frame[s].at = "commit"
      /\ budgets' = [budgets EXCEPT ![BudgetId] = c]
      /\ frame' = [frame EXCEPT ![s].at = "store", ![s].res.state = st]
      /\ charges' = [charges EXCEPT ![frame[s].token] =
                       IF commit_charges(b, r, Epoch, 0) THEN n + 1 ELSE n]
      /\ UNCHANGED <<reservations, requests, owner, exclusive>>
  BY DEF CommitCall
<1>2. /\ BudgetId \in DOMAIN budgets /\ b \in Budget /\ r \in Reservation
      /\ frame[s].token \in 1..Len(owner)
  BY <1>1, BudgetThere
<1>3. /\ r.amount \in Nat /\ r.expires_at = 0 /\ r.state \in ReservationState
      /\ b.consumed \in Int /\ b.mode = "HARD" /\ b.limit = Limit /\ b.consumed <= Limit
      /\ Limit \in Nat
  BY <1>2, CoordinatorAssumption DEF Reservation, IInv, BudgetInv, Budget
<1>7. n \in Nat
  BY <1>2 DEF IInv, TokenInv
<1>4. ~commit_lapses(b, r, Epoch, 0)
  <2>1. ~lapsed(r, 0)
    BY <1>3 DEF lapsed
  <2> HIDE DEF b, r
  <2>. QED BY <1>2, <1>3, <2>1, CommitLapses
<1>5. CASE commit_charges(b, r, Epoch, 0)
  <2>1. /\ r.state = "ACTIVE" /\ ~over_hard_limit(b, r.amount)
        /\ Rewrites(b, c, -r.amount, r.amount, 0) /\ st = "COMMITTED"
    <3> HIDE DEF b, r
    <3>. QED BY <1>2, <1>3, <1>5, CommitCharges
  <2>2. c.consumed <= Limit
    BY <1>3, <2>1 DEF Rewrites, over_hard_limit
  <2>3. BudgetInv' /\ DOMAIN budgets' = DOMAIN budgets
    <3> HIDE DEF c
    <3>. QED BY <1>1, <1>2, <2>1, <2>2, BudgetRewritten DEF IInv
  <2>4. /\ Marks(s, st) /\ st \in ReservationState
        /\ charges' = [charges EXCEPT ![frame[s].token] = n + 1] /\ n + 1 \in Nat
    <3>1. st \in ReservationState
      BY <2>1 DEF ReservationState
    <3> HIDE DEF st
    <3>2. Marks(s, st)
      BY <1>1, <3>1, CopyMarked
    <3>. QED BY <1>1, <1>5, <1>7, <3>1, <3>2
  <2>5. TokenInv' /\ (exclusive' => CopyInv')
    <3> HIDE DEF st
    <3>. QED BY <1>1, <2>1, <2>3, <2>4, CallStep
  <2>. QED BY <2>3, <2>5 DEF IInv
<1>6. CASE ~commit_charges(b, r, Epoch, 0)
  <2>1. c = b /\ st = r.state
    BY <1>4, <1>6, CommitKeeps
  <2>2. UNCHANGED budgets
    BY <1>1, <1>2, <2>1 DEF IInv, BudgetInv
  <2>3. BudgetInv' /\ DOMAIN budgets' = DOMAIN budgets
    BY <2>2 DEF IInv, BudgetInv
  <2>4. /\ Marks(s, st) /\ st \in ReservationState
        /\ charges' = [charges EXCEPT ![frame[s].token] = n]
    <3>1. st \in ReservationState
      BY <1>3, <2>1
    <3> HIDE DEF st
    <3>2. Marks(s, st)
      BY <1>1, <3>1, CopyMarked
    <3>. QED BY <1>1, <1>6, <3>1, <3>2
  <2>5. TokenInv' /\ (exclusive' => CopyInv')
    <3> HIDE DEF st
    <3>. QED BY <1>1, <1>7, <2>1, <2>3, <2>4, CallStep
  <2>. QED BY <2>3, <2>5 DEF IInv
<1>. QED BY <1>5, <1>6

(* gov.release charges nothing. *)
LEMMA ReleaseCallStep ==
  ASSUME IInv, NEW s \in Session, ReleaseCall(s) PROVE IInv'
<1> DEFINE r == frame[s].res
           b == budgets[BudgetId]
           c == release_budget(b, r, Epoch, TRUE)
           st == release_state(b, r, Epoch)
           n == charges[frame[s].token]
<1>1. /\ frame[s].at = "release"
      /\ budgets' = [budgets EXCEPT ![BudgetId] = release_budget(b, r, Epoch, Len(owner) > 0)]
      /\ frame' = [frame EXCEPT ![s].at = "store", ![s].res.state = st]
      /\ UNCHANGED <<reservations, requests, owner, charges, exclusive>>
  BY DEF ReleaseCall
<1>2. /\ BudgetId \in DOMAIN budgets /\ b \in Budget /\ r \in Reservation
      /\ frame[s].token \in 1..Len(owner) /\ Len(owner) \in Nat
  BY <1>1, BudgetThere DEF IInv, TokenInv
<1>3. /\ r.amount \in Nat /\ r.amount \in Int /\ r.state \in ReservationState
      /\ b.consumed \in Int /\ b.consumed <= Limit /\ n \in Nat
  BY <1>2, SMTT(40) DEF Reservation, IInv, BudgetInv, TokenInv, Budget
<1>4. budgets' = [budgets EXCEPT ![BudgetId] = c]
  <2>1. Len(owner) > 0
    BY <1>2
  <2>. QED BY <1>1, <2>1 DEF release_budget
<1>5. charges' = [charges EXCEPT ![frame[s].token] = n]
  BY <1>1 DEF IInv, TokenInv
<1>6. /\ BudgetInv' /\ DOMAIN budgets' = DOMAIN budgets
      /\ st \in ReservationState /\ (r.state = "COMMITTED" => st = "COMMITTED")
  <2>1. CASE release_returns(b, r, Epoch)
    <3>1. /\ r.state = "ACTIVE" /\ Rewrites(b, c, -r.amount, 0, r.amount) /\ st = "RELEASED"
      <4> HIDE DEF b, r
      <4>. QED BY <1>2, <1>3, <2>1, ReleaseReturns
    <3> HIDE DEF c
    <3>2. c.consumed <= Limit
      BY <1>3, <3>1 DEF Rewrites
    <3>3. BudgetInv' /\ DOMAIN budgets' = DOMAIN budgets
      BY <1>2, <1>4, <3>1, <3>2, BudgetRewritten DEF IInv
    <3>. QED BY <3>1, <3>3 DEF ReservationState
  <2>2. CASE ~release_returns(b, r, Epoch)
    <3>1. c = b /\ st = r.state
      BY <2>2, ReleaseKeeps
    <3>2. UNCHANGED budgets
      <4> HIDE DEF c
      <4>. QED BY <1>2, <1>4, <3>1 DEF IInv, BudgetInv
    <3>. QED BY <1>3, <3>1, <3>2 DEF IInv, BudgetInv
  <2>. QED BY <2>1, <2>2
<1> HIDE DEF st
<1>7. Marks(s, st)
  BY <1>1, <1>6, CopyMarked
<1>8. TokenInv' /\ (exclusive' => CopyInv')
  BY <1>1, <1>3, <1>5, <1>6, <1>7, CallStep
<1>. QED BY <1>6, <1>8 DEF IInv
-----------------------------------------------------------------------------
(* Every step of every session, and every stuttering step, preserves the    *)
(* invariant.                                                              *)
LEMMA InvariantStep ==
  ASSUME IInv, [Next]_vars PROVE IInv'
<1>1. CASE UNCHANGED vars
  BY <1>1 DEF IInv, vars, BudgetInv, TokenInv, CopyInv, Latest, Ahead
<1>2. ASSUME NEW s \in Session,
             \/ \E a \in Amounts : ReserveCall(s, a)
             \/ ReserveInsert(s)
             \/ \E request \in {"commit", "release"}, t \in Tokens : Fetch(s, request, t)
             \/ CommitCall(s) \/ ReleaseCall(s) \/ Store(s)
      PROVE  IInv'
  BY <1>2, ReserveCallStep, ReserveInsertStep, FetchStep, CommitCallStep, ReleaseCallStep,
     StoreStep
<1>. QED BY <1>1, <1>2, StartStep DEF Next

(* Before main has created the budget there is nothing to be wrong. *)
LEMMA InvariantInit ==
  ASSUME Init PROVE IInv
<1>1. BudgetInv
  BY DEF Init, BudgetInv
<1>2. Waiting \in Frame /\ Waiting.at = "recv"
  BY DEF Waiting, Frame
<1>3. TokenInv
  BY <1>2, CoordinatorAssumption DEF Init, TokenInv
<1>4. CopyInv
  BY <1>2 DEF Init, CopyInv, Busy
<1>. QED BY <1>1, <1>3, <1>4 DEF IInv

(* The inductive invariant holds in every behaviour. *)
THEOREM Invariance == Spec => []IInv
BY InvariantInit, InvariantStep, PTL DEF Spec

(* The variables have their types: in particular every token a session      *)
(* holds was issued, and the map holds only tokens that were.              *)
THEOREM TypeCorrect == Spec => []TypeOK
<1>1. IInv => TypeOK
  BY DEF IInv, BudgetInv, TokenInv, TypeOK
<1>. QED BY <1>1, Invariance, PTL

(* The hard limit holds, however many sessions commit the copies of however *)
(* many tokens, shared or not.                                             *)
THEOREM HardLimit == Spec => []HardLimitHeld
<1>1. IInv => HardLimitHeld
  <2>1. SUFFICES ASSUME IInv, NEW id \in DOMAIN budgets PROVE remaining(budgets[id]) >= 0
    BY DEF HardLimitHeld
  <2>2. budgets[id] \in Budget /\ budgets[id].consumed <= budgets[id].limit
    BY <2>1 DEF IInv, BudgetInv
  <2>. QED BY <2>2 DEF remaining, Budget
<1>. QED BY <1>1, Invariance, PTL

(* COMMIT charges a token at most once when tokens are not shared, however  *)
(* requests are repeated and sessions interleave.                          *)
THEOREM NoDoubleCharge == Spec => []ChargedOnce
<1>1. IInv => ChargedOnce
  BY DEF IInv, TokenInv, CopyInv, ChargedOnce, ChargedOnceByAnyone
<1>. QED BY <1>1, Invariance, PTL
-----------------------------------------------------------------------------
(* The reservations as their callers would see them if each were one object. *)
Objects == [t \in 1..Len(owner) |-> Latest(t)]

(* When tokens are not shared the session that is ahead of the map is the   *)
(* one the token was issued to.                                            *)
LEMMA CurrentIsLatest ==
  IInv /\ exclusive => /\ [t \in 1..Len(owner) |-> current(t)] = Objects
                       /\ \A t \in 1..Len(owner) : Latest(t) \in Reservation
<1>1. SUFFICES ASSUME IInv, exclusive, NEW t \in 1..Len(owner)
               PROVE  current(t) = Latest(t) /\ Latest(t) \in Reservation
  BY DEF Objects
<1>2. owner[t] \in Session /\ CopyInv /\ frame \in [Session -> Frame]
  BY <1>1 DEF IInv, TokenInv
<1>3. \A s \in Session : frame[s].at \in {"insert", "store"} /\ frame[s].token = t => s = owner[t]
  BY <1>2 DEF CopyInv, Busy
<1>4. CASE Ahead(owner[t], t)
  <2>1. (CHOOSE s \in Session : frame[s].at \in {"insert", "store"} /\ frame[s].token = t) = owner[t]
    BY <1>2, <1>3, <1>4 DEF Ahead
  <2>2. frame[owner[t]].res \in Reservation
    BY <1>2, <1>4, FrameTyped DEF Ahead, Busy
  <2>. QED BY <1>2, <1>4, <2>1, <2>2 DEF current, Latest, Ahead
<1>5. CASE ~Ahead(owner[t], t)
  <2>1. t \in DOMAIN reservations
    BY <1>1, <1>5 DEF IInv, TokenInv, Ahead
  <2>2. current(t) = reservations[t] /\ Latest(t) = reservations[t]
    BY <1>3, <1>5 DEF current, Latest, Ahead
  <2>. QED BY <1>1, <2>1, <2>2 DEF IInv, TokenInv
<1>. QED BY <1>4, <1>5

(* What Budget sees of the coordinator: its budget and the objects. *)
Represented ==
  /\ (IF exclusive THEN budgets ELSE [b \in {} |-> {}]) = budgets
  /\ (IF exclusive THEN [t \in 1..Len(owner) |-> current(t)] ELSE <<>>) = Objects
  /\ Objects \in Seq(Reservation) /\ Len(Objects) = Len(owner)

(* It sees them when tokens are not shared. *)
LEMMA Mapped == IInv /\ exclusive => Represented
<1>1. SUFFICES ASSUME IInv, exclusive
               PROVE  /\ [t \in 1..Len(owner) |-> current(t)] = Objects
                      /\ Objects \in Seq(Reservation) /\ Len(Objects) = Len(owner)
  BY DEF Represented
<1>2. \A t \in 1..Len(owner) : Latest(t) \in Reservation
  BY <1>1, CurrentIsLatest
<1>3. Len(owner) \in Nat
  BY <1>1 DEF IInv, TokenInv
<1>. QED BY <1>1, <1>2, <1>3, CurrentIsLatest DEF Objects

(* The operations Budget applies are the ones the sessions call. *)
LEMMA SameReserve ==
  ASSUME NEW b, NEW gen, NEW ep, NEW a, NEW e, NEW t, NEW id
  PROVE  /\ Governor!reserve_status(b, gen, ep, a, e, t) = reserve_status(b, gen, ep, a, e, t)
         /\ Governor!reserve_budget(b, gen, ep, a, e, t) = reserve_budget(b, gen, ep, a, e, t)
         /\ Governor!new_reservation(id, b, a) = new_reservation(id, b, a)
<1>1. Governor!reserve_status(b, gen, ep, a, e, t) = reserve_status(b, gen, ep, a, e, t)
  BY DEF Governor!reserve_status, reserve_status, Governor!is_live, is_live, Governor!lapsed, lapsed
<1>2. Governor!reserve_budget(b, gen, ep, a, e, t) = reserve_budget(b, gen, ep, a, e, t)
  BY <1>1 DEF Governor!reserve_budget, reserve_budget, Governor!is_live, is_live
<1>. QED BY <1>1, <1>2 DEF Governor!new_reservation, new_reservation

LEMMA SameCommit ==
  ASSUME NEW b, NEW r, NEW e, NEW t
  PROVE  /\ Governor!commit_budget(b, r, e, t) = commit_budget(b, r, e, t)
         /\ Governor!commit_state(b, r, e, t) = commit_state(b, r, e, t)
<1>1. Governor!commit_status(b, r, e, t) = commit_status(b, r, e, t)
  BY DEF Governor!commit_status, commit_status, Governor!is_live, is_live, Governor!lapsed, lapsed,
         Governor!over_hard_limit, over_hard_limit
<1>2. Governor!commit_charges(b, r, e, t) <=> commit_charges(b, r, e, t)
  BY <1>1 DEF Governor!commit_charges, commit_charges
<1>3. Governor!commit_lapses(b, r, e, t) <=> commit_lapses(b, r, e, t)
  BY <1>1 DEF Governor!commit_lapses, commit_lapses, Governor!is_live, is_live
<1>4. Governor!lifecycle_after_charge(b.consumed + r.amount, b.limit) =
        lifecycle_after_charge(b.consumed + r.amount, b.limit)
  BY DEF Governor!lifecycle_after_charge, lifecycle_after_charge
<1>. QED BY <1>2, <1>3, <1>4 DEF Governor!commit_budget, commit_budget,
                                 Governor!commit_state, commit_state

LEMMA SameRelease ==
  ASSUME NEW b, NEW r, NEW e
  PROVE  /\ Governor!release_budget(b, r, e, TRUE) = release_budget(b, r, e, TRUE)
         /\ Governor!release_state(b, r, e) = release_state(b, r, e)
<1>1. Governor!release_returns(b, r, e) <=> release_returns(b, r, e)
  BY DEF Governor!release_returns, release_returns, Governor!release_status, release_status
<1>. QED BY <1>1 DEF Governor!release_budget, release_budget, Governor!release_state, release_state

(* A step by which no object and no budget changes is no step of Budget. *)
LEMMA Stutters ==
  ASSUME Represented, Represented', budgets' = budgets, Objects' = Objects
  PROVE  UNCHANGED Governor!vars
BY DEF Represented, Governor!vars, Epoch

(* main's budget is one create_budget accepts. *)
LEMMA StartRefines ==
  ASSUME Represented, Represented', IInv, Start
  PROVE  Governor!Next
<1> DEFINE in == [generation |-> 1, policy_generation |-> 1, epoch |-> 1, currency |-> "USD",
                  mode |-> "HARD", limit |-> Limit, expires_at |-> 0]
<1>1. in \in Governor!BudgetInput
  BY DEF Governor!BudgetInput, Governor!Epochs
<1>2. Governor!create_budget_status(BudgetId, in) = "OK"
  BY CoordinatorAssumption DEF Governor!create_budget_status, Start, Represented, Epoch
<1>3. budgets' = [b \in DOMAIN budgets \cup {BudgetId} |->
                    IF b = BudgetId THEN Governor!new_budget(in) ELSE budgets[b]]
  BY DEF Start, Governor!new_budget, Epoch
<1>4. Objects' = Objects
  BY DEF Start, Objects, Latest, Ahead
<1>5. Governor!CreateBudget(BudgetId, in)
  <2> HIDE DEF in
  <2>. QED BY <1>2, <1>3, <1>4 DEF Governor!CreateBudget, Represented, Epoch
<1> HIDE DEF in
<1>. QED BY <1>1, <1>5 DEF Governor!Next

(* RESERVE's call is the reserve of a new object. *)
LEMMA ReserveRefines ==
  ASSUME Represented, Represented', IInv, exclusive, NEW s \in Session, NEW a \in Amounts,
         ReserveCall(s, a)
  PROVE  Governor!Next
<1> DEFINE b == budgets[BudgetId]
           n == Len(owner) + 1
           r == new_reservation(BudgetId, b, a)
<1>1. /\ owner \in Seq(Session) /\ Len(owner) \in Nat /\ frame \in [Session -> Frame]
      /\ BudgetId \in DOMAIN budgets /\ Len(owner) < MaxReservations
      /\ frame[s].at = "recv"
  BY DEF ReserveCall, IInv, TokenInv, Waiting
<1>2. /\ reserve_status(b, 1, Epoch, a, Epoch, 0) = "OK"
      /\ budgets' = [budgets EXCEPT ![BudgetId] = reserve_budget(b, 1, Epoch, a, Epoch, 0)]
      /\ frame' = [frame EXCEPT ![s] = [at |-> "insert", token |-> n, res |-> r]]
      /\ owner' = Append(owner, s)
      /\ UNCHANGED reservations
  BY DEF ReserveCall
<1>3. /\ Len(owner') = n /\ owner'[n] = s
      /\ \A t \in 1..Len(owner) : owner'[t] = owner[t] /\ owner[t] \in Session /\ t # n
  BY <1>1, <1>2, AppendProperties
<1>4. /\ frame'[s].at = "insert" /\ frame'[s].token = n /\ frame'[s].res = r
      /\ \A x \in Session : x # s => frame'[x] = frame[x]
  <2> HIDE DEF r, n
  <2>. QED BY <1>1, <1>2
<1> HIDE DEF r
<1>5. \A t \in 1..Len(owner) : Latest(t)' = Latest(t)
  <2> SUFFICES ASSUME NEW t \in 1..Len(owner) PROVE Latest(t)' = Latest(t)
    OBVIOUS
  <2> HIDE DEF n
  <2>1. CASE owner[t] = s
    BY <1>1, <1>2, <1>3, <1>4, <2>1 DEF Latest, Ahead
  <2>2. CASE owner[t] # s
    BY <1>2, <1>3, <1>4, <2>2 DEF Latest, Ahead
  <2>. QED BY <2>1, <2>2
<1>6. PICK k : k = n
  OBVIOUS
<1>7. Latest(k)' = r
  <2> HIDE DEF n
  <2>. QED BY <1>3, <1>4, <1>6 DEF Latest, Ahead
<1>8. Objects' = Append(Objects, r)
  <2>1. /\ Objects \in Seq(Reservation) /\ Len(Objects) = Len(owner)
        /\ Objects' \in Seq(Reservation) /\ Len(Objects') = k
    BY <1>3, <1>6 DEF Represented
  <2>2. /\ \A t \in 1..Len(owner) : Objects'[t] = Objects[t]
        /\ Objects'[k] = r
    <3>1. Objects' = [t \in 1..k |-> Latest(t)']
      BY <1>3, <1>6 DEF Objects
    <3>2. k \in 1..k /\ \A t \in 1..Len(owner) : t \in 1..k
      BY <1>1, <1>6
    <3> HIDE DEF n
    <3>. QED BY <3>1, <3>2, <1>5, <1>7 DEF Objects
  <2>3. r \in Reservation
    BY <2>1, <2>2, <1>1, <1>6
  <2>4. /\ Append(Objects, r) \in Seq(Reservation) /\ Len(Append(Objects, r)) = k
        /\ \A t \in 1..Len(owner) : Append(Objects, r)[t] = Objects[t]
        /\ Append(Objects, r)[k] = r
    BY <1>6, <2>1, <2>3, AppendProperties
  <2>5. \A t \in 1..k : t \in 1..Len(owner) \/ t = k
    BY <1>1, <1>6
  <2>6. \A t \in 1..k : Objects'[t] = Append(Objects, r)[t]
    BY <2>2, <2>4, <2>5
  <2>. QED BY <2>1, <2>4, <2>6, SeqEqual
<1>9. Governor!Reserve(BudgetId, 1, 1, a)
  <2>1. /\ Governor!reserve_status(b, 1, 1, a, 1, 0) = "OK"
        /\ budgets' = [budgets EXCEPT ![BudgetId] = Governor!reserve_budget(b, 1, 1, a, 1, 0)]
        /\ Objects' = Append(Objects, Governor!new_reservation(BudgetId, b, a))
    BY <1>2, <1>8, SameReserve DEF Epoch, r
  <2>2. Len(Objects) < MaxReservations /\ BudgetId \in DOMAIN budgets
    BY <1>1 DEF Represented
  <2>. QED BY <2>1, <2>2 DEF Governor!Reserve, Represented, Epoch
<1>. QED BY <1>9 DEF Governor!Next, Governor!Epochs

(* Object k, which was r, is given state st. *)
Marked(k, r, st) ==
  /\ k \in 1..Len(Objects) /\ Objects[k] = r /\ r.budget = BudgetId
  /\ Objects' = [Objects EXCEPT ![k] = [r EXCEPT !.state = st]]

(* Marking the session's copy is marking the object. *)
LEMMA ObjectMarked ==
  ASSUME IInv, exclusive, Represented, NEW s \in Session, frame[s].at \in {"commit", "release"},
         NEW st \in ReservationState, Marks(s, st),
         UNCHANGED <<reservations, owner>>, NEW k, k = frame[s].token, NEW r, r = frame[s].res
  PROVE  Marked(k, r, st)
<1>2. /\ Latest(k) = r /\ Latest(k)' = [r EXCEPT !.state = st]
      /\ \A t \in 1..Len(owner) : t # k => Latest(t)' = Latest(t)
  BY LatestMarked
<1>3. k \in 1..Len(owner) /\ r.budget = BudgetId
  BY BudgetThere DEF Reservation
<1>4. Len(Objects) = Len(owner) /\ Len(owner') = Len(owner)
  BY DEF Represented
<1>5. Objects' = [t \in 1..Len(owner) |-> Latest(t)']
  BY <1>4 DEF Objects
<1>6. Objects = [t \in 1..Len(owner) |-> Latest(t)]
  BY DEF Objects
<1>7. \A t \in 1..Len(owner) : Latest(t)' = IF t = k THEN [r EXCEPT !.state = st] ELSE Objects[t]
  BY <1>2, <1>6
<1>. QED BY <1>2, <1>3, <1>4, <1>5, <1>6, <1>7 DEF Marked

(* COMMIT's call is the commit of the object. *)
LEMMA CommitRefines ==
  ASSUME Represented, Represented', IInv, exclusive, NEW s \in Session, CommitCall(s)
  PROVE  Governor!Next
<1>1. PICK k, r : k = frame[s].token /\ r = frame[s].res
  OBVIOUS
<1>2. PICK b : b = budgets[BudgetId]
  OBVIOUS
<1>3. PICK st : st = commit_state(b, r, Epoch, 0)
  OBVIOUS
<1>4. /\ frame[s].at = "commit"
      /\ budgets' = [budgets EXCEPT ![BudgetId] = commit_budget(b, r, Epoch, 0)]
      /\ frame' = [frame EXCEPT ![s].at = "store", ![s].res.state = st]
      /\ UNCHANGED <<reservations, owner>>
  BY <1>1, <1>2, <1>3 DEF CommitCall
<1>5. st \in ReservationState
  <2>1. r.state \in ReservationState
    BY <1>1, <1>4, BudgetThere DEF Reservation
  <2>. QED BY <1>3, <2>1 DEF commit_state, ReservationState
<1>6. /\ k \in 1..Len(Objects) /\ Objects[k] = r /\ r.budget = BudgetId
      /\ Objects' = [Objects EXCEPT ![k] = [r EXCEPT !.state = st]]
  <2>1. Marks(s, st)
    BY <1>4, <1>5, CopyMarked
  <2>2. frame[s].at \in {"commit", "release"} /\ UNCHANGED <<reservations, owner>>
    BY <1>4
  <2>3. Marked(k, r, st)
    BY <1>1, <1>5, <2>1, <2>2, ObjectMarked
  <2>. QED BY <2>3 DEF Marked
<1>7. /\ budgets' = [budgets EXCEPT ![BudgetId] = Governor!commit_budget(b, r, 1, 0)]
      /\ Objects' = [Objects EXCEPT ![k] = [r EXCEPT !.state = Governor!commit_state(b, r, 1, 0)]]
  BY <1>3, <1>4, <1>6, SameCommit, ZenonT(60) DEF Epoch
<1>8. Governor!Commit(k)
  BY <1>2, <1>6, <1>7 DEF Governor!Commit, Represented, Epoch
<1>9. k \in 1..Len(IF exclusive THEN [t \in 1..Len(owner) |-> current(t)] ELSE <<>>)
  BY <1>6 DEF Represented
<1>. QED BY <1>8, <1>9 DEF Governor!Next

(* RELEASE's call is the release of the object. *)
LEMMA ReleaseRefines ==
  ASSUME Represented, Represented', IInv, exclusive, NEW s \in Session, ReleaseCall(s)
  PROVE  Governor!Next
<1>1. PICK k, r : k = frame[s].token /\ r = frame[s].res
  OBVIOUS
<1>2. PICK b : b = budgets[BudgetId]
  OBVIOUS
<1>3. PICK st : st = release_state(b, r, Epoch)
  OBVIOUS
<1>4. /\ frame[s].at = "release"
      /\ budgets' = [budgets EXCEPT ![BudgetId] = release_budget(b, r, Epoch, Len(owner) > 0)]
      /\ frame' = [frame EXCEPT ![s].at = "store", ![s].res.state = st]
      /\ UNCHANGED <<reservations, owner>>
  BY <1>1, <1>2, <1>3 DEF ReleaseCall
<1>5. st \in ReservationState
  <2>1. r.state \in ReservationState
    BY <1>1, <1>4, BudgetThere DEF Reservation
  <2>. QED BY <1>3, <2>1 DEF release_state, ReservationState
<1>6. /\ k \in 1..Len(Objects) /\ Objects[k] = r /\ r.budget = BudgetId
      /\ Objects' = [Objects EXCEPT ![k] = [r EXCEPT !.state = st]]
  <2>1. Marks(s, st)
    BY <1>4, <1>5, CopyMarked
  <2>2. frame[s].at \in {"commit", "release"} /\ UNCHANGED <<reservations, owner>>
    BY <1>4
  <2>3. Marked(k, r, st)
    BY <1>1, <1>5, <2>1, <2>2, ObjectMarked
  <2>. QED BY <2>3 DEF Marked
<1>7. budgets' = [budgets EXCEPT ![BudgetId] = release_budget(b, r, Epoch, TRUE)]
  <2>1. Len(owner) > 0
    BY <1>6 DEF Represented, IInv, TokenInv
  <2>. QED BY <1>4, <2>1 DEF release_budget
<1>8. /\ budgets' = [budgets EXCEPT ![BudgetId] = Governor!release_budget(b, r, 1, TRUE)]
      /\ Objects' = [Objects EXCEPT ![k] = [r EXCEPT !.state = Governor!release_state(b, r, 1)]]
  BY <1>3, <1>6, <1>7, SameRelease DEF Epoch
<1>9. Governor!any_active(BudgetId)
  BY <1>6 DEF Governor!any_active, Represented
<1>10. Governor!release_budget(b, r, 1, Governor!any_active(BudgetId)) =
         Governor!release_budget(b, r, 1, TRUE)
  BY <1>9 DEF Governor!release_budget
<1>11. Governor!Release(k)
  BY <1>2, <1>6, <1>8, <1>10 DEF Governor!Release, Represented, Epoch
<1>12. k \in 1..Len(IF exclusive THEN [t \in 1..Len(owner) |-> current(t)] ELSE <<>>)
  BY <1>6 DEF Represented
<1>. QED BY <1>11, <1>12 DEF Governor!Next

(* The other steps change no object. *)
LEMMA OthersStutter ==
  ASSUME Represented, Represented', IInv, exclusive, NEW s \in Session,
         \/ ReserveInsert(s) \/ Store(s)
         \/ \E request \in {"commit", "release"}, t \in Tokens : Fetch(s, request, t)
  PROVE  UNCHANGED Governor!vars
<1>1. \A t \in 1..Len(owner) : Latest(t)' = Latest(t)
  BY LatestKept
<1>2. UNCHANGED <<owner, budgets>>
  BY DEF ReserveInsert, Store, Fetch
<1>3. Objects' = Objects
  BY <1>1, <1>2 DEF Objects
<1>. QED BY <1>2, <1>3, Stutters

(* Sessions that do not share tokens implement Budget: copying a            *)
(* reservation out of the map and back is invisible.                       *)
THEOREM Refinement == Spec => RefinesBudget
<1>1. Init => Governor!Init
  BY DEF Init, Governor!Init, Epoch
<1>2. ASSUME IInv, IInv', [Next]_vars
      PROVE  [Governor!Next]_(Governor!vars)
  <2>1. exclusive' = exclusive
    BY <1>2 DEF Next, vars, Start, ReserveCall, ReserveInsert, Fetch, CommitCall, ReleaseCall, Store
  <2>2. CASE ~exclusive
    BY <2>1, <2>2 DEF Governor!vars, Epoch
  <2>3. CASE exclusive
    <3>1. Represented
      BY <1>2, <2>3, Mapped
    <3>2. IInv' /\ exclusive' => Represented'
      BY Mapped, PTL
    <3>3. Represented'
      BY <1>2, <2>1, <2>3, <3>2
    <3>4. CASE UNCHANGED vars
      <4>1. Objects' = Objects /\ budgets' = budgets
        BY <3>4 DEF vars, Objects, Latest, Ahead
      <4>. QED BY <3>1, <3>3, <4>1, Stutters
    <3>5. CASE Start
      BY <1>2, <3>1, <3>3, <3>5, StartRefines
    <3>6. ASSUME NEW s \in Session,
                 \/ \E a \in Amounts : ReserveCall(s, a)
                 \/ ReserveInsert(s)
                 \/ \E request \in {"commit", "release"}, t \in Tokens : Fetch(s, request, t)
                 \/ CommitCall(s) \/ ReleaseCall(s) \/ Store(s)
          PROVE  Governor!Next \/ UNCHANGED Governor!vars
      BY <1>2, <2>3, <3>1, <3>3, <3>6, ReserveRefines, CommitRefines, ReleaseRefines, OthersStutter
    <3>. QED BY <1>2, <3>4, <3>5, <3>6 DEF Next
  <2>. QED BY <2>2, <2>3
<1>. QED BY <1>1, <1>2, Invariance, PTL DEF Spec, RefinesBudget, Governor!Spec
=============================================================================
