--------------------------- MODULE BudgetOpsProofs ---------------------------
(***************************************************************************)
(* What the operations of BudgetOps do to a budget's record: the facts the  *)
(* proofs about every module that holds a budget start from.               *)
(***************************************************************************)
EXTENDS BudgetOps, TLAPS

(* The terms a budget was created with; no operation changes them. *)
SameTerms(b, c) ==
  /\ c.generation = b.generation /\ c.epoch = b.epoch /\ c.mode = b.mode
  /\ c.limit = b.limit /\ c.expires_at = b.expires_at

(* c is b with its amounts moved by the given differences. *)
Rewrites(b, c, res, con, rel) ==
  /\ c \in Budget
  /\ SameTerms(b, c)
  /\ c.reserved = b.reserved + res
  /\ c.consumed = b.consumed + con
  /\ c.released = b.released + rel

(* How an accepted reserve rewrites a budget. *)
LEMMA RewriteReserved ==
  ASSUME NEW b \in Budget, NEW a \in Int
  PROVE  Rewrites(b, [b EXCEPT !.reserved = @ + a, !.lifecycle = "RESERVED"], a, 0, 0)
<1> DEFINE c == [b EXCEPT !.reserved = b.reserved + a, !.lifecycle = "RESERVED"]
<1>1. b.reserved + a \in Int /\ b.consumed \in Int /\ b.released \in Int
  BY DEF Budget
<1>2. c \in Budget
  BY <1>1 DEF Budget, Lifecycle
<1>. QED BY <1>1, <1>2 DEF Rewrites, SameTerms, Budget

(* How a commit that charges rewrites it. *)
LEMMA RewriteCharged ==
  ASSUME NEW b \in Budget, NEW a \in Int, NEW lc \in Lifecycle
  PROVE  Rewrites(b, [b EXCEPT !.reserved = @ - a, !.consumed = @ + a, !.lifecycle = lc],
                  -a, a, 0)
<1> DEFINE c == [b EXCEPT !.reserved = b.reserved - a, !.consumed = b.consumed + a,
                          !.lifecycle = lc]
<1>1. b.reserved - a \in Int /\ b.consumed + a \in Int /\ b.released \in Int
  BY DEF Budget
<1>2. c \in Budget
  BY <1>1 DEF Budget
<1>. QED BY <1>1, <1>2 DEF Rewrites, SameTerms, Budget

(* How a release, or a commit that comes too late, rewrites it. *)
LEMMA RewriteReturned ==
  ASSUME NEW b \in Budget, NEW a \in Int, NEW lc \in Lifecycle
  PROVE  Rewrites(b, [b EXCEPT !.reserved = @ - a, !.released = @ + a, !.lifecycle = lc],
                  -a, 0, a)
<1> DEFINE c == [b EXCEPT !.reserved = b.reserved - a, !.released = b.released + a,
                          !.lifecycle = lc]
<1>1. b.reserved - a \in Int /\ b.consumed \in Int /\ b.released + a \in Int
  BY DEF Budget
<1>2. c \in Budget
  BY <1>1 DEF Budget
<1>. QED BY <1>1, <1>2 DEF Rewrites, SameTerms, Budget

(* How an accepted consume rewrites it. *)
LEMMA RewriteSpent ==
  ASSUME NEW b \in Budget, NEW a \in Int, NEW lc \in Lifecycle
  PROVE  Rewrites(b, [b EXCEPT !.consumed = @ + a, !.lifecycle = lc], 0, a, 0)
<1> DEFINE c == [b EXCEPT !.consumed = b.consumed + a, !.lifecycle = lc]
<1>1. b.reserved \in Int /\ b.consumed + a \in Int /\ b.released \in Int
  BY DEF Budget
<1>2. c \in Budget
  BY <1>1 DEF Budget
<1>. QED BY <1>1, <1>2 DEF Rewrites, SameTerms, Budget

(* A call that is refused leaves it alone, or marks it EXPIRED. *)
LEMMA RewriteQuiet ==
  ASSUME NEW b \in Budget, NEW c, c = b \/ c = [b EXCEPT !.lifecycle = "EXPIRED"]
  PROVE  Rewrites(b, c, 0, 0, 0)
BY DEF Rewrites, SameTerms, Budget, Lifecycle
-----------------------------------------------------------------------------
(* reserve, accepted: the amount is not negative, fits beside what is       *)
(* already reserved, and is added to it.                                   *)
LEMMA ReserveAccepted ==
  ASSUME NEW b \in Budget, NEW gen, NEW ep, NEW a \in Int, NEW e, NEW t,
         reserve_status(b, gen, ep, a, e, t) = "OK"
  PROVE  /\ a \in Nat /\ b.reserved + a <= b.limit /\ is_live(b)
         /\ b.epoch = ep /\ b.epoch = e /\ b.generation = gen
         /\ Rewrites(b, reserve_budget(b, gen, ep, a, e, t), a, 0, 0)
         /\ reserve_budget(b, gen, ep, a, e, t).lifecycle = "RESERVED"
<1> DEFINE c == [b EXCEPT !.reserved = @ + a, !.lifecycle = "RESERVED"]
<1>1. /\ a \in Nat /\ b.reserved + a <= b.limit /\ is_live(b)
      /\ b.epoch = ep /\ b.epoch = e /\ b.generation = gen
  BY DEF reserve_status, Budget
<1>2. reserve_budget(b, gen, ep, a, e, t) = c
  BY DEF reserve_budget
<1>3. c.lifecycle = "RESERVED"
  BY DEF Budget
<1>4. Rewrites(b, c, a, 0, 0)
  BY RewriteReserved
<1>. QED BY <1>1, <1>2, <1>3, <1>4

(* commit, when it charges: the reservation is ACTIVE and of the budget's   *)
(* epoch, the charge keeps within a limit that binds, and the amount moves  *)
(* from reserved to consumed.                                              *)
LEMMA CommitCharges ==
  ASSUME NEW b \in Budget, NEW r, r.amount \in Int, NEW e, NEW t,
         commit_charges(b, r, e, t)
  PROVE  /\ r.state = "ACTIVE" /\ is_live(b) /\ r.epoch = e /\ b.epoch = e
         /\ ~lapsed(r, t) /\ ~over_hard_limit(b, r.amount)
         /\ Rewrites(b, commit_budget(b, r, e, t), -r.amount, r.amount, 0)
         /\ commit_budget(b, r, e, t).lifecycle =
              lifecycle_after_charge(b.consumed + r.amount, b.limit)
         /\ commit_state(b, r, e, t) = "COMMITTED"
<1> DEFINE lc == lifecycle_after_charge(b.consumed + r.amount, b.limit)
           c == [b EXCEPT !.reserved = @ - r.amount, !.consumed = @ + r.amount, !.lifecycle = lc]
<1>1. /\ r.state = "ACTIVE" /\ is_live(b) /\ r.epoch = e /\ b.epoch = e
      /\ ~lapsed(r, t) /\ ~over_hard_limit(b, r.amount)
  BY DEF commit_charges, commit_status
<1>2. ~commit_lapses(b, r, e, t)
  BY DEF commit_charges, commit_lapses
<1>3. commit_budget(b, r, e, t) = c /\ commit_state(b, r, e, t) = "COMMITTED"
  BY <1>2 DEF commit_budget, commit_state
<1>4. lc \in Lifecycle
  BY DEF lifecycle_after_charge, Lifecycle
<1>5. c.lifecycle = lc
  <2> HIDE DEF lc
  <2>. QED BY DEF Budget
<1>6. Rewrites(b, c, -r.amount, r.amount, 0)
  <2> DEFINE a == r.amount
  <2>1. a \in Int
    OBVIOUS
  <2> HIDE DEF lc, a
  <2>2. Rewrites(b, [b EXCEPT !.reserved = @ - a, !.consumed = @ + a, !.lifecycle = lc], -a, a, 0)
    BY <1>4, <2>1, RewriteCharged
  <2>. QED BY <2>2 DEF a
<1>. QED BY <1>1, <1>3, <1>5, <1>6

(* commit, when it comes too late: the amount moves from reserved to        *)
(* released.                                                               *)
LEMMA CommitLapses ==
  ASSUME NEW b \in Budget, NEW r, r.amount \in Int, NEW e, NEW t,
         commit_lapses(b, r, e, t)
  PROVE  /\ r.state = "ACTIVE" /\ is_live(b) /\ r.epoch = e /\ lapsed(r, t)
         /\ Rewrites(b, commit_budget(b, r, e, t), -r.amount, 0, r.amount)
         /\ commit_budget(b, r, e, t).lifecycle = b.lifecycle
         /\ commit_state(b, r, e, t) = "EXPIRED"
<1> DEFINE a == r.amount
           c == [b EXCEPT !.reserved = @ - a, !.released = @ + a]
<1>1. r.state = "ACTIVE" /\ is_live(b) /\ r.epoch = e /\ lapsed(r, t)
  BY DEF commit_lapses, commit_status
<1>2. ~commit_charges(b, r, e, t)
  BY DEF commit_charges, commit_lapses
<1>3. commit_budget(b, r, e, t) = c /\ commit_state(b, r, e, t) = "EXPIRED"
  BY <1>2 DEF commit_budget, commit_state
<1>4. a \in Int
  OBVIOUS
<1>5. /\ b.lifecycle \in Lifecycle /\ c.lifecycle = b.lifecycle
      /\ c = [b EXCEPT !.reserved = @ - a, !.released = @ + a, !.lifecycle = b.lifecycle]
  <2> HIDE DEF a
  <2>. QED BY <1>4 DEF Budget
<1>6. Rewrites(b, c, -a, 0, a)
  <2> HIDE DEF a, c
  <2>. QED BY <1>4, <1>5, RewriteReturned
<1>. QED BY <1>1, <1>3, <1>5, <1>6

(* commit otherwise: nothing changes. *)
LEMMA CommitKeeps ==
  ASSUME NEW b, NEW r, NEW e, NEW t, ~commit_charges(b, r, e, t), ~commit_lapses(b, r, e, t)
  PROVE  commit_budget(b, r, e, t) = b /\ commit_state(b, r, e, t) = r.state
BY DEF commit_budget, commit_state

(* release, when it returns the amount: it moves from reserved to released. *)
(* The governor's own list then holds an ACTIVE reservation, this one.     *)
LEMMA ReleaseReturns ==
  ASSUME NEW b \in Budget, NEW r, r.amount \in Int, NEW e, release_returns(b, r, e)
  PROVE  /\ r.state = "ACTIVE" /\ r.epoch = e
         /\ Rewrites(b, release_budget(b, r, e, TRUE), -r.amount, 0, r.amount)
         /\ release_budget(b, r, e, TRUE).lifecycle = "RESERVED"
         /\ release_state(b, r, e) = "RELEASED"
<1> DEFINE a == r.amount
           lc == "RESERVED"
           c == [b EXCEPT !.reserved = @ - a, !.released = @ + a, !.lifecycle = lc]
<1>1. r.state = "ACTIVE" /\ r.epoch = e /\ release_state(b, r, e) = "RELEASED"
  BY DEF release_returns, release_status, release_state
<1>2. release_budget(b, r, e, TRUE) = c
  BY DEF release_budget
<1>3. a \in Int /\ lc \in Lifecycle
  BY DEF Lifecycle
<1>4. Rewrites(b, c, -a, 0, a) /\ c.lifecycle = lc
  <2> HIDE DEF a, lc
  <2>1. Rewrites(b, c, -a, 0, a)
    BY <1>3, RewriteReturned
  <2>2. c.lifecycle = lc
    BY DEF Budget
  <2>. QED BY <2>1, <2>2
<1> DEFINE d == release_budget(b, r, e, TRUE)
<1>5. d = c
  BY <1>2
<1> HIDE DEF d, c
<1>6. Rewrites(b, d, -a, 0, a) /\ d.lifecycle = lc
  BY <1>4, <1>5
<1>. QED BY <1>1, <1>6 DEF d

(* release otherwise: nothing changes. *)
LEMMA ReleaseKeeps ==
  ASSUME NEW b, NEW r, NEW e, ~release_returns(b, r, e)
  PROVE  release_budget(b, r, e, TRUE) = b /\ release_state(b, r, e) = r.state
BY DEF release_budget, release_state
=============================================================================
