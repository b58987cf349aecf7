--------------------------- MODULE RecoveryProofs ---------------------------
(***************************************************************************)
(* What restarts and concurrent saves can and cannot do, for every number   *)
(* of sessions, of reservations, of epochs and of price generations.       *)
(***************************************************************************)
EXTENDS Recovery, BudgetOpsProofs, TotalsProofs, FiniteSetTheorems, SequenceTheorems

(* b is the budget main created, as the governor may have left it. *)
Descends(b) ==
  /\ b \in Budget
  /\ b.generation = 1 /\ b.epoch = 1 /\ b.mode = "HARD" /\ b.limit = Limit
  /\ b.expires_at = 0
  /\ Truthful(b)

(* Session s has a snapshot in hand: from its copy to the rename. *)
Saving(s) == saver[s].at \in {"open", "write1", "write2", "rename"}

(* In memory: the budget is the first one. Its epoch is 1, so that it can   *)
(* be charged only before the first restart, while its consumed amount is   *)
(* all that was ever charged.                                              *)
MemoryInv ==
  /\ up \in BOOLEAN
  /\ epoch \in Epochs /\ revalidation_needed \in BOOLEAN /\ generation \in 1..MaxGeneration
  /\ held \in Seq(Reservation) /\ Len(held) <= MaxReservations
  /\ Descends(budget)
  /\ epoch = 1 => budget.consumed = charged
  /\ charged \in Nat /\ charged <= Limit

(* On the way to the disk and on it: so is the budget of every session's    *)
(* snapshot, and that of every chunk of every file, torn or not. The two    *)
(* names are never of one file.                                            *)
SnapshotInv ==
  /\ saver \in [Session -> Saver]
  /\ path \in File \cup {NoFile} /\ tmp \in File \cup {NoFile}
  /\ tmp # NoFile => tmp # path
  /\ content \in [File -> [Chunk -> Snapshot \cup {Absent}]]
  /\ saved \in 0..MaxGeneration
  /\ \A s \in Session : Saving(s) => Descends(saver[s].snap.budget)
  /\ \A f \in File, k \in Chunk :
       content[f][k] # Absent => Descends(content[f][k].budget)

(* The inductive invariant. *)
IInv == MemoryInv /\ SnapshotInv

(* No two sessions are saving at the same time. *)
OneSaver == \A s, t \in Session : Saving(s) /\ Saving(t) => s = t

(* While the process is down, no session saves. *)
DownIdle == ~up => \A s \in Session : saver[s] = Idle

(* <path> is whole and not older than the last finished save. *)
PathGood ==
  /\ path # NoFile => Whole(path)
  /\ saved > 0 => path # NoFile /\ loaded.generation >= saved

(* The save in progress of s is not older than a finished one, <path>.tmp is *)
(* its own file, and that file holds what s has written so far.            *)
SaverGood(s) ==
  /\ Saving(s) => saved <= saver[s].snap.generation /\ saver[s].snap.generation <= generation
  /\ saver[s].at \in {"write1", "write2", "rename"} => saver[s].file = tmp
  /\ saver[s].at \in {"write2", "rename"} => content[saver[s].file][1] = saver[s].snap
  /\ saver[s].at = "rename" => content[saver[s].file][2] = saver[s].snap

(* What OneSaver preserves. *)
DiskInv == DownIdle /\ PathGood /\ saved <= generation /\ \A s \in Session : SaverGood(s)
-----------------------------------------------------------------------------
(* A rewritten first budget whose lifecycle is true is the first budget. *)
LEMMA DescendsByRewrite ==
  ASSUME NEW b, Descends(b), NEW c, NEW x, NEW y, NEW z, Rewrites(b, c, x, y, z), Truthful(c)
  PROVE  Descends(c)
BY DEF Descends, Rewrites, SameTerms

(* reserve leaves the first budget the first budget, and hands out a        *)
(* reservation of a nonnegative amount.                                    *)
LEMMA ReserveEffect ==
  ASSUME NEW b, Descends(b), NEW ep, NEW a \in Int, NEW e,
         reserve_status(b, 1, ep, a, e, 0) = "OK"
  PROVE  /\ Descends(reserve_budget(b, 1, ep, a, e, 0))
         /\ reserve_budget(b, 1, ep, a, e, 0).consumed = b.consumed
         /\ new_reservation(1, b, a) \in Reservation
<1> DEFINE c == reserve_budget(b, 1, ep, a, e, 0)
<1>1. b \in Budget /\ b.consumed \in Int
  BY DEF Descends, Budget
<1>2. a \in Nat /\ Rewrites(b, c, a, 0, 0) /\ c.lifecycle = "RESERVED"
  BY <1>1, ReserveAccepted
<1>3. Truthful(c)
  BY <1>2 DEF Truthful
<1>4. c.consumed = b.consumed
  BY <1>1, <1>2 DEF Rewrites
<1>5. Descends(c)
  BY <1>2, <1>3, DescendsByRewrite
<1>6. new_reservation(1, b, a) \in Reservation
  BY <1>2, RecoveryAssumption DEF new_reservation, Reservation, Descends, Epochs, ReservationState
<1>. QED BY <1>4, <1>5, <1>6

(* commit charges only in epoch 1 and within the limit, and what it leaves  *)
(* of the first budget is truthful.                                        *)
LEMMA CommitEffect ==
  ASSUME NEW b, Descends(b), NEW r \in Reservation, NEW e
  PROVE  /\ Descends(commit_budget(b, r, e, 0))
         /\ commit_state(b, r, e, 0) \in ReservationState
         /\ commit_charges(b, r, e, 0) =>
              /\ e = 1
              /\ b.consumed + r.amount <= Limit
              /\ commit_budget(b, r, e, 0).consumed = b.consumed + r.amount
         /\ ~commit_charges(b, r, e, 0) => commit_budget(b, r, e, 0).consumed = b.consumed
<1> DEFINE c == commit_budget(b, r, e, 0)
<1>1. /\ b \in Budget /\ b.consumed \in Int /\ b.epoch = 1 /\ b.mode = "HARD" /\ b.limit = Limit
      /\ Limit \in Nat
      /\ r.amount \in Nat /\ r.expires_at = 0 /\ r.state \in ReservationState
  BY RecoveryAssumption DEF Descends, Reservation, Budget
<1>2. ~commit_lapses(b, r, e, 0)
  <2>1. ~lapsed(r, 0)
    BY <1>1 DEF lapsed
  <2>. QED BY <1>1, <2>1, CommitLapses
<1>3. CASE commit_charges(b, r, e, 0)
  <2>1. /\ b.epoch = e /\ ~over_hard_limit(b, r.amount)
        /\ Rewrites(b, c, -r.amount, r.amount, 0)
        /\ c.lifecycle = lifecycle_after_charge(b.consumed + r.amount, b.limit)
        /\ commit_state(b, r, e, 0) = "COMMITTED"
    BY <1>1, <1>3, CommitCharges
  <2>2. e = 1 /\ b.consumed + r.amount <= Limit
    BY <1>1, <2>1 DEF over_hard_limit
  <2>3. c.consumed = b.consumed + r.amount /\ c.limit = b.limit
    BY <2>1 DEF Rewrites, SameTerms
  <2>4. Truthful(c)
    BY <1>1, <2>1, <2>3 DEF Truthful, remaining, lifecycle_after_charge
  <2>5. Descends(c)
    BY <2>1, <2>4, DescendsByRewrite
  <2>. QED BY <1>3, <2>1, <2>2, <2>3, <2>5 DEF ReservationState
<1>4. CASE ~commit_charges(b, r, e, 0)
  BY <1>1, <1>2, <1>4, CommitKeeps
<1>. QED BY <1>3, <1>4

(* release leaves the first budget the first budget and what it consumed. *)
LEMMA ReleaseEffect ==
  ASSUME NEW b, Descends(b), NEW r \in Reservation, NEW e
  PROVE  /\ Descends(release_budget(b, r, e, TRUE))
         /\ release_budget(b, r, e, TRUE).consumed = b.consumed
         /\ release_state(b, r, e) \in ReservationState
<1> DEFINE c == release_budget(b, r, e, TRUE)
<1>1. b \in Budget /\ b.consumed \in Int /\ r.amount \in Int /\ r.state \in ReservationState
  BY DEF Descends, Reservation, Budget
<1>2. CASE release_returns(b, r, e)
  <2>1. /\ Rewrites(b, c, -r.amount, 0, r.amount) /\ c.lifecycle = "RESERVED"
        /\ release_state(b, r, e) = "RELEASED"
    BY <1>1, <1>2, ReleaseReturns
  <2>2. Truthful(c) /\ c.consumed = b.consumed
    <3> HIDE DEF c
    <3>. QED BY <1>1, <2>1 DEF Truthful, Rewrites
  <2>3. Descends(c)
    BY <2>1, <2>2, DescendsByRewrite
  <2>. QED BY <2>1, <2>2, <2>3 DEF ReservationState
<1>3. CASE ~release_returns(b, r, e)
  BY <1>1, <1>3, ReleaseKeeps
<1>. QED BY <1>2, <1>3

(* load leaves the first budget the first budget: no lifecycle it keeps or  *)
(* assigns is untrue of the amounts it keeps.                              *)
LEMMA LoadEffect ==
  ASSUME NEW b, Descends(b)
  PROVE  Descends(load_budget(b))
<1>1. CASE b.consumed = 0 /\ b.released = 0 /\ b.lifecycle = "RESERVED"
  BY <1>1 DEF Descends, Truthful, load_budget, Budget, Lifecycle, remaining
<1>2. CASE ~(b.consumed = 0 /\ b.released = 0 /\ b.lifecycle = "RESERVED")
  <2>1. load_budget(b) = [b EXCEPT !.reserved = 0]
    BY <1>2 DEF load_budget, Descends, Budget
  <2>. QED BY <2>1 DEF Descends, Truthful, Budget, Lifecycle, remaining
<1>. QED BY <1>1, <1>2
-----------------------------------------------------------------------------
(* What a session has in hand, by where it is in persist and save. *)
LEMMA SaverTyped ==
  ASSUME SnapshotInv, NEW s \in Session
  PROVE  /\ saver[s] \in Saver
         /\ Saving(s) => saver[s].snap \in Snapshot
         /\ saver[s].at \in {"write1", "write2", "rename"} => saver[s].file \in File
<1>1. saver[s] \in Saver
  BY DEF SnapshotInv
<1>. QED BY <1>1 DEF Saver, Saving, Idle

(* A saving session that opens <path>.tmp finds a file no name and no other *)
(* session refers to: there are two files more than sessions.              *)
LEMMA FreeFile ==
  ASSUME NEW s \in Session, saver[s].at = "open",
         NEW inUse, inUse = {path, tmp} \cup {saver[o].file : o \in {x \in Session :
                                      saver[x].at \in {"write1", "write2", "rename"}}}
  PROVE  Min(File \ inUse) \in File \ inUse
<1> DEFINE W == {x \in Session : saver[x].at \in {"write1", "write2", "rename"}}
           R == {saver[o].file : o \in W}
           g == [x \in W |-> saver[x].file]
           n == Cardinality(Session)
<1>1. IsFiniteSet(Session) /\ n \in Nat
  BY RecoveryAssumption, FS_CardinalityType
<1>2. IsFiniteSet(W) /\ Cardinality(W) <= n - 1 /\ Cardinality(W) \in Nat
  <2>1. W \subseteq Session \ {s}
    OBVIOUS
  <2>2. IsFiniteSet(Session \ {s}) /\ Cardinality(Session \ {s}) = n - 1
    BY <1>1, FS_RemoveElement
  <2> HIDE DEF W
  <2>. QED BY <2>1, <2>2, FS_Subset, FS_CardinalityType
<1>3. IsFiniteSet(R) /\ Cardinality(R) <= n - 1 /\ Cardinality(R) \in Nat
  <2>1. g \in Surjection(W, R)
    BY DEF Surjection
  <2> HIDE DEF W, R, g
  <2>. QED BY <1>1, <1>2, <2>1, FS_Surjection, FS_CardinalityType
<1>4. IsFiniteSet(R \cup {path}) /\ Cardinality(R \cup {path}) <= n
  <2> HIDE DEF R, n
  <2>1. /\ IsFiniteSet(R \cup {path})
        /\ Cardinality(R \cup {path}) = IF path \in R THEN Cardinality(R) ELSE Cardinality(R) + 1
    BY <1>3, FS_AddElement
  <2>. QED BY <1>1, <1>3, <2>1
<1>5. IsFiniteSet((R \cup {path}) \cup {tmp}) /\ Cardinality((R \cup {path}) \cup {tmp}) <= n + 1
  <2> DEFINE Q == R \cup {path}
  <2>1. IsFiniteSet(Q) /\ Cardinality(Q) <= n /\ Cardinality(Q) \in Nat
    BY <1>4, FS_CardinalityType
  <2> HIDE DEF Q, n
  <2>2. /\ IsFiniteSet(Q \cup {tmp})
        /\ Cardinality(Q \cup {tmp}) = IF tmp \in Q THEN Cardinality(Q) ELSE Cardinality(Q) + 1
    BY <2>1, FS_AddElement
  <2>3. IsFiniteSet(Q \cup {tmp}) /\ Cardinality(Q \cup {tmp}) <= n + 1
    BY <1>1, <2>1, <2>2
  <2>. QED BY <2>3 DEF Q
<1>6. inUse = (R \cup {path}) \cup {tmp}
  OBVIOUS
<1>7. File \ inUse # {}
  <2>1. SUFFICES ASSUME File \subseteq inUse PROVE FALSE
    OBVIOUS
  <2>2. Cardinality(File) = n + 2
    BY <1>1, FS_Interval DEF File
  <2>3. IsFiniteSet(inUse) /\ Cardinality(inUse) <= n + 1 /\ Cardinality(inUse) \in Nat
    BY <1>5, <1>6, FS_CardinalityType, Zenon
  <2>4. Cardinality(File) <= Cardinality(inUse)
    BY <2>1, <2>3, FS_Subset
  <2>. QED BY <1>1, <2>2, <2>3, <2>4
<1>8. File \ inUse \in SUBSET Nat
  BY <1>1 DEF File
<1> DEFINE F == File \ inUse
<1> HIDE DEF F
<1>9. \E x \in F : \A y \in F : x <= y
  BY <1>7, <1>8, LeastElement DEF F
<1>10. Min(F) \in F
  BY <1>9 DEF Min
<1>. QED BY <1>10 DEF F
-----------------------------------------------------------------------------
(* The steps that leave files and savers alone keep what is true of them. *)
LEMMA SnapshotKept ==
  ASSUME SnapshotInv, UNCHANGED <<saver, disk, saved>>
  PROVE  SnapshotInv'
BY DEF SnapshotInv, disk, Saving

(* So do the steps that leave the memory alone. *)
LEMMA MemoryKept ==
  ASSUME MemoryInv, up' \in BOOLEAN, UNCHANGED <<memory, charged>>
  PROVE  MemoryInv'
BY DEF MemoryInv, memory

(* main without a state file starts the first budget anew. *)
LEMMA StartFreshStep ==
  ASSUME IInv, StartFresh PROVE IInv'
<1>1. first_budget \in Budget
  BY RecoveryAssumption DEF first_budget, Budget, Mode, Lifecycle
<1>2. Descends(first_budget)
  BY <1>1 DEF Descends, Truthful, first_budget
<1>3. /\ budget' = first_budget /\ epoch' = 1 /\ charged' = 0 /\ up' = TRUE
      /\ revalidation_needed' = FALSE /\ generation' = 1 /\ held' = <<>>
  BY DEF StartFresh, Fresh
<1>4. /\ epoch' \in Epochs /\ generation' \in 1..MaxGeneration
      /\ charged' \in Nat /\ charged' <= Limit
  BY <1>3, RecoveryAssumption DEF Epochs
<1>0. up' \in BOOLEAN /\ revalidation_needed' \in BOOLEAN
  BY <1>3, Zenon
<1>5. held' \in Seq(Reservation) /\ Len(held') <= MaxReservations
  BY <1>3, RecoveryAssumption
<1>6. Descends(budget') /\ budget'.consumed = charged'
  BY <1>2, <1>3 DEF first_budget
<1>7. MemoryInv'
  BY <1>0, <1>4, <1>5, <1>6 DEF MemoryInv
<1>8. SnapshotInv'
  BY SnapshotKept DEF IInv, StartFresh
<1>. QED BY <1>7, <1>8 DEF IInv

(* main with one continues the first budget in a later epoch, whatever      *)
(* file <path> names.                                                      *)
LEMMA StartRecoveredStep ==
  ASSUME IInv, StartRecovered PROVE IInv'
<1>1. path \in File /\ loaded # Absent /\ loaded \in Snapshot
  BY DEF IInv, SnapshotInv, StartRecovered, Whole, loaded, Chunk
<1>2. Descends(loaded.budget)
  BY <1>1 DEF IInv, SnapshotInv, loaded, Chunk
<1>3. Descends(load_budget(loaded.budget))
  BY <1>2, LoadEffect
<1>4. loaded.epoch \in Epochs /\ loaded.generation \in 1..MaxGeneration
  BY <1>1 DEF Snapshot
<1>5. /\ up' = TRUE /\ revalidation_needed' = TRUE /\ held' = <<>> /\ charged' = charged
      /\ epoch' = loaded.epoch + 1 /\ loaded.epoch < MaxEpoch
      /\ generation' = loaded.generation /\ budget' = load_budget(loaded.budget)
  BY DEF StartRecovered
<1>6. epoch' \in Epochs /\ epoch' # 1 /\ generation' \in 1..MaxGeneration
  BY <1>4, <1>5, RecoveryAssumption DEF Epochs
<1>7. held' \in Seq(Reservation) /\ Len(held') <= MaxReservations
  BY <1>5, RecoveryAssumption
<1>8. charged \in Nat /\ charged <= Limit
  BY DEF IInv, MemoryInv
<1>9. MemoryInv'
  BY <1>3, <1>5, <1>6, <1>7, <1>8 DEF MemoryInv
<1>10. SnapshotInv'
  BY SnapshotKept DEF IInv, StartRecovered
<1>. QED BY <1>9, <1>10 DEF IInv

(* reserve promises within the first budget and charges nothing. *)
LEMMA ReserveStep ==
  ASSUME IInv, NEW ep \in Epochs, NEW a \in Amounts, Reserve(ep, a) PROVE IInv'
<1> DEFINE c == reserve_budget(budget, 1, ep, a, epoch, 0)
           r == new_reservation(1, budget, a)
<1>1. a \in Int /\ Descends(budget)
  BY RecoveryAssumption DEF IInv, MemoryInv
<1>2. reserve_status(budget, 1, ep, a, epoch, 0) = "OK"
  BY DEF Reserve
<1>3. Descends(c) /\ c.consumed = budget.consumed /\ r \in Reservation
  BY <1>1, <1>2, ReserveEffect
<1>4. /\ budget' = c /\ held' = Append(held, r) /\ Len(held) < MaxReservations
      /\ UNCHANGED <<up, epoch, revalidation_needed, generation, charged>>
  BY DEF Reserve
<1> HIDE DEF c, r
<1>5. held' \in Seq(Reservation) /\ Len(held') <= MaxReservations
  <2>1. held \in Seq(Reservation) /\ Len(held) \in Nat
    BY DEF IInv, MemoryInv
  <2>2. held' \in Seq(Reservation) /\ Len(held') = Len(held) + 1
    BY <1>3, <1>4, <2>1, AppendProperties
  <2>. QED BY <1>4, <2>1, <2>2, RecoveryAssumption
<1>6. MemoryInv'
  BY <1>3, <1>4, <1>5 DEF IInv, MemoryInv
<1>7. SnapshotInv'
  BY SnapshotKept DEF IInv, Reserve
<1>. QED BY <1>6, <1>7 DEF IInv

(* A reservation whose state is rewritten is still one of the process. *)
LEMMA HeldMarked ==
  ASSUME MemoryInv, NEW i \in 1..Len(held), NEW st \in ReservationState,
         held' = [held EXCEPT ![i].state = st]
  PROVE  held' \in Seq(Reservation) /\ Len(held') <= MaxReservations
<1>1. held \in Seq(Reservation) /\ Len(held) <= MaxReservations /\ held[i] \in Reservation
  BY DEF MemoryInv
<1>2. [held[i] EXCEPT !.state = st] \in Reservation
  BY <1>1 DEF Reservation
<1>3. held' = [held EXCEPT ![i] = [held[i] EXCEPT !.state = st]]
  OBVIOUS
<1> DEFINE r == [held[i] EXCEPT !.state = st]
<1> HIDE DEF r
<1>4. held' = [held EXCEPT ![i] = r] /\ r \in Reservation
  BY <1>2, <1>3 DEF r
<1>. QED BY <1>1, <1>4, ExceptSeq

(* commit charges while the budget's consumed amount is all that was ever   *)
(* charged, and tests it against the limit.                                *)
LEMMA CommitStep ==
  ASSUME IInv, NEW i \in 1..Len(held), Commit(i) PROVE IInv'
<1> DEFINE r == held[i]
           c == commit_budget(budget, r, epoch, 0)
           st == commit_state(budget, r, epoch, 0)
           charges == commit_charges(budget, r, epoch, 0)
<1>1. r \in Reservation /\ Descends(budget) /\ MemoryInv
  BY DEF IInv, MemoryInv
<1>2. /\ Descends(c) /\ st \in ReservationState
      /\ charges => epoch = 1 /\ budget.consumed + r.amount <= Limit
                      /\ c.consumed = budget.consumed + r.amount
      /\ ~charges => c.consumed = budget.consumed
  BY <1>1, CommitEffect
<1>3. /\ budget' = c /\ held' = [held EXCEPT ![i].state = st]
      /\ charged' = charged + IF charges THEN r.amount ELSE 0
      /\ UNCHANGED <<up, epoch, revalidation_needed, generation>>
  BY DEF Commit
<1>4. r.amount \in Nat
  BY <1>1 DEF Reservation
<1>5. charged \in Nat /\ charged <= Limit /\ (epoch = 1 => budget.consumed = charged)
  BY <1>1 DEF MemoryInv
<1> HIDE DEF r, c, st, charges
<1>6. held' \in Seq(Reservation) /\ Len(held') <= MaxReservations
  BY <1>1, <1>2, <1>3, HeldMarked
<1>7. /\ charged' \in Nat /\ charged' <= Limit
      /\ epoch' = 1 => budget'.consumed = charged'
  <2>1. CASE charges
    BY <1>2, <1>3, <1>4, <1>5, <2>1
  <2>2. CASE ~charges
    BY <1>2, <1>3, <1>5, <2>2
  <2>. QED BY <2>1, <2>2
<1>8. MemoryInv'
  BY <1>1, <1>2, <1>3, <1>6, <1>7 DEF MemoryInv
<1>9. SnapshotInv'
  BY SnapshotKept DEF IInv, Commit
<1>. QED BY <1>8, <1>9 DEF IInv

(* release charges nothing. *)
LEMMA ReleaseStep ==
  ASSUME IInv, NEW i \in 1..Len(held), Release(i) PROVE IInv'
<1> DEFINE r == held[i]
           c == release_budget(budget, r, epoch, TRUE)
           st == release_state(budget, r, epoch)
<1>1. r \in Reservation /\ Descends(budget) /\ MemoryInv
  BY DEF IInv, MemoryInv
<1>2. Descends(c) /\ c.consumed = budget.consumed /\ st \in ReservationState
  BY <1>1, ReleaseEffect
<1>3. /\ budget' = c /\ held' = [held EXCEPT ![i].state = st]
      /\ UNCHANGED <<up, epoch, revalidation_needed, generation, charged>>
  BY DEF Release
<1> HIDE DEF r, c, st
<1>4. held' \in Seq(Reservation) /\ Len(held') <= MaxReservations
  BY <1>1, <1>2, <1>3, HeldMarked
<1>5. MemoryInv'
  BY <1>1, <1>2, <1>3, <1>4 DEF MemoryInv
<1>6. SnapshotInv'
  BY SnapshotKept DEF IInv, Release
<1>. QED BY <1>5, <1>6 DEF IInv
-----------------------------------------------------------------------------
(* A saver that is replaced keeps the snapshots of all first budgets. *)
LEMMA SaverReplaced ==
  ASSUME SnapshotInv, NEW s \in Session, NEW v \in Saver,
         v.at \in {"open", "write1", "write2", "rename"} => Descends(v.snap.budget),
         saver' = [saver EXCEPT ![s] = v]
  PROVE  /\ saver' \in [Session -> Saver]
         /\ \A t \in Session : Saving(t)' => Descends(saver'[t].snap.budget)
BY DEF SnapshotInv, Saving

(* PUBLISH_PRICE and RECORD_ATTEMPT lead to a save. *)
LEMMA SaveBeginsStep ==
  ASSUME IInv, NEW s \in Session, Publish(s) \/ RecordAttempt(s) PROVE IInv'
<1>1. /\ saver' = [saver EXCEPT ![s] = [at |-> "snapshot"]]
      /\ UNCHANGED <<up, epoch, budget, held, path, tmp, content, saved, charged>>
  BY DEF Publish, RecordAttempt, memory, disk
<1>2. [at |-> "snapshot"] \in Saver
  BY DEF Saver
<1>3. SnapshotInv'
  BY <1>1, <1>2, SaverReplaced DEF IInv, SnapshotInv
<1>4. revalidation_needed' \in {FALSE, revalidation_needed}
  BY Zenon DEF Publish, RecordAttempt, memory
<1>6. generation' \in 1..MaxGeneration
  BY RecoveryAssumption DEF IInv, MemoryInv, Publish, RecordAttempt, memory
<1>5. MemoryInv'
  BY <1>1, <1>4, <1>6 DEF IInv, MemoryInv
<1>. QED BY <1>3, <1>5 DEF IInv

(* persist copies the first budget. *)
LEMMA TakeSnapshotStep ==
  ASSUME IInv, NEW s \in Session, TakeSnapshot(s) PROVE IInv'
<1> DEFINE snap == [epoch |-> epoch, generation |-> generation, budget |-> budget]
           v == [at |-> "open", snap |-> snap]
<1>1. saver' = [saver EXCEPT ![s] = v] /\ UNCHANGED <<up, memory, disk, saved, charged>>
  BY DEF TakeSnapshot
<1>2. snap \in Snapshot /\ Descends(snap.budget)
  BY DEF IInv, MemoryInv, Snapshot, Descends
<1>3. v \in Saver /\ Descends(v.snap.budget)
  <2> HIDE DEF snap
  <2>. QED BY <1>2 DEF Saver
<1> HIDE DEF v
<1>4. SnapshotInv'
  BY <1>1, <1>3, SaverReplaced DEF IInv, SnapshotInv, disk
<1>5. MemoryInv'
  BY <1>1, MemoryKept DEF IInv, MemoryInv
<1>. QED BY <1>4, <1>5 DEF IInv

(* save has <path>.tmp open, truncated: the file it names, or one that      *)
(* neither name nor any session refers to.                                 *)
LEMMA OpenTmpEffect ==
  ASSUME SnapshotInv, NEW s \in Session, OpenTmp(s)
  PROVE  \E f \in File :
           /\ f # path
           /\ tmp' = f
           /\ content' = [content EXCEPT ![f] = Blank]
           /\ saver' = [saver EXCEPT ![s] = [at |-> "write1", snap |-> saver[s].snap, file |-> f]]
           /\ UNCHANGED <<up, memory, path, saved, charged>>
<1> DEFINE inUse == {path, tmp} \cup {saver[o].file : o \in {x \in Session :
                                    saver[x].at \in {"write1", "write2", "rename"}}}
           f == IF tmp # NoFile THEN tmp ELSE Min(File \ inUse)
<1>1. saver[s].at = "open"
  BY DEF OpenTmp
<1>2. Min(File \ inUse) \in File \ inUse
  BY <1>1, FreeFile
<1>3. Min(File \ inUse) \in File \ {path}
  BY <1>2
<1>4. /\ tmp' = f
      /\ content' = [content EXCEPT ![f] = Blank]
      /\ saver' = [saver EXCEPT ![s] = [at |-> "write1", snap |-> saver[s].snap, file |-> f]]
      /\ UNCHANGED <<up, memory, path, saved, charged>>
  BY DEF OpenTmp
<1> HIDE DEF inUse
<1>5. f \in File /\ f # path
  BY <1>3 DEF SnapshotInv
<1> HIDE DEF f
<1>. QED BY <1>4, <1>5

(* save truncates a file and has it open. *)
LEMMA OpenTmpStep ==
  ASSUME IInv, NEW s \in Session, OpenTmp(s) PROVE IInv'
<1>0. SnapshotInv /\ saver[s].at = "open"
  BY DEF IInv, OpenTmp
<1>1. PICK f \in File :
           /\ f # path
           /\ tmp' = f
           /\ content' = [content EXCEPT ![f] = Blank]
           /\ saver' = [saver EXCEPT ![s] = [at |-> "write1", snap |-> saver[s].snap, file |-> f]]
           /\ UNCHANGED <<up, memory, path, saved, charged>>
  BY <1>0, OpenTmpEffect
<1>2. f \in File
  OBVIOUS
<1> DEFINE v == [at |-> "write1", snap |-> saver[s].snap, file |-> f]
<1>3. saver[s].snap \in Snapshot /\ Descends(saver[s].snap.budget)
  BY <1>0, SaverTyped DEF SnapshotInv, Saving
<1>4. v \in Saver /\ Descends(v.snap.budget)
  BY <1>2, <1>3 DEF Saver
<1>5. saver' = [saver EXCEPT ![s] = v]
  BY <1>1
<1> HIDE DEF v
<1>6. Blank \in [Chunk -> Snapshot \cup {Absent}] /\ \A k \in Chunk : Blank[k] = Absent
  BY DEF Blank
<1>7. /\ content' \in [File -> [Chunk -> Snapshot \cup {Absent}]]
      /\ \A g \in File, k \in Chunk : content'[g][k] # Absent => Descends(content'[g][k].budget)
  BY <1>0, <1>1, <1>2, <1>6 DEF SnapshotInv
<1>8. SnapshotInv'
  BY <1>0, <1>1, <1>2, <1>4, <1>5, <1>7, SaverReplaced DEF SnapshotInv
<1>9. MemoryInv'
  BY <1>1, MemoryKept DEF IInv, MemoryInv
<1>. QED BY <1>8, <1>9 DEF IInv

(* save writes one chunk of its snapshot. *)
LEMMA WriteStep ==
  ASSUME IInv, NEW s \in Session, NEW k \in Chunk, Write(s, k) PROVE IInv'
<1> DEFINE f == saver[s].file
           snap == saver[s].snap
           at == IF k = 1 THEN "write2" ELSE "rename"
           v == [at |-> at, snap |-> snap, file |-> f]
<1>1. SnapshotInv /\ saver[s].at \in {"write1", "write2"} /\ saver[s] \in Saver
  BY SaverTyped DEF IInv, Write
<1>2. snap \in Snapshot /\ f \in File /\ Descends(snap.budget)
  BY <1>1, SaverTyped DEF SnapshotInv, Saving
<1>3. /\ content' = [content EXCEPT ![f] = [content[f] EXCEPT ![k] = snap]]
      /\ UNCHANGED <<up, memory, path, tmp, saved, charged>>
  BY DEF Write, encode
<1>4. saver' = [saver EXCEPT ![s] = v]
  <2>1. saver' = [saver EXCEPT ![s] = [saver[s] EXCEPT !.at = at]]
    BY DEF Write
  <2>2. [saver[s] EXCEPT !.at = at] = v
    BY <1>1 DEF Saver, Idle
  <2>. QED BY <2>1, <2>2
<1>5. v \in Saver /\ Descends(v.snap.budget)
  BY <1>2 DEF Saver
<1> HIDE DEF v, f, snap
<1>6. content[f] \in [Chunk -> Snapshot \cup {Absent}]
  BY <1>1, <1>2 DEF SnapshotInv
<1>7. /\ content' \in [File -> [Chunk -> Snapshot \cup {Absent}]]
      /\ \A g \in File, j \in Chunk : content'[g][j] # Absent => Descends(content'[g][j].budget)
  BY <1>1, <1>2, <1>3, <1>6 DEF SnapshotInv
<1>8. SnapshotInv'
  BY <1>1, <1>3, <1>4, <1>5, <1>7, SaverReplaced DEF SnapshotInv
<1>9. MemoryInv'
  BY <1>3, MemoryKept DEF IInv, MemoryInv
<1>. QED BY <1>8, <1>9 DEF IInv

(* save renames what <path>.tmp names, or gives up. *)
LEMMA SaveEndsStep ==
  ASSUME IInv, NEW s \in Session, Rename(s) \/ SaveFails(s) PROVE IInv'
<1>1. /\ saver' = [saver EXCEPT ![s] = Idle]
      /\ UNCHANGED <<up, memory, content, charged>>
  BY DEF Rename, SaveFails, disk
<1>2. Idle \in Saver /\ Idle.at = "idle"
  BY DEF Saver, Idle
<1>3. /\ path' \in File \cup {NoFile} /\ tmp' \in File \cup {NoFile}
      /\ tmp' # NoFile => tmp' # path'
  BY DEF IInv, SnapshotInv, Rename, SaveFails, disk
<1>4. saved' \in 0..MaxGeneration
  <2>1. CASE Rename(s)
    <3>1. saver[s].snap \in Snapshot
      BY <2>1, SaverTyped DEF IInv, Rename, Saving
    <3>2. saver[s].snap.generation \in 0..MaxGeneration
      BY <3>1, RecoveryAssumption DEF Snapshot
    <3>. QED BY <2>1, <3>2 DEF Rename, IInv, SnapshotInv
  <2>2. CASE SaveFails(s)
    BY <2>2 DEF SaveFails, IInv, SnapshotInv
  <2>. QED BY <2>1, <2>2
<1>5. SnapshotInv'
  BY <1>1, <1>2, <1>3, <1>4, SaverReplaced DEF IInv, SnapshotInv
<1>6. MemoryInv'
  BY <1>1, MemoryKept DEF IInv, MemoryInv
<1>. QED BY <1>5, <1>6 DEF IInv

(* A kill loses the savers and nothing of what the proof is about. *)
LEMMA CrashStep ==
  ASSUME IInv, Crash PROVE IInv'
<1>1. saver' = [s \in Session |-> Idle] /\ UNCHANGED <<memory, disk, saved, charged>>
  BY DEF Crash
<1>2. Idle \in Saver /\ Idle.at = "idle"
  BY DEF Saver, Idle
<1>3. up' \in BOOLEAN
  BY Zenon DEF Crash
<1>4. SnapshotInv'
  BY <1>1, <1>2 DEF IInv, SnapshotInv, Saving, disk
<1>5. MemoryInv'
  BY <1>1, <1>3, MemoryKept DEF IInv
<1>. QED BY <1>4, <1>5 DEF IInv

(* Every step, and every stuttering step, preserves the invariant. *)
LEMMA InvariantStep ==
  ASSUME IInv, [Next]_vars PROVE IInv'
<1>1. CASE UNCHANGED vars
  BY <1>1, SnapshotKept, MemoryKept DEF IInv, vars, MemoryInv
<1>2. ASSUME NEW s \in Session,
             \/ Publish(s) \/ RecordAttempt(s) \/ TakeSnapshot(s) \/ OpenTmp(s)
             \/ \E k \in Chunk : Write(s, k)
             \/ Rename(s) \/ SaveFails(s)
      PROVE  IInv'
  BY <1>2, SaveBeginsStep, TakeSnapshotStep, OpenTmpStep, WriteStep, SaveEndsStep
<1>. QED BY <1>1, <1>2, StartFreshStep, StartRecoveredStep, CrashStep, ReserveStep,
            CommitStep, ReleaseStep DEF Next

(* The first start finds the invariant true. *)
LEMMA InvariantInit ==
  ASSUME Init PROVE IInv
<1>1. first_budget \in Budget
  BY RecoveryAssumption DEF first_budget, Budget, Mode, Lifecycle
<1>2. Descends(budget) /\ budget.consumed = charged /\ charged = 0
  BY <1>1 DEF Init, Descends, Truthful, first_budget
<1>7. up \in BOOLEAN /\ revalidation_needed \in BOOLEAN
  BY Zenon DEF Init
<1>8. /\ epoch \in Epochs /\ generation \in 1..MaxGeneration
      /\ held \in Seq(Reservation) /\ Len(held) <= MaxReservations
  BY RecoveryAssumption DEF Init, Epochs
<1>3. MemoryInv
  BY <1>2, <1>7, <1>8, RecoveryAssumption DEF MemoryInv
<1>4. Idle \in Saver /\ Idle.at = "idle"
  BY DEF Saver, Idle
<1>5. Blank \in [Chunk -> Snapshot \cup {Absent}] /\ \A k \in Chunk : Blank[k] = Absent
  BY DEF Blank
<1>6. SnapshotInv
  BY <1>4, <1>5, RecoveryAssumption DEF Init, SnapshotInv, Saving
<1>. QED BY <1>3, <1>6 DEF IInv

(* The inductive invariant holds in every behaviour: for every number of    *)
(* sessions saving at once, killed at any moment, restarted from whatever   *)
(* file they left.                                                         *)
THEOREM Invariance == Spec => []IInv
BY InvariantInit, InvariantStep, PTL DEF Spec

(* The variables have their types: in particular persist never runs out of  *)
(* files to write to.                                                      *)
THEOREM TypeCorrect == Spec => []TypeOK
<1>1. IInv => TypeOK
  BY DEF IInv, MemoryInv, SnapshotInv, TypeOK, Descends
<1>. QED BY <1>1, Invariance, PTL

(* commit over all the lives of the process charges the hard budget within  *)
(* its limit, although no commit is persisted.                             *)
THEOREM HardLimit == Spec => []HardLimitAcrossRestarts
<1>1. IInv => HardLimitAcrossRestarts
  BY DEF IInv, MemoryInv, HardLimitAcrossRestarts
<1>. QED BY <1>1, Invariance, PTL

(* After any sequence of budget operations, saves, kills and loads the      *)
(* budget's lifecycle agrees with its amounts.                             *)
THEOREM Lifecycles == Spec => []LifecycleTruthful
<1>1. IInv => LifecycleTruthful
  BY DEF IInv, MemoryInv, Descends, LifecycleTruthful
<1>. QED BY <1>1, Invariance, PTL
-----------------------------------------------------------------------------
(* The types the following steps need, and no more. *)
LEMMA DiskTyped ==
  ASSUME IInv
  PROVE  /\ generation \in Nat /\ saved \in Nat
         /\ saver \in [Session -> Saver]
         /\ path \in File \cup {NoFile} /\ tmp \in File \cup {NoFile}
         /\ tmp # NoFile => tmp # path
         /\ content \in [File -> [Chunk -> Snapshot \cup {Absent}]]
<1>1. generation \in 1..MaxGeneration
  BY Zenon DEF IInv, MemoryInv
<1>2. /\ saved \in 0..MaxGeneration
      /\ saver \in [Session -> Saver]
      /\ path \in File \cup {NoFile} /\ tmp \in File \cup {NoFile}
      /\ tmp # NoFile => tmp # path
      /\ content \in [File -> [Chunk -> Snapshot \cup {Absent}]]
  BY Zenon DEF IInv, SnapshotInv
<1>3. MaxGeneration \in Nat
  BY RecoveryAssumption
<1>4. generation \in Nat /\ saved \in Nat
  BY <1>1, <1>2, <1>3
<1>. QED BY <1>2, <1>4, Zenon

(* A session is between two requests while the process is down. *)
LEMMA BusyUp ==
  ASSUME DiskInv, NEW s \in Session, saver[s].at # "idle" PROVE up
<1>1. DownIdle
  BY Zenon DEF DiskInv
<1>. QED BY <1>1 DEF DownIdle, Idle

(* <path> stays good while it, its file and the last save stay the same. *)
LEMMA PathKept ==
  ASSUME PathGood, UNCHANGED <<path, saved>>,
         path # NoFile => content'[path] = content[path]
  PROVE  PathGood'
BY DEF PathGood, Whole, loaded

(* What the disk holds survives the steps that touch neither files nor      *)
(* savers and take the schedule no further back than the last save.        *)
LEMMA DiskKept ==
  ASSUME DiskInv, UNCHANGED <<up, saver, disk, saved, generation>>
  PROVE  DiskInv'
BY DEF DiskInv, DownIdle, PathGood, SaverGood, disk, Whole, loaded, Saving

(* A start finds no save in progress and a whole file, or none. *)
LEMMA StartKeepsDisk ==
  ASSUME IInv, DiskInv, StartFresh \/ StartRecovered PROVE DiskInv'
<1>0. DownIdle /\ PathGood
  BY Zenon DEF DiskInv
<1>1. ~up /\ UNCHANGED <<saver, path, tmp, content, saved>>
  BY DEF StartFresh, StartRecovered, disk
<1>2. \A s \in Session : saver'[s] = Idle
  BY <1>0, <1>1 DEF DownIdle
<1>3. saved \in Nat
  BY DiskTyped
<1>4. saved' <= generation'
  <2>1. CASE StartFresh
    BY <1>0, <1>1, <1>3, <2>1 DEF StartFresh, Fresh, PathGood
  <2>2. CASE StartRecovered
    <3>1. path \in File /\ loaded \in Snapshot
      BY <2>2, DiskTyped DEF StartRecovered, Whole, loaded, Chunk
    <3>2. loaded.generation \in Nat
      BY <3>1, RecoveryAssumption DEF Snapshot
    <3>. QED BY <1>0, <1>1, <1>3, <2>2, <3>2 DEF StartRecovered, PathGood
  <2>. QED BY <2>1, <2>2
<1>5. PathGood'
  BY <1>0, <1>1, PathKept
<1>6. DownIdle' /\ \A s \in Session : SaverGood(s)'
  BY <1>2 DEF DownIdle, SaverGood, Saving, Idle
<1>. QED BY <1>4, <1>5, <1>6 DEF DiskInv

(* A kill leaves no save in progress. *)
LEMMA CrashKeepsDisk ==
  ASSUME DiskInv, Crash PROVE DiskInv'
<1>0. PathGood /\ saved <= generation
  BY Zenon DEF DiskInv
<1>1. saver' = [s \in Session |-> Idle] /\ UNCHANGED <<generation, path, tmp, content, saved>>
  BY DEF Crash, memory, disk
<1>2. PathGood' /\ saved' <= generation'
  BY <1>0, <1>1, PathKept
<1>3. \A s \in Session : saver'[s] = Idle
  BY <1>1
<1>4. DownIdle' /\ \A s \in Session : SaverGood(s)'
  BY <1>3 DEF DownIdle, SaverGood, Saving, Idle
<1>. QED BY <1>2, <1>4 DEF DiskInv

(* The start and the end of a save without the rename. *)
LEMMA SaverOnlyKeepsDisk ==
  ASSUME IInv, DiskInv, NEW s \in Session,
         Publish(s) \/ RecordAttempt(s) \/ TakeSnapshot(s) \/ SaveFails(s)
  PROVE  DiskInv'
<1>0. PathGood /\ saved <= generation /\ \A t \in Session : SaverGood(t)
  BY Zenon DEF DiskInv
<1>1. generation \in Nat /\ saved \in Nat /\ saver \in [Session -> Saver]
  BY DiskTyped
<1> DEFINE Becomes(v) ==
             /\ saver' = [saver EXCEPT ![s] = v]
             /\ v.at \in {"idle", "snapshot", "open"}
             /\ v.at = "open" => v.snap.generation = generation
             /\ UNCHANGED <<up, path, tmp, content, saved>>
             /\ generation' = generation \/ generation' = generation + 1
<1>2. up /\ \E v : Becomes(v)
  <2>1. CASE Publish(s)
    <3>1. Becomes([at |-> "snapshot"]) BY <2>1 DEF Publish, disk
    <3>2. up BY <2>1 DEF Publish
    <3>. QED BY <3>1, <3>2, Zenon
  <2>2. CASE RecordAttempt(s)
    <3>1. Becomes([at |-> "snapshot"]) BY <2>2 DEF RecordAttempt, memory, disk
    <3>2. up BY <2>2 DEF RecordAttempt
    <3>. QED BY <3>1, <3>2, Zenon
  <2>3. CASE TakeSnapshot(s)
    <3>1. Becomes([at |-> "open", snap |-> [epoch |-> epoch, generation |-> generation,
                                            budget |-> budget]])
      BY <2>3 DEF TakeSnapshot, memory, disk
    <3>2. up BY <2>3, BusyUp DEF TakeSnapshot
    <3>. QED BY <3>1, <3>2, Zenon
  <2>4. CASE SaveFails(s)
    <3>1. Becomes(Idle) BY <2>4 DEF SaveFails, memory, disk, Idle
    <3>2. up BY <2>4, BusyUp DEF SaveFails
    <3>. QED BY <3>1, <3>2, Zenon
  <2>. QED BY <2>1, <2>2, <2>3, <2>4
<1>3. PICK v : Becomes(v)
  BY <1>2, Zenon
<1>4. saver'[s] = v /\ \A t \in Session : t # s => saver'[t] = saver[t]
  BY <1>1, <1>3
<1>5. UNCHANGED <<up, path, tmp, content, saved>> /\ generation' \in Nat /\ generation <= generation'
  BY <1>1, <1>3
<1>6. ASSUME NEW t \in Session PROVE SaverGood(t)'
  <2>1. CASE t = s
    <3>1. CASE v.at = "open"
      BY <1>0, <1>1, <1>3, <1>4, <1>5, <2>1, <3>1 DEF SaverGood, Saving
    <3>2. CASE v.at # "open"
      BY <1>3, <1>4, <2>1, <3>2 DEF SaverGood, Saving
    <3>. QED BY <3>1, <3>2
  <2>2. CASE t # s
    <3>1. saver'[t] = saver[t] /\ SaverGood(t) BY <1>0, <1>4, <2>2
    <3>2. Saving(t) => saver[t].snap.generation \in Nat
      BY SaverTyped, RecoveryAssumption DEF IInv, Snapshot
    <3>. QED BY <1>1, <1>5, <3>1, <3>2 DEF SaverGood, Saving
  <2>. QED BY <2>1, <2>2
<1>7. PathGood'
  BY <1>0, <1>5, PathKept
<1>8. DownIdle' /\ saved' <= generation'
  BY <1>0, <1>1, <1>2, <1>5 DEF DownIdle
<1> HIDE DEF Becomes
<1>. QED BY <1>6, <1>7, <1>8 DEF DiskInv

(* When no other session is saving, the file that is opened is neither      *)
(* <path>'s nor another saver's.                                           *)
LEMMA OpenTmpKeepsDisk ==
  ASSUME IInv, DiskInv, OneSaver, NEW s \in Session, OpenTmp(s) PROVE DiskInv'
<1>0. PathGood /\ saved <= generation /\ SaverGood(s)
  BY Zenon DEF DiskInv
<1>1. PICK f \in File : /\ f # path
                        /\ tmp' = f
                        /\ content' = [content EXCEPT ![f] = Blank]
                        /\ saver' = [saver EXCEPT ![s] = [at |-> "write1", snap |-> saver[s].snap,
                                                         file |-> f]]
                        /\ UNCHANGED <<up, generation, path, saved>>
  BY OpenTmpEffect DEF IInv, memory
<1>2. saver[s].at = "open"
  BY DEF OpenTmp
<1>3. up'
  BY <1>1, <1>2, BusyUp
<1>4. \A t \in Session : t # s => ~Saving(t) /\ saver'[t] = saver[t]
  BY <1>1, <1>2, DiskTyped DEF OneSaver, Saving
<1>5. saver'[s] = [at |-> "write1", snap |-> saver[s].snap, file |-> f]
  BY <1>1, DiskTyped
<1>6. ASSUME NEW t \in Session PROVE SaverGood(t)'
  <2>1. CASE t = s
    BY <1>0, <1>1, <1>2, <1>5, <2>1 DEF SaverGood, Saving
  <2>2. CASE t # s
    BY <1>4, <2>2 DEF SaverGood, Saving
  <2>. QED BY <2>1, <2>2
<1>7. path # NoFile => content'[path] = content[path]
  BY <1>1, DiskTyped
<1>8. PathGood'
  BY <1>0, <1>1, <1>7, PathKept
<1>9. DownIdle' /\ saved' <= generation'
  BY <1>0, <1>1, <1>3 DEF DownIdle
<1>. QED BY <1>6, <1>8, <1>9 DEF DiskInv

(* When no other session is saving, what is written stays as written. *)
LEMMA WriteKeepsDisk ==
  ASSUME IInv, DiskInv, OneSaver, NEW s \in Session, NEW k \in Chunk, Write(s, k)
  PROVE  DiskInv'
<1> DEFINE f == saver[s].file
           snap == saver[s].snap
<1>0. PathGood /\ saved <= generation /\ SaverGood(s)
  BY Zenon DEF DiskInv
<1>1. saver[s] \in Saver /\ saver[s].at = IF k = 1 THEN "write1" ELSE "write2"
  BY SaverTyped DEF IInv, Write
<1>2. f \in File /\ f = tmp
  BY <1>0, <1>1, SaverTyped DEF IInv, SaverGood
<1>3. f # path
  BY <1>2, DiskTyped DEF File, NoFile
<1>4. /\ content' = [content EXCEPT ![f] = [content[f] EXCEPT ![k] = snap]]
      /\ UNCHANGED <<up, generation, path, tmp, saved>>
  BY DEF Write, encode, memory
<1>5. up'
  BY <1>1, <1>4, BusyUp
<1>6. /\ saver'[s].at = IF k = 1 THEN "write2" ELSE "rename"
      /\ saver'[s].snap = snap /\ saver'[s].file = f
  BY <1>1, DiskTyped DEF Write, Saver, Idle
<1>7. \A t \in Session : t # s => ~Saving(t) /\ saver'[t] = saver[t]
  BY <1>1, DiskTyped DEF OneSaver, Saving, Write
<1>8. /\ content'[f][k] = snap
      /\ \A j \in Chunk : j # k => content'[f][j] = content[f][j]
      /\ path # NoFile => content'[path] = content[path]
  BY <1>2, <1>3, <1>4, DiskTyped
<1>9. content'[f][1] = snap /\ (k = 2 => content'[f][2] = snap)
  BY <1>0, <1>1, <1>8 DEF Chunk, SaverGood
<1>10. saved <= snap.generation /\ snap.generation <= generation
  BY <1>0, <1>1 DEF SaverGood, Saving
<1>11. ASSUME NEW t \in Session PROVE SaverGood(t)'
  <2>1. CASE t = s
    BY <1>2, <1>4, <1>6, <1>9, <1>10, <2>1 DEF SaverGood, Saving, Chunk
  <2>2. CASE t # s
    BY <1>7, <2>2 DEF SaverGood, Saving
  <2>. QED BY <2>1, <2>2
<1>12. PathGood'
  BY <1>0, <1>4, <1>8, PathKept
<1>13. DownIdle' /\ saved' <= generation'
  BY <1>0, <1>4, <1>5 DEF DownIdle
<1>. QED BY <1>11, <1>12, <1>13 DEF DiskInv

(* When no other session is saving, the rename makes the file it wrote      *)
(* <path>.                                                                 *)
LEMMA RenameKeepsDisk ==
  ASSUME IInv, DiskInv, OneSaver, NEW s \in Session, Rename(s) PROVE DiskInv'
<1> DEFINE snap == saver[s].snap
<1>0. SaverGood(s)
  BY Zenon DEF DiskInv
<1>1. saver[s].at = "rename" /\ Saving(s)
  BY DEF Rename, Saving
<1>2. snap \in Snapshot /\ tmp \in File /\ tmp = saver[s].file
  BY <1>0, <1>1, SaverTyped DEF IInv, SaverGood
<1>3. tmp # NoFile
  BY <1>2 DEF File, NoFile
<1>4. /\ path' = tmp /\ tmp' = NoFile /\ saved' = snap.generation
      /\ saver' = [saver EXCEPT ![s] = Idle] /\ UNCHANGED <<up, generation, content>>
  BY <1>3 DEF Rename, memory
<1>5. content[tmp][1] = snap /\ content[tmp][2] = snap /\ snap # Absent
  BY <1>0, <1>1, <1>2, RecoveryAssumption DEF SaverGood
<1>6. snap.generation <= generation /\ snap.generation \in Nat
  BY <1>0, <1>1, <1>2, RecoveryAssumption DEF SaverGood, Snapshot
<1>7. saver'[s] = Idle /\ \A t \in Session : t # s => ~Saving(t) /\ saver'[t] = saver[t]
  BY <1>1, <1>4, DiskTyped DEF OneSaver
<1>8. \A t \in Session : SaverGood(t)'
  BY <1>7 DEF SaverGood, Saving, Idle
<1>9. PathGood'
  BY <1>3, <1>4, <1>5, <1>6 DEF PathGood, Whole, loaded
<1>10. up'
  BY <1>1, <1>4, BusyUp
<1>11. DownIdle' /\ saved' <= generation'
  BY <1>4, <1>6, <1>10 DEF DownIdle
<1>. QED BY <1>8, <1>9, <1>11 DEF DiskInv

(* As long as sessions do not save at once, every step keeps the disk good. *)
LEMMA DiskStep ==
  ASSUME IInv, DiskInv, OneSaver, [Next]_vars PROVE DiskInv'
<1>1. CASE UNCHANGED vars
  BY <1>1, DiskKept DEF vars, memory
<1>2. ASSUME NEW s \in Session,
             \/ Publish(s) \/ RecordAttempt(s) \/ TakeSnapshot(s) \/ OpenTmp(s)
             \/ \E k \in Chunk : Write(s, k)
             \/ Rename(s) \/ SaveFails(s)
      PROVE  DiskInv'
  BY <1>2, SaverOnlyKeepsDisk, OpenTmpKeepsDisk, WriteKeepsDisk, RenameKeepsDisk
<1>3. ASSUME NEW ep \in Epochs, NEW a \in Amounts, Reserve(ep, a) PROVE DiskInv'
  BY <1>3, DiskKept DEF Reserve
<1>4. ASSUME NEW i \in 1..Len(held), Commit(i) \/ Release(i) PROVE DiskInv'
  BY <1>4, DiskKept DEF Commit, Release
<1>. QED BY <1>1, <1>2, <1>3, <1>4, StartKeepsDisk, CrashKeepsDisk DEF Next

(* And so it stays. *)
LEMMA DiskInvariance == Spec /\ []OneSaver => []DiskInv
<1>1. Init => DiskInv
  BY DEF Init, DiskInv, DownIdle, PathGood, SaverGood, Saving, Idle
<1>2. IInv /\ DiskInv /\ OneSaver /\ [Next]_vars => DiskInv'
  BY DiskStep
<1>. QED BY <1>1, <1>2, Invariance, PTL DEF Spec

(* As long as no two sessions save at once, however many there are and      *)
(* whenever the process is killed, StateStore::save leaves <path> whole.   *)
THEOREM FileStaysWhole == Spec /\ []OneSaver => []FileWhole
<1>1. DiskInv => FileWhole
  BY DEF DiskInv, PathGood, FileWhole
<1>. QED BY <1>1, DiskInvariance, PTL

(* And a save that StateStore::save reported done is not undone.  *)
THEOREM SavesSurvive == Spec /\ []OneSaver => []SavedSurvives
<1>1. DiskInv => SavedSurvives
  BY DEF DiskInv, PathGood, SavedSurvives
<1>. QED BY <1>1, DiskInvariance, PTL
=============================================================================
