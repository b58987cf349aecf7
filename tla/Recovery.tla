------------------------------ MODULE Recovery ------------------------------
(***************************************************************************)
(* The coordinator's durable state: CostGovernor::persist and load,         *)
(* StateStore::save and load, and what main does at each start. A session   *)
(* that published a price or recorded an attempt persists the governor: it  *)
(* takes a snapshot under Impl::mtx and then, without the lock, writes it   *)
(* to <path>.tmp and renames that over <path>. Sessions do so concurrently, *)
(* and the process may be killed between any two steps.                     *)
(*                                                                         *)
(* Files are modelled as the file system has them: two directory entries    *)
(* name files, an open file outlives its name, and a file is two chunks,    *)
(* each the chunk of some snapshot or Absent. It decodes (length, checksum) *)
(* when both chunks are of one snapshot.                                    *)
(***************************************************************************)
EXTENDS BudgetOps, Sequences, FiniteSetsExt

CONSTANTS
  Session,          \* connections, each served by a thread
  Limit,            \* the limit of the budget created at the start
  Amounts,          \* amounts clients reserve
  MaxEpoch,         \* bound on the coordinator epoch
  MaxGeneration,    \* bound on the generation of the price schedule
  MaxReservations,  \* bound on the reservations issued by one process
  Absent            \* not a snapshot

VARIABLES
  up,                  \* is the process running?
  epoch,               \* Impl::epoch
  revalidation_needed, \* Impl::revalidation_needed
  generation,          \* Impl::schedule.generation
  budget,              \* the budget in Impl::budgets
  held,                \* the reservations this process has issued
  saver,               \* where each session is in persist()
  path,                \* the file named <path>, or NoFile
  tmp,                 \* the file named <path>.tmp, or NoFile
  content,             \* the content of each file
  saved,               \* history: the schedule generation of the last save that returned OK
  charged              \* history: all that was committed to the budget since its creation

memory == <<epoch, revalidation_needed, generation, budget, held>>
disk   == <<path, tmp, content>>
vars   == <<up, memory, saver, disk, saved, charged>>

Epochs == 1..MaxEpoch

Reservation == [budget : {1}, generation : {1}, epoch : Epochs, amount : Nat,
                expires_at : {0}, state : ReservationState]

(* What of the governor is durable: reservations and attempts are not. *)
Snapshot == [epoch : Epochs, generation : 1..MaxGeneration, budget : Budget]

ASSUME RecoveryAssumption ==
  /\ IsFiniteSet(Session)
  /\ Limit \in Nat /\ Amounts \subseteq Int
  /\ MaxEpoch \in Nat /\ MaxEpoch >= 1
  /\ MaxGeneration \in Nat /\ MaxGeneration >= 1
  /\ MaxReservations \in Nat
  /\ Absent \notin Snapshot

Chunk  == {1, 2}
Blank  == [k \in Chunk |-> Absent]
NoFile == 0
File   == 1..(Cardinality(Session) + 2)

Idle  == [at |-> "idle"]
Saver == {Idle, [at |-> "snapshot"]}
         \cup [at : {"open"}, snap : Snapshot]
         \cup [at : {"write1", "write2", "rename"}, snap : Snapshot, file : File]

TypeOK ==
  /\ up \in BOOLEAN
  /\ epoch \in Epochs /\ revalidation_needed \in BOOLEAN
  /\ generation \in 1..MaxGeneration
  /\ budget \in Budget
  /\ held \in Seq(Reservation) /\ Len(held) <= MaxReservations
  /\ saver \in [Session -> Saver]
  /\ path \in File \cup {NoFile} /\ tmp \in File \cup {NoFile}
  /\ content \in [File -> [Chunk -> Snapshot \cup {Absent}]]
  /\ saved \in 0..MaxGeneration
  /\ charged \in Nat

(* The bytes of snapshot s: its length and checksum tell them from a mix of *)
(* the bytes of two snapshots.                                             *)
encode(s) == [k \in Chunk |-> s]

Whole(f) == content[f][1] # Absent /\ content[f][1] = content[f][2]

(* The snapshot <path> decodes to. *)
loaded == content[path][1]
-----------------------------------------------------------------------------
first_budget ==
  [generation |-> 1, epoch |-> 1, mode |-> "HARD", limit |-> Limit, expires_at |-> 0,
   lifecycle |-> "ACTIVE", reserved |-> 0, consumed |-> 0, released |-> 0]

(* main without a state file: set_policy, set_price_schedule, create_budget. *)
Fresh ==
  /\ epoch' = 1
  /\ revalidation_needed' = FALSE
  /\ generation' = 1
  /\ budget' = first_budget
  /\ held' = <<>>

Init ==
  /\ up = FALSE
  /\ epoch = 1 /\ revalidation_needed = FALSE /\ generation = 1
  /\ budget = first_budget
  /\ held = <<>>
  /\ saver = [s \in Session |-> Idle]
  /\ path = NoFile /\ tmp = NoFile
  /\ content = [f \in File |-> Blank]
  /\ saved = 0
  /\ charged = 0

StartFresh ==
  /\ ~up /\ path = NoFile
  /\ up' = TRUE
  /\ Fresh
  /\ charged' = 0
  /\ UNCHANGED <<saver, disk, saved>>

(* Faulty variant: what is RESERVED becomes ACTIVE whatever was consumed. *)
load_budget_always_active(b) ==
  [b EXCEPT !.reserved = 0, !.lifecycle = IF @ = "RESERVED" THEN "ACTIVE" ELSE @]

(* Faulty variant: a recovered budget is carried over into the new epoch. *)
load_budget_rebased(b) ==
  [b EXCEPT !.reserved = 0, !.epoch = @ + 1,
            !.lifecycle = IF b.consumed = 0 /\ b.released = 0 /\ @ = "RESERVED"
                            THEN "ACTIVE" ELSE @]

(* load: no reservation survives the process that issued it. *)
load_budget(b) ==
  [b EXCEPT !.reserved = 0,
            !.lifecycle = IF b.consumed = 0 /\ b.released = 0 /\ @ = "RESERVED"
                            THEN "ACTIVE" ELSE @]

(* main with one: load, then advance_epoch. A file that does not decode     *)
(* ends the process with an exception: it does not start.                  *)
StartRecovered ==
  /\ ~up /\ path # NoFile /\ Whole(path)
  /\ loaded.epoch < MaxEpoch
  /\ up' = TRUE
  /\ epoch' = loaded.epoch + 1
  /\ revalidation_needed' = TRUE
  /\ generation' = loaded.generation
  /\ budget' = load_budget(loaded.budget)
  /\ held' = <<>>
  /\ UNCHANGED <<saver, disk, saved, charged>>

(* The process is killed: what the file system has remains. *)
Crash ==
  /\ up
  /\ up' = FALSE
  /\ saver' = [s \in Session |-> Idle]
  /\ UNCHANGED <<memory, disk, saved, charged>>
-----------------------------------------------------------------------------
(* PUBLISH_PRICE of the current epoch: publish_price; persist() follows. *)
Publish(s) ==
  /\ up /\ saver[s] = Idle
  /\ generation < MaxGeneration
  /\ generation' = generation + 1
  /\ revalidation_needed' = FALSE
  /\ saver' = [saver EXCEPT ![s] = [at |-> "snapshot"]]
  /\ UNCHANGED <<up, epoch, budget, held, disk, saved, charged>>

(* RECORD_ATTEMPT: attempts are not durable, but persist() follows as well. *)
RecordAttempt(s) ==
  /\ up /\ saver[s] = Idle
  /\ saver' = [saver EXCEPT ![s] = [at |-> "snapshot"]]
  /\ UNCHANGED <<up, memory, disk, saved, charged>>

(* persist(), under Impl::mtx. *)
TakeSnapshot(s) ==
  /\ saver[s].at = "snapshot"
  /\ saver' = [saver EXCEPT ![s] =
                 [at |-> "open",
                  snap |-> [epoch |-> epoch, generation |-> generation, budget |-> budget]]]
  /\ UNCHANGED <<up, memory, disk, saved, charged>>

(* save(): <path>.tmp is opened and truncated. If the name exists, the file *)
(* is the same one another session may be writing or about to rename.      *)
OpenTmp(s) ==
  /\ saver[s].at = "open"
  /\ LET inUse == {path, tmp} \cup {saver[o].file : o \in {x \in Session :
                                      saver[x].at \in {"write1", "write2", "rename"}}}
         f == IF tmp # NoFile THEN tmp ELSE Min(File \ inUse)
     IN  /\ tmp' = f
         /\ content' = [content EXCEPT ![f] = Blank]
         /\ saver' = [saver EXCEPT ![s] = [at |-> "write1", snap |-> saver[s].snap, file |-> f]]
  /\ UNCHANGED <<up, memory, path, saved, charged>>

(* Each chunk is written where it belongs in the file that was opened. *)
Write(s, k) ==
  /\ saver[s].at = IF k = 1 THEN "write1" ELSE "write2"
  /\ content' = [content EXCEPT ![saver[s].file][k] = encode(saver[s].snap)[k]]
  /\ saver' = [saver EXCEPT ![s].at = IF k = 1 THEN "write2" ELSE "rename"]
  /\ UNCHANGED <<up, memory, path, tmp, saved, charged>>

(* Faulty variant: <path> itself is opened, truncated and written. *)
RenameEarly(s) ==
  /\ saver[s].at \in {"write1", "rename"}
  /\ IF saver[s].at = "write1"
       THEN path' = tmp /\ UNCHANGED <<tmp, saver, saved>>
       ELSE /\ saver' = [saver EXCEPT ![s] = Idle]
            /\ saved' = saver[s].snap.generation
            /\ UNCHANGED <<path, tmp>>
  /\ UNCHANGED <<up, memory, content, charged>>

(* Faulty variant: the save is reported done without the rename. *)
RenameForgotten(s) ==
  /\ saver[s].at = "rename"
  /\ saved' = saver[s].snap.generation
  /\ saver' = [saver EXCEPT ![s] = Idle]
  /\ UNCHANGED <<up, memory, path, tmp, content, charged>>

(* The rename moves whatever <path>.tmp names by now; if nothing, it fails. *)
(* The session answers its client OK in both cases.                        *)
Rename(s) ==
  /\ saver[s].at = "rename"
  /\ \/ /\ tmp # NoFile
        /\ path' = tmp /\ tmp' = NoFile
        /\ saved' = saver[s].snap.generation
     \/ /\ tmp = NoFile
        /\ UNCHANGED <<path, tmp, saved>>
  /\ saver' = [saver EXCEPT ![s] = Idle]
  /\ UNCHANGED <<up, memory, content, charged>>

(* The open or a write fails: save() returns, <path>.tmp stays as it is. *)
SaveFails(s) ==
  /\ saver[s].at \in {"open", "write1", "write2"}
  /\ saver' = [saver EXCEPT ![s] = Idle]
  /\ UNCHANGED <<up, memory, disk, saved, charged>>
-----------------------------------------------------------------------------
(* The budget's operations go on meanwhile; nothing persists after them. *)
Reserve(ep, a) ==
  /\ up /\ Len(held) < MaxReservations
  /\ reserve_status(budget, 1, ep, a, epoch, 0) = "OK"
  /\ budget' = reserve_budget(budget, 1, ep, a, epoch, 0)
  /\ held' = Append(held, new_reservation(1, budget, a))
  /\ UNCHANGED <<up, epoch, revalidation_needed, generation, saver, disk, saved, charged>>

Commit(i) ==
  /\ up
  /\ LET r == held[i]
     IN  /\ budget' = commit_budget(budget, r, epoch, 0)
         /\ held' = [held EXCEPT ![i].state = commit_state(budget, r, epoch, 0)]
         /\ charged' = charged + IF commit_charges(budget, r, epoch, 0) THEN r.amount ELSE 0
  /\ UNCHANGED <<up, epoch, revalidation_needed, generation, saver, disk, saved>>

Release(i) ==
  /\ up
  /\ budget' = release_budget(budget, held[i], epoch, TRUE)
  /\ held' = [held EXCEPT ![i].state = release_state(budget, held[i], epoch)]
  /\ UNCHANGED <<up, epoch, revalidation_needed, generation, saver, disk, saved, charged>>

Next ==
  \/ StartFresh
  \/ StartRecovered
  \/ Crash
  \/ \E s \in Session :
       \/ Publish(s) \/ RecordAttempt(s)
       \/ TakeSnapshot(s) \/ OpenTmp(s)
       \/ \E k \in Chunk : Write(s, k)
       \/ Rename(s) \/ SaveFails(s)
  \/ \E ep \in Epochs, a \in Amounts : Reserve(ep, a)
  \/ \E i \in 1..Len(held) : Commit(i) \/ Release(i)

Spec == Init /\ [][Next]_vars
-----------------------------------------------------------------------------
(* <path> names a whole snapshot at all times, so that a process killed at  *)
(* any moment can start again (persistence.hpp 58: "Atomic file-backed      *)
(* store: writes to a temp file then renames"; README.md 124).             *)
FileWhole == path # NoFile => Whole(path)

(* A save that returned OK is not undone: the file is of that price         *)
(* schedule's generation or a later one.                                   *)
SavedSurvives == saved > 0 => path # NoFile /\ Whole(path) /\ loaded.generation >= saved

(* What was committed to a hard budget over all the lives of the process    *)
(* stays within its limit, although commits are not persisted: the epoch of *)
(* the recovered budget fences it off from new reservations.               *)
HardLimitAcrossRestarts == charged <= Limit

(* The lifecycle of b agrees with its amounts. *)
Truthful(b) ==
  /\ b.lifecycle = "ACTIVE" => b.reserved = 0 /\ b.consumed = 0
  /\ b.lifecycle = "PARTIALLY_CONSUMED" => remaining(b) > 0
  /\ b.lifecycle = "EXHAUSTED" => remaining(b) <= 0

(* The lifecycle of the budget agrees with its amounts, recovered or not,   *)
(* although load overwrites the amounts that were reserved.                *)
LifecycleTruthful == Truthful(budget)
=============================================================================
