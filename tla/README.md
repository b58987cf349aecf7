# Cost Governor in TLA+

Specifications of the Cost Governor: its budgets, the coordinator process that
serves them to several clients, its durable state, its cost decisions, the accounting of
what requests cost, its interventions, and the connections it is served over. They are model-checked with TLC on small instances; the safety of
the budgets, the sessions, the durable state, the decisions and the connections is proved
with TLAPS for every instance. Source references are to the repository
(`src/governor.cpp` below is the library's, `coordinator.cpp` is in `distributed/`).

## The system

`CostGovernor` (`governor.cpp`) is one object behind one mutex, `Impl::mtx`. Every
operation that changes it holds the mutex for its whole body, so it is one step.
The coordinator (`coordinator.cpp`) gives each connection a thread over one
governor; a request is several such steps, with the process's own map of
reservations and its one `last_decision` accessed in between under their own
locks.

| part | state | operations | what makes it hard |
|---|---|---|---|
| budgets | budgets, callers' reservations, epoch, policy | `create_budget`, `reserve`, `commit`, `release`, `consume`, `set_policy`, `advance_epoch` | repeated and late calls, limits met exactly, expiry, stale epochs |
| sessions, budgets | map of reservations by token | RESERVE, COMMIT, RELEASE | copy out, call, write back; races on a token |
| persistence | state file, `<path>.tmp` | `persist`, `save`, `load`, start | crashes, concurrent saves, I/O failure, what is not saved |
| decisions | price schedule, worker boots, revalidation flag | `evaluate`, `validate_for_dispatch`, `publish_price`, `set_price_schedule`, `set_worker_boot` | what changes between a decision and its dispatch |
| sessions, decisions | `last_decision` | REQUEST_EVAL, REVALIDATE | one variable for all sessions |
| attempts | evidence by attempt, history | `record_attempt`, `finalize_request` | late and duplicate evidence, restart |
| interventions | interventions by id | `propose_intervention`, `authorize_`, `acknowledge_`, `verify_intervention` | ids given out before a restart |
| connection | two byte streams (`chan.hpp`) | `send`, `recv`, `Session::run`, the clients' calls | frames cut anywhere, refused frames, full buffers, an end that dies |
| pricing | none | `project`, `ceil_mul_div` | rounding, products that do not fit, choice of price |

## Modules

| module | models |
|---|---|
| `BudgetOps` | the critical sections of the budget operations as operators: `*_status` is what a call returns, `*_budget` and `*_state` what it leaves in the budget and in the reservation |
| `Budget` | the governor's budgets with callers that hand it their reservation objects; one action per operation |
| `Closing` | `Budget`, with a note of the budgets that were EXHAUSTED or EXPIRED once |
| `Escrow` | the abstract specification: claims that are held and then charged or returned once, limits tested against sums over the claims |
| `Coordinator` | RESERVE, COMMIT, RELEASE in the steps the code takes them |
| `Recovery` | snapshot, temporary file, rename, crash, the two ways to start |
| `Restart` | `Recovery`, with the prices of the schedule told apart: recovered, or published by this process |
| `Dispatch` | decisions, revalidation, and all that makes a decision stale |
| `Sessions` | REQUEST_EVAL and REVALIDATE over `Dispatch` and the shared `last_decision` |
| `Accounting` | attempts, their evidence and the history of realized costs, with restarts |
| `Pricing` | the choice of a price and the projected cost, as operators used by `Accounting` |
| `Money` | the width of the integers and `ceil_mul_div` |
| `Interventions` | the four operations with `persist` and `load`; callers keep the id and generation they were given (a ticket) over a restart |
| `Wire` | one connection: a client's calls, the frames as streams of cells, `Session::run` and its replies |
| `Totals` | sums over a sequence of reservations |
| `BudgetOpsProofs`, `TotalsProofs` | lemmas about the operations on a budget's record and about sums |
| `BudgetProofs`, `CoordinatorProofs`, `RecoveryProofs`, `DispatchProofs`, `AccountingProofs`, `WireProofs` | the theorems about the module they are named after |
| `MC*` | instances for TLC |

Operators whose comment begins with "Faulty variant" are used by no specification.
Each is a definition with a plausible mistake in it, kept to show that a property
notices that mistake.

Correspondence. A variable has the name of the member it stands for; variables
marked *history* in the declarations exist only for the properties. A call that is
refused without changing anything is a stuttering step. Amounts are integers of any
size; limits, generations, epochs and times are numbers. The expiry test, the order
of the tests and each early return are those of the code. In `Recovery` a file is two
chunks, each from one snapshot or absent, and it decodes when both are of the same
snapshot, which is what length and checksum establish. In `Dispatch` one kind of cost
is priced, and the two ways the code chooses a price (`check_price`, which asks the
policy about the label, and `find_price`, which does not) are kept apart; candidates are
lists, ranked by every key of the code (energy and transfer, which are not priced, count
as zero). In `Wire` a byte is a cell, and instances have short headers and payloads; whether a header is acceptable, a checksum agrees
and a payload decodes are flags of the frame. `Coordinator` chooses at the start whether
tokens are used by their own session only (`exclusive`). `Accounting`
takes a save for one step, since `Recovery` has its steps, and takes only observations
that `publish_price` accepts, since `Dispatch` has its tests.

## Runs

| run | checks | result |
|---|---|---|
| `budget` | `TypeOK`, `AccountsMatch`, `HardLimitHeld`, `ReservedWithinLimit`, `LifecycleTruthful`, `NoChargeAfterExpiry`, `TerminalLeftByRelease`, `StaleReservationRejected`, `RefinesEscrow` | hold |
| `coordinator` | `TypeOK`, `HardLimitHeld`; `ChargedOnce`, `RefinesBudget` where each token is used by the session it was issued to | hold |
| `recovery` | `TypeOK`, `FileWhole`, `SavedSurvives`, `HardLimitAcrossRestarts`, `LifecycleTruthful`, one session | hold |
| `dispatch` | `TypeOK`, `DecisionStands`, `OrderIrrelevant`, `WorkerIsolation` | hold |
| `accounting` | `TypeOK`, `ChargedOncePerAttempt`, `RetryCountedOnce`, `RoundedUp`, `SpecificBeforeGeneral`, `FinalizedOnce` | hold |
| `wire` | `TypeOK`, `HandledOnce`, `AnswersOwn`, `Answered`, `SessionEnds` | hold |
| `coordinator_double` | `ChargedOnceByAnyone`, tokens used by any session | violated: two sessions fetch an ACTIVE copy before either writes back |
| `recovery_torn` | `FileWhole`, two sessions | violated: one truncates `<path>.tmp` while the other is about to rename it |
| `recovery_restart` | `RestartFences` | violated: start from the file, crash before a save, start again in the same epoch, publish one price: plans are authorized by another one that was recovered |
| `sessions_stale` | `StaleNeverDispatched` | violated: another session's decision is in `last_decision` |
| `interventions` | `TicketsServeTheirOwn` | violated: propose, restart, propose again: the old ticket acts on the new intervention |
| `budget_closing` | `EndedNeverCharged` | violated: consume to EXHAUSTED, release a reservation, leave the epoch, consume again |

The six violated properties state what the repository's README or a comment says, or
something that follows from it; the entries under `findings` in `PROJECT.json` quote it.

What the passing properties mean where it is not obvious:

- `EndedNeverCharged` follows from either of two statements, so its violation shows that
  neither holds. "Terminal lifecycles remain terminal" (`src/README.md` 79): the release of
  an ACTIVE reservation turns an EXHAUSTED or EXPIRED budget RESERVED again
  (`governor.cpp` 261). "Stale actions are rejected without mutating state" (113-114):
  `consume` compares the epoch it is given with the budget's and not with the
  coordinator's (272), so it charges a budget whose epoch is over. A finding reports each.
- `TerminalLeftByRelease` and `StaleReservationRejected` say how far the two gaps go:
  nothing but the release of an ACTIVE reservation revives a terminal budget, and no
  reservation of an old epoch is moved or moves its budget. `NoChargeAfterExpiry` and
  `HardLimitHeld` say that a revived budget is still not charged after its expiry nor
  beyond its limit.
- `RestartFences` follows, likewise, from either half of `src/README.md` 131-132: that the
  epoch advances on a restart, and that recovered evidence is revalidated before a decision
  rests on it. The advanced epoch is not saved (`coordinator.cpp` 168), and one published
  price clears `revalidation_needed` for all recovered ones (`governor.cpp` 174).
- `DecisionStands` ends where a whole schedule is installed. `set_price_schedule`
  (`governor.cpp` 123-127) takes the generation it is given. A caller that changes the
  prices and keeps the generation, as `ex_common.hpp` 41-43 does, leaves earlier decisions
  valid though they were computed from other prices. The coordinator installs a schedule
  only when it starts.
- `LifecycleTruthful` relies on the copies of reservations that `release` looks through
  staying ACTIVE. With up-to-date copies, the release of an EXHAUSTED budget's last
  reservation would call it PARTIALLY_CONSUMED, with nothing remaining.
- `OrderIrrelevant`: a decision does not depend on the order of the candidates. It is
  stated for lists without two plans of one id, since the last key the code compares is
  the id: the generation, which `src/README.md` 96 also names, is not compared.
- `HandledOnce` (its last part), `AnswersOwn` and `Answered` are about streams in step
  (`InStep`). `recv` refuses a header without reading the payload behind it, and the session
  goes on reading in the middle of that payload. From there on requests are missed,
  answers belong to other calls, and both ends can wait in `send` for each other; without
  the condition TLC finds each of the three. The repository's clients write every header
  with `FramedEndpoint::send`, so they meet this only with a peer of another version.
- What `HandledOnce` says of streams *out of* step rests on an assumption of the model
  (`header_accepted`): bytes left of a refused frame's payload do not begin with the magic
  number and version. The code has nothing that ensures it. In step nothing is assumed: the
  session reads headers only where frames begin.
- `HardLimitAcrossRestarts` counts charges since the budget was created. Commits are
  not saved, so a recovered budget has forgotten some; the limit holds because the
  budget keeps its old epoch, after which nothing is reserved on it any more. Moving
  recovered budgets to the new epoch would break it (`load_budget_rebased`).
- `ChargedOncePerAttempt` compares a request's cost with what was accepted for it, priced
  by a definition of its own. Evidence of any other generation replaces what is known of
  an attempt, an *earlier* generation too, so the property leaves open which of the
  accepted ones is charged.
- `RoundedUp` allows a refusal when the product of amount and price does not fit,
  though the cost itself might: the code refuses then.
- `RefinesBudget` carries what is proved of `Budget` over to the sessions, under the
  condition that a token is used by one session.

### Bounds

`budget`: one budget, limit 2, amounts -1, 1 and 2, two reservations, two epochs,
generations and policy generations, times before and after the expiry. Two
reservations of 1 and 2 meet and exceed the limit in every order; budgets do not
interact in the code, and the proofs cover any number. `coordinator*`: two sessions,
two tokens, five COMMIT or RELEASE requests, which is enough for both sessions to
repeat and cross their requests on one token. `budget_closing`: one budget, limit 2,
two reservations, two epochs. `recovery*`: three epochs and three schedule generations, two
reservations for each process life (one in `recovery_restart`), any number of crashes.
`dispatch`: two workers, of which the first announces itself and restarts and the second
only announces itself; three plans of which two share an id, lists of up to two
candidates, three observations of which two share an id, two times between which prices
come into force, lapse and grow old, two epochs, two schedule generations,
and schedules of at most one observation installed whole, under any generation and date.
`sessions_stale`: two sessions, one plan, four generations. `accounting`: two requests,
integers of 5 bits, two kinds of cost, six pieces of evidence (two generations of one
attempt, a failed attempt, a recomputation, a negative amount, an unsupported label),
five observations under three ids (general, for a device, for a resource, one that
lapses, one so high that a cost does not fit), two epochs.
`wire`: three requests of seven kinds (well formed with no, a short and a long payload;
damaged; truncated; of another version with and without a payload), headers of two cells
and room for two cells in each direction, so that no frame with a payload fits and both
ends meet full buffers. `interventions`: two proposals, one restart.

`CHECK_DEADLOCK FALSE` is set for the coordinator (sessions wait for requests, and the
request bound is reached), for recovery (a process that is down stays down until
it is started, and the epoch bound is reached), for the connection (both ends closed) and
for interventions (every ticket used, the bounds reached).

Fairness. `wire` assumes weak fairness of the steps of each end: client and session are
threads that the operating system runs, each a loop without other waits than `send` and
`recv`, and a stream socket delivers what was accepted or reports an error. Nothing makes
a client call or an end die. The other runs check safety and assume no fairness.

## Proofs

`BudgetProofs` proves, for all constants that satisfy `BudgetAssumption`:

| theorem | statement |
|---|---|
| `TypeCorrect` | `Spec => []TypeOK` |
| `LedgerExact` | `Spec => []AccountsMatch` |
| `HardLimit` | `Spec => []HardLimitHeld` |
| `ReservedBounded` | `Spec => []ReservedWithinLimit` |
| `LifecycleMatches` | `Spec => []LifecycleTruthful` |
| `ExpiryRespected` | `Spec => NoChargeAfterExpiry` |
| `StaleFenced` | `Spec => StaleReservationRejected` |
| `TerminalLeft` | `Spec => TerminalLeftByRelease` |
| `Refinement` | `Spec => RefinesEscrow` |

All rest on `Invariance`: `IInv` is inductive. `IInv` says that types hold, that every
reservation is on an existing budget and has its expiry and its epoch (`commit` looks at
the reservation's expiry and `release` at its epoch, while `NoChargeAfterExpiry` and
`StaleReservationRejected` are about the budget's too), that a budget not yet created has nothing
charged to it, and `AccountsMatch`, `HardLimitHeld`, `ReservedWithinLimit` and
`LifecycleTruthful` together. The exact ledger is what makes the bound on `reserved`
inductive: that a release does not take it below zero is known only because the
reservation released is part of the sum.

The argument: each operation is shown to move amounts in one of a few ways
(`ReserveEffect` to `ReleaseEffect`, collected in `NextEffect`); each way is shown to
keep the invariant. Sums over reservations are the subject of `TotalsProofs`: appending
a reservation or changing the state of one changes a sum by its amount.
`Refinement` maps reservations to claims (`phase_of`) and shows with `AccountsMatch` that
tests against counters agree with tests against sums.

`BudgetOpsProofs` says once what an accepted `reserve`, a `commit` that charges, comes too
late or does nothing, and a `release` do to a budget's record; the three modules that hold
a budget start from these lemmas.

`CoordinatorProofs` proves, for all constants that satisfy `CoordinatorAssumption` (any
number of sessions, tokens and requests):

| theorem | statement |
|---|---|
| `TypeCorrect` | `Spec => []TypeOK` |
| `HardLimit` | `Spec => []HardLimitHeld`, tokens shared or not |
| `NoDoubleCharge` | `Spec => []ChargedOnce` |
| `Refinement` | `Spec => RefinesBudget` |

Its `IInv` has three parts. `BudgetInv`: the one budget has the terms `main` gave it and is
charged within its limit. `TokenInv`: every token issued is in the map, or in the locals of
the session about to put it there. `CopyInv`, when tokens are not shared: the copy a session
works on equals the map's entry, and a token that was charged is COMMITTED in its *latest*
state, which is the copy of the session that has yet to write it back, or else the map's
(`Latest`). `ChargedOnce` alone is not inductive: after a commit and before the write-back
the map still says ACTIVE, and only `CopyInv` says that no other session can read it then.
`Refinement` maps a token to its latest state: RESERVE, COMMIT and RELEASE are Budget's
steps when the governor is called, and inserting, copying out and writing back are none.

`RecoveryProofs` proves, for all constants that satisfy `RecoveryAssumption` (any finite
number of sessions, any bounds):

| theorem | statement |
|---|---|
| `TypeCorrect` | `Spec => []TypeOK` |
| `HardLimit` | `Spec => []HardLimitAcrossRestarts` |
| `Lifecycles` | `Spec => []LifecycleTruthful` |
| `FileStaysWhole` | `Spec /\ []OneSaver => []FileWhole` |
| `SavesSurvive` | `Spec /\ []OneSaver => []SavedSurvives` |

The first three hold for sessions that save at the same time. Their `IInv` is about memory
(`MemoryInv`) and about every snapshot that could ever be loaded: those in files, whole or
torn, and those a session is about to write (`SnapshotInv`). The budget in each of them is
the one `main` created first, with its terms and a truthful lifecycle (`Descends`), so its
epoch is 1. Nothing is charged to it in a later epoch, and in epoch 1 nothing has been
forgotten yet: `consumed` is then all that was ever charged. `HardLimitAcrossRestarts` alone
is not inductive, since a restart brings back any budget a file may hold.

The last two are about the file and need `OneSaver`: no two sessions are between the copy
of the snapshot and the rename at once. Run `recovery_torn` shows that this is necessary;
run `recovery` has it because it has one session. Under it `DiskInv` is inductive: `<path>.tmp` is the saver's own file and holds
what the saver has written so far. `RecoveryAssumption` asks for finitely many sessions, so
that a save always finds a free file, and for a mark of an absent chunk that is no snapshot.

`DispatchProofs` proves, for all constants that satisfy `DispatchAssumption` (any number of
callers, workers, plans and observations, candidate lists of any length):

| theorem | statement |
|---|---|
| `TypeCorrect` | `Spec => []TypeOK` |
| `DecisionsStand` | `Spec => []DecisionStands` |
| `RankingDeterministic` | `Spec => []OrderIrrelevant` |
| `WorkersIsolated` | `Spec => WorkerIsolation` |

`IInv` adds to the types `StandInv`: until a whole schedule is installed, a decision's price
generation is at most the current one, and if it is the current one, nothing has happened
since the decision or `revalidation_needed` is set. `DecisionStands` alone is not inductive:
`set_policy` can bring back the epoch and the policy generation of a decision, and only the
flag then keeps it from passing, until a publication clears the flag and moves the
generation in the same step. `RankingDeterministic` rests on two lemmas about `better`: of two feasible
plans with different ids one is better (`BetterTotal`), and among feasible plans there is
one that none is better than (`BestExists`, the least total, among those the least price
per request, and so on). That totals are numbers is part of the argument: a feasible plan
has a price to be charged by, because a price that `check_price` accepts is in force, and
then `find_price` finds one, if perhaps another (`PriceFound`).

`AccountingProofs` proves, for all constants that satisfy `WidthAssumption`,
`PricingAssumption` and `AccountingAssumption` (integers of any width, any number of
requests, attempts, generations of evidence, prices and restarts):

| theorem | statement |
|---|---|
| `TypeCorrect` | `Spec => []TypeOK` |
| `ChargedOnce` | `Spec => []ChargedOncePerAttempt` |
| `CountedOnce` | `Spec => []RetryCountedOnce` |
| `CostRoundedUp` | `Spec => []RoundedUp` |
| `SpecificFirst` | `Spec => []SpecificBeforeGeneral` |
| `OneEntry` | `Spec => []FinalizedOnce` |

`IInv` adds to the types that what is known of an attempt was accepted for it, that
something is known of every attempt for which evidence was accepted, that both are finite
(`Known`), and that a request has one entry in the history in memory and in the one on disk:
`FinalizedOnce` alone is not inductive, since a restart brings back the saved history.
The four properties of costs then hold of any state that satisfies `IInv`, by three facts
about the operators. `FindPrice` is what the loop of `find_price` keeps true of the best
price so far. `CeilMulDiv` says that `ceil_mul_div` returns the one number that pays for
the amount and that none smaller does (`PaysUnique`), and that its test before the
multiplication refuses only products that do not fit. `TotalsProofs` has the facts about
sums over finite sets (a term taken out, two sums added, split, compared, indexed
differently), each by induction over the subsets; `ChargedOnce` turns the sum over evidence
into one over attempts with them and compares it term by term. `PricingAssumption` asks for
finitely many kinds, which are an enumeration in the code. `WidthAssumption` states that
`2^Width` is a positive natural number, because the provers have no rule for powers.

`WireProofs` proves, for all constants that satisfy `WireAssumption` (frames of any length,
any room in the buffers, any number of requests):

| theorem | statement |
|---|---|
| `TypeCorrect` | `Spec => []TypeOK` |
| `HandlesInOrder` | `Spec => []HandledOnce` |
| `AnswersMatch` | `Spec => []AnswersOwn` |

All rest on its own `Invariance`. `IInv` lays the frames of a stream end to end
(`Streams`), says what the place an end reads from has to do with them (`Reading`,
`Aligned`), and that what was handled lies behind it (`HandledBehind`). For streams in step
it adds that all well-formed frames behind it were handled (`HandledAll`), that the n-th
reply answers the n-th request (`OneReplyEach`), and that a client waits for the last reply
or the one to come (`Awaiting`). Without the last two, that an answer is the call's own is
not inductive: it follows from the counts of frames on both streams.

Model-checked only: liveness (`Answered`, `SessionEnds`), which is out of the prover's reach.
Every other property of a run that passes has a theorem.

## Not modelled

- The layout of messages and of the snapshot, byte by byte, and the computation of the
  checksums: sequential conversions without state.
- The scenarios of the worker and the proof runner, launching processes, and retrying
  `connect`: their calls are in `Wire`, their requests are the inputs of the other modules.
- Explanations and state thresholds of decisions, which nothing in the governor reads back.
- Several kinds of cost, devices and resources in one decision: `Accounting` has them for
  realized costs, `Dispatch` prices one kind.
- Overflow of sums. `MoneyMicros` and `Amount` test a sum or product after a signed operation
  that is undefined when it overflows (`money.hpp` 80-98), and GCC 12 drops the test at `-O3`
  (Release, the default of `CMakeLists.txt`), where `money.hpp` 12 says that overflow is
  rejected. What is shown of budgets and costs is shown of amounts whose sums fit 64 bits.
  Products of amount and price are modelled with their width (`ceil_mul_div`).
- QUIT, which no client of the repository sends and no reply answers.
- In `Dispatch`, recomputation as part of a plan's evidence, and the MISSING_PRICE that
  `project` throws when a second kind of cost has no price: both need several kinds.
- The CLI, the benchmark and the CUDA program.
