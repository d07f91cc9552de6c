# LongHorizonOS: specifications, checks and proofs

TLA+ models of the parts of LongHorizonOS (`src/src/lhos`, and the benchmark
scripts in `src/scripts`) that have to be right under interleavings, crashes,
expiring leases, cancellations and lost answers; the TLC configurations that
check them on small instances; and TLAPS proofs of the central properties for
every value of the constants. `PROJECT.json` lists the components, the runs, the
source lines each definition stands for, and the hazards each property is aimed
at. Paths below are relative to `src/src/lhos` unless they start with `scripts`.

## The system

LongHorizonOS runs long jobs of several agents on top of an "agent OS".

| Layer | Source | What it does |
|---|---|---|
| Kernel | `agent_os/kernel`, `agent_os/services`, `agent_os/storage` | processes, actions on drivers, leases, signals, capabilities; an append-only journal in SQLite from which the projection tables are rebuilt; `tick()` recovers, delivers, dispatches and steps |
| Kernel extensions | `agent_os/artifacts`, `agent_os/context`, `services/outbox.py` | versioned artifacts, context paging, transactional outbox |
| Verified progress graph | `runtimes/verified_progress`, `runtimes/invalidation`, `provenance` | a versioned task graph; tasks become verified by evidence and stale when what the evidence rests on changes |
| Multi-agent scheduler | `runtimes/multi_agent` | turns ready tasks into claims backed by kernel leases, reconciles them with kernel and graph, hands them over; worker pool, durable state, cleanup |
| SDK | `sdk` | the `AgentOS` facade with its execution loop, online epochs and control loop, supervisor of external events, workspace watcher, planning policies, budgets, harness sessions |
| Single-run runtime | `runtime`, `graph`, `domain`, `infrastructure` | a controller loop over one task graph |
| Harness integration and benchmark | `integrations/harness`, `scripts` | continuation policies, the DeepSeek harness adapter, paired benchmark runs |
| Edges | `agents`, `verification`, `cli`, `benchmarks`, `demo` | model adapters, verifiers, command line, experiments |

How they interact: the scheduler reads the graph (ready frontier, version,
evidence) and the kernel (processes, leases), takes a lease for each claim, and
keeps its own durable snapshot; workers run tasks and commit evidence to the
graph; the kernel reclaims what expires. `AgentOS` plans epochs over all of them,
and external changes enter through the watcher and reconciliation. Nothing makes
these stores change together, which is where most hazards come from.

## Modules

| Module | Part | Size of a step |
|---|---|---|
| `LeaseService` | `services/lease_service.py` | one SQLite transaction |
| `KernelActions` | life of an action: `kernel/dispatcher.py`, recovery and dispatch of `kernel/kernel.py`, `services/action_service.py` | one transaction or one driver answer |
| `DeadlockRecovery` | `detect_deadlocks`, `_find_cycles`, `_select_victim`, `_recover_deadlock` | one neighbour of the search, one cycle of the recovery |
| `ProcessSignals` | `services/process_service.py`, `services/signal_service.py`, `tick` and `_run_process_step` | one transaction, or the awaited step of a program |
| `TransactionalOutbox`, `AtLeastOnceDelivery` | `services/outbox.py`, and what it promises (abstract) | one transaction, or the publishing of one record |
| `ClaimScheduler` | `runtimes/multi_agent`: `scheduler.py`, `claims.py`, `reconciliation.py`, `attempts.py`, `resources.py`, `handoff.py`, with kernel and graph as environment | one kernel effect or one durable write |
| `WorkerPool` | `worker_pool.py` | what one coroutine does between two awaits |
| `DurableState` | `durable_state.py` | one transaction |
| `CleanupMarkers` | compensation of `run_pass`, cleanup markers of `scheduler.py` | one lock region |
| `GraphStore` | `verified_progress/graph_store.py` with `submit_patch` and `recover` | one statement or one transaction |
| `VerifiedProgress` | derived state, readiness, closure (`verified_progress/sdk.py` and others), `runtimes/invalidation` | one commit |
| `AgentRun` | `AgentOS.run`, `run_async` | one await, read or commit of the loop |
| `OnlineEpochs` | online computation controller and its epochs in `sdk/os.py` | one read or release |
| `ControlLoop` | `sdk/computation_control.py` over harness sessions | one await |
| `HarnessControl` | harness registration, control, live rebase | request and answer |
| `EventSupervisor`, `WorkspaceWatcher` | `event_supervisor.py`, `workspace_watch_loop.py`, `watchers.py` | one call or await |
| `Reconciliation` | artifact facts and `reconcile_observation(s)` | one read or transaction |
| `ArtifactStore`, `ContextVM` | `agent_os/artifacts`, `agent_os/context` | one durable write; one call |
| `ProvenanceJournal`, `ExecutionProvenance` | `provenance`, gateways in `integrations/tools` | one read, check or append |
| `AdmissionPolicies`, `GraphAnalysis`, `ComputeRouting`, `ChangeDecisions` | planning policies of `sdk` | operators of one input |
| `SemanticPolicy` | `integrations/harness/optimization.py`, `optimization_v2.py`, and the loop around them | operators; one phase of the loop |
| `UsageAccounting` | usage ledger, calibration, wastes | one ledger transition |
| `NodeRuntime` | single-run runtime | one transaction |
| `HarnessChild`, `DshAdapter`, `DshTrace` | `sdk/subprocess_harness.py`, `integrations/harness/deepseek.py` | one lock region or file write |
| `PairRunner`, `PairOutputs`, `HarborAgent`, `StopLoss`, `HarborJob`, `CheckpointCapture` | `scripts/run_lhtb_software5_pair.py`, `lhtb_dsh_harbor_agent.py`, `harbor_job_worker.py`, `lhtb_external_checkpoint.py` | one file write, process event or poll |
| `LeaseServiceProofs`, `TransactionalOutboxProofs`, `KernelActionsProofs`, `ClaimSchedulerProofs` | theorems (those about `CleanupMarkers` and `HarnessChild` are at the end of these modules) | |
| `MCKernel`, `MCLive`, `MCAgentOS` | instances for TLC | |

Definitions keep the code's names where they stand for one function. A
definition with an underscore suffix (`Schedule_SecondOwner`) is a mutant: the
definition it is named after with a plausible bug in it. It is used by no
specification; it documents which mistake its property would catch.

The comment at the head of each module says how its state and steps correspond
to the code. What follows is what a reader needs across modules.

### Kernel

`LeaseService`: the tables `leases_projection`, `resource_fencing_tokens` and
`lease_waiters`, the process states that `atomic_acquire` reads, the clock, and
what replaying the journal gives. `Acquire` is the `BEGIN IMMEDIATE` transaction
for a bundle of claims; when the bundle is busy the code runs further
transactions after the lock is released (clear own wait edges, add new ones),
which are separate actions so that others interleave and a crash falls between
them. `FenceValid` is `validate_fencing_contract`.

`KernelActions`: several kernels share a database and one asyncio loop, the
topology of the repository's concurrent-recovery tests. `active` names the
coroutine that has the loop; it is given up only at an `await` on a driver.
Inside, each transaction is a step, so a crash can fall between journalling
(`rep`) and projecting (`pend`, then `acb`). Submission with its compensation,
cancelling, the recovery loop, the dispatch loop, the one permitted retry, fenced
commits, lease release and signals are actions; the driver may answer anything,
including "still running" and an exception.

`DeadlockRecovery`: the iterative depth-first search over a snapshot of the
wait-for graph, then the loop that picks and fails a victim per cycle, each victim
changing the graph that the rest of the list was computed from. Init takes every
wait-for graph without self-loops. A failed `atomic_acquire` leaves one edge, to
the first busy resource, so each waiter gets a resource of its own that the
processes it waits for hold in shared mode.

`ProcessSignals`: spawning, `READY -> RUNNING`, the awaited program step, the
requests that block, yield, signal, fail or exit, delivery to waiting processes
with its separate transactions, a process failed from outside (`set_failed`),
crash and rebuild.

`TransactionalOutbox`: rows by idempotency key, claims with token and expiry,
attempts, dead letters, `dispatch_ready`'s drain with its clock that lags,
deferral of failing records, and workers that die. Times are relative to the
present. `AtLeastOnceDelivery` says only this: an intent is accepted once under a
key, shows at the destination with the accepted payload any number of times, and
is delivered only after it has shown. `ImplementsDelivery` is the abstract
specification under the mapping intent = payload, outcome = status.

### Scheduler

`ClaimScheduler`: four authorities move independently: the scheduler's memory
(`claims`, `keys`, `reserved`), its durable snapshot (`disk`, `handoff`), the
kernel (`leases`, `inc`, `dead`) and the graph (`version`, `validity`,
`stale_at`, `evidence`). Every public method holds `_schedule_lock`, so `op`
describes the one operation under way; between two of its steps the kernel, the
graph or a crash may come.

| Actions | Code |
|---|---|
| `Schedule`, `Propose`, `AcquireLease`, `RefuseLease`, `Activate`, `UndoActivation`, `MarkKey` | `_schedule_once_locked`, `_acquire_claim`, `try_acquire_lease` |
| `Start`, `Succeed`, `MarkStale`, `Complete`, `ReleaseTask`, `FreeLease`, `RecordEnd`, `ClearKeys` | executor callbacks, `observe_vpg`, `release_task`, `ClaimManager` |
| `ReconcileClaim`, `EndReconcile`, `Settle` | `reconciliation.reconcile`, `_reconcile_locked` |
| `ReplaceProcess`, `RetireClaim`, `RecordRetired` | `AgentOS.add_agent`, `retire_agent_process` |
| `PrepareHandoff`, `CommitHandoff`, `SettleHandoff`, `ReleaseSource`, `Reassign`, `Admit`, `RecordReassigned`, `CloseHandoff`, `RecoverHandoff` | `prepare_handoff`, `commit_handoff`, `handoff_task`, `recover_handoff` |
| `CrashRestart` | `MultiAgentScheduler.__init__` on the stored snapshot |
| `LeaseExpires`, `KernelReclaims`, `ProcessDies`, `GraphVerifies`, `GraphInvalidates`, `GraphMoves` | what kernel and graph do meanwhile |

An attempt is created and ended with its claim, so it is a field of the claim.
Which eligible agent the matcher prefers is left open (any eligible one), and
every task asks for one resource unit. That the snapshot is written whole or not
at all is what `DurableState` checks of the store; that workers end claims only
through the success fence is `WorkerPool`; leftovers of a failed compensation are
`CleanupMarkers`.

### Graph, SDK and services

`GraphStore` is about how a commit becomes atomic (several reads, one
transaction, a projection cache, recovery, compaction and migration, rows edited
behind the store's back); `VerifiedProgress` takes commits as atomic and is about
what they derive, with the pure invalidation engine checked against it.
`AgentRun` sees scheduler, pool and graph commit as the one step each is to the
loop. `OnlineEpochs` and `ControlLoop` plan on an observation that other writers
outdate before its actions run. `ArtifactStore`, `ExecutionProvenance` and
`NodeRuntime` keep what a journal replay or a later process would find beside
what is there now. The policies are operators; a run applies them to enumerated
inputs, half of the input chosen in the initial state and half in one step.

### Harness and benchmark

`HarnessChild` has the watchdog, PREEMPT and `close()` race for one child;
`DshTrace` recovers usage from a log with torn and repeated rows; `HarborAgent`,
`StopLoss`, `PairRunner`, `HarborJob`, `PairOutputs` and `CheckpointCapture` have
processes that die between any two file writes and controllers that read what
they left.

## Runs

A run composes components that share no state: `part` says which one a behaviour
is about, and its variables live in the slots of the MC module (`s1`, `s2`, ...).
So each run explores the union of its parts' state graphs, not their product.

| Run | Parts and instance | Shows |
|---|---|---|
| `kernel` | leases: 2 processes, 1 resource, 3 leases, clock to 2; outbox: 1 key offered with 2 payloads, 2 workers, 1 death | the inductive invariants of the proofs (exclusivity, fencing per ownership epoch, exact replay; exclusive claims, one mutation, dead letters only when exhausted), lost authority stays lost, at-least-once delivery as a refinement |
| `actions` | 2 actions competing for 1 resource, 2 kernels, a crash | at most one dispatch and one retry, one truthful signal, terminal is final, commits under the newest lease, a running action keeps its lease |
| `scheduler` | 1 task, 2 agents, 2 claims, graph versions 0..2, a fault and a crash | one owner, no orphan lease, restored claims fit, completion by own evidence, truthful handoff records, a lease goes only with its claim, ended is final |
| `live` | 1 action of every class and policy with 2 kernels and 2 crashes; every wait-for graph on 4 processes; a good and a poisoned key; 2 processes with 2 kernels and a signal, no crash | under fairness: admitted actions settle, reported cycles are exactly the deadlocks and are resolved, good intents are delivered, waiters with a matching signal wake while other processes keep `run_until_idle` ticking |
| `graph` | 2 clients on one database with faults; 3 tasks with one artifact | history grows by whole patches and is not rewritten, the rows follow it; derivation, invalidation engine and frontier agree; work is offered while a proof is missing |
| `runtime` | worker pool, cleanup markers, two instances of the run loop and of online epochs, control loop, supervisor, watcher, two instances of processes and signals | nothing is committed, ended or controlled on an authority that is gone; capacity, budgets, claims and changes stay accounted for |
| `services` | artifact store with and without mounts, context, provenance journal, two workspaces, reconciliation with and without drift, harness control, durable scheduler state, node runtime | what is current is readable and rebuilt by replay; contexts are what manifest and budget say; acknowledged events and applied effects are on record; a retried call takes effect once; commits act on the present; two scheduler processes never overwrite each other; attempts of the single-run runtime stay accounted for |
| `policies` | interrupt plans, rebase plans, admission, routing, guard, incremental analysis, continuation loop | plans are admissible and rankings total, the incremental analysis is exact, what is unknown is not taken for granted, sessions are restarted only for a named reason |
| `harness` | harness child, trace, adapter, usage, checkpoint capture, pair runner with one and with many pairs, Harbor agent, stop-loss, job, outputs | processes and usage are accounted for, costs counted once, comparisons compare like with like, what is settled stays so |
| `stranded` (violation) | 2 tasks of 1 agent whose process dies, a crash | a crash between the writes of one reconciliation strands a task |
| `lost_wakeup` (violation) | 2 processes, 1 kernel, a crash, fair | a crash between consuming a signal and waking its target loses the wakeup |
| `revived` (violation) | 1 process failed while its step is awaited | the row read before the step is written back over FAILED |

Bounds. The races the properties are about are between one operation and one
interference (another kernel, a second worker, the owner of a lease and its
successor), which two actors show. Two claims or signals give the successor;
three lease ids and claim tokens give a third epoch; three tasks give a chain and
a fork. This is an argument, not a proof; where it was replaced by one, see
Proofs. Fault budgets count how often something fails, not when: the fault may
hit any step. In `scheduler` one fault and one crash together cover a failing
write followed by a restart; graph versions up to 2 are needed for a task to be
verified and then invalidated. Two tasks (6.5 million states) and two faults
(8 million) were also explored, and the deadlock search with `MaxExtra = 1` (1.1
million), without finding a violation; they take longer than the runs kept here.
The constants of each part in `MCAgentOS` are given where it is instantiated.
`CHECK_DEADLOCK FALSE` is set where behaviours end: bounded claims and versions of
the scheduler, runs and commands that return, inputs applied once. `actions`,
`kernel` and `live` check deadlock.

Symmetry is used for processes, actions, workers, agents, tasks, resources, lease
ids and claim tokens in runs that check safety only: no action orders or names
them. Liveness runs use none.

Fairness (only in `live` and `lost_wakeup`). `KernelActions` and
`ProcessSignals`: a coroutine that has the loop goes on (weak), and each kernel
gets the loop again and again while others also want it (strong, asyncio's FIFO
ready queue). In `KernelActions` that includes ticks: `run_until_idle` ticks while
an action is not terminal. In `ProcessSignals` a tick is promised only while some
process is ready (`RunUntilIdle`), because `run_until_idle` returns otherwise
(`kernel.py:1319`); so `WaitersAreWoken` carries the hypothesis that something is
ready again and again (`[]<>Busy`), and says nothing of a system that has come to
rest. A driver asked again and again does not answer "running" for ever: this is an assumption
on drivers, the code puts no limit on it. A call under way goes on; that anybody
calls is not assumed. `TransactionalOutbox`: workers keep draining, time passes, a
worker that again and again owns a good record gets to publish and acknowledge it
in time (a claim time longer than a publish), and a failing publisher raises in
time. The last two are assumptions on publishers. `DeadlockRecovery`: one
coroutine, ticked again (weak).

## Proofs

For every value of the constants that satisfies the named assumptions.

**`LeaseServiceProofs`** (assumption `LeaseConstants`: the times and bounds are
natural numbers). `LeaseInvariant` is inductive: the type invariant with
`Exclusive`, `CohortCurrent`, `EpochFencing`, `ReplayExact`,
`CleanedHoldsNothing`, and the facts that make them so: lease ids are unique and
no journalled token exceeds `last_token`, every row was journalled, cleaned
processes are terminal. `EpochFencing` needs them: a fresh token differs from all
earlier ones only because none of those exceeds the durable counter, also after
`Rebuild`. The case that takes work is `Acquire`, through lemmas on `TokenFor` and
`NewLeases`; the others remove rows (`ShrinkInv`), move an expiry (`RenewInv`),
replay the journal or leave the leases alone. `LeaseNoRevival` is an action
property: by `AuthorityPreserved`, an authority valid after a step was valid
before.

**`TransactionalOutboxProofs`** (assumption `OutboxConstants`: the same, the null
values are no members, the claim time and the drain limit are positive, keys are
finitely many and `MaxAge` leaves room to tell their ages apart). `OutboxInvariant`
adds to the listed properties that a publishing worker carries its row's payload
and, while it holds the row's token, its attempts; that no two workers hold one
token; and that a key without a row has had no effect. A stale worker is the hard
case: it may publish and then find its `UPDATE ... WHERE claim_token` matching
nothing. Each action has a lemma; `QuietInv` serves the ones that touch no row.
`OutboxImplementsDelivery` shows that the outbox's steps are steps of
`AtLeastOnceDelivery` or stutter under the refinement mapping; `DeliveryIsFinal`
and the others follow from the invariant.

**`KernelActionsProofs`** (assumption `KernelConstants`). `ActionInvariant` is
about two records of each action, the journal's and the projection's, and about
what every suspended coroutine still holds: which transaction it has journalled
and not projected, with which lease and attempt it asked the driver, and what it
read before the `await`. `ActionsSafe` (`ActionsAreSafe`) and `ActionStepsFenced`
(`ActionStepsAreFenced`) follow: dispatches stay within their budget, an outcome
is final, is signalled at most once and truthfully, and a commit happens under the
newest lease, for any number of actions, kernels, resources and crashes. The
invariant is needed because none of this can be seen from the tables alone: a late
answer is refused only because its coroutine's lease and attempt are older than
the row's.

**`ClaimSchedulerProofs`** (assumption `BoundsAssumption`). `ClaimInvariant`: the
snapshot on disk is a moment the memory went through. `Sound` (at most one live
claim per task, owners have been bound, completions have evidence, every kernel
row belongs to a live claim, the source of a handoff has ended before anything
replaces it) holds of the claims in memory and of those on disk; between two saves
the memory only goes on from the snapshot (`Evolves`), so that a crash leads back
to a state the invariant allows. `ReservedInv` counts: what is reserved, and what a
restart would reserve, fits each agent, by cardinality lemmas (`FewerFit`,
`OneMoreFits`). `OpInv` is what the operation under way has established and not
yet used (the claim it acquires has no row, the claim it frees is active and, if it
completes, has evidence, the task it reassigns is free); the lock keeps other
operations away from it while kernel and graph move (`OpStays`). The steps are
sorted by what they touch: nothing but the snapshot (`QuietStep`), a reservation
(`FreeingStep`), one claim (`ClaimStep`), the handoff record (`HandoffStep`), or
the other authorities (`OutsideStep`). `ClaimsSound` is `ClaimsAreSound` and
`ClaimStepsFinal` is `ClaimStepsAreFinal`, for any tasks, agents, claims, versions,
faults and crashes.

**`CleanupMarkers`**. `Honest`, the type invariant with `CleanupIsHonest`, is
inductive as it stands: the audit closes a marker only when the claim can no longer
become active, on disk too, and the second lock region of a resolution reads the
journal again before it appends to it. `CleanupHonest` is the
invariant that run `runtime` checks, for any claims, tools and restarts.

**`HarnessChild`**. `ChildInv` adds what each suspended call knows of the child: a
poll result still held agrees with the exit that has happened since, a session that
has left `created` has had a child, a terminator past its first signal has a child
and a recorded reason, and a finished preempt has left none running. From it
`ChildAccounted` (what the adapter reports of its child is so) and the action
property `AccountMonotone` follow for any interleaving of requests, watchdog,
cancellation and the child's own exit.

Only model-checked, and why:

- liveness (`live`): fairness and `ENABLED` are out of the prover's reach;
- what recursive definitions compute (the deadlock search, the closures of the
  graph modules, the folds of the policies): induction over data is too;
- `ProcessSignals` and the components of `MCAgentOS` other than `CleanupMarkers` and
  `HarnessChild`: no inductive invariant has been proved for them. Two properties
  of signals and claims are false for the code as it stands when a crash or a
  failure from outside is allowed (`lost_wakeup`, `revived`), so that a theorem
  would need these excluded.

## Observations

Three disagreements between code and its own comments are runs (`lost_wakeup`,
`revived`, `stranded`) with the quotation in `PROJECT.json`. The code also does
the following. Each was met while modelling; the properties that are checked are
stated so that they hold with it.

Kernel and scheduler:

- a process that blocks on a signal that is already in its mailbox is woken only by
  a later tick; if nothing else is ready `run_until_idle` returns and it stays
  blocked, without any crash (`kernel.py:1319`);
- a crash between the transaction that ends an action and the signal to its
  owner leaves the owner blocked (`kernel.py:859`); a crash inside `cancel` leaves
  the journal saying cancelled and the projection saying admitted, and the next
  kernel dispatches (`action_service.py:440`);
- two cycles with the same victim make `tick()` raise `TerminalStateError`
  (`kernel.py:1250`);
- replay keeps the wait condition of a process that failed while blocked
  (`process_service.py:218`);
- an outbox record whose publisher raises after its claim expired is not deferred
  and is claimed first again in the same drain (`outbox.py:654`);
- a handoff whose TASK_REASSIGNED event cannot be written is recorded as failed
  closed although the replacement owns the task (`scheduler.py:3478`);
- a cleanup marker that was closed stays closed although the same claim leaves
  something behind again;
- a claim taken away while a worker awaits `on_success` is reported SUCCEEDED all
  the same (`worker_pool.py:1027`): the fence is read before the await, and what
  keeps its evidence out is the lease guard of the graph transaction.

Graph and SDK:

- a task goes from STALE to VERIFIED on any evidence attached since, not only on
  evidence for the versions it pins, and one that was verified without an artifact
  stays VERIFIED when it is given its first one, which no evidence covers
  (`verification.py:13` and `patch_validator.py:496` against `sdk.py:538`);
- after a direct `repair`, the later `reconcile_observation` of the same change is
  refused;
- a compensating release that raises after a dispatch failed validation in
  `schedule_online_epoch` leaves a claim active that no epoch and no marker knows
  (`os.py`, about line 7182); one that raises in `run_pass` is marked, but the call
  returns GRAPH_CHANGED with no claim in it (`os.py:7118`);
- a worker's release that raises is swallowed after a reconciliation
  (`os.py:6242`, `worker_pool.py:1473`): the claim stays active and is named only in
  the failures or repair records of the result, which an error raised out of the
  batch drops;
- after a lost answer the watcher restores its baseline; when the file then goes
  back to those bytes, every poll says unchanged while the graph keeps the version
  in between, and only `pending_changes` shows it (`watchers.py:847` says that a lost
  response cannot make the next poll report UNCHANGED);
- a task with no declared accesses that is considered first, as repair-ready tasks
  are, does get declared tasks beside it (`conflict_graph.py:379`,
  `resource_policy.py:429`), although `docs/CONFLICT-GRAPH.md:40` and
  `docs/RESOURCE-AWARE-PARALLELISM.md:47` call it serial-only, never grouped with
  another task; such a plan is not reported as safe under declared accesses;
- a streaming refill may dispatch beyond `max_dispatches`;
- a supervisor stopped while a step awaits its epoch is made failed, closed or
  exhausted by the rest of that step (`event_supervisor.py:630` calls terminal
  states monotonic), and steps that overlap all pass the check of `max_epochs`
  before one of them counts, so that the budget is exceeded by as many;
- START actions of the control loop carry no fence of the session's revision.

Services:

- a write handle to an artifact that does not exist yet leases a placeholder, so
  one opened after its creation is not excluded (`artifacts/models.py:79`);
  recovery of an interrupted commit skips the expected-version check
  (`artifacts/service.py:423`);
- a write after a delete makes an artifact current and unreadable; quotas are
  checked at staging only; `delete_namespace` names a column its table has not;
- a page id is artifact version and range, so that a required and an optional ref
  that overlap share it and evicting the optional one names it
  (`context/service.py:638`); `unpin` takes one from the shared count of a page also
  when the handle has not pinned it (`context/service.py:573`);
- recorded HTTP observations hide trusted observations of the same resource in the
  read set.

Single-run runtime, harness and benchmark:

- an attempt counted before EXECUTION_STARTED can, after a crash, exceed
  `max_attempts`; a crash between restoring a checkpoint and recording it lets the
  tool journal answer for effects that were rolled back; a READY node is not taken
  back when what it depends on goes STALE;
- descendants of a DeepSeek harness process outlive a cancelled call, whose intent
  file stays;
- an attempt that was cut by the budget or censored and left no result with token
  counts costs 0 on both sides of the comparison, whatever it burned
  (`run_lhtb_software5_pair.py:4761`; the comment at 5260 says that the accounting
  stays honest); the label of a cut attempt is lost when its results are read again;
- that an arm never started is concluded from artifacts that show no work; where
  they are missing or cannot be parsed this is no proof, and work that no file shows
  is wiped (line 3460, against 3501), as is a scored result beside an execution error
  and a log that shows no connection (line 3509);
- an invocation that ends while its container is frozen for a checkpoint has the
  whole freeze subtracted from its active time;
- a merge that fails half way blocks later merges.

## Not modelled

Every component and the reason are in `PROJECT.json`. In short: LLM agents,
verifiers, command line, benchmark reports and telemetry are I/O or reporting;
SQLite's own locking is taken as given (a transaction is atomic); several
operating-system processes running one kernel database concurrently are outside
the kernel modules (outbox, durable state, graph store and provenance journal have
them). Scores, hashes, reason texts and payload contents are left out everywhere
unless a property is about them. In the modelled parts: `renew_claim`, deferred
reservations and matching scores of the scheduler, `release_task` without a claim
id, process checkpoints and exit codes, capability grants, multi-resource actions,
the quality rule of the stop-loss monitor (off by default), and structural patches
of the single-run graph. Also left out: a second cancellation while the DeepSeek
adapter terminates a process tree; an image rebuilt while an arm of a pair runs
(images are rebuilt between commands only); a marker asked for again for the same
claim with another error text, which `record_cleanup_required` refuses with a
ValueError (a pass gives each claim back once); a restart that fails between the
claims whose reservations it restores (they are collected one by one and restored
in one call).

Components are composed by contract, not by one state space: where one module
takes another's operation as a single step (the snapshot of `ClaimScheduler`, the
commit of `AgentRun`, the kernel leases of both), the other module is what checks
that step.
