------------------------------ MODULE AgentRun ------------------------------
(***************************************************************************)
(* AgentOS.run and AgentOS.run_async (src/lhos/sdk/os.py): the loop that   *)
(* plans an epoch, lets the Scheduler claim tasks, executes and verifies   *)
(* them, commits the verified outcome and repairs an attempt whose input   *)
(* moved underneath it.                                                    *)
(*                                                                         *)
(* One input artifact is tracked, by its version x in the FactsProvider.   *)
(* Readers load it through their ContextManifest, Writers publish a new    *)
(* version of it.  The tasks of the goal do not depend on one another, so  *)
(* that they may run side by side.  A claim of another session on the same *)
(* task is "other".  The worker pool's own bookkeeping is module           *)
(* WorkerPool, the Scheduler's is ClaimScheduler, the graph commit is      *)
(* GraphStore; here each of them is the one step the loop sees.            *)
(***************************************************************************)
EXTENDS Naturals, Sequences, FiniteSets, FiniteSetsExt, SequencesExt

CONSTANTS
  Readers, Writers,    \* the goal's tasks, by what they do to the artifact
  AsyncFlags,          \* <<adaptive, streaming, preempt>> callers pass to run_async
  MaxEpochs,           \* epochs one execute_online_epochs call may run
  MaxDispatches, MaxSteps, MaxConcurrency, MaxRebases,
  MaxFact,             \* bound: versions of the artifact
  MaxFaults            \* bound: lost claims plus failed releases

VARIABLES
  mode,       \* the options of this invocation
  status,     \* "loop", "batch", or how the invocation ended
  x,          \* latest version of the artifact in FactsProvider
  claim,      \* claim[t]: "none", "ours", "other" or, if its release raised, "kept"
  job,        \* job[t]: the execution attempt of t in the current batch
  queue,      \* tasks of the current batch, in dispatch order
  repair,     \* the batch is a repair epoch
  pend,       \* pend[t]: version the planned replacement manifest pins, or 0
  regular, rebased, steps, refills,
  verified,   \* tasks with Evidence in the graph
  failures,   \* tasks with an entry in RunResult.failures
  records,    \* tasks with an entry in automatic_rebase_records
  marked,     \* claims with a durable cleanup-required marker
  fatal,      \* fatal_errors of the current batch
  epochs,     \* online epochs that are over
  faults

vars == <<mode, status, x, claim, job, queue, repair, pend, regular, rebased,
          steps, refills, verified, failures, records, marked, fatal, epochs,
          faults>>

Tasks == Readers \cup Writers

\* The options this module tells apart; epochs is 0 for a plain call.
Option(async, adaptive, streaming, preempt, n) ==
  [async |-> async, adaptive |-> adaptive, streaming |-> streaming, preempt |-> preempt,
   epochs |-> n]

\* run() has neither the pool nor refills, and nobody interrupts it.
SyncOption(adaptive) == Option(FALSE, adaptive, FALSE, FALSE, 0)

\* execute_online_epochs calls run_async at most n times, adaptive, for one step.
OnlineOption(n) == Option(TRUE, TRUE, FALSE, FALSE, n)

Modes ==
  {SyncOption(adaptive) : adaptive \in BOOLEAN} \cup
  {Option(TRUE, f[1], f[2], f[3], 0) : f \in AsyncFlags} \cup
  {OnlineOption(MaxEpochs)}

Ended == {"returned", "raised", "cancelled"}
NoJob == [ph |-> "done", st |-> "none", man |-> 0, base |-> 0, asked |-> FALSE, out |-> 0]

\* A fresh attempt: the manifest it will load, and the freshness baseline that
\* _preempt_superseded_peers compares with.
Dispatched(man) ==
  [ph |-> "queued", st |-> "dispatched", man |-> man, base |-> x, asked |-> FALSE, out |-> 0]

\* Task.context_manifest pins the first version; a planned repair overrides it.
ManifestFor(t) == IF t \notin Readers THEN 0 ELSE IF pend[t] # 0 THEN pend[t] ELSE 1

Pending == {t \in Tasks : pend[t] # 0}
InBatch == ToSet(queue)
Unfinished == {t \in InBatch : job[t].ph # "done"}

\* FactsProvider.latest of a reader's input differs from what it loaded.
Stale(t) == t \in Readers /\ job[t].man # x

\* _live_claim: exact claim, live lease and an attempt that may still commit.
LiveClaim(t) == claim[t] = "ours" /\ job[t].st \in {"dispatched", "running", "succeeded"}

\* release_task of the exact claims of ts: a replacement owner is untouched,
\* and a release may raise.  The pool and _release_after_failure swallow that
\* and write no marker; the claim stays active until its lease expires or
\* reconciliation takes it back.
Release(ts) ==
  \E bad \in SUBSET {t \in ts : claim[t] = "ours"} :
    /\ faults + Cardinality(bad) <= MaxFaults
    /\ claim' = [t \in Tasks |->
                   IF t \in bad THEN "kept"
                   ELSE IF t \in ts /\ claim[t] = "ours" THEN "none" ELSE claim[t]]
    /\ faults' = faults + Cardinality(bad)

-----------------------------------------------------------------------------
Init ==
  /\ mode \in Modes
  /\ status = "loop"
  /\ x = 1
  /\ claim = [t \in Tasks |-> "none"]
  /\ job = [t \in Tasks |-> NoJob]
  /\ queue = <<>>
  /\ repair = FALSE
  /\ pend = [t \in Tasks |-> 0]
  /\ regular = 0 /\ rebased = 0 /\ steps = 0 /\ refills = 0
  /\ verified = {} /\ failures = {} /\ records = {} /\ marked = {}
  /\ fatal = FALSE
  /\ epochs = 0
  /\ faults = 0

-----------------------------------------------------------------------------
(* The outer loop.                                                         *)

RepairDue == Pending # {} /\ rebased < MaxRebases
StepLimit == IF mode.epochs > 0 THEN 1 ELSE MaxSteps
WorkDue == regular < MaxDispatches /\ steps < StepLimit

Remaining == IF RepairDue THEN MaxRebases - rebased ELSE MaxDispatches - regular

\* How many claims this pass may acquire; the synchronous loop repairs one
\* task at a time, the asynchronous one is also bounded by its pool; mutant:
\* what was already spent is forgotten.
SyncLimit == IF RepairDue THEN 1 ELSE Remaining

AsyncLimit_PoolOnly == MaxConcurrency

AsyncLimit == Min({Remaining, MaxConcurrency})

BatchLimit == IF mode.async THEN AsyncLimit ELSE SyncLimit

\* What the pass may claim: tasks of the ready frontier nobody owns; a repair
\* epoch is scoped to the tasks whose previous attempt was quarantined.
Eligible == {t \in Tasks \ verified : claim[t] = "none"}
Allowed == IF RepairDue THEN Eligible \cap Pending ELSE Eligible

Batches(ts, n) ==
  {s \in UNION {[1 .. k -> ts] : k \in 1 .. Min({n, Cardinality(ts)})} : IsInjective(s)}

\* The policy's selection; when the Scheduler admits none of it, one serial
\* unfiltered pass.
Fallback == IF mode.adaptive /\ ~RepairDue THEN Batches(Eligible, 1) ELSE {}

\* The repairs the synchronous loop takes out of pending_rebases as it starts
\* the tasks of a repair pass.
PoppedAtStart(q) == IF ~mode.async /\ RepairDue THEN ToSet(q) ELSE {}

\* SchedulerSession.run_pass dispatches a batch.  The asynchronous loop then
\* builds one WorkerJob per claim, with its freshness baseline; the
\* synchronous loop consumes the planned repair as it starts each task.
Admit ==
  /\ status = "loop"
  /\ RepairDue \/ WorkDue
  /\ \E q \in Batches(Allowed, BatchLimit) \cup Fallback :
       /\ queue' = q
       /\ repair' = RepairDue
       /\ claim' = [t \in Tasks |-> IF t \in ToSet(q) THEN "ours" ELSE claim[t]]
       /\ job' = [t \in Tasks |->
                    IF t \in ToSet(q) THEN Dispatched(ManifestFor(t)) ELSE job[t]]
       /\ pend' = [t \in Tasks |-> IF t \in PoppedAtStart(q) THEN 0 ELSE pend[t]]
  /\ status' = "batch"
  /\ UNCHANGED <<mode, x, regular, rebased, steps, refills, verified, failures,
                 records, marked, fatal, epochs, faults>>

\* The loop condition fails, the policy selects nothing or the Scheduler
\* admits nothing: the invocation returns its result.
Return ==
  /\ status = "loop"
  /\ status' = "returned"
  /\ UNCHANGED <<mode, x, claim, job, queue, repair, pend, regular, rebased, steps,
                 refills, verified, failures, records, marked, fatal, epochs, faults>>

\* The graph moved between planning and admission: the exact claims are
\* released and the bounded loop plans again.  A repair epoch stops instead,
\* with a failure in the asynchronous loop.
PolicyStale ==
  /\ status = "loop"
  /\ mode.adaptive \/ RepairDue
  /\ \/ /\ RepairDue
        /\ status' = "returned"
        /\ failures' = IF mode.async THEN failures \cup Pending ELSE failures
        /\ UNCHANGED steps
     \/ /\ ~RepairDue /\ WorkDue
        /\ steps' = steps + 1
        /\ UNCHANGED <<status, failures>>
  /\ UNCHANGED <<mode, x, claim, job, queue, repair, pend, regular, rebased,
                 refills, verified, records, marked, fatal, epochs, faults>>

\* The graph moved after the pass had claimed t, or observing it failed, and
\* releasing t's claim raised: run_pass leaves a durable marker.  A pass that
\* failed raises, and so does the loop when the policy's own pass was stale; a
\* repair pass stops with a failure, and a stale fallback pass is taken for
\* one that dispatched nothing.
PassCleanupFailed(t) ==
  /\ status = "loop"
  /\ RepairDue \/ WorkDue
  /\ t \in Allowed /\ faults < MaxFaults
  /\ claim' = [claim EXCEPT ![t] = "kept"]
  /\ marked' = marked \cup {t}
  /\ faults' = faults + 1
  /\ \/ status' = "raised" /\ UNCHANGED failures
     \/ /\ mode.adaptive \/ RepairDue
        /\ status' = "returned"
        /\ failures' = IF RepairDue /\ mode.async THEN failures \cup Pending ELSE failures
  /\ UNCHANGED <<mode, x, job, queue, repair, pend, regular, rebased, steps,
                 refills, verified, records, fatal, epochs>>

\* The synchronous loop finds an asynchronous executor, or the declared
\* budget does not cover a dispatched task: every dispatch of the pass is
\* released and the error is raised.
RejectBatch ==
  /\ status = "batch"
  /\ \A t \in InBatch : job[t].ph = "queued"
  /\ ~mode.async \/ mode.adaptive
  /\ Release(InBatch)
  /\ status' = "raised"
  /\ UNCHANGED <<mode, x, job, queue, repair, pend, regular, rebased, steps,
                 refills, verified, failures, records, marked, fatal, epochs>>

-----------------------------------------------------------------------------
(* One attempt.  The synchronous loop runs the head of the queue only.  A  *)
(* commit holds the semantic commit lock and never awaits, so no other     *)
(* attempt of this invocation moves while one is staged.                   *)

MayStep(t) ==
  /\ status = "batch"
  /\ t \in Unfinished
  /\ ~mode.async =>
       \A i \in DOMAIN queue : queue[i] = t => \A j \in 1 .. i - 1 : job[queue[j]].ph = "done"
  /\ \A u \in Unfinished \ {t} : job[u].ph # "staged"

\* The attempt is over and gives up its exact claim; the pool's callbacks
\* also report the failure, the synchronous path only releases.
GiveUp(t, st) ==
  /\ job' = [job EXCEPT ![t].ph = "done", ![t].st = st]
  /\ Release({t})
  /\ failures' = IF mode.async THEN failures \cup {t} ELSE failures

\* The lifecycle fence of the batch lets only a live expected claim advance.
Advance(t, ph, st) ==
  /\ LiveClaim(t)
  /\ job' = [job EXCEPT ![t].ph = ph, ![t].st = st]
  /\ UNCHANGED <<claim, failures, faults>>

\* RUNNING, then the Context VM snapshot is loaded and bound to the attempt;
\* a lost claim, a missing agent or a failed binding ends the attempt.
Start(t) ==
  /\ MayStep(t) /\ job[t].ph = "queued"
  /\ \/ Advance(t, "running", "running")
     \/ GiveUp(t, "ended")
  /\ UNCHANGED <<mode, status, x, queue, repair, pend, regular, rebased, steps,
                 refills, verified, records, marked, fatal, epochs>>

\* The executor's outcome, which neither path looks into.
ExecutorReturns(t) == Advance(t, "succeeded", "succeeded")

\* The executor returned and operational success is recorded, or it failed.
Execute(t) ==
  /\ MayStep(t) /\ job[t].ph = "running"
  /\ \/ ExecutorReturns(t)
     \/ GiveUp(t, "ended")
  /\ UNCHANGED <<mode, status, x, queue, repair, pend, regular, rebased, steps,
                 refills, verified, records, marked, fatal, epochs>>

\* How an attempt without a passing outcome ends: a verifier that raises under
\* a requested interrupt is quarantined, not retried.
Unverified(t) == IF mode.async /\ job[t].asked /\ claim[t] = "ours" THEN "stale" ELSE "ended"

\* The verifier passes, with the version a writer produced, or it fails.
Verify(t) ==
  /\ MayStep(t) /\ job[t].ph = "succeeded"
  /\ \/ /\ job' = [job EXCEPT ![t].ph = "checked",
                              ![t].out = IF t \in Writers THEN x + 1 ELSE 0]
        /\ UNCHANGED <<claim, failures, faults>>
     \/ GiveUp(t, Unverified(t))
  /\ UNCHANGED <<mode, status, x, queue, repair, pend, regular, rebased, steps,
                 refills, verified, records, marked, fatal, epochs>>

\* plan_automatic_rebase refreshes the manifest when the facts moved past it;
\* what is planned is kept only while the repair budget allows.
Refreshable(t) == Stale(t)

RepairBudgetLeft ==
  rebased + (IF ~mode.async /\ repair THEN 1 ELSE 0) + Cardinality(Pending) < MaxRebases

PlanRepair(t) ==
  /\ records' = records \cup {t}
  /\ IF Refreshable(t) /\ RepairBudgetLeft
     THEN pend' = [pend EXCEPT ![t] = x] /\ UNCHANGED failures
     ELSE failures' = failures \cup {t} /\ UNCHANGED pend

\* _quarantine_stale_cognition: mark STALE_COGNITION, release the exact claim.
Quarantine(t) ==
  /\ job' = [job EXCEPT ![t].ph = "done", ![t].st = "stale"]
  /\ Release({t})

\* A cooperative interrupt was requested, possibly while the verifier ran.
InterruptRequested(t) == mode.async /\ job[t].asked

\* _ClaimFenceLost: only this exact claim is released.
FenceLost(t) == ~LiveClaim(t) /\ GiveUp(t, job[t].st)

\* The commit fences in their order: an interrupt that arrived while the
\* verifier ran, the live claim, the read guards, a verifier outcome older
\* than the latest fact.  Only then is the output fact published.
Stage(t) ==
  /\ MayStep(t) /\ job[t].ph = "checked"
  /\ \/ /\ InterruptRequested(t) /\ claim[t] = "ours"
        /\ Quarantine(t)
        /\ failures' = failures \cup {t}
        /\ UNCHANGED <<x, pend, records>>
     \/ /\ FenceLost(t)
        /\ UNCHANGED <<x, pend, records>>
     \/ /\ ~InterruptRequested(t) /\ LiveClaim(t) /\ Stale(t)
        /\ Quarantine(t)
        /\ PlanRepair(t)
        /\ UNCHANGED x
     \/ /\ ~InterruptRequested(t) /\ LiveClaim(t) /\ ~Stale(t)
        /\ t \in Writers /\ x > job[t].out
        /\ GiveUp(t, "ended")
        /\ UNCHANGED <<x, pend, records>>
     \/ /\ ~InterruptRequested(t) /\ LiveClaim(t) /\ ~Stale(t)
        /\ t \in Writers => x <= job[t].out
        /\ job' = [job EXCEPT ![t].ph = "staged"]
        /\ x' = Max({x, job[t].out})
        /\ UNCHANGED <<claim, pend, failures, records, faults>>
  /\ UNCHANGED <<mode, status, queue, repair, regular, rebased, steps, refills,
                 verified, marked, fatal, epochs>>

\* _preempt_superseded_peers: running peers whose declared input is newer
\* than at their dispatch receive a cooperative interrupt.
Superseded(t) ==
  IF mode.preempt
  THEN {u \in (Unfinished \ {t}) \cap Readers :
          /\ job[u].ph \in {"running", "succeeded", "checked"}
          /\ job[u].base < x
          /\ claim[u] = "ours"}
  ELSE {}

\* GraphStore repeats the read guards inside its writer transaction; mutant:
\* the preflight check is taken to be enough.
TxGuardHolds_Preflight(t) == TRUE

TxGuardHolds(t) == ~Stale(t)

\* The graph accepted the patch; observe_vpg completes the claim, and peers
\* whose input it superseded are interrupted.
Complete(t) ==
  /\ verified' = verified \cup {t}
  /\ claim' = [claim EXCEPT ![t] = "none"]
  /\ job' = [u \in Tasks |->
               IF u = t THEN [job[t] EXCEPT !.ph = "done", !.st = "ended"]
               ELSE IF u \in Superseded(t) THEN [job[u] EXCEPT !.asked = TRUE]
               ELSE job[u]]

\* _attach_evidence: the fences again, the guarded patch, and observe_vpg,
\* which completes the claim.
Attach(t) ==
  /\ MayStep(t) /\ job[t].ph = "staged"
  /\ \/ /\ FenceLost(t)
        /\ UNCHANGED <<pend, verified, records>>
     \/ /\ LiveClaim(t) /\ ~TxGuardHolds(t)
        /\ Quarantine(t)
        /\ PlanRepair(t)
        /\ UNCHANGED verified
     \/ /\ LiveClaim(t) /\ TxGuardHolds(t)
        /\ Complete(t)
        /\ UNCHANGED <<pend, failures, records, faults>>
  /\ UNCHANGED <<mode, status, x, queue, repair, regular, rebased, steps, refills,
                 marked, fatal, epochs>>

\* Attaching Evidence raised something else than a lost fence or a stale read:
\* the attempt is released, the asynchronous loop remembers a fatal error and
\* finishes its batch, the synchronous call raises VerificationError at once.
AttachRaises(t) ==
  /\ MayStep(t) /\ job[t].ph = "staged" /\ LiveClaim(t)
  /\ GiveUp(t, "ended")
  /\ fatal' = mode.async
  /\ status' = IF mode.async THEN status ELSE "raised"
  /\ UNCHANGED <<mode, x, queue, repair, pend, regular, rebased, steps, refills,
                 verified, records, marked, epochs>>

\* A ConfigurationError of the synchronous path also releases the tail.
ConfigurationRaises(t) ==
  /\ ~mode.async
  /\ MayStep(t) /\ job[t].ph \in {"queued", "running", "succeeded"}
  /\ job' = [job EXCEPT ![t].ph = "done", ![t].st = "ended"]
  /\ Release(InBatch)
  /\ status' = "raised"
  /\ UNCHANGED <<mode, x, queue, repair, pend, regular, rebased, steps, refills,
                 verified, failures, records, marked, fatal, epochs>>

\* A routed provider's own error is raised after releasing this claim alone.
ProviderRaises(t) ==
  /\ ~mode.async /\ mode.adaptive
  /\ MayStep(t) /\ job[t].ph \in {"queued", "running"}
  /\ GiveUp(t, "ended")
  /\ status' = "raised"
  /\ UNCHANGED <<mode, x, queue, repair, pend, regular, rebased, steps, refills,
                 verified, records, marked, fatal, epochs>>

-----------------------------------------------------------------------------
(* The batch as a whole.                                                   *)

\* _try_refill: a completed outcome of a streaming batch may admit one more
\* ready task into the running pool.
RefillBudgetLeft == regular + refills < MaxDispatches

MayRefill(t) ==
  /\ status = "batch" /\ mode.async /\ mode.adaptive /\ mode.streaming /\ ~repair
  /\ \E u \in InBatch : job[u].ph = "done"
  /\ \A u \in Unfinished : job[u].ph # "staged"
  /\ RefillBudgetLeft
  /\ Cardinality(Unfinished) < MaxConcurrency
  /\ t \in Eligible \ Unfinished

Refill(t) ==
  /\ MayRefill(t)
  /\ claim' = [claim EXCEPT ![t] = "ours"]
  /\ job' = [job EXCEPT ![t] = Dispatched(ManifestFor(t))]
  /\ queue' = Append(queue, t)
  /\ refills' = refills + 1
  /\ UNCHANGED <<mode, status, x, repair, pend, regular, rebased, steps, verified,
                 failures, records, marked, fatal, epochs, faults>>

\* The pass of a refill could not give back what it had claimed.
RefillCleanupFailed(t) ==
  /\ MayRefill(t) /\ faults < MaxFaults
  /\ claim' = [claim EXCEPT ![t] = "kept"]
  /\ marked' = marked \cup {t}
  /\ faults' = faults + 1
  /\ UNCHANGED <<mode, status, x, job, queue, repair, pend, regular, rebased, steps,
                 refills, verified, failures, records, fatal, epochs>>

\* The repairs a finished batch takes out of pending_rebases: the asynchronous
\* loop pops every job of a repair batch after it ran.
Consumed == IF mode.async /\ repair THEN InBatch ELSE {}

\* All jobs are over: count them, take the repaired tasks out of
\* pending_rebases, and surface a fatal error.
FinishBatch ==
  /\ status = "batch" /\ Unfinished = {}
  /\ rebased' = IF repair THEN rebased + Len(queue) ELSE rebased
  /\ regular' = IF repair THEN regular ELSE regular + Len(queue)
  /\ refills' = IF mode.async THEN refills + Len(queue) ELSE refills
  /\ pend' = [t \in Tasks |-> IF t \in Consumed THEN 0 ELSE pend[t]]
  /\ steps' = steps + 1
  /\ queue' = <<>>
  /\ repair' = FALSE
  /\ fatal' = FALSE
  /\ job' = [t \in Tasks |-> NoJob]
  /\ status' = IF fatal THEN "raised" ELSE "loop"
  /\ UNCHANGED <<mode, x, claim, verified, failures, records, marked, epochs, faults>>

\* The jobs whose exact claim a cancelled batch gives up: all it ever started,
\* refills included; mutant: only the ones whose callback was started.
CancelScope_Started == {t \in InBatch : job[t].ph # "queued"}

CancelScope == InBatch

\* CancelledError: every claim of the batch is released, also one whose
\* release had raised before; one whose release fails here gets a durable
\* cleanup marker.
Cancel(bad) ==
  /\ status = "batch" /\ mode.async
  /\ bad \in SUBSET {t \in CancelScope : claim[t] \in {"ours", "kept"}}
  /\ faults + Cardinality(bad) <= MaxFaults
  /\ claim' = [t \in Tasks |->
                 IF t \in bad THEN "kept"
                 ELSE IF t \in CancelScope /\ claim[t] # "other" THEN "none"
                 ELSE claim[t]]
  /\ marked' = marked \cup bad
  /\ faults' = faults + Cardinality(bad)
  /\ status' = "cancelled"
  /\ UNCHANGED <<mode, x, job, queue, repair, pend, regular, rebased, steps,
                 refills, verified, failures, records, fatal, epochs>>

-----------------------------------------------------------------------------
(* execute_online_epochs.                                                  *)

\* Why the loop over epochs stops after one that returned, in the order the
\* reasons are looked at.
StopReason ==
  IF verified = Tasks THEN "goal_closed"
  ELSE IF failures # {} THEN "epoch_failed"
  ELSE IF regular = 0 THEN "no_dispatch"
  ELSE IF epochs + 1 >= mode.epochs THEN "max_epochs" ELSE "none"

\* The next epoch is a new invocation: fresh budgets, no planned repairs.
NextEpoch ==
  /\ status = "returned" /\ mode.epochs > 0 /\ StopReason = "none"
  /\ status' = "loop"
  /\ epochs' = epochs + 1
  /\ pend' = [t \in Tasks |-> 0]
  /\ regular' = 0 /\ rebased' = 0 /\ steps' = 0 /\ refills' = 0
  /\ UNCHANGED <<mode, x, claim, job, queue, repair, verified, failures, records, marked,
                 fatal, faults>>

-----------------------------------------------------------------------------
(* Everyone else.                                                          *)

\* Another writer of FactsProvider publishes a version of the artifact.
Edit ==
  /\ x < MaxFact /\ status \notin Ended
  /\ x' = x + 1
  /\ UNCHANGED <<mode, status, claim, job, queue, repair, pend, regular, rebased,
                 steps, refills, verified, failures, records, marked, fatal, epochs, faults>>

\* The lease of a claim expires and another session takes the task over.
LoseClaim(t) ==
  /\ claim[t] = "ours" /\ status = "batch" /\ faults < MaxFaults
  /\ claim' = [claim EXCEPT ![t] = "other"]
  /\ job' = [job EXCEPT ![t].st = "ended"]
  /\ faults' = faults + 1
  /\ UNCHANGED <<mode, status, x, queue, repair, pend, regular, rebased, steps,
                 refills, verified, failures, records, marked, fatal, epochs>>

\* Another session gives the task up; the lease of a kept claim expires or
\* reconciliation takes it back.
OtherGivesUp(t) ==
  /\ claim[t] \in {"other", "kept"}
  /\ claim' = [claim EXCEPT ![t] = "none"]
  /\ UNCHANGED <<mode, status, x, job, queue, repair, pend, regular, rebased, steps,
                 refills, verified, failures, records, marked, fatal, epochs, faults>>

\* The invocation is over.
Over == status \in Ended /\ UNCHANGED vars

Next ==
  \/ Admit \/ Return \/ PolicyStale \/ RejectBatch \/ FinishBatch \/ NextEpoch \/ Edit \/ Over
  \/ \E t \in Tasks :
       \/ PassCleanupFailed(t) \/ Start(t) \/ Execute(t) \/ Verify(t) \/ Stage(t)
       \/ Attach(t) \/ AttachRaises(t) \/ ConfigurationRaises(t) \/ ProviderRaises(t)
       \/ Refill(t) \/ RefillCleanupFailed(t) \/ LoseClaim(t) \/ OtherGivesUp(t)
  \/ \E bad \in SUBSET Tasks : Cancel(bad)

Spec == Init /\ [][Next]_vars

-----------------------------------------------------------------------------
\* Evidence enters the graph only from an attempt that still owns its claim
\* and whose input is, in that very step, the latest version: the preflight
\* check alone is not enough, because another writer may publish between it
\* and the graph transaction (_commit_verified_outcome, _validate_read_guards).
EvidenceIsFresh ==
  \A t \in verified' \ verified :
    LiveClaim(t) /\ (t \in Readers => job[t].man = x)

\* However an asynchronous invocation ends, with a result, an error or a
\* cancellation, no claim of it is active unless releasing that very claim
\* raised (run_async's release paths).  Of the claims kept in this way, one
\* that run_pass or the cancellation failed to release has a durable cleanup
\* marker, and one that a worker failed to release is named in the failures
\* or the repair records of a returned result.  An error raised out of the
\* batch drops that list.  A marker is taken to be written when it is tried;
\* CleanupMarkers has the writes that fail.
AsyncLeavesNothing ==
  status \in Ended /\ mode.async =>
    /\ \A t \in Tasks : claim[t] # "ours"
    /\ \A t \in Tasks :
         claim[t] = "kept" =>
           /\ status = "returned" => t \in marked \cup failures \cup records
           /\ status = "cancelled" /\ t \in InBatch => t \in marked

\* Neither budget is exceeded by what a non-streaming invocation claims.
WithinBudget ==
  /\ ~mode.streaming =>
       regular + (IF repair THEN 0 ELSE Len(queue)) <= MaxDispatches
  /\ rebased + (IF repair THEN Len(queue) ELSE 0) <= MaxRebases

=============================================================================
