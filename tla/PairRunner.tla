----------------------------- MODULE PairRunner -----------------------------
(***************************************************************************)
(* The controller of paired benchmark runs (run_lhtb_software5_pair.py):   *)
(* run_pairs admits task pairs onto a Docker host of bounded CPU and       *)
(* memory, a thread per pair runs its two arms one after the other, each   *)
(* arm is retried after an infrastructure interruption, a censored answer  *)
(* or an attempt that never reached the model, and every settled arm is    *)
(* one record on disk that a later invocation reuses.  The invocation may  *)
(* be killed between any two steps; containers outlive it.                 *)
(*                                                                         *)
(* A Harbor job directory is the sequence of its trials.  What a trial did *)
(* and what its files say are two things: the agent writes observability   *)
(* when an invocation ends, Harbor the result when the trial ends, and     *)
(* either can be missing, torn or empty although the model worked.  One    *)
(* unit of cost stands for the tokens of one trial.                        *)
(***************************************************************************)
EXTENDS Integers, Sequences, FiniteSets, SequencesExt, FiniteSetsExt

CONSTANTS
    Order,      \* the tasks, shortest configured worker timeout first
    Priority,   \* a task's priority, whose parity orders its arms
    Requires,   \* a task's peak footprint: [known, cpus, memory]
    Cpus, Memory, MaxWorkers,
    Shadows,    \* the tasks whose container names contain a task's name
    Flaky,      \* the tasks whose image may be found missing or changed
    Modes,      \* values of resource_aware_pairs
    Kinds,      \* the kinds of trials that occur, some of Trials
    Outcomes,   \* how the attempts of <<task, arm>> may come back by themselves:
                \* [end, trial]
    MaxInfrastructureRetries, MaxCensorshipRetries, MaxConnectionRetries,
    MaxCrashes, MaxFaults

VARIABLES
    mode,       \* is the run resource aware?
    runner,     \* "down", "running" or "finished"
    queue,      \* pending: admitted tasks not started yet
    work,       \* running: task -> where its thread is
    record,     \* durable: <<task, arm>> -> {} or {arm record}
    job,        \* durable: <<task, arm>> -> trials of its job directory
    live,       \* the <<task, arm>> whose containers exist
    crashes, faults,
    burned,     \* ghost: what the arm's trials burned so far
    unread,     \* ghost: how much of it no result told
    cut         \* ghost: the arms a dead invocation was working on

vars == <<mode, runner, queue, work, record, job, live, crashes, faults,
          burned, unread, cut>>

Tasks == Range(Order)

ARMS == <<"dsh_fresh", "lhos_resume">>

Slots == Tasks \X Range(ARMS)

\* Odd priorities run the fresh arm first, even ones the LHOS arm.
ArmOrder(t) == IF Priority[t] % 2 = 1 THEN ARMS ELSE Reverse(ARMS)

-----------------------------------------------------------------------------
(* Admission                                                               *)

\* Only a requirement that is known and larger than the host is refused.
Exceeds(t) ==
    /\ Requires[t].known
    /\ Requires[t].cpus > Cpus \/ Requires[t].memory > Memory

Rejected == IF mode THEN {t \in Tasks : Exceeds(t)} ELSE {}

Used(field, S) == MapThenSumSet(LAMBDA t : Requires[t][field], S)

Backfill_Unsized(running, chosen, t) ==
    IF Requires[t].known /\ Cardinality(running \cup chosen) < MaxWorkers
    THEN chosen \cup {t} ELSE chosen

\* One more known task of the queue, if the host has room for it.
Backfill(running, chosen, t) ==
    IF /\ Requires[t].known
       /\ Cardinality(running \cup chosen) < MaxWorkers
       /\ Used("cpus", running \cup chosen \cup {t}) <= Cpus
       /\ Used("memory", running \cup chosen \cup {t}) <= Memory
    THEN chosen \cup {t} ELSE chosen

\* _select_work_conserving_admissions: an unknown footprint runs alone, and
\* once it heads the queue nothing overtakes it.
Admissions(pending, running) ==
    CASE pending = <<>> \/ Cardinality(running) >= MaxWorkers -> {}
      [] \E t \in running : ~Requires[t].known -> {}
      [] ~Requires[Head(pending)].known ->
            IF running = {} THEN {Head(pending)} ELSE {}
      [] OTHER -> FoldLeft(LAMBDA chosen, t : Backfill(running, chosen, t),
                           {}, pending)

\* The thread pool of the run that ignores resources takes tasks in order.
PoolAdmissions(pending, running) ==
    LET free == MaxWorkers - Cardinality(running)
    IN  IF free <= 0 THEN {}
        ELSE Range(SubSeq(pending, 1, Min({free, Len(pending)})))

Chosen == IF mode THEN Admissions(queue, DOMAIN work)
                  ELSE PoolAdmissions(queue, DOMAIN work)

-----------------------------------------------------------------------------
(* Trials, records and what they prove                                     *)

\* A trial: did the model work?  What does the observability file show, what
\* does _trial_metrics read in the result, does the result name a failure,
\* and does a log carry the censorship marker?  Counts of work are never
\* invented, and a result without a failure has them.
Trials ==
    {x \in [worked : BOOLEAN, obs : {"none", "zero", "work"},
            metrics : {"none", "zero", "scored", "tokens"},
            failed : BOOLEAN, censored : BOOLEAN] :
        /\ x.obs = "work" => x.worked /\ x.metrics \in {"none", "tokens"}
        /\ x.metrics = "tokens" => x.worked
        /\ x.failed => x.metrics # "none"
        /\ x.worked /\ x.metrics # "none" /\ ~x.failed => x.metrics = "tokens"}

\* _trial_metrics reads the newest trial that has a result.
Newest(trials) ==
    LET parsed == SelectSeq(trials, LAMBDA x : x.metrics # "none")
    IN  IF parsed = <<>> THEN {} ELSE {Last(parsed)}

Cost(trials) == IF \E x \in Newest(trials) : x.metrics = "tokens" THEN 1 ELSE 0

\* _job_was_censored: the marker in the log of any trial of the job.
WasCensored(trials) == \E i \in DOMAIN trials : trials[i].censored

\* _job_never_connected: observability is there and shows no agent event.
NeverConnected(trials) ==
    /\ \E i \in DOMAIN trials : trials[i].obs = "zero"
    /\ \A i \in DOMAIN trials : trials[i].obs # "work"

\* _job_had_real_work: an event, tokens or a score that can be read; what
\* cannot be read proves nothing.
HadRealWork(trials) ==
    \/ \E i \in DOMAIN trials : trials[i].obs = "work"
    \/ \E x \in Newest(trials) : x.metrics \in {"scored", "tokens"}

\* The record names a failure: a raised attempt's always does, another's
\* when its metrics do.
Failed(out, trials) == out.end = "exit" \/ \E x \in Newest(trials) : x.failed

NeverStarted_EmptyMetrics(out, trials) ==
    Failed(out, trials) /\ (out.end = "exit" \/ Cost(trials) = 0)

\* _arm_never_started: an arm that ended before the agent did any model work.
NeverStarted(out, trials) ==
    \/ out.end = "exit" /\ NeverConnected(trials)
    \/ Failed(out, trials) /\ ~HadRealWork(trials)

ArmRecord(status, cost, resampled) ==
    [status |-> status, cost |-> cost, resampled |-> resampled]

FailureRecord == ArmRecord("failed", 0, FALSE)

ControllerFailure_Overwrites(rec, S) ==
    [s \in Slots |-> IF s[1] \in S THEN {FailureRecord} ELSE rec[s]]

\* The arm failures of a task whose controller fails before or between arms.
ControllerFailure(rec, S) ==
    [s \in Slots |-> IF s[1] \in S /\ rec[s] = {} THEN {FailureRecord}
                     ELSE rec[s]]

\* The record of an attempt that is not retried: a run the monitor stopped
\* is completed, with its own outcome; a failed worker keeps no metrics.
Settled(w, trials) ==
    LET own == IF w.out.end = "exit" THEN 0 ELSE Cost(trials)
        status == IF w.out.end \in {"finished", "abort"} THEN "completed"
                  ELSE "failed"
    IN  ArmRecord(status, w.cost + own, w.retried \/ w.out.end = "infra")

-----------------------------------------------------------------------------
(* One invocation of run_pairs                                             *)

Init ==
    /\ mode \in Modes
    /\ runner = "down" /\ queue = <<>> /\ work = <<>>
    /\ record = [s \in Slots |-> {}]
    /\ job = [s \in Slots |-> <<>>]
    /\ live = {}
    /\ crashes = 0 /\ faults = 0
    /\ burned = [s \in Slots |-> 0] /\ unread = [s \in Slots |-> 0]
    /\ cut = {}

\* Where a thread starts an arm, and where it stands in one.
Thread(arms) == [arms |-> arms, attempt |-> 1, at |-> "idle", out |-> <<>>,
                 cost |-> 0, retried |-> FALSE]

\* Containers of this output's own trial directories are orphans at startup;
\* a Docker query that fails sweeps none.
Sweep(swept) == swept \in {{}, {s \in live : job[s] # <<>>}}

\* Images and footprints are checked, refused tasks get their failures, the
\* orphans are swept and the rest is queued, settled pairs included.
Start ==
    /\ runner = "down"
    /\ \E missing \in SUBSET Flaky, swept \in SUBSET live :
          /\ Sweep(swept)
          /\ runner' = "running"
          /\ LET refused == missing \cup Rejected
             IN  /\ record' = ControllerFailure(record, refused)
                 /\ queue' = SelectSeq(Order, LAMBDA t : t \notin refused)
          /\ live' = live \ swept
    /\ UNCHANGED <<mode, work, job, crashes, faults, burned, unread,
                   cut>>

\* A refill of the freed capacity.
Refill ==
    /\ runner = "running" /\ Chosen # {}
    /\ queue' = SelectSeq(queue, LAMBDA t : t \notin Chosen)
    /\ work' = [t \in DOMAIN work \cup Chosen |->
                   IF t \in Chosen THEN Thread(ArmOrder(t)) ELSE work[t]]
    /\ UNCHANGED <<mode, runner, record, job, live, crashes, faults, burned,
                   unread, cut>>

Slot(t) == <<t, Head(work[t].arms)>>

Leave(t) == [u \in DOMAIN work \ {t} |-> work[u]]

\* The next arm has a terminal record already.
SkipArm(t) ==
    /\ work[t].at = "idle" /\ work[t].arms # <<>> /\ record[Slot(t)] # {}
    /\ work' = [work EXCEPT ![t] = Thread(Tail(work[t].arms))]
    /\ UNCHANGED <<mode, runner, queue, record, job, live, crashes, faults,
                   burned, unread, cut>>

\* An attempt of the arm: Harbor starts its containers.
Launch(t) ==
    /\ work[t].at = "idle" /\ work[t].arms # <<>> /\ record[Slot(t)] = {}
    /\ work' = [work EXCEPT ![t].at = "running"]
    /\ live' = live \cup {Slot(t)}
    /\ UNCHANGED <<mode, runner, queue, record, job, crashes, faults, burned,
                   unread, cut>>

Ended(t, end, trial) ==
    /\ work' = [work EXCEPT ![t].at = "ended", ![t].out = [end |-> end]]
    /\ job' = [job EXCEPT ![Slot(t)] = Append(@, trial)]
    /\ burned' = [burned EXCEPT ![Slot(t)] = @ + IF trial.worked THEN 1 ELSE 0]
    /\ unread' = [unread EXCEPT ![Slot(t)] =
                     @ + IF trial.worked /\ trial.metrics # "tokens" THEN 1 ELSE 0]

\* The worker came back by itself: with a result, or with Harbor's failure.
Finished(t) ==
    /\ work[t].at = "running"
    /\ \E o \in Outcomes[Slot(t)] : o.trial \in Trials /\ Ended(t, o.end, o.trial)
    /\ live' = live \ {Slot(t)}
    /\ UNCHANGED <<mode, runner, queue, record, crashes, faults, cut>>

\* The worker's status file is missing, unreadable or left at "running".
Interrupted(t) ==
    /\ work[t].at = "running" /\ faults < MaxFaults
    /\ faults' = faults + 1
    /\ \E trial \in Kinds, stopped \in BOOLEAN :
          /\ ~trial.censored /\ Ended(t, "infra", trial)
          /\ live' = IF stopped THEN live \ {Slot(t)} ELSE live
    /\ UNCHANGED <<mode, runner, queue, record, crashes, cut>>

\* The containers a stop-loss removes: every one whose name contains the
\* task's, by the substring match of docker's name filter.
Killed(t) == {s \in live : s[1] \in Shadows[t] \cup {t}}

\* The monitor stopped the LHOS arm and removed its containers.
BudgetAbort(t) ==
    /\ work[t].at = "running" /\ Head(work[t].arms) = "lhos_resume"
    /\ faults < MaxFaults /\ faults' = faults + 1
    /\ \E trial \in Kinds : ~trial.censored /\ Ended(t, "abort", trial)
    /\ live' = live \ Killed(t)
    /\ UNCHANGED <<mode, runner, queue, record, crashes, cut>>

\* The retry an ended attempt is entitled to: its own kind of budget each.
\* An interrupted arm is never reconsidered under the other two.
RetryKind(t) ==
    LET w == work[t]
        trials == job[Slot(t)]
    IN  IF w.out.end = "infra"
        THEN IF w.attempt <= MaxInfrastructureRetries THEN "archive" ELSE "none"
        ELSE IF WasCensored(trials) /\ w.attempt <= MaxCensorshipRetries
        THEN "wipe"
        ELSE IF NeverStarted(w.out, trials) /\ w.attempt <= MaxConnectionRetries
        THEN "wipe"
        ELSE "none"

Abandoned_AfterWipe(w, trials) == w.cost

\* What the abandoned attempt cost is read before its directory goes.
Abandoned(w, trials) == w.cost + Cost(trials)

\* Clean up, keep the abandoned attempt's cost in the ledger and try again.
\* An interrupted attempt's directory is archived, others are wiped.
Retry(t) ==
    /\ work[t].at = "ended" /\ RetryKind(t) # "none"
    /\ work' = [work EXCEPT ![t].at = "idle", ![t].attempt = @ + 1,
                            ![t].cost = Abandoned(work[t], job[Slot(t)]),
                            ![t].retried = TRUE]
    /\ job' = [job EXCEPT ![Slot(t)] = <<>>]
    /\ live' = live \ {Slot(t)}
    /\ UNCHANGED <<mode, runner, queue, record, crashes, faults, burned, unread,
                   cut>>

\* The containers of an interrupted attempt could not be removed: the retry
\* is not authorized and the arm fails.  Its cost stays in the ledger.
RetryRefused(t) ==
    /\ work[t].at = "ended" /\ work[t].out.end = "infra"
    /\ faults < MaxFaults /\ faults' = faults + 1
    /\ record' = [record EXCEPT ![Slot(t)] = {ArmRecord("failed",
                     Abandoned(work[t], job[Slot(t)]), TRUE)}]
    /\ work' = [work EXCEPT ![t] = Thread(Tail(work[t].arms))]
    /\ UNCHANGED <<mode, runner, queue, job, live, crashes, burned, unread, cut>>

\* The last interruption too is cleaned up and archived, retry or not.
Archive(t) ==
    IF work[t].out.end = "infra"
    THEN /\ job' = [job EXCEPT ![Slot(t)] = <<>>]
         /\ live' = live \ {Slot(t)}
    ELSE UNCHANGED <<job, live>>

\* The arm is settled: its record is written and the next arm begins.
Settle(t) ==
    /\ work[t].at = "ended" /\ RetryKind(t) = "none" /\ Archive(t)
    /\ record' = [record EXCEPT ![Slot(t)] = {Settled(work[t], job[Slot(t)])}]
    /\ work' = [work EXCEPT ![t] = Thread(Tail(work[t].arms))]
    /\ UNCHANGED <<mode, runner, queue, crashes, faults, burned,
                   unread, cut>>

\* The image inspection after the last attempt raised: the thread dies and
\* the arms without a record are failed in its place.
ControllerRaises(t) ==
    /\ work[t].at = "ended" /\ RetryKind(t) = "none" /\ Archive(t)
    /\ faults < MaxFaults /\ faults' = faults + 1
    /\ record' = ControllerFailure(record, {t})
    /\ work' = Leave(t)
    /\ UNCHANGED <<mode, runner, queue, crashes, burned, unread, cut>>

\* Both arms are settled and the thread's future is done.
PairDone(t) ==
    /\ work[t].at = "idle" /\ work[t].arms = <<>>
    /\ work' = Leave(t)
    /\ UNCHANGED <<mode, runner, queue, record, job, live, crashes, faults,
                   burned, unread, cut>>

\* Nothing pending, nothing running: the invocation summarizes and ends.
Finish ==
    /\ runner = "running" /\ queue = <<>> /\ DOMAIN work = {}
    /\ runner' = "finished"
    /\ UNCHANGED <<mode, queue, work, record, job, live, crashes, faults,
                   burned, unread, cut>>

\* The runner dies.  Threads, queue and ledgers are lost; trials in flight
\* leave their directory without a result, and their containers run on.
Crash ==
    /\ runner = "running" /\ crashes < MaxCrashes
    /\ crashes' = crashes + 1
    /\ runner' = "down" /\ queue' = <<>> /\ work' = <<>>
    /\ LET busy == {t \in DOMAIN work : work[t].arms # <<>>}
           flying == {Slot(t) : t \in {u \in busy : work[u].at = "running"}}
       IN  /\ \E trial \in {x \in Kinds : x.metrics = "none"} :
                 job' = [s \in Slots |-> IF s \in flying
                                         THEN Append(job[s], trial) ELSE job[s]]
           /\ cut' = cut \cup {Slot(t) : t \in {u \in busy :
                                  work[u].at # "idle" \/ work[u].attempt > 1}}
    /\ UNCHANGED <<mode, record, live, faults, burned, unread>>

Next ==
    \/ Start \/ Refill \/ Finish \/ Crash
    \/ \E t \in DOMAIN work :
          \/ SkipArm(t) \/ Launch(t) \/ PairDone(t)
          \/ Finished(t) \/ Interrupted(t) \/ BudgetAbort(t)
          \/ Retry(t) \/ RetryRefused(t) \/ Settle(t) \/ ControllerRaises(t)

Spec == Init /\ [][Next]_vars

-----------------------------------------------------------------------------
(* Properties                                                              *)

\* No combination of running pairs exceeds the host or the pool, a pair of
\* unknown footprint runs alone, and the scheduler never raises its deadlock
\* error: with nothing running some queued task can start
\* (_run_task_batch_work_conserving).
PairsFit ==
    LET running == DOMAIN work
    IN  /\ Cardinality(running) <= MaxWorkers
        /\ mode => \/ \E t \in running : running = {t} /\ ~Requires[t].known
                   \/ /\ \A t \in running : Requires[t].known
                      /\ Used("cpus", running) <= Cpus
                      /\ Used("memory", running) <= Memory
        /\ queue # <<>> /\ running = {} => Chosen # {}

\* A completed arm's record carries what every attempt the controller made for
\* it burned, abandoned ones included, once each, unless an earlier invocation
\* died while working on the arm (controller_attempt_ledger).  What is missing
\* is exactly the work of attempts that left no result with token counts: a
\* censored or stopped attempt can be such a one.
RetriesAreCosted ==
    \A s \in Slots : \A r \in record[s] :
        r.status = "completed" /\ s \notin cut => r.cost + unread[s] = burned[s]

\* A record on disk is never rewritten or removed, and a job directory in which
\* any trial's observability shows agent events is only removed when the
\* provider censored it or moved aside after an interruption, whatever result,
\* record or stale trial lies beside it (_existing_terminal_arm_record,
\* _arm_never_started).  Work that no file shows is not protected.
SettledIsFinal ==
    \A s \in Slots :
       /\ record[s] # {} => record'[s] = record[s]
       /\ job'[s] = <<>> /\ (\E i \in DOMAIN job[s] : job[s][i].obs = "work") =>
             \/ WasCensored(job[s])
             \/ \E t \in DOMAIN work :
                   work[t].at = "ended" /\ Slot(t) = s
                       /\ work[t].out.end = "infra"

=============================================================================
