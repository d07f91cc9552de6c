----------------------------- MODULE NodeRuntime -----------------------------
(***************************************************************************)
(* The sequential runtime (runtime/controller.py, recovery.py,             *)
(* termination.py, tool_runtime.py, verification_gate.py; graph/           *)
(* readiness.py, reconciler.py, invalidation.py; the SQLite stores).       *)
(*                                                                         *)
(* A controller picks a ready subtask, leases it, snapshots the workspace, *)
(* lets the worker act on files through journalled tools, verifies the     *)
(* claim, and tells consumers when an artifact changed.  Every store call  *)
(* is one transaction; the process may die between any two of them and a   *)
(* later process resumes from the database.  What a finished attempt still *)
(* has to write is the sequence "todo", of which a crash keeps a prefix.   *)
(* Blocking edges, preconditions, resources and the contents of prompts,   *)
(* feedback and reports are left out.                                      *)
(***************************************************************************)
EXTENDS Integers, Sequences, FiniteSets, SequencesExt

CONSTANTS
    Nodes,             \* schedulable subtasks
    Artifacts,         \* artifact nodes, each backed by one workspace file
    DependsOn,         \* node -> nodes it depends on (acyclic)
    Consumes,          \* node -> artifacts it reads
    Produces,          \* node -> artifacts it writes (at most one)
    Results,           \* what a worker may answer
    MaxAttempts,       \* max_attempts of every node
    MaxCalls,          \* model calls one process may spend (budget limit)
    RestoreOnFailure, RestoreOnCrash,
    MaxCrashes

VARIABLES
    status,            \* runs.status
    state, attempts, lease,   \* columns of the nodes table
    execs,             \* rows of the executions table
    hash,              \* artifact -> content_hash of its node
    done,              \* keys of completed tool calls in the event log
    restores,          \* CHECKPOINT_RESTORED events in the log
    file,              \* artifact -> contents of its file, "none" if absent
    pc, cur, res, snap, todo, used,   \* the controller process
    seen,              \* node -> the inputs its last execution read
    crashes

db   == <<status, state, attempts, lease, execs, hash, done, restores>>
proc == <<pc, cur, res, snap, todo, used>>
vars == <<db, file, proc, seen, crashes>>

\* A worker's answer; content "" writes nothing.
Answer(st, content, events, patch) ==
    [status |-> st, content |-> content, events |-> events, patch |-> patch]

\* An environment event: artifact "id" now has the given contents ("none":
\* removed), or a constraint or fact invalidates the nodes "must".
Event(kind, id, content, must) ==
    [kind |-> kind, id |-> id, content |-> content, must |-> must]

NoAnswer == Answer("", "", <<>>, {})

Init ==
    /\ status = "pending"
    /\ state = [n \in Nodes |-> "pending"]
    /\ attempts = [n \in Nodes |-> 0]
    /\ lease = {}
    /\ execs = {}
    /\ hash = [a \in Artifacts |-> "none"]
    /\ done = {}
    /\ restores = 0
    /\ file = hash
    /\ pc = "off" /\ cur = {} /\ res = NoAnswer /\ snap = file
    /\ todo = <<>> /\ used = 0
    /\ seen = [n \in Nodes |-> file]
    /\ crashes = 0

Dependents(n) == {m \in Nodes : n \in DependsOn[m]}
Consumers(a)  == {m \in Nodes : a \in Consumes[m]}

\* NodeStateMachine._ALLOWED, for the transitions a worker's patch may ask for.
CanTransition(from, to) ==
    \/ from = "verified" /\ to \in {"stale", "invalidated"}
    \/ from = "invalidated" /\ to = "pending"

(***************************************************************************)
(* The main loop.                                                          *)
(***************************************************************************)
BudgetExhausted == used >= MaxCalls

Evaluate(n) ==
    /\ state[n] \in {"pending", "stale", "failed"}
    /\ \A d \in DependsOn[n] : state[d] = "verified"
    /\ attempts[n] < MaxAttempts
    /\ ~BudgetExhausted

Refreshed == [n \in Nodes |-> IF Evaluate(n) THEN "ready" ELSE state[n]]

\* TerminationEvaluator.evaluate: "" when the loop goes on.
Termination(st) ==
    IF \A n \in Nodes : st[n] = "verified" THEN "completed"
    ELSE IF \E n \in Nodes : st[n] \in {"ready", "running", "waiting"} THEN ""
    ELSE "failed"

Return(st) ==
    /\ status' = st
    /\ state' = Refreshed
    /\ pc' = "off"
    /\ UNCHANGED <<attempts, lease, execs, hash, done, restores, file, cur,
                   res, snap, todo, used, seen, crashes>>

FinishRun ==
    /\ pc = "loop"
    /\ Termination(Refreshed) # ""
    /\ Return(Termination(Refreshed))

PauseOnBudget ==
    /\ pc = "loop"
    /\ Termination(Refreshed) = ""
    /\ BudgetExhausted
    /\ Return("paused")

NothingReady ==
    /\ pc = "loop"
    /\ Termination(Refreshed) = ""
    /\ ~BudgetExhausted
    /\ \A n \in Nodes : Refreshed[n] # "ready"
    /\ Return(IF \E n \in Nodes : state[n] = "waiting" THEN "paused" ELSE "failed")

\* The scheduler may pick any ready node; the one worker id of this runtime
\* never finds its lease refused.
AcquireLease(n) ==
    /\ pc = "loop"
    /\ Termination(Refreshed) = ""
    /\ ~BudgetExhausted
    /\ Refreshed[n] = "ready"
    /\ state' = Refreshed
    /\ lease' = lease \cup {n}
    /\ pc' = "leased" /\ cur' = {n}
    /\ UNCHANGED <<status, attempts, execs, hash, done, restores, file, res,
                   snap, todo, used, seen, crashes>>

(***************************************************************************)
(* One attempt.                                                            *)
(***************************************************************************)
\* The workspace is snapshot; the attempt is counted in its own transaction.
CountAttempt(n) ==
    /\ pc = "leased" /\ cur = {n}
    /\ snap' = file
    /\ attempts' = [attempts EXCEPT ![n] = @ + 1]
    /\ pc' = "counted"
    /\ UNCHANGED <<status, state, lease, execs, hash, done, restores, file,
                   cur, res, todo, used, seen, crashes>>

\* attempt_number of the execution row.
AttemptNumber(n) == attempts[n]

StartExecution(n) ==
    /\ pc = "counted" /\ cur = {n}
    /\ state' = [state EXCEPT ![n] = "running"]
    /\ execs' = execs \cup {[node |-> n, attempt |-> AttemptNumber(n),
                             status |-> "running", before |-> snap]}
    /\ pc' = "running"
    /\ UNCHANGED <<status, attempts, lease, hash, done, restores, file, cur,
                   res, snap, todo, used, seen, crashes>>

\* Idempotency key: node, content and the number of restores so far.
Key(n, content) == [node |-> n, content |-> content, gen |-> restores]

Changed(events, a) == \E i \in 1 .. Len(events) :
    events[i].kind = "artifact" /\ events[i].id = a

\* The worker reads its inputs and writes its output through the journalled
\* tool (a completed call is answered from the log); the outside world then
\* changes the files its events tell of.
Work(n, r) ==
    LET writes == r.content # "" /\ Key(n, r.content) \notin done
        after  == [a \in Artifacts |->
                     IF writes /\ a \in Produces[n] THEN r.content ELSE file[a]]
    IN  /\ pc = "running" /\ cur = {n}
        /\ seen' = [seen EXCEPT ![n] = file]
        /\ file' = [a \in Artifacts |->
                      IF Changed(r.events, a)
                      THEN r.events[CHOOSE i \in 1 .. Len(r.events) :
                                      r.events[i].id = a].content
                      ELSE after[a]]
        /\ res' = r
        /\ pc' = IF writes THEN "effect" ELSE "worked"
        /\ UNCHANGED <<db, cur, snap, todo, used, crashes>>

\* TOOL_CALL_COMPLETED
ToolCompleted(n) ==
    /\ pc = "effect" /\ cur = {n}
    /\ done' = done \cup {Key(n, res.content)}
    /\ pc' = "worked"
    /\ UNCHANGED <<status, state, attempts, lease, execs, hash, restores, file,
                   cur, res, snap, todo, used, seen, crashes>>

Do(what) == [do |-> what, event |-> Event("", "", "", {}), queue |-> <<>>,
             gone |-> <<>>]

Ingest(events) ==
    [i \in 1 .. Len(events) |-> [Do("event") EXCEPT !.event = events[i]]]

Restore == IF RestoreOnFailure THEN <<Do("restore"), Do("restored")>> ELSE <<>>

Charged_ParseIsFree(n) ==
    IF res.status = "parse_failed" THEN [attempts EXCEPT ![n] = @ - 1] ELSE attempts

\* Every failure, of parsing too, has used up its attempt.
Charged(n) == attempts

\* The failing paths of execute_node: an exhausted node budget, an answer
\* that does not parse, a worker that reports failure.
AttemptFails(n) ==
    /\ pc = "worked" /\ cur = {n}
    /\ res.status \in {"exhausted", "parse_failed", "failed"}
    /\ state' = [state EXCEPT ![n] = "failed"]
    /\ todo' = <<Do("finish")>>
                 \o (IF res.status = "failed" THEN Restore ELSE <<>>)
                 \o Ingest(res.events) \o <<Do("release")>>
    /\ attempts' = Charged(n)
    /\ used' = used + 1
    /\ pc' = "todo"
    /\ UNCHANGED <<status, lease, execs, hash, done, restores, file,
                   cur, res, snap, seen, crashes>>

\* Waiting for an external or manual event: the answer's own events are not
\* looked at.
AttemptWaits(n) ==
    /\ pc = "worked" /\ cur = {n}
    /\ res.status = "waiting"
    /\ state' = [state EXCEPT ![n] = "waiting"]
    /\ todo' = <<Do("finish"), Do("release")>>
    /\ used' = used + 1
    /\ pc' = "todo"
    /\ UNCHANGED <<status, attempts, lease, execs, hash, done, restores, file,
                   cur, res, snap, seen, crashes>>

SubmitClaim(n) ==
    /\ pc = "worked" /\ cur = {n}
    /\ res.status = "claimed_done"
    /\ state' = [state EXCEPT ![n] = "claimed_done"]
    /\ used' = used + 1
    /\ pc' = "claimed"
    /\ UNCHANGED <<status, attempts, lease, execs, hash, done, restores, file,
                   cur, res, snap, todo, seen, crashes>>

\* The verifier looks at the output files; it cannot pass a missing one.
Verify(n, passed) ==
    /\ pc = "claimed" /\ cur = {n}
    /\ passed => \A a \in Produces[n] : file[a] # "none"
    /\ state' = [state EXCEPT ![n] = IF passed THEN "verified" ELSE "failed"]
    /\ todo' = (IF passed THEN <<Do("patch"), Do("finish"), Do("produced")>>
                          ELSE <<Do("finish")>> \o Restore)
                 \o Ingest(res.events) \o <<Do("release")>>
    /\ pc' = "todo"
    /\ UNCHANGED <<status, attempts, lease, execs, hash, done, restores, file,
                   cur, res, snap, used, seen, crashes>>

(***************************************************************************)
(* What an attempt still has to write, one transaction at a time.          *)
(***************************************************************************)
Step(what) == pc = "todo" /\ todo # <<>> /\ Head(todo).do = what

Then(steps) == todo' = steps \o Tail(todo)

\* _apply_worker_patch: one transaction, or rejected as a whole.
ApplyPatch ==
    /\ Step("patch")
    /\ state' = IF \A op \in res.patch : CanTransition(state[op.node], op.to)
                THEN [n \in Nodes |->
                        IF \E op \in res.patch : op.node = n
                        THEN (CHOOSE op \in res.patch : op.node = n).to
                        ELSE state[n]]
                ELSE state
    /\ Then(<<>>)
    /\ UNCHANGED <<status, attempts, lease, execs, hash, done, restores, file,
                   pc, cur, res, snap, used, seen, crashes>>

Closed(rows) == {[e EXCEPT !.status = "finished"] : e \in rows}

FinishExecution ==
    LET mine == {e \in execs : {e.node} = cur /\ e.status = "running"}
    IN  /\ Step("finish")
        /\ execs' = (execs \ mine) \cup Closed(mine)
        /\ Then(<<>>)
        /\ UNCHANGED <<status, state, attempts, lease, hash, done, restores,
                       file, pc, cur, res, snap, used, seen, crashes>>

\* checkpoints.restore, then its CHECKPOINT_RESTORED event.
RestoreCheckpoint ==
    /\ Step("restore")
    /\ file' = snap
    /\ Then(<<>>)
    /\ UNCHANGED <<db, pc, cur, res, snap, used, seen, crashes>>

CheckpointRestored ==
    /\ Step("restored")
    /\ restores' = restores + 1
    /\ Then(<<>>)
    /\ UNCHANGED <<status, state, attempts, lease, execs, hash, done, file, pc,
                   cur, res, snap, used, seen, crashes>>

\* _update_produced_artifacts: the outputs whose file is not the recorded one.
ChangedOutput(n) == {a \in Produces[n] : file[a] # hash[a]}

UpdateProduced(n) ==
    /\ Step("produced") /\ cur = {n}
    /\ Then([i \in 1 .. Cardinality(ChangedOutput(n)) |->
               LET a == SetToSeq(ChangedOutput(n))[i]
               IN  [Do("event") EXCEPT !.event = Event("artifact", a, file[a], {})]])
    /\ UNCHANGED <<db, file, pc, cur, res, snap, used, seen, crashes>>

Mark(nodes, must) ==
    LET order == SetToSeq(nodes)
    IN  [i \in 1 .. Len(order) |-> [node |-> order[i], must |-> must]]

\* propagate_invalidation's queue: direct consumers, then explicit targets.
Seed(e) ==
    Mark(IF e.id \in Artifacts THEN Consumers(e.id) ELSE {}, e.content = "none")
      \o Mark(e.must, TRUE)

\* reconcile_event: an updated artifact gets its new hash, then its
\* consumers are marked.
ReconcileEvent ==
    LET e == Head(todo).event
    IN  /\ Step("event")
        /\ hash' = IF e.kind = "artifact" THEN [hash EXCEPT ![e.id] = e.content]
                   ELSE hash
        /\ Then(<<[Do("mark") EXCEPT !.queue = Seed(e)]>>)
        /\ UNCHANGED <<status, state, attempts, lease, execs, done, restores,
                       file, pc, cur, res, snap, used, seen, crashes>>

\* One node of the queue: a verified or claimed one is invalidated or marked
\* stale, and everything that depends on it is queued.
PropagateInvalidation ==
    LET step == Head(todo)
        next == Head(step.queue)
        n    == next.node
        hit  == state[n] \in {"verified", "claimed_done"}
        gone == next.must /\ state[n] = "verified"
    IN  /\ Step("mark")
        /\ step.queue # <<>>
        /\ state' = IF ~hit THEN state
                    ELSE [state EXCEPT ![n] = IF gone THEN "invalidated" ELSE "stale"]
        /\ Then(<<[step EXCEPT
                     !.queue = Tail(@) \o (IF hit THEN Mark(Dependents(n), FALSE)
                                                  ELSE <<>>),
                     !.gone = IF hit /\ gone THEN Append(@, n) ELSE @]>>)
        /\ UNCHANGED <<status, attempts, lease, execs, hash, done, restores,
                       file, pc, cur, res, snap, used, seen, crashes>>

\* The local replan sends each invalidated node back to pending.
Replan ==
    LET step == Head(todo)
    IN  /\ Step("mark")
        /\ step.queue = <<>>
        /\ IF step.gone = <<>>
           THEN state' = state /\ Then(<<>>)
           ELSE /\ state' = [state EXCEPT ![Head(step.gone)] = "pending"]
                /\ Then(<<[step EXCEPT !.gone = Tail(@)]>>)
        /\ UNCHANGED <<status, attempts, lease, execs, hash, done, restores,
                       file, pc, cur, res, snap, used, seen, crashes>>

ReleaseLease ==
    /\ Step("release")
    /\ lease' = lease \ cur
    /\ pc' = "loop" /\ cur' = {} /\ res' = NoAnswer /\ todo' = <<>>
    /\ UNCHANGED <<status, state, attempts, execs, hash, done, restores, file,
                   snap, used, seen, crashes>>

(***************************************************************************)
(* Start, death and resumption of the process.                             *)
(***************************************************************************)
Run ==
    /\ pc = "off" /\ status = "pending"
    /\ status' = "running"
    /\ pc' = "loop"
    /\ UNCHANGED <<state, attempts, lease, execs, hash, done, restores, file,
                   cur, res, snap, todo, used, seen, crashes>>

Gone ==
    /\ pc' = "off" /\ cur' = {} /\ res' = NoAnswer /\ todo' = <<>> /\ used' = 0
    /\ crashes < MaxCrashes
    /\ crashes' = crashes + 1

Crash ==
    /\ pc # "off"
    /\ Gone
    /\ UNCHANGED <<db, file, snap, seen>>

\* The worker or a tool raises, or a crash is injected: the lease is given
\* back on the way out.
Raises ==
    /\ pc \in {"leased", "running", "effect", "claimed"}
    /\ Gone
    /\ lease' = lease \ cur
    /\ UNCHANGED <<status, state, attempts, execs, hash, done, restores, file,
                   snap, seen>>

\* The drive loop makes every waiting node ready.  The code does so whatever
\* their attempts; the bound on them keeps the model finite.
ResolveWaiting ==
    /\ pc = "off" /\ status = "paused"
    /\ \E n \in Nodes : state[n] = "waiting"
    /\ \A n \in Nodes : state[n] = "waiting" => attempts[n] <= MaxAttempts
    /\ state' = [n \in Nodes |-> IF state[n] = "waiting" THEN "ready" ELSE state[n]]
    /\ UNCHANGED <<status, attempts, lease, execs, hash, done, restores, file,
                   proc, seen, crashes>>

\* resume: recover visits every node, then closes the open executions.
Resume ==
    /\ pc = "off" /\ status \in {"running", "paused", "failed"}
    /\ pc' = "recover" /\ cur' = Nodes /\ used' = 0
    /\ UNCHANGED <<db, file, res, snap, todo, seen, crashes>>

Before(n) == LET rows == {e \in execs : e.node = n}
             IN  (CHOOSE e \in rows : \A o \in rows : o.attempt <= e.attempt).before

RestoresNode(n) == state[n] = "running" /\ RestoreOnCrash

RestoreNode(n) ==
    /\ pc = "recover" /\ n \in cur
    /\ RestoresNode(n) /\ file # Before(n)
    /\ file' = Before(n)
    /\ UNCHANGED <<db, proc, seen, crashes>>

Recovered_KeepsClaims(n) ==
    CASE state[n] = "running" -> "failed"
      [] state[n] = "invalidated" -> "pending"
      [] OTHER -> state[n]

\* The state recover gives a node.
Recovered(n) ==
    CASE state[n] \in {"running", "claimed_done"} -> "failed"
      [] state[n] = "invalidated" -> "pending"
      [] OTHER -> state[n]

\* A claimed or invalidated node keeps its lease.
RecoverNode(n) ==
    /\ pc = "recover" /\ n \in cur
    /\ RestoresNode(n) => file = Before(n)
    /\ restores' = IF RestoresNode(n) THEN restores + 1 ELSE restores
    /\ state' = [state EXCEPT ![n] = Recovered(n)]
    /\ lease' = IF state[n] \in {"claimed_done", "invalidated"} THEN lease
                ELSE lease \ {n}
    /\ cur' = cur \ {n}
    /\ UNCHANGED <<status, attempts, execs, hash, done, file, pc, res, snap,
                   todo, used, seen, crashes>>

CloseExecutions ==
    LET open == {e \in execs : e.status = "running"}
    IN  /\ pc = "recover" /\ cur = {}
        /\ execs' = (execs \ open) \cup Closed(open)
        /\ status' = "running"
        /\ pc' = "loop"
        /\ UNCHANGED <<state, attempts, lease, hash, done, restores, file, cur,
                       res, snap, todo, used, seen, crashes>>

Controller ==
    \/ FinishRun \/ PauseOnBudget \/ NothingReady
    \/ \E n \in Nodes :
         \/ AcquireLease(n) \/ CountAttempt(n) \/ StartExecution(n)
         \/ \E r \in Results : Work(n, r)
         \/ ToolCompleted(n) \/ AttemptFails(n) \/ AttemptWaits(n)
         \/ SubmitClaim(n)
         \/ \E passed \in BOOLEAN : Verify(n, passed)
         \/ UpdateProduced(n)
    \/ ApplyPatch \/ FinishExecution \/ RestoreCheckpoint
    \/ CheckpointRestored \/ ReconcileEvent \/ PropagateInvalidation \/ Replan
    \/ ReleaseLease

Lifecycle ==
    \/ Run \/ Crash \/ Raises \/ Resume \/ CloseExecutions \/ ResolveWaiting
    \/ \E n \in Nodes : RestoreNode(n) \/ RecoverNode(n)

Next == Controller \/ Lifecycle

Spec == Init /\ [][Next]_vars

(***************************************************************************)
(* Properties.                                                             *)
(***************************************************************************)
\* Whenever the loop looks for work, also after any number of crashes and
\* resumptions, nothing looks half done: no node is running or claimed and
\* no execution is open.  No two executions of a node share an attempt
\* number, whatever was counted and lost (a duplicate would break the table's
\* unique key and the run with it).  A run that was never interrupted
\* completes only when each node's last execution read the contents its
\* input files have now, however artifacts changed and went stale meanwhile.
RunsAreAccounted ==
    /\ pc = "loop" =>
         /\ \A n \in Nodes : state[n] \notin {"running", "claimed_done"}
         /\ \A e \in execs : e.status = "finished"
    /\ \A e, f \in execs :
         e.node = f.node /\ e.attempt = f.attempt => e = f
    /\ status = "completed" /\ crashes = 0 =>
         \A n \in Nodes, a \in Artifacts :
           a \in Consumes[n] => seen[n][a] = file[a]

=============================================================================
