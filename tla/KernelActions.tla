---------------------------- MODULE KernelActions ----------------------------
(***************************************************************************)
(* The life of an action: admission by the dispatcher, dispatch to a       *)
(* driver and recovery by the kernel's tick                                *)
(* (agent_os/kernel/kernel.py, kernel/dispatcher.py,                       *)
(* services/action_service.py).                                            *)
(*                                                                         *)
(* Several kernels share one database and one asyncio loop, the topology   *)
(* of the concurrent-recovery tests.  A coroutine keeps the loop until it  *)
(* awaits a driver; "active" names the one that has it.  Between two       *)
(* awaits each database transaction is a step, so a crash can fall between *)
(* any two of them.  Methods of ActionService that append to the journal   *)
(* and update the projection in two transactions write "rep" first and owe *)
(* the projection ("pend"); the *_if_* methods write both at once.         *)
(*                                                                         *)
(* An action claims at most one resource, in exclusive mode, for a process *)
(* of its own.                                                             *)
(***************************************************************************)
EXTENDS Integers, FiniteSets, Sequences, TLC

CONSTANTS
    Actions,      \* action ids
    Workers,      \* kernels running tick()
    Resources,
    NoResource,   \* the claim of an action that claims nothing
    Classes,      \* side effect classes submitters use
    Policies,     \* recovery policies submitters use
    MaxCrashes,   \* bound on crashes
    Nobody        \* no coroutine has the loop

SideEffectClass == {"pure", "idempotent", "non_reversible", "unknown"}
RecoveryPolicy == {"retry", "inspect", "uncertain", "dead_letter"}

ASSUME KernelConstants ==
    /\ NoResource \notin Resources
    /\ Classes \subseteq SideEffectClass
    /\ Policies \subseteq RecoveryPolicy
    /\ MaxCrashes \in Nat
    /\ Nobody \notin Actions \cup Workers
    /\ Actions \cap Workers = {}

VARIABLES
    acb,         \* table actions_projection
    rep,         \* what replaying the journal makes of each action
    pend,        \* projection writes journalled but not yet made
    rows,        \* the lease row of each action: none, live or expired
    grant,       \* the fencing token each action's lease was issued with
    last_token,  \* table resource_fencing_tokens
    active,      \* the coroutine that has the event loop
    client,      \* where the submit or cancel call of each action is
    worker,      \* where the tick of each kernel is
    calls,       \* first dispatches of each action to its driver
    recalls,     \* retry dispatches of each action to its driver
    sent,        \* signals sent to each action's owner
    crashes

tables == <<acb, rep, pend>>
leases == <<rows, grant, last_token>>
history == <<calls, recalls, sent, crashes>>
vars == <<tables, leases, active, client, worker, history>>

Terminal == {"committed", "failed", "cancelled", "timed_out", "uncertain"}
ActionState == {"absent", "submitted", "admitted", "running"} \cup Terminal

\* token 0: no lease recorded in the action.
ActionControlBlock ==
    [state: ActionState, claim: Resources \cup {NoResource}, side: SideEffectClass,
     policy: RecoveryPolicy, retry_count: Nat, token: Nat]

Signals == {"ACTION_COMPLETED", "ACTION_FAILED", "ACTION_UNCERTAIN"}
SignalOf(state) ==
    CASE state = "committed" -> "ACTION_COMPLETED"
      [] state = "failed" -> "ACTION_FAILED"
      [] OTHER -> "ACTION_UNCERTAIN"

ClientPc == {"new", "acquire", "admit", "intent", "compensate", "unlease",
             "cancel", "finish", "done"}

\* cur and seen: the action at hand and the retry count in the list the loop
\* iterates over; sig: the signal owed to the owner.
WorkerPcs == {"idle", "loop", "handle", "call", "calling", "inspecting", "recall",
              "recalling", "release", "signal"}
Awaiting == {"calling", "inspecting", "recalling"}
WorkerRecord ==
    [pc: WorkerPcs, phase: {"recover", "dispatch"},
     todo: SUBSET (Actions \X Nat), cur: Actions \cup {Nobody}, seen: Nat,
     sig: Signals \cup {"none"}]

IdleWorker == [pc |-> "idle", phase |-> "recover", todo |-> {},
               cur |-> Nobody, seen |-> 0, sig |-> "none"]

Absent == [state |-> "absent", claim |-> NoResource, side |-> "unknown",
           policy |-> "uncertain", retry_count |-> 0, token |-> 0]

Init ==
    /\ acb = [a \in Actions |-> Absent]
    /\ rep = [a \in Actions |-> Absent]
    /\ pend = {}
    /\ rows = [a \in Actions |-> "none"]
    /\ grant = [a \in Actions |-> 0]
    /\ last_token = [r \in Resources |-> 0]
    /\ active = Nobody
    /\ client = [a \in Actions |-> "new"]
    /\ worker = [w \in Workers |-> IdleWorker]
    /\ calls = [a \in Actions |-> 0]
    /\ recalls = [a \in Actions |-> 0]
    /\ sent = [a \in Actions |-> <<>>]
    /\ crashes = 0

-----------------------------------------------------------------------------
(* Writes                                                                  *)

\* Mutant: a running action may be made running again.
MayBecome_Redispatch(from, to) ==
    \/ from = "submitted" /\ to \in {"admitted", "failed"}
    \/ from = "admitted" /\ to \in {"running", "failed", "cancelled"}
    \/ from = "running" /\ to \in Terminal \cup {"running"}

\* The transition table of kernel/state_machine.py.
MayBecome(from, to) ==
    \/ from = "submitted" /\ to \in {"admitted", "failed"}
    \/ from = "admitted" /\ to \in {"running", "failed", "cancelled"}
    \/ from = "running" /\ to \in Terminal

Running(a) == acb[a].state = "running"
At(a, state) == [acb[a] EXCEPT !.state = state]

\* append_event, then _upsert_projection in a transaction of its own.  An
\* event changes only the fields it carries, the projection row is replaced.
Journal(a, state) ==
    /\ rep' = [rep EXCEPT ![a].state = state]
    /\ pend' = {<<a, At(a, state)>>}
    /\ UNCHANGED acb

\* One BEGIN IMMEDIATE transaction for both.
Atomically(a, state) ==
    /\ rep' = [rep EXCEPT ![a].state = state]
    /\ acb' = [acb EXCEPT ![a].state = state]
    /\ UNCHANGED pend

\* The second transaction of a journalled write.
Project ==
    /\ \E p \in pend : acb' = [acb EXCEPT ![p[1]] = p[2]]
    /\ pend' = {}
    /\ UNCHANGED <<rep, leases, active, client, worker, history>>

HasLoop(x) == active = x /\ pend = {}
LoopFree == active = Nobody /\ pend = {}

Unleased(a) == rows' = [rows EXCEPT ![a] = "none"]

\* Mutant: a commit trusts the leases recorded in the action.
Fenced_RecordOnly(a) == acb[a].claim = NoResource \/ acb[a].token > 0

\* _validate_fencing_contract_tx.
Fenced(a) ==
    IF acb[a].claim = NoResource
    THEN acb[a].token = 0
    ELSE /\ acb[a].token > 0
         /\ rows[a] = "live"
         /\ acb[a].token = grant[a]
         /\ acb[a].token = last_token[acb[a].claim]

\* validate_action_contract: rows only, no token.
ContractValid(a) ==
    IF acb[a].claim = NoResource
    THEN acb[a].token = 0
    ELSE acb[a].token > 0 /\ rows[a] = "live"

-----------------------------------------------------------------------------
(***************************************************************************)
(* Dispatcher: submit_action and cancel_action.  Neither awaits anything   *)
(* on the way, so a call keeps the loop from its first to its last step.   *)
(* Any storage call may raise; submit then compensates.                    *)
(***************************************************************************)
Client(a, from, to) ==
    /\ client[a] = from
    /\ HasLoop(a)
    /\ client' = [client EXCEPT ![a] = to]
    /\ UNCHANGED <<worker, history>>

Submit(a, claim, side, policy) ==
    /\ LoopFree
    /\ client[a] = "new"
    /\ LET new == [state |-> "submitted", claim |-> claim, side |-> side,
                   policy |-> policy, retry_count |-> 0, token |-> 0]
       IN  /\ rep' = [rep EXCEPT ![a] = new]
           /\ pend' = {<<a, new>>}
    /\ UNCHANGED acb
    /\ active' = a
    /\ client' = [client EXCEPT ![a] = "acquire"]
    /\ UNCHANGED <<leases, worker, history>>

\* A row of the resource blocks the claim until it is removed, expired or not.
ResourceFree(r) == \A b \in Actions : acb[b].claim = r => rows[b] = "none"

AcquireNothing(a) ==
    /\ acb[a].claim = NoResource
    /\ Client(a, "acquire", "admit")
    /\ UNCHANGED <<tables, leases, active>>

AcquireLease(a) ==
    LET r == acb[a].claim IN
    /\ r # NoResource
    /\ ResourceFree(r)
    /\ Client(a, "acquire", "admit")
    /\ last_token' = [last_token EXCEPT ![r] = @ + 1]
    /\ grant' = [grant EXCEPT ![a] = last_token[r] + 1]
    /\ rows' = [rows EXCEPT ![a] = "live"]
    /\ UNCHANGED <<tables, active>>

\* atomic_acquire raises (the resource is busy, or the storage fails): reject.
AcquireFails(a) ==
    /\ acb[a].claim # NoResource
    /\ Client(a, "acquire", "finish")
    /\ Journal(a, "failed")
    /\ UNCHANGED <<leases, active>>

Admit(a) ==
    /\ Client(a, "admit", "intent")
    /\ Journal(a, "admitted")
    /\ UNCHANGED <<leases, active>>

\* mark_intent_durable records the leases and their tokens.
MarkIntentDurable(a) ==
    /\ Client(a, "intent", "finish")
    /\ rep' = [rep EXCEPT ![a].token = grant[a]]
    /\ pend' = {<<a, [acb[a] EXCEPT !.token = grant[a]]>>}
    /\ UNCHANGED acb
    /\ UNCHANGED <<leases, active>>

\* admit or mark_intent_durable raises before it wrote anything, or between
\* its two transactions.
AdmissionRaises(a) ==
    \/ /\ client[a] \in {"admit", "intent"}
       /\ Client(a, client[a], "compensate")
       /\ UNCHANGED <<tables, leases, active>>
    \/ /\ active = a
       /\ client[a] \in {"intent", "finish"}
       /\ \E p \in pend : p[2].state = "admitted"
       /\ pend' = {}
       /\ client' = [client EXCEPT ![a] = "compensate"]
       /\ UNCHANGED <<acb, rep, leases, active, worker, history>>

\* The action is made terminal from whichever state was reached, or the
\* compensation itself fails and is suppressed.
Compensate(a) ==
    /\ Client(a, "compensate", "unlease")
    /\ \/ Journal(a, "failed")
       \/ UNCHANGED tables
    /\ UNCHANGED <<leases, active>>

\* release(lease_ids) of the call's own list; failure is suppressed.
ReleaseAfterCompensation(a) ==
    /\ Client(a, "unlease", "finish")
    /\ Unleased(a) \/ UNCHANGED rows
    /\ UNCHANGED <<tables, grant, last_token, active>>

Cancel(a) ==
    /\ LoopFree
    /\ client[a] = "done"
    /\ acb[a].state \in {"admitted", "running"}
    /\ Journal(a, "cancelled")
    /\ active' = a
    /\ client' = [client EXCEPT ![a] = "cancel"]
    /\ UNCHANGED <<leases, worker, history>>

CancelReleases(a) ==
    /\ Client(a, "cancel", "finish")
    /\ IF acb[a].token > 0 THEN Unleased(a) ELSE UNCHANGED rows
    /\ UNCHANGED <<tables, grant, last_token, active>>

ClientDone(a) ==
    /\ Client(a, "finish", "done")
    /\ active' = Nobody
    /\ UNCHANGED <<tables, leases>>

-----------------------------------------------------------------------------
(***************************************************************************)
(* Kernel: tick().  It reclaims expired leases, walks over the actions it  *)
(* listed as running (recover_incomplete_actions), then over those it      *)
(* listed as admitted (_dispatch_pending_actions).  The lists are read     *)
(* once; an entry may be stale when its turn comes.                        *)
(***************************************************************************)

\* _unknown_recovery_mode, with the retry count of the listed row.
RecoveryMode(a, seen) ==
    LET policy == acb[a].policy
        side == acb[a].side
    IN  CASE policy = "inspect" -> "inspect"
          [] policy \in {"uncertain", "dead_letter"} -> "uncertain"
          [] side = "pure" -> IF seen < 1 THEN "retry" ELSE "inspect"
          [] side = "idempotent" -> "inspect"
          [] OTHER -> "uncertain"

Listed(state) == {<<a, acb[a].retry_count>> : a \in {b \in Actions : acb[b].state = state}}

\* Worker w, which has the loop, moves on to pc (and gives the loop up when
\* that is an await).
GoTo(w, pc) ==
    /\ worker' = [worker EXCEPT ![w].pc = pc]
    /\ active' = IF pc \in Awaiting THEN Nobody ELSE w

\* Worker w leaves the action at hand with a signal to send, or with none.
Settle(w, sig) ==
    /\ worker' = [worker EXCEPT ![w].pc = "release", ![w].sig = sig]
    /\ active' = w

\* Mutant: the state is not read again in the transaction.
TerminateIfRunning_Unconditional(w, a, state) ==
    Atomically(a, state) /\ Settle(w, SignalOf(state))

\* Mutant: the owner is signalled even when another caller won.
TerminateIfRunning_AlwaysSignals(w, a, state) ==
    /\ IF Running(a) THEN Atomically(a, state) ELSE UNCHANGED tables
    /\ Settle(w, SignalOf(state))

\* fail_if_running and mark_uncertain_if_running: only the caller that makes
\* the action terminal owes its owner a signal.
TerminateIfRunning(w, a, state) ==
    IF Running(a)
    THEN Atomically(a, state) /\ Settle(w, SignalOf(state))
    ELSE UNCHANGED tables /\ Settle(w, "none")

\* commit_if_fenced, and fail_if_running when it refuses.
CommitIfFenced(w, a) ==
    TerminateIfRunning(w, a, IF Fenced(a) THEN "committed" ELSE "failed")

\* Mutant: the loser of the race for the retry releases the leases.
ReserveRetry_LoserReleases(w, a) ==
    LET permitted == Running(a) /\ acb[a].side = "pure" /\ acb[a].policy = "retry"
        reserved == permitted /\ acb[a].retry_count < 1 /\ Fenced(a)
    IN  \/ /\ reserved
           /\ acb' = [acb EXCEPT ![a].retry_count = @ + 1]
           /\ rep' = [rep EXCEPT ![a].retry_count = 1]
           /\ GoTo(w, "recall")
           /\ UNCHANGED pend
        \/ ~reserved /\ Settle(w, "none") /\ UNCHANGED tables

\* reserve_retry_if_fenced and what its caller does with the answer: the
\* loser of a race for the one retry leaves action and leases to the winner.
ReserveRetry(w, a) ==
    LET permitted == Running(a) /\ acb[a].side = "pure" /\ acb[a].policy = "retry"
        reserved == permitted /\ acb[a].retry_count < 1 /\ Fenced(a)
        elsewhere == permitted /\ acb[a].retry_count = 1
    IN  \/ /\ reserved
           /\ acb' = [acb EXCEPT ![a].retry_count = @ + 1]
           /\ rep' = [rep EXCEPT ![a].retry_count = 1]
           /\ GoTo(w, "recall")
           /\ UNCHANGED pend
        \/ elsewhere /\ GoTo(w, "loop") /\ UNCHANGED tables
        \/ ~reserved /\ ~elsewhere /\ TerminateIfRunning(w, a, "uncertain")

BeginTick(w) ==
    /\ LoopFree
    /\ worker[w].pc = "idle"
    /\ rows' = [a \in Actions |-> IF rows[a] = "expired" THEN "none" ELSE rows[a]]
    /\ worker' = [worker EXCEPT ![w] =
                    [IdleWorker EXCEPT !.pc = "loop", !.todo = Listed("running")]]
    /\ active' = w
    /\ UNCHANGED <<tables, grant, last_token, client, history>>

\* A step of worker w, which has the loop, on the action at hand.
Worker(w, pc, phase) ==
    /\ worker[w].pc = pc
    /\ worker[w].phase = phase
    /\ HasLoop(w)
    /\ UNCHANGED <<client, crashes>>

\* The next entry of the list the loop iterates over (SQL gives no order).
TakeNext(w) ==
    /\ Worker(w, "loop", worker[w].phase)
    /\ \E item \in worker[w].todo :
          worker' = [worker EXCEPT ![w] =
                       [worker[w] EXCEPT !.pc = "handle", !.todo = worker[w].todo \ {item},
                                         !.cur = item[1], !.seen = item[2], !.sig = "none"]]
    /\ UNCHANGED <<tables, leases, active, calls, recalls, sent>>

\* Mutant: an action that may not be inspected is left as it is.
RecoverOne_SkipsUncertain(w) ==
    LET a == worker[w].cur
        mode == RecoveryMode(a, worker[w].seen)
    IN  /\ Worker(w, "handle", "recover")
        /\ IF ~Running(a) \/ mode = "uncertain"
           THEN GoTo(w, "loop") /\ UNCHANGED tables
           ELSE GoTo(w, "inspecting") /\ UNCHANGED tables
        /\ UNCHANGED <<leases, calls, recalls, sent>>

\* recover_incomplete_actions up to the inspection.  The driver may not be
\* registered with this kernel.
RecoverOne(w) ==
    LET a == worker[w].cur
        mode == RecoveryMode(a, worker[w].seen)
    IN  /\ Worker(w, "handle", "recover")
        /\ \/ TerminateIfRunning(w, a, "failed")      \* no driver
           \/ IF ~Running(a) \/ mode = "uncertain"
              THEN TerminateIfRunning(w, a, "uncertain")
              ELSE GoTo(w, "inspecting") /\ UNCHANGED tables
        /\ UNCHANGED <<leases, calls, recalls, sent>>

EndRecovery(w) ==
    /\ Worker(w, "loop", "recover")
    /\ worker[w].todo = {}
    /\ worker' = [worker EXCEPT ![w].phase = "dispatch", ![w].todo = Listed("admitted")]
    /\ UNCHANGED <<tables, leases, active, calls, recalls, sent>>

\* An illegal transition raises out of tick().
AbortTick(w) ==
    /\ worker' = [worker EXCEPT ![w] = IdleWorker]
    /\ active' = Nobody
    /\ UNCHANGED tables

\* _dispatch_pending_actions up to the driver call: a contract that no longer
\* holds or a missing driver fails the action, otherwise it is made running.
DispatchOne(w) ==
    LET a == worker[w].cur
        Fails == IF MayBecome(acb[a].state, "failed")
                 THEN Journal(a, "failed") /\ Settle(w, "ACTION_FAILED")
                 ELSE AbortTick(w)
        Starts == IF MayBecome(acb[a].state, "running")
                  THEN Journal(a, "running") /\ GoTo(w, "call")
                  ELSE AbortTick(w)
    IN  /\ Worker(w, "handle", "dispatch")
        /\ \/ Fails                                   \* no driver, or no contract
           \/ ContractValid(a) /\ Starts
        /\ UNCHANGED <<leases, calls, recalls, sent>>

EndTick(w) ==
    /\ Worker(w, "loop", "dispatch")
    /\ worker[w].todo = {}
    /\ worker' = [worker EXCEPT ![w] = IdleWorker]
    /\ active' = Nobody
    /\ UNCHANGED <<tables, leases, calls, recalls, sent>>

\* await driver.dispatch(...)
CallDriver(w) ==
    /\ Worker(w, "call", "dispatch")
    /\ calls' = [calls EXCEPT ![worker[w].cur] = @ + 1]
    /\ GoTo(w, "calling")
    /\ UNCHANGED <<tables, leases, recalls, sent>>

\* validate_reserved_retry_if_fenced, then await driver.dispatch(...) again.
RetryDriver(w) ==
    LET a == worker[w].cur IN
    /\ Worker(w, "recall", worker[w].phase)
    /\ IF Running(a) /\ acb[a].retry_count = 1 /\ Fenced(a)
       THEN /\ recalls' = [recalls EXCEPT ![a] = @ + 1]
            /\ GoTo(w, "recalling")
            /\ UNCHANGED tables
       ELSE TerminateIfRunning(w, a, "uncertain") /\ UNCHANGED recalls
    /\ UNCHANGED <<leases, calls, sent>>

\* The coroutine of worker w resumes after an await.
Resume(w, pc) ==
    /\ LoopFree
    /\ worker[w].pc = pc
    /\ UNCHANGED <<leases, client, history>>

Definite == {"completed", "failed", "unknown", "exception"}

\* The first dispatch answers.
DispatchAnswer(w, status) ==
    LET a == worker[w].cur
        mode == RecoveryMode(a, worker[w].seen)
    IN  /\ Resume(w, "calling")
        /\ CASE status = "completed" -> CommitIfFenced(w, a)
             [] status = "failed" -> TerminateIfRunning(w, a, "failed")
             [] status = "running" -> GoTo(w, "loop") /\ UNCHANGED tables
             [] OTHER ->
                  CASE mode = "retry" -> ReserveRetry(w, a)
                    [] mode = "inspect" /\ Running(a) ->
                         GoTo(w, "inspecting") /\ UNCHANGED tables
                    [] OTHER -> TerminateIfRunning(w, a, "uncertain")

\* driver.inspect answers to recover_incomplete_actions.
RecoveryAnswer(w, status) ==
    LET a == worker[w].cur
        mayRetry == RecoveryMode(a, worker[w].seen) = "retry"
    IN  /\ Resume(w, "inspecting")
        /\ worker[w].phase = "recover"
        /\ CASE status = "completed" -> CommitIfFenced(w, a)
             [] status = "failed" -> TerminateIfRunning(w, a, "failed")
             [] status = "running" -> GoTo(w, "loop") /\ UNCHANGED tables
             [] status = "unknown" /\ mayRetry -> ReserveRetry(w, a)
             [] OTHER -> TerminateIfRunning(w, a, "uncertain")

\* driver.inspect answers to _inspect_after_unknown, which never retries.
InspectAfterUnknown(w, status) ==
    LET a == worker[w].cur
    IN  /\ Resume(w, "inspecting")
        /\ worker[w].phase = "dispatch"
        /\ CASE status = "completed" -> CommitIfFenced(w, a)
             [] status = "failed" -> TerminateIfRunning(w, a, "failed")
             [] status = "running" -> GoTo(w, "loop") /\ UNCHANGED tables
             [] OTHER -> TerminateIfRunning(w, a, "uncertain")

\* The retry answers: short of a completion the outcome stays unknown.
RetryAnswer(w, status) ==
    LET a == worker[w].cur
    IN  /\ Resume(w, "recalling")
        /\ CASE status = "completed" -> CommitIfFenced(w, a)
             [] status = "running" -> GoTo(w, "loop") /\ UNCHANGED tables
             [] OTHER -> TerminateIfRunning(w, a, "uncertain")

\* Mutant: a signal is sent even if none is owed.
ReleaseLeases_AlwaysSignals(w) ==
    LET a == worker[w].cur IN
    /\ Worker(w, "release", worker[w].phase)
    /\ IF acb[a].token > 0 THEN Unleased(a) ELSE UNCHANGED rows
    /\ GoTo(w, "signal")
    /\ UNCHANGED <<tables, grant, last_token, calls, recalls, sent>>

\* LeaseService.release(acb.lease_ids).
ReleaseLeases(w) ==
    LET a == worker[w].cur IN
    /\ Worker(w, "release", worker[w].phase)
    /\ IF acb[a].token > 0 THEN Unleased(a) ELSE UNCHANGED rows
    /\ GoTo(w, IF worker[w].sig = "none" THEN "loop" ELSE "signal")
    /\ UNCHANGED <<tables, grant, last_token, calls, recalls, sent>>

\* SignalService.send to the owner.
SendSignal(w) ==
    /\ Worker(w, "signal", worker[w].phase)
    /\ sent' = [sent EXCEPT ![worker[w].cur] = Append(@, worker[w].sig)]
    /\ GoTo(w, "loop")
    /\ UNCHANGED <<tables, leases, calls, recalls>>

-----------------------------------------------------------------------------
(* Time, the owner, and crashes                                            *)

Expire(a) ==
    /\ rows[a] = "live"
    /\ rows' = [rows EXCEPT ![a] = "expired"]
    /\ UNCHANGED <<tables, grant, last_token, active, client, worker, history>>

\* The owner releases its lease while the action runs, exits, or is chosen
\* as a deadlock victim.
OwnerReleases(a) ==
    /\ LoopFree
    /\ rows[a] # "none"
    /\ Unleased(a)
    /\ UNCHANGED <<tables, grant, last_token, active, client, worker, history>>

\* The process dies.  Coroutines and owed projection writes are gone; driver
\* calls already made may still take effect outside.
Crash ==
    /\ crashes < MaxCrashes
    /\ crashes' = crashes + 1
    /\ pend' = {}
    /\ active' = Nobody
    /\ client' = [a \in Actions |-> IF client[a] = "new" THEN "new" ELSE "done"]
    /\ worker' = [w \in Workers |-> IdleWorker]
    /\ UNCHANGED <<acb, rep, leases, calls, recalls, sent>>

\* rebuild_from_journal, which an operator may call while nothing runs.
Rebuild ==
    /\ LoopFree
    /\ \A w \in Workers : worker[w].pc = "idle"
    /\ acb' = rep
    /\ UNCHANGED <<rep, pend, leases, active, client, worker, history>>

ClientStep(a) ==
    \/ AcquireNothing(a) \/ AcquireLease(a) \/ AcquireFails(a)
    \/ Admit(a) \/ MarkIntentDurable(a) \/ AdmissionRaises(a)
    \/ Compensate(a) \/ ReleaseAfterCompensation(a)
    \/ CancelReleases(a) \/ ClientDone(a)

WorkerStep(w) ==
    \/ TakeNext(w) \/ RecoverOne(w) \/ EndRecovery(w) \/ DispatchOne(w)
    \/ EndTick(w) \/ CallDriver(w) \/ RetryDriver(w)
    \/ ReleaseLeases(w) \/ SendSignal(w)

Answer(w, status) ==
    \/ DispatchAnswer(w, status) \/ RecoveryAnswer(w, status)
    \/ InspectAfterUnknown(w, status) \/ RetryAnswer(w, status)

Next ==
    \/ \E a \in Actions, claim \in Resources \cup {NoResource},
         side \in Classes, policy \in Policies : Submit(a, claim, side, policy)
    \/ \E a \in Actions : Cancel(a) \/ ClientStep(a) \/ Expire(a) \/ OwnerReleases(a)
    \/ \E w \in Workers :
          \/ BeginTick(w)
          \/ WorkerStep(w)
          \/ \E status \in Definite \cup {"running"} : Answer(w, status)
    \/ Project
    \/ Crash
    \/ Rebuild

\* The loop runs ready coroutines in turn, the caller keeps ticking while an
\* action is not terminal (run_until_idle), and a driver does not answer
\* "running" for ever.
Fairness ==
    /\ WF_vars(Project)
    /\ \A a \in Actions : WF_vars(ClientStep(a))
    /\ \A w \in Workers :
          /\ WF_vars(WorkerStep(w))
          /\ SF_vars(BeginTick(w))
          /\ SF_vars(\E status \in Definite : Answer(w, status))

Spec == Init /\ [][Next]_vars
FairSpec == Spec /\ Fairness

-----------------------------------------------------------------------------
(* Properties                                                              *)

\* The tables, the loop and the coroutines have the shapes the code gives them.
TypeOK ==
    /\ acb \in [Actions -> ActionControlBlock]
    /\ rep \in [Actions -> ActionControlBlock]
    /\ pend \in SUBSET (Actions \X ActionControlBlock)
    /\ rows \in [Actions -> {"none", "live", "expired"}]
    /\ grant \in [Actions -> Nat]
    /\ last_token \in [Resources -> Nat]
    /\ active \in Actions \cup Workers \cup {Nobody}
    /\ client \in [Actions -> ClientPc]
    /\ worker \in [Workers -> WorkerRecord]
    /\ calls \in [Actions -> Nat]
    /\ recalls \in [Actions -> Nat]
    /\ sent \in [Actions -> Seq(Signals)]
    /\ crashes \in 0..MaxCrashes

\* Whatever kernels race and whenever the process dies, an action reaches its
\* driver at most once, and a second time only if it is pure with policy
\* retry (_unknown_recovery_mode: "a blind redispatch is only safe for a PURE
\* action"; reserve_retry_if_fenced: "the single retry budget").
DispatchBound ==
    \A a \in Actions :
        /\ calls[a] <= 1
        /\ recalls[a] <= 1
        /\ recalls[a] = 1 => acb[a].side = "pure" /\ acb[a].policy = "retry"

\* The owner is told at most one outcome, and the one the action has: a stale
\* callback emits no contradictory signal (_fail_action_if_running).
OneTruthfulSignal ==
    \A a \in Actions :
        \/ sent[a] = <<>>
        \/ acb[a].state \in Terminal /\ sent[a] = <<SignalOf(acb[a].state)>>

\* A terminal action never changes state again in the projection, replay
\* included (TerminalStateError in validate_action_transition).
TerminalIsFinal ==
    \A a \in Actions : acb[a].state \in Terminal => acb'[a].state = acb[a].state

\* When an action commits, no lease on its resource was issued after its own:
\* work of a superseded owner is never recorded (commit_if_fenced).
CommitsUnderNewestLease ==
    \A a \in Actions :
        acb[a].state # "committed" /\ acb'[a].state = "committed" =>
            \A b \in Actions :
                acb[b].claim = acb[a].claim => grant[b] <= acb[a].token

\* A kernel never takes the lease of an action that is still running: the
\* loser of a race for the retry leaves the bundle to the winner.
RunningKeepsLease ==
    \A a \in Actions, w \in Workers :
        rows[a] = "live" /\ rows'[a] = "none" /\ Running(a) => active # w

\* Every state of the kernel satisfies the three invariants.
ActionsAreSafe == TypeOK /\ DispatchBound /\ OneTruthfulSignal

\* Every step of a kernel, a client or a recovery keeps the three promises about
\* terminal states, commits and the leases of running actions.
ActionStepsAreFenced ==
    [][TerminalIsFinal /\ CommitsUnderNewestLease /\ RunningKeepsLease]_vars

\* Every admitted action becomes terminal, crashes and races notwithstanding.
EventuallySettled ==
    \A a \in Actions :
        acb[a].state \in {"admitted", "running"} ~> acb[a].state \in Terminal

\* Actions are interchangeable, and so are kernels: nothing names one.
Symmetry == Permutations(Actions) \cup Permutations(Workers)
=============================================================================
