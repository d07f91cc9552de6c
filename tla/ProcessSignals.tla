---------------------------- MODULE ProcessSignals ----------------------------
(***************************************************************************)
(* The life of a process: spawning, the kernel's scheduling and stepping   *)
(* of programs, blocking on a wait condition and being woken by a durable  *)
(* signal (services/process_service.py, services/signal_service.py,        *)
(* tick and _run_process_step of kernel/kernel.py, the wait, signal and    *)
(* exit handlers of kernel/dispatcher.py).                                 *)
(*                                                                         *)
(* As in KernelActions, several kernels share one database and one asyncio *)
(* loop.  "active" names the coroutine that has the loop; it gives the     *)
(* loop up only where it awaits a program's step, or a driver between the  *)
(* two deliveries of a tick.  Each transaction is a step, so a crash can   *)
(* fall between the journal's transaction and the projection's.            *)
(***************************************************************************)
EXTENDS Integers, FiniteSets

CONSTANTS
    Pids,
    Workers,      \* kernels running tick()
    Contents,     \* signals that get sent: their type and action id
    Conditions,   \* wait conditions that programs block on
    MaxSignals,   \* bound on signals sent
    MaxFailures,  \* bound on processes failed from outside
    MaxCrashes,   \* bound on crashes
    None          \* Python's None; also: no coroutine has the loop

Mail == 1..MaxSignals

\* Values for TLC: the end of an action and a signal of a client; what
\* _run_process_step makes a submitter wait for, and a plain wait.
SomeContents == {[type |-> "ACTION_FAILED", action_id |-> "a"],
                 [type |-> "RESUME", action_id |-> None]}
SomeConditions ==
    {[signal_type |-> None, action_id |-> "a",
      signal_types |-> {"ACTION_COMPLETED", "ACTION_FAILED", "ACTION_UNCERTAIN"}],
     [signal_type |-> "RESUME", action_id |-> None, signal_types |-> {}]}

VARIABLES
    proc,      \* table processes_projection
    rep,       \* what replaying the journal makes of each process
    box,       \* table signals_projection
    log,       \* what replaying the journal makes of each signal
    letter,    \* target and content of each signal
    pend,      \* projection writes journalled but not yet made
    active,    \* the coroutine that has the event loop
    client,    \* where the spawn call of each process is
    worker,    \* where the tick of each kernel is
    programs,  \* processes whose program is registered in memory
    woke,      \* how often each signal has woken its target
    failures, crashes

tables == <<proc, rep>>
mailbox == <<box, log, letter>>
counts == <<woke, failures, crashes>>
vars == <<tables, mailbox, pend, active, client, worker, programs, counts>>

Ended == {"exited", "failed"}
ProcessState == {"absent", "created", "ready", "running", "blocked"} \cup Ended

\* No condition, or the empty one: any signal matches.
NoCondition == [signal_type |-> None, action_id |-> None, signal_types |-> {}]

Pcb(state, wait) == [state |-> state, wait |-> wait]
NoLetter == [target |-> None, content |-> None]

\* todo: what is left of the list the loop at hand iterates over; cur: the
\* signal being delivered or the process being stepped.
WorkerPcs == {"idle", "deliver", "consumed", "wake", "recovering", "schedule",
              "start", "stepping", "request", "yield"}
IdleWorker == [pc |-> "idle", pass |-> 1, todo |-> {}, cur |-> None]

Init ==
    /\ proc = [p \in Pids |-> Pcb("absent", NoCondition)]
    /\ rep = [p \in Pids |-> Pcb("absent", NoCondition)]
    /\ box = [m \in Mail |-> "absent"]
    /\ log = [m \in Mail |-> "absent"]
    /\ letter = [m \in Mail |-> NoLetter]
    /\ pend = {}
    /\ active = None
    /\ client = [p \in Pids |-> "new"]
    /\ worker = [w \in Workers |-> IdleWorker]
    /\ programs = {}
    /\ woke = [m \in Mail |-> 0]
    /\ failures = 0
    /\ crashes = 0

LoopFree == active = None
Has(c) == active = c /\ pend = {}

-----------------------------------------------------------------------------
(* ProcessService.transition                                               *)

\* The transitions of kernel/state_machine.py that somebody requests.
MayBecome(from, to) ==
    \/ from = "created" /\ to = "ready"
    \/ from = "ready" /\ to \in {"running", "exited", "failed"}
    \/ from = "running" /\ to \in {"ready", "blocked", "exited", "failed"}
    \/ from = "blocked" /\ to \in {"ready", "exited", "failed"}

\* handle_event on replay: the condition is kept unless the event carries one
\* or makes the process ready or running.
Replayed(p, state, wait) ==
    Pcb(state, IF state = "blocked" /\ wait # NoCondition THEN wait
               ELSE IF state \in {"ready", "running"} THEN NoCondition
               ELSE rep[p].wait)

\* Mutant: only the projection is written.
Transition_Unjournalled(p, state, wait) ==
    /\ MayBecome(proc[p].state, state)
    /\ pend' = {<<"process", p, Pcb(state, wait)>>}
    /\ UNCHANGED <<proc, rep>>

\* The event is journalled; the projection row, computed from the row read
\* before, is owed.
Transition(p, state, wait) ==
    /\ MayBecome(proc[p].state, state)
    /\ rep' = [rep EXCEPT ![p] = Replayed(p, state, wait)]
    /\ pend' = {<<"process", p, Pcb(state, wait)>>}
    /\ UNCHANGED proc

\* _upsert_projection
ProjectProcess ==
    \E p \in Pids, row \in {x[3] : x \in {y \in pend : y[1] = "process"}} :
        /\ <<"process", p, row>> \in pend
        /\ proc' = [proc EXCEPT ![p] = row]
        /\ pend' = {}
        /\ UNCHANGED <<rep, mailbox, active, client, worker, programs, counts>>

-----------------------------------------------------------------------------
(* Callers outside the tick                                                *)

\* ProcessService.spawn, then register_program.
Spawn(p) ==
    /\ LoopFree
    /\ client[p] = "new"
    /\ client' = [client EXCEPT ![p] = "created"]
    /\ active' = p
    /\ rep' = [rep EXCEPT ![p] = Pcb("created", NoCondition)]
    /\ pend' = {<<"process", p, Pcb("created", NoCondition)>>}
    /\ UNCHANGED <<proc, mailbox, worker, programs, counts>>

SpawnReady(p) ==
    /\ Has(p)
    /\ client[p] = "created"
    /\ client' = [client EXCEPT ![p] = "done"]
    /\ Transition(p, "ready", NoCondition)
    /\ programs' = programs \cup {p}
    /\ UNCHANGED <<mailbox, active, worker, counts>>

\* After a restart the programs are registered again.
RegisterProgram(p) ==
    /\ LoopFree
    /\ proc[p].state # "absent"
    /\ p \notin programs
    /\ programs' = programs \cup {p}
    /\ UNCHANGED <<tables, mailbox, pend, active, client, worker, counts>>

\* KernelProcessProvider.set_failed, and the victim of deadlock recovery.
SetFailed(p) ==
    /\ LoopFree
    /\ failures < MaxFailures
    /\ failures' = failures + 1
    /\ active' = p
    /\ Transition(p, "failed", NoCondition)
    /\ UNCHANGED <<mailbox, client, worker, programs, woke, crashes>>

\* SignalService.send
Send(m, p, content) ==
    /\ log[m] = "absent"
    /\ \A n \in 1..(m - 1) : log[n] # "absent"
    /\ log' = [log EXCEPT ![m] = "pending"]
    /\ letter' = [letter EXCEPT ![m] = [target |-> p, content |-> content]]
    /\ pend' = {<<"signal", m>>}
    /\ UNCHANGED box

\* _upsert_signal
ProjectSignal ==
    \E m \in Mail :
        /\ <<"signal", m>> \in pend
        /\ box' = [box EXCEPT ![m] = "pending"]
        /\ pend' = {}
        /\ UNCHANGED <<tables, log, letter, active, client, worker, programs, counts>>

\* A kernel that ends an action, or a client, sends a signal.
SendFromOutside(m, p, content) ==
    /\ LoopFree
    /\ proc[p].state # "absent"
    /\ Send(m, p, content)
    /\ active' = m
    /\ UNCHANGED <<tables, client, worker, programs, counts>>

CallReturns ==
    /\ active \in Pids \cup Mail
    /\ active \in Pids => client[active] # "created"
    /\ pend = {}
    /\ active' = None
    /\ UNCHANGED <<tables, mailbox, pend, client, worker, programs, counts>>

-----------------------------------------------------------------------------
(* tick: delivery of signals                                               *)

At(w, pc) == [worker EXCEPT ![w].pc = pc]

\* The rows deliver_pending reads before its loop.
Pending == {m \in Mail : box[m] = "pending"}

BeginTick(w) ==
    /\ LoopFree
    /\ worker[w].pc = "idle"
    /\ active' = w
    /\ worker' = [worker EXCEPT ![w] = [pc |-> "deliver", pass |-> 1,
                                        todo |-> Pending, cur |-> None]]
    /\ UNCHANGED <<tables, mailbox, pend, client, programs, counts>>

\* _matches_wait_condition
Matches(c, s) ==
    /\ c.signal_type \in {None, s.type}
    /\ c.action_id \in {None, s.action_id}
    /\ c.signal_types = {} \/ s.type \in c.signal_types

Oldest(w) == CHOOSE m \in worker[w].todo : \A n \in worker[w].todo : m <= n

\* The target is read again for each signal.
Deliverable(m) ==
    LET p == letter[m].target IN
    /\ proc[p].state = "blocked"
    /\ Matches(proc[p].wait, letter[m].content)

Delivering(w) == Has(w) /\ worker[w].pc = "deliver" /\ worker[w].todo # {}

\* Mutant: the signal is consumed before it is matched.
LeaveInMailbox_Consumes(w) ==
    /\ Delivering(w)
    /\ ~Deliverable(Oldest(w))
    /\ box' = [box EXCEPT ![Oldest(w)] = "consumed"]
    /\ log' = [log EXCEPT ![Oldest(w)] = "consumed"]
    /\ worker' = [worker EXCEPT ![w].todo = @ \ {Oldest(w)}]
    /\ UNCHANGED <<tables, letter, pend, active, client, programs, counts>>

LeaveInMailbox(w) ==
    /\ Delivering(w)
    /\ ~Deliverable(Oldest(w))
    /\ worker' = [worker EXCEPT ![w].todo = @ \ {Oldest(w)}]
    /\ UNCHANGED <<tables, mailbox, pend, active, client, programs, counts>>

\* _mark_consumed updates the projection, then journals.
Consume(w) ==
    /\ Delivering(w)
    /\ Deliverable(Oldest(w))
    /\ box' = [box EXCEPT ![Oldest(w)] = "consumed"]
    /\ worker' = [worker EXCEPT ![w].pc = "consumed", ![w].cur = Oldest(w),
                                ![w].todo = @ \ {Oldest(w)}]
    /\ UNCHANGED <<tables, log, letter, pend, active, client, programs, counts>>

\* Mutant: the target is not woken.
JournalConsumed_NoWake(w) ==
    /\ Has(w)
    /\ worker[w].pc = "consumed"
    /\ log' = [log EXCEPT ![worker[w].cur] = "consumed"]
    /\ worker' = At(w, "deliver")
    /\ UNCHANGED <<tables, box, letter, pend, active, client, programs, counts>>

JournalConsumed(w) ==
    /\ Has(w)
    /\ worker[w].pc = "consumed"
    /\ log' = [log EXCEPT ![worker[w].cur] = "consumed"]
    /\ worker' = At(w, "wake")
    /\ UNCHANGED <<tables, box, letter, pend, active, client, programs, counts>>

Wake(w) ==
    /\ Has(w)
    /\ worker[w].pc = "wake"
    /\ Transition(letter[worker[w].cur].target, "ready", NoCondition)
    /\ woke' = [woke EXCEPT ![worker[w].cur] = @ + 1]
    /\ worker' = At(w, "deliver")
    /\ UNCHANGED <<mailbox, active, client, programs, failures, crashes>>

\* After the first delivery the tick awaits drivers (KernelActions).
AwaitDrivers(w) ==
    /\ Has(w)
    /\ worker[w].pc = "deliver" /\ worker[w].todo = {} /\ worker[w].pass = 1
    /\ worker' = At(w, "recovering")
    /\ active' = None
    /\ UNCHANGED <<tables, mailbox, pend, client, programs, counts>>

DeliverAgain(w) ==
    /\ LoopFree
    /\ worker[w].pc = "recovering"
    /\ active' = w
    /\ worker' = [worker EXCEPT ![w].pc = "deliver", ![w].pass = 2, ![w].todo = Pending]
    /\ UNCHANGED <<tables, mailbox, pend, client, programs, counts>>

-----------------------------------------------------------------------------
(* tick: stepping the ready processes                                      *)

BeginSchedule(w) ==
    /\ Has(w)
    /\ worker[w].pc = "deliver" /\ worker[w].todo = {} /\ worker[w].pass = 2
    /\ worker' = [worker EXCEPT ![w].pc = "schedule", ![w].cur = None,
                                ![w].todo = {p \in Pids : proc[p].state = "ready"}]
    /\ UNCHANGED <<tables, mailbox, pend, active, client, programs, counts>>

Leave(w) ==
    /\ worker' = [worker EXCEPT ![w] = IdleWorker]
    /\ active' = None

NextProcess(w) ==
    [worker EXCEPT ![w].pc = "schedule", ![w].cur = None]

Scheduling(w, p) == Has(w) /\ worker[w].pc = "schedule" /\ p \in worker[w].todo

\* READY -> RUNNING.  Any order stands for (priority, created_at).
Schedule(w, p) ==
    /\ Scheduling(w, p)
    /\ p \in programs
    /\ Transition(p, "running", NoCondition)
    /\ worker' = [worker EXCEPT ![w].pc = "start", ![w].cur = p, ![w].todo = @ \ {p}]
    /\ UNCHANGED <<mailbox, active, client, programs, counts>>

\* No program in memory, or IllegalStateTransition.
SkipProcess(w, p) ==
    /\ Scheduling(w, p)
    /\ p \in programs => proc[p].state \notin {"ready"} \cup Ended
    /\ worker' = [worker EXCEPT ![w].todo = @ \ {p}]
    /\ UNCHANGED <<tables, mailbox, pend, active, client, programs, counts>>

\* TerminalStateError is not caught and leaves tick().
ScheduleRaises(w, p) ==
    /\ Scheduling(w, p)
    /\ p \in programs
    /\ proc[p].state \in Ended
    /\ Leave(w)
    /\ UNCHANGED <<tables, mailbox, pend, client, programs, counts>>

EndTick(w) ==
    /\ Has(w)
    /\ worker[w].pc = "schedule" /\ worker[w].todo = {}
    /\ Leave(w)
    /\ UNCHANGED <<tables, mailbox, pend, client, programs, counts>>

\* Mutant: the step runs without giving up the loop.
AwaitStep_HoldsLoop(w) ==
    /\ Has(w)
    /\ worker[w].pc = "start"
    /\ worker' = At(w, "stepping")
    /\ UNCHANGED <<tables, mailbox, pend, active, client, programs, counts>>

\* The row is read back, and the program's step awaited.
AwaitStep(w) ==
    /\ Has(w)
    /\ worker[w].pc = "start"
    /\ worker' = At(w, "stepping")
    /\ active' = None
    /\ UNCHANGED <<tables, mailbox, pend, client, programs, counts>>

StepRaises(w) ==
    /\ LoopFree
    /\ worker[w].pc = "stepping"
    /\ \/ /\ Transition(worker[w].cur, "failed", NoCondition)
          /\ active' = w
          /\ worker' = NextProcess(w)
       \/ /\ proc[worker[w].cur].state \in Ended   \* TerminalStateError
          /\ Leave(w)
          /\ UNCHANGED <<tables, pend>>
    /\ UNCHANGED <<mailbox, client, programs, counts>>

\* The event cursor is saved with the row read before the step.
StepReturns(w) ==
    /\ LoopFree
    /\ worker[w].pc = "stepping"
    /\ active' = w
    /\ proc' = [proc EXCEPT ![worker[w].cur] = Pcb("running", NoCondition)]
    /\ worker' = At(w, "request")
    /\ UNCHANGED <<rep, mailbox, pend, client, programs, counts>>

Requesting(w) == Has(w) /\ worker[w].pc = "request"

\* No request, a request that was handled, or a submit that was refused.
Yield(w) ==
    /\ Has(w)
    /\ worker[w].pc \in {"request", "yield"}
    /\ Transition(worker[w].cur, "ready", NoCondition)
    /\ worker' = NextProcess(w)
    /\ UNCHANGED <<mailbox, active, client, programs, counts>>

\* WaitRequest, or an action was submitted: wait for its end.
Block(w, condition) ==
    /\ Requesting(w)
    /\ Transition(worker[w].cur, "blocked", condition)
    /\ worker' = NextProcess(w)
    /\ UNCHANGED <<mailbox, active, client, programs, counts>>

\* SignalRequest; then READY.
SignalRequested(w, m, p, content) ==
    /\ Requesting(w)
    /\ Send(m, p, content)
    /\ worker' = At(w, "yield")
    /\ UNCHANGED <<tables, active, client, programs, counts>>

\* ExitRequest or an exit code, and a request that is no KernelRequest.
Leaves(w, state) ==
    /\ Requesting(w)
    /\ state \in Ended
    /\ Transition(worker[w].cur, state, NoCondition)
    /\ worker' = NextProcess(w)
    /\ UNCHANGED <<mailbox, active, client, programs, counts>>

\* The handler raises (a capability is missing, say): tick() raises, and the
\* process stays running.
RequestRaises(w) ==
    /\ Requesting(w)
    /\ Leave(w)
    /\ UNCHANGED <<tables, mailbox, pend, client, programs, counts>>

-----------------------------------------------------------------------------
(* Crashes                                                                 *)

Crash ==
    /\ crashes < MaxCrashes
    /\ crashes' = crashes + 1
    /\ pend' = {}
    /\ active' = None
    /\ client' = [p \in Pids |-> IF client[p] = "new" THEN "new" ELSE "done"]
    /\ worker' = [w \in Workers |-> IdleWorker]
    /\ programs' = {}
    /\ UNCHANGED <<tables, mailbox, woke, failures>>

\* rebuild_from_journal, which an operator may call while nothing runs.
Rebuild ==
    /\ LoopFree
    /\ \A w \in Workers : worker[w].pc = "idle"
    /\ proc' = rep
    /\ box' = log
    /\ UNCHANGED <<rep, log, letter, pend, active, client, worker, programs, counts>>

TickStep(w) ==
    \/ LeaveInMailbox(w) \/ Consume(w) \/ JournalConsumed(w) \/ Wake(w)
    \/ AwaitDrivers(w) \/ BeginSchedule(w) \/ EndTick(w) \/ AwaitStep(w)
    \/ \E p \in Pids : Schedule(w, p) \/ SkipProcess(w, p) \/ ScheduleRaises(w, p)

Request(w) ==
    \/ Yield(w) \/ RequestRaises(w)
    \/ \E c \in Conditions : Block(w, c)
    \/ \E m \in Mail, p \in Pids, s \in Contents : SignalRequested(w, m, p, s)
    \/ \E state \in Ended : Leaves(w, state)

Resumes(w) == DeliverAgain(w) \/ StepRaises(w) \/ StepReturns(w)

\* What keeps run_until_idle ticking; an unfinished action (KernelActions)
\* would as well.
Busy == \E p \in Pids : proc[p].state = "ready"

RunUntilIdle(w) == Busy /\ BeginTick(w)

Outside ==
    \/ \E p \in Pids : Spawn(p) \/ RegisterProgram(p) \/ SetFailed(p)
    \/ \E m \in Mail, p \in Pids, s \in Contents : SendFromOutside(m, p, s)

CallStep == CallReturns \/ \E p \in Pids : SpawnReady(p)

Next ==
    \/ ProjectProcess \/ ProjectSignal \/ CallStep \/ Outside
    \/ \E w \in Workers : BeginTick(w) \/ TickStep(w) \/ Request(w) \/ Resumes(w)
    \/ Crash
    \/ Rebuild

Spec == Init /\ [][Next]_vars

\* A coroutine that has the loop runs on; one that waits for the loop gets it
\* (asyncio's ready queue is a queue); a program's step ends; run_until_idle
\* calls tick() again while a process is ready, and no longer: nobody need tick
\* an idle kernel.  Nothing is assumed of the callers outside.
Fairness ==
    /\ WF_vars(ProjectProcess \/ ProjectSignal \/ CallStep)
    /\ \A w \in Workers : /\ WF_vars(TickStep(w) \/ Request(w))
                         /\ SF_vars(Resumes(w)) /\ SF_vars(RunUntilIdle(w))
FairSpec == Spec /\ Fairness

-----------------------------------------------------------------------------
(* Properties                                                              *)

\* The tables and the program counters hold what the code can put there.
TypeOK ==
    /\ \A p \in Pids : /\ proc[p].state \in ProcessState
                       /\ rep[p].state \in ProcessState
                       /\ {proc[p].wait, rep[p].wait} \subseteq Conditions \cup {NoCondition}
    /\ \A m \in Mail : {box[m], log[m]} \subseteq {"absent", "pending", "consumed"}
    /\ Cardinality(pend) <= 1
    /\ active \in Pids \cup Workers \cup Mail \cup {None}
    /\ \A w \in Workers : worker[w].pc \in WorkerPcs
    /\ programs \subseteq Pids
    /\ \A w \in Workers : active = w <=>
          worker[w].pc \notin {"idle", "recovering", "stepping"}

Stepping(w, p) == worker[w].pc \in {"start", "stepping", "request", "yield"}
                  /\ worker[w].cur = p

\* Two kernels never step one process at the same time, although each takes
\* its processes from a list read earlier (READY -> RUNNING in
\* _run_process_step).
StepExclusive ==
    \A v, w \in Workers : \A p \in Pids : Stepping(v, p) /\ Stepping(w, p) => v = w

\* "Consumed signals do not re-wake processes" (signal_service.py), crashes
\* and rebuilt projections included.
SignalWakesOnce == \A m \in Mail : woke[m] <= 1

\* "Non-matching signals stay in mailbox" (signal_service.py): whenever the
\* loop is free, and nothing crashed, the signals consumed are those that have
\* woken their target.  A signal read in the list of a pass whose target an
\* earlier signal of the list has woken is kept.
MailboxKept ==
    LoopFree /\ crashes = 0 =>
        \A m \in Mail : (box[m] = "consumed") = (woke[m] = 1)

\* An exited or failed process stays so (TERMINAL_PROCESS_STATES), except one
\* that is failed while a kernel awaits its step.
EndedStaysEnded ==
    \A p \in Pids : proc[p].state \in Ended /\ ~(\E w \in Workers : Stepping(w, p))
                     => proc'[p].state = proc[p].state

\* Whenever the loop is free, and nothing crashed, replaying the journal gives
\* the mailbox and the state of every process, except of one that was failed
\* while a kernel awaited its step and whose request then raised.
ReplayAgrees ==
    LoopFree /\ crashes = 0 =>
        /\ box = log
        /\ \A p \in Pids : \/ rep[p].state = proc[p].state
                           \/ rep[p].state = "failed" /\ proc[p].state = "running"

\* All of the above: what tick(), SignalService and replay keep whatever the
\* kernels, their crashes and the callers outside do.
SignalsAreSound ==
    TypeOK /\ StepExclusive /\ SignalWakesOnce /\ MailboxKept /\ ReplayAgrees

WaitingFor(p, m) ==
    /\ proc[p].state = "blocked"
    /\ box[m] = "pending"
    /\ letter[m].target = p
    /\ Matches(proc[p].wait, letter[m].content)

\* "Signal is durable", "Signal delivery is replayable" (signal_service.py): a
\* blocked process whose mailbox holds a matching signal does not stay blocked,
\* as long as other processes become ready again and again and so keep
\* run_until_idle ticking.  (It returns when nothing is ready, also when a
\* process has just blocked on a signal that is already there.)  It holds while
\* nothing crashes; a crash after _mark_consumed and before the target's
\* transition to READY loses the wakeup.
WaitersAreWoken ==
    []<>Busy => \A p \in Pids, m \in Mail : WaitingFor(p, m) ~> proc[p].state # "blocked"

\* "All transitions are validated [...] No direct state mutation is allowed
\* outside these functions" (state_machine.py): a process that has ended stays
\* ended.  Violated: _run_process_step writes back the row it read before the
\* step, whatever happened to the process while the step was awaited.
ProcessEndIsFinal ==
    [][\A p \in Pids : proc[p].state \in Ended => proc'[p].state = proc[p].state]_vars
=============================================================================
