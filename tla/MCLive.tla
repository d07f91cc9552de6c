------------------------------- MODULE MCLive -------------------------------
(* What the kernel's services promise to get done in the end.  Each of the  *)
(* four runs by itself (part says which), on variables of its own, while    *)
(* the others rest in their first state: the fairness of a service is then  *)
(* fairness of its own steps only.                                          *)
EXTENDS TransactionalOutbox

CONSTANTS Procs,    \* processes that get signals
          Kernels   \* kernels that tick on one database

VARIABLES part,
          acb, arep, apend, rows_, grant, last_token, aactive, aclient, aworker,
          calls, recalls, sent, acrashes,
          edges, priority, held, failed, raised, phase, wait_for, visited, work,
          stack, cycles, todo,
          proc, rep, box, log, letter, pend, active, client, kernel, programs,
          woke, failures, crashes

\* One action, submitted with each class and policy, ticked by two kernels.
A == INSTANCE KernelActions WITH
       Actions <- {"a1"}, Workers <- {"w1", "w2"}, Resources <- {"r1"},
       NoResource <- "no resource", Nobody <- "nobody",
       Classes <- {"pure", "idempotent", "non_reversible"},
       Policies <- {"retry", "inspect", "uncertain"}, MaxCrashes <- 2,
       rep <- arep, pend <- apend, rows <- rows_, active <- aactive,
       client <- aclient, worker <- aworker, crashes <- acrashes

\* Every wait-for graph of four processes.
D == INSTANCE DeadlockRecovery WITH
       NumPids <- 4, Priorities <- {10}, MaxExtra <- 0

\* The end of an action and a signal of a client; what _run_process_step makes
\* a submitter wait for.
SignalContents ==
    {[type |-> "ACTION_FAILED", action_id |-> "a"],
     [type |-> "RESUME", action_id |-> None]}
SignalConditions ==
    {[signal_type |-> None, action_id |-> "a",
      signal_types |-> {"ACTION_COMPLETED", "ACTION_FAILED", "ACTION_UNCERTAIN"}]}

S == INSTANCE ProcessSignals WITH
       Pids <- Procs, Workers <- Kernels,
       Contents <- SignalContents, Conditions <- SignalConditions,
       MaxSignals <- 1, MaxFailures <- 0, MaxCrashes <- 0, worker <- kernel

aVars == <<acb, arep, apend, rows_, grant, last_token, aactive, aclient, aworker,
           calls, recalls, sent, acrashes>>
dVars == <<edges, priority, held, failed, raised, phase, wait_for, visited, work,
           stack, cycles, todo>>
sVars == <<proc, rep, box, log, letter, pend, active, client, kernel, programs,
           woke, failures, crashes>>
allVars == <<part, vars, aVars, dVars, sVars>>

LiveInit ==
    /\ part \in {"outbox", "actions", "deadlocks", "signals"}
    /\ Init /\ A!Init /\ D!Init /\ S!Init
    /\ part # "deadlocks" => edges = [p \in D!Pids |-> {}]

LiveNext ==
    /\ UNCHANGED part
    /\ \/ part = "outbox" /\ Next /\ UNCHANGED <<aVars, dVars, sVars>>
       \/ part = "actions" /\ A!Next /\ UNCHANGED <<vars, dVars, sVars>>
       \/ part = "deadlocks" /\ D!Next /\ UNCHANGED <<vars, aVars, sVars>>
       \/ part = "signals" /\ S!Next /\ UNCHANGED <<vars, aVars, dVars>>

LiveSpec == LiveInit /\ [][LiveNext]_allVars

\* Every admitted action becomes terminal, although kernels race for it and
\* crash between any two of their writes (ActionService, KernelRuntime.tick).
EventuallySettled == part = "actions" => (A!Fairness => A!EventuallySettled)

\* A committed intent is delivered in the end although another key fails on
\* every attempt, and a failing key never takes a turn of a drain from one
\* that was ready (dispatch_ready).
IntentsAreDelivered ==
    /\ [][part = "outbox" => FailureTakesItsTurn]_allVars
    /\ part = "outbox" => (Fairness => GoodIntentsAreDelivered)

\* A blocked process whose mailbox holds a matching signal is woken, as long as
\* no kernel crashes and other processes keep run_until_idle ticking
\* (deliver_pending).
WaitersAreWoken == part = "signals" => (S!Fairness => S!WaitersAreWoken)

\* detect_deadlocks reports only cycles of the wait-for graph, and one at least
\* of every group of processes that wait for each other.
CyclesAreExact ==
    part = "deadlocks" => D!TypeOK /\ D!ReportedCyclesAreGenuine /\ D!EveryGroupIsReported

\* Ticking fails only deadlocked processes, and goes on until there are none
\* (recover_deadlocks).
DeadlocksAreResolved ==
    /\ [][part = "deadlocks" => D!VictimsWereDeadlocked]_allVars
    /\ part = "deadlocks" => (D!Fairness => D!DeadlocksAreResolved)
=============================================================================
