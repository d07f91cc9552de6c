----------------------------- MODULE DshAdapter -----------------------------
(***************************************************************************)
(* One DeepSeekHarnessAdapter.execute (integrations/harness/deepseek.py)   *)
(* with the process it manages (run_managed_process, process.py): a loop   *)
(* of sub-attempts, each with an intent written once the process runs, and *)
(* an events file and a record written when it is over.  The process tree  *)
(* has a direct child and perhaps a descendant that holds the pipes.  The  *)
(* caller may interrupt, the asyncio task may be cancelled, and the host   *)
(* may crash; nothing outlives a crash but the files and the processes.    *)
(***************************************************************************)
EXTENDS Naturals, FiniteSets, FiniteSetsExt, Functions, TLC

CONSTANTS
  Shared,        \* does the phase name a home of its own (resume_dsh_home)
  MaxAttempts,   \* min(retry.max_attempts, harness_max_attempts)
  MaxCalls       \* bound on provider calls of one sub-attempt

Exits == {"completed", "idle", "cut", "transient", "fatal", "killed"}

VARIABLES
  pc, attempt,
  child,       \* "none", "running" or how the direct child exited
  held,        \* does a descendant hold the output pipes
  pending,     \* request_pending of the cancellation token
  attached,    \* the record attached to the token or the error (0: none)
  stopped,     \* terminated_by ("" when the process ended by itself)
  spent,       \* provider calls in each home's session log
  cost,        \* provider calls each sub-attempt really made
  intents, events, records

vars == <<pc, attempt, child, held, pending, attached, stopped, spent, cost, intents, events, records>>
disk == <<intents, events, records>>

Attempts == 1 .. MaxAttempts
Home(n) == IF Shared THEN 0 ELSE n
Over == pc \in {"returned", "failed", "interrupted", "cancelled", "crashed"}

Init ==
  /\ pc = "idle" /\ attempt = 0 /\ child = "none" /\ held = FALSE
  /\ pending = FALSE /\ attached = 0 /\ stopped = ""
  /\ spent = [h \in 0 .. MaxAttempts |-> 0] /\ cost = [n \in Attempts |-> 0]
  /\ intents = {} /\ events = {} /\ records = <<>>

-----------------------------------------------------------------------------
(* What an ended process means (classify_deepseek_failure). *)

Failure(class, retryable) == [class |-> class, retryable |-> retryable]
Success == Failure("none", FALSE)

\* How the process was stopped decides before its exit code.
StoppedFailure ==
  CASE stopped = "semantic_interrupt" -> Failure("preempted", FALSE)
    [] stopped = "wall_clock_timeout" -> Failure("timeout", TRUE)
    [] stopped = "pipe_drain_timeout" -> Failure("sandbox_error", FALSE)

\* A mutant: exit code 0 is success.
ZeroFailure_Any(calls) == Success

\* Exit code 0 is success only with committed provider usage and a turn that
\* says it completed, and with the configured provider and model ("cut"
\* stands for either of the last two missing).
ZeroFailure(calls) ==
  IF calls = 0 \/ child = "cut" THEN Failure("protocol_malformed", FALSE) ELSE Success

\* A non-zero exit: rate limits, 5xx, the network and a bare exit code are
\* retried; cancellation, policy, authentication and bad requests are not.
ProviderFailure == Failure(child, child \in {"transient", "killed"})

Verdict(calls) ==
  IF stopped # "" THEN StoppedFailure
  ELSE IF child \in {"completed", "idle", "cut"} THEN ZeroFailure(calls) ELSE ProviderFailure

-----------------------------------------------------------------------------
(* The managed process. *)

Spawn ==
  /\ pc \in {"idle", "retry"} /\ attempt < MaxAttempts
  /\ attempt' = attempt + 1
  /\ child' = "running" /\ held' \in BOOLEAN /\ stopped' = ""
  /\ pc' = "spawned"
  /\ UNCHANGED <<pending, attached, spent, cost, disk>>

\* on_started: the intent is on disk before the process is waited for.
PersistIntent ==
  /\ pc = "spawned"
  /\ intents' = intents \cup {attempt}
  /\ pc' = "polling"
  /\ UNCHANGED <<attempt, child, held, pending, attached, stopped, spent, cost, events, records>>

\* _terminate_process_tree: the group is signalled, then killed, and reaped.
\* The waits between are one step: a second cancellation that falls into them
\* is left out.
TerminateTree ==
  /\ child' = IF child = "running" THEN "killed" ELSE child
  /\ held' = FALSE

\* An error on the way stops the tree only while the direct child still runs.
Abandon == IF child = "running" THEN TerminateTree ELSE UNCHANGED <<child, held>>

\* The intent could not be written, and the error goes up.
IntentFails ==
  /\ pc = "spawned" /\ Abandon
  /\ pc' = "cancelled"
  /\ UNCHANGED <<attempt, pending, attached, stopped, spent, cost, disk>>

\* One turn of the poll loop that ends it: an interrupt first, then the
\* deadline, then pipes that stay open after the child is gone.  Each stops
\* the whole tree.
Stop(why) ==
  /\ pc = "polling" /\ (child = "running" \/ held)
  /\ why = "semantic_interrupt" <=> pending
  /\ why = "pipe_drain_timeout" => child # "running"
  /\ stopped' = why /\ TerminateTree
  /\ pc' = "ended"
  /\ UNCHANGED <<attempt, pending, attached, spent, cost, disk>>

Ends ==
  /\ pc = "polling" /\ child # "running" /\ ~held
  /\ pc' = "ended"
  /\ UNCHANGED <<attempt, child, held, pending, attached, stopped, spent, cost, disk>>

\* The asyncio task is cancelled, in the poll loop or in the retry delay.
TaskCancelled ==
  /\ pc \in {"polling", "retry"} /\ Abandon
  /\ pc' = "cancelled"
  /\ UNCHANGED <<attempt, pending, attached, stopped, spent, cost, disk>>

-----------------------------------------------------------------------------
(* The record of a sub-attempt. *)

\* The usage of the log in this sub-attempt's home.
Parsed == spent[Home(attempt)]

PriorTotal == IF attempt > 1 THEN records[attempt - 1].total ELSE 0

Record == [usage |-> Parsed, total |-> PriorTotal + Parsed, failure |-> Verdict(Parsed)]

WriteEvents ==
  /\ pc = "ended" /\ events' = events \cup {attempt} /\ pc' = "events"
  /\ UNCHANGED <<attempt, child, held, pending, attached, stopped, spent, cost, intents, records>>

WriteRecord ==
  /\ pc = "events" /\ records' = records @@ (attempt :> Record) /\ pc' = "record"
  /\ UNCHANGED <<attempt, child, held, pending, attached, stopped, spent, cost, intents, events>>

DropIntent ==
  /\ pc = "record" /\ intents' = intents \ {attempt} /\ pc' = "recorded"
  /\ UNCHANGED <<attempt, child, held, pending, attached, stopped, spent, cost, events, records>>

\* What execute does with the record: hand it to the token and raise, return
\* it, give up, or wait for the next sub-attempt.
Settle ==
  /\ pc = "recorded"
  /\ LET failure == records[attempt].failure IN
       /\ pc' = IF stopped = "semantic_interrupt" THEN "interrupted"
                ELSE IF failure.class = "none" THEN "returned"
                ELSE IF ~failure.retryable \/ attempt >= MaxAttempts THEN "failed" ELSE "retry"
       /\ attached' = IF pc' \in {"interrupted", "failed"} THEN attempt ELSE attached
  /\ UNCHANGED <<attempt, child, held, pending, stopped, spent, cost, disk>>

\* _wait_retry_delay sees the request: the last record goes up with it.
InterruptedDelay ==
  /\ pc = "retry" /\ pending
  /\ attached' = attempt /\ pc' = "interrupted"
  /\ UNCHANGED <<attempt, child, held, pending, stopped, spent, cost, disk>>

-----------------------------------------------------------------------------
(* The surroundings. *)

\* The child commits one provider call to its session log.
ProviderCall ==
  /\ child = "running" /\ cost[attempt] < MaxCalls
  /\ spent' = [spent EXCEPT ![Home(attempt)] = @ + 1]
  /\ cost' = [cost EXCEPT ![attempt] = @ + 1]
  /\ UNCHANGED <<pc, attempt, child, held, pending, attached, stopped, disk>>

ChildExits(how) ==
  /\ child = "running"
  /\ how \in {"completed", "cut"} => cost[attempt] > 0
  /\ how = "idle" => cost[attempt] = 0
  /\ child' = how
  /\ UNCHANGED <<pc, attempt, held, pending, attached, stopped, spent, cost, disk>>

DescendantExits ==
  /\ held /\ held' = FALSE
  /\ UNCHANGED <<pc, attempt, child, pending, attached, stopped, spent, cost, disk>>

RequestInterrupt ==
  /\ ~pending /\ ~Over /\ pending' = TRUE
  /\ UNCHANGED <<pc, attempt, child, held, attached, stopped, spent, cost, disk>>

Crash ==
  /\ ~Over /\ pc' = "crashed"
  /\ UNCHANGED <<attempt, child, held, pending, attached, stopped, spent, cost, disk>>

Next ==
  \/ Spawn \/ PersistIntent \/ IntentFails \/ Ends \/ TaskCancelled
  \/ \E why \in {"semantic_interrupt", "wall_clock_timeout", "pipe_drain_timeout"} : Stop(why)
  \/ WriteEvents \/ WriteRecord \/ DropIntent \/ Settle \/ InterruptedDelay
  \/ ProviderCall \/ DescendantExits \/ RequestInterrupt \/ Crash
  \/ \E how \in Exits : ChildExits(how)

Spec == Init /\ [][Next]_vars

-----------------------------------------------------------------------------
\* Whatever stops the loop, every process it started is accounted for.  A
\* sub-attempt that is waited for has its intent or its record on disk, and
\* a record never stands without its events (_write_intent, _write_record).
\* No direct child outlives execute unless the host died.  The newest
\* record's total is what the recorded sub-attempts really used; it is the
\* outcome that goes up with a return, a failure or an interrupt; and only a
\* process that committed usage, completed its turn and was not stopped is
\* returned as completed (execute, run_managed_process,
\* classify_deepseek_failure).
AttemptsAreAccounted ==
  /\ \A n \in 1 .. attempt :
       \/ n \in intents \cup DOMAIN records
       \/ n = attempt /\ pc \in {"spawned", "crashed", "cancelled"}
  /\ DOMAIN records \subseteq events
  /\ Over /\ pc # "crashed" => child # "running"
  /\ \A n \in DOMAIN records : ~Shared =>
       records[n].total = MapThenSumSet(LAMBDA k : cost[k], 1 .. n)
  /\ pc \in {"interrupted", "failed"} => attached = attempt
  /\ pc = "returned" => child = "completed" /\ cost[attempt] > 0 /\ stopped = ""
=============================================================================
