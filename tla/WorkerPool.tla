----------------------------- MODULE WorkerPool -----------------------------
(***************************************************************************)
(* AsyncWorkerPool (worker_pool.py): jobs of claimed tasks wait for units  *)
(* of their agent's limiter and of the global one, run under a heartbeat   *)
(* and a cooperative cancellation token, and either cross the scheduler's  *)
(* operational-success fence or give their claim back.  A step is what one *)
(* coroutine does between two awaits; interrupts come from any thread.     *)
(***************************************************************************)
EXTENDS Integers, FiniteSets, SequencesExt

CONSTANTS Jobs, Agents,
          AgentOf, Units,        \* job -> agent, job -> capacity units
          Limit,                 \* limiter -> units
          Capable                \* jobs whose dispatcher takes the token

Global == "global"
Limiters == Agents \cup {Global}

VARIABLES used, queue,   \* per limiter: units granted, FIFO of waiting jobs
          job,           \* per job: where its coroutine is, and its locals
          claim          \* the scheduler's view of each job's claim

vars == <<used, queue, job, claim>>

NewJob == [pc |-> "new",       \* where _execute is
           beat |-> "idle",    \* idle, calling or failed
           result |-> "none",  \* what the dispatcher returned
           asked |-> FALSE, observed |-> FALSE]

Init ==
  /\ used = [l \in Limiters |-> 0] /\ queue = [l \in Limiters |-> <<>>]
  /\ job = [j \in Jobs |-> NewJob]
  /\ claim = [j \in Jobs |-> "active"]

To(J, j, pc) == [J EXCEPT ![j].pc = pc]

(* A waiter of l that has been granted its units has not resumed yet. *)
Waiting(l) == IF l = Global THEN "wait_global" ELSE "wait_agent"
Granted(l) == IF l = Global THEN "got_global" ELSE "got_agent"

(* _drain_waiters: grants are taken from the head only, each one whole. *)
Drain(l, S) ==
  LET fit[n \in 0..Len(S.queue[l])] ==
        IF n = 0 THEN S.used[l] ELSE fit[n - 1] + Units[S.queue[l][n]]
      n == CHOOSE k \in 0..Len(S.queue[l]) :
             /\ fit[k] <= Limit[l]
             /\ k = Len(S.queue[l]) \/ fit[k + 1] > Limit[l]
  IN [used |-> [S.used EXCEPT ![l] = fit[n]],
      queue |-> [S.queue EXCEPT ![l] = SubSeq(@, n + 1, Len(@))],
      job |-> [j \in Jobs |->
                 IF j \in ToSet(SubSeq(S.queue[l], 1, n))
                 THEN [S.job[j] EXCEPT !.pc = Granted(l)] ELSE S.job[j]]]

Now == [used |-> used, queue |-> queue, job |-> job]

Become(S) == used' = S.used /\ queue' = S.queue /\ job' = S.job

(* A request joins the queue even if it would fit but others wait. *)
Acquire(l, j, S) ==
  IF S.queue[l] = <<>> /\ Units[j] <= Limit[l] - S.used[l]
  THEN [S EXCEPT !.used[l] = @ + Units[j], !.job = To(@, j, Granted(l))]
  ELSE Drain(l, [S EXCEPT !.queue[l] = Append(@, j),
                          !.job = To(@, j, Waiting(l))])

Release(l, j, S) == Drain(l, [S EXCEPT !.used[l] = @ - Units[j]])

Leave(l, j, S) ==
  Drain(l, [S EXCEPT !.queue[l] = SelectSeq(@, LAMBDA k : k # j)])

(* What the coroutine holds, by where it is. *)
HoldsAgent(j) == job[j].pc \in {"got_agent", "wait_global", "got_global",
                                "dispatching", "fenced", "publishing"}
HoldsGlobal(j) ==
  job[j].pc \in {"got_global", "dispatching", "fenced", "publishing"}

(* The end of _execute: units go back, agent first; tokens are dropped. *)
End_KeepsAgent(j, pc) ==
  LET out == [Now EXCEPT !.job = [@ EXCEPT ![j] = [NewJob EXCEPT !.pc = pc]]]
  IN Become(IF HoldsGlobal(j) THEN Release(Global, j, out) ELSE out)

End(j, pc) ==
  LET out == [Now EXCEPT !.job = [@ EXCEPT ![j] = [NewJob EXCEPT !.pc = pc]]]
      one == IF job[j].pc = "wait_agent" THEN Leave(AgentOf[j], j, out)
             ELSE IF job[j].pc = "wait_global" THEN Leave(Global, j, out)
             ELSE out
      two == IF HoldsAgent(j) THEN Release(AgentOf[j], j, one) ELSE one
  IN Become(IF HoldsGlobal(j) THEN Release(Global, j, two) ELSE two)

(* _release_after_failure names the claim it owned, so that it releases    *)
(* nothing that was reassigned meanwhile; a refusal is left to             *)
(* reconciliation. *)
ReleaseClaim(j) ==
  claim' \in {claim, [claim EXCEPT ![j] = IF @ = "active" THEN "released" ELSE @]}

Fail(j) == End(j, "failed") /\ ReleaseClaim(j)

-----------------------------------------------------------------------------
(* submit: the narrower limiter first; too large a request is refused. *)
Submit(j) ==
  /\ job[j].pc = "new"
  /\ IF Units[j] > Limit[AgentOf[j]] THEN Fail(j)
     ELSE Become(Acquire(AgentOf[j], j, Now)) /\ UNCHANGED claim

AcquireGlobal(j) ==
  /\ job[j].pc = "got_agent"
  /\ IF Units[j] > Limit[Global] THEN Fail(j)
     ELSE Become(Acquire(Global, j, Now)) /\ UNCHANGED claim

(* mark_execution_started and the heartbeat that must succeed before any   *)
(* work: both need the claim. *)
Start(j) ==
  /\ job[j].pc = "got_global"
  /\ IF claim[j] = "active"
     THEN job' = To(job, j, "dispatching") /\ UNCHANGED <<used, queue, claim>>
     ELSE Fail(j)

DispatchReturns(j, result) ==
  /\ job[j].pc = "dispatching" /\ job[j].result = "none"
  /\ job' = [job EXCEPT ![j].result = result]
  /\ UNCHANGED <<used, queue, claim>>

(* The heartbeat takes its lock and asks the scheduler to renew. *)
HeartbeatCalls(j) ==
  /\ job[j].pc = "dispatching" /\ job[j].beat = "idle"
  /\ job' = [job EXCEPT ![j].beat = "calling"]
  /\ UNCHANGED <<used, queue, claim>>

HeartbeatReturns(j, renewed) ==
  /\ job[j].pc = "dispatching" /\ job[j].beat = "calling"
  /\ renewed => claim[j] = "active"
  /\ job' = [job EXCEPT ![j].beat = IF renewed THEN "idle" ELSE "failed"]
  /\ UNCHANGED <<used, queue, claim>>

(* A failed heartbeat cancels the dispatch and wins over its result. *)
HeartbeatFailed(j) ==
  /\ job[j].pc = "dispatching" /\ job[j].beat = "failed"
  /\ Fail(j)

InterruptPending_Observed(j) == j \in Capable /\ job[j].asked /\ job[j].observed

InterruptPending(j) == j \in Capable /\ job[j].asked

(* The dispatch has returned and no heartbeat call is in flight: pending   *)
(* interrupts and refusals end the job, observed or not. *)
Decide(j) ==
  /\ job[j].pc = "dispatching" /\ job[j].result # "none" /\ job[j].beat = "idle"
  /\ IF InterruptPending(j) \/ job[j].result = "refused" THEN Fail(j)
     ELSE job' = To(job, j, "fenced") /\ UNCHANGED <<used, queue, claim>>

(* mark_execution_operationally_succeeded: a claim that is gone admits no  *)
(* completion, and on_success is not called. *)
Fence_Unread(j) ==
  /\ job[j].pc = "fenced"
  /\ job' = To(job, j, "publishing") /\ UNCHANGED <<used, queue, claim>>

Fence(j) ==
  /\ job[j].pc = "fenced"
  /\ IF claim[j] = "active"
     THEN job' = To(job, j, "publishing") /\ UNCHANGED <<used, queue, claim>>
     ELSE Fail(j)

(* on_success is awaited after the fence and the claim is not read again:  *)
(* verify_and_commit publishes under a fence of its own, and returns       *)
(* normally when that one is lost, having released the claim; or it        *)
(* raises. *)
OnSuccessReturns(j, raised) ==
  /\ job[j].pc = "publishing"
  /\ IF raised THEN Fail(j) ELSE End(j, "succeeded") /\ ReleaseClaim(j)

(* request_interrupt finds a token only while the job runs; a second       *)
(* request changes nothing. *)
RequestInterrupt(j) ==
  /\ job[j].pc \in {"dispatching", "fenced", "publishing"} /\ ~job[j].asked
  /\ job' = [job EXCEPT ![j].asked = TRUE]
  /\ UNCHANGED <<used, queue, claim>>

Observe(j) ==
  /\ job[j].pc = "dispatching" /\ j \in Capable /\ job[j].result = "none"
  /\ job[j].asked /\ ~job[j].observed
  /\ job' = [job EXCEPT ![j].observed = TRUE, ![j].result = "refused"]
  /\ UNCHANGED <<used, queue, claim>>

(* The caller of run or run_streaming is cancelled. *)
Cancel(j) ==
  /\ job[j].pc \in {"wait_agent", "got_agent", "wait_global", "got_global",
                    "dispatching", "publishing"}
  /\ Fail(j)

(* A lease expires, or the claim is taken from this worker. *)
LoseClaim(j) ==
  /\ claim[j] = "active" /\ job[j].pc # "new"
  /\ claim' = [claim EXCEPT ![j] = "lost"]
  /\ UNCHANGED <<used, queue, job>>

Over == \A j \in Jobs : job[j].pc \in {"succeeded", "failed"}

Next ==
  \/ \E j \in Jobs :
       \/ Submit(j) \/ AcquireGlobal(j) \/ Start(j) \/ HeartbeatCalls(j)
       \/ \E r \in {"ok", "refused"} : DispatchReturns(j, r)
       \/ \E b \in BOOLEAN : HeartbeatReturns(j, b) \/ OnSuccessReturns(j, b)
       \/ HeartbeatFailed(j) \/ Decide(j) \/ Fence(j) \/ RequestInterrupt(j)
       \/ Observe(j) \/ Cancel(j) \/ LoseClaim(j)
  \/ Over /\ UNCHANGED vars

Spec == Init /\ [][Next]_vars
-----------------------------------------------------------------------------
SumUnits(S) == LET f[T \in SUBSET S] == IF T = {} THEN 0 ELSE
                     LET j == CHOOSE x \in T : TRUE IN Units[j] + f[T \ {j}]
               IN f[S]

(* Cancellation at any await, weighted requests and two limiters: units    *)
(* granted are exactly those of the coroutines that hold them and never    *)
(* exceed the limit; nobody waits behind a request that would fit; and     *)
(* whoever waits, somebody who waits for nothing will give units back.     *)
CapacityIsConserved ==
  /\ \A l \in Limiters :
       /\ used[l] <= Limit[l]
       /\ used[l] = SumUnits({j \in Jobs : IF l = Global THEN HoldsGlobal(j)
                                           ELSE AgentOf[j] = l /\ HoldsAgent(j)})
       /\ queue[l] # <<>> => used[l] + Units[Head(queue[l])] > Limit[l]
  /\ (\E l \in Limiters : queue[l] # <<>>) =>
       \E j \in Jobs : job[j].pc \in {"got_agent", "got_global", "dispatching",
                                      "fenced", "publishing"}

(* on_success, the only call that may publish evidence, is made for a job  *)
(* whose claim is active at the fence, whose dispatcher accepted and whose *)
(* heartbeat has not failed and is not being asked; the fence is not       *)
(* reached with an interrupt pending that the dispatcher could have        *)
(* observed; no other path ends in SUCCEEDED; and a failure releases no    *)
(* claim that was taken away.  The claim may be lost while on_success is   *)
(* awaited, and the outcome is then SUCCEEDED all the same.                *)
SuccessIsFenced ==
  \A j \in Jobs :
    LET Enters(pc) == job'[j].pc = pc /\ job[j].pc # pc
    IN /\ Enters("fenced") => ~(j \in Capable /\ job[j].asked)
       /\ Enters("publishing") =>
            claim[j] = "active" /\ job[j].beat = "idle" /\ job[j].result = "ok"
       /\ Enters("succeeded") => job[j].pc = "publishing"
       /\ claim[j] = "lost" => claim'[j] = "lost"
=============================================================================
