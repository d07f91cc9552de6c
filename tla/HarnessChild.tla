---------------------------- MODULE HarnessChild ----------------------------
(***************************************************************************)
(* sdk/subprocess_harness.py: one killable child process behind the five   *)
(* Harness operations.  A control request runs a hook in a worker thread;  *)
(* the asyncio task that waits for it can be cancelled, the thread cannot. *)
(* The watchdog, a PREEMPT and close() all end in terminate_and_reap,      *)
(* which holds the child's lock across the graceful wait and the kill.     *)
(***************************************************************************)
EXTENDS Naturals, FiniteSets, TLAPS

CONSTANTS WallClock,     \* is a wall-clock timeout configured
          MaxRequests    \* bound on control requests

Terminators == {"preempt", "wall_clock_timeout", "close"}

VARIABLES
  child,       \* "none", "running", or how it ended: "ok", "bad", "killed"
  session,     \* HarnessSessionState of the inner adapter
  waiting,     \* the request whose task still awaits its hook ({} or {op})
  starter,     \* is a worker thread about to call start()
  polled,      \* what CONTINUE's poll() returned ({} when none is pending)
  stage,       \* where each terminate_and_reap stands
  reason,      \* _terminated_by ({} or {r})
  timedOut,    \* _timed_out
  hardKilled,  \* _hard_killed
  ended,       \* is _ended_monotonic set
  stuck,       \* did the wait after a kill run out with the child alive
  missed,      \* did close() find no process to stop
  requests

vars == <<child, session, waiting, starter, polled, stage, reason, timedOut,
          hardKilled, ended, stuck, missed, requests>>
childVars == <<reason, timedOut, hardKilled, ended, stuck, missed>>

Init ==
  /\ child = "none" /\ session = "created"
  /\ waiting = {} /\ starter = FALSE /\ polled = {}
  /\ stage = [t \in Terminators |-> "idle"]
  /\ reason = {} /\ timedOut = FALSE /\ hardKilled = FALSE
  /\ ended = FALSE /\ stuck = FALSE /\ missed = FALSE /\ requests = 0

Locked == \E t \in Terminators : stage[t] \in {"grace", "killing"}
Exited == child \in {"ok", "bad", "killed"}

\* The states a request is admitted in (_ALLOWED_STATES); the subprocess
\* adapter declares no REBASE.
AllowedIn(op) ==
  CASE op = "start" -> {"created"}
    [] op = "continue" -> {"running", "checkpointed"}
    [] op = "checkpoint" -> {"running"}
    [] op = "preempt" -> {"running", "checkpointed"}

\* _finalize_locked.
Finalized == ended' = TRUE

-----------------------------------------------------------------------------
(* Control requests: the adapter's own lock admits one at a time. *)

Request(op) ==
  /\ waiting = {} /\ requests < MaxRequests /\ session \in AllowedIn(op)
  /\ op = "start" => ~starter
  /\ op = "preempt" => stage["preempt"] = "idle"
  /\ requests' = requests + 1
  /\ IF op = "checkpoint"
     THEN /\ ~Locked /\ session' = "checkpointed"
          /\ UNCHANGED <<waiting, starter, stage>>
     ELSE /\ waiting' = {op}
          /\ starter' = (starter \/ op = "start")
          /\ stage' = IF op = "preempt" THEN [stage EXCEPT !["preempt"] = "called"] ELSE stage
          /\ UNCHANGED session
  /\ UNCHANGED <<child, polled, childVars>>

\* The asyncio task is cancelled while its hook's thread runs on.
CancelRequest ==
  /\ waiting # {}
  /\ waiting' = {} /\ polled' = {}
  /\ UNCHANGED <<child, session, starter, stage, childVars, requests>>

\* start() in its thread: a second start of the same child is refused, and
\* the FAILED result leaves the session where it was.
Start ==
  /\ starter /\ ~Locked
  /\ starter' = FALSE
  /\ child' = IF child = "none" THEN "running" ELSE child
  /\ waiting' = waiting \ {"start"}
  /\ session' = IF "start" \in waiting /\ child = "none" THEN "running" ELSE session
  /\ UNCHANGED <<polled, stage, childVars, requests>>

\* poll() reads the exit code without the lock, and only a set code makes
\* it take the lock to note the end.
Poll ==
  /\ "continue" \in waiting /\ polled = {}
  /\ Exited => ~Locked
  /\ polled' = {child}
  /\ ended' = (ended \/ Exited)
  /\ UNCHANGED <<child, session, waiting, starter, stage, reason, timedOut, hardKilled, stuck, missed, requests>>

\* The verdict on the polled code, with usage() read after it: still running,
\* over the time limit, failed, or completed.
Completes(code) == code = "ok" /\ ~timedOut

Continue ==
  /\ polled # {} /\ ~Locked
  /\ \E code \in polled :
       session' = IF code \in {"none", "running"} THEN "running"
                  ELSE IF Completes(code) THEN "completed" ELSE session
  /\ waiting' = {} /\ polled' = {}
  /\ UNCHANGED <<child, starter, stage, childVars, requests>>

-----------------------------------------------------------------------------
(* Ending the child. *)

\* The watchdog's wait ran out: the flag is set, also for a child that exited
\* meanwhile, and the lock given back before the termination starts.
WatchdogExpires ==
  /\ WallClock /\ child # "none" /\ ~Locked
  /\ stage["wall_clock_timeout"] = "idle"
  /\ timedOut' = TRUE
  /\ stage' = [stage EXCEPT !["wall_clock_timeout"] = "called"]
  /\ UNCHANGED <<child, session, waiting, starter, polled, reason, hardKilled, ended, stuck, missed, requests>>

Close ==
  /\ stage["close"] = "idle"
  /\ stage' = [stage EXCEPT !["close"] = "called"]
  /\ UNCHANGED <<child, session, waiting, starter, polled, childVars, requests>>

FirstReason(t) == IF reason = {} THEN {t} ELSE reason

\* terminate_and_reap up to its first wait: nothing to stop, already gone,
\* a graceful signal, or (close) the kill at once.
Terminate(t) ==
  /\ stage[t] = "called" /\ ~Locked
  /\ reason' = IF child = "none" THEN reason ELSE FirstReason(t)
  /\ ended' = (ended \/ Exited)
  /\ stage' = [stage EXCEPT ![t] = IF child # "running" THEN "done"
                                   ELSE IF t = "close" THEN "killing" ELSE "grace"]
  /\ hardKilled' = (hardKilled \/ (child = "running" /\ t = "close"))
  /\ missed' = (missed \/ (t = "close" /\ child = "none"))
  /\ UNCHANGED <<child, session, waiting, starter, polled, timedOut, stuck, requests>>

\* A mutant: a child that outlives the grace period is taken for reaped.
AfterGrace_NoKill(t) ==
  /\ stage[t] = "grace"
  /\ stage' = [stage EXCEPT ![t] = "done"]
  /\ UNCHANGED hardKilled /\ Finalized

\* The grace period is over: reaped, or killed.
AfterGrace(t) ==
  /\ stage[t] = "grace"
  /\ IF child = "running"
     THEN /\ stage' = [stage EXCEPT ![t] = "killing"]
          /\ hardKilled' = TRUE /\ UNCHANGED ended
     ELSE /\ stage' = [stage EXCEPT ![t] = "done"]
          /\ UNCHANGED hardKilled /\ Finalized

Grace(t) ==
  /\ AfterGrace(t)
  /\ UNCHANGED <<child, session, waiting, starter, polled, reason, timedOut, stuck, missed, requests>>

\* The wait after the kill returns, or gives up on a child that will not die.
Reap(t) ==
  /\ stage[t] = "killing"
  /\ stage' = [stage EXCEPT ![t] = "done"]
  /\ stuck' = (stuck \/ child = "running")
  /\ Finalized
  /\ UNCHANGED <<child, session, waiting, starter, polled, reason, timedOut, hardKilled, missed, requests>>

\* _on_preempt's answer, once its thread has returned; without a task that
\* waits for it the thread's return changes nothing.
PreemptReturns ==
  /\ stage["preempt"] = "done" /\ ~Locked
  /\ stage' = [stage EXCEPT !["preempt"] = "idle"]
  /\ session' = IF "preempt" \in waiting THEN "preempted" ELSE session
  /\ waiting' = waiting \ {"preempt"}
  /\ UNCHANGED <<child, starter, polled, childVars, requests>>

\* The child ends by itself, on the graceful signal, or killed.
ChildExits ==
  /\ child = "running"
  /\ child' \in {"ok", "bad"} \cup IF Locked THEN {"killed"} ELSE {}
  /\ UNCHANGED <<session, waiting, starter, polled, stage, childVars, requests>>

Next ==
  \/ \E op \in {"start", "continue", "checkpoint", "preempt"} : Request(op)
  \/ CancelRequest \/ Start \/ Poll \/ Continue
  \/ WatchdogExpires \/ Close
  \/ \E t \in Terminators : Terminate(t) \/ Grace(t) \/ Reap(t)
  \/ PreemptReturns \/ ChildExits

Spec == Init /\ [][Next]_vars

-----------------------------------------------------------------------------
\* What the adapter reports of its child is so, however the watchdog, a
\* PREEMPT, a cancelled request and close() interleave: a completed session
\* had a child that exited with 0; a preempted one, and a closed adapter that
\* found a child to stop, have none running unless the wait after the kill
\* itself ran out; an end time belongs to a child that is gone; and only a
\* named terminator ever kills (_ChildProcess.terminate_and_reap, _on_continue,
\* _on_preempt).
ChildIsAccounted ==
  /\ session = "completed" => child = "ok"
  /\ session = "preempted" \/ (stage["close"] = "done" /\ ~missed) => child # "running" \/ stuck
  /\ ended => Exited \/ stuck
  /\ hardKilled \/ child = "killed" => reason # {}

\* The adapter's account only grows: the first terminator's reason is kept,
\* the timeout flag is never withdrawn, and a child is started once.
AccountIsMonotone ==
  /\ reason # {} => reason' = reason
  /\ timedOut => timedOut'
  /\ child # "none" => child' # "none" /\ (Exited => child' = child)
-----------------------------------------------------------------------------
(* The proof that the account is right in every reachable state. *)

TypeOK ==
  /\ child \in {"none", "running", "ok", "bad", "killed"}
  /\ session \in {"created", "running", "checkpointed", "completed", "preempted"}
  /\ waiting \subseteq {"start", "continue", "preempt"}
  /\ polled \subseteq {"none", "running", "ok", "bad", "killed"}
  /\ stage \in [Terminators -> {"idle", "called", "grace", "killing", "done"}]

Gone == Exited \/ stuck

\* Why the account is right: a code that was polled as an exit is the child's,
\* and only a session past its creation is polled; such a session, and a
\* terminator that is waiting, have a child;
\* a waiting terminator has given its reason; and one that is done leaves no
\* child behind, except a close() that found none to stop.
ChildInv ==
  /\ TypeOK
  /\ \A code \in polled : code \in {"ok", "bad", "killed"} => child = code
  /\ session # "created" => child # "none"
  /\ polled # {} => "continue" \in waiting
  /\ "continue" \in waiting => session # "created"
  /\ stage["preempt"] # "idle" => child # "none"
  /\ \A t \in Terminators : stage[t] \in {"grace", "killing"} => child # "none" /\ reason # {}
  /\ stage["preempt"] = "done" => Gone
  /\ stage["close"] = "done" => missed \/ Gone
  /\ session = "completed" => child = "ok"
  /\ session = "preempted" => Gone
  /\ ended => Gone
  /\ hardKilled \/ child = "killed" => reason # {}

\* A new adapter, before any request.
LEMMA ChildInit == Init => ChildInv
BY DEF Init, ChildInv, TypeOK, Terminators

\* Every operation on the child keeps the invariant.
LEMMA ChildStep == ChildInv /\ [Next]_vars => ChildInv'
<1> SUFFICES ASSUME ChildInv, [Next]_vars PROVE ChildInv'
  OBVIOUS
<1> USE DEF ChildInv, TypeOK, Gone, Exited, Terminators, childVars
<1>1. ASSUME NEW op \in {"start", "continue", "checkpoint", "preempt"}, Request(op)
      PROVE ChildInv'
  <2>1. op # "start" => session # "created"
    BY <1>1, Zenon DEF Request, AllowedIn
  <2> QED BY <1>1, <2>1 DEF Request
<1>2. CASE CancelRequest
  BY <1>2 DEF CancelRequest
<1>3. CASE Start
  BY <1>3 DEF Start, Locked
<1>4. CASE Poll
  BY <1>4 DEF Poll
<1>5. CASE Continue
  BY <1>5 DEF Continue, Completes
<1>6. CASE WatchdogExpires
  BY <1>6 DEF WatchdogExpires
<1>7. CASE Close
  BY <1>7 DEF Close
<1>8. ASSUME NEW t \in Terminators, Terminate(t) PROVE ChildInv'
  BY <1>8 DEF Terminate, FirstReason
<1>9. ASSUME NEW t \in Terminators, Grace(t) PROVE ChildInv'
  BY <1>9 DEF Grace, AfterGrace, Finalized
<1>10. ASSUME NEW t \in Terminators, Reap(t) PROVE ChildInv'
  BY <1>10 DEF Reap, Finalized
<1>11. CASE PreemptReturns
  BY <1>11 DEF PreemptReturns
<1>12. CASE ChildExits
  BY <1>12 DEF ChildExits, Locked
<1>13. CASE UNCHANGED vars
  BY <1>13 DEF vars
<1> QED
  BY <1>1, <1>2, <1>3, <1>4, <1>5, <1>6, <1>7, <1>8, <1>9, <1>10, <1>11, <1>12,
     <1>13 DEF Next

\* What the adapter reports of its child is so in every reachable state, for
\* any number of requests, with and without a wall-clock limit.
THEOREM ChildAccounted == Spec => []ChildIsAccounted
<1>1. ChildInv => ChildIsAccounted
  BY DEF ChildInv, ChildIsAccounted, Gone, Exited
<1> QED BY ChildInit, ChildStep, <1>1, PTL DEF Spec

\* No operation withdraws what the adapter has reported: not the first
\* terminator's reason, not the timeout, not the end of the child.
THEOREM AccountMonotone == Spec => [][AccountIsMonotone]_vars
<1>1. ChildInv /\ [Next]_vars => [AccountIsMonotone]_vars
  BY DEF ChildInv, TypeOK, AccountIsMonotone, Exited, vars, childVars, Next, Request,
     CancelRequest, Start, Poll, Continue, WatchdogExpires, Close, Terminate,
     FirstReason, Grace, AfterGrace, Reap, PreemptReturns, ChildExits
<1> QED BY ChildInit, ChildStep, <1>1, PTL DEF Spec
=============================================================================
