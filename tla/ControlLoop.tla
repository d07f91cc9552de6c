---------------------------- MODULE ControlLoop ----------------------------
(***************************************************************************)
(* OnlineComputationController.arun over Harness sessions: a bounded loop  *)
(* of epochs, each of which observes a projection, lets the EpochController *)
(* reconcile and plan it, and hands the derived actions one by one to      *)
(* make_harness_dispatcher.  Everything the loop awaits leaves room for    *)
(* other writers of the graph, the scheduler and the sessions.             *)
(*                                                                         *)
(* Task "t" is run by numbered attempts, each with a Harness session;      *)
(* "u" is a ready task nobody runs.  What a session does with an accepted  *)
(* request is module HarnessControl; which decision an interrupt leads to  *)
(* is SemanticInterrupts.                                                  *)
(***************************************************************************)
EXTENDS Integers, Sequences, FiniteSets, SequencesExt, TLC

CONSTANTS Kinds,                                     \* of interrupts
          MaxVersion, MaxAttempts, MaxEpochs,        \* bounds
          MaxRevision, MaxFaults

VARIABLES version,   \* current graph version
          attempt,   \* the current attempt of "t", 0 if there is none
          cog,       \* cog[a]: the semantic epoch the scheduler recorded for a
          sessions,  \* sessions[a]: the Harness session of a, or NoSession
          inbox,     \* interrupts the event provider will deliver
          loop,      \* the run in progress
          retained,  \* the observation a step left for the next one
          epoch,     \* next epoch id
          last,      \* the last input planned, and whether its audit stops the loop
          faults

vars == <<version, attempt, cog, sessions, inbox, loop, retained, epoch, last, faults>>

Attempts == 1..MaxAttempts

Policy == INSTANCE ChangeDecisions

NoSession == [state |-> "none", ver |-> 0, epoch |-> 0, rev |-> 0]

Registered == {a \in Attempts : sessions[a].state # "none"}

Idle == [at |-> "idle"]

Init ==
    /\ version = 1 /\ attempt = 0
    /\ cog = [a \in Attempts |-> 0]
    /\ sessions = [a \in Attempts |-> NoSession]
    /\ inbox = {} /\ loop = Idle /\ retained = {} /\ epoch = 0 /\ last = {} /\ faults = 0

-----------------------------------------------------------------------------
(* One epoch of the EpochController. *)

(* The observed projection. *)
Projection ==
    [ver |-> version,
     attempts |-> IF attempt = 0 THEN {} ELSE {[id |-> attempt, task |-> "t", epoch |-> cog[attempt]]}]

Observe == IF retained = {} THEN Projection ELSE CHOOSE s \in retained : TRUE

(* An interrupt is about "t" and the version it was observed at. *)
Interrupt(kind) ==
    [id |-> <<version, kind>>, graph |-> "g", version |-> version, kind |-> kind, tasks |-> {"t"},
     attempts |-> {}, preemptible |-> FALSE]

ProposalVersionMismatch(st, evs) == \E e \in evs : e.version # st.ver

InterruptEpoch(st, evs) ==
    Policy!Plan([graph |-> "g", version |-> st.ver, available |-> TRUE, attempts |-> st.attempts,
                 ready |-> {"t", "u"} \ {a.task : a \in st.attempts}, verified |-> {}], evs).decisions

TaskOf(st, d) == IF d.target.kind = "task" THEN d.target.id ELSE "t"

(* _blocked_task_ids and _suppress_blocked: a task an interrupt was decided *)
(* about, other than to continue it, is not selected.                      *)
SuppressBlocked(st, decisions) ==
    ({"t", "u"} \ {a.task : a \in st.attempts})
       \ {TaskOf(st, d) : d \in {x \in decisions : x.action # "continue"}}

Action(kind, task, att, sem, st) ==
    [epoch |-> epoch, kind |-> kind, task |-> task, att |-> att, sem |-> sem, ver |-> st.ver]

(* The interrupt decisions, with the fences of the attempt they target, and *)
(* a START without any for a selected task.                                *)
DeriveActions(st, decisions) ==
    {IF d.target.kind = "attempt"
     THEN LET a == CHOOSE x \in st.attempts : x.id = d.target.id
          IN  Action(d.action, a.task, a.id, a.epoch, st)
     ELSE Action(d.action, d.target.id, 0, -1, st) : d \in decisions}
    \cup {Action("start", t, 0, -1, st) : t \in SuppressBlocked(st, decisions)}

Dispatchable(actions) == {x \in actions : x.kind \notin {"defer", "reverify"}}

-----------------------------------------------------------------------------
(* arun. *)

(* _resolve_events: what the event provider has, which it hands out once. *)
ResolveEvents == inbox

(* The state and the events of the previous step. *)
Repeated == \E l \in last : l.st = Observe /\ l.evs = ResolveEvents

Remember(stop) == last' = {[st |-> loop.st, evs |-> loop.evs, stop |-> stop]}

(* A repeated input is answered with the audit of the previous step, which *)
(* consumes the retained observation and plans nothing.                    *)
AnswerFromMemory ==
    /\ loop.at \in {"idle", "next"} /\ epoch < MaxEpochs /\ Repeated
    /\ loop' = IF \E l \in last : l.stop THEN Idle ELSE [at |-> "next"]
    /\ inbox' = {} /\ retained' = {}
    /\ UNCHANGED <<version, attempt, cog, sessions, epoch, last, faults>>

(* The loop observes and takes its events. *)
Begin ==
    /\ loop.at \in {"idle", "next"} /\ epoch < MaxEpochs
    /\ ~Repeated
    /\ loop' = [at |-> "observed", st |-> Observe, evs |-> ResolveEvents]
    /\ inbox' = {} /\ retained' = {}
    /\ UNCHANGED <<version, attempt, cog, sessions, epoch, last, faults>>

(* The epoch fails closed: the events are of another version, the          *)
(* reconciler raises, or its projection is of another version.  Nothing is *)
(* derived, and the loop stops after its trailing observation.             *)
FailClosed ==
    /\ loop.at = "observed"
    /\ \/ ProposalVersionMismatch(loop.st, loop.evs) /\ UNCHANGED faults
       \/ faults < MaxFaults /\ faults' = faults + 1
       \/ version # loop.st.ver /\ UNCHANGED faults
    /\ loop' = Idle /\ epoch' = epoch + 1 /\ retained' = {Projection} /\ Remember(TRUE)
    /\ UNCHANGED <<version, attempt, cog, sessions, inbox>>

(* The reconciler returns nothing, or a projection of the same version. *)
PlanEpoch ==
    /\ loop.at = "observed" /\ ~ProposalVersionMismatch(loop.st, loop.evs)
    /\ LET decisions == IF loop.evs = {} THEN {} ELSE InterruptEpoch(loop.st, loop.evs)
           all == DeriveActions(loop.st, decisions)
       IN  \E q \in SetToSeqs(Dispatchable(all)) :
             loop' = [at |-> "dispatch", st |-> loop.st, evs |-> loop.evs, todo |-> q, stop |-> all = {}]
    /\ epoch' = epoch + 1
    /\ UNCHANGED <<version, attempt, cog, sessions, inbox, retained, last, faults>>

(* The trailing observation; a failed dispatch or an empty plan stops.     *)
EndEpoch ==
    /\ loop.at = "dispatch" /\ loop.todo = <<>>
    /\ retained' = {Projection}
    /\ loop' = IF loop.stop THEN Idle ELSE [at |-> "next"]
    /\ Remember(loop.stop)
    /\ UNCHANGED <<version, attempt, cog, sessions, inbox, epoch, faults>>

(* The caller's max_epochs is reached. *)
ReturnAudits ==
    /\ loop.at = "next" /\ loop' = Idle
    /\ UNCHANGED <<version, attempt, cog, sessions, inbox, retained, epoch, last, faults>>

-----------------------------------------------------------------------------
(* make_harness_dispatcher. *)

(* Missing agent, claim, attempt or epoch fences. *)
PreflightFenceError(x) == x.att = 0

(* The session of the attempt, else the only one registered for the task. *)
UniqueTaskSessions(x) ==
    IF x.att \in Registered THEN {x.att}
    ELSE IF Cardinality(Registered) = 1 THEN Registered ELSE {}

(* A mutant of ActionFenceError: the request's epoch is left to the        *)
(* adapter, which sees the session's own identity.                         *)
ActionFenceError_NoEpoch(x, a) ==
    x.att # a \/ (IF x.kind = "rebase" THEN x.ver < sessions[a].ver ELSE x.ver # sessions[a].ver)

ActionFenceError(x, a) ==
    \/ x.att # a
    \/ x.sem # sessions[a].epoch
    \/ IF x.kind = "rebase" THEN x.ver < sessions[a].ver ELSE x.ver # sessions[a].ver

Refused(x) ==
    \/ PreflightFenceError(x)
    \/ \A a \in UniqueTaskSessions(x) : ActionFenceError(x, a)

Answered(failed) ==
    loop' = [at |-> "dispatch", st |-> loop.st, evs |-> loop.evs, todo |-> Tail(loop.todo),
             stop |-> loop.stop \/ failed]

(* The action is refused before a request exists. *)
Reject ==
    /\ loop.at = "dispatch" /\ loop.todo # <<>>
    /\ LET x == Head(loop.todo) IN Refused(x) /\ Answered(FALSE)
    /\ UNCHANGED <<version, attempt, cog, sessions, inbox, retained, epoch, last, faults>>

(* The request carries the session's identity and revision as just read. *)
SendRequest ==
    /\ loop.at = "dispatch" /\ loop.todo # <<>>
    /\ ~Refused(Head(loop.todo))
    /\ loop' = [loop EXCEPT !.at = "sent"] @@ [expect |-> sessions[Head(loop.todo).att]]
    /\ UNCHANGED <<version, attempt, cog, sessions, inbox, retained, epoch, last, faults>>

(* What an accepted operation does to the session. *)
Controlled(s, x) ==
    [s EXCEPT !.rev = @ + 1,
              !.state = IF x.kind = "preempt" THEN "preempted" ELSE @,
              !.ver = IF x.kind = "rebase" THEN x.ver ELSE @,
              !.epoch = IF x.kind = "rebase" THEN @ + 1 ELSE @]

(* adapter.control: applied if the session is still the one that was read  *)
(* and has not ended, rejected otherwise; or the await raises.             *)
Apply ==
    /\ loop.at = "sent"
    /\ LET x == Head(loop.todo)
           s == sessions[x.att]
       IN  \/ /\ s = loop.expect /\ s.state = "running"
              /\ sessions' = [sessions EXCEPT ![x.att] = Controlled(s, x)]
              /\ Answered(FALSE) /\ UNCHANGED faults
           \/ /\ s # loop.expect \/ s.state # "running"
              /\ Answered(FALSE) /\ UNCHANGED <<sessions, faults>>
           \/ /\ faults < MaxFaults /\ faults' = faults + 1
              /\ Answered(TRUE) /\ UNCHANGED sessions
    /\ UNCHANGED <<version, attempt, cog, inbox, retained, epoch, last>>

-----------------------------------------------------------------------------
(* The rest of the system. *)

GraphAdvances ==
    /\ version < MaxVersion /\ version' = version + 1
    /\ UNCHANGED <<attempt, cog, sessions, inbox, loop, retained, epoch, last, faults>>

(* The scheduler starts the next attempt of "t", whose session may be      *)
(* registered later; the old session stays registered.                     *)
NextAttempt ==
    /\ attempt < MaxAttempts /\ attempt' = attempt + 1
    /\ UNCHANGED <<version, cog, sessions, inbox, loop, retained, epoch, last, faults>>

Register ==
    /\ attempt # 0 /\ attempt \notin Registered
    /\ sessions' = [sessions EXCEPT ![attempt] =
                      [state |-> "running", ver |-> version, epoch |-> cog[attempt], rev |-> 0]]
    /\ UNCHANGED <<version, attempt, cog, inbox, loop, retained, epoch, last, faults>>

(* The scheduler records the cognition of a rebased session, some time     *)
(* after it was rebased.                                                   *)
Recorded(a) ==
    /\ a \in Registered /\ cog[a] # sessions[a].epoch
    /\ cog' = [cog EXCEPT ![a] = sessions[a].epoch]
    /\ UNCHANGED <<version, attempt, sessions, inbox, loop, retained, epoch, last, faults>>

(* Another caller rebases or checkpoints the session. *)
OtherControl(a) ==
    /\ sessions[a].state = "running" /\ sessions[a].rev < MaxRevision
    /\ \/ sessions' = [sessions EXCEPT ![a].rev = @ + 1]
       \/ sessions' = [sessions EXCEPT ![a].rev = @ + 1, ![a].epoch = @ + 1, ![a].ver = version]
    /\ UNCHANGED <<version, attempt, cog, inbox, loop, retained, epoch, last, faults>>

Arrives(kind) ==
    /\ inbox = {} /\ inbox' = {Interrupt(kind)}
    /\ UNCHANGED <<version, attempt, cog, sessions, loop, retained, epoch, last, faults>>

Next ==
    \/ AnswerFromMemory \/ Begin \/ FailClosed \/ PlanEpoch \/ EndEpoch \/ ReturnAudits
    \/ Reject \/ SendRequest \/ Apply
    \/ GraphAdvances \/ NextAttempt \/ Register
    \/ \E a \in Attempts : Recorded(a) \/ OtherControl(a)
    \/ \E k \in Kinds : Arrives(k)

Spec == Init /\ [][Next]_vars

-----------------------------------------------------------------------------
(* Whatever moved between the observation an epoch planned on and the turn *)
(* of its action, a control the loop applies reaches the session of the    *)
(* attempt it was decided for, while the cognition of that session is the  *)
(* one the decision saw; no session is moved back to an older version, and *)
(* a decision taken on a projection that lags a rebase cannot rebase the   *)
(* session again (make_harness_dispatcher's fences).                       *)
ControlledAsPlanned ==
    loop.at = "sent" /\ sessions' # sessions /\ loop' # loop =>
      LET x == Head(loop.todo)
      IN  \A a \in Attempts : sessions'[a] # sessions[a] =>
            /\ a = x.att /\ x.sem = sessions[a].epoch
            /\ sessions'[a].ver >= sessions[a].ver
            /\ sessions'[a].ver = x.ver
=============================================================================
