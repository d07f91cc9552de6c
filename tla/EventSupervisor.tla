-------------------------- MODULE EventSupervisor --------------------------
(***************************************************************************)
(* EventDrivenSupervisor (event_supervisor.py) and the loops its caller    *)
(* owns: run and WorkspaceWatchLoop.run (workspace_watch_loop.py).  A step *)
(* observes the graph, handles the queued and supplied events, and then    *)
(* awaits one bounded execution epoch.  During the await the same object   *)
(* takes submit, stop and further steps from other coroutines: nothing     *)
(* keeps two steps from overlapping.                                       *)
(***************************************************************************)
EXTENDS Integers, FiniteSets, SequencesExt

CONSTANTS Events,      \* [id, fingerprint, order, kind, graph, version]
          Callers,     \* coroutines that call step, beside the loop's
          MaxEpochs, MaxPending,
          MaxVersion   \* bound on the graph version

NoVersion == 0   \* an event without a graph version

VARIABLES state,     \* SupervisorState
          pending,   \* queued events
          seen,      \* event ids with the fingerprint they came with
          epochs,    \* _epochs_attempted
          awaiting,  \* whose steps are inside execute_online_epoch
          loop,      \* polls the caller's loop has left; 0 when none runs
          stopEvent, \* the loop's asyncio.Event
          graph,     \* authority: [version, closed]
          handled    \* ids of the events acted upon

vars == <<state, pending, seen, epochs, awaiting, loop, stopEvent, graph, handled>>

TerminalStates == {"stopped", "closed", "failed_closed", "budget_exhausted"}

Terminal(s) == s \in TerminalStates

Init ==
  /\ state = "created" /\ pending = {} /\ seen = {} /\ epochs = 0
  /\ awaiting = {} /\ loop = 0 /\ stopEvent = FALSE /\ handled = {}
  /\ graph \in [version : {1}, closed : BOOLEAN]

(* start observes once; an authority that cannot be read fails it. *)
Started(readable) ==
  IF state # "created" THEN state
  ELSE IF ~readable THEN "failed_closed"
  ELSE IF graph.closed THEN "closed"
  ELSE IF MaxEpochs = 0 THEN "budget_exhausted" ELSE "running"

Start(readable) ==
  /\ state = "created" /\ state' = Started(readable)
  /\ UNCHANGED <<pending, seen, epochs, awaiting, loop, stopEvent, graph, handled>>

Stop ==
  /\ state' = IF Terminal(state) THEN state ELSE "stopped"
  /\ UNCHANGED <<pending, seen, epochs, awaiting, loop, stopEvent, graph, handled>>

-----------------------------------------------------------------------------
(* submit, on a queue q and a set s of seen events: what it makes of them, *)
(* or that it fails closed.  An exact repetition is returned, not queued.  *)
Submitted(e, q, s) ==
  IF \E f \in s : f.id = e.id
  THEN [ok |-> \E f \in s : f.id = e.id /\ f.fingerprint = e.fingerprint,
        pending |-> q, seen |-> s]
  ELSE IF Cardinality(q) >= MaxPending \/ e.graph \notin {"", "g"}
  THEN [ok |-> FALSE, pending |-> q, seen |-> s]
  ELSE [ok |-> TRUE, pending |-> q \cup {e}, seen |-> s \cup {e}]

(* There is no look at the lifecycle state: a finished supervisor queues. *)
Submit(e) ==
  LET r == Submitted(e, pending, seen) IN
  /\ pending' = r.pending /\ seen' = r.seen
  /\ state' = IF r.ok THEN state ELSE "failed_closed"
  /\ UNCHANGED <<epochs, awaiting, loop, stopEvent, graph, handled>>

(* _check_event_version, then what the kind asks for; refused are the      *)
(* events whose planning, routing or delivery raises. *)
Acceptable(e, refused) ==
  \/ e.kind = "stop"
  \/ /\ e.graph \in {"", "g"}
     /\ e.version \in {NoVersion, graph.version}
     /\ e \notin refused

(* Events are handled in the order of their ids, up to the first that      *)
(* raises; a STOP among them does not end the loop over them. *)
Accepted(batch, refused) ==
  {e \in batch : \A f \in batch : f.order <= e.order => Acceptable(f, refused)}

(* What step finds out before it touches its queue. *)
Ended ==
  IF Terminal(Started(TRUE)) THEN Started(TRUE)
  ELSE IF graph.closed THEN "closed"
  ELSE IF epochs >= MaxEpochs THEN "budget_exhausted" ELSE "running"

(* The events of this step: the queue and what the caller supplied, which  *)
(* is submitted first and then handled even if it had been seen before. *)
Queue(supplied) ==
  IF supplied.id = "none" THEN [ok |-> TRUE, pending |-> pending, seen |-> seen]
  ELSE Submitted(supplied, pending, seen)

DedupeEvents(supplied) ==
  Queue(supplied).pending \cup (IF supplied.id = "none" THEN {} ELSE {supplied})

(* Nothing falls through to stale work: an event or a workspace poll that  *)
(* raised fails the supervisor, and a stop, a closed goal or an            *)
(* observation-only step starts no epoch. *)
AfterEvents(done, fails, closes) ==
  IF fails THEN "failed_closed"
  ELSE IF \E e \in done : e.kind = "stop" THEN "stopped"
  ELSE IF closes THEN "closed" ELSE "running"

(* One pass of step, up to its await, in coroutine who: bad is a workspace *)
(* poll that raised or was blocked, closes a closure found after the       *)
(* events. *)
Step(who, supplied, refused, bad, execute, closes) ==
  LET queue == Queue(supplied)
      batch == DedupeEvents(supplied)
      done == IF bad \/ ~queue.ok THEN {} ELSE Accepted(batch, refused)
  IN /\ who \notin awaiting
     /\ UNCHANGED epochs
     /\ IF Ended # "running"
        THEN state' = Ended /\ UNCHANGED <<pending, seen, awaiting, handled, graph>>
        ELSE /\ seen' = queue.seen
             /\ pending' = IF queue.ok THEN {} ELSE queue.pending
             /\ handled' = handled \cup {e.id : e \in done}
             /\ graph' = [graph EXCEPT !.closed = closes]
             /\ state' = AfterEvents(done, ~queue.ok \/ bad \/ done # batch, closes)
             /\ awaiting' = IF state' = "running" /\ execute
                            THEN awaiting \cup {who} ELSE awaiting

(* The rest of step, after the epoch: failures, closure and the budget     *)
(* write the state without a look at what happened during the await. *)
StepEnds(who, failed, closes) ==
  /\ who \in awaiting /\ awaiting' = awaiting \ {who} /\ epochs' = epochs + 1
  /\ graph' = [graph EXCEPT !.closed = @ \/ closes,
                            !.version = IF @ < MaxVersion THEN @ + 1 ELSE @]
  /\ state' = IF failed THEN "failed_closed"
              ELSE IF graph'.closed THEN "closed"
              ELSE IF epochs' >= MaxEpochs THEN "budget_exhausted" ELSE state
  /\ UNCHANGED <<pending, seen, loop, stopEvent, handled>>

(* runtime_state raises where step needs it. *)
StepUnreadable ==
  /\ ~Terminal(state) /\ state # "created"
  /\ state' = "failed_closed"
  /\ UNCHANGED <<pending, seen, epochs, awaiting, loop, stopEvent, graph, handled>>

-----------------------------------------------------------------------------
(* run and WorkspaceWatchLoop.run: at most so many steps, each only while  *)
(* the supervisor is not terminal and no stop was requested. *)
LoopBegins(n) ==
  /\ loop = 0 /\ "loop" \notin awaiting /\ loop' = n /\ state' = Started(TRUE)
  /\ UNCHANGED <<pending, seen, epochs, awaiting, stopEvent, graph, handled>>

LoopEnds ==
  /\ loop > 0 /\ "loop" \notin awaiting
  /\ stopEvent \/ Terminal(state)
  /\ loop' = 0
  /\ state' = IF stopEvent /\ ~Terminal(state) THEN "stopped" ELSE state
  /\ UNCHANGED <<pending, seen, epochs, awaiting, stopEvent, graph, handled>>

RequestLoopStop ==
  /\ ~stopEvent /\ stopEvent' = TRUE
  /\ UNCHANGED <<state, pending, seen, epochs, awaiting, loop, graph, handled>>

Nothing == [id |-> "none", kind |-> "tick"]

LoopPolls(refused, bad, closes) ==
  /\ loop > 0 /\ ~stopEvent /\ ~Terminal(state)
  /\ loop' = loop - 1 /\ UNCHANGED stopEvent
  /\ Step("loop", Nothing, refused, bad, TRUE, closes)

CallerSteps(who, supplied, refused, bad, execute, closes) ==
  /\ UNCHANGED <<loop, stopEvent>>
  /\ Step(who, supplied, refused, bad, execute, closes)

(* Other writers of the graph. *)
GraphMoves(closed) ==
  /\ graph.version < MaxVersion
  /\ graph' = [version |-> graph.version + 1, closed |-> closed]
  /\ UNCHANGED <<state, pending, seen, epochs, awaiting, loop, stopEvent, handled>>

Next ==
  \/ \E b \in BOOLEAN : Start(b) \/ GraphMoves(b)
  \/ Stop \/ LoopEnds \/ RequestLoopStop \/ StepUnreadable
  \/ \E e \in Events : Submit(e)
  \/ \E n \in 1..MaxEpochs : LoopBegins(n)
  \/ \E refused \in SUBSET {e \in Events : e.kind = "interrupt"},
        bad, closes \in BOOLEAN :
       \/ LoopPolls(refused, bad, closes)
       \/ \E who \in Callers, e \in Events \cup {Nothing}, execute \in BOOLEAN :
            CallerSteps(who, e, refused, bad, execute, closes)
  \/ \E who \in Callers \cup {"loop"}, failed, closes \in BOOLEAN :
       StepEnds(who, failed, closes)

Spec == Init /\ [][Next]_vars

-----------------------------------------------------------------------------
(* Once a supervisor has ended it stays ended: nothing its owner, its loop *)
(* or its watcher does makes it handle an event or begin an epoch, and     *)
(* only the steps that were awaiting an epoch still count theirs.  Steps   *)
(* that overlap all pass the budget check before any of them counts, so    *)
(* the epochs exceed the budget by the overlapping steps, never by more:   *)
(* with one coroutine that steps, max_epochs is exact.                     *)
EndedIsInert ==
  /\ Terminal(state) =>
       /\ Terminal(state') /\ handled' = handled /\ awaiting' \subseteq awaiting
       /\ epochs' = epochs + Cardinality(awaiting \ awaiting')
  /\ epochs' + Cardinality(awaiting') <= MaxEpochs + Cardinality(Callers)

=============================================================================
