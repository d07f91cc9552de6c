--------------------------- MODULE HarnessControl ---------------------------
(***************************************************************************)
(* The bridge between AgentOS and the Harness sessions that run an         *)
(* Attempt: register_harness (with the replay of the durable               *)
(* HARNESS_CONTROL journal), control_harness, unregister_harness, the live *)
(* Context rebase plan/apply pair, and the session adapter itself.         *)
(*                                                                         *)
(* One task is followed through its Claims 1, 2, ...; claims[c] is the     *)
(* graph version Claim c was admitted at, and the session of Claim c is    *)
(* called c as well.  A control call is split where the code awaits: Begin *)
(* (fence, idempotency cache, request) and Answer (the adapter under its   *)
(* lock, then event and cache, with no await in between).                  *)
(***************************************************************************)
EXTENDS Integers, Sequences

CONSTANTS Callers,     \* concurrent tasks that call control_harness
          Requests,    \* [id, op]: the control requests callers send
          Supported,   \* operations the adapter declares
          DirectOps,   \* operations sent through make_harness_dispatcher
          Hooks,       \* what a hook may do: "ok", "completed" or "raises"
          MaxRevision, MaxVersion, MaxClaims, MaxRestarts,   \* bounds
          MaxSessions  \* Claims whose session is followed; later ones only own the task

VARIABLES version,     \* current version of the graph
          claims,      \* graph version of every Claim, in order
          live,        \* the ACTIVE Claim, 0 when there is none
          adapter,     \* [snap, done] per session
          bound,       \* sessions registered with this AgentOS
          cache,       \* _harness_control_cache: claim -> id -> entry
          journal,     \* durable HARNESS_CONTROL events per claim
          call,        \* the control call each caller is in
          plan,        \* the LiveContextRebasePlan a caller holds
          restarts     \* restarts so far

vars == <<version, claims, live, adapter, bound, cache, journal, call, plan, restarts>>

Ids == {q.id : q \in Requests} \cup {"plan", "direct"}

NoResult == [op |-> "none"]

Idle == [at |-> "idle"]

NoPlan == [claim |-> 0]

Sessions == 1..MaxSessions

Fresh(ver) == [snap |-> [state |-> "created", rev |-> 0, chk |-> 0, ver |-> ver, last |-> "none"],
               done |-> [i \in Ids |-> NoResult]]

Init ==
    /\ version = 1 /\ claims = <<1>> /\ live = 1
    /\ adapter = [c \in Sessions |-> Fresh(1)]
    /\ bound = {} /\ plan = NoPlan /\ restarts = 0
    /\ cache = [c \in Sessions |-> [i \in Ids |-> NoResult]]
    /\ journal = [c \in Sessions |-> <<>>]
    /\ call = [k \in Callers |-> Idle]

-----------------------------------------------------------------------------
(* The session adapter. *)

AllowedStates(op) ==
    CASE op = "start" -> {"created"}
      [] op = "checkpoint" -> {"running"}
      [] OTHER -> {"running", "checkpointed"}

(* make_request: everything the request is fenced to. *)
MakeRequest(snap, id, op) ==
    [id |-> id, op |-> op, rev |-> snap.rev, ver |-> snap.ver,
     chk |-> IF op \in {"continue", "rebase"} /\ snap.state = "checkpointed" THEN snap.chk ELSE 0,
     target |-> IF op = "rebase" THEN version ELSE 0]

(* A mutant of Refusal: the revision fence is gone. *)
Refusal_AnyRevision(snap, r) ==
    CASE r.ver # snap.ver -> "rejected"
      [] r.op \notin Supported -> "unsupported"
      [] snap.state \notin AllowedStates(r.op) -> "rejected"
      [] OTHER -> "none"

(* _validate_request: the first fence that fails, in the order of the code. *)
Refusal(snap, r) ==
    CASE r.ver # snap.ver \/ r.rev # snap.rev -> "rejected"
      [] r.op \notin Supported -> "unsupported"
      [] snap.state \notin AllowedStates(r.op) -> "rejected"
      [] r.op \in {"continue", "rebase"} /\ snap.state = "checkpointed" /\ r.chk # snap.chk -> "rejected"
      [] r.op = "continue" /\ snap.state = "running" /\ r.chk # 0 -> "rejected"
      [] r.op = "rebase" /\ r.target <= snap.ver -> "rejected"
      [] OTHER -> "none"

(* _transition: what an acknowledged hook does to the snapshot; a hook that *)
(* completes a CHECKPOINT or a PREEMPT is an error.                         *)
HookFails(r, hook) == hook = "raises" \/ (hook = "completed" /\ r.op \in {"checkpoint", "preempt"})

Transition(snap, r, hook) ==
    [state |-> CASE r.op = "checkpoint" -> "checkpointed"
                 [] r.op = "preempt" -> "preempted"
                 [] hook = "completed" -> "completed"
                 [] OTHER -> "running",
     rev |-> snap.rev + 1,
     chk |-> IF r.op = "checkpoint" THEN snap.rev + 1 ELSE 0,
     ver |-> IF r.op = "rebase" THEN r.target ELSE snap.ver,
     last |-> r.id]

Result(r, status, after) == [op |-> r.op, req |-> r, status |-> status, after |-> after]

(* control: replay by request id, else validate, run the hook, transition  *)
(* and remember.  The adapter and the result it returns.                   *)
Control(a, r, hook) ==
    LET known == a.done[r.id]
        refused == Refusal(a.snap, r)
        answer ==
            CASE known # NoResult /\ known.req = r -> known
              [] known # NoResult /\ known.req # r -> Result(r, "rejected", a.snap)
              [] refused # "none" -> Result(r, refused, a.snap)
              [] HookFails(r, hook) -> Result(r, "failed", a.snap)
              [] OTHER -> Result(r, "applied", Transition(a.snap, r, hook))
        fresh == known = NoResult
    IN  [snap |-> IF fresh THEN answer.after ELSE a.snap,
         done |-> IF fresh THEN [a.done EXCEPT ![r.id] = answer] ELSE a.done,
         answer |-> answer]

-----------------------------------------------------------------------------
(* Registration. *)

(* The exact identity fence shared by registration, control and planning. *)
Exact(c) == live = c /\ adapter[c].snap.ver = claims[c]

(* _restore_harness_from_durable_history: the checks of the event chain. *)
Replayable(h) ==
    /\ h # <<>> => h[1].before.rev = 0
    /\ \A i \in 2..Len(h) : h[i].before = h[i - 1].after
    /\ \A i \in 1..Len(h) : h[i].after.rev = h[i].before.rev + (IF h[i].status = "applied" THEN 1 ELSE 0)
    /\ \A i, j \in 1..Len(h) : h[i].id = h[j].id => i = j

Agrees(snap, h) ==
    h # <<>> => \/ snap.rev < h[Len(h)].after.rev
                \/ snap = h[Len(h)].after

(* restore_durable_snapshot: an adapter behind the journal is moved to its *)
(* end and forgets the requests it remembered.                             *)
Restored(a, h) ==
    IF h = <<>> \/ a.snap = h[Len(h)].after
    THEN a
    ELSE [Fresh(a.snap.ver) EXCEPT !.snap = h[Len(h)].after]

(* A mutant of ReplayedCache: request ids are not replayed. *)
ReplayedCache_Empty(c) == cache[c]

(* The request idempotency records rebuilt from the journal. *)
ReplayedCache(c) ==
    [i \in Ids |->
        IF \E n \in 1..Len(journal[c]) : journal[c][n].id = i
        THEN LET e == journal[c][CHOOSE n \in 1..Len(journal[c]) : journal[c][n].id = i]
             IN  [op |-> e.op, status |-> e.status, after |-> e.after]
        ELSE cache[c][i]]

Register(c) ==
    /\ c \notin bound /\ Exact(c)
    /\ Replayable(journal[c]) /\ Agrees(adapter[c].snap, journal[c])
    /\ adapter' = [adapter EXCEPT ![c] = Restored(adapter[c], journal[c])]
    /\ cache' = [cache EXCEPT ![c] = ReplayedCache(c)]
    /\ bound' = bound \cup {c}
    /\ UNCHANGED <<version, claims, live, journal, call, plan, restarts>>

(* unregister_harness: the binding goes first; closing the adapter may     *)
(* raise afterwards, which changes nothing more.  A session that is        *)
(* registered again may come with a new adapter object (here: once no call *)
(* is in the old one any more).                                            *)
Unregister(c) ==
    /\ c \in bound
    /\ bound' = bound \ {c}
    /\ \/ UNCHANGED adapter
       \/ /\ \A k \in Callers : call[k].at = "idle"
          /\ adapter' = [adapter EXCEPT ![c] = Fresh(claims[c])]
    /\ UNCHANGED <<version, claims, live, cache, journal, call, plan, restarts>>

-----------------------------------------------------------------------------
(* control_harness. *)

(* The idempotency cache answers (or refuses) a known request id; nothing  *)
(* changes, so such a call is not a step.  Only an unknown id goes on.     *)
Begin(k, c, id, op) ==
    /\ call[k] = Idle
    /\ c \in bound /\ Exact(c)
    /\ op \notin {"rebase", "preempt"}
    /\ cache[c][id] = NoResult
    /\ adapter[c].snap.rev < MaxRevision
    /\ call' = [call EXCEPT ![k] = [at |-> "waiting", claim |-> c, before |-> adapter[c].snap,
                                    req |-> MakeRequest(adapter[c].snap, id, op)]]

CallControl(k) ==
    /\ \E c \in Sessions, q \in Requests : Begin(k, c, q.id, q.op)
    /\ UNCHANGED <<version, claims, live, adapter, bound, cache, journal, plan, restarts>>

(* The event, its deterministic id and the cache.  The claim is not looked *)
(* at again.                                                               *)
Event(x, result) == [id |-> x.req.id, op |-> x.req.op, status |-> result.status, req |-> x.req,
                     before |-> x.before, after |-> result.after]

SameEventId(e, f) == e.req = f.req /\ e.status = f.status /\ e.after.rev = f.after.rev

Recorded(h, e) == IF \E n \in 1..Len(h) : SameEventId(h[n], e) THEN h ELSE Append(h, e)

Conflicts(h, e) == \E n \in 1..Len(h) : SameEventId(h[n], e) /\ h[n] # e

Answer(k) ==
    /\ call[k].at = "waiting"
    /\ \E hook \in Hooks :
         LET c == call[k].claim
             out == Control(adapter[c], call[k].req, hook)
             e == Event(call[k], out.answer)
         IN  /\ adapter' = [adapter EXCEPT ![c] = [snap |-> out.snap, done |-> out.done]]
             /\ journal' = [journal EXCEPT ![c] = Recorded(@, e)]
             /\ cache' = IF Conflicts(journal[c], e) THEN cache
                         ELSE [cache EXCEPT ![c][e.id] = [op |-> e.op, status |-> e.status, after |-> e.after]]
    /\ call' = [call EXCEPT ![k] = Idle]
    /\ UNCHANGED <<version, claims, live, bound, plan, restarts>>

(* make_harness_dispatcher: a computation-control action goes straight to  *)
(* the adapter, past the journal.                                          *)
Dispatch(c) ==
    /\ Exact(c) /\ adapter[c].snap.rev < MaxRevision
    /\ adapter[c].done["direct"] = NoResult
    /\ \E op \in DirectOps, hook \in Hooks :
         LET out == Control(adapter[c], MakeRequest(adapter[c].snap, "direct", op), hook)
         IN  adapter' = [adapter EXCEPT ![c] = [snap |-> out.snap, done |-> out.done]]
    /\ UNCHANGED <<version, claims, live, bound, cache, journal, call, plan, restarts>>

-----------------------------------------------------------------------------
(* Live Context rebase. *)

(* _build_control_request: the operation a decision maps to, if any. *)
DecisionOp(snap, action) ==
    CASE action = "reuse" /\ snap.state = "created" -> "start"
      [] action = "reuse" /\ snap.state \in {"running", "checkpointed"} -> "continue"
      [] action = "rebase" /\ version > snap.ver -> "rebase"
      [] OTHER -> "none"

(* RebaseRuntimeBridge.plan: an action with no request is blocked. *)
Decision(snap, action) ==
    IF action = "blocked" \/ DecisionOp(snap, action) \notin Supported THEN "blocked" ELSE action

(* The read set decides between reuse and rebase once the graph advanced;  *)
(* an uncovered delta blocks.                                              *)
PlanLive(c) ==
    /\ c \in bound /\ Exact(c) /\ plan = NoPlan
    /\ \E action \in {"reuse", "blocked"} \cup (IF version > claims[c] THEN {"rebase"} ELSE {}) :
         plan' = [claim |-> c, ver |-> version, rev |-> adapter[c].snap.rev,
                  action |-> Decision(adapter[c].snap, action), op |-> DecisionOp(adapter[c].snap, action)]
    /\ UNCHANGED <<version, claims, live, adapter, bound, cache, journal, call, restarts>>

(* Everything apply_live_context_rebase compares again before it acts. *)
PlanHolds == plan.claim \in bound /\ Exact(plan.claim) /\ plan.ver = version

(* prepare_handoff/commit_handoff admit a replacement Claim at the current  *)
(* version, or release the source only; then the old session is detached.   *)
ApplyRebase ==
    /\ plan # NoPlan /\ plan.action = "rebase" /\ PlanHolds /\ Len(claims) < MaxClaims
    /\ \/ /\ claims' = Append(claims, version) /\ live' = Len(claims) + 1
          /\ bound' = bound \ {plan.claim}
          /\ adapter' = [c \in Sessions |-> IF c = Len(claims) + 1 THEN Fresh(version) ELSE adapter[c]]
          /\ plan' = NoPlan
       \/ /\ live' = 0
          /\ UNCHANGED <<claims, bound, adapter, plan>>
    /\ UNCHANGED <<version, cache, journal, call, restarts>>

ReuseIsCurrent == adapter[plan.claim].snap.rev = plan.rev

ApplyReuse(k) ==
    /\ plan # NoPlan /\ plan.action = "reuse" /\ PlanHolds
    /\ ReuseIsCurrent
    /\ Begin(k, plan.claim, "plan", plan.op)
    /\ UNCHANGED <<version, claims, live, adapter, bound, cache, journal, plan, restarts>>

InPlanCall(k) == call[k] # Idle /\ call[k].req.id = "plan"

(* A refused plan, or one whose answer is journaled, is dropped; a plan     *)
(* whose source Claim is gone is answered from the durable handoff.         *)
DropPlan ==
    /\ plan # NoPlan /\ ~\E k \in Callers : InPlanCall(k)
    /\ ~PlanHolds \/ plan.action = "blocked" \/ cache[plan.claim]["plan"] # NoResult
    /\ plan' = NoPlan
    /\ UNCHANGED <<version, claims, live, adapter, bound, cache, journal, call, restarts>>

-----------------------------------------------------------------------------
(* The rest of the system. *)

GraphAdvances ==
    /\ version < MaxVersion
    /\ version' = version + 1
    /\ UNCHANGED <<claims, live, adapter, bound, cache, journal, call, plan, restarts>>

LoseClaim ==
    /\ live # 0
    /\ live' = 0
    /\ UNCHANGED <<version, claims, adapter, bound, cache, journal, call, plan, restarts>>

(* AgentOS is reopened: everything in memory is gone; the caller comes back *)
(* with the adapter it kept or with a new one for the same session.         *)
Restart ==
    /\ restarts < MaxRestarts
    /\ restarts' = restarts + 1
    /\ bound' = {}
    /\ cache' = [c \in Sessions |-> [i \in Ids |-> NoResult]]
    /\ call' = [k \in Callers |-> Idle]
    /\ \/ UNCHANGED adapter
       \/ adapter' = [c \in Sessions |-> Fresh(IF c <= Len(claims) THEN claims[c] ELSE 1)]
    /\ UNCHANGED <<version, claims, live, journal, plan>>

Next ==
    \/ \E c \in Sessions \cap (1..Len(claims)) : Register(c) \/ Unregister(c) \/ Dispatch(c) \/ PlanLive(c)
    \/ \E k \in Callers : CallControl(k) \/ Answer(k) \/ ApplyReuse(k)
    \/ ApplyRebase \/ DropPlan \/ GraphAdvances \/ LoseClaim \/ Restart

Spec == Init /\ [][Next]_vars

-----------------------------------------------------------------------------
Journaled(c, id) == \E n \in 1..Len(journal[c]) : journal[c][n].id = id

(* A request id whose outcome is in the journal never enters Harness code   *)
(* again, whoever retries it and however often AgentOS is reopened in       *)
(* between: control_harness answers it from the cache registration rebuilt. *)
JournaledIsNotRerun ==
    \A k \in Callers :
       call[k].at = "idle" /\ call'[k].at = "waiting"
          => ~Journaled(call'[k].claim, call'[k].req.id)

ActsForPlan(c) ==
    /\ \E k \in Callers : InPlanCall(k) /\ call[k].at = "waiting" /\ call'[k].at = "idle"
    /\ adapter'[c].snap.rev = adapter[c].snap.rev + 1

(* A REUSE plan starts or continues the session only at the revision it was *)
(* planned at: whatever other callers did since, in the plan's own window   *)
(* or while its request waited for the adapter, refuses it                  *)
(* (apply_live_context_rebase, then _validate_request).                     *)
ReuseActsAtPlannedRevision ==
    \A c \in Sessions :
       plan.claim = c /\ ActsForPlan(c) => adapter[c].snap.rev = plan.rev

=============================================================================
