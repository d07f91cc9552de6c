---------------------------- MODULE OnlineEpochs ----------------------------
(***************************************************************************)
(* The online computation controller and the epochs AgentOS schedules      *)
(* through it: OnlineComputationController.step over an EpochController,    *)
(* schedule_online_epoch, handoff_online_epoch_to_harness and              *)
(* release_online_epoch, for one goal and one controller that is reused.   *)
(*                                                                         *)
(* The calls are synchronous, but other sessions write the graph and the   *)
(* scheduler in between: a call is split at every read it takes of them    *)
(* and at every release it asks for.  Tasks are numbered in the order the  *)
(* frontier policy ranks them; Claims are numbered as they are created.    *)
(***************************************************************************)
EXTENDS Integers, Sequences, FiniteSets

CONSTANTS Tasks,          \* 1..n
          MaxParallelism, \* of the frontier policy
          Interrupted,    \* tasks a semantic interrupt may be proposed for
          MaxVersion, MaxClaims, MaxEpochs, MaxFaults   \* bounds

VARIABLES version,   \* current graph version
          ready,     \* the ready frontier of the graph
          claims,    \* every Claim: [task, ver, state, own]
          ctl,       \* the controller
          call,      \* the AgentOS call in progress
          results,   \* the OnlineEpochScheduleResults the caller holds
          bound,     \* Claims a Harness is registered for
          sent,      \* actions handed to the dispatcher, in order
          marked,    \* Claims with a durable cleanup-required marker
          lost,      \* own Claims whose compensating release raised, unmarked
          stuck,     \* Claims whose Harness could not be unregistered again
          idle,      \* epochs in a row that found nothing, the world unchanged
          faults     \* releases and registrations that raised

vars == <<version, ready, claims, ctl, call, results, bound, sent, marked, lost, stuck, idle, faults>>

None == [at |-> "none"]

Idle == [at |-> "idle"]

Active == {c \in 1..Len(claims) : claims[c].state = "active"}

Claimed == {claims[c].task : c \in Active}

Init ==
    /\ version = 1 /\ ready = Tasks /\ claims = <<>>
    /\ ctl = [pending |-> None, key |-> None, audit |-> None, inner |-> None, decision |-> None, epoch |-> 0]
    /\ call = Idle /\ results = {} /\ bound = {} /\ sent = <<>>
    /\ marked = {} /\ lost = {} /\ stuck = {}
    /\ idle = 0 /\ faults = 0

-----------------------------------------------------------------------------
(* The controller. *)

(* AgentOS.runtime_state: the projection the controller plans on. *)
RuntimeState == [at |-> "state", ver |-> version, ready |-> ready, active |-> Active, claimed |-> Claimed]

(* FrontierPolicy.plan: the first max_parallelism candidates that have no  *)
(* active attempt.                                                         *)
Frontier(st) ==
    LET free == st.ready \ st.claimed
    IN  {t \in free : Cardinality({u \in free : u < t}) < MaxParallelism}

(* A semantic interrupt the caller proposes: the graph version it is about *)
(* and the task it defers, reverifies, rebases or preempts.                *)
Proposals == {None} \cup [at : {"event"}, ver : 1..version, task : Interrupted]

Blocked(p) == IF p = None THEN {} ELSE {p.task}

(* EpochController.step on an observed state and proposals it has not just *)
(* planned.                                                                *)
Decide(st, p) ==
    LET mismatch == p # None /\ p.ver # st.ver
    IN  [at |-> "decision", epoch |-> ctl.epoch, ver |-> st.ver,
         status |-> IF mismatch THEN "graph_changed" ELSE "planned",
         selected |-> IF mismatch THEN {} ELSE Frontier(st) \ Blocked(p)]

(* _derive_actions: a START per selected task; selected tasks never have   *)
(* an attempt, interrupts and deferrals have no Harness operation to send. *)
Actions(d) == {[epoch |-> d.epoch, task |-> t] : t \in d.selected}

(* A mutant of Unsent: the dispatch cache is not consulted. *)
Unsent_NoCache(d) == Actions(d)

(* _dispatch_sync: actions whose id has no cached result. *)
Unsent(d) == Actions(d) \ {sent[i] : i \in 1..Len(sent)}

(* _safe_observe: the state retained by the previous step, else a new one. *)
Observed == IF ctl.pending # None THEN ctl.pending ELSE RuntimeState

(* A mutant of Retained: a repeated input keeps its observation. *)
Retained_Kept(repeated) == IF repeated THEN ctl.pending ELSE RuntimeState

(* _observe_post_state, which a repeated input does not reach. *)
Retained(repeated) == IF repeated THEN None ELSE RuntimeState

(* step: the audit it returns and the controller it leaves.  A repeated    *)
(* input answers with the last audit; an input that differs in the         *)
(* dispatch flag only is planned once but dispatched by its own flag.      *)
Stepped(p, dispatch) ==
    LET st == Observed
        key == [at |-> "key", state |-> st, event |-> p, dispatch |-> dispatch]
        inner == [at |-> "key", state |-> st, event |-> p]
        repeated == key = ctl.key
        planned == inner = ctl.inner
        decision == IF planned THEN ctl.decision ELSE Decide(st, p)
    IN  [repeated |-> repeated,
         audit |-> IF repeated THEN ctl.audit ELSE decision,
         ctl |-> IF repeated
                 THEN [ctl EXCEPT !.pending = Retained(TRUE)]
                 ELSE [pending |-> Retained(FALSE), key |-> key, audit |-> decision, inner |-> inner,
                       decision |-> decision, epoch |-> IF planned THEN ctl.epoch ELSE ctl.epoch + 1]]

(* All orders in which a set of actions is handed on. *)
Orders(S) == {q \in [1..Cardinality(S) -> S] : \A i, j \in 1..Cardinality(S) : i < j => q[i].task < q[j].task}

(* controller.step(dispatch=True) by its owner: every action that was not  *)
(* sent before goes to the dispatcher; what the dispatcher answers, errors *)
(* included, is cached.                                                    *)
ControlStep(p) ==
    LET s == Stepped(p, TRUE)
    IN  /\ call = Idle /\ ctl.epoch < MaxEpochs
        /\ ctl' = s.ctl
        /\ \E q \in Orders(IF s.repeated THEN {} ELSE Unsent(s.audit)) : sent' = sent \o q
        /\ UNCHANGED <<version, ready, claims, call, results, bound, marked, lost, stuck, idle, faults>>

-----------------------------------------------------------------------------
(* schedule_online_epoch. *)

Found(n) == idle' = IF n = 0 /\ ready \ Claimed # {} THEN idle + 1 ELSE 0

(* The call plans, dispatch disabled. *)
Plan(p, planOnly, keep) ==
    LET s == Stepped(p, FALSE)
    IN  /\ call = Idle /\ ctl.epoch < MaxEpochs
        /\ planOnly => ~keep
        /\ ctl' = s.ctl
        /\ call' = [at |-> "planned", audit |-> s.audit, planOnly |-> planOnly, keep |-> keep, event |-> p]
        /\ UNCHANGED <<version, ready, claims, results, bound, sent, marked, lost, stuck, idle, faults>>

(* The version it was planned at is not the current one, the control loop  *)
(* refused, nothing is selected, or only a plan was asked for: it returns  *)
(* without the scheduler.                                                  *)
NotScheduled ==
    \/ call.audit.ver # version
    \/ call.audit.status # "planned"
    \/ call.audit.selected = {}
    \/ call.planOnly

ReturnPlan ==
    /\ call.at = "planned" /\ NotScheduled
    /\ call' = Idle
    /\ IF call.planOnly \/ call.event # None THEN UNCHANGED idle ELSE Found(0)
    /\ UNCHANGED <<version, ready, claims, ctl, results, bound, sent, marked, lost, stuck, faults>>

CheckPlan ==
    /\ call.at = "planned" /\ ~NotScheduled
    /\ call' = [call EXCEPT !.at = "admit"]
    /\ UNCHANGED <<version, ready, claims, ctl, results, bound, sent, marked, lost, stuck, idle, faults>>

(* What one pass may admit: selected tasks that are ready and unclaimed,   *)
(* some of them refused by eligibility or resources.                       *)
Admissible == (call.audit.selected \cap ready) \ Claimed

(* expected_graph_version of run_pass. *)
PassHolds == version = call.audit.ver

NewClaims(S) ==
    [i \in 1..Cardinality(S) |->
        [task |-> CHOOSE t \in S : Cardinality({u \in S : u < t}) = i - 1,
         ver |-> version, state |-> "active", own |-> TRUE]]

(* schedule_once of run_pass, under the scheduler's lock. *)
RunPass ==
    /\ call.at = "admit" /\ PassHolds
    /\ \E S \in SUBSET Admissible :
          /\ Len(claims) + Cardinality(S) <= MaxClaims
          /\ claims' = claims \o NewClaims(S)
          /\ call' = [at |-> "passed", audit |-> call.audit, keep |-> call.keep,
                      mine |-> Len(claims) + 1 .. Len(claims) + Cardinality(S),
                      full |-> S = Admissible]
    /\ UNCHANGED <<version, ready, ctl, results, bound, sent, marked, lost, stuck, idle, faults>>

(* policy_stale of schedule_once: the version moved after the check and    *)
(* nothing is acquired.                                                    *)
PolicyStale ==
    /\ call.at = "admit" /\ ~PassHolds
    /\ call' = Idle
    /\ UNCHANGED <<version, ready, claims, ctl, results, bound, sent, marked, lost, stuck, idle, faults>>

(* A release loop over exact Claims, one scheduler call at a time. *)
Release(todo, why) ==
    [at |-> "release", todo |-> todo, mine |-> call.mine, why |-> why, retained |-> {},
     ver |-> version]

(* The rest of run_pass: the version moved while it acquired, or observing *)
(* the graph or reconciling raises.  What was acquired is released; the    *)
(* call returns GRAPH_CHANGED without a dispatch, or raises.               *)
PassFails ==
    /\ call.at = "passed"
    /\ call' = Release(call.mine, "pass")
    /\ UNCHANGED <<version, ready, claims, ctl, results, bound, sent, marked, lost, stuck, idle, faults>>

PassReturns ==
    /\ call.at = "passed" /\ PassHolds
    /\ call' = [call EXCEPT !.at = "acquired"]
    /\ UNCHANGED <<version, ready, claims, ctl, results, bound, sent, marked, lost, stuck, idle, faults>>

(* Every dispatch is validated against its live Claim, Attempt and Lease.  *)
(* The validation fails: what the call acquired is released, and it raises. *)
ValidationFails ==
    /\ call.at = "acquired" /\ ~(call.mine \subseteq Active)
    /\ call' = Release(call.mine, "validation")
    /\ UNCHANGED <<version, ready, claims, ctl, results, bound, sent, marked, lost, stuck, idle, faults>>

Validated ==
    /\ call.at = "acquired" /\ call.mine \subseteq Active
    /\ call' = [call EXCEPT !.at = "validated"]
    /\ UNCHANGED <<version, ready, claims, ctl, results, bound, sent, marked, lost, stuck, idle, faults>>

(* A mutant of GraphRaced: the version is not read again. *)
GraphRaced_Unread == FALSE

(* The graph moved while the pass ran. *)
GraphRaced == version # call.audit.ver \/ \E c \in call.mine : claims[c].ver # call.audit.ver

Held(status, ver, mine, retained) == [status |-> status, ver |-> ver, mine |-> mine, retained |-> retained]

Settle ==
    /\ call.at = "validated"
    /\ \/ /\ GraphRaced
          /\ call' = Release(call.mine, "raced")
          /\ UNCHANGED <<results, idle>>
       \/ /\ ~GraphRaced /\ call.mine = {}
          /\ call' = Idle
          /\ IF call.full THEN Found(0) ELSE idle' = 0
          /\ UNCHANGED results
       \/ /\ ~GraphRaced /\ call.mine # {} /\ call.keep
          /\ results' = results \cup {Held("claims_acquired", version, call.mine, call.mine)}
          /\ call' = Idle /\ Found(1)
       \/ /\ ~GraphRaced /\ call.mine # {} /\ ~call.keep
          /\ call' = Release(call.mine, "auto")
          /\ UNCHANGED <<results, idle>>
    /\ UNCHANGED <<version, ready, claims, ctl, bound, sent, marked, lost, stuck, faults>>

-----------------------------------------------------------------------------
(* _release_online_dispatches, and _release_unexecuted_dispatches when a   *)
(* validation failed.                                                      *)

(* A mutant of ReleaseTarget: release_task without expected_claim_id. *)
ReleaseTarget_ByTask(c) == {d \in Active : claims[d].task = claims[c].task}

(* release_task with expected_claim_id: the Claim itself, if it is live. *)
ReleaseTarget(c) == {d \in Active : d = c}

Ended(S) == [c \in 1..Len(claims) |-> IF c \in S THEN [claims[c] EXCEPT !.state = "released"] ELSE claims[c]]

(* One release: it takes effect, or it raises before or after it does.  A  *)
(* Claim is retained when it was not released and is not terminal; run_pass *)
(* goes by the exception alone.                                            *)
ReleaseOne ==
    /\ call.at = "release" /\ call.todo # {}
    /\ LET c == CHOOSE x \in call.todo : \A y \in call.todo : x <= y
           next(kept) == [call EXCEPT !.todo = @ \ {c}, !.retained = @ \cup kept]
       IN  \/ /\ claims' = Ended(ReleaseTarget(c)) /\ call' = next({}) /\ UNCHANGED faults
           \/ /\ c \in Active /\ faults < MaxFaults /\ faults' = faults + 1
              /\ \/ /\ claims' = Ended(ReleaseTarget(c))
                    /\ call' = next(IF call.why = "pass" THEN {c} ELSE {})
                 \/ UNCHANGED claims /\ call' = next({c})
    /\ UNCHANGED <<version, ready, ctl, results, bound, sent, marked, lost, stuck, idle>>

(* A mutant of Marker: a failed release of run_pass leaves no marker. *)
Marker_Never == {}

(* _record_failed_exact_cleanup of run_pass. *)
Marker == IF call.why = "pass" THEN call.retained ELSE {}

(* The call returns what it could not release.  run_pass marks it instead, *)
(* and in the validation path nobody is told.                              *)
EndRelease ==
    /\ call.at = "release" /\ call.todo = {}
    /\ call' = Idle
    /\ marked' = marked \cup Marker
    /\ lost' = IF call.why = "validation" THEN lost \cup call.retained ELSE lost
    /\ results' = IF call.why \in {"validation", "pass"} \/ call.retained = {} THEN results
                  ELSE results \cup {Held("cleanup_required", call.ver, call.mine, call.retained)}
    /\ idle' = 0
    /\ UNCHANGED <<version, ready, claims, ctl, bound, sent, stuck, faults>>

(* release_online_epoch: the caller gives its result back. *)
ReleaseEpoch(r) ==
    /\ call = Idle
    /\ results' = results \ {r}
    /\ call' = [at |-> "release", todo |-> r.retained, mine |-> r.mine, why |-> "given back",
                retained |-> {}, ver |-> r.ver]
    /\ UNCHANGED <<version, ready, claims, ctl, bound, sent, marked, lost, stuck, idle, faults>>

-----------------------------------------------------------------------------
(* handoff_online_epoch_to_harness. *)

(* The result must retain every Claim it dispatched and be of the current  *)
(* version; the preflight then checks every Claim before any is bound.     *)
Handoff(r) ==
    /\ call = Idle /\ r.retained = r.mine /\ r.ver = version
    /\ \A c \in r.mine : c \in Active /\ claims[c].ver = r.ver
    /\ call' = [at |-> "bind", todo |-> r.mine \ bound, new |-> {}, mine |-> r.mine]
    /\ UNCHANGED <<version, ready, claims, ctl, results, bound, sent, marked, lost, stuck, idle, faults>>

Least(S) == CHOOSE x \in S : \A y \in S : x <= y

(* register_harness of the next one, which checks its fence again. *)
BindOne ==
    /\ call.at = "bind" /\ call.todo # {} /\ Least(call.todo) \in Active
    /\ bound' = bound \cup {Least(call.todo)}
    /\ call' = [call EXCEPT !.todo = @ \ {Least(call.todo)}, !.new = @ \cup {Least(call.todo)}]
    /\ UNCHANGED <<version, ready, claims, ctl, results, sent, marked, lost, stuck, idle, faults>>

(* The bindings a failed handoff takes back: those it made. *)
Unbound == call.new

(* The fence is gone or the registration raises: FAILED_CLOSED.  What      *)
(* unregister_harness raises in the rollback is an entry of the errors,    *)
(* and that binding stays.                                                 *)
BindFails ==
    /\ call.at = "bind" /\ call.todo # {}
    /\ \E kept \in SUBSET Unbound, raised \in BOOLEAN :
          LET new == Cardinality(kept) + IF raised THEN 1 ELSE 0
          IN  /\ raised \/ Least(call.todo) \notin Active
              /\ faults + new <= MaxFaults /\ faults' = faults + new
              /\ bound' = bound \ (Unbound \ kept)
              /\ stuck' = stuck \cup kept
    /\ call' = Idle
    /\ UNCHANGED <<version, ready, claims, ctl, results, sent, marked, lost, idle>>

BindEnds ==
    /\ call.at = "bind" /\ call.todo = {}
    /\ call' = Idle
    /\ UNCHANGED <<version, ready, claims, ctl, results, bound, sent, marked, lost, stuck, idle, faults>>

-----------------------------------------------------------------------------
(* The rest of the system. *)

(* An epoch that was under way when the world moved does not count. *)
WorldMoves == idle' = IF call = Idle THEN 0 ELSE -1

(* Another session commits to the graph. *)
GraphAdvances ==
    /\ version < MaxVersion /\ version' = version + 1
    /\ \E R \in SUBSET Tasks : ready' = R
    /\ WorldMoves
    /\ UNCHANGED <<claims, ctl, call, results, bound, sent, marked, lost, stuck, faults>>

(* A Claim ends outside these calls: completed, released or lost. *)
ClaimEnds(c) ==
    /\ claims' = [claims EXCEPT ![c].state = "lost"]
    /\ WorldMoves
    /\ UNCHANGED <<version, ready, ctl, call, results, bound, sent, marked, lost, stuck, faults>>

(* Another session claims a free task. *)
OtherClaims(t) ==
    /\ Len(claims) < MaxClaims /\ t \in ready \ Claimed
    /\ claims' = Append(claims, [task |-> t, ver |-> version, state |-> "active", own |-> FALSE])
    /\ WorldMoves
    /\ UNCHANGED <<version, ready, ctl, call, results, bound, sent, marked, lost, stuck, faults>>

Next ==
    \/ \E p \in Proposals : ControlStep(p) \/ (\E a, b \in BOOLEAN : Plan(p, a, b))
    \/ ReturnPlan \/ CheckPlan \/ RunPass \/ PolicyStale \/ PassFails \/ PassReturns
    \/ ValidationFails \/ Validated \/ Settle \/ ReleaseOne \/ EndRelease
    \/ \E r \in results : ReleaseEpoch(r) \/ Handoff(r)
    \/ BindOne \/ BindFails \/ BindEnds
    \/ GraphAdvances
    \/ \E c \in Active : ClaimEnds(c)
    \/ \E t \in Tasks : OtherClaims(t)

Spec == Init /\ [][Next]_vars

-----------------------------------------------------------------------------
(* A claim an online epoch acquired and that still holds its task is known *)
(* to somebody: to the call in progress, to the caller as a retained Claim *)
(* of a result, or, when run_pass itself could not give it back, to        *)
(* recovery by a durable cleanup marker (taken to be written when it is    *)
(* tried), although schedule_online_epoch then returns GRAPH_CHANGED and   *)
(* names no Claim; whatever races the pass, the version checks and the     *)
(* releases.  The one exception is a release that raised after the         *)
(* validation of a dispatch failed: it is neither returned nor marked.     *)
(* The Claims of a CLAIMS_ACQUIRED result were planned, admitted and       *)
(* returned at one graph version.                                          *)
OwnershipIsAccounted ==
    /\ \A c \in Active :
          \/ ~claims[c].own \/ c \in lost \cup marked
          \/ call.at \in {"passed", "acquired", "validated", "release"} /\ c \in call.mine
          \/ \E r \in results : c \in r.retained
    /\ \A r \in results : r.status = "claims_acquired" => \A c \in r.mine : claims[c].ver = r.ver

(* release_task is asked for exact Claims: no step of an online epoch ends *)
(* a Claim that another session took on the same task in the meantime.  A  *)
(* handoff that ends well has bound every Claim it was asked for; one that *)
(* fails leaves none of the bindings it made, except those whose           *)
(* unregistering raised as well.                                           *)
OnlyOwnClaimsEnd ==
    /\ \A c \in Active : ~claims[c].own => claims'[c].state # "released"
    /\ call.at = "bind" /\ call'.at = "idle" =>
          IF call.todo = {} THEN call.mine \subseteq bound'
          ELSE bound' \cap call.new \subseteq stuck'

(* A reused controller is at most one epoch behind: while the world stands *)
(* still and a ready task is unclaimed, no two epochs in a row report that *)
(* there is nothing to admit, although each plans on the observation its   *)
(* predecessor retained and a repeated input is answered from memory.      *)
OneEpochBehind == idle <= 1

(* An action of a decision reaches the dispatcher once, however often the  *)
(* same state is stepped with dispatch on and off in between.              *)
ActionsAreSentOnce == \A i, j \in 1..Len(sent) : sent[i] = sent[j] => i = j

=============================================================================
