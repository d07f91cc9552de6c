-------------------------- MODULE ChangeDecisions ---------------------------
(***************************************************************************)
(* What is kept of running and cached work when a fact changes, as         *)
(* operators: the plan of SemanticInterruptPolicy (semantic_interrupt.py), *)
(* the Context delta planner (plan_context_rebase) and the commit          *)
(* freshness check of the rebase bridge (validate_read_set_freshness).     *)
(***************************************************************************)
EXTENDS Integers, FiniteSets, FiniteSetsExt

(***************************************************************************)
(* SemanticInterruptPolicy.plan: from the observed runtime state and a set *)
(* of interrupts to one decision per attempt or task, and the interrupts   *)
(* nothing was decided about.                                              *)
(*   state:     [graph, version, available, attempts, ready, verified]     *)
(*              attempts is a set of [id, task]                            *)
(*   interrupt: [id, graph, version, kind, tasks, attempts, preemptible]   *)
(***************************************************************************)
ActionPriority == [continue |-> 0, defer |-> 1, reverify |-> 2,
                   rebase |-> 3, preempt |-> 4]

(* A callback under resource pressure is stopped only if it declared that  *)
(* it can be. *)
ActiveAction(i, taskIsVerified) ==
  IF i.kind = "resource_pressure"
  THEN IF i.preemptible THEN "preempt" ELSE "continue"
  ELSE IF taskIsVerified
          \/ i.kind \in {"write_conflict", "agent_stalled", "task_verified"}
  THEN "preempt" ELSE "rebase"

ReadyAction(i) ==
  IF i.kind = "evidence_invalidated" THEN "reverify" ELSE "defer"

Admitted_AnyVersion(st, i) == i.graph = st.graph /\ st.available

(* An interrupt of another graph, or of a version this state has not       *)
(* reached, is not acted on; nor is any while attempts cannot be observed. *)
Admitted(st, i) ==
  i.graph = st.graph /\ i.version <= st.version /\ st.available

TargetAttempts(st, i) ==
  {a \in st.attempts : a.id \in i.attempts \/ a.task \in i.tasks}

TargetTasks(st, i) ==
  LET ready == i.tasks \cap st.ready
  IN IF ready # {} THEN ready ELSE i.tasks \cap st.verified

Target(kind, id) == [kind |-> kind, id |-> id]

(* What one interrupt proposes: running attempts first, and only when      *)
(* there is none the tasks themselves. *)
Proposals(st, i) ==
  IF ~Admitted(st, i) THEN {}
  ELSE LET running == TargetAttempts(st, i) IN
    IF running # {}
    THEN {[target |-> Target("attempt", a.id), by |-> i.id,
           action |-> ActiveAction(i, a.task \in st.verified)] : a \in running}
    ELSE {[target |-> Target("task", t), by |-> i.id,
           action |-> ReadyAction(i)] : t \in TargetTasks(st, i)}

(* _merge_proposal: of several actions for one target the strongest wins.  *)
MergeProposal(ps) ==
  LET top == Max({ActionPriority[p.action] : p \in ps})
  IN CHOOSE a \in DOMAIN ActionPriority : ActionPriority[a] = top

Plan(st, interrupts) ==
  LET all == UNION {Proposals(st, i) : i \in interrupts}
      of(t) == {p \in all : p.target = t}
  IN [decisions |-> {[target |-> t, action |-> MergeProposal(of(t)),
                      by |-> {p.by : p \in of(t)}] : t \in {p.target : p \in all}},
      unhandled |-> {i.id : i \in {j \in interrupts : Proposals(st, j) = {}}}]

-----------------------------------------------------------------------------
(* Checked against the contract: each interrupt is accounted for once, as  *)
(* decided about or as unhandled; nothing older work could not have seen   *)
(* is acted on; a running attempt whose task is already verified is never  *)
(* left to continue by a semantic change; and an attempt is preferred to   *)
(* its task. *)
PlanAccountsFor(st, interrupts) ==
  LET p == Plan(st, interrupts)
      decided == UNION {d.by : d \in p.decisions}
  IN /\ decided \cap p.unhandled = {}
     /\ decided \cup p.unhandled = {i.id : i \in interrupts}
     /\ \A i \in interrupts : i.version > st.version => i.id \in p.unhandled
     /\ \A d \in p.decisions :
          /\ d.target.kind = "attempt" =>
               \E a \in st.attempts :
                 /\ a.id = d.target.id
                 /\ a.task \in st.verified =>
                      d.action = "preempt"
                      \/ \A i \in interrupts : i.id \in d.by => i.kind = "resource_pressure"
          /\ d.target.kind = "task" =>
               \A i \in interrupts : i.id \in d.by =>
                 ~\E a \in st.attempts : a.task = d.target.id /\ a.task \in i.tasks

(***************************************************************************)
(* Context rebase.  A binding is [ref, uri, art, ver, known]: ver is the   *)
(* version it pins, 0 when it pins none, and stands for the content hash   *)
(* as well.  A delta is [given, known, coverage, keys, changes]; a change  *)
(* is [uri, art, new, known] with "" for an identity it does not name and  *)
(* 0 for a new version it does not know.                                   *)
(***************************************************************************)
(* ContextBindingRef.from_any: a binding without a manifest id is named by *)
(* its URI.                                                                *)
ReadBinding(r, ver, known) == [ref |-> r.uri, uri |-> r.uri, art |-> r.art, ver |-> ver, known |-> known]

PageBinding(r, ver) == [ref |-> r.page, uri |-> r.uri, art |-> r.art, ver |-> ver, known |-> TRUE]

(* ContextGraphDelta.from_any: no delta at all is an empty partial one. *)
NoDelta == [given |-> FALSE, known |-> TRUE, coverage |-> "partial", keys |-> {}, changes |-> {}]

Explicit(delta) == delta.keys # {} \/ delta.changes # {}

(* A mutant of SameNewIdentity: any precise change counts as applied. *)
SameNewIdentity_Any(b, change) == change.new # 0

SameNewIdentity(b, change) == change.new # 0 /\ b.ver = change.new

(* An artifact match is dropped when the binding is already at the new     *)
(* identity; a match by URI is kept and judged later.                      *)
ChangeMatches(b, change) ==
    \/ change.uri # "" /\ change.uri = b.uri
    \/ change.art # "" /\ change.art = b.art /\ ~SameNewIdentity(b, change)

(* _binding_is_affected: "unknown", "affected" or "valid". *)
Verdict(b, delta) ==
    LET matching == {c \in delta.changes : ChangeMatches(b, c)}
    IN  CASE ~b.known \/ ~delta.known \/ delta.coverage = "unknown" -> "unknown"
          [] b.known /\ delta.known /\ delta.coverage # "unknown" ->
                IF matching # {}
                THEN IF \E c \in matching : ~c.known THEN "unknown"
                     ELSE IF \A c \in matching : SameNewIdentity(b, c) THEN "valid" ELSE "affected"
                ELSE IF {b.ref, b.uri, b.art} \cap delta.keys # {} THEN "affected" ELSE "valid"

(* _coerce_bindings: one identity per ref, or the plan cannot be made. *)
Coherent(bindings) == \A b, c \in bindings : b.ref = c.ref => b = c

With(bindings, delta, verdict) == {b \in bindings : Verdict(b, delta) = verdict}

(* plan_context_rebase. *)
PlanAction(bindings, delta) ==
    CASE With(bindings, delta, "unknown") # {} -> "blocked"
      [] With(bindings, delta, "affected") = {} -> "reuse"
      [] With(bindings, delta, "valid") = {} -> "full_reload"
      [] OTHER -> "rebase"

(* _strict_read_set_unknown_ids: reads that pin no exact version. *)
Unpinned(reads) == {b \in reads : ~b.known \/ b.art = "" \/ b.ver = 0}

(* A mutant of CoverageBlocks: partial coverage passes. *)
CoverageBlocks_OnlyUnknown(old, current, delta) == ~delta.known \/ delta.coverage = "unknown"

(* What the delta alone refuses, whatever was read. *)
CoverageBlocks(old, current, delta) ==
    \/ current > old /\ ~delta.given
    \/ ~delta.known \/ delta.coverage = "unknown"
    \/ current > old /\ delta.coverage # "complete"
    \/ current = old /\ Explicit(delta)

(* validate_read_set_freshness: "fresh", "stale" or "blocked". *)
Freshness(reads, pages, old, current, delta) ==
    LET all == reads \cup pages
    IN  CASE current < old \/ CoverageBlocks(old, current, delta) -> "blocked"
          [] Unpinned(reads) # {} \/ ~Coherent(all) -> "blocked"
          [] With(all, delta, "unknown") # {} -> "blocked"
          [] With(all, delta, "affected") # {} -> "stale"
          [] OTHER -> "fresh"

(* RebaseRuntimeBridge.plan: the action before a Harness is consulted. *)
BridgeAction(reads, pages, old, current, delta) ==
    LET fresh == Freshness(reads, pages, old, current, delta)
        action == PlanAction(reads \cup pages, delta)
    IN  CASE fresh = "blocked" -> "blocked"
          [] fresh = "stale" /\ action = "reuse" -> "rebase"
          [] OTHER -> action

-----------------------------------------------------------------------------
(* A complete delta names every resource that moved past the version the   *)
(* old graph had, and knows new versions rightly.                          *)
Honest(resources, cur, delta) ==
    /\ \A c \in delta.changes : \A r \in resources :
          (c.uri = r.uri \/ c.art = r.art) /\ c.new # 0 => c.new = cur[r]
    /\ delta.coverage = "complete" =>
          \A r \in resources : cur[r] > 1 =>
             \/ {r.uri, r.art} \cap delta.keys # {}
             \/ \E c \in delta.changes : c.uri = r.uri \/ c.art = r.art

(* Cognition is only reused, and a read set only called fresh, when every   *)
(* binding the Agent read or was given is at its current version: what the  *)
(* bridge derives from an honest delta (RebaseRuntimeBridge.plan).          *)
ReuseIsSound(x) ==
    LET reads == x.reads
        pages == x.pages
    IN  /\ Honest(x.resources, x.cur, x.delta)
        /\ BridgeAction(reads, pages, x.old, x.current, x.delta) = "reuse"
        => \A b \in reads \cup pages : \A r \in x.resources :
              b.art = r.art => b.ver = x.cur[r]
=============================================================================
