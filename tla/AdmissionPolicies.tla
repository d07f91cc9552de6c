------------------------- MODULE AdmissionPolicies -------------------------
(***************************************************************************)
(* The pure planning policies of the control loop: the conflict graph and  *)
(* the conflict-aware batch (sdk/conflict_graph.py), resource fitting      *)
(* (sdk/resource_policy.py), the degree of parallelism                     *)
(* (sdk/parallelism_policy.py), the frontier order                         *)
(* (sdk/frontier_policy.py), the compute budget (sdk/compute_budget.py)    *)
(* and their combination (sdk/unified_policy.py).  Each is an operator of  *)
(* one observed state x:                                                   *)
(*                                                                         *)
(*   task      candidate id -> [repair, validity, access, request,         *)
(*             estimate]: access, request and estimate are {} when absent, *)
(*             {record} when declared                                      *)
(*   attempts  the running attempts, [task, reads, writes, known]          *)
(*   closed, cognition, resources, fence     the availability flags        *)
(*   pools     pool -> free units of each dimension; badPools: some pool   *)
(*             could not be read                                           *)
(*   limit     budget dimension -> ceiling, or Unbounded; used the usage   *)
(*   max       max_parallelism;  events, upstream   the churn evidence     *)
(*   critical  the critical path;  unlock   task -> unlock value           *)
(*                                                                         *)
(* Task ids are numbers, so that "sorted" is the order of Nat.  The reason *)
(* texts and hashes of a plan are left out; a plan is [selected, safe,     *)
(* hint] and what the selected tasks were charged.                         *)
(***************************************************************************)
EXTENDS Integers, SequencesExt

Unbounded == -1

Candidates(x) == DOMAIN x.task

Known(declared) == \E d \in declared : d.known

The(declared) == CHOOSE d \in declared : TRUE

(* The lexicographic order of Python tuples of integers. *)
TupleLess(p, q) == \E i \in DOMAIN p : p[i] < q[i] /\ \A j \in 1..(i - 1) : p[j] = q[j]

(* The guards every policy applies before admission, with its own order of *)
(* the reasons.                                                            *)
Eligible(x, t) ==
    /\ ~x.closed /\ x.cognition /\ x.resources
    /\ x.task[t].validity # "terminal"
    /\ x.task[t].validity = "stale" => x.task[t].repair
    /\ \A a \in x.attempts : a.task # t

----------------------------------------------------------------------------
(* ConflictGraph.from_access_sets *)

DeclaredAccess(x) ==
    [t \in {s \in Candidates(x) : x.task[s].access # {}} |-> The(x.task[t].access)]

(* A mutant of ConflictCandidates: the readers of a resource are not met   *)
(* with its writers.                                                       *)
ConflictCandidates_WritersOnly(access) ==
    LET ids == DOMAIN access
        writers(r) == {t \in ids : access[t].known /\ r \in access[t].writes}
    IN  {{s, t} : s \in {u \in ids : ~access[u].known}, t \in ids}
            \cup UNION {{{s, t} : s, t \in writers(r)} : r \in UNION {access[t].writes : t \in ids}}

(* The pairs met through the inverted index: an unknown declaration meets  *)
(* everything, a writer of a resource its other writers and its readers.   *)
ConflictCandidates(access) ==
    LET ids == DOMAIN access
        writers(r) == {t \in ids : access[t].known /\ r \in access[t].writes}
        readers(r) == {t \in ids : access[t].known /\ r \in access[t].reads}
    IN  {{s, t} : s \in {u \in ids : ~access[u].known}, t \in ids}
            \cup UNION {{{s, t} : s \in writers(r), t \in writers(r) \cup readers(r)}
                            : r \in UNION {access[t].writes : t \in ids}}

(* The pairs of those that conflict for a reason. *)
DeriveConflicts(access) ==
    {p \in ConflictCandidates(access) : \E s, t \in p :
        /\ s # t
        /\ \/ ~access[s].known
           \/ access[s].writes \cap (access[t].writes \cup access[t].reads) # {}}

(* _active_conflict_blockers *)
ActiveBlocks(access, a) ==
    \/ ~a.known
    \/ access.writes \cap (a.reads \cup a.writes) # {}
    \/ access.reads \cap a.writes # {}

(* Repair first, declared before undeclared, then by id. *)
ConflictOrder(x) ==
    LET key(t) == <<IF x.task[t].repair THEN 0 ELSE 1,
                    IF x.task[t].access # {} THEN 0 ELSE 1, t>>
    IN  SetToSortSeq(Candidates(x), LAMBDA s, t : TupleLess(key(s), key(t)))

ActiveUnknown(x) == \E a \in x.attempts : ~a.known

(* DynamicParallelismPolicy.suggest admits t after sel. *)
DynamicAdmits(x, conflicts, sel, t) ==
    /\ Eligible(x, t) /\ ~ActiveUnknown(x)
    /\ IF Known(x.task[t].access)
       THEN /\ \A s \in ToSet(sel) : {s, t} \notin conflicts
            /\ \A a \in x.attempts : ~ActiveBlocks(The(x.task[t].access), a)
            /\ Len(sel) < x.max
       ELSE sel = <<>> /\ x.attempts = {}

SuggestDynamic(x) ==
    LET conflicts == DeriveConflicts(DeclaredAccess(x))
        take(sel, t) == IF DynamicAdmits(x, conflicts, sel, t) THEN Append(sel, t) ELSE sel
        selected == FoldLeft(take, <<>>, ConflictOrder(x))
        observed == x.cognition /\ x.resources /\ ~ActiveUnknown(x)
    IN  [selected |-> selected,
         safe |-> observed /\ \A t \in ToSet(selected) : Known(x.task[t].access),
         hint |-> IF observed THEN Len(selected) ELSE 0]

----------------------------------------------------------------------------
(* Logical resource pools *)

Fits(units, free) == \A d \in DOMAIN units : units[d] <= free[d]

Minus(free, units) == [d \in DOMAIN free |-> free[d] - units[d]]

(* _choose_pool: the pool the request names, else the first that fits; {}  *)
(* when there is none.                                                     *)
ChoosePool(request, remaining) ==
    LET fit == {p \in DOMAIN remaining :
                   Fits(request.units, remaining[p]) /\ (request.pool = {} \/ p \in request.pool)}
    IN  {p \in fit : \A q \in fit : p <= q}

(* _resource_fit_reason, when no pool was chosen. *)
FitReason(request, remaining, pools) ==
    CASE request.pool # {} /\ request.pool \cap DOMAIN pools = {} -> "pool_unknown"
      [] DOMAIN remaining = {} -> "capacity_unknown"
      [] OTHER -> "insufficient"

(* A mutant of Charge: the chosen pool keeps its units. *)
Charge_Free(b, t, pool, units) ==
    [b EXCEPT !.selected = Append(b.selected, t), !.assigned = @ \cup {<<t, p>> : p \in pool}]

(* A selected task is assigned its pool and consumes its units. *)
Charge(b, t, pool, units) ==
    [b EXCEPT !.selected = Append(b.selected, t),
              !.assigned = @ \cup {<<t, p>> : p \in pool},
              !.remaining = [p \in DOMAIN b.remaining |->
                                 IF p \in pool THEN Minus(b.remaining[p], units) ELSE b.remaining[p]]]

NoBatch(x) == [selected |-> <<>>, assigned |-> {}, remaining |-> x.pools, used |-> x.used,
               misfits |-> {}, alone |-> FALSE, unsafe |-> FALSE]

(* ResourceAwareParallelismPolicy.suggest: what one candidate does to the  *)
(* batch so far.  A candidate that no pool fits is remembered, because it  *)
(* may make the whole plan unsafe.                                         *)
ResourceStep(x, conflicts, b, t) ==
    LET known == Known(x.task[t].access)
        clear == IF known
                 THEN /\ \A s \in ToSet(b.selected) : {s, t} \notin conflicts
                      /\ \A a \in x.attempts : ~ActiveBlocks(The(x.task[t].access), a)
                      /\ Len(b.selected) < x.max
                 ELSE b.selected = <<>> /\ x.attempts = {}
    IN  IF ~(Eligible(x, t) /\ Known(x.task[t].request) /\ ~ActiveUnknown(x) /\ clear) THEN b
        ELSE LET request == The(x.task[t].request)
                 pool == ChoosePool(request, b.remaining)
             IN  IF pool = {}
                 THEN [b EXCEPT !.misfits = @ \cup {<<t, FitReason(request, b.remaining, x.pools)>>}]
                 ELSE [Charge(b, t, pool, request.units) EXCEPT !.unsafe = @ \/ ~known]

PoolErrors(x) == x.badPools \/ (x.resources /\ DOMAIN x.pools = {})

(* Some request is larger than every pool, or names no known pool. *)
Unschedulable(x, b) ==
    \E m \in b.misfits :
        \/ m[2] # "insufficient"
        \/ \A p \in DOMAIN x.pools : ~Fits(The(x.task[m[1]].request).units, x.pools[p])

SuggestResources(x) ==
    LET conflicts == DeriveConflicts(DeclaredAccess(x))
        b == FoldLeft(LAMBDA acc, t : ResourceStep(x, conflicts, acc, t), NoBatch(x), ConflictOrder(x))
        observed == x.cognition /\ x.resources /\ ~PoolErrors(x)
    IN  [selected |-> b.selected, assigned |-> b.assigned,
         safe |-> /\ observed /\ ~b.unsafe /\ ~ActiveUnknown(x) /\ ~Unschedulable(x, b)
                  /\ \A t \in Candidates(x) : Known(x.task[t].request),
         hint |-> IF observed THEN Len(b.selected) ELSE 0]

----------------------------------------------------------------------------
(* AdaptiveParallelismPolicy *)

(* _verdict_for: the task or something upstream of it changed in too many  *)
(* graph versions, or too often.                                           *)
Churning(x, t) ==
    LET matched == {e \in x.events : e.node \in {t} \cup x.upstream[t]}
    IN  \/ Cardinality({e.version : e \in matched}) >= x.versionThreshold
        \/ Cardinality(matched) >= x.eventThreshold

(* The reworked tasks that are not already deferred for churn. *)
ContentionBackoff(x, churning) == Cardinality({e.node : e \in {f \in x.events : f.rework}} \ churning)

(* A mutant of Runnable: churning tasks stay in the batch. *)
Runnable_AllStable(x, selected) == selected

Runnable(x, selected) == SelectSeq(selected, LAMBDA t : ~Churning(x, t))

(* decide: both probes run with a cap no batch reaches. *)
Decide(x) ==
    LET churning == {t \in Candidates(x) : Churning(x, t)}
        probe == [x EXCEPT !.max = IF Candidates(x) = {} THEN 1 ELSE Cardinality(Candidates(x))]
        conflictProbe == SuggestDynamic(probe)
        antichain == Runnable(x, conflictProbe.selected)
        fitting == IF x.requested THEN Runnable(x, SuggestResources(probe).selected) ELSE <<>>
        runnable == IF x.requested THEN SelectSeq(antichain, LAMBDA t : t \in ToSet(fitting)) ELSE antichain
        headroom == IF x.requested THEN Len(fitting) ELSE 1
        raw == Min({x.max, Len(antichain), headroom})
        failClosed == x.closed \/ ~x.cognition \/ ~x.resources \/ conflictProbe.hint = 0
        degree == IF failClosed \/ raw <= 0 THEN 0 ELSE Max({1, raw - ContentionBackoff(x, churning)})
    IN  [selected |-> SubSeq(runnable, 1, Min({degree, Len(runnable)})),
         degree |-> degree,
         safe |-> ~failClosed /\ x.requested /\ conflictProbe.safe]

----------------------------------------------------------------------------
(* FrontierPolicy: the graph-utility order and its ordinal score *)

PathPosition(x, t) ==
    IF \E i \in DOMAIN x.critical : x.critical[i] = t
    THEN (CHOOSE i \in DOMAIN x.critical : x.critical[i] = t) - 1
    ELSE Len(x.critical)

OnPath(x, t) == PathPosition(x, t) < Len(x.critical)

UtilityKey(x, t) ==
    <<IF x.task[t].repair THEN 0 ELSE 1, IF OnPath(x, t) THEN 0 ELSE 1, PathPosition(x, t), -x.unlock[t]>>

(* A mutant of UnlockSpan: one too few, so two unlock values can meet. *)
UnlockSpan_Tight(x) == Max({x.unlock[t] : t \in Candidates(x)} \cup {1})

UnlockSpan(x) == Max({x.unlock[t] : t \in Candidates(x)} \cup {0}) + 1

Score(x, t) ==
    LET span == (Len(x.critical) + 1) * UnlockSpan(x)
        tier == (IF x.task[t].repair THEN 2 ELSE 0) + (IF OnPath(x, t) THEN 1 ELSE 0)
    IN  tier * span + (Len(x.critical) - PathPosition(x, t)) * UnlockSpan(x) + x.unlock[t]

FrontierOrder(x) ==
    SetToSortSeq(Candidates(x), LAMBDA s, t : TupleLess(Append(UtilityKey(x, s), s), Append(UtilityKey(x, t), t)))

(* FrontierPolicy.plan *)
PlanFrontier(x) ==
    LET take(sel, t) == IF Eligible(x, t) /\ Len(sel) < x.max THEN Append(sel, t) ELSE sel
    IN  [selected |-> FoldLeft(take, <<>>, FrontierOrder(x))]

----------------------------------------------------------------------------
(* VerifiedProgressBudgetPolicy *)

(* A mutant of CompareRatio: cross-multiplication alone. *)
CompareRatio_Cross(ln, ld, rn, rd) ==
    IF ln * rd = rn * ld THEN 0 ELSE IF ln * rd > rn * ld THEN -1 ELSE 1

(* -1 when the left ratio is the higher one; no cost ranks by progress,    *)
(* first when there is some and last when there is none.                   *)
CompareRatio(ln, ld, rn, rd) ==
    CASE ld = 0 /\ rd = 0 -> IF ln = rn THEN 0 ELSE IF ln > rn THEN -1 ELSE 1
      [] ld = 0 /\ rd # 0 -> IF ln > 0 THEN -1 ELSE 1
      [] ld # 0 /\ rd = 0 -> IF rn > 0 THEN 1 ELSE -1
      [] OTHER -> IF ln * rd = rn * ld THEN 0 ELSE IF ln * rd > rn * ld THEN -1 ELSE 1

(* Expected verified progress and cost of an estimate. *)
Gain(e) == e.units * e.success * e.stability

Cost(e) == e.cost + e.rework

(* The comparator of _rank_candidates: repair, known estimate, ratio, id. *)
BudgetBefore(x, s, t) ==
    LET es == x.task[s].estimate
        et == x.task[t].estimate
        ratio == IF Known(es) /\ Known(et)
                 THEN CompareRatio(Gain(The(es)), Cost(The(es)), Gain(The(et)), Cost(The(et))) ELSE 0
    IN  IF x.task[s].repair # x.task[t].repair THEN x.task[s].repair
        ELSE IF Known(es) # Known(et) THEN Known(es)
        ELSE ratio = -1 \/ (ratio = 0 /\ s < t)

BudgetOrder(x) == SetToSortSeq(Candidates(x), LAMBDA s, t : BudgetBefore(x, s, t))

(* No dimension is blocked by _budget_blockers. *)
WithinLimit(x, used, delta) == \A d \in DOMAIN delta : x.limit[d] = Unbounded \/ used[d] + delta[d] <= x.limit[d]

(* ComputeBudgetUsage.plus *)
Plus(used, delta) == [d \in DOMAIN used |-> used[d] + delta[d]]

Fenced(x, t) == x.fence /\ Eligible(x, t) /\ Known(x.task[t].estimate)

BudgetStep(x, b, t) ==
    IF Fenced(x, t) /\ Len(b.selected) < x.max /\ WithinLimit(x, b.used, The(x.task[t].estimate).delta)
    THEN [b EXCEPT !.selected = Append(b.selected, t), !.used = Plus(b.used, The(x.task[t].estimate).delta)]
    ELSE b

(* safe_under_declared_budget, with the unavailable fields it collects. *)
BudgetSafe(x) ==
    /\ x.fence /\ WithinLimit(x, x.used, [d \in DOMAIN x.used |-> 0])
    /\ \A t \in Candidates(x) : Known(x.task[t].estimate)

PlanBudget(x) ==
    LET b == FoldLeft(LAMBDA acc, t : BudgetStep(x, acc, t), NoBatch(x), BudgetOrder(x))
    IN  [selected |-> b.selected, used |-> b.used,
         safe |-> BudgetSafe(x) /\ x.cognition /\ x.resources]

----------------------------------------------------------------------------
(* UnifiedAdaptivePolicy *)

(* Access: an unknown one runs alone, a known one beside what it does not  *)
(* conflict with.                                                          *)
UnifiedClear(x, conflicts, b, t) ==
    /\ ~b.alone
    /\ IF Known(x.task[t].access)
       THEN /\ \A s \in ToSet(b.selected) : {s, t} \notin conflicts
            /\ \A a \in x.attempts : ~ActiveBlocks(The(x.task[t].access), a)
       ELSE x.attempts = {} /\ b.selected = <<>>

(* A mutant of Deferred: a task the budget admits is charged before its    *)
(* pool is chosen.                                                         *)
Deferred_Charged(b, t, delta, reason) == [b EXCEPT !.misfits = @ \cup {<<t, reason>>}, !.used = Plus(@, delta)]

(* A task that fits no pool leaves the budget alone. *)
Deferred(b, t, delta, reason) == [b EXCEPT !.misfits = @ \cup {<<t, reason>>}]

UnifiedStep(x, conflicts, b, t) ==
    IF ~(Fenced(x, t) /\ Known(x.task[t].request) /\ UnifiedClear(x, conflicts, b, t)) THEN b
    ELSE LET request == The(x.task[t].request)
             delta == The(x.task[t].estimate).delta
             pool == ChoosePool(request, b.remaining)
             lone == ~Known(x.task[t].access)
             seen == [b EXCEPT !.unsafe = @ \/ lone]
         IN  IF Len(b.selected) >= x.max \/ ~WithinLimit(x, b.used, delta) THEN seen
             ELSE IF pool = {} THEN Deferred(seen, t, delta, FitReason(request, b.remaining, x.pools))
             ELSE [Charge(seen, t, pool, request.units) EXCEPT !.used = Plus(b.used, delta), !.alone = lone]

PlanUnified(x) ==
    LET conflicts == DeriveConflicts(DeclaredAccess(x))
        b == FoldLeft(LAMBDA acc, t : UnifiedStep(x, conflicts, acc, t), NoBatch(x), BudgetOrder(x))
    IN  [selected |-> b.selected, assigned |-> b.assigned, used |-> b.used,
         safe |-> /\ BudgetSafe(x) /\ x.resources /\ x.cognition
                  /\ ~PoolErrors(x) /\ ~Unschedulable(x, b)
                  /\ ~ActiveUnknown(x) /\ ~b.unsafe
                  /\ \A t \in Candidates(x) : Known(x.task[t].request) /\ Known(x.task[t].access),
         hint |-> IF x.resources /\ x.cognition THEN Len(b.selected) ELSE 0]

----------------------------------------------------------------------------
(* What the plans promise *)

Interfere(a, b) ==
    \/ ~a.known \/ ~b.known
    \/ a.writes \cap (b.reads \cup b.writes) # {}
    \/ a.reads \cap b.writes # {}

(* Two selected tasks with declared accesses do not interfere, nor does a  *)
(* selected task with a running attempt.                                   *)
Independent(x, S) ==
    /\ \A s, t \in S : s # t /\ x.task[s].access # {} /\ x.task[t].access # {} =>
           ~Interfere(The(x.task[s].access), The(x.task[t].access))
    /\ \A t \in S, a \in x.attempts : x.task[t].access # {} /\ ~Interfere(The(x.task[t].access), a)

UnknownAlone(x, S) == \A t \in S : ~Known(x.task[t].access) => S = {t}

(* A batch of the conflict and resource policies: an unknown access is     *)
(* alone, unless it is a repair task that declares nothing at all.  Such a *)
(* task has no conflict edges; it is the first of its batch, and declared  *)
(* tasks are added beside it.                                              *)
UndeclaredFirst(x, selected) ==
    \A i \in DOMAIN selected : ~Known(x.task[selected[i]].access) =>
        \/ Len(selected) = 1
        \/ i = 1 /\ x.task[selected[i]].access = {} /\ x.task[selected[i]].repair

(* The assigned tasks fit their pools together. *)
FitTogether(x, assigned) ==
    \A p \in DOMAIN x.pools : \A d \in DOMAIN x.pools[p] :
        MapThenSumSet(LAMBDA m : The(x.task[m[1]].request).units[d], {m \in assigned : m[2] = p}) <= x.pools[p][d]

ChargedExactly(x, S, used) ==
    \A d \in DOMAIN x.used :
        used[d] = x.used[d] + MapThenSumSet(LAMBDA t : The(x.task[t].estimate).delta[d], S)

(* Nothing left out could still be added: a task that conflicts, does not  *)
(* fit or exceeds the budget never keeps out one behind it.                *)
Backfilled(x, plan) ==
    LET S == ToSet(plan.selected)
        free == [p \in DOMAIN x.pools |-> [d \in DOMAIN x.pools[p] |-> x.pools[p][d]
                    - MapThenSumSet(LAMBDA m : The(x.task[m[1]].request).units[d],
                                    {m \in plan.assigned : m[2] = p})]]
    IN  \A t \in Candidates(x) \ S :
            \/ ~Fenced(x, t) \/ ~Known(x.task[t].request) \/ Cardinality(S) >= x.max
            \/ ~Independent(x, S \cup {t}) \/ ~UnknownAlone(x, S \cup {t})
            \/ ~WithinLimit(x, plan.used, The(x.task[t].estimate).delta)
            \/ ChoosePool(The(x.task[t].request), free) = {}

(* The tasks of every batch a policy proposes are eligible, within the     *)
(* ceiling, fit their pools together and are charged exactly.  Those with  *)
(* declared accesses are independent of each other and of the running      *)
(* attempts.  A task whose access is unknown is alone in a unified plan;   *)
(* in the other plans an undeclared repair task, and no other unknown, may *)
(* have declared tasks beside it, although the policies call it            *)
(* serial-only, and then the plan is not called safe.  No churning task is *)
(* dispatched, and the unified plan leaves out nothing it could admit.     *)
PlansAreAdmissible(x) ==
    LET dynamic == SuggestDynamic(x)
        fitted == SuggestResources(x)
        adaptive == Decide(x)
        budget == PlanBudget(x)
        unified == PlanUnified(x)
        frontier == PlanFrontier(x)
    IN  /\ \A plan \in {dynamic, fitted, adaptive, budget, unified, frontier} :
               /\ \A t \in ToSet(plan.selected) : Eligible(x, t)
               /\ Len(plan.selected) <= x.max
        /\ \A plan \in {dynamic, fitted, adaptive, unified} :
               /\ Independent(x, ToSet(plan.selected)) \/ plan.selected = <<>>
               /\ UndeclaredFirst(x, plan.selected)
               /\ plan.safe => \A t \in ToSet(plan.selected) : Known(x.task[t].access)
        /\ FitTogether(x, fitted.assigned) /\ FitTogether(x, unified.assigned)
        /\ ChargedExactly(x, ToSet(budget.selected), budget.used)
        /\ ChargedExactly(x, ToSet(unified.selected), unified.used)
        /\ Len(adaptive.selected) <= adaptive.degree
        /\ \A t \in ToSet(adaptive.selected) : ~Churning(x, t)
        /\ UnknownAlone(x, ToSet(unified.selected)) /\ Backfilled(x, unified)

(* The rankings the plans are sorted by are orders: the budget comparator  *)
(* is transitive and total for any estimates, zero costs included, and the *)
(* frontier score orders the tasks as the lexicographic key does.          *)
RankingsAreOrders(x) ==
    /\ \A s, t \in Candidates(x) : s # t => BudgetBefore(x, s, t) # BudgetBefore(x, t, s)
    /\ \A s, t, u \in Candidates(x) :
           Cardinality({s, t, u}) = 3 /\ BudgetBefore(x, s, t) /\ BudgetBefore(x, t, u) => BudgetBefore(x, s, u)
    /\ \A s, t \in Candidates(x) : TupleLess(UtilityKey(x, s), UtilityKey(x, t)) => Score(x, s) > Score(x, t)
=============================================================================
