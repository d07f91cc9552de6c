--------------------------- MODULE ComputeRouting ---------------------------
(***************************************************************************)
(* The compute routing policy (sdk/compute_routing.py): for one candidate  *)
(* task it picks an agent, says whether that agent's warm context may be   *)
(* reused, and sets the model tier and the verification strength.  The     *)
(* policy is a pure function of the observed state, the candidate and the  *)
(* registered agents, and is written as one here.                          *)
(*                                                                         *)
(* A binding is a record of its resource, its version, its operation and   *)
(* the flags known and stale; None is -1 for numbers and {} for an         *)
(* optional identifier.  Input stability counts quarters, the reuse        *)
(* threshold percent; tiers and strengths are 0 (cheap, light), 1          *)
(* (standard), 2 (strong).                                                 *)
(***************************************************************************)
EXTENDS Integers, FiniteSets, FiniteSetsExt

None == -1

(* A binding is authoritative when it is known, fresh and fully pinned.    *)
ExactIdentity(b) ==
    IF b.known /\ ~b.stale /\ b.uri # "" /\ b.version # None
    THEN {<<b.uri, b.version>>} ELSE {}

BindingComplete(b) == b.known /\ ExactIdentity(b) # {}

RequiredBindings(candidate) == candidate.required \cup candidate.manifest.bindings

EffectiveBindings(agent) == agent.reads \cup agent.context

(* Agents taken from the live attempts when no registry is supplied: an    *)
(* agent with several attempts keeps no context at all.                    *)
AgentsFromState(attempts) ==
    {LET own == {t \in attempts : t.agent = a}
         one == CHOOSE t \in own : TRUE IN
     [id |-> a, available |-> TRUE, context |-> {}, cost |-> None, staleCount |-> 0,
      snapshot |-> Cardinality(own) = 1 /\ one.snapshot,
      reads |-> IF Cardinality(own) = 1 THEN one.reads ELSE {},
      hidden |-> Cardinality(own) > 1] : a \in {t.agent : t \in attempts}}

Agents(x) == IF x.agents # {} THEN x.agents ELSE AgentsFromState(x.attempts)

Observed(x) == IF x.unlock = None THEN 0 ELSE x.unlock

Criticality(x) ==
    IF x.task.criticality # None THEN x.task.criticality ELSE IF x.critical THEN 1 ELSE 0

Fanout(x) == IF x.task.fanout # None THEN x.task.fanout ELSE Observed(x)

Blast(x) == IF x.task.blast # None THEN x.task.blast ELSE Fanout(x)

RiskScore(x) ==
    Min({100, Criticality(x) * 5 + Fanout(x) * 3 + Blast(x) * 4
                + IF x.task.stability = None THEN 0 ELSE 5 * (4 - x.task.stability)})

DeclaredTier(x) == IF RiskScore(x) >= 50 THEN 2 ELSE IF RiskScore(x) >= 20 THEN 1 ELSE 0

FanoutFloor_UnreadIsLeaf(x) ==
    IF x.unlock >= 8 THEN 2 ELSE IF x.unlock >= 2 THEN 1 ELSE 0

(* What the observed number of unlocked tasks demands; an unread node is   *)
(* never treated as a leaf.                                                *)
FanoutFloor(x) ==
    IF x.unlock = None THEN 1
    ELSE IF x.unlock >= 8 THEN 2 ELSE IF x.unlock >= 2 THEN 1 ELSE 0

GraphModelFloor(x) ==
    Max({FanoutFloor(x), IF x.critical \/ x.rework THEN 1 ELSE 0})

GraphVerificationFloor(x) == Max({FanoutFloor(x), IF x.critical THEN 1 ELSE 0})

MeasuredFailureFloor(x) ==
    LET samples == x.outcomes.verified + x.outcomes.failed
        success == (x.outcomes.verified * 10000) \div samples IN
    IF samples < 2 THEN 0 ELSE IF success < 5000 THEN 2 ELSE IF success < 8000 THEN 1 ELSE 0

ModelTier_Requested(x) ==
    IF x.task.tier # None THEN x.task.tier
    ELSE Max({GraphModelFloor(x), MeasuredFailureFloor(x), DeclaredTier(x)})

ModelTier(x) ==
    Max({GraphModelFloor(x), MeasuredFailureFloor(x), DeclaredTier(x), x.task.tier})

VerificationStrength(x) ==
    Max({GraphVerificationFloor(x), DeclaredTier(x), x.task.strength})

ContextBudget(x) ==
    LET given == IF x.task.budget # None THEN x.task.budget
                 ELSE IF x.task.manifest.tokens # None THEN x.task.manifest.tokens
                 ELSE Max({x.task.estimate, 0}) IN
    Min({given, x.maxBudget})

FreshContextCost(x) ==
    CASE x.task.estimate # None -> x.task.estimate
      [] x.task.estimate = None /\ x.task.manifest.tokens > 0 -> x.task.manifest.tokens
      [] x.task.estimate = None /\ ~(x.task.manifest.tokens > 0) /\ x.task.budget > 0 -> x.task.budget
      [] OTHER -> None

ExactReads(bindings) == UNION {ExactIdentity(b) : b \in {c \in bindings : c.op = "read"}}

Overlap(x, agent) ==
    Cardinality({b \in RequiredBindings(x.task) :
                    /\ b.op = "read"
                    /\ ExactIdentity(b) # {}
                    /\ ExactIdentity(b) \subseteq ExactReads(EffectiveBindings(agent))})

(* The overlap ratio in percent (the comparison with the threshold is the  *)
(* only use made of it); hidden context removes it.                        *)
Locality(x, agent) ==
    IF RequiredBindings(x.task) = {} \/ x.task.hidden \/ agent.hidden THEN 0
    ELSE (100 * Overlap(x, agent)) \div Cardinality(RequiredBindings(x.task))

UnknownBinding(x, agent) ==
    \E b \in RequiredBindings(x.task) \cup EffectiveBindings(agent) : ~BindingComplete(b)

StaleBinding(x, agent) ==
    \/ agent.staleCount > 0
    \/ \E b \in RequiredBindings(x.task) \cup EffectiveBindings(agent) : b.stale

CostBlocks_Free(x, agent) ==
    agent.cost # None /\ FreshContextCost(x) # None /\ agent.cost >= FreshContextCost(x)

CostBlocks(x, agent) ==
    \/ agent.cost = None
    \/ FreshContextCost(x) # None /\ agent.cost >= FreshContextCost(x)

Reusable(x, agent) ==
    /\ ~UnknownBinding(x, agent)
    /\ ~StaleBinding(x, agent)
    /\ agent.snapshot
    /\ ~(x.task.stability # None /\ x.task.stability < 1)
    /\ ~CostBlocks(x, agent)
    /\ RequiredBindings(x.task) # {}
    /\ Locality(x, agent) >= x.threshold
    /\ agent.available

(* The key scores are ordered by, smaller first at the first difference.   *)
Key(x, agent) ==
    <<IF x.task.preferred = agent.id THEN 0 ELSE 1,
      IF Reusable(x, agent) THEN 0 ELSE 1,
      100 - Locality(x, agent),
      IF agent.cost = None THEN 1000000 ELSE agent.cost,
      agent.id>>

Before(k, l) == \E i \in 1 .. 5 : k[i] < l[i] /\ \A j \in 1 .. i - 1 : k[j] = l[j]

SelectScore(x) ==
    LET able == {a \in Agents(x) : a.available} IN
    {a \in able : \A b \in able \ {a} : Before(Key(x, a), Key(x, b))}

Eligible(x) ==
    /\ ~x.closed
    /\ x.onFrontier
    /\ x.cognition
    /\ x.resources

Route(x) ==
    LET chosen == SelectScore(x) IN
    [agent |-> {a.id : a \in chosen},
     reuse |-> \E a \in chosen : Reusable(x, a) /\ ~x.task.hidden,
     tier |-> ModelTier(x),
     strength |-> VerificationStrength(x),
     budget |-> ContextBudget(x),
     eligible |-> Eligible(x)]

-----------------------------------------------------------------------------
(* What a caller could have declared less of.                              *)
Undeclared(x) ==
    [x EXCEPT !.task.tier = None, !.task.strength = None]

(* A better observed graph or, once there is one, measured history.        *)
Milder(x) ==
    {[x EXCEPT !.unlock = u] : u \in {v \in {None, 0, 2} : v < x.unlock}}
      \cup {[x EXCEPT !.critical = FALSE], [x EXCEPT !.rework = FALSE]}
      \cup {[x EXCEPT !.outcomes.verified = @ + n] :
                n \in IF x.outcomes.verified + x.outcomes.failed < 2 THEN {} ELSE {1}}

(***************************************************************************)
(* Routing decisions are fail-closed (ComputeRoutingPolicy.route): a warm  *)
(* context is reused only for an available agent whose exact, current      *)
(* reads cover the threshold's share of the required bindings, none of     *)
(* which is unknown or stale, and at less than the cost of a fresh         *)
(* context; and neither what a caller asks for nor a milder observation    *)
(* than this one yields a stronger model or verification than this one.    *)
(***************************************************************************)
RoutingIsFailClosed(x) ==
    LET d == Route(x)
        need == RequiredBindings(x.task)
        agent == CHOOSE a \in Agents(x) : a.id \in d.agent IN
    /\ Cardinality(d.agent) = (IF \E a \in Agents(x) : a.available THEN 1 ELSE 0)
    /\ d.reuse =>
         /\ agent.available /\ agent.snapshot /\ agent.staleCount = 0
         /\ need # {} /\ \A b \in need \cup EffectiveBindings(agent) : BindingComplete(b)
         /\ 100 * Cardinality({b \in need : \E c \in EffectiveBindings(agent) :
                                  b.op = "read" /\ c.op = "read" /\ b.uri = c.uri /\ b.version = c.version})
              >= x.threshold * Cardinality(need)
         /\ FreshContextCost(x) # None => agent.cost < FreshContextCost(x)
         /\ agent.cost >= 0
    /\ d.tier >= GraphModelFloor(x) /\ d.strength >= GraphVerificationFloor(x)
    /\ d.tier >= Route(Undeclared(x)).tier /\ d.strength >= Route(Undeclared(x)).strength
    /\ \A y \in Milder(x) : y.unlock # None => d.tier >= ModelTier(y) /\ d.strength >= VerificationStrength(y)
    /\ x.unlock = None => d.tier >= 1 /\ d.strength >= 1
    /\ d.budget \in 0 .. x.maxBudget
=============================================================================
