--------------------------- MODULE SemanticPolicy ---------------------------
(***************************************************************************)
(* The continuation policies of the harness wrapper                        *)
(* (integrations/harness/optimization.py and optimization_v2.py), as       *)
(* operators. SemanticContextPolicy.decide chooses at every phase boundary *)
(* between resuming the session and restarting it from a compacted         *)
(* handoff; build_semantic_handoff says what the replacement session is    *)
(* told; SemanticContextPolicyV2 reads the same timelines, does not        *)
(* validate them, and may also halt the task;                              *)
(* QualityConstrainedEfficiencyGuard decides whether a decision is applied *)
(* at all.                                                                 *)
(*                                                                         *)
(* A timeline is the sequence of phase observations. A phase makes one     *)
(* model call or none, so that a cache rate is a whole number; thresholds  *)
(* that are fractions in the code are pairs <<numerator, denominator>>.    *)
(***************************************************************************)
EXTENDS Integers, Sequences, FiniteSets, SequencesExt, FiniteSetsExt

CONSTANTS
    V1,         \* the knobs of SemanticContextPolicy
    V2,         \* the knobs of SemanticContextPolicyV2
    UriOrder,   \* the raw artifact URIs, in their sorted order
    NormalForm, \* URI -> the artifact it names, "" for an unsafe one
    Length      \* URI -> characters of its handoff item

\* HarnessPhaseObservation: what one phase did, and in which session.
Observation(session, count, rejects, streak, did) ==
    [session |-> session, events |-> count, rejects |-> rejects,
     streak |-> streak, cache |-> did.cache, calls |-> did.calls,
     reads |-> did.reads, writes |-> did.writes, max |-> did.max,
     passed |-> did.passed, unknown |-> did.unknown, probe |-> did.probe]

\* HarnessQualityProbe: test runs, tool calls and the failed ones among them.
Probe(tests, tools, errors) ==
    [tests |-> tests, tools |-> tools, errors |-> errors]

\* a / b >= f for a fraction f; nothing divided by nothing is no ratio.
AtLeast(a, b, f) == b > 0 /\ a * f[2] >= b * f[1]

Rate(o) == IF o.calls > 0 THEN o.cache ELSE 0

LastN(s, n) == SubSeq(s, IF Len(s) > n THEN Len(s) - n + 1 ELSE 1, Len(s))

Sum(s, Op(_)) == FoldLeft(LAMBDA n, o : n + Op(o), 0, s)

Writes(s) == UNION {s[i].writes : i \in DOMAIN s}

SameSession(t) == SelectSeq(t, LAMBDA o : o.session = Last(t).session)

\* The phases after which another session took over.
Restarts(t) == {i \in 1..(Len(t) - 1) : t[i].session # t[i + 1].session}

\* The observations of the k-th session of a valid timeline, k from 0.
Starts(t) == {1} \cup {i + 1 : i \in Restarts(t)}

SessionAt(t, i) == SelectSeq(t, LAMBDA o : o.session = t[i].session)

\* _validated_timeline.  A session that lost events, or that comes back
\* after it was closed, makes the telemetry ambiguous.
Valid(t) ==
    /\ \A i \in 1..(Len(t) - 1) :
          t[i].session = t[i + 1].session => t[i].events <= t[i + 1].events
    /\ \A i, k \in DOMAIN t :
          t[i].session = t[k].session =>
              \A j \in i..k : t[j].session = t[i].session

-----------------------------------------------------------------------------
(* The handoff                                                             *)

\* An access set in the order in which its URIs are sorted.
Sorted(set) == SelectSeq(UriOrder, LAMBDA u : u \in set)

\* The URIs of one kind in the recent window, newest phase first.
Accesses(t, n, Set(_)) ==
    FlattenSeq([i \in 1..Len(LastN(t, n)) |-> Sorted(Set(Reverse(LastN(t, n))[i]))])

Used(items) == Sum(items, LAMBDA item : item.size)

\* _append_bounded without truncation: an item that does not fit is passed
\* over, and the handoff is closed once it is full.
Full(h, P) == Len(h.items) >= P.max_items \/ Used(h.items) >= P.max_chars

AppendBounded(h, item, P) ==
    [h EXCEPT !.items = IF item.size > P.max_chars - Used(@) THEN @
                        ELSE Append(@, item),
              !.seen = @ \cup {item.of}]

\* One URI: unsafe ones and further names of a listed artifact are skipped.
Offer(h, u, kind, P) ==
    IF Full(h, P) \/ NormalForm[u] = "" \/ NormalForm[u] \in h.seen THEN h
    ELSE AppendBounded(h, [kind |-> kind, of |-> NormalForm[u],
                           size |-> Length[u]], P)

\* The instruction is cut to half of the budget, or to all of it when there
\* is room for no other item.
InstructionItem(P) ==
    LET half == (P.max_chars \div 2)
        limit == IF P.max_items = 1 THEN P.max_chars
                 ELSE IF half < 1 THEN 1 ELSE half
    IN  [kind |-> "instruction", of |-> "",
         size |-> IF P.instruction > limit THEN limit ELSE P.instruction]

\* build_semantic_handoff: every recent write before any recent read.
Handoff(t, P) ==
    LET start == [items |-> <<InstructionItem(P)>>, seen |-> {}]
        written == FoldLeft(LAMBDA h, u : Offer(h, u, "write", P), start,
                            Accesses(t, P.recent, LAMBDA o : o.writes))
        read == FoldLeft(LAMBDA h, u : Offer(h, u, "read", P), written,
                         Accesses(t, P.recent, LAMBDA o : o.reads))
    IN  read.items

-----------------------------------------------------------------------------
(* What the timeline says                                                  *)

\* Trailing phases of the session that ended at the token limit.
ConsecutiveMax(s) ==
    Max({0} \cup {n \in DOMAIN s : \A i \in (Len(s) - n + 1)..Len(s) : s[i].max})

\* The events each phase of the session added.
EventDeltas(s) ==
    [i \in DOMAIN s |-> s[i].events - (IF i = 1 THEN 0 ELSE s[i - 1].events)]

\* Twice the median, so that it stays whole.
Median2(s) ==
    LET sorted == SortSeq(s, LAMBDA a, b : a < b)
        n == Len(s)
    IN  IF n % 2 = 1 THEN 2 * sorted[(n \div 2) + 1]
        ELSE sorted[n \div 2] + sorted[(n \div 2) + 1]

PriorRates(s) ==
    LET called == SelectSeq(Front(s), LAMBDA o : o.calls > 0)
    IN  [i \in DOMAIN called |-> Rate(called[i])]

\* Has the rate grown to f times the median of the session's earlier rates?
Grown(s, f) ==
    /\ PriorRates(s) # <<>> /\ Rate(Last(s)) > 0
    /\ AtLeast(2 * Rate(Last(s)), Median2(PriorRates(s)), f)

\* The cache thresholds, which a task on the critical path raises by half.
\* Both sides of a comparison with them are doubled.
CacheThreshold2 == V1.cache_threshold * (2 + V1.priority)

CumulativeThreshold2 == V1.cumulative_threshold * (2 + V1.priority)

\* The window in which nothing was written and events died away.
NoProgressWindow(s) ==
    LET n == V1.no_progress_phases
        deltas == LastN(EventDeltas(s), n)
    IN  /\ Len(s) >= n
        /\ Writes(LastN(s, n)) = {}
        /\ \A i \in 1..(n - 1) :
              deltas[i + 1] * V1.no_progress_ratio[2]
                  <= Max({1, deltas[i]}) * V1.no_progress_ratio[1]

\* Tests keep failing and the last phases wrote nothing that the window's
\* earlier ones had not written.
QualityStall(s) ==
    LET window == LastN(s, V1.stall_phases)
        latest == LastN(s, V1.stall_write_phases)
        prior == SubSeq(window, 1, Len(window) - V1.stall_write_phases)
    IN  /\ Len(s) >= V1.stall_phases
        /\ \A i \in DOMAIN window :
              /\ window[i].probe.tests >= V1.stall_tests
              /\ window[i].probe.errors * V1.stall_errors[2]
                     > window[i].probe.tools * V1.stall_errors[1]
        /\ Writes(latest) \subseteq Writes(prior)

\* Still below the threshold, but at this growth the next phase is over it.
Predicted(s) ==
    LET base == Median2(PriorRates(s))
        rate == Rate(Last(s))
    IN  /\ Len(s) >= V1.min_phases /\ PriorRates(s) # <<>>
        /\ base > 0 /\ 8 * rate > 5 * base
        /\ 2 * rate < CacheThreshold2
        /\ 4 * rate * rate > CacheThreshold2 * base
        /\ ConsecutiveMax(s) < V1.max_consecutive

\* guard_triggers: what asks for a restart whatever the session is doing.
Guarded(s) ==
    \/ ConsecutiveMax(s) >= V1.max_consecutive
    \/ /\ 2 * Sum(s, LAMBDA o : o.cache) >= CumulativeThreshold2
       /\ ConsecutiveMax(s) >= V1.cumulative_needs_max
    \/ NoProgressWindow(s)
    \/ 2 * Rate(Last(s)) >= CacheThreshold2
    \/ Predicted(s)
    \/ QualityStall(s)

-----------------------------------------------------------------------------
(* Did the earlier restarts pay?                                           *)

\* The sessions of the timeline, oldest first.
Sessions(t) ==
    LET starts == SetToSortSeq(Starts(t), <)
    IN  [k \in DOMAIN starts |-> SessionAt(t, starts[k])]

\* How many of the last items of a sequence satisfy Bad without a break.
Streak(n, Bad(_)) ==
    Max({0} \cup {m \in 1..n : \A k \in (n - m + 1)..n : Bad(k)})

\* A replacement session is unproductive if all it wrote was written before.
Unproductive(ss) ==
    Streak(Len(ss) - 1, LAMBDA k :
        Writes(ss[k + 1]) \subseteq UNION {Writes(ss[i]) : i \in 1..k})

\* A restart failed if the cache came back within the window and the new
\* session wrote nothing the previous one had not written.
PayoffFailures(ss) ==
    Streak(Len(ss) - 1, LAMBDA k :
        /\ \E i \in DOMAIN ss[k + 1] :
              /\ i <= V1.payoff_window
              /\ Rate(ss[k + 1][i]) * V1.rebloat[2]
                     >= Rate(Last(ss[k])) * V1.rebloat[1]
        /\ Writes(ss[k + 1]) \subseteq Writes(ss[k]))

\* The context has grown so far that a restart must happen.
Severe(s) ==
    /\ Rate(Last(s)) >= 2 * V1.cache_threshold
    /\ \/ ConsecutiveMax(s) >= 1
       \/ Rate(Last(s)) >= 4 * V1.cache_threshold

LimitReached(t) ==
    LET n == Cardinality(Restarts(t))
    IN  n >= V1.max_restarts
        /\ ~(Severe(SameSession(t)) /\ n < V1.max_restarts + 2)

Stalled(t) ==
    /\ Restarts(t) # {} /\ ~Severe(SameSession(t))
    /\ \/ Unproductive(Sessions(t)) >= V1.unproductive
       \/ PayoffFailures(Sessions(t)) >= V1.payoff_failures

-----------------------------------------------------------------------------
(* decide                                                                  *)

\* The ordinary path waits while the session still writes or its events
\* still come, unless the context pressure forces the restart.
EventsProductive(s) ==
    LET deltas == EventDeltas(s)
        prior == SelectSeq(Front(deltas), LAMBDA d : d > 0)
    IN  /\ prior # <<>> /\ Last(deltas) > 0
        /\ AtLeast(2 * Last(deltas), Median2(prior), V1.progress_ratio)

\* context_score at its force threshold.  A collapsed session is guarded, so
\* that its pressure never decides here.
Forced(s) ==
    LET f == V1.force_score IN
    \/ AtLeast(2 * Rate(Last(s)), CacheThreshold2, f)
    \/ Grown(s, <<V1.growth_ratio[1] * f[1], V1.growth_ratio[2] * f[2]>>)
    \/ AtLeast(ConsecutiveMax(s), V1.max_consecutive, f)
    \/ /\ ConsecutiveMax(s) >= V1.cumulative_needs_max
       /\ AtLeast(2 * Sum(s, LAMBDA o : o.cache), CumulativeThreshold2, f)

Bloated(s) ==
    \/ Last(s).calls > 0 /\ Rate(Last(s)) >= V1.cache_threshold
    \/ Grown(s, V1.growth_ratio)

GuardRestarts_NoCooldown(t) == ~LimitReached(t) /\ ~Stalled(t)

GuardRestarts(t) ==
    /\ ~LimitReached(t)
    /\ ~(Restarts(t) # {} /\ Len(SameSession(t)) < V1.cooldown)
    /\ ~Stalled(t)

OrdinaryRestarts(t) ==
    LET s == SameSession(t) IN
    /\ Len(s) >= V1.min_phases
    /\ ~LimitReached(t)
    /\ ~(Restarts(t) # {} /\ Len(s) <= V1.cooldown)
    /\ Bloated(s)
    /\ Forced(s) \/ (Last(s).writes = {} /\ ~EventsProductive(s))
    /\ ~Stalled(t)

\* SemanticContextPolicy.decide: "resume" or "restart".
DecideV1(t) ==
    LET s == SameSession(t)
        restart == /\ Valid(t) /\ ~Last(t).passed
                   /\ IF Guarded(s) THEN GuardRestarts(t) ELSE OrdinaryRestarts(t)
    IN  IF restart THEN "restart" ELSE "resume"

-----------------------------------------------------------------------------
(* The second policy: SemanticContextPolicyV2.                             *)

HardLine == V2.soft * V2.hard_ratio

-----------------------------------------------------------------------------
(* Gates                                                                   *)

\* _is_progress_phase: writes, tests, or a rejection unlike the last one.
Progress(t, i) ==
    \/ t[i].writes # {} \/ t[i].probe.tests > 0
    \/ /\ t[i].rejects > (IF i = 1 THEN 0 ELSE t[i - 1].rejects)
       /\ t[i].streak <= 1

Burn_Total(t) == Sum(t, LAMBDA o : o.cache)

\* _burn_since_last_progress: the debt survives restarts.
Burn(t) ==
    LET last == Max({0} \cup {i \in DOMAIN t : Progress(t, i)})
    IN  Sum(SubSeq(t, last + 1, Len(t)), LAMBDA o : o.cache)

\* _converged: a quiet window in which the model was nevertheless called.
Converged(s) ==
    LET window == LastN(s, V2.converged_window)
        growth == Last(window).events - Head(window).events
    IN  /\ Len(s) >= V2.converged_phases
        /\ \A i \in DOMAIN window :
              ~window[i].unknown /\ window[i].writes = {} /\ window[i].probe.tests = 0
        /\ Last(window).rejects = Head(window).rejects
        /\ growth <= Max({1, (Head(window).events * V2.converged_ratio[1])
                                \div V2.converged_ratio[2]})
        /\ \E i \in DOMAIN window : window[i].calls > 0

\* _early_error_spin: a young session of failing tool calls only.
EarlyErrorSpin(s) ==
    /\ Len(s) \in V2.min_phases..V2.spin_phases
    /\ \A i \in DOMAIN s :
          /\ ~s[i].unknown /\ s[i].writes = {}
          /\ s[i].probe.tools > 0 =>
                AtLeast(s[i].probe.errors, s[i].probe.tools, V2.spin_errors)
    /\ Sum(s, LAMBDA o : o.probe.tools) >= V2.spin_tools

\* _converging_deferrals: trailing earlier phases that wrote between the lines.
Deferrals(s) ==
    Streak(Len(s) - 1, LAMBDA k :
        s[k].writes # {} /\ Rate(s[k]) >= V2.soft /\ Rate(s[k]) < HardLine)

\* _last_restart_unpaid: the cache came back at once and nothing was written.
LastRestartUnpaid(ss) ==
    LET n == Len(ss) IN
    /\ n >= 2 /\ Rate(Last(ss[n - 1])) > 0
    /\ \E i \in DOMAIN ss[n] :
          /\ i <= V2.payoff_window /\ Rate(ss[n][i]) > 0
          /\ AtLeast(Rate(ss[n][i]), Rate(Last(ss[n - 1])), V2.rebloat)
    /\ Writes(ss[n]) = {}

-----------------------------------------------------------------------------
(* decide                                                                  *)

\* Warm-up, cooldown and the cap come before every restart and every halt.
Held(t) ==
    LET n == Len(SameSession(t)) IN
    \/ Last(t).passed
    \/ n < V2.min_phases
    \/ Restarts(t) # {} /\ n <= V2.cooldown
    \/ Cardinality(Restarts(t)) >= V2.max_restarts

\* Loop escape, early error spin and the severe valve, rate-limited.
Escapes(t) ==
    LET s == SameSession(t) IN
    /\ Len(s) >= V2.rate_limit
    /\ \/ /\ Last(t).streak >= V2.loop_streak
          /\ Writes(LastN(s, V2.loop_phases)) = {}
       \/ EarlyErrorSpin(s)
       \/ Rate(Last(t)) >= HardLine

\* The convergence and the stop-loss halt.
Halts(t) ==
    LET s == SameSession(t) IN
    \/ V2.converged_halt /\ Converged(s)
    \/ Len(s) >= V2.stop_loss_phases /\ Burn(t) >= V2.stop_loss

\* A write landing this phase puts the restart off, a few times.
DefersForWrite(t) ==
    Last(t).writes # {} /\ Deferrals(SameSession(t)) < V2.max_deferrals

\* The soft line is crossed and a restart is worth its cost.
Invests(t) ==
    /\ Rate(Last(t)) >= V2.soft
    /\ ~DefersForWrite(t)
    /\ ~(Last(t).rejects > 0 /\ Last(t).streak = 1)
    /\ Len(Handoff(t, V2)) >= V2.min_items
    /\ ~LastRestartUnpaid(Sessions(t))

\* SemanticContextPolicyV2.decide: "resume", "restart" or "halt".
DecideV2(t) ==
    IF Held(t) THEN "resume"
    ELSE IF Escapes(t) THEN "restart"
    ELSE IF Halts(t) THEN "halt"
    ELSE IF Invests(t) THEN "restart"
    ELSE "resume"

\* The decision is the converging-write deferral.
Deferred(t) ==
    /\ ~Held(t) /\ ~Escapes(t) /\ ~Halts(t)
    /\ Rate(Last(t)) >= V2.soft /\ DefersForWrite(t)

-----------------------------------------------------------------------------
(* Slice sizing                                                            *)

\* recommended_slice_seconds: shorter near a decision, longer when quiet.
SliceSeconds(t, base) ==
    LET o == Last(t)
        recent == o.rejects - t[IF Len(t) >= 3 THEN Len(t) - 2 ELSE 1].rejects
        near == \/ AtLeast(Rate(o), V2.soft, V2.control_ratio)
                \/ o.streak >= 2 \/ recent > 0 \/ o.max
                \/ AtLeast(o.probe.errors, o.probe.tools, <<1, 2>>)
        quiet == /\ Rate(o) > 0 /\ ~o.unknown /\ recent = 0
                 /\ Rate(o) * V2.relax_ratio[2] <= V2.soft * V2.relax_ratio[1]
                 /\ o.probe.errors * 5 <= o.probe.tools
        shrunk == Max({V2.slice_min, (base * V2.downscale[1]) \div V2.downscale[2]})
    IN  IF near THEN Min({base, shrunk})
        ELSE IF quiet THEN Min({V2.slice_max, base * V2.upscale})
        ELSE base

-----------------------------------------------------------------------------
(* The efficiency guard.  A decision is applied, left to the native harness *)
(* or answered by restoring a checkpoint.  Optional values are sets of at   *)
(* most one element; usage is the triple of token units, wall time and tool *)
(* calls; scores are whole numbers.                                         *)

Metrics == {"tokens", "wall", "tools"}

\* HarnessEfficiencyEstimate: the native work, what is avoided and added.
Estimate(baseline, avoided, overhead, confidence) ==
    [baseline |-> baseline, avoided |-> avoided, overhead |-> overhead,
     confidence |-> confidence]

\* HarnessQualityObservation.
Quality(reference, candidate, uncertainty, passed) ==
    [reference |-> reference, candidate |-> candidate,
     uncertainty |-> uncertainty, passed |-> passed]

\* HarnessBestCheckpoint.
Checkpoint(task, quality, version, verified) ==
    [task |-> task, quality |-> quality, version |-> version,
     verified |-> verified]

Net(e, k) == e.avoided[k] - e.overhead[k]

\* _efficiency_score as a fraction: the weighted mean of the savings, over
\* the metrics that have a weight and a native baseline.
Score(g, e) ==
    LET used == {k \in Metrics : g.weight[k] > 0 /\ e.baseline[k] > 0}
        D == FoldSet(LAMBDA k, n : n * e.baseline[k], 1, used)
    IN  IF used = {} THEN <<0, 1>>
        ELSE <<FoldSet(LAMBDA k, n : n + g.weight[k] * Net(e, k)
                                        * (D \div e.baseline[k]), 0, used),
               D * FoldSet(LAMBDA k, n : n + g.weight[k], 0, used)>>

\* lower_bound_delta: candidate less uncertainty less reference, if known.
LowerBound(q) ==
    {c - q.uncertainty - r : <<c, r>> \in q.candidate \X q.reference}

\* _quality_regression.  A verifier that passed overrules the scores.
Regressed(g, signal) ==
    \E q \in signal : q.passed # "yes"
                      /\ \E d \in LowerBound(q) : d < -g.max_regression

Compatible_AnyTask(c, o) ==
    c.verified /\ \A v \in o.version, w \in c.version : v = w

\* _checkpoint_compatible.
Compatible(c, o) ==
    /\ c.verified /\ c.task = o.task
    /\ \A v \in o.version, w \in c.version : v = w

\* The reference score of the observed signal, else of the predicted one.
ReferenceScore(o) ==
    LET observed == UNION {q.reference : q \in o.observed}
    IN  IF observed # {} THEN observed
        ELSE UNION {q.reference : q \in o.predicted}

\* _resolve_checkpoint: the observation's, else the store's; a store that
\* fails to answer yields none.
Resolved(g, o, store) ==
    LET found == IF o.checkpoint # {} THEN o.checkpoint ELSE store
    IN  {c \in found :
            /\ Compatible(c, o)
            /\ \A s \in c.quality, r \in ReferenceScore(o) :
                  s >= r - g.max_regression}

Insufficient(g, e) ==
    \/ e.confidence < g.min_confidence
    \/ \E k \in g.required : Net(e, k) < 0
    \/ Score(g, e)[1] * g.min_score[2] < g.min_score[1] * Score(g, e)[2]
    \/ Score(g, e)[1] <= 0

\* Why an enabled guard does not apply a candidate, in the order of decide.
Bypassed(g, o) ==
    ~o.continuable \/ (g.one_shot_bypass /\ (o.one_shot \/ o.phases = 1))

RegressionAnswer(g, o, store) ==
    IF Regressed(g, o.observed) /\ g.restore /\ Resolved(g, o, store) # {}
    THEN "restore" ELSE "fallback"

Unprofitable(g, o) ==
    o.estimate = {} \/ \E e \in o.estimate : Insufficient(g, e)

\* decide.
Disposition(g, candidate, o, store) ==
    IF ~g.enabled \/ candidate = "verifier_passed" THEN "apply"
    ELSE IF Bypassed(g, o) THEN "bypass"
    ELSE IF Regressed(g, o.observed) \/ Regressed(g, o.predicted)
         THEN RegressionAnswer(g, o, store)
    ELSE IF Unprofitable(g, o) THEN "fallback"
    ELSE "apply"

-----------------------------------------------------------------------------
(* Contract                                                                *)

\* The signal r says nothing better than the signal q.
NoBetter(r, q) ==
    \/ r = q
    \/ \E a \in r, b \in q :
          /\ a.reference = b.reference /\ b.reference # {} /\ a.candidate # {}
          /\ a.passed = b.passed /\ a.uncertainty >= b.uncertainty
          /\ \A c \in a.candidate, d \in b.candidate : c <= d

\* The guard is cautious: bad news about quality or about the saving never
\* makes it apply a candidate which it would otherwise have left alone, a
\* candidate it applies on an estimate costs no required metric anything,
\* and a checkpoint is restored only for the task it was verified for, and
\* only if it is not itself the regression that is being undone.
GuardIsCautious(g, candidate, o, store, worse) ==
    LET d == Disposition(g, candidate, o, store)
        guarded == g.enabled /\ candidate # "verifier_passed"
    IN  /\ Disposition(g, candidate, worse, store) = "apply"
              /\ NoBetter(worse.observed, o.observed)
              /\ NoBetter(worse.predicted, o.predicted)
              /\ (\A e \in o.estimate, f \in worse.estimate :
                     /\ f.baseline = e.baseline /\ f.confidence <= e.confidence
                     /\ \A k \in Metrics : Net(f, k) <= Net(e, k))
              /\ (worse.estimate # {} => o.estimate # {})
           => d = "apply"
        /\ d = "apply" /\ guarded =>
              \E e \in o.estimate :
                  /\ \A k \in g.required : e.avoided[k] >= e.overhead[k]
                  /\ \E k \in Metrics : e.avoided[k] > e.overhead[k]
        /\ d = "restore" =>
              \E c \in o.checkpoint \cup store, q \in o.observed :
                  /\ c.verified /\ c.task = o.task
                  /\ \A v \in c.version, w \in o.version : v = w
                  /\ \A s \in c.quality, r \in q.reference :
                        s >= r - g.max_regression

-----------------------------------------------------------------------------
(* The DSH agent's loop around its policy (lhtb_dsh_harbor_agent.py): after *)
(* every phase it observes, decides and either resumes the session, starts *)
(* a new one from the handoff, or stops.  The policies are pure functions  *)
(* of the observations; here they meet the timelines which their own       *)
(* decisions shape.                                                        *)

CONSTANTS
    Policies,   \* the configured semantic_policy_version: "v1", "v2"
    Phases,     \* what a phase may do
    BaseSlice,  \* the control slice in seconds
    MaxPhases

VARIABLES
    policy,
    timeline,   \* _semantic_observations
    slice       \* time_slice_seconds of the next phase

vars == <<policy, timeline, slice>>

Init == policy \in Policies /\ timeline = <<>> /\ slice = BaseSlice

\* What a phase did: its usage, the events it added, its access sets, and
\* the verifier's answer to it ("" when the verifier was not asked).
Did(cache, calls, events, reads, writes, max, passed, unknown, probe, verdict) ==
    [cache |-> cache, calls |-> calls, events |-> events, reads |-> reads,
     writes |-> writes, max |-> max, passed |-> passed, unknown |-> unknown,
     probe |-> probe, verdict |-> verdict]

Decide(t) == IF policy = "v1" THEN DecideV1(t) ELSE DecideV2(t)

\* _verifier_repeat_streak: 1 for a rejection unlike the one before.
StreakAfter(verdict) ==
    CASE verdict = "" -> (IF timeline = <<>> THEN 0 ELSE Last(timeline).streak)
      [] verdict = "new" -> 1
      [] verdict = "same" ->
            (IF timeline = <<>> THEN 1 ELSE Last(timeline).streak + 1)

\* _observe_semantic_phase for a phase of the given session.
Observed(session, did) ==
    LET first == timeline = <<>>
        same == ~first /\ Last(timeline).session = session
        count == (IF same THEN Last(timeline).events ELSE 0) + did.events
        rejects == (IF first THEN 0 ELSE Last(timeline).rejects)
                       + (IF did.verdict = "" THEN 0 ELSE 1)
    IN  Observation(session, Max({0, count}), rejects, StreakAfter(did.verdict), did)

NextSession ==
    IF timeline = <<>> THEN 1
    ELSE Last(timeline).session + (IF Decide(timeline) = "restart" THEN 1 ELSE 0)

\* Only the second policy adapts the slice, and only of a resumed session.
SliceAfter(t) ==
    IF policy = "v2" /\ DecideV2(t) = "resume" THEN SliceSeconds(t, BaseSlice)
    ELSE BaseSlice

\* One phase of DSH and the decision at its boundary.
Phase(did) ==
    /\ Len(timeline) < MaxPhases
    /\ timeline # <<>> => Decide(timeline) # "halt"
    /\ timeline' = Append(timeline, Observed(NextSession, did))
    /\ slice' = SliceAfter(timeline')
    /\ UNCHANGED policy

\* After a halt no phase runs.  The verifier scores the state, and a further
\* rejection is observed and decided upon like any other.
RejectedAfterHalt ==
    /\ Len(timeline) < MaxPhases
    /\ timeline # <<>> /\ Decide(timeline) = "halt"
    /\ \E verdict \in {"new", "same"} :
          timeline' = Append(timeline, Observed(Last(timeline).session,
              Did(0, 0, 0, {}, {}, FALSE, FALSE, FALSE, Probe(0, 0, 0), verdict)))
    /\ slice' = SliceAfter(timeline')
    /\ UNCHANGED policy

Next == (\E did \in Phases : Phase(did)) \/ RejectedAfterHalt

Spec == Init /\ [][Next]_vars

-----------------------------------------------------------------------------
(* Properties                                                              *)

Prefix(i) == SubSeq(timeline, 1, i)

\* The phase is far over the cache line, at the token limit or twice as far.
FarOver(o) ==
    /\ Rate(o) >= 2 * V1.cache_threshold
    /\ o.max \/ Rate(o) >= 4 * V1.cache_threshold

\* Session n wrote something no earlier session had written.
WroteNew(n) ==
    \E i \in DOMAIN timeline :
        /\ timeline[i].session = n
        /\ \E u \in timeline[i].writes :
              \A k \in DOMAIN timeline :
                  timeline[k].session < n => u \notin timeline[k].writes

\* Restarts of the first policy: only out of telemetry that never lost an
\* event and never right after the verifier passed; a replacement session
\* lives through its cooldown; the limit is exceeded at most twice, and then
\* only by a session far over the line; and once the last replacements all
\* wrote nothing new there is no further restart but by such a session.
FirstPolicyEarns ==
    \A i \in Restarts(timeline) :
        LET before == Cardinality(Restarts(Prefix(i)))
            n == timeline[i].session
        IN  /\ ~timeline[i].passed
            /\ \A k \in 2..i : timeline[k - 1].session = timeline[k].session =>
                                  timeline[k - 1].events <= timeline[k].events
            /\ before > 0 => Len(SessionAt(timeline, i)) >= V1.cooldown
            /\ before < V1.max_restarts + 2
            /\ before >= V1.max_restarts => FarOver(timeline[i])
            /\ before >= V1.unproductive /\ ~FarOver(timeline[i]) =>
                  \E m \in (n - V1.unproductive + 1)..n : WroteNew(m)

\* Restarts and halts of the second policy: no session is cut in its warm-up
\* or cooldown; restarts before the rate limit carry a handoff of at least
\* the least size; a halt follows a stretch, across sessions, in which much
\* was read from cache and nothing was written, tested or newly rejected.
SecondPolicyEarns ==
    /\ \A i \in Restarts(timeline) :
          LET n == Len(SessionAt(timeline, i)) IN
          /\ ~timeline[i].passed /\ n >= V2.min_phases
          /\ Restarts(Prefix(i)) # {} => n > V2.cooldown
          /\ n < V2.rate_limit => Len(Handoff(Prefix(i), V2)) >= V2.min_items
    /\ timeline # <<>> /\ DecideV2(timeline) = "halt" /\ ~V2.converged_halt =>
          \E from \in DOMAIN timeline :
              LET span == SubSeq(timeline, from, Len(timeline)) IN
              /\ FoldLeft(LAMBDA n, o : n + o.cache, 0, span) >= V2.stop_loss
              /\ \A i \in from..Len(timeline) :
                    /\ timeline[i].writes = {} /\ timeline[i].probe.tests = 0
                    /\ \/ i > 1 /\ timeline[i].rejects = timeline[i - 1].rejects
                       \/ timeline[i].streak # 1

\* The handoff of either policy: within its budgets, no artifact twice, and
\* if it lists a read then a recent write is missing only for its length.
HandoffKeepsWrites(P) ==
    LET h == Handoff(timeline, P)
        recent == LastN(timeline, P.recent)
        listed == {h[i].of : i \in DOMAIN h}
        toWrites == SelectSeq(h, LAMBDA item : item.kind # "read")
    IN  /\ Len(h) <= P.max_items /\ Used(h) <= P.max_chars
        /\ \A i, k \in DOMAIN h : h[i].of = h[k].of => i = k
        /\ (\E i \in DOMAIN h : h[i].kind = "read") =>
              \A u \in Writes(recent) :
                  \/ NormalForm[u] \in listed \cup {""}
                  \/ \E w \in Writes(recent) : NormalForm[w] = NormalForm[u]
                        /\ Length[w] > P.max_chars - Used(toWrites)

\* Continuation decisions, over the timelines they lead to, are earned, and
\* what a replacement session is told keeps the recent writes.
RestartsAreEarned ==
    /\ policy = "v1" => FirstPolicyEarns
    /\ policy = "v2" => SecondPolicyEarns
    /\ timeline # <<>> => HandoffKeepsWrites(IF policy = "v1" THEN V1 ELSE V2)
=============================================================================
