--------------------------- MODULE GraphAnalysis ---------------------------
(***************************************************************************)
(* The graph signals of the control loop (sdk/graph_analysis.py): the      *)
(* critical path to the goal, each task's immediate unlock value and the   *)
(* dependency-safe frontier, derived from scratch (Derive) and kept by the *)
(* incremental analyzer, which between calls re-uses a memo of best paths  *)
(* and the unlock values and recomputes only what changed validities can   *)
(* reach.                                                                  *)
(*                                                                         *)
(* A structure is [goal, tasks, pairs]: pairs are the depends_on edges     *)
(* <<consumer, prerequisite>>, which may also name nodes that are not      *)
(* tasks.  Node ids are numbers, so that "sorted" is the order of Nat.     *)
(***************************************************************************)
EXTENDS Integers, Sequences, FiniteSets

CONSTANTS Structures,    \* the acyclic graph versions the analyzer may be shown
          Validities

VARIABLES graph,         \* the structure of the current snapshot
          validity,      \* of its tasks
          cache          \* the analyzer's fields

vars == <<graph, validity, cache>>

Open(v) == v \in {"UNVERIFIED", "STALE"}

DependsOn(g, t) == {d \in g.tasks : <<t, d>> \in g.pairs /\ t \in g.tasks}

Consumers(g, t) == {c \in g.tasks : t \in DependsOn(g, c)}

GoalTasks(g) == {t \in g.tasks : <<g.goal, t>> \in g.pairs}

(* The tuple order of Python on paths of one length. *)
LexLess(p, q) == \E i \in 1..Len(p) : p[i] < q[i] /\ \A j \in 1..(i - 1) : p[j] = q[j]

BestPath(paths) ==
    IF paths = {} THEN <<>>
    ELSE CHOOSE p \in paths : \A q \in paths \ {p} :
             Len(q) < Len(p) \/ (Len(q) = Len(p) /\ LexLess(p, q))

(* best_to for every task: a memoized entry is used as it is, an invalid   *)
(* task ends the walk, a verified one is walked through but left out.      *)
BestTo(g, val, memo) ==
    LET f[t \in g.tasks] ==
            IF t \in DOMAIN memo THEN memo[t]
            ELSE IF val[t] = "INVALID" THEN <<>>
            ELSE BestPath({f[d] : d \in DependsOn(g, t)})
                     \o (IF Open(val[t]) THEN <<t>> ELSE <<>>)
    IN  f

(* The entries a fill towards the goal tasks adds to the memo. *)
Visited(g, val, memo) ==
    LET v[t \in g.tasks] ==
            IF t \in DOMAIN memo THEN {}
            ELSE {t} \cup (IF val[t] = "INVALID" THEN {} ELSE UNION {v[d] : d \in DependsOn(g, t)})
    IN  UNION {v[t] : t \in GoalTasks(g)}

FillBestTo(g, val, memo) ==
    LET best == BestTo(g, val, memo)
    IN  [t \in DOMAIN memo \cup Visited(g, val, memo) |-> best[t]]

UnlockValue(g, val, t) ==
    Cardinality({c \in Consumers(g, t) :
        Open(val[c]) /\ \A d \in DependsOn(g, c) \ {t} : val[d] = "VERIFIED"})

(* The ready and repair-ready tasks with no prerequisite among them. *)
ParallelFrontier(g, candidates) == {t \in candidates : DependsOn(g, t) \cap candidates = {}}

(* derive_graph_analysis; the frontier depends on the caller's candidates. *)
Derive(g, val, candidates) ==
    LET memo == FillBestTo(g, val, << >>)
    IN  [critical |-> BestPath({memo[t] : t \in GoalTasks(g)}),
         unlock   |-> [t \in g.tasks |-> UnlockValue(g, val, t)],
         frontier |-> ParallelFrontier(g, candidates)]

----------------------------------------------------------------------------
(* IncrementalGraphAnalyzer *)

NoCache == [ready |-> FALSE]

StructureMatches == cache.ready /\ cache.graph = graph

RecomputeFull(g, val) ==
    [ready |-> TRUE, graph |-> g, validity |-> val,
     memo |-> FillBestTo(g, val, << >>),
     unlock |-> [t \in g.tasks |-> UnlockValue(g, val, t)]]

(* A mutant of TransitiveConsumers: the direct consumers only. *)
TransitiveConsumers_Direct(g, seeds) == seeds \cup UNION {Consumers(g, t) : t \in seeds}

TransitiveConsumers(g, seeds) ==
    LET up[n \in 0..Cardinality(g.tasks)] ==
            IF n = 0 THEN seeds ELSE up[n - 1] \cup UNION {Consumers(g, t) : t \in up[n - 1]}
    IN  up[Cardinality(g.tasks)]

(* A mutant of AffectedUnlock: the other prerequisites of a consumer are   *)
(* forgotten.                                                              *)
AffectedUnlock_NoSiblings(g, changed) == changed \cup UNION {DependsOn(g, t) : t \in changed}

AffectedUnlock(g, changed) ==
    changed \cup UNION {DependsOn(g, t) \cup UNION {DependsOn(g, c) : c \in Consumers(g, t)} : t \in changed}

ApplyValidityChanges(c, changed, val) ==
    LET kept == DOMAIN c.memo \ TransitiveConsumers(c.graph, changed)
        hit  == AffectedUnlock(c.graph, changed)
    IN  [c EXCEPT !.memo = FillBestTo(c.graph, val, [t \in kept |-> c.memo[t]]),
                  !.unlock = [t \in c.graph.tasks |->
                                  IF t \in hit THEN UnlockValue(c.graph, val, t) ELSE c.unlock[t]],
                  !.validity = val]

(* The cache one call of analyze leaves behind. *)
Analyzed ==
    IF ~StructureMatches THEN RecomputeFull(graph, validity)
    ELSE LET changed == {t \in graph.tasks : validity[t] # cache.validity[t]}
         IN  IF changed = {} THEN cache ELSE ApplyValidityChanges(cache, changed, validity)

(* What that call answers. *)
AnswerOf(c, candidates) ==
    [critical |-> BestPath({c.memo[t] : t \in GoalTasks(c.graph)}),
     unlock   |-> c.unlock,
     frontier |-> ParallelFrontier(c.graph, candidates)]

----------------------------------------------------------------------------
Init ==
    /\ graph \in Structures
    /\ validity = [t \in graph.tasks |-> "UNVERIFIED"]
    /\ cache = NoCache

(* Between two calls any number of tasks change validity ... *)
SetValidity(t, v) ==
    /\ validity[t] # v
    /\ validity' = [validity EXCEPT ![t] = v]
    /\ UNCHANGED <<graph, cache>>

(* ... and a graph patch may add or remove tasks and edges. *)
Restructure(g) ==
    /\ g # graph
    /\ graph' = g
    /\ validity' = [t \in g.tasks |-> IF t \in graph.tasks THEN validity[t] ELSE "UNVERIFIED"]
    /\ UNCHANGED cache

Analyze ==
    /\ cache' = Analyzed
    /\ UNCHANGED <<graph, validity>>

Next ==
    \/ \E t \in graph.tasks, v \in Validities : SetValidity(t, v)
    \/ \E g \in Structures : Restructure(g)
    \/ Analyze

Spec == Init /\ [][Next]_vars

(* After any sequence of validity changes, graph patches and earlier calls *)
(* the incremental analyzer answers what a derivation from scratch gives   *)
(* (IncrementalGraphAnalyzer: "byte-for-byte identical to                  *)
(* derive_graph_analysis").                                                *)
AnalysisIsExact ==
    LET candidates == {t \in graph.tasks : Open(validity[t])}
    IN  AnswerOf(Analyzed, candidates) = Derive(graph, validity, candidates)
=============================================================================
