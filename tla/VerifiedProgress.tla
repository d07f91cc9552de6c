-------------------------- MODULE VerifiedProgress --------------------------
(***************************************************************************)
(* The derived state of a Verified Progress Graph: which tasks are         *)
(* VERIFIED, STALE or ready, and whether the goal is closed, recomputed by *)
(* every commit (sdk.py, verification.py, readiness.py, closure.py,        *)
(* patch_validator.py).  Commits are atomic here; GraphStore is about how  *)
(* they become so.                                                         *)
(*                                                                         *)
(* Every task has one verification and at most one artifact.  Evidence is  *)
(* reduced to what the predicates read: the artifact versions some passing *)
(* record covers, and whether any record was attached at or after the      *)
(* version at which the task became stale.                                 *)
(***************************************************************************)
EXTENDS Integers, SequencesExt

CONSTANTS Tasks, Rows,   \* the tasks, and the order their rows are read in
          Producers,     \* tasks that publish an artifact
          GoalDeps,      \* the tasks the goal depends on
          MaxArtifact    \* bound: versions of an artifact

VARIABLES deps,      \* DEPENDS_ON edges between tasks
          pins,      \* newest artifact version attached to a task, 0 for none
          latest,    \* newest version the artifact provider knows
          covered,   \* versions with passing evidence, 0 for "no artifact"
          task,      \* derived fields of the task nodes
          goal,      \* lifecycle of the goal
          lent       \* ghost: tasks whose proof predates their first artifact

vars == <<deps, pins, latest, covered, task, goal, lent>>

-----------------------------------------------------------------------------
(***************************************************************************)
(* The pure invalidation engine of runtimes/invalidation: which tasks lose *)
(* their proof when evidence stops applying, why, and what may be repaired *)
(* first.  An edge <<s, t>> of G says that s depends on t; val maps a task *)
(* to its validity.                                                        *)
(***************************************************************************)
DepsOf(t, G) == {d[2] : d \in {e \in G : e[1] = t}}

DependentsOf(t, G) == {d[1] : d \in {e \in G : e[2] = t}}

(* A loop that repeats Step until nothing changes, n steps being enough. *)
Iterate(n, S, Step(_)) ==
  FoldLeft(LAMBDA T, k : Step(T), S, [k \in 1..n |-> k])

(***************************************************************************)
(* Why evidence no longer applies: the first failing check of the four.    *)
(* e.cur is what is published, or 0 when the host passes no versions.      *)
(***************************************************************************)
EvidenceApplicability(e) ==
  CASE e.cur > e.version -> "superseded"
    [] ~e.intact -> "artifact"
    [] ~e.action -> "action"
    [] ~e.event -> "event"
    [] OTHER -> "applies"

(* The tasks one of whose evidence records lost applicability. *)
SeedTasks(evidenceOf) ==
  {t \in DOMAIN evidenceOf :
     \E e \in evidenceOf[t] : EvidenceApplicability(e) # "applies"}

InvalidationCone_DirectOnly(seeds, val, G) ==
  seeds \cup {r \in DOMAIN val : val[r] = "verified" /\ DepsOf(r, G) \cap seeds # {}}

(* The work list: a seed is affected whatever its validity, a dependent    *)
(* only if it is VERIFIED. *)
InvalidationCone(seeds, val, G) ==
  LET Spread(S) ==
        S \cup {r \in DOMAIN val : /\ val[r] = "verified"
                                   /\ DepsOf(r, G) \cap S # {}}
  IN Iterate(Cardinality(DOMAIN val), seeds, Spread)

CausalPaths_Reverse(t, G, n) ==
  LET Longer(P) ==
        P \cup UNION {{<<d>> \o p : d \in DependentsOf(Head(p), G)} : p \in P}
  IN Iterate(n, {<<t>>}, Longer)

(* Breadth first from t along its dependencies to a task with a cause; the *)
(* path is written root first, and is <<t>> when no root is found. *)
CausalPaths(t, G, n) ==
  LET Longer(P) ==
        P \cup UNION {{<<d>> \o p : d \in DepsOf(Head(p), G)} : p \in P}
  IN Iterate(n, {<<t>>}, Longer)

BuildProof(t, roots, val, G) ==
  LET found == {p \in CausalPaths(t, G, Cardinality(DOMAIN val)) :
                  Head(p) \in roots}
  IN IF found = {} THEN <<t>>
     ELSE CHOOSE p \in found : \A q \in found : Len(p) <= Len(q)

DerivedValidity(cone, val) ==
  [t \in DOMAIN val |-> IF t \in cone THEN "stale" ELSE val[t]]

RepairFrontier(eligible, val, G, claimed) ==
  {t \in eligible : /\ \A d \in DepsOf(t, G) : val[d] = "verified"
                    /\ t \notin claimed}

(* Without a cause nothing is affected and the frontier is taken over all  *)
(* tasks that are not verified; otherwise over the cone alone. *)
RunInvalidationEngine(causes, seeds, val, G, claimed, goalClosed, goalDeps) ==
  LET cone == IF causes = {} THEN {} ELSE InvalidationCone(seeds, val, G)
      derived == DerivedValidity(cone, val)
  IN [cone |-> cone,
      preserved |-> DOMAIN val \ cone,
      proofs |-> [t \in cone |-> BuildProof(t, causes, val, G)],
      frontier |-> RepairFrontier(
         IF causes = {}
         THEN {t \in DOMAIN val : val[t] \in {"stale", "unverified"}}
         ELSE cone, derived, G, claimed),
      reopened |-> goalClosed /\ goalDeps \cap cone # {}]

-----------------------------------------------------------------------------
(* The part of the graph that commits write and derivation only reads. *)
Graph == [deps |-> deps, pins |-> pins, latest |-> latest,
          covered |-> covered]

NewTask == [val |-> "unverified", life |-> "admitted", at |-> 0,
            fresh |-> FALSE, repair |-> FALSE]

PlainPatch == [repair |-> FALSE, seeds |-> {}, evidence |-> {}, down |-> FALSE]

Init ==
  /\ deps = {} /\ pins = [t \in Tasks |-> 0] /\ latest = [t \in Tasks |-> 0]
  /\ covered = [t \in Tasks |-> {}] /\ task = [t \in Tasks |-> NewTask]
  /\ goal = "admitted" /\ lent = {}

Verified(T, t) == T[t].val = "verified"
Val(T) == [t \in Tasks |-> T[t].val]

(***************************************************************************)
(* The predicates.                                                         *)
(***************************************************************************)
HasSuperseded(g, t, down) ==
  g.pins[t] # 0 /\ (down \/ g.latest[t] > g.pins[t])

HasUnverifiedDependency(g, T, t) ==
  \E d \in DepsOf(t, g.deps) : ~Verified(T, d)

(* An empty record of verified versions reads as no record at all. *)
PinsMoved(g, T, t) == T[t].at # 0 /\ g.pins[t] # T[t].at

TaskIsVerified(g, T, t) ==
  /\ g.pins[t] \in g.covered[t]
  /\ \A d \in DepsOf(t, g.deps) : Verified(T, d)

TaskIsReady_NeverStale(t) ==
  /\ task[t].life = "admitted" /\ task[t].val = "unverified"
  /\ \A d \in DepsOf(t, deps) : Verified(task, d)

TaskIsReady(t) ==
  /\ task[t].life = "admitted"
  /\ task[t].val = "stale" => task[t].repair
  /\ task[t].val \in {"unverified", "stale"}
  /\ \A d \in DepsOf(t, deps) : Verified(task, d)

ReadyTasks == {t \in Tasks : TaskIsReady(t)}

GoalIsClosed(T) == GoalDeps # {} /\ \A t \in GoalDeps : Verified(T, t)

(***************************************************************************)
(* _recompute_derived_state.                                               *)
(***************************************************************************)
MarkStale(T, t, c) ==
  [T EXCEPT ![t] = [val |-> "stale", life |-> "admitted", at |-> 0,
                    fresh |-> t \in c.evidence,
                    repair |-> c.repair]]

(* One pass over the rows, each step seeing what the earlier ones did. *)
Pass(T, rows, Visit(_, _)) ==
  LET f[k \in 0..Len(rows)] ==
        IF k = 0 THEN {T} ELSE {Visit(S, rows[k]) : S \in f[k - 1]}
  IN CHOOSE S \in f[Len(rows)] : TRUE

SeedsStale(T, c) ==
  LET Visit(S, t) == IF t \in c.seeds /\ Verified(S, t) THEN MarkStale(S, t, c)
                     ELSE S
  IN Pass(T, Rows, Visit)

LocalInvalidation(g, T, c) ==
  LET Visit(S, t) ==
        IF /\ Verified(S, t)
           /\ \/ PinsMoved(g, S, t) \/ HasSuperseded(g, t, c.down)
              \/ HasUnverifiedDependency(g, S, t)
        THEN MarkStale(S, t, c) ELSE S
  IN Pass(T, Rows, Visit)

TransitiveInvalidation_Skipped(g, T, c) == T

(* The pass is repeated until nothing changes; one pass per row is enough. *)
TransitiveInvalidation(g, T, c) ==
  LET Visit(S, t) == IF Verified(S, t) /\ HasUnverifiedDependency(g, S, t)
                     THEN MarkStale(S, t, c) ELSE S
      n == Len(Rows)
  IN Pass(T, [k \in 1..n * n |-> Rows[((k - 1) % n) + 1]], Visit)

HasFreshEvidence_LaterOnly(S, t) == FALSE

HasFreshEvidence(S, t) == S[t].fresh

(* A single pass: a task read before its dependency waits for the next     *)
(* commit. *)
DeriveVerified(g, T, c) ==
  LET Proved(t) == [val |-> "verified", life |-> "closed", at |-> g.pins[t],
                    fresh |-> FALSE, repair |-> FALSE]
      Visit(S, t) ==
        CASE S[t].val = "verified" -> [S EXCEPT ![t].at = g.pins[t]]
          [] S[t].val = "stale" ->
               IF /\ ~HasSuperseded(g, t, c.down) /\ HasFreshEvidence(S, t)
                  /\ TaskIsVerified(g, S, t)
               THEN [S EXCEPT ![t] = Proved(t)] ELSE S
          [] OTHER -> IF TaskIsVerified(g, S, t)
                      THEN [S EXCEPT ![t] = Proved(t)] ELSE S
  IN Pass(T, Rows, Visit)

DeriveGoal(T) ==
  IF GoalIsClosed(T) THEN "closed"
  ELSE IF goal = "closed" THEN "active" ELSE goal

Invalidated(g, T, c) ==
  TransitiveInvalidation(g, LocalInvalidation(g, SeedsStale(T, c), c), c)

(* Evidence attached by this commit is fresh for a task already stale. *)
Freshened(c) ==
  [t \in Tasks |-> IF t \in c.evidence /\ task[t].val = "stale"
                   THEN [task[t] EXCEPT !.fresh = TRUE] ELSE task[t]]

(* The replay of a history: tasks are only ever raised to VERIFIED, to a   *)
(* fixed point. *)
RecomputeAllValidity(g) ==
  LET n == Len(Rows)
      Visit(S, t) == IF TaskIsVerified(g, S, t)
                     THEN [S EXCEPT ![t].val = "verified", ![t].life = "closed"]
                     ELSE S
  IN Pass([t \in Tasks |-> NewTask],
          [k \in 1..n * n |-> Rows[((k - 1) % n) + 1]], Visit)

Derived(g, T, c) == DeriveVerified(g, Invalidated(g, T, c), c)

RecomputeDerivedState(c) ==
  /\ task' = Derived(Graph', Freshened(c), c)
  /\ goal' = DeriveGoal(task')
  /\ lent' = {t \in Tasks :
                /\ Verified(task, t) /\ Verified(task', t) /\ pins'[t] \notin covered'[t]
                /\ pins[t] = 0 \/ (t \in lent /\ pins'[t] = pins[t])}

Patch(down) == [PlainPatch EXCEPT !.down = down]

Refresh(seeds, down) ==
  [PlainPatch EXCEPT !.repair = TRUE, !.seeds = seeds, !.down = down]

(***************************************************************************)
(* Patches.  down: the artifact provider cannot answer during this commit. *)
(***************************************************************************)
Reaches(s, t, D) ==
  LET More(S) == S \cup UNION {DepsOf(x, D) : x \in S}
  IN t \in Iterate(Cardinality(Tasks), {s}, More)

DetectCycle(D) == \E d \in D : Reaches(d[2], d[1], D)

AddDependency(s, t, down) ==
  /\ s # t /\ <<s, t>> \notin deps
  /\ ~DetectCycle(deps \cup {<<s, t>>})
  /\ deps' = deps \cup {<<s, t>>}
  /\ UNCHANGED <<pins, latest, covered>>
  /\ RecomputeDerivedState(Patch(down))

(* The binding must verify, so only published versions are attached. *)
AttachArtifact(t, v, down) ==
  /\ ~down /\ v \in pins[t] + 1..latest[t]
  /\ pins' = [pins EXCEPT ![t] = v]
  /\ UNCHANGED <<deps, latest, covered>>
  /\ RecomputeDerivedState(Patch(down))

(* The record may fail its checks and be attached all the same; it covers  *)
(* the version its report was made for. *)
AttachEvidence(t, v, valid, down) ==
  /\ v \in 0..pins[t] /\ (valid \/ v = pins[t])
  /\ covered' = IF valid THEN [covered EXCEPT ![t] = @ \cup {v}] ELSE covered
  /\ UNCHANGED <<deps, pins, latest>>
  /\ RecomputeDerivedState([Patch(down) EXCEPT !.evidence = {t}])

RefreshDerivedState(seeds, down) ==
  /\ UNCHANGED <<deps, pins, latest, covered>>
  /\ RecomputeDerivedState(Refresh(seeds, down))

(* Somebody publishes a version; the graph learns of it in a later commit. *)
Publish(t) ==
  /\ t \in Producers /\ latest[t] < MaxArtifact
  /\ latest' = [latest EXCEPT ![t] = @ + 1]
  /\ UNCHANGED <<deps, pins, covered, task, goal, lent>>

Next ==
  \/ \E t \in Tasks : Publish(t)
  \/ \E down \in {FALSE} \cup {\E t \in Tasks : pins[t] # 0} :
       \/ \E s, t \in Tasks : AddDependency(s, t, down)
       \/ \E t \in Tasks, v \in 0..MaxArtifact :
            \/ AttachArtifact(t, v, down)
            \/ \E valid \in BOOLEAN : AttachEvidence(t, v, valid, down)
       \/ \E seeds \in {{}} \cup {{t} : t \in Tasks} :
            RefreshDerivedState(seeds, down)

Spec == Init /\ [][Next]_vars
-----------------------------------------------------------------------------
(* A VERIFIED task rests, after every commit, on VERIFIED dependencies and *)
(* on evidence for the artifact version it pins, a task is closed exactly  *)
(* while it is VERIFIED, and the goal is closed only while all it depends  *)
(* on is VERIFIED: edges added under a proof, repins, supersessions and    *)
(* provider outages are all propagated in the commit that meets them.  One *)
(* proof is not about the pinned version: that of a task verified without  *)
(* an artifact and then given its first one, because an empty record of    *)
(* verified versions is taken for none; it ends with the second artifact.  *)
VerifiedIsSupported ==
  /\ \A t \in Tasks :
       /\ Verified(task, t) <=> task[t].life = "closed"
       /\ Verified(task, t) =>
            /\ pins[t] \in covered[t] \/ t \in lent
            /\ \A d \in DepsOf(t, deps) : Verified(task, d)
  /\ goal = "closed" => GoalIsClosed(task)

(* The two implementations of invalidation agree, whatever the row order:  *)
(* the tasks a refresh takes VERIFIED from are those of the causal cone    *)
(* that runtimes/invalidation computes from the same seeds.                *)
StaleSetIsTheCone ==
  \A seeds \in SUBSET Tasks, down \in BOOLEAN :
    LET T == Invalidated(Graph, task, Refresh(seeds, down))
        was == {t \in Tasks : Verified(task, t)}
        hit == {t \in was : t \in seeds \/ HasSuperseded(Graph, t, down)}
    IN {t \in was : ~Verified(T, t)} = InvalidationCone(hit, Val(task), deps)

(* What the engine reports is usable: every affected task has a causal     *)
(* path from a cause through affected tasks only, and as long as anything  *)
(* is affected whose other dependencies are VERIFIED, something can be     *)
(* repaired at once.                                                       *)
EngineExplainsAndRepairs ==
  \A seeds \in SUBSET {t \in Tasks : Verified(task, t)} :
    LET broken == seeds \cup {t \in Tasks : /\ Verified(task, t)
                                            /\ HasSuperseded(Graph, t, FALSE)}
        hit == SeedTasks([t \in Tasks |->
                 {[version |-> pins[t], cur |-> 0, intact |-> t \notin broken,
                   action |-> TRUE, event |-> TRUE]}])
        r == RunInvalidationEngine(hit, hit, Val(task), deps, {},
                                   goal = "closed", GoalDeps)
    IN /\ \A t \in r.cone :
            LET p == r.proofs[t]
            IN /\ Head(p) \in hit /\ p[Len(p)] = t
               /\ \A i \in DOMAIN p : p[i] \in r.cone
       /\ r.cone # {} => r.frontier # {}
       /\ r.reopened <=> (goal = "closed" /\ ~GoalIsClosed(
             Invalidated(Graph, task, Refresh(seeds, FALSE))))

(* The single derivation pass loses nothing for good: refreshing with no   *)
(* further change settles, and then every task whose evidence covers what  *)
(* it pins, on verified dependencies, and which is not waiting for fresh   *)
(* evidence, is VERIFIED.  If no task is stale, and none is VERIFIED by    *)
(* evidence that predates its first artifact, replaying the history finds  *)
(* the proofs the live graph has found, and no others.                     *)
RefreshesSettle ==
  LET after[k \in 0..2 * Len(Rows)] ==
        IF k = 0 THEN {task}
        ELSE {Derived(Graph, T, Refresh({}, FALSE)) : T \in after[k - 1]}
  IN \A T \in after[2 * Len(Rows)] :
       /\ Derived(Graph, T, Refresh({}, FALSE)) = T
       /\ \A t \in Tasks :
            (TaskIsVerified(Graph, T, t) /\ ~HasSuperseded(Graph, t, FALSE))
              => (Verified(T, t) \/ (T[t].val = "stale" /\ ~T[t].fresh))
       /\ (\A t \in Tasks : T[t].val # "stale" /\
             (Verified(T, t) => pins[t] \in covered[t]))
            => Val(T) = Val(RecomputeAllValidity(Graph))

(* The ready frontier never strands the graph: while some task lacks its   *)
(* proof, and every stale one was marked by a refresh that lets it be      *)
(* repaired, some task is ready to run.                                    *)
WorkIsAlwaysReady ==
  LET open == {t \in Tasks : ~Verified(task, t)}
  IN (open # {} /\ \A t \in open : task[t].val = "stale" => task[t].repair)
       => ReadyTasks # {}
=============================================================================
