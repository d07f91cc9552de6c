----------------------------- MODULE MCAgentOS ------------------------------
(***************************************************************************)
(* The components of the graph runtime, of AgentOS and of the scripts      *)
(* around it, for TLC. They share no state here, so a behaviour is one of  *)
(* a single component: part says which, and the slots hold the values of   *)
(* its variables.                                                          *)
(*                                                                         *)
(* Parts is the set of components of a run: the graph (store and derived   *)
(* state), the scheduling runtime, the services that keep what tasks read  *)
(* and write, the decision rules, and the harness processes with the       *)
(* benchmark scripts. A rule without state is applied to enumerated        *)
(* inputs: s1 is the input, half of it chosen at first and half in one     *)
(* step, and s2 says that it is complete.                                  *)
(***************************************************************************)
EXTENDS Integers, Sequences, FiniteSets, TLC

CONSTANTS Parts,   \* the components of this run
          Actors,  \* processes or callers that may be interchanged
          Keys,    \* idempotency keys of the graph store
          Pids,    \* processes that get signals
          NoAction \* the signals of no action, of any type

VARIABLES part,  \* the component this behaviour is about
          s1, s2, s3, s4, s5, s6, s7, s8, s9, s10, s11, s12, s13, s14, s15,
          s16, s17, s18, s19   \* its state

allVars == <<part, s1, s2, s3, s4, s5, s6, s7, s8, s9, s10, s11, s12, s13, s14,
            s15, s16, s17, s18, s19>>

(* The slots after the n-th, and that they are not in use. *)
After18 == <<s19>>
After17 == <<s18, After18>>
After16 == <<s17, After17>>
After15 == <<s16, After16>>
After14 == <<s15, After15>>
After13 == <<s14, After14>>
After12 == <<s13, After13>>
After11 == <<s12, After12>>
After10 == <<s11, After11>>
After9 == <<s10, After10>>
After8 == <<s9, After9>>
After7 == <<s8, After8>>
After6 == <<s7, After7>>
After5 == <<s6, After6>>
After4 == <<s5, After5>>
After3 == <<s4, After4>>
After2 == <<s3, After3>>

Idle18 == s19 = 0
Idle17 == s18 = 0 /\ Idle18
Idle16 == s17 = 0 /\ Idle17
Idle15 == s16 = 0 /\ Idle16
Idle14 == s15 = 0 /\ Idle15
Idle13 == s14 = 0 /\ Idle14
Idle12 == s13 = 0 /\ Idle13
Idle11 == s12 = 0 /\ Idle12
Idle10 == s11 = 0 /\ Idle11
Idle9 == s10 = 0 /\ Idle10
Idle8 == s9 = 0 /\ Idle9
Idle7 == s8 = 0 /\ Idle8
Idle6 == s7 = 0 /\ Idle7
Idle5 == s6 = 0 /\ Idle6
Idle4 == s5 = 0 /\ Idle5
Idle3 == s4 = 0 /\ Idle4
Idle2 == s3 = 0 /\ Idle3

-----------------------------------------------------------------------------
ActorSymmetry == Permutations(Actors)

KeySymmetry == Permutations(Actors) \cup Permutations(Keys)

-----------------------------------------------------------------------------
(* The scheduling runtime: constants.                                      *)
(* Worker pool: two jobs of one agent, and one that needs no capability. *)
PoolAgentOf == [j1 |-> "a", j2 |-> "a", j3 |-> "b"]
PoolUnits == [j1 |-> 1, j2 |-> 2, j3 |-> 1]
PoolLimit == [a |-> 2, b |-> 1, global |-> 2]

(* Task runs: synchronous ones, asynchronous ones and online epochs.  In a *)
(* second instance the facts outrun what a writer's verifier has seen.     *)
RunFlags == {<<some, some, some>> : some \in BOOLEAN}

(* Supervisor: an interrupt, a second one under its id, a stop, a tick. *)
SupervisorEvent(id, fingerprint, order, kind, version) ==
  [id |-> id, fingerprint |-> fingerprint, order |-> order, kind |-> kind,
   graph |-> "g", version |-> version]
SupervisorEvents ==
  {SupervisorEvent("i1", 1, 1, "interrupt", 1),
   SupervisorEvent("i1", 2, 1, "interrupt", 2),
   SupervisorEvent("s", 1, 2, "stop", 0),
   SupervisorEvent("t", 1, 3, "tick", 2)}

(* Signals: the end of an action and a signal of a client; what            *)
(* _run_process_step makes a submitter wait for, and a plain wait.  One    *)
(* instance has two processes, the other two letters for one.              *)
SignalContents ==
  {[type |-> "ACTION_FAILED", action_id |-> "a"],
   [type |-> "RESUME", action_id |-> NoAction]}
SignalConditions ==
  {[signal_type |-> NoAction, action_id |-> "a",
    signal_types |-> {"ACTION_COMPLETED", "ACTION_FAILED", "ACTION_UNCERTAIN"}],
   [signal_type |-> "RESUME", action_id |-> NoAction, signal_types |-> {}]}

(* Node runtime: b depends on a and consumes the file that a produces. *)
Only(m, yes) == [n \in {"a", "b"} |-> IF n = m THEN yes ELSE {}]
NodeDependsOn == Only("b", {"a"})
NodeConsumes == Only("b", {"f"})
NodeProduces == Only("a", {"f"})
NodeAnswer(status, content, events, patch) ==
  [status |-> status, content |-> content, events |-> events, patch |-> patch]
NodeEvent(kind, id, content, must) ==
  [kind |-> kind, id |-> id, content |-> content, must |-> must]
NodeResults ==
  {NodeAnswer("claimed_done", "x", <<>>, {}),
   NodeAnswer("claimed_done", "", <<NodeEvent("artifact", "f", "z", {})>>, {}),
   NodeAnswer("claimed_done", "", <<NodeEvent("constraint", "c", "", {"a"})>>, {}),
   NodeAnswer("claimed_done", "", <<>>, {[node |-> "a", to |-> "stale"]}),
   NodeAnswer("failed", "x", <<>>, {}),
   NodeAnswer("parse_failed", "", <<>>, {}),
   NodeAnswer("waiting", "", <<>>, {})}

-----------------------------------------------------------------------------
(* Services: constants.                                                    *)
(* Artifacts: one file under two spellings of its name, and an escape.  In *)
(* the first instance two processes write; in the second one watches and   *)
(* mounts what the other writes.                                           *)
StoreUris ==
  {[ns |-> "", segs |-> <<"d", "f">>], [ns |-> "p1", segs |-> <<"d", ".", "f">>],
   [ns |-> "", segs |-> <<"d", "..">>]}
StoreAllowed == {"p1", "p2"} \X {"p1", "p2"} \X {"read", "write"}
SharedAllowed ==
  {<<"p1", "p1", "read">>, <<"p1", "p1", "write">>,
   <<"p2", "p2", "read">>, <<"p2", "p1", "read">>}
StoreSize == [a |-> 1, b |-> 2]
SharedMounts ==
  {[ns |-> "p2", point |-> <<"d">>, source |-> "p1", prefix |-> <<"d">>,
    mode |-> "shared_readonly"]}
SharedWatchers == {[pid |-> "p2", ns |-> "p1", path |-> <<"d">>]}

(* Contexts: slices that overlap, share a priority or are empty. *)
Slice(id, ver, from, to, prio, required, recoverable) ==
  [id |-> id, ver |-> ver, from |-> from, to |-> to, prio |-> prio,
   required |-> required, recoverable |-> recoverable]
Slices ==
  {Slice(1, 1, 0, 5, 0, TRUE, FALSE), Slice(2, 2, 2, 6, 1, FALSE, TRUE),
   Slice(3, 2, 0, 2, 1, FALSE, FALSE), Slice(4, 3, 0, 0, 0, FALSE, FALSE),
   Slice(5, 1, 0, 4, 2, FALSE, FALSE)}
SourceLength == <<5, 6, 0>>
Manifest(owner, tokens, bytes, page, policy, readset) ==
  [owner |-> owner, refs |-> Slices, tokens |-> tokens, bytes |-> bytes,
   page |-> page, policy |-> policy, readset |-> readset]
ContextManifests ==
  {Manifest("p1", 4, -1, 4, "stable", {}), Manifest("p1", 5, 9, 2, "lifecycle", {2, 4}),
   Manifest("p2", 10, 7, 3, "lifecycle", {3})}

(* Reconciliation: u consumes what t, upstream of it, also reads. *)
ReconInputs == [t |-> {"a"}, u |-> {"a", "b"}]
ReconOutput == [t |-> {}, u |-> {"b"}]
ReconUpstream == [t |-> {}, u |-> {"t"}]
ReconMaxFacts == [a |-> 2, b |-> 2]

(* A second instance in which facts overtake the repair of their output. *)
DriftInputs == [u |-> {}]
DriftOutput == [u |-> {"b"}]
DriftMaxFacts == [b |-> 3]

(* Harness: one continuation, with the operations an adapter may offer. *)
ControlRequests == {[id |-> "q2", op |-> "continue"]}
ControlOperations == {"start", "continue", "checkpoint", "rebase", "preempt"}

-----------------------------------------------------------------------------
(* Decision rules: constants.                                              *)
(* Graph analysis: a diamond with a node that is no task, and a smaller    *)
(* graph in which a prerequisite is missing.                               *)
AnalysisGraphs ==
  {[goal |-> 0, tasks |-> 1..4,
    pairs |-> {<<0, 4>>, <<0, 3>>, <<4, 2>>, <<4, 3>>, <<3, 1>>, <<2, 1>>, <<3, 9>>}],
   [goal |-> 0, tasks |-> {1, 3, 4},
    pairs |-> {<<0, 4>>, <<4, 2>>, <<4, 3>>, <<3, 1>>, <<2, 1>>}]}

(* Continuation: thresholds small enough for five phases to cross them. *)
PolicyV1 ==
  [cache_threshold |-> 2, cumulative_threshold |-> 9, priority |-> 0,
   no_progress_phases |-> 2, no_progress_ratio |-> <<1, 10>>,
   stall_phases |-> 2, stall_write_phases |-> 1, stall_tests |-> 1,
   stall_errors |-> <<1, 2>>, min_phases |-> 2, max_consecutive |-> 2,
   cumulative_needs_max |-> 1, unproductive |-> 1, payoff_failures |-> 2,
   payoff_window |-> 1, rebloat |-> <<3, 2>>, max_restarts |-> 1,
   cooldown |-> 2, progress_ratio |-> <<4, 5>>, force_score |-> <<3, 2>>,
   growth_ratio |-> <<7, 4>>, max_items |-> 3, max_chars |-> 8, recent |-> 2,
   instruction |-> 9]
PolicyV2 ==
  [soft |-> 2, hard_ratio |-> 2, min_phases |-> 1, cooldown |-> 1,
   rate_limit |-> 3, max_restarts |-> 3, min_items |-> 2, loop_streak |-> 2,
   loop_phases |-> 1, rebloat |-> <<3, 2>>, payoff_window |-> 2,
   converged_halt |-> FALSE, converged_window |-> 2, converged_phases |-> 2,
   converged_ratio |-> <<1, 50>>, stop_loss |-> 4, stop_loss_phases |-> 2,
   max_deferrals |-> 2, spin_phases |-> 4, spin_tools |-> 2,
   spin_errors |-> <<4, 5>>, control_ratio |-> <<3, 4>>,
   relax_ratio |-> <<1, 2>>, upscale |-> 2, downscale |-> <<1, 2>>,
   slice_min |-> 2, slice_max |-> 6, max_items |-> 3, max_chars |-> 8,
   recent |-> 2, instruction |-> 9]
PhaseUris == <<"a", "a/", "b", "big", "bad">>
PhaseNormal == [a |-> "a", b |-> "b", big |-> "big", bad |-> ""] @@ ("a/" :> "a")
PhaseLength == [a |-> 1, b |-> 2, big |-> 9, bad |-> 1] @@ ("a/" :> 2)
Phase(cache, calls, events, reads, writes, max, passed, unknown, tests, tools, errors, verdict) ==
  [cache |-> cache, calls |-> calls, events |-> events, reads |-> reads,
   writes |-> writes, max |-> max, passed |-> passed, unknown |-> unknown,
   probe |-> [tests |-> tests, tools |-> tools, errors |-> errors],
   verdict |-> verdict]
PhaseChoices ==
  {Phase(1, 1, 2, {"a"}, {}, FALSE, FALSE, FALSE, 0, 0, 0, ""),
   Phase(2, 1, 1, {"b"}, {"a/"}, FALSE, FALSE, FALSE, 0, 0, 0, ""),
   Phase(3, 1, 0, {"b"}, {"b"}, FALSE, FALSE, FALSE, 1, 2, 2, "same"),
   Phase(4, 1, 0, {"a"}, {}, TRUE, FALSE, TRUE, 0, 0, 0, ""),
   Phase(8, 1, 0, {}, {"big", "bad"}, FALSE, FALSE, FALSE, 0, 0, 0, "new"),
   Phase(2, 1, -1, {"b"}, {}, FALSE, FALSE, FALSE, 0, 2, 2, ""),
   Phase(0, 0, 0, {}, {}, FALSE, TRUE, FALSE, 1, 1, 1, "")}

-----------------------------------------------------------------------------
(* Harness processes and benchmark scripts: constants.                     *)
(* Usage: two tasks that share an input, one of them attempted twice. *)
UsageReads == [t |-> {"r"}, u |-> {"r", "s"}]
UsageEstimate == [t |-> 4, u |-> 4]
UsageMaxEpoch == [t |-> 2, u |-> 1]

(* Pair runner: one task with every outcome, retry and crash; then several *)
(* tasks that compete for cores and memory.                                *)
Needs(known, cpus, memory) == [known |-> known, cpus |-> cpus, memory |-> memory]
TrialOf(worked, obs, metrics, failed, censored) ==
  [worked |-> worked, obs |-> obs, metrics |-> metrics, failed |-> failed,
   censored |-> censored]
GoodTrial == TrialOf(TRUE, "work", "tokens", FALSE, FALSE)
SomeTrials ==
  {GoodTrial, TrialOf(FALSE, "zero", "zero", TRUE, FALSE),
   TrialOf(FALSE, "none", "none", FALSE, FALSE),
   TrialOf(TRUE, "none", "none", FALSE, FALSE),
   TrialOf(TRUE, "work", "none", FALSE, FALSE),
   TrialOf(TRUE, "zero", "scored", TRUE, FALSE),
   TrialOf(TRUE, "none", "none", FALSE, TRUE)}
EndsOf(trials) ==
  {o \in [end : {"finished", "exit"}, trial : trials] :
     o.end = "finished" => o.trial.metrics # "none"}
Finishes == {[end |-> "finished", trial |-> GoodTrial]}
OnePriority == [a |-> 1]
OneNeeds == [a |-> Needs(TRUE, 1, 2)]
OneShadow == [a |-> {}]
OneOutcome ==
  [s \in {"a"} \X {"dsh_fresh", "lhos_resume"} |->
     IF s[2] = "dsh_fresh" THEN EndsOf(SomeTrials) ELSE Finishes]
ManyOrder == <<"b", "c", "e", "d", "f">>
ManyPriority == [b |-> 2, c |-> 3, d |-> 4, e |-> 5, f |-> 6]
ManyNeeds ==
  [b |-> Needs(TRUE, 2, 1), c |-> Needs(FALSE, 0, 0), d |-> Needs(TRUE, 4, 1),
   e |-> Needs(TRUE, 2, 2), f |-> Needs(TRUE, 1, 2)]
ManyShadows == [b |-> {"f"}, c |-> {}, d |-> {}, e |-> {}, f |-> {}]
ManyOutcomes ==
  [s \in {"b", "c", "d", "e", "f"} \X {"dsh_fresh", "lhos_resume"} |-> Finishes]

(* Harbor agent: both arms, with and without the semantic policy. *)
AgentOption(arm, semantic, sliced) ==
  [arm |-> arm, semantic |-> semantic, sliced |-> sliced]
AgentOptions ==
  {AgentOption("lhos", semantic, sliced) : semantic, sliced \in BOOLEAN} \cup
  {AgentOption("baseline", FALSE, FALSE)}

-----------------------------------------------------------------------------
GraphDb == INSTANCE GraphStore WITH
  version <- s1, closed <- s2, hashes <- s3, header <- s4, hist <- s5,
  floor <- s6, pruned <- s7, mat <- s8, shadow <- s9, idem <- s10,
  faults <- s11, pc <- s12, prop <- s13, seen <- s14, cache <- s15,
  Clients <- Actors, Keys <- Keys, MaxVersion <- 2, MaxFaults <- 1

Derived == INSTANCE VerifiedProgress WITH
  deps <- s1, pins <- s2, latest <- s3, covered <- s4, task <- s5,
  goal <- s6, lent <- s7, Tasks <- {"t1", "t2", "t3"},
  Rows <- <<"t1", "t2", "t3">>, Producers <- {"t2"}, GoalDeps <- {"t1"},
  MaxArtifact <- 2

Pool == INSTANCE WorkerPool WITH
  used <- s1, queue <- s2, job <- s3, claim <- s4,
  Jobs <- {"j1", "j2", "j3"}, Agents <- {"a", "b"}, AgentOf <- PoolAgentOf,
  Units <- PoolUnits, Limit <- PoolLimit, Capable <- {"j1", "j2"}

Durable == INSTANCE DurableState WITH
  events <- s1, snap <- s2, rows <- s3, writer <- s4, truth <- s5,
  carried <- s6, faults <- s7, Writers <- Actors, Claims <- {"c1", "c2"},
  Rivals <- {"c1", "c2"}, EventIds <- {"e1", "e2"}, MinItems <- 1,
  ScrubEvery <- 1, MaxEvents <- 2, MaxGeneration <- 3, MaxFaults <- 1

Cleanup == INSTANCE CleanupMarkers WITH
  live <- s1, saved <- s2, leases <- s3, required <- s4, closed <- s5,
  pass <- s6, calls <- s7, reported <- s8, gaveUp <- s9, faults <- s10,
  Claims <- {"c1", "c2"}, Tools <- {"t1", "t2"}, MaxFaults <- 3

Run == INSTANCE AgentRun WITH
  mode <- s1, status <- s2, x <- s3, claim <- s4, job <- s5, queue <- s6,
  repair <- s7, pend <- s8, regular <- s9, rebased <- s10, steps <- s11,
  refills <- s12, verified <- s13, failures <- s14, records <- s15,
  marked <- s16, fatal <- s17, epochs <- s18, faults <- s19,
  Readers <- {"r1"}, Writers <- {"w1"}, AsyncFlags <- RunFlags,
  MaxEpochs <- 2, MaxDispatches <- 2, MaxSteps <- 2, MaxConcurrency <- 2,
  MaxRebases <- 1, MaxFact <- 2, MaxFaults <- 1

Outrun == INSTANCE AgentRun WITH
  mode <- s1, status <- s2, x <- s3, claim <- s4, job <- s5, queue <- s6,
  repair <- s7, pend <- s8, regular <- s9, rebased <- s10, steps <- s11,
  refills <- s12, verified <- s13, failures <- s14, records <- s15,
  marked <- s16, fatal <- s17, epochs <- s18, faults <- s19, Readers <- {},
  Writers <- {"w1"}, AsyncFlags <- RunFlags, MaxEpochs <- 2,
  MaxDispatches <- 2, MaxSteps <- 2, MaxConcurrency <- 2, MaxRebases <- 1,
  MaxFact <- 3, MaxFaults <- 1

Wide == INSTANCE OnlineEpochs WITH
  version <- s1, ready <- s2, claims <- s3, ctl <- s4, call <- s5,
  results <- s6, bound <- s7, sent <- s8, marked <- s9, lost <- s10,
  stuck <- s11, idle <- s12, faults <- s13, Tasks <- {1, 2},
  MaxParallelism <- 2, Interrupted <- {1}, MaxVersion <- 2, MaxClaims <- 3,
  MaxEpochs <- 1, MaxFaults <- 1

Long == INSTANCE OnlineEpochs WITH
  version <- s1, ready <- s2, claims <- s3, ctl <- s4, call <- s5,
  results <- s6, bound <- s7, sent <- s8, marked <- s9, lost <- s10,
  stuck <- s11, idle <- s12, faults <- s13, Tasks <- {1, 2},
  MaxParallelism <- 1, Interrupted <- {}, MaxVersion <- 2, MaxClaims <- 1,
  MaxEpochs <- 3, MaxFaults <- 0

Control == INSTANCE ControlLoop WITH
  version <- s1, attempt <- s2, cog <- s3, sessions <- s4, inbox <- s5,
  loop <- s6, retained <- s7, epoch <- s8, last <- s9, faults <- s10,
  Kinds <- {"artifact_changed"}, MaxVersion <- 2, MaxAttempts <- 2,
  MaxEpochs <- 2, MaxRevision <- 1, MaxFaults <- 1

Supervisor == INSTANCE EventSupervisor WITH
  state <- s1, pending <- s2, seen <- s3, epochs <- s4, awaiting <- s5,
  loop <- s6, stopEvent <- s7, graph <- s8, handled <- s9,
  Events <- SupervisorEvents, Callers <- {"c"}, MaxEpochs <- 2,
  MaxPending <- 2, MaxVersion <- 2

Watcher == INSTANCE WorkspaceWatcher WITH
  file <- s1, facts <- s2, baseline <- s3, missing <- s4, pending <- s5,
  known <- s6, batches <- s7, validity <- s8, attempt <- s9, asked <- s10,
  gv <- s11, unsent <- s12, Resources <- {"r1"}, Assigned <- {"r1"},
  Contents <- {"A", "B"}, MaxVersion <- 3, MaxGraph <- 5

Signals == INSTANCE ProcessSignals WITH
  proc <- s1, rep <- s2, box <- s3, log <- s4, letter <- s5, pend <- s6,
  active <- s7, client <- s8, worker <- s9, programs <- s10, woke <- s11,
  failures <- s12, crashes <- s13, Pids <- Pids, Workers <- Actors,
  Contents <- SignalContents, Conditions <- SignalConditions,
  MaxSignals <- 1, MaxFailures <- 1, MaxCrashes <- 1, None <- NoAction

Letters == INSTANCE ProcessSignals WITH
  proc <- s1, rep <- s2, box <- s3, log <- s4, letter <- s5, pend <- s6,
  active <- s7, client <- s8, worker <- s9, programs <- s10, woke <- s11,
  failures <- s12, crashes <- s13, Pids <- {CHOOSE p \in Pids : TRUE},
  Workers <- Actors, Contents <- SignalContents,
  Conditions <- SignalConditions, MaxSignals <- 2, MaxFailures <- 1,
  MaxCrashes <- 1, None <- NoAction

Nodes == INSTANCE NodeRuntime WITH
  status <- s1, state <- s2, attempts <- s3, lease <- s4, execs <- s5,
  hash <- s6, done <- s7, restores <- s8, file <- s9, pc <- s10, cur <- s11,
  res <- s12, snap <- s13, todo <- s14, used <- s15, seen <- s16,
  crashes <- s17, Nodes <- {"a", "b"}, Artifacts <- {"f"},
  DependsOn <- NodeDependsOn, Consumes <- NodeConsumes,
  Produces <- NodeProduces, Results <- NodeResults, MaxAttempts <- 2,
  MaxCalls <- 3, RestoreOnFailure <- TRUE, RestoreOnCrash <- TRUE,
  MaxCrashes <- 1

Store == INSTANCE ArtifactStore WITH
  st <- s1, crashes <- s2, Pids <- {"p1", "p2"}, RawUris <- StoreUris,
  Allowed <- StoreAllowed, Contents <- {"a", "b"}, Size <- StoreSize,
  Quotas <- {2}, Keys <- {"k"}, Mounts <- {}, Watchers <- {}, MaxTxns <- 2,
  MaxHandles <- 0, MaxOpen <- 1, MaxSnapshots <- 0, MaxCrashes <- 1

Mounted == INSTANCE ArtifactStore WITH
  st <- s1, crashes <- s2, Pids <- {"p1", "p2"}, RawUris <- StoreUris,
  Allowed <- SharedAllowed, Contents <- {"a"}, Size <- StoreSize,
  Quotas <- {2}, Keys <- {"k"}, Mounts <- SharedMounts,
  Watchers <- SharedWatchers, MaxTxns <- 1, MaxHandles <- 1, MaxOpen <- 1,
  MaxSnapshots <- 1, MaxCrashes <- 0

Context == INSTANCE ContextVM WITH
  content <- s1, handles <- s2, pins <- s3, snaps <- s4, idem <- s5,
  restoring <- s6, damage <- s7, Pids <- {"p1", "p2"},
  Length <- SourceLength, Manifests <- ContextManifests, Keys <- {"", "k"},
  Targets <- {1, 3}, MaxHandles <- 2, PinVersions <- {3}, MaxSnaps <- 1,
  MaxPins <- 1, MaxDamage <- 1

Journal == INSTANCE ProvenanceJournal WITH
  file <- s1, mem <- s2, call <- s3, next <- s4, acked <- s5, tears <- s6,
  Stores <- Actors, Keys <- {"", "k"}, MaxBodies <- 5, MaxTears <- 1

Workspace == INSTANCE ExecutionProvenance WITH
  secure <- s1, disk <- s2, remote <- s3, facts <- s4, events <- s5,
  held <- s6, op <- s7, bound <- s8, applied <- s9, phase <- s10,
  changes <- s11, Paths <- {"f"}, Urls <- {"u", "w"},
  Declared <- {"f", "u"}, Writable <- {"f"}, Aliased <- {"f"},
  Pages <- {"u"}, Contents <- {"x", "y"}, Effects <- {"e"}, ReadLimit <- 2,
  MaxVersions <- 2, MaxEvents <- 2, MaxChanges <- 1

Unread == INSTANCE ExecutionProvenance WITH
  secure <- s1, disk <- s2, remote <- s3, facts <- s4, events <- s5,
  held <- s6, op <- s7, bound <- s8, applied <- s9, phase <- s10,
  changes <- s11, Paths <- {}, Urls <- {"u"}, Declared <- {"u"},
  Writable <- {}, Aliased <- {}, Pages <- {}, Contents <- {"x", "y"},
  Effects <- {"e"}, ReadLimit <- 2, MaxVersions <- 2, MaxEvents <- 2,
  MaxChanges <- 1

Recon == INSTANCE Reconciliation WITH
  facts <- s1, tokens <- s2, validity <- s3, bound <- s4, gver <- s5,
  d3 <- s6, keys <- s7, call <- s8, Callers <- Actors,
  Artifacts <- {"a", "b"}, Contents <- {"x", "y"}, Tasks <- {"t", "u"},
  Inputs <- ReconInputs, Output <- ReconOutput, Upstream <- ReconUpstream,
  Batches <- {{"a", "b"}}, MaxFacts <- ReconMaxFacts, MaxVersion <- 2

Drift == INSTANCE Reconciliation WITH
  facts <- s1, tokens <- s2, validity <- s3, bound <- s4, gver <- s5,
  d3 <- s6, keys <- s7, call <- s8, Callers <- {"c"}, Artifacts <- {"b"},
  Contents <- {"x"}, Tasks <- {"u"}, Inputs <- DriftInputs,
  Output <- DriftOutput, Upstream <- DriftInputs, Batches <- {},
  MaxFacts <- DriftMaxFacts, MaxVersion <- 2

Harness == INSTANCE HarnessControl WITH
  version <- s1, claims <- s2, live <- s3, adapter <- s4, bound <- s5,
  cache <- s6, journal <- s7, call <- s8, plan <- s9, restarts <- s10,
  Callers <- Actors, Requests <- ControlRequests,
  Supported <- ControlOperations, DirectOps <- {"start"},
  Hooks <- {"ok", "raises"}, MaxRevision <- 2, MaxVersion <- 2,
  MaxClaims <- 2, MaxRestarts <- 1, MaxSessions <- 1

Change == INSTANCE ChangeDecisions

Admission == INSTANCE AdmissionPolicies

Routing == INSTANCE ComputeRouting

Analysis == INSTANCE GraphAnalysis WITH
  graph <- s1, validity <- s2, cache <- s3, Structures <- AnalysisGraphs,
  Validities <- {"UNVERIFIED", "VERIFIED", "INVALID"}

Continuation == INSTANCE SemanticPolicy WITH
  policy <- s1, timeline <- s2, slice <- s3, V1 <- PolicyV1, V2 <- PolicyV2,
  UriOrder <- PhaseUris, NormalForm <- PhaseNormal, Length <- PhaseLength,
  Policies <- {"v1", "v2"}, Phases <- PhaseChoices, BaseSlice <- 4,
  MaxPhases <- 5

Child == INSTANCE HarnessChild WITH
  child <- s1, session <- s2, waiting <- s3, starter <- s4, polled <- s5,
  stage <- s6, reason <- s7, timedOut <- s8, hardKilled <- s9, ended <- s10,
  stuck <- s11, missed <- s12, requests <- s13, WallClock <- TRUE,
  MaxRequests <- 4

Trace == INSTANCE DshTrace WITH
  log <- s1, step <- s2, tries <- s3, retrying <- s4, calls <- s5,
  used <- s6, Tokens <- {1, 2}, Tools <- {1}, MaxSteps <- 2,
  MaxRetries <- 2, MaxRows <- 6

Dsh == INSTANCE DshAdapter WITH
  pc <- s1, attempt <- s2, child <- s3, held <- s4, pending <- s5,
  attached <- s6, stopped <- s7, spent <- s8, cost <- s9, intents <- s10,
  events <- s11, records <- s12, Shared <- FALSE, MaxAttempts <- 3,
  MaxCalls <- 2

Usage == INSTANCE UsageAccounting WITH
  attempts <- s1, ledger <- s2, graph <- s3, run <- s4, spent <- s5,
  Tasks <- {"t", "u"}, Agents <- {"a"}, ReadsOf <- UsageReads,
  Ends <- {"verified", "failed", "stale"}, Estimate <- UsageEstimate,
  Amounts <- {1, 20}, FirstVersion <- 9, MaxVersion <- 10, MaxAttempts <- 2,
  MaxRuns <- 2, MaxEpoch <- UsageMaxEpoch, Owned <- {1},
  Outcome <- {"failed"}

Capture == INSTANCE CheckpointCapture WITH
  arm <- s1, ledger <- s2, index <- s3, known <- s4, saved <- s5,
  polled <- s6, cap <- s7, done <- s8, snaps <- s9, scores <- s10,
  ticks <- s11, faults <- s12, crashes <- s13, Cutoffs <- {1, 2},
  MaxAttempts <- 1, MaxTicks <- 2, MaxInvocations <- 2, MaxTrials <- 2,
  MaxFaults <- 2, MaxCrashes <- 1

One == INSTANCE PairRunner WITH
  mode <- s1, runner <- s2, queue <- s3, work <- s4, record <- s5,
  job <- s6, live <- s7, crashes <- s8, faults <- s9, burned <- s10,
  unread <- s11, cut <- s12, Order <- <<"a">>, Priority <- OnePriority,
  Requires <- OneNeeds, Cpus <- 3, Memory <- 3, MaxWorkers <- 2,
  Shadows <- OneShadow, Flaky <- {}, Modes <- {TRUE}, Kinds <- SomeTrials,
  Outcomes <- OneOutcome, MaxInfrastructureRetries <- 1,
  MaxCensorshipRetries <- 1, MaxConnectionRetries <- 2, MaxCrashes <- 1,
  MaxFaults <- 2

Many == INSTANCE PairRunner WITH
  mode <- s1, runner <- s2, queue <- s3, work <- s4, record <- s5,
  job <- s6, live <- s7, crashes <- s8, faults <- s9, burned <- s10,
  unread <- s11, cut <- s12, Order <- ManyOrder, Priority <- ManyPriority,
  Requires <- ManyNeeds, Cpus <- 3, Memory <- 3, MaxWorkers <- 2,
  Shadows <- ManyShadows, Flaky <- {"b"}, Modes <- BOOLEAN,
  Kinds <- {GoodTrial}, Outcomes <- ManyOutcomes,
  MaxInfrastructureRetries <- 1, MaxCensorshipRetries <- 1,
  MaxConnectionRetries <- 2, MaxCrashes <- 0, MaxFaults <- 0

Harbor == INSTANCE HarborAgent WITH
  option <- s1, phase <- s2, initial <- s3, gen <- s4, events <- s5,
  files <- s6, locked <- s7, locks <- s8, invs <- s9, decisions <- s10,
  exception <- s11, Options <- AgentOptions, MaxInvocations <- 3,
  MaxExtraFiles <- 1

Watch == INSTANCE StopLoss WITH
  semantic <- s1, flying <- s2, invocation <- s3, gen <- s4, tokens <- s5,
  decisions <- s6, usage <- s7, heartbeat <- s8, snapshot <- s9,
  seen <- s10, verdict <- s11, run <- s12, watched <- s13, TokenBudget <- 3,
  InertBudget <- 2, StallWindow <- 2, Semantic <- BOOLEAN, MaxTokens <- 5,
  MaxInvocations <- 3

Job == INSTANCE HarborJob WITH
  arm <- s1, attempt <- s2, worker <- s3, status <- s4, harbor <- s5,
  code <- s6, launcher <- s7, verdict <- s8,
  Arms <- {"dsh_fresh", "lhos_resume"}, MaxAttempts <- 3

Outputs == INSTANCE PairOutputs WITH
  prepared <- s1, image <- s2, target <- s3, records <- s4,
  arm_result <- s5, merged <- s6, step <- s7, crashes <- s8, Tasks <- {"t"},
  MaxPrepared <- 2, MaxBuilds <- 2, MaxCrashes <- 1

-----------------------------------------------------------------------------
AtMostOne(S) == {{}} \cup {{s} : s \in S}

(* Interrupt plans: a state with up to two attempts, then two interrupts. *)
InterruptStates ==
  {st \in [graph : {"g"}, version : {2}, available : BOOLEAN,
           attempts : SUBSET {[id |-> "p", task |-> "t"], [id |-> "q", task |-> "u"]},
           ready : SUBSET {"t", "u"}, verified : SUBSET {"t", "u"}] :
     st.ready \cap st.verified = {}}
FirstInterrupts ==
  [id : {"i1"}, graph : {"g"}, version : {2, 3},
   kind : {"artifact_changed", "evidence_invalidated", "write_conflict",
           "resource_pressure"},
   tasks : {{}, {"t"}, {"t", "u"}}, attempts : {{}, {"q"}}, preemptible : BOOLEAN]
SecondInterrupts ==
  [id : {"i2"}, graph : {"g", "h"}, version : {1},
   kind : {"requirement_changed", "agent_stalled", "resource_pressure"},
   tasks : {{"t"}, {"u"}}, attempts : {{}}, preemptible : {FALSE}]
PlanInit == s1 \in [st : InterruptStates, interrupts : {{}}] /\ s2 = FALSE
PlanStep ==
  /\ ~s2 /\ s2' = TRUE
  /\ \E i \in FirstInterrupts, j \in SecondInterrupts :
       s1' = [s1 EXCEPT !.interrupts = {i, j}]

(* Context rebase: what was read and at which versions, then the delta. *)
Resource1 == [uri |-> "u1", art |-> "a1", page |-> "p1"]
Resource2 == [uri |-> "u2", art |-> "a2", page |-> "p2"]
Resources == {Resource1, Resource2}
RebaseReads ==
  {a \cup b :
     a \in AtMostOne({Change!ReadBinding(Resource1, v, TRUE) : v \in 0..2}
                     \cup {Change!ReadBinding(Resource1, 1, FALSE)}),
     b \in AtMostOne({Change!ReadBinding(Resource2, v, TRUE) : v \in 1..2})}
RebaseDeltas ==
  {Change!NoDelta} \cup
  [given : {TRUE}, known : BOOLEAN, coverage : {"complete", "partial", "unknown"},
   keys : {{}, {"u1"}, {"a1"}, {"u2"}, {"u1", "a2"}},
   changes :
     AtMostOne({c \in [uri : {"", "u1"}, art : {"", "a1"}, new : 0..2, known : BOOLEAN] :
                  c.uri # "" \/ c.art # ""}
               \cup {[uri |-> "u2", art |-> "", new |-> 2, known |-> TRUE]})]
RebaseInit ==
  /\ s2 = FALSE
  /\ s1 \in {x \in [resources : {Resources}, cur : [Resources -> 1..2], old : {1},
                    current : {1, 2}, reads : RebaseReads,
                    pages : AtMostOne({Change!PageBinding(Resource1, v) : v \in 1..2}),
                    delta : {Change!NoDelta}] :
               /\ x.current = 1 => x.cur = [r \in Resources |-> 1]
               /\ \A b \in x.reads \cup x.pages, r \in Resources :
                    b.art = r.art => b.ver <= x.cur[r]}
RebaseStep ==
  /\ ~s2 /\ s2' = TRUE
  /\ \E d \in RebaseDeltas :
       Change!Honest(Resources, s1.cur, d) /\ s1' = [s1 EXCEPT !.delta = d]

(* Admission: three tasks of many shapes in many environments. *)
Access(reads, writes, known) == {[reads |-> reads, writes |-> writes, known |-> known]}
Accesses ==
  {{}, Access({}, {}, FALSE), Access({"r"}, {"w"}, TRUE), Access({"w"}, {}, TRUE),
   Access({}, {"w"}, TRUE), Access({}, {"v"}, TRUE)}
Units(cpu, slot) == [cpu |-> cpu, slot |-> slot]
Request(pool, units) == {[known |-> TRUE, pool |-> pool, units |-> units]}
Amount(tokens, cost) == [tokens |-> tokens, cost |-> cost]
Gain(units, cost, delta) ==
  {[known |-> TRUE, units |-> units, success |-> 1, stability |-> 1, cost |-> cost,
    rework |-> 0, delta |-> delta]}
Shape(repair, validity, access, request, estimate) ==
  [repair |-> repair, validity |-> validity, access |-> access,
   request |-> request, estimate |-> estimate]
Shapes ==
  {Shape(FALSE, "open", a, Request({}, Units(1, 1)), Gain(2, 1, Amount(2, 0))) :
     a \in Accesses} \cup
  {Shape(TRUE, "stale", a, Request({2}, Units(2, 0)), Gain(1, 0, Amount(1, 1))) :
     a \in {{}, Access({"w"}, {}, TRUE)}} \cup
  {Shape(FALSE, "open", Access({"r"}, {"v"}, TRUE), q, Gain(0, 2, Amount(0, 2))) :
     q \in {{}, Request({}, Units(1, 1)), Request({2}, Units(2, 0)),
            Request({3}, Units(0, 0))}} \cup
  {Shape(FALSE, "open", Access({}, {}, TRUE), Request({}, Units(1, 1)), e) :
     e \in {{}, Gain(0, 0, Amount(0, 0)), Gain(1, 0, Amount(1, 1)),
            Gain(2, 1, Amount(2, 0)), Gain(0, 2, Amount(0, 2))}} \cup
  {Shape(FALSE, v, Access({}, {}, TRUE), Request({}, Units(1, 1)),
         Gain(0, 0, Amount(0, 0))) : v \in {"stale", "terminal"}}
Environment(attempts, flag, pools, limit, max, events, requested) ==
  [attempts |-> attempts, closed |-> flag = "closed", cognition |-> flag # "cog",
   resources |-> flag # "res", fence |-> flag # "fence",
   badPools |-> flag = "pool", pools |-> pools, limit |-> limit,
   used |-> Amount(1, 0), max |-> max, events |-> events,
   upstream |-> [t \in 1..3 |-> IF t = 2 THEN {9} ELSE {}],
   versionThreshold |-> 2, eventThreshold |-> 3, requested |-> requested,
   critical |-> <<3, 1>>, unlock |-> [t \in 1..3 |-> 3 - t]]
OnePool(cpu, slot) == [p \in {2} |-> Units(cpu, slot)]
TwoPools == [p \in {1, 2} |-> IF p = 1 THEN Units(1, 2) ELSE Units(2, 1)]
Running(task, reads, writes, known) ==
  [task |-> task, reads |-> reads, writes |-> writes, known |-> known]
Churn(node, version, rework) == [node |-> node, version |-> version, rework |-> rework]
Ample == Amount(9, 9)
Environments ==
  {Environment({}, "ok", p, l, m, {}, TRUE) :
     p \in {TwoPools, OnePool(3, 1)},
     l \in {Amount(3, Admission!Unbounded), Amount(Admission!Unbounded, 2)}, m \in {1, 3}} \cup
  {Environment({a}, "ok", OnePool(3, 2), Ample, 3, {}, TRUE) :
     a \in {Running(2, {"r"}, {"w"}, TRUE), Running(9, {"r"}, {}, TRUE),
            Running(9, {}, {}, FALSE)}} \cup
  {Environment({}, f, OnePool(3, 2), Ample, 3, {}, TRUE) :
     f \in {"closed", "cog", "res", "fence", "pool"}} \cup
  {Environment({}, "ok", OnePool(3, 3), Ample, 3, e, r) :
     e \in {{Churn(9, 1, FALSE), Churn(9, 2, TRUE)}, {Churn(1, 1, TRUE)}}, r \in BOOLEAN}
AdmissionInit ==
  /\ s2 = FALSE
  /\ \E a \in Shapes, e \in Environments : s1 = [task |-> [t \in 1..3 |-> a]] @@ e
LastShapes ==
  {Shape(FALSE, "open", Access({"w"}, {}, TRUE), Request({}, Units(1, 1)), Gain(2, 1, Amount(2, 0))),
   Shape(FALSE, "open", Access({"r"}, {"v"}, TRUE), Request({2}, Units(2, 0)), Gain(0, 2, Amount(0, 2))),
   Shape(FALSE, "open", Access({}, {}, TRUE), Request({}, Units(1, 1)), Gain(1, 0, Amount(1, 1)))}
AdmissionStep ==
  /\ ~s2 /\ s2' = TRUE
  /\ \E b \in Shapes, c \in LastShapes : s1' = [s1 EXCEPT !.task[2] = b, !.task[3] = c]

(* Routing: what a task needs, then the agents, the attempts or the effort *)
(* signals it meets.                                                       *)
Binding(uri, version, op, known, stale) ==
  [uri |-> uri, version |-> version, op |-> op, known |-> known, stale |-> stale]
ReadR == Binding("r", 1, "read", TRUE, FALSE)
ReadS == Binding("s", 1, "read", TRUE, FALSE)
Bindings ==
  {{}, {ReadR}, {ReadR, ReadS}, {ReadR, Binding("s", 2, "read", TRUE, FALSE)},
   {Binding("r", 2, "read", TRUE, FALSE)},
   {ReadR, Binding("s", Routing!None, "read", TRUE, FALSE)},
   {ReadR, Binding("s", 1, "read", TRUE, TRUE)},
   {ReadR, Binding("s", 1, "write", TRUE, FALSE)},
   {Binding("r", 1, "read", FALSE, FALSE)}}
NoManifest == [bindings |-> {}, tokens |-> Routing!None]
RoutedTask(required, manifest, stability, hidden) ==
  [criticality |-> Routing!None, fanout |-> Routing!None, blast |-> Routing!None,
   stability |-> stability, preferred |-> Routing!None, required |-> required,
   manifest |-> manifest, budget |-> Routing!None, estimate |-> Routing!None,
   tier |-> Routing!None, strength |-> Routing!None, hidden |-> hidden]
Agent(id, reads, context, cost, stale, available, snapshot, hidden) ==
  [id |-> id, available |-> available, reads |-> reads, context |-> context,
   cost |-> cost, staleCount |-> stale, snapshot |-> snapshot, hidden |-> hidden]
AgentFlags ==
  {<<0, TRUE, TRUE, FALSE>>, <<1, TRUE, TRUE, FALSE>>, <<0, FALSE, TRUE, FALSE>>,
   <<0, TRUE, FALSE, FALSE>>, <<0, TRUE, TRUE, TRUE>>}
Surroundings(task) ==
  [task |-> task, agents |-> {}, attempts |-> {}, unlock |-> 0, critical |-> FALSE,
   rework |-> FALSE, outcomes |-> [verified |-> 0, failed |-> 0], threshold |-> 50,
   maxBudget |-> 4, closed |-> FALSE, onFrontier |-> TRUE, cognition |-> TRUE,
   resources |-> TRUE]
RoutingInit ==
  /\ s2 = FALSE
  /\ \E r \in Bindings, m \in {NoManifest, [bindings |-> {ReadS}, tokens |-> 2]},
        q \in {Routing!None, 0}, h \in BOOLEAN :
       s1 = Surroundings(RoutedTask(r, m, q, h))
MeetsAgents ==
  \E e \in {Routing!None, 5}, p \in {Routing!None, 2}, th \in {50, 100},
     reads \in Bindings, cost \in {Routing!None, 0, 5}, f \in AgentFlags,
     more \in {{}, {Agent(2, {ReadR}, {ReadS}, 1, 0, TRUE, TRUE, FALSE)}} :
    s1' = [s1 EXCEPT !.task.estimate = e, !.task.preferred = p, !.threshold = th,
             !.agents = {Agent(1, reads, {}, cost, f[1], f[2], f[3], f[4])} \cup more]
MeetsEffort ==
  /\ s1.task = RoutedTask({}, NoManifest, Routing!None, FALSE)
  /\ \E u \in {Routing!None, 0, 1, 2, 7, 8}, c, r \in BOOLEAN, v \in 0..2, f \in 0..1,
        t \in {Routing!None, 0, 2}, s \in {Routing!None, 1},
        q \in {Routing!None, 0, 4}, k \in {Routing!None, 4} :
       s1' = [s1 EXCEPT !.unlock = u, !.critical = c, !.rework = r,
                !.outcomes = [verified |-> v, failed |-> f], !.task.tier = t,
                !.task.strength = s, !.task.stability = q, !.task.criticality = k]
MeetsAttempts ==
  \E r \in Bindings, more \in AtMostOne({{ReadS}}) :
    s1' = [s1 EXCEPT !.attempts =
             {[agent |-> 1, snapshot |-> TRUE, reads |-> b] : b \in {r} \cup more}]
RoutingStep == ~s2 /\ s2' = TRUE /\ (MeetsAgents \/ MeetsEffort \/ MeetsAttempts)

(* Efficiency guard: settings that differ from a base in one point, an     *)
(* estimate and a quality, then what is compared with them.                *)
Work(tokens, wall, tools) == [tokens |-> tokens, wall |-> wall, tools |-> tools]
GuardBase ==
  [enabled |-> TRUE, weight |-> Work(1, 1, 0), required |-> {"tokens"},
   min_confidence |-> 1, min_score |-> <<0, 1>>, max_regression |-> 0,
   one_shot_bypass |-> TRUE, restore |-> TRUE]
GuardSettings ==
  {GuardBase, [GuardBase EXCEPT !.enabled = FALSE],
   [GuardBase EXCEPT !.weight = Work(2, 0, 1)],
   [GuardBase EXCEPT !.required = {"tokens", "wall"}],
   [GuardBase EXCEPT !.min_score = <<1, 2>>],
   [GuardBase EXCEPT !.max_regression = 1],
   [GuardBase EXCEPT !.one_shot_bypass = FALSE],
   [GuardBase EXCEPT !.restore = FALSE]}
GuardEstimates ==
  AtMostOne({Continuation!Estimate(Work(2, 0, 1), a, Work(1, 1, 0), c) :
               a \in {Work(0, 1, 1), Work(2, 1, 0), Work(1, 2, 0)}, c \in 0..1}
            \cup {Continuation!Estimate(Work(1, 2, 0), Work(1, 2, 0), Work(1, 1, 0), 1)})
Qualities ==
  AtMostOne({Continuation!Quality({2}, {c}, u, p) : c \in 1..2, u \in 0..1, p \in {"none", "yes"}}
            \cup {Continuation!Quality({}, {1}, 0, "none")})
Checkpoints ==
  AtMostOne({Continuation!Checkpoint(t, q, v, verified) :
               t \in {"t", "u"}, q \in {{}, {0}, {2}}, v \in {{}, {2}}, verified \in BOOLEAN})
Observed(e, q) ==
  [task |-> "t", continuable |-> TRUE, one_shot |-> FALSE, phases |-> 2,
   version |-> {1}, estimate |-> e, predicted |-> {}, observed |-> q,
   checkpoint |-> {}]
GuardInit ==
  /\ s2 = FALSE
  /\ \E g \in GuardSettings, e \in GuardEstimates, q \in Qualities :
       s1 = [g |-> g, c |-> "other", o |-> Observed(e, q), store |-> {},
             worse |-> Observed(e, q)]
GuardStep ==
  /\ ~s2 /\ s2' = TRUE
  /\ \/ \E c \in Checkpoints, s \in AtMostOne({Continuation!Checkpoint("t", {2}, {1}, TRUE)}) :
          s1' = [s1 EXCEPT !.o.checkpoint = c, !.store = s]
     \/ \E e \in GuardEstimates, q \in Qualities :
          s1' = [s1 EXCEPT !.worse.estimate = e, !.worse.observed = q]
     \/ \E q \in Qualities : s1' = [s1 EXCEPT !.worse.predicted = q, !.o.predicted = q]
     \/ \E c \in {"verifier_passed", "other"}, k, one \in BOOLEAN, n \in 1..2 :
          s1' = [s1 EXCEPT !.c = c, !.o.continuable = k, !.o.one_shot = one,
                   !.o.phases = n, !.worse.continuable = k,
                   !.worse.one_shot = one, !.worse.phases = n]

-----------------------------------------------------------------------------
Init ==
  /\ part \in Parts
  /\ \/ part = "graph" /\ GraphDb!Init /\ Idle15
     \/ part = "derived" /\ Derived!Init /\ Idle7
     \/ part = "pool" /\ Pool!Init /\ Idle4
     \/ part = "durable" /\ Durable!Init /\ Idle7
     \/ part = "cleanup" /\ Cleanup!Init /\ Idle10
     \/ part = "run" /\ Run!Init
     \/ part = "outrun" /\ Outrun!Init
     \/ part = "wide" /\ Wide!Init /\ Idle13
     \/ part = "long" /\ Long!Init /\ Idle13
     \/ part = "control" /\ Control!Init /\ Idle10
     \/ part = "supervisor" /\ Supervisor!Init /\ Idle9
     \/ part = "watcher" /\ Watcher!Init /\ Idle12
     \/ part = "signals" /\ Signals!Init /\ Idle13
     \/ part = "letters" /\ Letters!Init /\ Idle13
     \/ part = "nodes" /\ Nodes!Init /\ Idle17
     \/ part = "store" /\ Store!Init /\ Idle2
     \/ part = "mounted" /\ Mounted!Init /\ Idle2
     \/ part = "context" /\ Context!Init /\ Idle7
     \/ part = "journal" /\ Journal!Init /\ Idle6
     \/ part = "workspace" /\ Workspace!Init /\ Idle11
     \/ part = "unread" /\ Unread!Init /\ Idle11
     \/ part = "recon" /\ Recon!Init /\ Idle8
     \/ part = "drift" /\ Drift!Init /\ Idle8
     \/ part = "harness" /\ Harness!Init /\ Idle10
     \/ part = "plan" /\ PlanInit /\ Idle2
     \/ part = "rebase" /\ RebaseInit /\ Idle2
     \/ part = "admission" /\ AdmissionInit /\ Idle2
     \/ part = "routing" /\ RoutingInit /\ Idle2
     \/ part = "guard" /\ GuardInit /\ Idle2
     \/ part = "analysis" /\ Analysis!Init /\ Idle3
     \/ part = "continuation" /\ Continuation!Init /\ Idle3
     \/ part = "child" /\ Child!Init /\ Idle13
     \/ part = "trace" /\ Trace!Init /\ Idle6
     \/ part = "dsh" /\ Dsh!Init /\ Idle12
     \/ part = "usage" /\ Usage!Init /\ Idle5
     \/ part = "capture" /\ Capture!Init /\ Idle13
     \/ part = "one" /\ One!Init /\ Idle12
     \/ part = "many" /\ Many!Init /\ Idle12
     \/ part = "agent" /\ Harbor!Init /\ Idle11
     \/ part = "watch" /\ Watch!Init /\ Idle13
     \/ part = "job" /\ Job!Init /\ Idle8
     \/ part = "outputs" /\ Outputs!Init /\ Idle8

GraphDbNext == part = "graph" /\ GraphDb!Next /\ UNCHANGED <<part, After15>>
DerivedNext == part = "derived" /\ Derived!Next /\ UNCHANGED <<part, After7>>
PoolNext == part = "pool" /\ Pool!Next /\ UNCHANGED <<part, After4>>
DurableNext == part = "durable" /\ Durable!Next /\ UNCHANGED <<part, After7>>
CleanupNext == part = "cleanup" /\ Cleanup!Next /\ UNCHANGED <<part, After10>>
RunNext == part = "run" /\ Run!Next /\ UNCHANGED <<part>>
OutrunNext == part = "outrun" /\ Outrun!Next /\ UNCHANGED <<part>>
WideNext == part = "wide" /\ Wide!Next /\ UNCHANGED <<part, After13>>
LongNext == part = "long" /\ Long!Next /\ UNCHANGED <<part, After13>>
ControlNext == part = "control" /\ Control!Next /\ UNCHANGED <<part, After10>>
SupervisorNext == part = "supervisor" /\ Supervisor!Next /\ UNCHANGED <<part, After9>>
WatcherNext == part = "watcher" /\ Watcher!Next /\ UNCHANGED <<part, After12>>
SignalsNext == part = "signals" /\ Signals!Next /\ UNCHANGED <<part, After13>>
LettersNext == part = "letters" /\ Letters!Next /\ UNCHANGED <<part, After13>>
NodesNext == part = "nodes" /\ Nodes!Next /\ UNCHANGED <<part, After17>>
StoreNext == part = "store" /\ Store!Next /\ UNCHANGED <<part, After2>>
MountedNext == part = "mounted" /\ Mounted!Next /\ UNCHANGED <<part, After2>>
ContextNext == part = "context" /\ Context!Next /\ UNCHANGED <<part, After7>>
JournalNext == part = "journal" /\ Journal!Next /\ UNCHANGED <<part, After6>>
WorkspaceNext == part = "workspace" /\ Workspace!Next /\ UNCHANGED <<part, After11>>
UnreadNext == part = "unread" /\ Unread!Next /\ UNCHANGED <<part, After11>>
ReconNext == part = "recon" /\ Recon!Next /\ UNCHANGED <<part, After8>>
DriftNext == part = "drift" /\ Drift!Next /\ UNCHANGED <<part, After8>>
HarnessNext == part = "harness" /\ Harness!Next /\ UNCHANGED <<part, After10>>
ChangeNext == part = "plan" /\ PlanStep /\ UNCHANGED <<part, After2>>
RebaseNext == part = "rebase" /\ RebaseStep /\ UNCHANGED <<part, After2>>
AdmissionNext == part = "admission" /\ AdmissionStep /\ UNCHANGED <<part, After2>>
RoutingNext == part = "routing" /\ RoutingStep /\ UNCHANGED <<part, After2>>
GuardNext == part = "guard" /\ GuardStep /\ UNCHANGED <<part, After2>>
AnalysisNext == part = "analysis" /\ Analysis!Next /\ UNCHANGED <<part, After3>>
ContinuationNext == part = "continuation" /\ Continuation!Next /\ UNCHANGED <<part, After3>>
ChildNext == part = "child" /\ Child!Next /\ UNCHANGED <<part, After13>>
TraceNext == part = "trace" /\ Trace!Next /\ UNCHANGED <<part, After6>>
DshNext == part = "dsh" /\ Dsh!Next /\ UNCHANGED <<part, After12>>
UsageNext == part = "usage" /\ Usage!Next /\ UNCHANGED <<part, After5>>
CaptureNext == part = "capture" /\ Capture!Next /\ UNCHANGED <<part, After13>>
OneNext == part = "one" /\ One!Next /\ UNCHANGED <<part, After12>>
ManyNext == part = "many" /\ Many!Next /\ UNCHANGED <<part, After12>>
HarborNext == part = "agent" /\ Harbor!Next /\ UNCHANGED <<part, After11>>
WatchNext == part = "watch" /\ Watch!Next /\ UNCHANGED <<part, After13>>
JobNext == part = "job" /\ Job!Next /\ UNCHANGED <<part, After8>>
OutputsNext == part = "outputs" /\ Outputs!Next /\ UNCHANGED <<part, After8>>

Next ==
  \/ GraphDbNext \/ DerivedNext \/ PoolNext \/ DurableNext \/ CleanupNext
  \/ RunNext \/ OutrunNext \/ WideNext \/ LongNext \/ ControlNext
  \/ SupervisorNext \/ WatcherNext \/ SignalsNext \/ LettersNext
  \/ NodesNext \/ StoreNext \/ MountedNext \/ ContextNext \/ JournalNext
  \/ WorkspaceNext \/ UnreadNext \/ ReconNext \/ DriftNext \/ HarnessNext
  \/ ChangeNext \/ RebaseNext \/ AdmissionNext \/ RoutingNext \/ GuardNext
  \/ AnalysisNext \/ ContinuationNext \/ ChildNext \/ TraceNext \/ DshNext
  \/ UsageNext \/ CaptureNext \/ OneNext \/ ManyNext \/ HarborNext
  \/ WatchNext \/ JobNext \/ OutputsNext

Spec == Init /\ [][Next]_allVars

-----------------------------------------------------------------------------
(* The graph: properties.                                                  *)
(* The derived state of a graph is what its evidence supports: VERIFIED    *)
(* tasks and a closed goal keep their support in every commit of           *)
(* _recompute_derived_state, but for a task verified before its first      *)
(* artifact; sdk.py marks stale exactly the cone of runtimes/invalidation, *)
(* build_proofs explains it, and no history that was pruned comes back.    *)
DerivedStateIsSound ==
  /\ part = "derived" =>
       /\ Derived!VerifiedIsSupported /\ Derived!StaleSetIsTheCone
       /\ Derived!EngineExplainsAndRepairs
  /\ part = "graph" => GraphDb!PrunedStaysPruned

(* Work is not stranded: repeated refresh_derived_state reaches every      *)
(* derivable proof, and a replay of the history the same ones when nothing *)
(* is stale or rests on evidence older than its first artifact; while a    *)
(* proof is missing, and every stale task may be repaired,                 *)
(* compute_ready_task_ids offers work.                                     *)
WorkGoesOn == part = "derived" => Derived!RefreshesSettle /\ Derived!WorkIsAlwaysReady

(* The store's history: commit_patch extends it by one whole patch, no     *)
(* operation rewrites what is retained, and the materialized rows follow.  *)
HistoryIsKept ==
  [][part = "graph" =>
       /\ GraphDb!CommitsExtendHistory /\ GraphDb!RetainedHistoryIsImmutable
       /\ GraphDb!ProjectionFollowsHistory]_allVars

-----------------------------------------------------------------------------
(* The scheduling runtime: properties.                                     *)
(* Who ends or commits a task does so under its own authority: a worker    *)
(* reports success only if it held its claim when the harness returned,    *)
(* the evidence of a run is committed under unchanged inputs, an epoch     *)
(* releases its own claims only.                                           *)
FencedSteps ==
  [][/\ part = "pool" => Pool!SuccessIsFenced
     /\ part = "run" => Run!EvidenceIsFresh
     /\ part = "outrun" => Outrun!EvidenceIsFresh
     /\ part = "wide" => Wide!OnlyOwnClaimsEnd
     /\ part = "long" => Long!OnlyOwnClaimsEnd]_allVars

(* Two scheduler processes on one database never overwrite each other:     *)
(* SchedulerStateStore's compare-and-swap on the snapshot token.           *)
NoLostUpdate == [][part = "durable" => Durable!NoLostUpdate]_allVars

(* What controls attempts acts only on what is still true of them: the     *)
(* epoch controller on planned actions, the supervisor until its end, when *)
(* only the steps already awaiting still count, the watcher on the         *)
(* attempts that read a changed resource, and a kernel on a process that   *)
(* has not ended, unless it awaits that process's step.                    *)
ControlStepsAreSound ==
  [][/\ part = "control" => Control!ControlledAsPlanned
     /\ part = "supervisor" => Supervisor!EndedIsInert
     /\ part = "watcher" => Watcher!RouteReachesAttempts
     /\ part = "signals" => Signals!EndedStaysEnded
     /\ part = "letters" => Letters!EndedStaysEnded]_allVars

(* Worker pool: what is reserved is what the running jobs hold. *)
CapacityIsConserved == part = "pool" => Pool!CapacityIsConserved

(* Durable state: damage to the journal is not carried on unseen. *)
DamageIsBounded == part = "durable" => Durable!DamageIsBounded

(* Cleanup markers: a task is reported clean only when it is. *)
CleanupIsHonest == part = "cleanup" => Cleanup!CleanupIsHonest

(* An asynchronous run that has ended holds no claim but one whose release *)
(* raised, and says so; a run stays inside its budgets.                    *)
NothingIsLeftRunning ==
  /\ part = "run" => Run!AsyncLeavesNothing /\ Run!WithinBudget
  /\ part = "outrun" => Outrun!AsyncLeavesNothing /\ Outrun!WithinBudget

(* Online epochs: each claim is owned by an epoch, marked for cleanup or   *)
(* one whose compensating release failed, and each action is sent once.    *)
EpochsAreAccounted ==
  /\ part = "wide" =>
       Wide!OwnershipIsAccounted /\ Wide!OneEpochBehind /\ Wide!ActionsAreSentOnce
  /\ part = "long" =>
       Long!OwnershipIsAccounted /\ Long!OneEpochBehind /\ Long!ActionsAreSentOnce

(* Workspace watcher: a change the graph was not told of is found by the   *)
(* next poll or still pending, but for a file that reverts after the       *)
(* answer to its report was lost.                                          *)
NoChangeIsLost == part = "watcher" => Watcher!NoChangeIsLost

(* Processes and signals: two kernels never step one process at once, a    *)
(* consumed signal wakes its target once, one that does not match is kept, *)
(* and replaying the journal gives the tables that tick writes.            *)
SignalsAreSound ==
  /\ part = "signals" => Signals!SignalsAreSound
  /\ part = "letters" => Letters!SignalsAreSound

(* Node runtime: attempts, executions and effects are accounted for. *)
RunsAreAccounted == part = "nodes" => Nodes!RunsAreAccounted

-----------------------------------------------------------------------------
(* Services: properties.                                                   *)
(* Artifacts: what is current can be read, and replaying the journal gives *)
(* the tables that recovery and readers rely on.                           *)
StoreIsConsistent ==
  /\ part = "store" => Store!CurrentIsReadable /\ Store!JournalRebuilds
  /\ part = "mounted" => Mounted!CurrentIsReadable /\ Mounted!JournalRebuilds

(* Context memory: what a process reads is what its manifest asked for and *)
(* what was committed, and an eviction frees its target and no page more.  *)
ContextsAreExact == part = "context" => Context!ContextsAreExact

(* Provenance: a journal that loads holds every acknowledged event, and    *)
(* every effect that was applied has its record.                           *)
ProvenanceIsComplete ==
  /\ part = "journal" => Journal!LoadedIsComplete
  /\ part = "workspace" => Workspace!EffectsAreRecorded
  /\ part = "unread" => Unread!EffectsAreRecorded

(* Reconciliation: a batch takes effect once, whoever retries it. *)
ReconciledOnce ==
  /\ part = "recon" => Recon!ReconciledOnce
  /\ part = "drift" => Drift!ReconciledOnce

(* A commit, a replayed control request and a reused context act on what   *)
(* is current at that step.                                                *)
StepsUnderCurrentState ==
  [][/\ part = "workspace" => Workspace!CommitsSeeThePresent
     /\ part = "unread" => Unread!CommitsSeeThePresent
     /\ part = "harness" => Harness!JournaledIsNotRerun /\ Harness!ReuseActsAtPlannedRevision]_allVars

-----------------------------------------------------------------------------
(* Decision rules: properties.                                             *)
(* Plans are admissible: the declared tasks the admission policies let run *)
(* together conflict with nothing and fit the pools and the budget, an     *)
(* unknown access runs alone but for an undeclared repair task, rankings   *)
(* are total orders, and the incremental graph analysis that feeds them    *)
(* gives what a derivation from scratch gives.                             *)
AdmissionsAreSound ==
  /\ part = "admission" /\ s2 =>
       Admission!PlansAreAdmissible(s1) /\ Admission!RankingsAreOrders(s1)
  /\ part = "analysis" => Analysis!AnalysisIsExact

(* What is not known is not taken for granted: a route asks for what the   *)
(* unread signals may require, a context is reused only when it is         *)
(* current, an interrupt is decided about or reported as unhandled.        *)
DecisionsFailClosed ==
  /\ part = "routing" /\ s2 => Routing!RoutingIsFailClosed(s1)
  /\ part = "rebase" /\ s2 => Change!ReuseIsSound(s1)
  /\ part = "plan" /\ s2 => Change!PlanAccountsFor(s1.st, s1.interrupts)

(* A harness session is cut or restarted only for a reason its policy      *)
(* names, and never on evidence that is missing.                           *)
RestartsAreEarned ==
  /\ part = "continuation" => Continuation!RestartsAreEarned
  /\ part = "guard" /\ s2 => Continuation!GuardIsCautious(s1.g, s1.c, s1.o, s1.store, s1.worse)

-----------------------------------------------------------------------------
(* Harness processes and benchmark scripts: properties.                    *)
(* The process that an attempt started, and what it used, is known until   *)
(* it is gone: in the harness child, the DSH trace and the DSH adapter.    *)
HarnessProcessesAreAccounted ==
  /\ part = "child" => Child!ChildIsAccounted
  /\ part = "trace" => Trace!UsageIsExact
  /\ part = "dsh" => Dsh!AttemptsAreAccounted

(* Costs are counted once, over the attempts of a task and its reruns. *)
CostsAreCountedOnce == part = "usage" => Usage!CostsAreCountedOnce

(* What a benchmark compares is what was run: a checkpoint is the frozen   *)
(* work of its cutoff, reused work was really there, a fresh result came   *)
(* from Harbor and a merged pair compares like with like.                  *)
ComparisonsAreFaithful ==
  /\ part = "capture" => Capture!CheckpointsAreFaithful
  /\ part = "agent" => Harbor!ReuseIsReal
  /\ part = "job" => Job!FreshResultsAreHarbors
  /\ part = "outputs" => Outputs!MergedPairsCompare

(* Pairs stay inside the host's capacity and every attempt, also one that  *)
(* is retried or cut by the stop-loss watcher, is charged what it burned,  *)
(* but for attempts that left no result to read.                           *)
PairsAreCosted ==
  /\ part = "one" => One!PairsFit /\ One!RetriesAreCosted
  /\ part = "many" => Many!PairsFit /\ Many!RetriesAreCosted
  /\ part = "watch" => Watch!BudgetIsExact

(* What has ended stays as it ended: the account of a harness child and    *)
(* the settled record of a pair.                                           *)
SettledIsFinal ==
  [][/\ part = "child" => Child!AccountIsMonotone
     /\ part = "one" => One!SettledIsFinal
     /\ part = "many" => Many!SettledIsFinal]_allVars
=============================================================================
