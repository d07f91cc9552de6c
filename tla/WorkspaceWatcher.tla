-------------------------- MODULE WorkspaceWatcher --------------------------
(***************************************************************************)
(* WorkspaceObservationWatcher (watchers.py) with what it calls on AgentOS *)
(* (os.py) and FactsProvider (providers.py): files are polled by hash,     *)
(* changes get authority-issued versions, running attempts are asked to    *)
(* rebase, and the change is reconciled into the graph in one batch.       *)
(* A token is its version: one is issued per artifact, version and graph.  *)
(***************************************************************************)
EXTENDS Integers, FiniteSets, SequencesExt

CONSTANTS Resources,   \* watched files
          Assigned,    \* those some task declares
          Contents,
          MaxVersion, MaxGraph   \* bounds: versions per file, graph commits

Gone == "gone"

VARIABLES file,      \* the workspace
          facts,     \* sdk_artifact_facts: contents of version 1, 2, ...
          baseline,  \* version last observed in memory, 0 if none
          missing,   \* files last seen deleted
          pending,   \* transitions whose reconciliation failed
          known,     \* version the graph was last told of
          batches,   \* reconciled batches, by their identity
          validity,  \* of the task that reads the file
          attempt,   \* 0, or the graph version its running attempt is on
          asked,     \* attempts asked to stop or rebase
          gv,        \* graph version
          unsent     \* changes consumed by a poll that does not reconcile

vars == <<file, facts, baseline, missing, pending, known, batches, validity,
          attempt, asked, gv, unsent>>

I == INSTANCE ChangeDecisions

Init ==
  /\ file \in [Resources -> Contents \cup {Gone}]
  /\ facts = [r \in Resources |-> <<>>] /\ baseline = [r \in Resources |-> 0]
  /\ missing = {} /\ pending = {} /\ known = [r \in Resources |-> 0]
  /\ batches = {} /\ validity = [r \in Resources |-> "unverified"]
  /\ attempt = [r \in Resources |-> 0] /\ asked = {} /\ gv = 1
  /\ unsent = {}

-----------------------------------------------------------------------------
(* initialize, poll: one file.  A read that fails, or bytes that change    *)
(* between the hash and the observation, make it an error. *)
PollOne(r, err) ==
  IF r \in err THEN "error"
  ELSE IF file[r] = Gone THEN IF r \in missing THEN "unchanged" ELSE "deleted"
  ELSE IF baseline[r] = 0 THEN "initialized"
  ELSE IF facts[r][baseline[r]] = file[r] THEN "unchanged" ELSE "changed"

Observes(r, err) == PollOne(r, err) \in {"initialized", "changed"}

(* observe_workspace_artifact: bytes equal to the latest version reuse it. *)
ObserveArtifact(r) ==
  IF facts[r] # <<>> /\ Last(facts[r]) = file[r] THEN facts[r]
  ELSE Append(facts[r], file[r])

AddedFacts(err) ==
  [r \in Resources |-> IF Observes(r, err) THEN ObserveArtifact(r) ELSE facts[r]]

PolledBaseline(err) ==
  [r \in Resources |-> IF Observes(r, err) THEN Len(AddedFacts(err)[r])
                       ELSE baseline[r]]

Poll(err) ==
  /\ facts' = AddedFacts(err)
  /\ \A r \in Resources : Len(facts'[r]) <= MaxVersion
  /\ missing' = (missing \cup {r \in Resources : PollOne(r, err) = "deleted"})
                  \ {r \in Resources \ err : file[r] # Gone}
  /\ UNCHANGED file

(* Only a change between two observed versions of a declared input is      *)
(* submitted to the graph. *)
Submitted(err) == {r \in Assigned : PollOne(r, err) = "changed"}

(* What a first observation tells the graph: nothing.  Consumers are       *)
(* verified against the version it registers, unless they were before. *)
Initialized(err) == {r \in Assigned : PollOne(r, err) = "initialized"}

Batch(err) == {<<r, baseline[r], PolledBaseline(err)[r]>> : r \in Submitted(err)}

(* reconcile_observations validates before it writes: a consumer that was  *)
(* never verified refuses the batch. *)
Reconcilable(err) ==
  \A r \in Submitted(err) : validity[r] \in {"verified", "stale"}

Told(err, told) ==
  [r \in Resources |->
     IF r \in told THEN PolledBaseline(err)[r]
     ELSE IF r \in Initialized(err) /\ known[r] = 0 THEN PolledBaseline(err)[r]
     ELSE known[r]]

Missed(err, missed) ==
  missed \cup {r \in Initialized(err) : known[r] \notin {0, PolledBaseline(err)[r]}}

(* The batch is committed in one transaction, once per identity. *)
CommitBatch(err) ==
  /\ known' = Told(err, Submitted(err))
  /\ IF Batch(err) \in batches \/ Batch(err) = {} THEN UNCHANGED <<batches, gv>>
     ELSE batches' = batches \cup {Batch(err)} /\ gv' = gv + 1 /\ gv < MaxGraph

Stale(err) ==
  [r \in Resources |->
     IF r \in Submitted(err) /\ Batch(err) \notin batches THEN "stale"
     ELSE validity[r]]

(* The baseline is put back, so that the next poll sees the change again.  *)
RestoreBaseline_Kept(err) ==
  /\ baseline' = PolledBaseline(err)
  /\ pending' = pending \cup Submitted(err)

RestoreBaseline(err) ==
  /\ baseline' = [r \in Resources |->
                    IF r \in Submitted(err) THEN baseline[r]
                    ELSE PolledBaseline(err)[r]]
  /\ pending' = pending \cup Submitted(err)

(* reconcile, with the outcomes its caller may see: done, refused, or      *)
(* raised although the transaction was committed. *)
Reconcile(err, outcome) ==
  /\ outcome = "ok" => Reconcilable(err)
  /\ outcome = "lost" => Reconcilable(err) /\ Batch(err) # {}
  /\ outcome = "raised" => Batch(err) # {}
  /\ IF outcome = "raised"
     THEN known' = Told(err, {}) /\ UNCHANGED <<batches, gv>>
     ELSE CommitBatch(err)
  /\ IF outcome = "ok"
     THEN /\ baseline' = PolledBaseline(err)
          /\ pending' = pending \ Submitted(err)
     ELSE RestoreBaseline(err)
  /\ unsent' = Missed(err, unsent \ {r \in Resources : known'[r] # known[r]})

(* poll_and_reconcile; planning the interrupts afterwards changes nothing. *)
PollAndReconcile(err, outcome) ==
  /\ Poll(err)
  /\ Reconcile(err, outcome)
  /\ validity' = IF outcome = "raised" THEN validity ELSE Stale(err)
  /\ UNCHANGED <<attempt, asked>>

-----------------------------------------------------------------------------
(* interrupt_for and plan_interrupts, for the changes a poll found. *)
Observed ==
  [graph |-> "g", version |-> gv, available |-> TRUE,
   attempts |-> {[id |-> r, task |-> r] : r \in {q \in Resources : attempt[q] # 0}},
   ready |-> {r \in Resources : validity[r] # "verified"},
   verified |-> {r \in Resources : validity[r] = "verified"}]

InterruptFor(r) ==
  [id |-> r, graph |-> "g", version |-> gv, kind |-> "artifact_changed",
   tasks |-> {r}, attempts |-> {}, preemptible |-> FALSE]

Decisions(err) == I!Plan(Observed, {InterruptFor(r) : r \in Submitted(err)}).decisions

(* deliver_interrupt accepts an attempt only on the graph version it was   *)
(* planned for; a decision about a task that is not running is blocked. *)
Delivered(err) ==
  {d.target.id : d \in {e \in Decisions(err) :
      /\ e.target.kind = "attempt" /\ e.action \in {"preempt", "rebase"}
      /\ attempt[e.target.id] = gv}}

(* Deletions, errors, files no task declares and undeliverable decisions.  *)
Blocked(err) ==
  \/ \E r \in Resources :
       \/ PollOne(r, err) \in {"deleted", "error"}
       \/ PollOne(r, err) = "changed" /\ r \notin Assigned
  \/ \E d \in Decisions(err) : d.target.id \notin Delivered(err)

(* poll_and_route: deliver on the old graph version, then reconcile.       *)
PollAndRoute(err, outcome) ==
  /\ Poll(err)
  /\ asked' = asked \cup Delivered(err)
  /\ Reconcile(err, outcome)
  /\ validity' = IF outcome = "raised" THEN validity ELSE Stale(err)
  /\ UNCHANGED attempt

(* poll_and_plan, poll_and_route without reconciliation, and a route whose *)
(* planning raises: the baseline has moved and the graph is not told. *)
PollOnly(err, deliver) ==
  /\ Poll(err)
  /\ baseline' = PolledBaseline(err) /\ known' = Told(err, {})
  /\ asked' = IF deliver THEN asked \cup Delivered(err) ELSE asked
  /\ unsent' = Missed(err, unsent \cup Submitted(err))
  /\ UNCHANGED <<pending, batches, validity, attempt, gv>>

-----------------------------------------------------------------------------
(* The workspace, the scheduler and the process around the watcher. *)
Edit(r, c) ==
  /\ file[r] # c /\ file' = [file EXCEPT ![r] = c]
  /\ UNCHANGED <<facts, baseline, missing, pending, known, batches, validity,
                 attempt, asked, gv, unsent>>

(* apply_workspace_mutation writes the file and registers the version. *)
ApplyWorkspaceMutation(r, c) ==
  /\ Len(facts[r]) < MaxVersion
  /\ file' = [file EXCEPT ![r] = c]
  /\ facts' = [facts EXCEPT ![r] = Append(@, c)]
  /\ UNCHANGED <<baseline, missing, pending, known, batches, validity,
                 attempt, asked, gv, unsent>>

Start(r) ==
  /\ r \in Assigned /\ attempt[r] = 0 /\ validity[r] # "verified"
  /\ attempt' = [attempt EXCEPT ![r] = gv]
  /\ UNCHANGED <<file, facts, baseline, missing, pending, known, batches,
                 validity, asked, gv, unsent>>

Finish(r, ok) ==
  /\ attempt[r] # 0 /\ gv < MaxGraph
  /\ attempt' = [attempt EXCEPT ![r] = 0] /\ asked' = asked \ {r}
  /\ IF ok /\ r \notin asked
     THEN validity' = [validity EXCEPT ![r] = "verified"] /\ gv' = gv + 1
     ELSE UNCHANGED <<validity, gv>>
  /\ UNCHANGED <<file, facts, baseline, missing, pending, known, batches,
                 unsent>>

(* A new watcher has an empty baseline; facts and graph are durable. *)
Restart ==
  /\ baseline' = [r \in Resources |-> 0] /\ missing' = {} /\ pending' = {}
  /\ UNCHANGED <<file, facts, known, batches, validity, attempt, asked, gv,
                 unsent>>

Outcomes == {"ok", "raised", "lost"}

Next ==
  \/ \E err \in SUBSET Resources, o \in Outcomes : PollAndReconcile(err, o)
  \/ \E err \in SUBSET Resources, o \in Outcomes : PollAndRoute(err, o)
  \/ \E err \in SUBSET Resources, d \in BOOLEAN : PollOnly(err, d)
  \/ \E r \in Resources, c \in Contents \cup {Gone} : Edit(r, c)
  \/ \E r \in Resources, c \in Contents : ApplyWorkspaceMutation(r, c)
  \/ \E r \in Resources : Start(r)
  \/ \E r \in Resources, ok \in BOOLEAN : Finish(r, ok)
  \/ Restart

Spec == Init /\ [][Next]_vars

-----------------------------------------------------------------------------
(* A change is never lost silently.  The baseline is ahead of the graph    *)
(* only where a caller polled without reconciling or the watcher was       *)
(* rebuilt over a changed file.  Elsewhere, a file whose bytes are not the *)
(* ones the graph was last told of is found changed by the next poll, or   *)
(* stands in pending_changes: there, after an answer was lost and the file *)
(* went back to its old bytes, every poll finds the restored baseline      *)
(* unchanged and the graph keeps a version the workspace no longer has.    *)
NoChangeIsLost ==
  \A r \in Assigned \ unsent :
    /\ baseline[r] <= known[r]
    /\ /\ known[r] # 0 /\ baseline[r] # 0 /\ file[r] # Gone
       /\ facts[r][known[r]] # file[r] /\ PollOne(r, {}) # "changed"
       => r \in pending /\ baseline[r] < known[r]

(* A route that reports nothing blocked has asked every attempt whose      *)
(* input it replaced in the graph: delivering before reconciling is what   *)
(* lets the request pass the graph version fence. *)
RouteReachesAttempts ==
  \A err \in SUBSET Resources :
    PollAndRoute(err, "ok") /\ ~Blocked(err) =>
      \A r \in Submitted(err) : attempt[r] # 0 /\ r \in asked'

=============================================================================
