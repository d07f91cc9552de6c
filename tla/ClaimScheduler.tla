--------------------------- MODULE ClaimScheduler ---------------------------
(***************************************************************************)
(* The multi-agent scheduler's ownership protocol (runtimes/multi_agent):   *)
(* how a ready task becomes a TaskClaim backed by an exclusive Kernel       *)
(* lease, how the claim ends, how reconciliation and process replacement    *)
(* reclaim it, and how a handoff moves it to another agent.                 *)
(*                                                                          *)
(* Four authorities move independently: the scheduler's memory (claims,     *)
(* keys, reserved), its durable snapshot (disk, handoff), the Kernel        *)
(* (leases, inc, dead) and the Verified Progress Graph (version, validity,  *)
(* stale_at, evidence).  Every public method of the scheduler holds         *)
(* _schedule_lock, so at most one operation is under way; op says where it  *)
(* is.  A step of an operation is one Kernel effect or one durable write    *)
(* together with the memory updates around it; the Kernel, the graph and a  *)
(* crash may come between any two steps.                                    *)
(*                                                                          *)
(* A claim is named by its position in claims.  An execution attempt is     *)
(* created and ended with its claim, so it is a field of the claim.  Each   *)
(* task asks for one unit of the agent's resources.                         *)
(***************************************************************************)
EXTENDS Integers, Sequences, FiniteSets, TLC

CONSTANTS
    Tasks,          \* tasks of the one graph modelled
    Agents,         \* registered agents
    Capacity,       \* resource units, and concurrent claims, of one agent
    MaxAttempts,    \* TaskRequirements.max_attempts: attempts per epoch
    HandoffActions, \* the handoff kinds requested: "rebase", "preempt"
    MaxClaims,      \* bound: claims ever proposed
    MaxVersion,     \* bound: graph versions
    MaxInc,         \* bound: processes an agent is registered with
    MaxMishaps,     \* bound: failing durable writes and Kernel releases, expired
                    \* leases, dead or replaced processes and unrelated graph
                    \* patches, together
    MaxCrashes      \* bound: crashes of the scheduler

ASSUME BoundsAssumption ==
    /\ {Capacity, MaxAttempts, MaxClaims, MaxVersion, MaxInc} \subseteq Nat
    /\ {MaxMishaps, MaxCrashes} \subseteq Nat
    /\ HandoffActions \subseteq {"rebase", "preempt"}

VARIABLES
    claims,     \* memory: the sequence of claims
    keys,       \* memory: dispatch idempotency keys <<task, version>>
    reserved,   \* memory: claims holding a resource reservation
    disk,       \* durable snapshot of claims and keys
    handoff,    \* durable events of the one handoff intent
    leases,     \* Kernel: claim-lease rows
    inc,        \* Kernel: the number of the process an agent is bound to
    dead,       \* Kernel: terminal processes <<agent, number>>
    version,    \* graph version
    validity,   \* graph: validity of each task
    stale_at,   \* graph: the version that last made a task stale
    evidence,   \* graph: <<claim, version>> of the evidence committed
    op,         \* the operation under way
    mishaps, crashes

kernel == <<leases, inc, dead>>
graph == <<version, validity, stale_at, evidence>>
vars == <<claims, keys, reserved, disk, handoff, kernel, graph, op, mishaps, crashes>>

ClaimStates == {"acquiring", "active", "released", "lost", "completed", "rejected"}
TerminalClaimStates == {"released", "lost", "completed", "rejected"}
AttemptStates == {"none", "dispatched", "running", "succeeded", "verified",
                  "stale", "failed", "crashed", "preempted"}
Phases == {"none", "prepared", "committing", "committed", "refused",
           "aborted", "failed_closed", "in_doubt"}

ClaimIds == 1..MaxClaims
Claim == [task : Tasks, agent : Agents, inc : 0..MaxInc,
          epoch : 0..MaxVersion, state : ClaimStates, bound : BOOLEAN,
          attempt : AttemptStates, replaces : BOOLEAN]
Idle == [at |-> "idle", claim |-> 0, to |-> "none", seen |-> {}, agent |-> "none",
         version |-> 0, handoff |-> FALSE]

TypeOK ==
    /\ claims \in Seq(Claim) /\ Len(claims) <= MaxClaims
    /\ keys \subseteq Tasks \X (0..MaxVersion)
    /\ reserved \subseteq DOMAIN claims
    /\ disk.claims \in Seq(Claim) /\ Len(disk.claims) <= MaxClaims
    /\ disk.keys \subseteq Tasks \X (0..MaxVersion)
    /\ handoff \in [phase : Phases, source : 0..MaxClaims, agent : Agents \cup {"none"},
                    action : HandoffActions \cup {"none"}, started : BOOLEAN]
    /\ leases \subseteq [task : Tasks, claim : ClaimIds, agent : Agents,
                         inc : 0..MaxInc, live : BOOLEAN]
    /\ inc \in [Agents -> 0..MaxInc]
    /\ dead \subseteq Agents \X (0..MaxInc)
    /\ version \in 0..MaxVersion
    /\ validity \in [Tasks -> {"unverified", "verified", "stale"}]
    /\ stale_at \in [Tasks -> 0..MaxVersion]
    /\ evidence \subseteq ClaimIds \X (0..MaxVersion)
    /\ op.at \in {"idle", "acquire", "activate", "undo", "mark_key", "free", "record",
                  "clear", "reconcile", "settle", "retire", "retired", "handoff",
                  "reassign", "replace", "reassigned", "close"}
    /\ mishaps \in 0..MaxMishaps /\ crashes \in 0..MaxCrashes

Init ==
    /\ claims = <<>> /\ keys = {} /\ reserved = {}
    /\ disk = [claims |-> <<>>, keys |-> {}]
    /\ handoff = [phase |-> "none", source |-> 0, agent |-> "none",
                  action |-> "none", started |-> FALSE]
    /\ leases = {} /\ inc = [a \in Agents |-> 0] /\ dead = {}
    /\ version = 0 /\ validity = [t \in Tasks |-> "unverified"]
    /\ stale_at = [t \in Tasks |-> 0] /\ evidence = {}
    /\ op = Idle /\ mishaps = 0 /\ crashes = 0

-----------------------------------------------------------------------------
(* What the operations read.                                                *)

InState(cs, S) == {i \in DOMAIN cs : cs[i].state \in S}
Active == InState(claims, {"active"})
Live(cs) == InState(cs, ClaimStates \ TerminalClaimStates)
SmallestOf(S) == CHOOSE i \in S : \A j \in S : i <= j

\* The VPG ready frontier: unverified tasks, and stale ones awaiting repair.
ready_frontier == {t \in Tasks : validity[t] # "verified"}
SemanticEpoch(t) == IF validity[t] = "stale" THEN stale_at[t] ELSE 0
count_attempts_for_epoch(t, e) ==
    Cardinality({i \in DOMAIN claims : /\ claims[i].task = t /\ claims[i].epoch = e
                                       /\ claims[i].attempt # "none"})
ActiveOf(a) == {i \in Active : claims[i].agent = a}
shortages(a) == Cardinality({i \in reserved : claims[i].agent = a}) >= Capacity
process_is_alive(a, n) == <<a, n>> \notin dead

\* The Kernel rows granted to claim i, and the row _lease_lookup_for_claim
\* finds: by lease id, or by the owning process for a claim never bound.
RowsOf(i) == {r \in leases : r.claim = i}
lease_lookup(i) ==
    IF claims[i].bound
    THEN RowsOf(i)
    ELSE {r \in leases : /\ r.task = claims[i].task /\ r.agent = claims[i].agent
                         /\ r.inc = claims[i].inc}

\* Mutant: any current evidence of the task will do.
evidence_matches_active_attempt_AnyClaim(i) ==
    /\ claims[i].attempt \in {"succeeded", "verified"}
    /\ \E e \in evidence : claims[e[1]].task = claims[i].task /\ e[2] > stale_at[claims[i].task]

\* Evidence is valid while nothing it was derived from changed since.
evidence_matches_active_attempt(i) ==
    /\ claims[i].attempt \in {"succeeded", "verified"}
    /\ \E e \in evidence : e[1] = i /\ e[2] > stale_at[claims[i].task]

vpg_task_verified(i) ==
    validity[claims[i].task] = "verified" /\ evidence_matches_active_attempt(i)

vpg_task_stale(i) ==
    /\ validity[claims[i].task] = "stale"
    /\ claims[i].epoch < stale_at[claims[i].task]

-----------------------------------------------------------------------------
(* Durable writes and Kernel releases, which may fail.                      *)

\* append_event / persist_state: the snapshot becomes the memory of the step.
Save(cs, ks) == disk' = [claims |-> cs, keys |-> ks] /\ UNCHANGED mishaps
Mishap == mishaps < MaxMishaps /\ mishaps' = mishaps + 1
SaveFails == Mishap /\ UNCHANGED disk

\* LeaseAdapter.release on the given rows: confirmed, or unconfirmed because
\* the row has already gone or the provider raised.
release(rows) == rows # {} /\ leases' = leases \ rows
ReleaseFails(rows) ==
    /\ UNCHANGED leases
    /\ \/ rows = {} /\ UNCHANGED mishaps
       \/ rows # {} /\ Mishap

\* An exception leaves the operation; inside a handoff commit it is caught and
\* the handoff fails closed.
Raise == IF op.handoff THEN [Idle EXCEPT !.at = "close", !.to = "failed_closed",
                                         !.handoff = TRUE]
                       ELSE Idle
WithoutTask(ks, t) == {k \in ks : k[1] # t}
-----------------------------------------------------------------------------
(* schedule_once and _acquire_claim.                                        *)

\* Mutant: a failing publication keeps the reservation.
Propose_KeepsReservation(t, a, replaces) ==
    LET n == Len(claims) + 1
        claim == [task |-> t, agent |-> a, inc |-> inc[a],
                  epoch |-> SemanticEpoch(t), state |-> "acquiring", bound |-> FALSE,
                  attempt |-> "none", replaces |-> replaces]
    IN  /\ n <= MaxClaims
        /\ \/ /\ claims' = Append(claims, claim)
              /\ reserved' = reserved \cup {n}
              /\ Save(claims', keys)
              /\ op' = [op EXCEPT !.at = "acquire", !.claim = n,
                                  !.version = version]
           \/ SaveFails /\ op' = Raise /\ reserved' = reserved \cup {n} /\ UNCHANGED claims
        /\ UNCHANGED <<keys, handoff, kernel, graph, crashes>>

\* Mutant: CLAIM_PROPOSED is not published before the lease is asked for.
Propose_MemoryOnly(t, a, replaces) ==
    LET n == Len(claims) + 1
        claim == [task |-> t, agent |-> a, inc |-> inc[a],
                  epoch |-> SemanticEpoch(t), state |-> "acquiring", bound |-> FALSE,
                  attempt |-> "none", replaces |-> replaces]
    IN  /\ n <= MaxClaims
        /\ \/ /\ claims' = Append(claims, claim)
              /\ reserved' = reserved \cup {n}
              /\ UNCHANGED <<disk, mishaps>>
              /\ op' = [op EXCEPT !.at = "acquire", !.claim = n,
                                  !.version = version]
           \/ SaveFails /\ op' = Raise /\ UNCHANGED <<claims, reserved>>
        /\ UNCHANGED <<keys, handoff, kernel, graph, crashes>>

\* Reserve the resources, append the claim row and publish CLAIM_PROPOSED.  A
\* failing publication takes both back.
Propose(t, a, replaces) ==
    LET n == Len(claims) + 1
        claim == [task |-> t, agent |-> a, inc |-> inc[a],
                  epoch |-> SemanticEpoch(t), state |-> "acquiring", bound |-> FALSE,
                  attempt |-> "none", replaces |-> replaces]
    IN  /\ n <= MaxClaims
        /\ \/ /\ claims' = Append(claims, claim)
              /\ reserved' = reserved \cup {n}
              /\ Save(claims', keys)
              /\ op' = [op EXCEPT !.at = "acquire", !.claim = n,
                                  !.version = version]
           \/ SaveFails /\ op' = Raise /\ UNCHANGED <<claims, reserved>>
        /\ UNCHANGED <<keys, handoff, kernel, graph, crashes>>

\* Mutant: the active claim of the task is not looked for.
Schedule_SecondOwner(t, a) ==
    /\ op = Idle
    /\ InState(claims, {"acquiring"}) = {}
    /\ t \in ready_frontier
    /\ count_attempts_for_epoch(t, SemanticEpoch(t)) < MaxAttempts
    /\ <<t, version>> \notin keys
    /\ process_is_alive(a, inc[a])
    /\ Cardinality(ActiveOf(a)) < Capacity
    /\ ~shortages(a)
    /\ Propose(t, a, FALSE)

\* One candidate of the frontier, matched with one eligible agent.  An
\* interrupted acquisition makes schedule_once reconcile first.
Schedule(t, a) ==
    /\ op = Idle
    /\ InState(claims, {"acquiring"}) = {}
    /\ t \in ready_frontier
    /\ \A i \in Active : claims[i].task # t
    /\ count_attempts_for_epoch(t, SemanticEpoch(t)) < MaxAttempts
    /\ <<t, version>> \notin keys
    /\ process_is_alive(a, inc[a])
    /\ Cardinality(ActiveOf(a)) < Capacity
    /\ ~shortages(a)
    /\ Propose(t, a, FALSE)

\* The Kernel refuses a row that conflicts, expired or not, and a terminal
\* process.
Grantable(i) ==
    /\ \A r \in leases : r.task # claims[i].task
    /\ process_is_alive(claims[i].agent, claims[i].inc)

AcquireLease ==
    LET i == op.claim
    IN  /\ op.at = "acquire" /\ Grantable(i)
        /\ leases' = leases \cup {[task |-> claims[i].task, claim |-> i,
                                   agent |-> claims[i].agent, inc |-> claims[i].inc,
                                   live |-> TRUE]}
        /\ claims' = [claims EXCEPT ![i].state = "active", ![i].bound = TRUE,
                                    ![i].attempt = "dispatched"]
        /\ op' = [op EXCEPT !.at = "activate"]
        /\ UNCHANGED <<keys, reserved, disk, handoff, inc, dead, graph, mishaps, crashes>>

RefuseLease ==
    LET i == op.claim
    IN  /\ op.at = "acquire" /\ ~Grantable(i)
        /\ claims' = [claims EXCEPT ![i].state = "rejected"]
        /\ reserved' = reserved \ {i}
        /\ Save(claims', keys) \/ SaveFails
        /\ op' = Raise
        /\ UNCHANGED <<keys, handoff, kernel, graph, crashes>>

\* CLAIM_LEASE_ACQUIRED and EXECUTION_DISPATCHED in one transaction.
Activate ==
    /\ op.at = "activate"
    /\ \/ /\ Save(claims, keys)
          /\ op' = [op EXCEPT !.at = IF op.handoff THEN "reassigned" ELSE "mark_key"]
       \/ SaveFails /\ op' = [op EXCEPT !.at = "undo"]
    /\ UNCHANGED <<claims, keys, reserved, handoff, kernel, graph, crashes>>

\* The activation could not be made durable: give the lease back, forget the
\* attempt and free the resources; the last persist is best effort.
UndoActivation ==
    LET i == op.claim
    IN  /\ op.at = "undo"
        /\ \/ /\ release(RowsOf(i))
              /\ claims' = [claims EXCEPT ![i].state = "released", ![i].attempt = "none"]
              /\ reserved' = reserved \ {i}
              /\ Save(claims', keys) \/ SaveFails
           \/ ReleaseFails(RowsOf(i)) /\ UNCHANGED <<claims, reserved, disk>>
        /\ op' = Raise
        /\ UNCHANGED <<keys, handoff, inc, dead, graph, crashes>>

MarkKey ==
    /\ op.at = "mark_key"
    /\ keys' = keys \cup {<<claims[op.claim].task, op.version>>}
    /\ Save(claims, keys') \/ SaveFails
    /\ op' = Idle
    /\ UNCHANGED <<claims, reserved, handoff, kernel, graph, crashes>>

-----------------------------------------------------------------------------
(* The executor's callbacks, completion and release.                        *)

\* mark_execution_started, mark_execution_operationally_succeeded and
\* mark_stale_cognition: from which attempt states each moves on.
Callback(i, from, to) ==
    /\ op = Idle /\ i \in Active
    /\ claims[i].attempt \in from
    /\ claims' = [claims EXCEPT ![i].attempt = to]
    /\ Save(claims', keys) \/ SaveFails
    /\ UNCHANGED <<keys, reserved, handoff, kernel, graph, op, crashes>>

Start(i) == Callback(i, {"dispatched"}, "running")
Succeed(i) == Callback(i, {"dispatched", "running"}, "succeeded")
MarkStale(i) == Callback(i, {"dispatched", "running", "succeeded"}, "stale")

\* observe_vpg on one claim: the attempt is promoted and published, then the
\* claim gives its lease back.
Complete(i) ==
    /\ op = Idle /\ i \in Active
    /\ vpg_task_verified(i)
    /\ claims' = [claims EXCEPT ![i].attempt = "verified"]
    /\ \/ /\ IF claims[i].attempt = "succeeded"
             THEN Save(claims', keys)
             ELSE UNCHANGED <<disk, mishaps>>
          /\ op' = [Idle EXCEPT !.at = "free", !.claim = i, !.to = "completed"]
       \/ claims[i].attempt = "succeeded" /\ SaveFails /\ op' = Idle
    /\ UNCHANGED <<keys, reserved, handoff, kernel, graph, crashes>>

\* release_task with the claim's own id: the attempt ends failed or stale.
ReleaseTask(i, how, retry) ==
    /\ op = Idle /\ i \in Active
    /\ claims' = [claims EXCEPT ![i].attempt = IF @ = "stale" THEN @ ELSE how]
    /\ \/ /\ Save(claims', keys)
          /\ op' = [Idle EXCEPT !.at = "free", !.claim = i,
                                !.to = IF retry THEN "retried" ELSE "released"]
       \/ SaveFails /\ op' = Idle
    /\ UNCHANGED <<keys, reserved, handoff, kernel, graph, crashes>>

\* ClaimManager.complete / release: the lease first, then the claim's state.
FreeLease ==
    LET i == op.claim
    IN  /\ op.at = "free"
        /\ \/ /\ release(RowsOf(i)) /\ UNCHANGED mishaps
              /\ claims' = [claims EXCEPT ![i].state = IF op.to = "completed"
                                                       THEN "completed" ELSE "released"]
              /\ op' = [op EXCEPT !.at = "record"]
           \/ ReleaseFails(RowsOf(i)) /\ op' = Idle /\ UNCHANGED claims
        /\ UNCHANGED <<keys, reserved, disk, handoff, inc, dead, graph, crashes>>

\* CLAIM_COMPLETED / CLAIM_RELEASED; the resources go whether or not it is
\* published.
RecordEnd ==
    /\ op.at = "record"
    /\ reserved' = reserved \ {op.claim}
    /\ \/ Save(claims, keys) /\ op' = IF op.to = "retried" THEN [op EXCEPT !.at = "clear"] ELSE Idle
       \/ SaveFails /\ op' = Idle
    /\ UNCHANGED <<claims, keys, handoff, kernel, graph, crashes>>

\* _clear_task_idempotency
ClearKeys ==
    /\ op.at = "clear"
    /\ keys' = WithoutTask(keys, claims[op.claim].task)
    /\ \/ Save(claims, keys') /\ op' = IF op.handoff THEN [op EXCEPT !.at = "replace"] ELSE Idle
       \/ SaveFails /\ op' = Raise
    /\ UNCHANGED <<claims, reserved, handoff, kernel, graph, crashes>>
-----------------------------------------------------------------------------
(* Reconciliation and process replacement.                                  *)

\* What the authorities say of a claim that has not ended.
Verdict(i) ==
    IF claims[i].state = "active" /\ vpg_task_verified(i) THEN "completed"
    ELSE IF \/ claims[i].state = "acquiring"
            \/ vpg_task_stale(i)
            \/ ~process_is_alive(claims[i].agent, claims[i].inc)
            \/ \A r \in lease_lookup(i) : ~r.live
         THEN "lost"
         ELSE "active"

Remaining(mine) == {i \in mine : i > op.claim}
Walking == (op = Idle /\ claims # <<>>) \/ op.at = "reconcile"
\* The claims that had ended when _reconcile_locked began.
EndedBefore == IF op = Idle THEN InState(claims, TerminalClaimStates) ELSE op.seen

\* One claim of the walk.  An unconfirmed release leaves by an exception that
\* skips everything after it.
ReconcileClaim ==
    LET i == SmallestOf(Remaining(Live(claims)))
        found == lease_lookup(i)
        next == [op EXCEPT !.at = "reconcile", !.claim = i, !.seen = EndedBefore]
    IN  /\ Walking /\ Remaining(Live(claims)) # {}
        /\ \/ /\ Verdict(i) = "active"
              /\ op' = next
              /\ UNCHANGED <<claims, leases, mishaps>>
           \/ /\ Verdict(i) # "active"
              /\ IF found = {} THEN UNCHANGED leases ELSE release(found)
              /\ claims' = [claims EXCEPT ![i].state = Verdict(i),
                                          ![i].bound = @ \/ found # {}]
              /\ op' = next
              /\ UNCHANGED mishaps
           \/ /\ Verdict(i) # "active" /\ found # {}
              /\ ReleaseFails(found)
              /\ claims' = [claims EXCEPT ![i].bound = TRUE]
              /\ op' = Idle
        /\ UNCHANGED <<keys, reserved, disk, handoff, inc, dead, graph, crashes>>

\* The newly lost claims are settled one durable write each, and one more write
\* closes the pass.
SettleNext(cs, lost, held) ==
    LET i == SmallestOf(lost)
    IN  \/ /\ lost # {}
           /\ reserved' = held \ {i}
           /\ keys' = WithoutTask(keys, cs[i].task)
           /\ \/ /\ Save(cs, keys')
                 /\ op' = [Idle EXCEPT !.at = "settle", !.seen = lost \ {i}]
              \/ SaveFails /\ op' = Idle
        \/ /\ lost = {}
           /\ Save(cs, keys) \/ SaveFails
           /\ op' = Idle
           /\ reserved' = held /\ UNCHANGED keys

\* After the walk: attempts of dead processes crash, newly completed claims
\* free their resources, and settling begins.
EndReconcile ==
    LET ended(s) == InState(claims, {s}) \ EndedBefore
    IN  /\ Walking /\ Remaining(Live(claims)) = {}
        /\ claims' = [i \in DOMAIN claims |->
                        IF /\ claims[i].attempt \in {"dispatched", "running"}
                           /\ ~process_is_alive(claims[i].agent, claims[i].inc)
                        THEN [claims[i] EXCEPT !.attempt = "crashed"] ELSE claims[i]]
        /\ SettleNext(claims', ended("lost"), reserved \ ended("completed"))
        /\ UNCHANGED <<handoff, kernel, graph, crashes>>

Settle ==
    /\ op.at = "settle"
    /\ SettleNext(claims, op.seen, reserved)
    /\ UNCHANGED <<claims, handoff, kernel, graph, crashes>>

\* An agent is registered again under a new process (AgentOS.register), which
\* retires the claims of the earlier ones.
ReplaceProcess(a) ==
    /\ Mishap
    /\ op = Idle /\ inc[a] < MaxInc
    /\ inc' = [inc EXCEPT ![a] = @ + 1]
    /\ op' = [Idle EXCEPT !.at = "retire", !.agent = a]
    /\ UNCHANGED <<claims, keys, reserved, disk, handoff, leases, dead, graph, crashes>>

\* Mutant: ended claims are retired again.
ToRetire_AnyState == Remaining({i \in DOMAIN claims : /\ claims[i].agent = op.agent
                                           /\ claims[i].inc # inc[op.agent]})

ToRetire == Remaining({i \in Live(claims) : /\ claims[i].agent = op.agent
                                           /\ claims[i].inc # inc[op.agent]})

RetireClaim ==
    LET i == SmallestOf(ToRetire)
        found == lease_lookup(i)
    IN  /\ op.at = "retire"
        /\ \/ ToRetire = {} /\ op' = Idle /\ UNCHANGED <<leases, claims, mishaps>>
           \/ /\ ToRetire # {}
              /\ claims' = [claims EXCEPT ![i].bound = @ \/ found # {}]
              /\ \/ /\ IF found = {} THEN UNCHANGED leases ELSE release(found)
                    /\ op' = [op EXCEPT !.at = "retired", !.claim = i]
                    /\ UNCHANGED mishaps
                 \/ found # {} /\ ReleaseFails(found) /\ op' = Idle
        /\ UNCHANGED <<keys, reserved, disk, handoff, inc, dead, graph, crashes>>

RecordRetired ==
    LET i == op.claim
    IN  /\ op.at = "retired"
        /\ claims' = [claims EXCEPT ![i].state = "lost"]
        /\ reserved' = reserved \ {i}
        /\ keys' = WithoutTask(keys, claims[i].task)
        /\ \/ Save(claims', keys') /\ op' = [op EXCEPT !.at = "retire"]
           \/ SaveFails /\ op' = Idle
        /\ UNCHANGED <<handoff, kernel, graph, crashes>>
-----------------------------------------------------------------------------
(* Ownership handoff: prepare, commit through handoff_task, recover.        *)

Replacements == {i \in DOMAIN claims : claims[i].replaces}

PrepareHandoff(i, b, action) ==
    /\ op = Idle /\ handoff.phase = "none"
    /\ i \in Active /\ claims[i].bound
    /\ handoff' = [phase |-> "prepared", source |-> i, agent |-> b,
                   action |-> action, started |-> FALSE]
    /\ Save(claims, keys)
    /\ UNCHANGED <<claims, keys, reserved, kernel, graph, op, crashes>>

\* TASK_HANDOFF_COMMITTING.  A commit that was interrupted or refused may be
\* asked for again.
CommitHandoff ==
    /\ op = Idle /\ handoff.phase \in {"prepared", "committing", "refused"}
    /\ Replacements # {} \/ Len(claims) < MaxClaims
    /\ handoff' = [handoff EXCEPT !.phase = "committing"]
    /\ Save(claims, keys)
    /\ op' = [Idle EXCEPT !.at = "handoff", !.claim = handoff.source, !.handoff = TRUE]
    /\ UNCHANGED <<claims, keys, reserved, kernel, graph, crashes>>

\* The checks handoff_task makes before it touches the source's lease.
Transferable ==
    LET src == claims[handoff.source]
        b == handoff.agent
        load == ActiveOf(b) \ {handoff.source}
    IN  /\ src.state = "active" /\ src.bound
        /\ src.attempt \in {"dispatched", "running", "succeeded", "stale"}
        /\ src.task \in ready_frontier
        /\ process_is_alive(b, inc[b])
        /\ Cardinality(load) < Capacity
        /\ b = src.agent \/ ~shortages(b)

\* Mutant: a replacement on record is taken for a committed handoff.
HandoffOutcome_AnyReplacement ==
    IF Replacements # {}
    THEN "committed"
    ELSE IF handoff.started THEN "failed_closed" ELSE "refused"

\* A reassignment already on record is replayed or fails closed; a source that
\* may not be transferred is refused.
HandoffOutcome ==
    IF Replacements # {}
    THEN IF \E i \in Replacements : claims[i].state \in {"active", "completed"}
         THEN "committed" ELSE "failed_closed"
    ELSE IF handoff.started THEN "failed_closed" ELSE "refused"

SettleHandoff ==
    /\ op.at = "handoff"
    /\ Replacements # {} \/ handoff.started \/ ~Transferable
    /\ op' = [op EXCEPT !.at = "close", !.to = HandoffOutcome]
    /\ UNCHANGED <<claims, keys, reserved, disk, handoff, kernel, graph, mishaps, crashes>>

\* Mutant: the source claim stays ACTIVE after its lease is gone.
ReleaseSource_StaysActive ==
    LET i == handoff.source
    IN  /\ op.at = "handoff"
        /\ Replacements = {} /\ ~handoff.started /\ Transferable
        /\ \/ /\ release(RowsOf(i)) /\ UNCHANGED mishaps
              /\ claims' = [claims EXCEPT ![i].attempt = IF handoff.action = "rebase"
                                                          THEN "stale" ELSE "preempted"]
              /\ UNCHANGED reserved
              /\ op' = [op EXCEPT !.at = "reassign", !.version = version]
           \/ ReleaseFails(RowsOf(i)) /\ op' = Raise /\ UNCHANGED <<claims, reserved>>
        /\ UNCHANGED <<keys, disk, handoff, inc, dead, graph, crashes>>

\* Release-first: the source's exact lease, then its attempt and claim.
ReleaseSource ==
    LET i == handoff.source
    IN  /\ op.at = "handoff"
        /\ Replacements = {} /\ ~handoff.started /\ Transferable
        /\ \/ /\ release(RowsOf(i)) /\ UNCHANGED mishaps
              /\ claims' = [claims EXCEPT ![i].state = "released",
                               ![i].attempt = IF handoff.action = "rebase"
                                              THEN "stale" ELSE "preempted"]
              /\ reserved' = reserved \ {i}
              /\ op' = [op EXCEPT !.at = "reassign", !.version = version]
           \/ ReleaseFails(RowsOf(i)) /\ op' = Raise /\ UNCHANGED <<claims, reserved>>
        /\ UNCHANGED <<keys, disk, handoff, inc, dead, graph, crashes>>

\* TASK_REASSIGNMENT_STARTED
Reassign ==
    /\ op.at = "reassign"
    /\ \/ /\ Save(claims, keys)
          /\ handoff' = [handoff EXCEPT !.started = TRUE]
          /\ op' = [op EXCEPT !.at = "clear"]
       \/ SaveFails /\ op' = Raise /\ UNCHANGED handoff
    /\ UNCHANGED <<claims, keys, reserved, kernel, graph, crashes>>

\* _acquire_claim for the replacement, with the version read before the release.
Admit ==
    LET t == claims[handoff.source].task
        b == handoff.agent
        admissible == /\ version = op.version /\ t \in ready_frontier
                      /\ process_is_alive(b, inc[b]) /\ ~shortages(b)
    IN  /\ op.at = "replace"
        /\ \/ admissible /\ Propose(t, b, TRUE)
           \/ /\ ~admissible
              /\ Save(claims, keys) \/ SaveFails
              /\ op' = Raise
              /\ UNCHANGED <<claims, keys, reserved, handoff, kernel, graph, crashes>>

\* TASK_REASSIGNED.  If it cannot be published the handoff is closed as failed
\* although the replacement owns the task.
RecordReassigned ==
    /\ op.at = "reassigned"
    /\ \/ Save(claims, keys) /\ op' = [op EXCEPT !.at = "close", !.to = "committed"]
       \/ SaveFails /\ op' = Raise
    /\ UNCHANGED <<claims, keys, reserved, handoff, kernel, graph, crashes>>

\* TASK_HANDOFF_COMMITTED or TASK_HANDOFF_RECOVERY, with the outcome.
CloseHandoff ==
    /\ op.at = "close"
    /\ \/ Save(claims, keys) /\ handoff' = [handoff EXCEPT !.phase = op.to]
       \/ SaveFails /\ UNCHANGED handoff
    /\ op' = Idle
    /\ UNCHANGED <<claims, keys, reserved, kernel, graph, crashes>>

RecoveredPhase ==
    IF handoff.phase = "prepared" THEN "aborted"
    ELSE IF \E i \in Replacements : claims[i].state \in {"active", "completed"}
         THEN "committed"
    ELSE IF /\ claims[handoff.source].state = "active"
            /\ lease_lookup(handoff.source) # {}
         THEN "aborted" ELSE "in_doubt"

RecoverHandoff ==
    /\ op = Idle /\ handoff.phase \in {"prepared", "committing", "refused"}
    /\ handoff' = [handoff EXCEPT !.phase = RecoveredPhase]
    /\ Save(claims, keys)
    /\ UNCHANGED <<claims, keys, reserved, kernel, graph, op, crashes>>

-----------------------------------------------------------------------------
(* The crash of the scheduler's process, and the other authorities.         *)

\* Mutant: only ACTIVE claims get their reservations back.
CrashRestart_ActiveOnly ==
    /\ crashes < MaxCrashes /\ crashes' = crashes + 1
    /\ claims' = disk.claims /\ keys' = disk.keys
    /\ reserved' = InState(disk.claims, {"active"})
    /\ op' = Idle
    /\ UNCHANGED <<disk, handoff, kernel, graph, mishaps>>

\* A new scheduler loads the snapshot and restores the reservations of every
\* claim that has not ended: they are collected claim by claim and restored in
\* one call, at once when the agents are known (as they are here).
CrashRestart ==
    /\ crashes < MaxCrashes /\ crashes' = crashes + 1
    /\ claims' = disk.claims /\ keys' = disk.keys
    /\ reserved' = Live(disk.claims)
    /\ op' = Idle
    /\ UNCHANGED <<disk, handoff, kernel, graph, mishaps>>

LeaseExpires(r) ==
    /\ Mishap
    /\ r.live /\ leases' = (leases \ {r}) \cup {[r EXCEPT !.live = FALSE]}
    /\ UNCHANGED <<claims, keys, reserved, disk, handoff, inc, dead, graph, op, crashes>>

\* The Kernel reclaims expired rows and the rows of terminal processes.
KernelReclaims(r) ==
    /\ ~r.live \/ ~process_is_alive(r.agent, r.inc)
    /\ leases' = leases \ {r}
    /\ UNCHANGED <<claims, keys, reserved, disk, handoff, inc, dead, graph, op, mishaps, crashes>>

ProcessDies(a) ==
    /\ Mishap
    /\ process_is_alive(a, inc[a])
    /\ dead' = dead \cup {<<a, inc[a]>>}
    /\ UNCHANGED <<claims, keys, reserved, disk, handoff, leases, inc, graph, op, crashes>>

\* Evidence of some claim's attempt, current or superseded, verifies its task.
GraphVerifies(i) ==
    /\ version < MaxVersion /\ claims[i].attempt # "none"
    /\ claims[i].task \in ready_frontier
    /\ version' = version + 1
    /\ validity' = [validity EXCEPT ![claims[i].task] = "verified"]
    /\ evidence' = evidence \cup {<<i, version + 1>>}
    /\ UNCHANGED <<claims, keys, reserved, disk, handoff, kernel, stale_at, op, mishaps, crashes>>

GraphInvalidates(t) ==
    /\ version < MaxVersion /\ validity[t] = "verified"
    /\ version' = version + 1
    /\ validity' = [validity EXCEPT ![t] = "stale"]
    /\ stale_at' = [stale_at EXCEPT ![t] = version + 1]
    /\ UNCHANGED <<claims, keys, reserved, disk, handoff, kernel, evidence, op, mishaps, crashes>>

\* A patch elsewhere in the graph.
GraphMoves ==
    /\ Mishap
    /\ version < MaxVersion /\ version' = version + 1
    /\ UNCHANGED <<claims, keys, reserved, disk, handoff, kernel, validity, stale_at,
                   evidence, op, crashes>>
-----------------------------------------------------------------------------
Scheduling ==
    \/ \E t \in Tasks, a \in Agents : Schedule(t, a)
    \/ AcquireLease \/ RefuseLease \/ Activate \/ UndoActivation \/ MarkKey

Ending ==
    \/ \E i \in DOMAIN claims : Start(i) \/ Succeed(i) \/ MarkStale(i) \/ Complete(i)
    \/ \E i \in DOMAIN claims, how \in {"failed", "stale"}, retry \in BOOLEAN :
          ReleaseTask(i, how, retry)
    \/ FreeLease \/ RecordEnd \/ ClearKeys

Reclaiming ==
    \/ ReconcileClaim \/ EndReconcile \/ Settle
    \/ \E a \in Agents : ReplaceProcess(a)
    \/ RetireClaim \/ RecordRetired

HandingOff ==
    \/ \E i \in DOMAIN claims, b \in Agents, action \in HandoffActions :
          PrepareHandoff(i, b, action)
    \/ CommitHandoff \/ SettleHandoff \/ ReleaseSource \/ Reassign \/ Admit \/ RecordReassigned
    \/ CloseHandoff \/ RecoverHandoff

Environment ==
    \/ CrashRestart
    \/ \E r \in leases : LeaseExpires(r) \/ KernelReclaims(r)
    \/ \E a \in Agents : ProcessDies(a)
    \/ \E i \in DOMAIN claims : GraphVerifies(i)
    \/ \E t \in Tasks : GraphInvalidates(t)
    \/ GraphMoves

Next == Scheduling \/ Ending \/ Reclaiming \/ HandingOff \/ Environment

Spec == Init /\ [][Next]_vars

-----------------------------------------------------------------------------
(* Properties.                                                              *)

\* At most one claim of a task is ACTIVE, in memory and in the snapshot: the
\* store refuses to load a snapshot with two (_validate_projection_invariants),
\* and two would let two workers commit one task.
OneOwner ==
    \A cs \in {claims, disk.claims} :
        \A i, j \in InState(cs, {"active"}) : cs[i].task = cs[j].task => i = j

\* Every claim lease in the Kernel belongs to a claim that is durable and not
\* ended.  Reconciliation walks only such claims, so a lease without one would
\* block its task until it expires.
NoOrphanLease ==
    \A r \in leases : r.claim \in Live(disk.claims)

\* What a restart restores always fits: the claims of the snapshot that have not
\* ended never exceed an agent's resources, so _restore_reservations does not
\* reject the snapshot, and no claim in memory runs without its reservation.
RestoredClaimsFit ==
    /\ \A a \in Agents :
          Cardinality({i \in Live(disk.claims) : disk.claims[i].agent = a}) <= Capacity
    /\ Live(claims) \subseteq reserved

\* A claim completes only on evidence its own attempt produced, after that
\* attempt succeeded; evidence of an earlier owner of the task does not do.
CompletedByOwnEvidence ==
    \A i \in InState(claims, {"completed"}) :
        /\ claims[i].attempt \in {"succeeded", "verified"}
        /\ \E e \in evidence : e[1] = i

\* A handoff recorded as committed did move the task: the source has ended and
\* a claim of the requested agent was activated in its place.  One recorded as
\* aborted or refused never started to reassign.
HandoffRecordIsTrue ==
    /\ handoff.phase = "committed" =>
          /\ handoff.source \in InState(disk.claims, TerminalClaimStates)
          /\ \E i \in DOMAIN disk.claims :
                /\ disk.claims[i].replaces /\ disk.claims[i].agent = handoff.agent
                /\ disk.claims[i].bound
    /\ handoff.phase \in {"aborted", "refused"} => ~handoff.started

\* The scheduler gives a lease back only as it ends the claim that holds it, be it
\* on completion, release, reconciliation, retirement or handoff: it never
\* releases the lease of a claim that then goes on as the owner.
ReleaseEndsClaim ==
    \A r \in leases \ leases' :
        op' # op => \/ claims'[r.claim].state \in TerminalClaimStates
                    \/ op'.at = "retired" /\ op'.claim = r.claim

\* A claim the snapshot shows as ended stays as it ended, and no claim is
\* forgotten, across every later write, crash and restart.
EndedIsFinal ==
    /\ Len(disk'.claims) >= Len(disk.claims)
    /\ \A i \in InState(disk.claims, TerminalClaimStates) :
          disk'.claims[i].state = disk.claims[i].state

\* Every state of the scheduler satisfies the five ownership invariants.
ClaimsAreSound ==
    /\ TypeOK /\ OneOwner /\ NoOrphanLease /\ RestoredClaimsFit
    /\ CompletedByOwnEvidence /\ HandoffRecordIsTrue

\* Every step keeps both promises about ended claims.
ClaimStepsAreFinal == [][ReleaseEndsClaim /\ EndedIsFinal]_vars

\* Once the scheduler is idle, a task that may be dispatched is not held back by
\* the key of an ended claim: a key at the current version belongs to a claim
\* that is live or completed, or was released without a retry.
NoStrandedTask ==
    op = Idle =>
        \A t \in ready_frontier :
            <<t, version>> \in keys =>
                \E i \in DOMAIN claims :
                    claims[i].task = t /\ claims[i].state \notin {"lost", "rejected"}

\* Agents are interchangeable, and so are tasks: nothing names one.
Symmetry == Permutations(Tasks) \cup Permutations(Agents)
=============================================================================
