----------------------------- MODULE GraphStore -----------------------------
(***************************************************************************)
(* The durable store of the Verified Progress Graph (graph_store.py), and  *)
(* the two protocols of sdk.py and recovery.py that write through it:      *)
(* submit_patch, which reads in several statements and commits in one      *)
(* transaction, and recover, which reads a snapshot and replaces the       *)
(* materialized projection.  One graph; every client is a process with its *)
(* own connection and its own projection cache.                            *)
(*                                                                         *)
(* A projection is a function from entities to payloads, 0 for an absent   *)
(* entity.  A projection hash is the projection it was computed from.      *)
(***************************************************************************)
EXTENDS Integers, Sequences, FiniteSets

CONSTANTS Clients,       \* processes holding a GraphStore
          Keys,          \* composite idempotency keys
          MaxVersion,    \* bound: graph versions committed
          MaxFaults      \* bound: out-of-band edits of the database

VARIABLES
  version, closed,   \* graphs row
  hashes,            \* graph_versions: version -> projection hash
  header,            \* graph_projection_snapshots: version -> hash
  hist,              \* graph_node_history and graph_edge_history rows
  floor,             \* graph_history_retention, NoRow when missing
  pruned,            \* a lifecycle event with a floor above 0 exists
  mat,               \* materialized projection
  shadow,            \* rows of an interrupted primary-key migration
  idem,              \* graph_idempotency: key -> committed version
  faults,            \* edits made behind the store's back
  pc, prop, seen, cache  \* per client

durable == <<version, closed, hashes, header, hist, floor, pruned, idem>>
db == <<durable, mat, shadow>>
vars == <<db, faults, pc, prop, seen, cache>>

Nodes == {"task", "evidence"}
Edges == {"produces"}
Entities == Nodes \cup Edges
Ops == {"set", "evid", "link", "touch"}
NoRow == -1
Empty == [x \in Entities |-> 0]
LegacyHash == [x \in Entities |-> -1]

Present(g) == {x \in Entities : g[x] # 0}

(* An edge whose endpoints are both present. *)
ClosedUnderEnds(g) == (g["produces"] # 0) => (Nodes \subseteq Present(g))

(* Each entity's latest revision at or before v. *)
Latest(v) ==
  [x \in Entities |->
    LET revs == {r \in hist : r.ent = x /\ r.ver <= v}
    IN IF revs = {} THEN 0
       ELSE (CHOOSE r \in revs : \A q \in revs : q.ver <= r.ver).val]

RetentionContract ==
  /\ floor \in 0..version
  /\ floor \in DOMAIN header
  /\ header[floor] = hashes[floor]

LoadProjectionSnapshot(v) ==
  /\ RetentionContract
  /\ v >= floor
  /\ v \in DOMAIN header
  /\ ClosedUnderEnds(Latest(v))
  /\ header[v] = hashes[v]
  /\ header[v] = Latest(v)

NoFutureHistory(v) ==
  /\ \A r \in hist : r.ver <= v
  /\ \A w \in DOMAIN header : w <= v

(***************************************************************************)
(* Patches.  "set" adds or rewrites the task, "evid" adds the evidence     *)
(* node, "link" attaches existing evidence, "touch" is a refresh.          *)
(***************************************************************************)
Admissible(op, g) ==
  CASE op = "evid" -> g["evidence"] = 0
    [] op = "link" -> g["evidence"] # 0 /\ g["task"] # 0 /\ g["produces"] = 0
    [] OTHER -> TRUE

ApplyOp(op, g) ==
  CASE op = "set"  -> [g EXCEPT !["task"] = IF g["task"] = 1 THEN 2 ELSE 1]
    [] op = "evid" -> [g EXCEPT !["evidence"] = 1]
    [] op = "link" -> [g EXCEPT !["produces"] = 1]
    [] OTHER -> g

(* What the delta of an operation may rewrite; attaching evidence brings   *)
(* a staged node into the durable projection.                              *)
Touched(op) ==
  CASE op = "set"  -> {"task"}
    [] op = "evid" -> {"evidence"}
    [] op = "link" -> {"evidence", "produces"}
    [] OTHER -> {}

(* Every write to the file moves the mutation fingerprint, so that no      *)
(* cached snapshot older than it is used again.                            *)
NoCache == [ver |-> NoRow, graph |-> Empty]

StaleCaches == [c \in Clients |-> NoCache]

Idle == [op |-> "touch", key |-> NoRow, exp |-> 0, holds |-> FALSE]
Unseen == [nodes |-> Empty, graph |-> Empty]

(***************************************************************************)
(* The three databases a process may open: a new graph at version 0; a     *)
(* graph an older release left without snapshots; one whose primary-key    *)
(* migration crashed after renaming the table.                             *)
(***************************************************************************)
Task1 == [Empty EXCEPT !["task"] = 1]

CreateGraph ==
  /\ version = 0 /\ hashes = [v \in 0..0 |-> Empty]
  /\ header = [v \in 0..0 |-> Empty] /\ hist = {} /\ floor = 0
  /\ mat = Empty /\ shadow = Empty

LegacySnapshotless ==
  /\ version = 1 /\ hashes = [v \in 0..1 |-> LegacyHash]
  /\ header = [v \in {} |-> Empty] /\ hist = {} /\ floor = NoRow
  /\ mat = Task1 /\ shadow = Empty

InterruptedMigration ==
  /\ version = 1 /\ hashes = [v \in 0..1 |-> IF v = 0 THEN Empty ELSE Task1]
  /\ header = hashes /\ hist = {[ver |-> 1, ent |-> "task", val |-> 1]}
  /\ floor = 0 /\ mat = Empty /\ shadow = Task1

Init ==
  /\ CreateGraph \/ LegacySnapshotless \/ InterruptedMigration
  /\ closed = FALSE /\ pruned = FALSE /\ idem = [k \in {} |-> 0]
  /\ faults = 0
  /\ pc = [c \in Clients |-> "down"] /\ prop = [c \in Clients |-> Idle]
  /\ seen = [c \in Clients |-> Unseen]
  /\ cache = [c \in Clients |-> NoCache]

(***************************************************************************)
(* Opening the store: shadow rows are copied back when they do not         *)
(* conflict, version 0 gets its snapshot unless it was pruned, and a       *)
(* default retention row is added unless history was ever compacted.       *)
(***************************************************************************)
RecoverShadow ==
  /\ \A x \in Entities : shadow[x] # 0 => mat[x] \in {0, shadow[x]}
  /\ mat' = [x \in Entities |-> IF mat[x] = 0 THEN shadow[x] ELSE mat[x]]
  /\ shadow' = Empty

MigrateInitialSnapshots_Always ==
  /\ hashes' = [hashes EXCEPT ![0] = Empty]
  /\ header' = [v \in DOMAIN header \cup {0} |->
                  IF v \in DOMAIN header THEN header[v] ELSE Empty]

MigrateInitialSnapshots ==
  IF floor > 0 \/ pruned \/ hashes[0] \notin {Empty, LegacyHash}
  THEN UNCHANGED <<hashes, header>>
  ELSE /\ hashes' = [hashes EXCEPT ![0] = Empty]
       /\ header' = [v \in DOMAIN header \cup {0} |->
                       IF v \in DOMAIN header THEN header[v] ELSE Empty]

MigrateRetention ==
  floor' = IF /\ floor = NoRow /\ ~pruned /\ 0 \in DOMAIN header'
              /\ header'[0] = hashes'[0]
           THEN 0 ELSE floor

Open(c) ==
  /\ pc[c] = "down"
  /\ RecoverShadow /\ MigrateInitialSnapshots /\ MigrateRetention
  /\ pc' = [pc EXCEPT ![c] = "ready"]
  /\ cache' = IF <<mat', shadow', hashes', header', floor'>>
                 = <<mat, shadow, hashes, header, floor>>
              THEN cache ELSE StaleCaches
  /\ UNCHANGED <<version, closed, hist, pruned, idem, faults,
                 prop, seen>>

(* A process stops between any two of its statements. *)
Crash(c) ==
  /\ pc[c] \notin {"down", "ready"}
  /\ pc' = [pc EXCEPT ![c] = "down"]
  /\ prop' = [prop EXCEPT ![c] = Idle]
  /\ seen' = [seen EXCEPT ![c] = Unseen]
  /\ cache' = [cache EXCEPT ![c] = NoCache]
  /\ UNCHANGED <<db, faults>>

(***************************************************************************)
(* submit_patch.  The caller builds the proposal against the version it    *)
(* saw, with two guards: the lease generation it owns and the exact input  *)
(* artifacts it read.  prop.holds says whether the rows both guards name   *)
(* are still the newest ones.                                              *)
(***************************************************************************)
Propose(c, op, k) ==
  /\ pc[c] = "ready" /\ version < MaxVersion
  /\ prop' = [prop EXCEPT ![c] = [op |-> op, key |-> k, exp |-> version,
                                  holds |-> TRUE]]
  /\ pc' = [pc EXCEPT ![c] = "record"]
  /\ UNCHANGED <<db, faults, seen, cache>>

Finish(c) ==
  /\ pc' = [pc EXCEPT ![c] = "ready"]
  /\ prop' = [prop EXCEPT ![c] = Idle]
  /\ seen' = [seen EXCEPT ![c] = Unseen]

CommitGuardHolds(c) == prop[c].holds

(* The first check of the list that fails names the outcome. *)
FirstFailure(checks, otherwise) ==
  LET failed == {i \in 1..Len(checks) : ~checks[i].ok}
  IN IF failed = {} THEN otherwise
     ELSE checks[CHOOSE i \in failed : \A j \in failed : i <= j].else

Check(ok, outcome) == [ok |-> ok, else |-> outcome]

(* A known key is answered from its row, under the same two guards a fresh *)
(* commit must pass. *)
IdempotentReplay(c) ==
  IF CommitGuardHolds(c) THEN "replayed" ELSE "fenced"

(* get_record, the replay transaction, the version comparison, and the     *)
(* first SELECT of snapshot_projection: nodes are read before edges.       *)
ReadRecord(c) ==
  /\ pc[c] = "record"
  /\ LET outcome ==
           IF closed THEN "closed"
           ELSE IF prop[c].key \in DOMAIN idem THEN IdempotentReplay(c)
           ELSE IF prop[c].exp # version THEN "conflict"
           ELSE "read"
     IN IF outcome = "read"
        THEN /\ pc' = [pc EXCEPT ![c] = "edges"]
             /\ seen' = [seen EXCEPT ![c].nodes = [mat EXCEPT !["produces"] = 0]]
             /\ UNCHANGED prop
        ELSE Finish(c)
  /\ UNCHANGED <<db, faults, cache>>

(* validate_patch builds the candidate from what was read. *)
ReadEdges(c) ==
  /\ pc[c] = "edges"
  /\ LET g == [x \in Entities |-> IF x \in Nodes THEN seen[c].nodes[x]
                                  ELSE mat[x]]
     IN IF Admissible(prop[c].op, g)
        THEN /\ seen' = [seen EXCEPT ![c] = [Unseen EXCEPT !.graph = g]]
             /\ pc' = [pc EXCEPT ![c] = "commit"]
             /\ UNCHANGED <<prop>>
        ELSE Finish(c)
  /\ UNCHANGED <<db, faults, cache>>

(***************************************************************************)
(* commit_patch.  The parent is the cached snapshot when its fingerprint   *)
(* still holds, else the validated durable one.                            *)
(***************************************************************************)
CachedProjection(c, v) == cache[c].ver = v

ParentOk(c) ==
  CachedProjection(c, prop[c].exp) \/ LoadProjectionSnapshot(prop[c].exp)

Parent(c) ==
  IF CachedProjection(c, prop[c].exp) THEN cache[c].graph
  ELSE Latest(prop[c].exp)

Candidate(c) == ApplyOp(prop[c].op, seen[c].graph)

(* The projection delta: what the candidate changed of what was read. *)
Upserts(c) == {x \in Entities : Candidate(c)[x] # seen[c].graph[x]}

Attached(c) == IF prop[c].op = "link" THEN {"evidence"} ELSE {}

(* Materialized rows the durable parent does not have. *)
Extra(c) == Present(mat) \ Present(Parent(c))
Staged(c) == (Extra(c) \cap {"evidence"}) \ Attached(c)

(* The candidate without the evidence that stays staged. *)
Durable(c) ==
  [x \in Entities |-> IF x \in Staged(c) THEN 0 ELSE Candidate(c)[x]]

Materialized(c) ==
  [x \in Entities |-> IF x \in Upserts(c) THEN Candidate(c)[x] ELSE mat[x]]

CacheMatchesParent(c) ==
  /\ \A x \in Present(Parent(c)) : mat[x] = Parent(c)[x]
  /\ \A x \in Extra(c) : x = "evidence" /\ Candidate(c)[x] = mat[x]

DeltaMaterializes(c) ==
  \A x \in Entities \ Staged(c) : Materialized(c)[x] = Durable(c)[x]

CandidateIsAccounted(c) ==
  /\ ClosedUnderEnds(Candidate(c))
  /\ Staged(c) \cap Upserts(c) = {}
  /\ ClosedUnderEnds(Durable(c))
  /\ Present(Parent(c)) \subseteq Present(Candidate(c))
  /\ Present(Durable(c)) \subseteq
       (Present(Parent(c)) \cup Upserts(c) \cup Attached(c))

CommitOutcome(c) ==
  FirstFailure(
    <<Check(CommitGuardHolds(c), "fenced"),
      Check(~closed, "closed"),
      Check(version = prop[c].exp, "conflict"),
      Check(ParentOk(c), "corrupt"),
      Check(\A r \in hist : r.ver <= version, "corrupt"),
      Check(CacheMatchesParent(c), "corrupt"),
      Check(CandidateIsAccounted(c), "rejected"),
      Check(prop[c].key \notin DOMAIN idem, IdempotentReplay(c)),
      Check(DeltaMaterializes(c), "rejected")>>, "committed")

Advance(c) ==
  /\ version' = version + 1
  /\ hashes' = [v \in 0..version + 1 |->
                  IF v = version + 1 THEN Durable(c) ELSE hashes[v]]
  /\ header' = [v \in DOMAIN header \cup {version + 1} |->
                  IF v = version + 1 THEN Durable(c) ELSE header[v]]
  /\ hist' = hist \cup
       {[ver |-> version + 1, ent |-> x, val |-> Durable(c)[x]] :
          x \in {y \in Entities : Durable(c)[y] # Parent(c)[y]}}
  /\ idem' = [k \in DOMAIN idem \cup {prop[c].key} |->
                IF k = prop[c].key THEN version + 1 ELSE idem[k]]
  /\ mat' = Materialized(c)
  /\ cache' = [StaleCaches EXCEPT
                 ![c] = [ver |-> version + 1, graph |-> Durable(c)]]

CommitPatch(c) ==
  /\ pc[c] = "commit"
  /\ IF CommitOutcome(c) = "committed" THEN Advance(c)
     ELSE UNCHANGED <<version, hashes, header, hist, idem, mat, cache>>
  /\ Finish(c)
  /\ UNCHANGED <<closed, floor, pruned, shadow, faults>>

CloseGraph ==
  /\ ~closed
  /\ closed' = TRUE /\ cache' = StaleCaches
  /\ UNCHANGED <<version, hashes, header, hist, floor, pruned, idem, mat,
                 shadow, faults, pc, prop, seen>>

(***************************************************************************)
(* recover: the audit chain is validated and the newest snapshot loaded,   *)
(* then the projection is replaced if the version has not moved.           *)
(***************************************************************************)
RecoveryHistoryOk ==
  /\ RetentionContract
  /\ \A v \in floor..version : v \in DOMAIN header /\ header[v] = hashes[v]
  /\ DOMAIN header \subseteq 0..version

LoadForRecovery(c) ==
  /\ pc[c] = "ready"
  /\ RecoveryHistoryOk /\ LoadProjectionSnapshot(version)
  /\ seen' = [seen EXCEPT ![c].graph = Latest(version)]
  /\ prop' = [prop EXCEPT ![c].exp = version]
  /\ pc' = [pc EXCEPT ![c] = "replace"]
  /\ UNCHANGED <<db, faults, cache>>

ReplaceProjection_NoCas(c) ==
  /\ pc[c] = "replace"
  /\ mat' = seen[c].graph /\ cache' = StaleCaches /\ Finish(c)
  /\ UNCHANGED <<durable, shadow, faults>>

ReplaceProjection(c) ==
  /\ pc[c] = "replace"
  /\ IF version = prop[c].exp
     THEN /\ mat' = seen[c].graph
          /\ cache' = StaleCaches
          /\ Finish(c)
     ELSE Finish(c) /\ UNCHANGED <<mat, cache>>
  /\ UNCHANGED <<durable, shadow, faults>>

Checkpoint_LastRevisions(v, g) == {r \in hist : r.ver = v}

(***************************************************************************)
(* Retention.  Compaction installs a full checkpoint at the new floor; the *)
(* trusted migration blesses the materialized rows of a snapshot-less      *)
(* graph, if they are still what the operator previewed.                   *)
(***************************************************************************)
Checkpoint(v, g) ==
  {[ver |-> v, ent |-> x, val |-> g[x]] : x \in Present(g)}

CompactHistory(r) ==
  /\ r \in floor + 1..version
  /\ \A v \in r..version : LoadProjectionSnapshot(v)
  /\ NoFutureHistory(version)
  /\ hist' = {q \in hist : q.ver > r} \cup Checkpoint(r, Latest(r))
  /\ header' = [v \in DOMAIN header \ 0..r - 1 |-> header[v]]
  /\ floor' = r /\ pruned' = TRUE
  /\ cache' = StaleCaches
  /\ UNCHANGED <<version, closed, hashes, idem, mat, shadow,
                 faults, pc, prop, seen>>

MigrationSource ==
  /\ version > 0 /\ RetentionContract /\ floor = 0
  /\ DOMAIN header = {0} /\ hist = {}

PreviewMigration(c) ==
  /\ pc[c] = "ready"
  /\ MigrationSource /\ ClosedUnderEnds(mat)
  /\ seen' = [seen EXCEPT ![c].graph = mat]
  /\ prop' = [prop EXCEPT ![c].exp = version]
  /\ pc' = [pc EXCEPT ![c] = "migrate"]
  /\ UNCHANGED <<db, faults, cache>>

MigrateLegacy(c) ==
  /\ pc[c] = "migrate"
  /\ IF /\ MigrationSource /\ ClosedUnderEnds(mat)
        /\ version = prop[c].exp /\ mat = seen[c].graph
     THEN /\ hashes' = [hashes EXCEPT ![version] = mat]
          /\ header' = [v \in {version} |-> mat]
          /\ hist' = Checkpoint(version, mat)
          /\ floor' = version /\ pruned' = TRUE
          /\ cache' = StaleCaches
          /\ Finish(c)
     ELSE /\ Finish(c)
          /\ UNCHANGED <<hashes, header, hist, floor, pruned, cache>>
  /\ UNCHANGED <<version, closed, idem, mat, shadow, faults>>

(***************************************************************************)
(* What happens around the store: the lease is lost or reassigned, or an   *)
(* input artifact gets a newer version, and rows are edited by SQL that    *)
(* does not go through it.                                                 *)
(***************************************************************************)
LoseAuthority ==
  /\ \E c \in Clients : prop[c].holds
  /\ prop' = [c \in Clients |-> [prop[c] EXCEPT !.holds = FALSE]]
  /\ cache' = StaleCaches
  /\ UNCHANGED <<db, faults, pc, seen>>

Edited ==
  /\ faults < MaxFaults
  /\ faults' = faults + 1 /\ cache' = StaleCaches
  /\ UNCHANGED <<shadow, version, closed, idem, hashes, header,
                 pruned, pc, prop, seen>>

(* A projection row is rewritten, or evidence is staged in it, or          *)
(* delete_projection empties it. *)
EditProjection ==
  /\ Edited
  /\ \/ mat["task"] # 0 /\ mat' = [mat EXCEPT !["task"] = 3 - mat["task"]]
     \/ mat["evidence"] = 0 /\ mat' = [mat EXCEPT !["evidence"] = 1]
     \/ mat # Empty /\ mat' = Empty
  /\ UNCHANGED <<hist, floor>>

EditHistory ==
  /\ Edited
  /\ \/ /\ \E r \in hist : hist' = (hist \ {r}) \cup {[r EXCEPT !.val = 3 - r.val]}
        /\ UNCHANGED floor
     \/ floor # NoRow /\ floor' = NoRow /\ UNCHANGED hist
  /\ UNCHANGED mat

Next ==
  \/ \E c \in Clients :
       \/ Open(c) \/ Crash(c) \/ ReadRecord(c)
       \/ ReadEdges(c) \/ CommitPatch(c) \/ LoadForRecovery(c)
       \/ ReplaceProjection(c) \/ PreviewMigration(c) \/ MigrateLegacy(c)
       \/ \E op \in Ops, k \in Keys : Propose(c, op, k)
  \/ \E r \in 1..MaxVersion : CompactHistory(r)
  \/ LoseAuthority
  \/ CloseGraph
  \/ EditProjection \/ EditHistory

Spec == Init /\ [][Next]_vars
-----------------------------------------------------------------------------
TypeOK ==
  /\ version \in 0..MaxVersion /\ closed \in BOOLEAN
  /\ DOMAIN hashes = 0..version /\ DOMAIN header \subseteq 0..version
  /\ floor \in {NoRow} \cup 0..version /\ pruned \in BOOLEAN
  /\ DOMAIN idem \subseteq Keys
  /\ mat \in [Entities -> 0..2] /\ shadow \in [Entities -> 0..2]
  /\ cache \in [Clients -> [ver : NoRow..MaxVersion,
                            graph : [Entities -> 0..2]]]

(* commit_patch under concurrent writers, moved ownership, moved inputs    *)
(* and edited rows: the version advances only by one whole patch applied   *)
(* to the validated durable parent, for a key used once, by a caller       *)
(* whose version, lease and inputs are still the newest; nothing read from *)
(* a torn or edited projection, or from a stale cache, ever enters it.     *)
CommitsExtendHistory ==
  version' # version =>
       \E c \in Clients :
         /\ pc[c] = "commit" /\ ~closed /\ version' = version + 1
         /\ prop[c].exp = version /\ prop[c].key \notin DOMAIN idem
         /\ prop[c].holds
         /\ LoadProjectionSnapshot(version)
         /\ LoadProjectionSnapshot(version)'
         /\ \A x \in Entities \ Touched(prop[c].op) :
              Latest(version)'[x] = Latest(version)[x]
         /\ faults = 0 => Latest(version)' =
                           ApplyOp(prop[c].op, Latest(version))

(* No operation of the store rewrites a version it retains: commits,       *)
(* compaction, migrations, recovery and reopening leave the projection of  *)
(* every version from the floor up as it was; only edits made behind the   *)
(* store's back do not.                                                    *)
RetainedHistoryIsImmutable ==
  (faults' = faults /\ durable' # durable) =>
       \A v \in 0..version :
         (LoadProjectionSnapshot(v) /\ v >= floor')
           => (LoadProjectionSnapshot(v)' /\ Latest(v)' = Latest(v))

(* The materialized rows change only to what the newest durable version    *)
(* says (or with staged evidence besides): a recovery that loaded its      *)
(* snapshot before a commit does not undo it.                              *)
ProjectionFollowsHistory ==
  (mat' # mat /\ faults' = faults) =>
       \A x \in Entities \ {"evidence"} : mat'[x] = hashes'[version'][x]

(* Once history below a floor was pruned no reopening or migration brings  *)
(* version 0 back, though the retention row itself is lost: a damaged      *)
(* store stays unreadable instead of pretending to be complete.            *)
PrunedStaysPruned == pruned => (floor # 0 /\ 0 \notin DOMAIN header)
=============================================================================
