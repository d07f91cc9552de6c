---------------------------- MODULE ArtifactStore ----------------------------
(***************************************************************************)
(* The versioned artifact file system: ArtifactFSService, NamespaceService,*)
(* their projections and LocalArtifactStorageDriver.                       *)
(*                                                                         *)
(* The service is called by one thread and keeps nothing in memory, so an  *)
(* operation is the sequence of durable writes it makes: rows, staging     *)
(* files, content addressed blobs, leases and journal events.  A crash     *)
(* keeps a prefix of that sequence.  The tables are kept twice: as the     *)
(* service wrote them (live) and as a replay of the journal so far would   *)
(* rebuild them (rebuilt).                                                 *)
(***************************************************************************)
EXTENDS Integers, Sequences, FiniteSets, SequencesExt, TLC

CONSTANTS Pids,        \* the processes; a namespace is named by its process
          RawUris,     \* spellings of URIs callers use: [ns, segs], ns a pid or ""
          Allowed,     \* capabilities: {<<pid, namespace, operation>>}
          Contents, Size,         \* contents and their sizes
          Quotas, Keys,           \* quotas that may be set, idempotency keys
          Mounts, Watchers,       \* mounts and watches that may be made
          MaxTxns, MaxHandles, MaxOpen, MaxSnapshots, MaxCrashes   \* bounds

VARIABLES st,        \* the durable state, see Init
          crashes

vars == <<st, crashes>>

None == "none"

-----------------------------------------------------------------------------
(* URIs *)

(* canonicalize_uri: "." and empty segments vanish, ".." is refused and so *)
(* is a path with no segments left.                                        *)
Normal(segs) == SelectSeq(segs, LAMBDA s : s \notin {".", ""})

WellFormed(segs) == ".." \notin Range(segs) /\ Normal(segs) # <<>>

(* resolve_workspace_uri: a workspace URI without a namespace is the       *)
(* caller's.                                                               *)
Canonical(pid, raw) == [ns |-> IF raw.ns = "" THEN pid ELSE raw.ns, path |-> Normal(raw.segs)]

-----------------------------------------------------------------------------
(* Tables *)

EmptyTables ==
    [art |-> <<>>,      \* canonical URI -> [cur, deleted]
     ver |-> {},        \* [uri, v, ref, txn]
     txn |-> <<>>,      \* id -> [uri, pid, key, exp, ref, state]
     hnd |-> <<>>,      \* id -> [pid, uri, mode, lease, open]
     ns  |-> <<>>,      \* pid -> quota, -1 for none
     mnt |-> {}, watch |-> {}, snap |-> {}]

Put(f, k, v) == (k :> v) @@ f

UpsertArtifact(t, u, row) == [t EXCEPT !.art = Put(@, u, row)]

(* INSERT OR IGNORE on the key (artifact_id, version). *)
InsertVersion(t, row) ==
    IF \E r \in t.ver : r.uri = row.uri /\ r.v = row.v THEN t
    ELSE [t EXCEPT !.ver = @ \cup {row}]

UpsertTransaction(t, id, row) == [t EXCEPT !.txn = Put(@, id, row)]

UpsertHandle(t, id, row) == [t EXCEPT !.hnd = Put(@, id, row)]

UpsertNamespace(t, pid, quota) == [t EXCEPT !.ns = Put(@, pid, quota)]

Lookup(f, k) == IF k \in DOMAIN f THEN {f[k]} ELSE {}

CurrentVersion(t, u) == IF u \in DOMAIN t.art THEN t.art[u].cur ELSE 0

(* count_committed_bytes, over every version of the namespace. *)
CommittedBytes(t, n) ==
    LET rows == {r \in t.ver : r.uri.ns = n}
    IN  FoldSeq(LAMBDA r, sum : sum + Size[r.ref], 0, SetToSeq(rows))

(* ArtifactFSService.handle_event, the replay of one event. *)
HandleArtifactEvent(t, e) ==
    CASE e.type = "CREATED" -> UpsertArtifact(t, e.uri, [cur |-> 0, deleted |-> FALSE])
      [] e.type = "TXN" -> UpsertTransaction(t, e.id, e.row)
      [] e.type = "TXN_COMMITTED" ->
            LET t1 == InsertVersion(UpsertTransaction(t, e.id, e.row),
                                    [uri |-> e.row.uri, v |-> e.v, ref |-> e.row.ref, txn |-> e.id])
            IN  IF e.row.uri \notin DOMAIN t1.art THEN t1
                ELSE UpsertArtifact(t1, e.row.uri, [t1.art[e.row.uri] EXCEPT !.cur = e.v])
      [] e.type = "DELETED" ->
            IF e.uri \notin DOMAIN t.art THEN t
            ELSE UpsertArtifact(t, e.uri, [t.art[e.uri] EXCEPT !.deleted = TRUE])
      [] e.type = "HANDLE_OPENED" -> UpsertHandle(t, e.id, e.row)
      [] e.type = "HANDLE_CLOSED" ->
            IF e.id \notin DOMAIN t.hnd THEN t ELSE UpsertHandle(t, e.id, [t.hnd[e.id] EXCEPT !.open = FALSE])
      [] e.type = "WATCH_REGISTERED" -> [t EXCEPT !.watch = @ \cup {e.watch}]

(* NamespaceService.handle_event. *)
HandleNamespaceEvent(t, e) ==
    CASE e.type \in {"NAMESPACE_CREATED", "QUOTA_SET"} -> UpsertNamespace(t, e.pid, e.quota)
      [] e.type = "MOUNT_CREATED" -> [t EXCEPT !.mnt = @ \cup {e.mount}]
      [] e.type = "MOUNT_REMOVED" -> [t EXCEPT !.mnt = @ \ {e.mount}]
      [] e.type = "SNAPSHOT_CREATED" -> [t EXCEPT !.snap = @ \cup {e.snap}]

NamespaceEvents == {"NAMESPACE_CREATED", "QUOTA_SET", "MOUNT_CREATED", "MOUNT_REMOVED", "SNAPSHOT_CREATED"}

-----------------------------------------------------------------------------
(* Durable writes *)

Write(op, body) == [op |-> op] @@ body

Event(e) == Write("event", [event |-> e])

Apply(w, s) ==
    CASE w.op = "artifact" -> [s EXCEPT !.live = UpsertArtifact(@, w.uri, w.row)]
      [] w.op = "version"  -> [s EXCEPT !.live = InsertVersion(@, w.row)]
      [] w.op = "txn"      -> [s EXCEPT !.live = UpsertTransaction(@, w.id, w.row)]
      [] w.op = "handle"   -> [s EXCEPT !.live = UpsertHandle(@, w.id, w.row)]
      [] w.op = "ns"       -> [s EXCEPT !.live = UpsertNamespace(@, w.pid, w.quota)]
      [] w.op = "mnt"      -> [s EXCEPT !.live.mnt = w.set]
      [] w.op = "watch"    -> [s EXCEPT !.live.watch = w.set]
      [] w.op = "snap"     -> [s EXCEPT !.live.snap = @ \cup {w.snap}]
      [] w.op = "stage"    -> [s EXCEPT !.staging = Put(@, w.id, w.content)]
      [] w.op = "unstage"  -> [s EXCEPT !.staging = [k \in DOMAIN @ \ {w.id} |-> @[k]]]
      [] w.op = "cas"      -> [s EXCEPT !.cas = @ \cup {w.content}]
      [] w.op = "acquire"  -> [s EXCEPT !.leases = @ \cup {[res |-> w.res, pid |-> w.pid]}]
      [] w.op = "release"  -> [s EXCEPT !.leases = {l \in @ : l.res # w.res}]
      [] w.op = "signal"   -> [s EXCEPT !.inbox = @ \cup {w.signal}]
      [] w.op = "event"    -> [s EXCEPT !.rebuilt = IF w.event.type \in NamespaceEvents
                                                    THEN HandleNamespaceEvent(@, w.event)
                                                    ELSE HandleArtifactEvent(@, w.event)]

After(s, ws) == FoldLeft(LAMBDA acc, w : Apply(w, acc), s, ws)

(* An operation runs to its end, or the process dies between two writes. *)
Perform(ws) ==
    \/ st' = After(st, ws) /\ UNCHANGED crashes
    \/ /\ crashes < MaxCrashes /\ crashes' = crashes + 1
       /\ \E k \in 1..Len(ws) - 1 : st' = After(st, SubSeq(ws, 1, k))

Init ==
    /\ st = [live |-> EmptyTables, rebuilt |-> EmptyTables, staging |-> <<>>, cas |-> {}, leases |-> {}, inbox |-> {}]
    /\ crashes = 0

T == st.live

-----------------------------------------------------------------------------
(* Resolution and reading *)

Covers(m, path) == IsPrefix(m.point, path)

(* The mount with the longest matching mount point; "private" mounts route *)
(* nothing.                                                                *)
MountFor(pid, path) ==
    LET best == {m \in T.mnt : m.ns = pid /\ Covers(m, path)
                              /\ \A n \in T.mnt : n.ns = pid /\ Covers(n, path) => Len(n.point) <= Len(m.point)}
    IN  {m \in best : m.mode # "private"}

Absent(u) == \A a \in Lookup(T.art, u) : a.deleted

Granted(pid, n, op) == <<pid, n, op>> \in Allowed

(* _resolve_and_check: the URI the operation acts on, {} when refused.  A  *)
(* read of a path the caller's namespace lacks follows a mount, and needs  *)
(* the capability of the namespace it leads to.                            *)
ResolveAndCheck(pid, raw, op) ==
    LET own == Canonical(pid, raw)
        via == IF op = "read" /\ own.ns = pid /\ Absent(own) THEN MountFor(pid, own.path) ELSE {}
        to  == IF via = {} THEN {own}
               ELSE {[ns |-> m.source, path |-> m.prefix \o SubSeq(own.path, Len(m.point) + 1, Len(own.path))] : m \in via}
    IN  IF ~WellFormed(raw.segs) \/ ~Granted(pid, own.ns, op) THEN {}
        ELSE {u \in to : Granted(pid, u.ns, op)}

(* read with no version: the row of the current version, "missing" when    *)
(* the artifact has one and its row or its content is not there.           *)
Read(pid, raw) ==
    {LET rows == {r \in T.ver : r.uri = u /\ r.v = T.art[u].cur /\ r.ref \in st.cas}
     IN  IF rows = {} THEN None ELSE (CHOOSE r \in rows : TRUE).ref :
     u \in {x \in ResolveAndCheck(pid, raw, "read") : ~Absent(x) /\ CurrentVersion(T, x) > 0}}

-----------------------------------------------------------------------------
(* Namespaces *)

CreateNamespace(pid, quota) ==
    /\ pid \notin DOMAIN T.ns
    /\ Perform(<<Write("ns", [pid |-> pid, quota |-> quota]),
                 Event([type |-> "NAMESPACE_CREATED", pid |-> pid, quota |-> quota])>>)

SetQuota(pid, quota) ==
    /\ pid \in DOMAIN T.ns
    /\ Perform(<<Write("ns", [pid |-> pid, quota |-> quota]),
                 Event([type |-> "QUOTA_SET", pid |-> pid, quota |-> quota])>>)

Mount(m) ==
    /\ m.ns \in DOMAIN T.ns /\ m \notin T.mnt
    /\ Perform(<<Write("mnt", [set |-> T.mnt \cup {m}]), Event([type |-> "MOUNT_CREATED", mount |-> m])>>)

Unmount(m) ==
    /\ m \in T.mnt
    /\ Perform(<<Write("mnt", [set |-> T.mnt \ {m}]), Event([type |-> "MOUNT_REMOVED", mount |-> m])>>)

(* create_snapshot: the current version of every live artifact and the     *)
(* content it refers to.                                                   *)
Manifest(pid) ==
    {[uri |-> u, v |-> T.art[u].cur, refs |-> {r.ref : r \in {x \in T.ver : x.uri = u /\ x.v = T.art[u].cur}}] :
        u \in {x \in DOMAIN T.art : x.ns = pid /\ ~T.art[x].deleted /\ T.art[x].cur > 0}}

CreateSnapshot(pid) ==
    LET snap == [ns |-> pid, at |-> Manifest(pid)]
    IN  /\ pid \in DOMAIN T.ns /\ Cardinality(T.snap) < MaxSnapshots
        /\ Perform(<<Write("snap", [snap |-> snap]), Event([type |-> "SNAPSHOT_CREATED", snap |-> snap])>>)

-----------------------------------------------------------------------------
(* Handles *)

NewHandle == Cardinality(DOMAIN T.hnd) + 1

(* _create_artifact_record, when the artifact is not there; the caller has *)
(* checked that its namespace exists.                                      *)
CreateRecord(u) ==
    IF u \in DOMAIN T.art THEN <<>>
    ELSE <<Write("artifact", [uri |-> u, row |-> [cur |-> 0, deleted |-> FALSE]]), Event([type |-> "CREATED", uri |-> u])>>

(* The lease of a write handle is on the artifact's identifier.  For an    *)
(* artifact that does not exist it is taken before the record is made, on  *)
(* the identifier of a placeholder record that is then dropped.            *)
LeaseResource(u) == <<IF u \in DOMAIN T.art THEN "record" ELSE "placeholder", u>>

OpenHandles(pid) == {h \in DOMAIN T.hnd : T.hnd[h].pid = pid /\ T.hnd[h].open}

Open(pid, raw, mode) ==
    \E u \in ResolveAndCheck(pid, raw, IF mode = "read" THEN "read" ELSE "write") :
        LET res == LeaseResource(u)
            row == [pid |-> pid, uri |-> u, mode |-> mode, lease |-> IF mode = "read" THEN {} ELSE {res}, open |-> TRUE]
            take == IF mode = "read" THEN <<>> ELSE <<Write("acquire", [res |-> res, pid |-> pid])>>
            make == CreateRecord(u)
            note == <<Write("handle", [id |-> NewHandle, row |-> row]), Event([type |-> "HANDLE_OPENED", id |-> NewHandle, row |-> row])>>
        IN  /\ Cardinality(OpenHandles(pid)) < MaxOpen /\ NewHandle <= MaxHandles
            /\ mode = "read" => u \in DOMAIN T.art
            /\ mode # "read" => \A l \in st.leases : l.res # res
            /\ u \in DOMAIN T.art \/ u.ns \in DOMAIN T.ns
            /\ Perform(take \o make \o note)

(* The record of a namespace that does not exist is refused after the      *)
(* placeholder's lease was taken: the lease stays.                         *)
OpenRefused(pid, raw) ==
    \E u \in ResolveAndCheck(pid, raw, "write") :
        /\ Cardinality(OpenHandles(pid)) < MaxOpen /\ MaxHandles > 0
        /\ u \notin DOMAIN T.art /\ u.ns \notin DOMAIN T.ns
        /\ \A l \in st.leases : l.res # LeaseResource(u)
        /\ Perform(<<Write("acquire", [res |-> LeaseResource(u), pid |-> pid])>>)

CloseWrites(h) ==
    <<Write("handle", [id |-> h, row |-> [T.hnd[h] EXCEPT !.open = FALSE]])>>
    \o [i \in 1..Cardinality(T.hnd[h].lease) |-> Write("release", [res |-> SetToSeq(T.hnd[h].lease)[i]])]
    \o <<Event([type |-> "HANDLE_CLOSED", id |-> h])>>

Close(h) == T.hnd[h].open /\ Perform(CloseWrites(h))

CloseAllForPid(pid) ==
    /\ OpenHandles(pid) # {}
    /\ Perform(FlattenSeq([i \in 1..Cardinality(OpenHandles(pid)) |-> CloseWrites(SetToSeq(OpenHandles(pid))[i])]))

-----------------------------------------------------------------------------
(* Write transactions *)

NewTxn == Cardinality(DOMAIN T.txn) + 1

SameRequest(u, pid, key) == {t \in DOMAIN T.txn : T.txn[t].uri = u /\ T.txn[t].pid = pid /\ T.txn[t].key = key}

(* begin_write of a new request; a known key is answered without a write.  *)
BeginWrite(pid, raw, key) ==
    \E u \in ResolveAndCheck(pid, raw, "write") :
        LET row == [uri |-> u, pid |-> pid, key |-> key, exp |-> CurrentVersion(T, u), ref |-> None, state |-> "open"]
        IN  /\ u \in DOMAIN T.art \/ u.ns \in DOMAIN T.ns
            /\ SameRequest(u, pid, key) = {} /\ NewTxn <= MaxTxns
            /\ Perform(CreateRecord(u) \o <<Write("txn", [id |-> NewTxn, row |-> row]),
                                            Event([type |-> "TXN", id |-> NewTxn, row |-> row])>>)

(* An expected version other than the current one: the conflict is raised  *)
(* after the record was made.                                              *)
BeginConflicts(pid, raw) ==
    \E u \in ResolveAndCheck(pid, raw, "write") :
        /\ u \notin DOMAIN T.art /\ u.ns \in DOMAIN T.ns
        /\ Perform(CreateRecord(u))

OverQuota(u, c) ==
    \E q \in Lookup(T.ns, u.ns) : q >= 0 /\ CommittedBytes(T, u.ns) + Size[c] > q

SetState(t, row) == <<Write("txn", [id |-> t, row |-> row]), Event([type |-> "TXN", id |-> t, row |-> row])>>

(* LocalArtifactStorageDriver.stage and abort. *)
StageFile(t, c) == <<Write("stage", [id |-> t, content |-> c])>>

RemoveStaged(t) == <<Write("unstage", [id |-> t])>>

(* stage: the file is written first; content over the quota is removed     *)
(* again and the transaction keeps the state and reference it had.         *)
Stage(t, c) ==
    /\ T.txn[t].state \in {"open", "staged", "uncertain"}
    /\ Perform(StageFile(t, c) \o IF OverQuota(T.txn[t].uri, c) THEN RemoveStaged(t)
                                  ELSE SetState(t, [T.txn[t] EXCEPT !.ref = c, !.state = "staged"]))

(* LocalArtifactStorageDriver.commit: the staging file becomes the blob of *)
(* its content.  Across devices the two writes are apart.                  *)
DriverCommit(t) == <<Write("cas", [content |-> st.staging[t]])>> \o RemoveStaged(t)

(* _notify_watches: a signal to every other process that watches the URI.  *)
NotifyWatches(u, v, pid) ==
    LET hit == {w \in T.watch : w.pid # pid /\ w.ns = u.ns /\ IsPrefix(w.path, u.path)}
    IN  [i \in 1..Cardinality(hit) |-> Write("signal", [signal |-> <<SetToSeq(hit)[i].pid, u, v>>])]

(* Steps 3 to 8 of commit: blob, version, artifact, transaction, event and *)
(* signals.                                                                *)
CommitWrites_ArtifactFirst(t, ref) ==
    LET x == T.txn[t] new == CurrentVersion(T, x.uri) + 1 done == [x EXCEPT !.state = "committed"]
    IN  (IF t \in DOMAIN st.staging THEN DriverCommit(t) ELSE <<>>)
        \o <<Write("artifact", [uri |-> x.uri, row |-> [T.art[x.uri] EXCEPT !.cur = new]]),
             Write("version", [row |-> [uri |-> x.uri, v |-> new, ref |-> ref, txn |-> t]]),
             Write("txn", [id |-> t, row |-> done]),
             Event([type |-> "TXN_COMMITTED", id |-> t, row |-> done, v |-> new])>>
        \o NotifyWatches(x.uri, new, x.pid)

CommitWrites(t, ref) ==
    LET x == T.txn[t] new == CurrentVersion(T, x.uri) + 1 done == [x EXCEPT !.state = "committed"]
    IN  (IF t \in DOMAIN st.staging THEN DriverCommit(t) ELSE <<>>)
        \o <<Write("version", [row |-> [uri |-> x.uri, v |-> new, ref |-> ref, txn |-> t]]),
             Write("artifact", [uri |-> x.uri, row |-> [T.art[x.uri] EXCEPT !.cur = new]]),
             Write("txn", [id |-> t, row |-> done]),
             Event([type |-> "TXN_COMMITTED", id |-> t, row |-> done, v |-> new])>>
        \o NotifyWatches(x.uri, new, x.pid)

(* commit: a newer version is a conflict; content neither staged nor in    *)
(* the store makes the transaction uncertain.                              *)
Commit(t) ==
    LET x == T.txn[t] ref == IF t \in DOMAIN st.staging THEN st.staging[t] ELSE x.ref
    IN  /\ x.state = "staged"
        /\ Perform(IF CurrentVersion(T, x.uri) # x.exp
                   THEN LET out == SetState(t, [x EXCEPT !.state = "conflicted"])
                        IN  <<out[1]>> \o RemoveStaged(t) \o <<out[2]>>
                   ELSE IF t \notin DOMAIN st.staging /\ ref \notin st.cas
                   THEN SetState(t, [x EXCEPT !.state = "uncertain"])
                   ELSE CommitWrites(t, ref))

Abort(t) ==
    /\ T.txn[t].state \notin {"committed", "aborted"}
    /\ Perform(RemoveStaged(t) \o SetState(t, [T.txn[t] EXCEPT !.state = "aborted"]))

(* LocalArtifactStorageDriver.reset: every staging file is removed. *)
ResetDriver ==
    /\ DOMAIN st.staging # {}
    /\ st' = [st EXCEPT !.staging = <<>>] /\ UNCHANGED crashes

Delete_Unjournaled(pid, raw) ==
    \E u \in ResolveAndCheck(pid, raw, "write") :
        /\ u \in DOMAIN T.art
        /\ Perform(<<Write("artifact", [uri |-> u, row |-> [T.art[u] EXCEPT !.deleted = TRUE]])>>)

Delete(pid, raw) ==
    \E u \in ResolveAndCheck(pid, raw, "write") :
        /\ u \in DOMAIN T.art
        /\ Perform(<<Write("artifact", [uri |-> u, row |-> [T.art[u] EXCEPT !.deleted = TRUE]]), Event([type |-> "DELETED", uri |-> u])>>)

-----------------------------------------------------------------------------
(* Recovery and watches *)

(* recover, one uncertain transaction in the tables t: committed when the  *)
(* store has its content, with a version unless it already has one.        *)
Resolve(t, id) ==
    LET x == t.txn[id] new == CurrentVersion(t, x.uri) + 1 has == \E r \in t.ver : r.txn = id
    IN  IF x.ref \notin st.cas THEN <<Write("txn", [id |-> id, row |-> [x EXCEPT !.state = "aborted"]])>>
        ELSE (IF has THEN <<>>
              ELSE <<Write("version", [row |-> [uri |-> x.uri, v |-> new, ref |-> x.ref, txn |-> id]]),
                     Write("artifact", [uri |-> x.uri, row |-> [t.art[x.uri] EXCEPT !.cur = new]])>>)
             \o <<Write("txn", [id |-> id, row |-> [x EXCEPT !.state = "committed"]])>>

Uncertain == {t \in DOMAIN T.txn : T.txn[t].state = "uncertain"}

(* The uncertain transactions in order; none of this is journaled. *)
Recover ==
    /\ Uncertain # {}
    /\ Perform(FoldLeft(LAMBDA ws, id : ws \o Resolve(After(st, ws).live, id), <<>>, SetToSortSeq(Uncertain, <)))

Watch(w) ==
    /\ w \notin T.watch
    /\ Perform(<<Write("watch", [set |-> T.watch \cup {w}]), Event([type |-> "WATCH_REGISTERED", watch |-> w])>>)

Unwatch(w) == w \in T.watch /\ Perform(<<Write("watch", [set |-> T.watch \ {w}])>>)

-----------------------------------------------------------------------------
Next ==
    \/ \E p \in Pids, q \in Quotas : CreateNamespace(p, q) \/ SetQuota(p, q)
    \/ \E m \in Mounts : Mount(m) \/ Unmount(m)
    \/ \E p \in Pids : CreateSnapshot(p) \/ CloseAllForPid(p)
    \/ \E p \in Pids, r \in RawUris, mode \in {"read", "write"} : Open(p, r, mode)
    \/ \E p \in Pids, r \in RawUris : OpenRefused(p, r) \/ BeginConflicts(p, r) \/ Delete(p, r)
    \/ \E h \in DOMAIN T.hnd : Close(h)
    \/ \E p \in Pids, r \in RawUris, k \in Keys : BeginWrite(p, r, k)
    \/ \E t \in DOMAIN T.txn : Commit(t) \/ Abort(t) \/ \E c \in Contents : Stage(t, c)
    \/ ResetDriver
    \/ Recover
    \/ \E w \in Watchers : Watch(w) \/ Unwatch(w)

Spec == Init /\ [][Next]_vars

-----------------------------------------------------------------------------
(* Properties *)

(* An artifact that can be opened for reading can be read: through every   *)
(* spelling and mount, whatever step of a commit or of a recovery the      *)
(* process died after, the current version has its row and its content.    *)
(* No transaction is stored under two versions, and a snapshot's content   *)
(* stays what it was.                                                      *)
CurrentIsReadable ==
    /\ \A p \in Pids, r \in RawUris : None \notin Read(p, r)
    /\ \A x, y \in T.ver : x.txn = y.txn => x = y
    /\ \A s \in T.snap : \A e \in s.at : e.refs # {} /\ \A r \in T.ver : r.uri = e.uri /\ r.v = e.v => r.ref \in e.refs

(* A replay of the journal rebuilds the tables, when no process died and   *)
(* no transaction was left to recovery, whose results are not journaled.   *)
(* A watch that was given up comes back.                                   *)
JournalRebuilds ==
    crashes = 0 /\ (\A t \in DOMAIN st.rebuilt.txn : st.rebuilt.txn[t].state # "uncertain")
        => /\ [st.live EXCEPT !.watch = {}] = [st.rebuilt EXCEPT !.watch = {}]
           /\ st.live.watch \subseteq st.rebuilt.watch

=============================================================================
