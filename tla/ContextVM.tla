------------------------------ MODULE ContextVM ------------------------------
(***************************************************************************)
(* The Context VM: ContextService with its pager and its two selection     *)
(* policies.  A manifest names byte ranges of committed artifact versions  *)
(* and budgets; load verifies, paginates, selects and materialises them.   *)
(*                                                                         *)
(* The service is synchronous and keeps its state in memory.  The bytes    *)
(* come from an artifact store other processes can damage at any time:     *)
(* load reads each version once, restore_snapshot reads it twice.  Byte    *)
(* contents are abstracted to whether they are the committed ones.         *)
(***************************************************************************)
EXTENDS Integers, Sequences, FiniteSets, SequencesExt

CONSTANTS Pids,
          Length,      \* version -> length in bytes
          Manifests,   \* [owner, refs, tokens, bytes, page, policy, readset], bytes -1 for no
                       \* limit, a ref [id, ver, from, to, prio, required, recoverable]
          Keys,        \* idempotency keys; "" is none
          Targets,     \* token targets of evictions
          PinVersions, \* versions whose pages callers pin
          MaxHandles, MaxSnaps, MaxPins, MaxDamage   \* bounds

VARIABLES content,   \* version -> "good", "bad" or "missing"
          handles,   \* every ContextHandle with its LoadedContext
          pins,      \* _pin_counts
          snaps,     \* ContextSnapshots
          idem,      \* _idem_load, _idem_snapshot and _idem_restore
          restoring, \* the restore_snapshot call in progress, or {}
          damage

vars == <<content, handles, pins, snaps, idem, restoring, damage>>

Ceil(a, b) == (a + b - 1) \div b

-----------------------------------------------------------------------------
(* Pages *)

(* DeterministicByteTokenEstimator.estimate of a text of n bytes. *)
Estimate(n) == Ceil(IF n = 0 THEN 1 ELSE n, 4)

(* compute_pages_for_ref: the range cut into pages; an empty range is one  *)
(* empty page.  A page's id is its version, range, size and index, not its *)
(* ref: refs that overlap can share an id, and differ in required.         *)
PagesOf(r, size) ==
    LET n == r.to - r.from
    IN  [i \in 1..(IF n = 0 THEN 1 ELSE Ceil(n, size)) |->
            LET s == (i - 1) * size  e == IF i * size < n THEN i * size ELSE n
            IN  [id |-> [ver |-> r.ver, from |-> r.from + s, to |-> r.from + e, size |-> size, index |-> i],
                 required |-> r.required]]

Tokens(r, size) == FoldSeq(LAMBDA p, sum : sum + Estimate(p.id.to - p.id.from), 0, PagesOf(r, size))

Bytes(r) == r.to - r.from

-----------------------------------------------------------------------------
(* Selection *)

(* _ref_sort_key and _lifecycle_keep_sort_key, lower kept first.  The      *)
(* canonical URI and version of a ref are the order of ver.                *)
KeepKey(r, m) ==
    <<IF r.required THEN 0 ELSE 1, -r.prio>>
    \o (IF m.policy = "lifecycle"
        THEN <<IF r.id \in m.readset THEN 0 ELSE 1, IF r.recoverable THEN 1 ELSE 0>> ELSE <<>>)
    \o <<r.ver, r.from, r.id>>

Before(a, b) == \E i \in 1..Len(a) : a[i] < b[i] /\ \A j \in 1..i - 1 : a[j] = b[j]

SortRefs(m) == SetToSortSeq(m.refs, LAMBDA q, r : Before(KeepKey(q, m), KeepKey(r, m)))

Fits(m, tokens, bytes) == tokens <= m.tokens /\ (m.bytes < 0 \/ bytes <= m.bytes)

CostOf(m, refs) ==
    FoldSeq(LAMBDA r, c : [t |-> c.t + Tokens(r, m.page), b |-> c.b + Bytes(r)], [t |-> 0, b |-> 0], SetToSeq(refs))

Required(m) == {r \in m.refs : r.required}

(* select_pages_v1 and select_pages_lifecycle_v1: a ref is taken whole, in *)
(* keep order, when it still fits; required refs were checked together.    *)
TakeRef_TokensOnly(m, sel, r) ==
    LET t == sel.t + Tokens(r, m.page)  b == sel.b + Bytes(r)
    IN  IF ~r.required /\ t > m.tokens THEN sel
        ELSE [kept |-> Append(sel.kept, r), t |-> t, b |-> b]

TakeRef(m, sel, r) ==
    LET t == sel.t + Tokens(r, m.page)  b == sel.b + Bytes(r)
    IN  IF ~r.required /\ ~Fits(m, t, b) THEN sel
        ELSE [kept |-> Append(sel.kept, r), t |-> t, b |-> b]

SelectPages(m) == FoldLeft(LAMBDA sel, r : TakeRef(m, sel, r), [kept |-> <<>>, t |-> 0, b |-> 0], SortRefs(m))

-----------------------------------------------------------------------------
(* The service *)

Init ==
    /\ content = [v \in DOMAIN Length |-> "good"] /\ handles = <<>> /\ pins = {}
    /\ snaps = <<>> /\ idem = {} /\ restoring = {} /\ damage = 0

PinCount(p) == LET c == {x \in pins : x.page = p} IN IF c = {} THEN 0 ELSE (CHOOSE x \in c : TRUE).n

SetPins(f, pages) == {x \in pins : x.page \notin pages} \cup {[page |-> p, n |-> f[p]] : p \in pages}

(* validate_manifest and _resolve_and_verify_ref: the caller owns the      *)
(* manifest, and every version is there with the declared hash.            *)
Loadable(m, pid) ==
    /\ m.owner = pid
    /\ \A r \in m.refs : content[r.ver] = "good" /\ 0 <= r.from /\ r.from <= r.to /\ r.to <= Length[r.ver]
    /\ LET c == CostOf(m, Required(m)) IN Fits(m, c.t, c.b)

(* _materialize: the selected pages with the bytes the load's cache holds. *)
Materialize(m) ==
    LET sel == SelectPages(m)
    IN  [pages |-> FlattenSeq([i \in 1..Len(sel.kept) |-> PagesOf(sel.kept[i], m.page)]),
         seen |-> [i \in 1..Len(sel.kept) |-> content[sel.kept[i].ver]],
         refs |-> Range(sel.kept), t |-> sel.t, b |-> sel.b, man |-> {m}]

NewHandle(pid, ctx) == [pid |-> pid, ctx |-> ctx, pinned |-> {}, open |-> TRUE]

Remember(kind, pid, of, key, n) == IF key = "" THEN idem ELSE idem \cup {[kind |-> kind, pid |-> pid, of |-> of, key |-> key, n |-> n]}

Known(kind, pid, of, key) == key # "" /\ \E i \in idem : i.kind = kind /\ i.pid = pid /\ i.of = of /\ i.key = key

(* load; a known idempotency key is answered with the handle it made. *)
Load(pid, m, key) ==
    /\ restoring = {} /\ Len(handles) < MaxHandles
    /\ Loadable(m, pid) /\ ~Known("load", pid, m, key)
    /\ handles' = Append(handles, NewHandle(pid, Materialize(m)))
    /\ idem' = Remember("load", pid, m, key, Len(handles) + 1)
    /\ UNCHANGED <<content, pins, snaps, restoring, damage>>

Usable(pid, h) == restoring = {} /\ handles[h].pid = pid /\ handles[h].open

(* pin: every call counts, the handle remembers a set. *)
Pin(pid, h, pages) ==
    /\ Usable(pid, h)
    /\ \A p \in pages : PinCount(p) < MaxPins
    /\ pins' = SetPins([p \in pages |-> PinCount(p) + 1], pages)
    /\ handles' = [handles EXCEPT ![h].pinned = @ \cup pages]
    /\ UNCHANGED <<content, snaps, idem, restoring, damage>>

Unpinned(pages) == SetPins([p \in pages |-> IF PinCount(p) > 0 THEN PinCount(p) - 1 ELSE 0], pages)

Unpin(pid, h, pages) ==
    /\ Usable(pid, h)
    /\ pins' = Unpinned(pages)
    /\ handles' = [handles EXCEPT ![h].pinned = @ \ pages]
    /\ UNCHANGED <<content, snaps, idem, restoring, damage>>

Close(pid, h) ==
    /\ Usable(pid, h)
    /\ pins' = Unpinned(handles[h].pinned)
    /\ handles' = [handles EXCEPT ![h].open = FALSE]
    /\ UNCHANGED <<content, snaps, idem, restoring, damage>>

(* cleanup_process closes every open handle of a process, one by one. *)
CleanupProcess(pid) ==
    LET open == {h \in 1..Len(handles) : handles[h].pid = pid /\ handles[h].open}
        held(p) == Cardinality({h \in open : p \in handles[h].pinned})
        pages == UNION {handles[h].pinned : h \in open}
    IN  /\ restoring = {} /\ open # {}
        /\ pins' = SetPins([p \in pages |-> IF PinCount(p) > held(p) THEN PinCount(p) - held(p) ELSE 0], pages)
        /\ handles' = [h \in 1..Len(handles) |-> IF h \in open THEN [handles[h] EXCEPT !.open = FALSE] ELSE handles[h]]
        /\ UNCHANGED <<content, snaps, idem, restoring, damage>>

(* The pages of a context, by position, that are not required and whose id *)
(* nobody pins, cheapest first.  The order of the id hashes is taken to be *)
(* that of the ids' fields.  A page of a restored context costs nothing.   *)
EvictionCost(ctx, i) == IF ctx.man = {} THEN 0 ELSE Estimate(ctx.pages[i].id.to - ctx.pages[i].id.from)

EvictOrder(ctx, i) ==
    LET p == ctx.pages[i].id IN <<EvictionCost(ctx, i), p.ver, p.from, p.to, p.index, i>>

Evictable(ctx) == {i \in 1..Len(ctx.pages) : ~ctx.pages[i].required /\ PinCount(ctx.pages[i].id) = 0}

Candidates(ctx) == SetToSortSeq(Evictable(ctx), LAMBDA i, j : Before(EvictOrder(ctx, i), EvictOrder(ctx, j)))

(* evict takes candidates until the target is freed.  It only reports      *)
(* their ids: neither the working set nor the context changes.             *)
Evicted(h, target) ==
    LET ctx == handles[h].ctx
        take(acc, i) == IF acc.freed >= target THEN acc
                        ELSE [out |-> acc.out \cup {i}, freed |-> acc.freed + EvictionCost(ctx, i)]
    IN  FoldLeft(take, [out |-> {}, freed |-> 0], Candidates(ctx))

(* snapshot: the bindings of a context, of a closed handle too. *)
Snapshot(pid, h, key) ==
    /\ restoring = {} /\ handles[h].pid = pid /\ Len(snaps) < MaxSnaps /\ ~Known("snapshot", pid, h, key)
    /\ snaps' = Append(snaps, [pid |-> pid, ctx |-> handles[h].ctx])
    /\ idem' = Remember("snapshot", pid, h, key, Len(snaps) + 1)
    /\ UNCHANGED <<content, handles, pins, restoring, damage>>

(* restore_snapshot, first pass: every binding is verified. *)
Versions(s) == {p.id.ver : p \in Range(snaps[s].ctx.pages)}

RestoreVerify(pid, s, key) ==
    /\ restoring = {} /\ Len(handles) < MaxHandles
    /\ snaps[s].pid = pid /\ ~Known("restore", pid, s, key)
    /\ \A v \in Versions(s) : content[v] = "good"
    /\ restoring' = {[s |-> s, key |-> key]}
    /\ UNCHANGED <<content, handles, pins, snaps, idem, damage>>

(* The second pass reads the bytes again, and compares the hash of what it *)
(* materialised with the snapshot's.                                       *)
HashMatches_Unchecked(s) == \A v \in Versions(s) : content[v] # "missing"

HashMatches(s) == \A v \in Versions(s) : content[v] = "good"

RestoreMaterialize ==
    \E x \in restoring :
        LET ctx == snaps[x.s].ctx
            again == [ctx EXCEPT !.seen = [i \in DOMAIN ctx.seen |->
                         IF \A v \in Versions(x.s) : content[v] = "good" THEN "good" ELSE "bad"], !.refs = {}, !.man = {},
                         !.pages = [i \in DOMAIN @ |-> [@[i] EXCEPT !.required = FALSE]]]
        IN  /\ restoring' = {}
            /\ IF HashMatches(x.s)
               THEN /\ handles' = Append(handles, NewHandle(snaps[x.s].pid, again))
                    /\ idem' = Remember("restore", snaps[x.s].pid, x.s, x.key, Len(handles) + 1)
               ELSE UNCHANGED <<handles, idem>>
            /\ UNCHANGED <<content, pins, snaps, damage>>

(* The artifact store loses or alters a committed version. *)
Damage(v, how) ==
    /\ damage < MaxDamage /\ content[v] # how
    /\ content' = [content EXCEPT ![v] = how] /\ damage' = damage + 1
    /\ UNCHANGED <<handles, pins, snaps, idem, restoring>>

-----------------------------------------------------------------------------
PageSets(h) == {{p.id} : p \in {q \in Range(handles[h].ctx.pages) : q.id.ver \in PinVersions}}

Next ==
    \/ \E p \in Pids, m \in Manifests, k \in Keys : Load(p, m, k)
    \/ \E p \in Pids : CleanupProcess(p)
    \/ \E p \in Pids, h \in 1..Len(handles) :
          \/ Close(p, h)
          \/ \E ps \in PageSets(h) : Pin(p, h, ps) \/ Unpin(p, h, ps)
          \/ \E k \in Keys : Snapshot(p, h, k)
    \/ \E p \in Pids, s \in 1..Len(snaps), k \in Keys : RestoreVerify(p, s, k)
    \/ RestoreMaterialize
    \/ \E v \in DOMAIN Length, how \in {"good", "bad", "missing"} : Damage(v, how)

Spec == Init /\ [][Next]_vars

-----------------------------------------------------------------------------
(* Properties *)

(* What a process reads from a context is what its manifest asked for and  *)
(* what was committed: the pages tile the kept refs, each byte as often as *)
(* refs name it, every required ref is there, an optional ref is missing   *)
(* only when it does not fit with the kept refs that rank before it, and   *)
(* no page shows damaged bytes, even when the store changed between the    *)
(* two passes of a restore.  An eviction frees its target or all it can,   *)
(* and no page more; it names a required page of a loaded context only by  *)
(* the id that page shares with a page of an overlapping optional ref.     *)
ContextsAreExact ==
    \A h \in 1..Len(handles) :
        LET c == handles[h].ctx
            covers(f, t, b) == f <= b /\ b < t
        IN  /\ \A t \in Targets :
                LET e == Evicted(h, t)
                IN  /\ e.freed < t => e.out = Evictable(c)
                    /\ e.out = {} \/ \E i \in e.out : e.freed - EvictionCost(c, i) < t
                    /\ \A i \in 1..Len(c.pages) :
                          c.pages[i].required /\ c.pages[i].id \in {c.pages[j].id : j \in e.out}
                            => \E q, r \in c.refs : q # r /\ ~q.required /\ r.required /\ q.ver = r.ver
                                                      /\ covers(q.from, q.to, c.pages[i].id.from)
                                                      /\ covers(r.from, r.to, c.pages[i].id.from)
            /\ \A i \in DOMAIN c.seen : c.seen[i] = "good"
            /\ \A m \in c.man :
                /\ Required(m) \subseteq c.refs /\ Fits(m, c.t, c.b)
                /\ \A r \in m.refs \ c.refs :
                      LET cost == CostOf(m, {q \in c.refs : Before(KeepKey(q, m), KeepKey(r, m))} \cup {r})
                      IN  ~Fits(m, cost.t, cost.b)
                /\ \A r \in c.refs : \A b \in r.from..r.to - 1 :
                      Cardinality({i \in 1..Len(c.pages) :
                          c.pages[i].id.ver = r.ver /\ covers(c.pages[i].id.from, c.pages[i].id.to, b)})
                        = Cardinality({q \in c.refs : q.ver = r.ver /\ covers(q.from, q.to, b)})

=============================================================================
