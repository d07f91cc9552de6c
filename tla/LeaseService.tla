---------------------------- MODULE LeaseService ----------------------------
(***************************************************************************)
(* The resource lease service of the kernel                                *)
(* (agent_os/services/lease_service.py).                                   *)
(*                                                                         *)
(* Every operation that the code runs in one BEGIN IMMEDIATE transaction   *)
(* is one action.  The failure path of atomic_acquire runs three more      *)
(* transactions after the write lock is released; those are separate       *)
(* actions of the caller that is still inside the call, so that other      *)
(* callers interleave with them and a crash can fall between them.         *)
(*                                                                         *)
(* Timestamps are natural numbers.  The code stores ISO-8601 strings with  *)
(* a fixed UTC offset and compares them as text; that order is the order   *)
(* of the instants, so the comparison here is the one on numbers.          *)
(***************************************************************************)
EXTENDS Integers, FiniteSets

CONSTANTS
    Pids,        \* process identifiers
    Resources,   \* logical resources
    LeaseIds,    \* the uuids leases are created with, each used once
    TTLs,        \* time-to-live values callers ask for
    MaxTime,     \* bound on the clock
    MaxFailing   \* bound on the acquire calls in their failure path at once

ASSUME LeaseConstants ==
    /\ TTLs \subseteq Nat
    /\ MaxTime \in Nat
    /\ MaxFailing \in Nat

VARIABLES
    leases,      \* table leases_projection
    last_token,  \* table resource_fencing_tokens (0: no row)
    waiters,     \* table lease_waiters
    proc_state,  \* processes_projection.state, as far as acquire reads it
    cleaned,     \* terminal processes whose release_all_for_pid has run
    failing,     \* atomic_acquire calls that failed and have not yet raised
    now,         \* the clock
    acquired,    \* every LEASE_ACQUIRED event in the journal
    replayed     \* the lease table that replaying the journal produces

tables == <<leases, last_token, waiters>>
journal == <<acquired, replayed>>
vars == <<tables, proc_state, cleaned, failing, now, journal>>

Modes == {"shared", "exclusive"}

\* What a holder keeps in memory: its lease without the expiry, which
\* renewals move.
Authority == [lease_id: LeaseIds, resource_id: Resources, owner_pid: Pids,
              mode: Modes, fencing_token: Nat]

Lease == [lease_id: LeaseIds, resource_id: Resources, owner_pid: Pids,
          mode: Modes, fencing_token: Nat, expires_at: Nat]

AuthorityOf(l) ==
    [lease_id |-> l.lease_id, resource_id |-> l.resource_id,
     owner_pid |-> l.owner_pid, mode |-> l.mode,
     fencing_token |-> l.fencing_token]

\* "none": no row (an unknown pid); "live": any non-terminal state.
ProcStates == {"none", "live", "terminal"}

\* A failed atomic_acquire has its old wait edges to clear, then one to add.
FailedCall == [pid: Pids, resource: Resources, todo: {"clear", "add"}]

Requests == UNION {[S -> Modes] : S \in SUBSET Resources \ {{}}}

On(r) == {l \in leases : l.resource_id = r}
OwnedBy(p) == {l \in leases : l.owner_pid = p}
WaitersExcept(p) == {w \in waiters : w[1] # p}
UsedIds == {a.lease_id : a \in acquired}

Init ==
    /\ leases = {}
    /\ last_token = [r \in Resources |-> 0]
    /\ waiters = {}
    /\ proc_state \in [Pids -> {"none", "live"}]
    /\ cleaned = {}
    /\ failing = {}
    /\ now = 0
    /\ acquired = {}
    /\ replayed = {}

-----------------------------------------------------------------------------
(***************************************************************************)
(* atomic_acquire.  A request is a function from the claimed resources to  *)
(* the claimed modes: a list naming one resource twice is refused before   *)
(* any effect, and the order of a list only decides which busy resource    *)
(* is reported, which is chosen freely here.                               *)
(***************************************************************************)

\* Mutant: an exclusive claim ignores the readers already holding.
Busy_IgnoresReaders(r, mode) == \E l \in On(r) : l.mode = "exclusive"

\* A row conflicts with a claim unless both are shared; the caller's own
\* rows and expired rows that nobody reclaimed yet conflict as well.
Busy(r, mode) ==
    \E l \in On(r) : mode = "exclusive" \/ l.mode = "exclusive"

BusyResources(claims) == {r \in DOMAIN claims : Busy(r, claims[r])}

\* A shared claim on a resource with holders joins their cohort; any other
\* claim opens a new ownership epoch.
Joins(r, mode) == mode = "shared" /\ On(r) # {}

\* The checks on a cohort that raise KernelInvariantViolation and roll back.
CohortIntact(r) ==
    /\ \A l \in On(r) : l.fencing_token = last_token[r]
    /\ last_token[r] > 0

\* Mutant: the token is derived from the rows still held, not from the
\* durable counter.
TokenFor_FromRows(r, mode) ==
    IF On(r) = {} THEN 1 ELSE (CHOOSE l \in On(r) : TRUE).fencing_token

TokenFor(r, mode) == IF Joins(r, mode) THEN last_token[r] ELSE last_token[r] + 1

\* Mutant: the process state is not read.
MayAcquire_AnyState(p) == TRUE

MayAcquire(p) == proc_state[p] # "terminal"

NewLeases(p, claims, ids, ttl) ==
    {[lease_id |-> ids[r], resource_id |-> r, owner_pid |-> p,
      mode |-> claims[r], fencing_token |-> TokenFor(r, claims[r]),
      expires_at |-> now + ttl] : r \in DOMAIN claims}

FreshIds(claims) ==
    {ids \in [DOMAIN claims -> LeaseIds \ UsedIds] :
        \A r, s \in DOMAIN claims : ids[r] = ids[s] => r = s}

Acquire(p, claims, ttl) ==
    /\ MayAcquire(p)
    /\ BusyResources(claims) = {}
    /\ \A r \in DOMAIN claims : Joins(r, claims[r]) => CohortIntact(r)
    /\ \E ids \in FreshIds(claims) :
          LET new == NewLeases(p, claims, ids, ttl)
          IN  /\ leases' = leases \cup new
              /\ acquired' = acquired \cup {AuthorityOf(l) : l \in new}
              /\ replayed' = replayed \cup new
    /\ last_token' = [r \in Resources |->
                        IF r \in DOMAIN claims THEN TokenFor(r, claims[r])
                                               ELSE last_token[r]]
    /\ waiters' = WaitersExcept(p)
    /\ UNCHANGED <<proc_state, cleaned, failing, now>>

\* Nothing is granted; the wait edge is recorded by later transactions.
AcquireBusy(p, claims) ==
    /\ MayAcquire(p)
    /\ Cardinality(failing) < MaxFailing
    /\ \E r \in BusyResources(claims) :
          failing' = failing \cup {[pid |-> p, resource |-> r, todo |-> "clear"]}
    /\ UNCHANGED <<tables, proc_state, cleaned, now, journal>>

FailureClearsWaiters(c) ==
    /\ c.todo = "clear"
    /\ waiters' = WaitersExcept(c.pid)
    /\ failing' = (failing \ {c}) \cup {[c EXCEPT !.todo = "add"]}
    /\ UNCHANGED <<leases, last_token, proc_state, cleaned, now, journal>>

\* Mutant: the two columns of the wait edge are swapped.
FailureAddsWaiter_Swapped(c) ==
    /\ c.todo = "add"
    /\ waiters' = waiters \cup {<<c.resource, c.pid>>}
    /\ failing' = failing \ {c}
    /\ UNCHANGED <<leases, last_token, proc_state, cleaned, now, journal>>

\* _add_waiter, then LEASE_ACQUIRE_FAILED (which replay ignores), then raise.
FailureAddsWaiter(c) ==
    /\ c.todo = "add"
    /\ waiters' = waiters \cup {<<c.pid, c.resource>>}
    /\ failing' = failing \ {c}
    /\ UNCHANGED <<leases, last_token, proc_state, cleaned, now, journal>>

\* clear_waiters_for_pid: also what an empty request and every caller's
\* error path do.
ClearWaiters(p) ==
    /\ waiters' = WaitersExcept(p)
    /\ UNCHANGED <<leases, last_token, proc_state, cleaned, failing, now, journal>>

-----------------------------------------------------------------------------
\* release: the rows of the given ids that still exist.
Release(ids) ==
    /\ leases' = {l \in leases : l.lease_id \notin ids}
    /\ replayed' = {l \in replayed : l.lease_id \notin ids}
    /\ UNCHANGED <<last_token, waiters, proc_state, cleaned, failing, now, acquired>>

\* release_all_for_pid: rows, wait edges and journal events in one transaction.
ReleaseAllForPid(p) ==
    /\ leases' = leases \ OwnedBy(p)
    /\ replayed' = {l \in replayed : \A m \in OwnedBy(p) : l.lease_id # m.lease_id}
    /\ waiters' = WaitersExcept(p)
    /\ cleaned' = IF proc_state[p] = "terminal" THEN cleaned \cup {p} ELSE cleaned
    /\ UNCHANGED <<last_token, proc_state, failing, now, acquired>>

\* renew: only a row that has not expired at the writer lock is extended.
Renewed(table, id, ttl) ==
    {IF l.lease_id = id THEN [l EXCEPT !.expires_at = now + ttl] ELSE l : l \in table}

\* Mutant: renewal without the expiry predicate.
Renewable_Always(l) == TRUE

Renewable(l) == l.expires_at > now

\* Mutant: the renewal is not journalled.
Renew_NotJournalled(l, ttl) ==
    /\ Renewable(l)
    /\ leases' = Renewed(leases, l.lease_id, ttl)
    /\ UNCHANGED <<last_token, waiters, proc_state, cleaned, failing, now, journal>>

Renew(l, ttl) ==
    /\ Renewable(l)
    /\ leases' = Renewed(leases, l.lease_id, ttl)
    /\ replayed' = Renewed(replayed, l.lease_id, ttl)
    /\ UNCHANGED <<last_token, waiters, proc_state, cleaned, failing, now, acquired>>

\* reclaim_expired: the caller read its clock before the transaction, so the
\* cutoff may lag behind now.  Wait edges stay.
ReclaimExpired(cutoff) ==
    LET gone == {l \in leases : l.expires_at <= cutoff}
    IN  /\ leases' = leases \ gone
        /\ replayed' = {l \in replayed : \A m \in gone : l.lease_id # m.lease_id}
        /\ UNCHANGED <<last_token, waiters, proc_state, cleaned, failing, now, acquired>>

\* validate_fencing_contract for one claim: the lease still exists with its
\* owner and mode, has not expired, and carries the newest token.
FenceValid(a) ==
    \E l \in leases :
        /\ AuthorityOf(l) = a
        /\ l.expires_at > now
        /\ last_token[a.resource_id] = a.fencing_token

-----------------------------------------------------------------------------
\* ProcessService marks the process EXITED or FAILED; its caller runs
\* release_all_for_pid afterwards, in another transaction.
Terminate(p) ==
    /\ proc_state[p] = "live"
    /\ proc_state' = [proc_state EXCEPT ![p] = "terminal"]
    /\ UNCHANGED <<tables, cleaned, failing, now, journal>>

Tick ==
    /\ now < MaxTime
    /\ now' = now + 1
    /\ UNCHANGED <<tables, proc_state, cleaned, failing, journal>>

\* The process dies: calls in their failure path are never finished.
Crash ==
    /\ failing # {}
    /\ failing' = {}
    /\ UNCHANGED <<tables, proc_state, cleaned, now, journal>>

\* rebuild_projections empties the lease and wait tables but not the token
\* table, then replays every event; handle_event raises a token, never
\* lowers it.
ReplayedToken(r) ==
    LET tokens == {a.fencing_token : a \in {b \in acquired : b.resource_id = r}}
                  \cup {last_token[r]}
    IN  CHOOSE t \in tokens : \A u \in tokens : u <= t

Rebuild ==
    /\ failing = {}
    /\ leases' = replayed
    /\ waiters' = {}
    /\ last_token' = [r \in Resources |-> ReplayedToken(r)]
    /\ UNCHANGED <<proc_state, cleaned, failing, now, journal>>

Next ==
    \/ \E p \in Pids :
          \/ \E claims \in Requests :
                \/ \E ttl \in TTLs : Acquire(p, claims, ttl)
                \/ AcquireBusy(p, claims)
          \/ ClearWaiters(p)
          \/ ReleaseAllForPid(p)
          \/ Terminate(p)
    \/ \E c \in failing : FailureClearsWaiters(c) \/ FailureAddsWaiter(c)
    \/ \E ids \in SUBSET {l.lease_id : l \in leases} : Release(ids)
    \/ \E l \in leases, ttl \in TTLs : Renew(l, ttl)
    \/ \E cutoff \in 0..now : ReclaimExpired(cutoff)
    \/ Tick
    \/ Crash
    \/ Rebuild

Spec == Init /\ [][Next]_vars

-----------------------------------------------------------------------------
(* Properties                                                              *)

\* The tables, the journal and the calls in flight have the shapes the
\* schema and the code give them.
TypeOK ==
    /\ leases \subseteq Lease
    /\ last_token \in [Resources -> Nat]
    /\ waiters \subseteq Pids \X Resources
    /\ proc_state \in [Pids -> ProcStates]
    /\ cleaned \subseteq Pids
    /\ failing \subseteq FailedCall
    /\ now \in Nat
    /\ acquired \subseteq Authority
    /\ replayed \subseteq Lease

\* Two rows on one resource are both shared, whatever acquires, releases,
\* renewals, reclaims and replays interleave: the invariant that the write
\* lock around check and insert in atomic_acquire is there for.
Exclusive ==
    \A l, m \in leases :
        (l.resource_id = m.resource_id /\ l # m)
            => (l.mode = "shared" /\ m.mode = "shared")

\* Every row carries the newest token of its resource, so a shared claim that
\* joins a cohort never raises KernelInvariantViolation ("cohort is
\* inconsistent" or "superseded" in atomic_acquire).
CohortCurrent ==
    \A l \in leases :
        l.fencing_token = last_token[l.resource_id] /\ l.fencing_token > 0

\* Two acquisitions journalled with the same token of the same resource were
\* both shared: an ownership epoch never reuses the token of an earlier one,
\* across releases, expiry, crashes and replay.
EpochFencing ==
    \A a, b \in acquired :
        (a.resource_id = b.resource_id /\ a.fencing_token = b.fencing_token /\ a # b)
            => (a.mode = "shared" /\ b.mode = "shared")

\* Replaying the journal gives exactly the rows of the table, expiry
\* included: each operation publishes its events in its own transaction.
ReplayExact == replayed = leases

\* A process that was marked terminal and then cleaned up owns no lease, and
\* none is granted to it later: a racing acquire is either swept by the
\* cleanup or sees the terminal state.
CleanedHoldsNothing == \A p \in cleaned : OwnedBy(p) = {}

\* The inductive invariant behind the properties above.  Beyond them: what a lease
\* id was issued for never changes, every row was journalled, and no journal
\* entry carries a token above the durable counter.
LeaseInv ==
    /\ TypeOK
    /\ Exclusive
    /\ CohortCurrent
    /\ EpochFencing
    /\ ReplayExact
    /\ CleanedHoldsNothing
    /\ \A p \in cleaned : proc_state[p] = "terminal"
    /\ \A l \in leases : AuthorityOf(l) \in acquired
    /\ \A l, m \in leases : l.lease_id = m.lease_id => l = m
    /\ \A a, b \in acquired : a.lease_id = b.lease_id => a = b
    /\ \A a \in acquired : a.fencing_token <= last_token[a.resource_id]

\* An authority that stops validating (released, expired, reclaimed or
\* superseded) never validates again: no renewal, re-acquisition or replay
\* revives a stale holder.
LostAuthorityStaysLost ==
    [][\A a \in acquired : ~FenceValid(a) => ~FenceValid(a)']_vars
=============================================================================
