------------------------- MODULE LeaseServiceProofs -------------------------
(***************************************************************************)
(* Proofs about LeaseService, for any sets of processes, resources, lease  *)
(* ids and times-to-live and any bounds.                                   *)
(***************************************************************************)
EXTENDS LeaseService, TLAPS

-----------------------------------------------------------------------------
(* Facts about the operators atomic_acquire is made of.                    *)

\* A token handed out by atomic_acquire is a natural number, the newest one
\* for a reader that joins a cohort and a larger one for a new epoch.
LEMMA TokenForType ==
    ASSUME TypeOK, NEW r \in Resources, NEW mode \in Modes
    PROVE  /\ TokenFor(r, mode) \in Nat
           /\ TokenFor(r, mode) >= last_token[r]
           /\ ~Joins(r, mode) => TokenFor(r, mode) > last_token[r]
    BY SMTT(30) DEF TypeOK, TokenFor

\* The claims of a request are resources with modes, and the ids chosen for
\* them are unused and distinct.
LEMMA RequestFacts ==
    ASSUME NEW claims \in Requests, NEW ids \in FreshIds(claims),
           NEW r \in DOMAIN claims
    PROVE  /\ r \in Resources
           /\ claims[r] \in Modes
           /\ ids[r] \in LeaseIds
           /\ ids[r] \notin UsedIds
           /\ \A s \in DOMAIN claims : ids[r] = ids[s] => r = s
    BY SMTT(30) DEF Requests, FreshIds

\* A granted request inserts well-formed rows.
LEMMA NewLeasesType ==
    ASSUME TypeOK, NEW p \in Pids, NEW claims \in Requests, NEW ttl \in TTLs,
           NEW ids \in FreshIds(claims)
    PROVE  NewLeases(p, claims, ids, ttl) \subseteq Lease
<1>1. \A r \in DOMAIN claims :
         r \in Resources /\ claims[r] \in Modes /\ ids[r] \in LeaseIds
  BY RequestFacts, Zenon
<1>2. \A r \in DOMAIN claims : TokenFor(r, claims[r]) \in Nat
  BY <1>1, TokenForType, Zenon
<1>3. now + ttl \in Nat
  BY LeaseConstants, SMTT(30) DEF TypeOK
<1>4. QED
  BY <1>1, <1>2, <1>3, SMTT(30) DEF NewLeases, Lease

\* A lease keeps its authority well-formed.
LEMMA AuthorityOfType ==
    ASSUME NEW l \in Lease
    PROVE  AuthorityOf(l) \in Authority
    BY Zenon DEF Lease, Authority, AuthorityOf

\* Replay never moves the durable counter: no event carries a larger token.
LEMMA ReplayedTokenSame ==
    ASSUME TypeOK,
           \A a \in acquired : a.fencing_token <= last_token[a.resource_id],
           NEW r \in Resources
    PROVE  ReplayedToken(r) = last_token[r]
<1> DEFINE tokens == {a.fencing_token : a \in {b \in acquired : b.resource_id = r}}
                     \cup {last_token[r]}
<1>1. \A t \in tokens : t \in Nat /\ t <= last_token[r]
  BY SMTT(30) DEF TypeOK, Authority
<1>2. last_token[r] \in tokens /\ last_token[r] \in Nat
  BY Zenon DEF TypeOK
<1>3. \A t \in tokens : (\A u \in tokens : u <= t) => t = last_token[r]
  BY <1>1, <1>2, SMTT(30)
<1>4. \E t \in tokens : \A u \in tokens : u <= t
  BY <1>1, <1>2, Zenon
<1> HIDE DEF tokens
<1>5. (CHOOSE t \in tokens : \A u \in tokens : u <= t) = last_token[r]
  BY <1>3, <1>4, Zenon
<1>6. QED
  BY <1>5, Zenon DEF ReplayedToken, tokens

-----------------------------------------------------------------------------
(* The inductive invariant holds initially.                                *)

LEMMA LeaseInit == Init => LeaseInv
    BY SMTT(30) DEF Init, LeaseInv, TypeOK, ProcStates, Exclusive, CohortCurrent,
           EpochFencing, ReplayExact, CleanedHoldsNothing

-----------------------------------------------------------------------------
(* atomic_acquire preserves it.                                            *)

\* The rows a granted request inserts: each has an unused id, the token of
\* its resource after the step, and shares its resource with old rows only
\* when all of them are readers.
LEMMA NewLeasesFacts ==
    ASSUME LeaseInv, NEW p \in Pids, NEW claims \in Requests, NEW ttl \in TTLs,
           NEW ids \in FreshIds(claims), BusyResources(claims) = {},
           NEW n \in NewLeases(p, claims, ids, ttl)
    PROVE  /\ n.lease_id \notin UsedIds
           /\ n.resource_id \in DOMAIN claims
           /\ n.fencing_token = TokenFor(n.resource_id, claims[n.resource_id])
           /\ n.mode = claims[n.resource_id]
           /\ n.owner_pid = p
           /\ n.lease_id = ids[n.resource_id]
           /\ \A l \in leases : l.resource_id = n.resource_id =>
                l.mode = "shared" /\ n.mode = "shared"
           /\ \A m \in NewLeases(p, claims, ids, ttl) :
                (m.resource_id = n.resource_id \/ m.lease_id = n.lease_id) => m = n
<1>1. PICK r \in DOMAIN claims :
         n = [lease_id |-> ids[r], resource_id |-> r, owner_pid |-> p,
              mode |-> claims[r], fencing_token |-> TokenFor(r, claims[r]),
              expires_at |-> now + ttl]
  BY Zenon DEF NewLeases
<1>2. r \in Resources /\ claims[r] \in Modes /\ ids[r] \notin UsedIds
  BY RequestFacts, Zenon
<1>3. ~Busy(r, claims[r])
  BY Zenon DEF BusyResources
<1>4. \A l \in leases : l.resource_id = r => l.mode = "shared" /\ claims[r] = "shared"
  BY <1>2, <1>3, Zenon DEF Busy, On, Modes, LeaseInv, TypeOK, Lease
<1>5. \A m \in NewLeases(p, claims, ids, ttl) :
        (m.resource_id = n.resource_id \/ m.lease_id = n.lease_id) => m = n
  <2> SUFFICES ASSUME NEW s \in DOMAIN claims, s = r \/ ids[s] = ids[r]
               PROVE  s = r
    BY <1>1, SMTT(30) DEF NewLeases
  <2>1. QED
    BY RequestFacts, Zenon
<1>6. QED
  BY <1>1, <1>2, <1>4, <1>5, Zenon

LEMMA AcquireInv ==
    ASSUME LeaseInv, NEW p \in Pids, NEW claims \in Requests, NEW ttl \in TTLs,
           Acquire(p, claims, ttl)
    PROVE  LeaseInv'
<1>1. PICK ids \in FreshIds(claims) :
         /\ leases' = leases \cup NewLeases(p, claims, ids, ttl)
         /\ acquired' = acquired
              \cup {AuthorityOf(l) : l \in NewLeases(p, claims, ids, ttl)}
         /\ replayed' = replayed \cup NewLeases(p, claims, ids, ttl)
  BY Zenon DEF Acquire
<1> DEFINE new == NewLeases(p, claims, ids, ttl)
<1>2. new \subseteq Lease
  BY NewLeasesType, Zenon DEF LeaseInv
<1>3. BusyResources(claims) = {}
  BY Zenon DEF Acquire
<1>4. \A r \in DOMAIN claims : r \in Resources /\ claims[r] \in Modes
  BY RequestFacts, Zenon
<1>5. /\ last_token' \in [Resources -> Nat]
      /\ \A r \in Resources : last_token'[r] >= last_token[r]
      /\ \A r \in DOMAIN claims : last_token'[r] = TokenFor(r, claims[r])
      /\ \A r \in Resources \ DOMAIN claims : last_token'[r] = last_token[r]
  BY <1>4, TokenForType, SMTT(30) DEF Acquire, LeaseInv, TypeOK
<1>6. \A n \in new :
        /\ n.lease_id \notin UsedIds
        /\ n.resource_id \in DOMAIN claims
        /\ n.fencing_token = last_token'[n.resource_id]
        /\ n.mode = claims[n.resource_id]
        /\ n.owner_pid = p
        /\ \A l \in leases : l.resource_id = n.resource_id =>
             l.mode = "shared" /\ n.mode = "shared"
        /\ \A m \in new :
             (m.resource_id = n.resource_id \/ m.lease_id = n.lease_id) => m = n
  BY <1>3, <1>5, NewLeasesFacts, SMTT(30)
<1> HIDE DEF new
<1>7. leases' = leases \cup new /\ replayed' = replayed \cup new
      /\ acquired' = acquired \cup {AuthorityOf(l) : l \in new}
  BY <1>1, Zenon DEF new
<1>8. TypeOK'
  BY <1>2, <1>5, <1>7, AuthorityOfType, SMTT(30) DEF Acquire, LeaseInv, TypeOK, WaitersExcept
<1>9. Exclusive'
  BY <1>6, <1>7, SMTT(30) DEF LeaseInv, Exclusive
\* A resource with old rows is joined, not superseded.
<1>10. \A l \in leases : last_token'[l.resource_id] = last_token[l.resource_id]
  <2> SUFFICES ASSUME NEW l \in leases, l.resource_id \in DOMAIN claims
               PROVE  TokenFor(l.resource_id, claims[l.resource_id])
                        = last_token[l.resource_id]
    BY <1>5, Zenon DEF LeaseInv, TypeOK, Lease
  <2>1. claims[l.resource_id] = "shared"
    BY <1>3, <1>4, Zenon DEF BusyResources, Busy, On, Modes
  <2>2. QED
    BY <2>1, Zenon DEF TokenFor, Joins, On
<1>11. CohortCurrent'
  <2>1. \A n \in new : n.fencing_token > 0
    <3> SUFFICES ASSUME NEW n \in new
                 PROVE  TokenFor(n.resource_id, claims[n.resource_id]) > 0
      BY <1>5, <1>6, Zenon
    <3>1. Joins(n.resource_id, claims[n.resource_id]) => last_token[n.resource_id] > 0
      BY <1>6, Zenon DEF Acquire, CohortIntact
    <3>2. n.resource_id \in Resources
      BY <1>4, <1>6, Zenon
    <3>3. QED
      BY <3>1, <3>2, SMTT(30) DEF TokenFor, LeaseInv, TypeOK
  <2>2. QED
    BY <1>6, <1>7, <1>10, <2>1, Zenon DEF LeaseInv, CohortCurrent
<1>12. \A a \in acquired' : a.fencing_token <= last_token'[a.resource_id]
  <2>1. \A a \in acquired : a.fencing_token <= last_token'[a.resource_id]
    BY <1>5, SMTT(30) DEF LeaseInv, TypeOK, Authority
  <2>2. \A n \in new : AuthorityOf(n).fencing_token <= last_token'[AuthorityOf(n).resource_id]
    BY <1>2, <1>4, <1>5, <1>6, SMTT(30) DEF AuthorityOf, Lease
  <2>3. QED
    BY <1>7, <2>1, <2>2, Zenon
\* Against an old acquisition with the same token, a new row is a reader that
\* joined a cohort, whose members are all readers by EpochFencing.
<1>13. EpochFencing'
  <2>1. ASSUME NEW n \in new, NEW a \in acquired,
               a.resource_id = n.resource_id, a.fencing_token = n.fencing_token
        PROVE  a.mode = "shared" /\ n.mode = "shared"
    <3>1. n.resource_id \in DOMAIN claims /\ n.resource_id \in Resources
          /\ claims[n.resource_id] \in Modes /\ n.mode = claims[n.resource_id]
          /\ n.fencing_token = TokenFor(n.resource_id, claims[n.resource_id])
      BY <1>4, <1>5, <1>6, Zenon
    <3>2. n.fencing_token <= last_token[n.resource_id]
      BY <2>1, Zenon DEF LeaseInv
    <3>3. Joins(n.resource_id, n.mode)
      BY <3>1, <3>2, TokenForType, SMTT(30) DEF LeaseInv, TypeOK
    <3>4. PICK l \in leases : l.resource_id = n.resource_id
      BY <3>3, Zenon DEF Joins, On
    <3>5. l.mode = "shared" /\ l.fencing_token = n.fencing_token
      BY <1>6, <3>1, <3>3, <3>4, Zenon DEF LeaseInv, CohortCurrent, TokenFor
    <3>6. AuthorityOf(l) \in acquired
      BY Zenon DEF LeaseInv
    <3>7. a.mode = "shared"
      <4>1. CASE a = AuthorityOf(l)
        BY <3>5, <4>1, Zenon DEF AuthorityOf
      <4>2. CASE a # AuthorityOf(l)
        BY <2>1, <3>4, <3>5, <3>6, <4>2, Zenon DEF LeaseInv, EpochFencing, AuthorityOf
      <4>3. QED
        BY <4>1, <4>2, Zenon
    <3>8. QED
      BY <3>3, <3>7, Zenon DEF Joins
  <2>2. ASSUME NEW n \in new, NEW m \in new, AuthorityOf(n) # AuthorityOf(m)
        PROVE  AuthorityOf(n).resource_id # AuthorityOf(m).resource_id
    BY <1>6, <2>2, Zenon DEF AuthorityOf
  <2>3. ASSUME NEW a \in acquired', NEW b \in acquired',
               a.resource_id = b.resource_id, a.fencing_token = b.fencing_token, a # b
        PROVE  a.mode = "shared" /\ b.mode = "shared"
    <3>1. CASE a \in acquired /\ b \in acquired
      BY <2>3, <3>1, Zenon DEF LeaseInv, EpochFencing
    <3>2. ASSUME NEW n \in new, a = AuthorityOf(n), b \in acquired
          PROVE  a.mode = "shared" /\ b.mode = "shared"
      BY <2>1, <2>3, <3>2, Zenon DEF AuthorityOf
    <3>3. ASSUME NEW n \in new, b = AuthorityOf(n), a \in acquired
          PROVE  a.mode = "shared" /\ b.mode = "shared"
      BY <2>1, <2>3, <3>3, Zenon DEF AuthorityOf
    <3>4. ASSUME NEW n \in new, NEW m \in new, a = AuthorityOf(n), b = AuthorityOf(m)
          PROVE  FALSE
      BY <2>2, <2>3, <3>4, Zenon
    <3>5. QED
      BY <1>7, <3>1, <3>2, <3>3, <3>4, Zenon
  <2>4. QED
    BY <2>3, Zenon DEF EpochFencing
<1>14. ReplayExact'
  BY <1>7, Zenon DEF LeaseInv, ReplayExact
<1>15. CleanedHoldsNothing' /\ \A q \in cleaned' : proc_state'[q] = "terminal"
  BY <1>6, <1>7, SMTT(30) DEF Acquire, MayAcquire, LeaseInv, CleanedHoldsNothing, OwnedBy
<1>16. \A l \in leases' : AuthorityOf(l) \in acquired'
  BY <1>7, Zenon DEF LeaseInv
<1>17. /\ \A l, m \in leases' : l.lease_id = m.lease_id => l = m
       /\ \A a, b \in acquired' : a.lease_id = b.lease_id => a = b
  <2>1. \A a \in acquired, n \in new : a.lease_id # AuthorityOf(n).lease_id
    BY <1>6, Zenon DEF UsedIds, AuthorityOf
  <2>2. \A n, m \in new : AuthorityOf(n).lease_id = AuthorityOf(m).lease_id => n = m
    BY <1>6, Zenon DEF AuthorityOf
  <2>3. \A l \in leases, n \in new : l.lease_id # n.lease_id
    BY <2>1, Zenon DEF LeaseInv, AuthorityOf
  <2>4. \A l, m \in leases' : l.lease_id = m.lease_id => l = m
    BY <1>6, <1>7, <2>3, SMTT(30) DEF LeaseInv
  <2>5. \A a, b \in acquired' : a.lease_id = b.lease_id => a = b
    BY <1>7, <2>1, <2>2, SMTT(30) DEF LeaseInv
  <2>6. QED
    BY <2>4, <2>5, Zenon
<1>18. QED
  BY <1>8, <1>9, <1>11, <1>12, <1>13, <1>14, <1>15, <1>16, <1>17, Zenon DEF LeaseInv

-----------------------------------------------------------------------------
(* The steps that grant nothing.                                           *)

\* Dropping rows from the table and from its replay alike keeps the invariant,
\* whatever happens to the wait edges.
LEMMA ShrinkInv ==
    ASSUME LeaseInv, NEW gone \in SUBSET leases,
           leases' = leases \ gone, replayed' = leases',
           acquired' = acquired, last_token' = last_token,
           proc_state' = proc_state, failing' \subseteq FailedCall,
           now' = now, waiters' \subseteq waiters, cleaned' \subseteq Pids,
           \A p \in cleaned' : proc_state[p] = "terminal" /\ OwnedBy(p)' = {}
    PROVE  LeaseInv'
<1>1. TypeOK'
  BY Zenon DEF LeaseInv, TypeOK
<1>2. Exclusive' /\ CohortCurrent'
  BY Zenon DEF LeaseInv, Exclusive, CohortCurrent
<1>3. EpochFencing' /\ ReplayExact' /\ CleanedHoldsNothing'
  BY Zenon DEF LeaseInv, EpochFencing, ReplayExact, CleanedHoldsNothing
<1>4. QED
  BY <1>1, <1>2, <1>3, Zenon DEF LeaseInv

\* The rows of the replay that share an id with a removed row are exactly the
\* removed rows.
LEMMA ReplayShrinks ==
    ASSUME LeaseInv, NEW gone \in SUBSET leases
    PROVE  {l \in replayed : \A m \in gone : l.lease_id # m.lease_id} = leases \ gone
    BY Zenon DEF LeaseInv, ReplayExact

LEMMA RenewInv ==
    ASSUME LeaseInv, NEW l \in leases, NEW ttl \in TTLs, Renew(l, ttl)
    PROVE  LeaseInv'
<1>1. now + ttl \in Nat
  BY LeaseConstants, SMTT(30) DEF LeaseInv, TypeOK
<1>2. ASSUME NEW m \in leases'
      PROVE  \E k \in leases : /\ m.lease_id = k.lease_id
                               /\ m.resource_id = k.resource_id
                               /\ m.owner_pid = k.owner_pid
                               /\ m.mode = k.mode
                               /\ m.fencing_token = k.fencing_token
                               /\ m = IF k.lease_id = l.lease_id
                                      THEN [k EXCEPT !.expires_at = now + ttl] ELSE k
                               /\ m \in Lease
  BY <1>1, <1>2, SMTT(30) DEF Renew, Renewed, LeaseInv, TypeOK, Lease
<1>3. \A j, m \in leases' : j.lease_id = m.lease_id => j = m
  BY <1>2, SMTT(30) DEF LeaseInv
<1>4. TypeOK'
  BY <1>1, <1>2, Zenon DEF Renew, Renewed, LeaseInv, TypeOK, ReplayExact
<1>5. Exclusive'
  <2> SUFFICES ASSUME NEW j \in leases', NEW m \in leases',
                      j.resource_id = m.resource_id, j # m
               PROVE  j.mode = "shared" /\ m.mode = "shared"
    BY Zenon DEF Exclusive
  <2>1. j.lease_id # m.lease_id
    BY <1>3, Zenon
  <2>2. QED
    BY <1>2, <2>1, SMTT(30) DEF LeaseInv, Exclusive
<1>6. CohortCurrent'
  BY <1>2, SMTT(30) DEF Renew, LeaseInv, CohortCurrent
<1>7. EpochFencing' /\ ReplayExact'
  BY Zenon DEF Renew, LeaseInv, EpochFencing, ReplayExact
<1>8. CleanedHoldsNothing'
  BY <1>2, SMTT(30) DEF Renew, LeaseInv, CleanedHoldsNothing, OwnedBy
<1>9. \A m \in leases' : AuthorityOf(m) \in acquired'
  BY <1>2, Zenon DEF Renew, LeaseInv, AuthorityOf
<1>10. QED
  BY <1>3, <1>4, <1>5, <1>6, <1>7, <1>8, <1>9, Zenon DEF Renew, LeaseInv

LEMMA LeaseNext == LeaseInv /\ [Next]_vars => LeaseInv'
<1> SUFFICES ASSUME LeaseInv, [Next]_vars
             PROVE  LeaseInv'
  BY Zenon
<1>1. ASSUME NEW p \in Pids, NEW claims \in Requests, NEW ttl \in TTLs,
             Acquire(p, claims, ttl)
      PROVE  LeaseInv'
  BY <1>1, AcquireInv, Zenon
<1>2. ASSUME NEW p \in Pids, NEW claims \in Requests, AcquireBusy(p, claims)
      PROVE  LeaseInv'
  <2>1. failing' \subseteq FailedCall
    BY <1>2, SMTT(30) DEF AcquireBusy, BusyResources, Requests, FailedCall, LeaseInv, TypeOK
  <2>2. QED
    BY <1>2, <2>1, Zenon DEF AcquireBusy, tables, journal, LeaseInv, TypeOK, Exclusive,
       CohortCurrent, EpochFencing, ReplayExact, CleanedHoldsNothing, OwnedBy
<1>3. ASSUME NEW p \in Pids, ClearWaiters(p)
      PROVE  LeaseInv'
  BY <1>3, Zenon DEF ClearWaiters, WaitersExcept, journal, LeaseInv, TypeOK, Exclusive,
     CohortCurrent, EpochFencing, ReplayExact, CleanedHoldsNothing, OwnedBy
<1>4. ASSUME NEW p \in Pids, ReleaseAllForPid(p)
      PROVE  LeaseInv'
  <2>1. OwnedBy(p) \in SUBSET leases
    BY Zenon DEF OwnedBy
  <2>2. leases' = leases \ OwnedBy(p) /\ replayed' = leases'
    BY <1>4, <2>1, ReplayShrinks, Zenon DEF ReleaseAllForPid
  <2>3. waiters' \subseteq waiters
    BY <1>4, Zenon DEF ReleaseAllForPid, WaitersExcept
  <2>4. \A q \in cleaned' : proc_state[q] = "terminal" /\ OwnedBy(q)' = {}
    BY <1>4, <2>2, Zenon DEF ReleaseAllForPid, OwnedBy, LeaseInv, CleanedHoldsNothing
  <2>5. cleaned' \subseteq Pids /\ failing' \subseteq FailedCall
    BY <1>4, Zenon DEF ReleaseAllForPid, LeaseInv, TypeOK
  <2>6. QED
    BY <1>4, <2>1, <2>2, <2>3, <2>4, <2>5, ShrinkInv, Zenon DEF ReleaseAllForPid
<1>5. ASSUME NEW p \in Pids, Terminate(p)
      PROVE  LeaseInv'
  BY <1>5, Zenon DEF Terminate, tables, journal, LeaseInv, TypeOK, ProcStates, Exclusive,
     CohortCurrent, EpochFencing, ReplayExact, CleanedHoldsNothing, OwnedBy
<1>6. ASSUME NEW c \in failing, FailureClearsWaiters(c)
      PROVE  LeaseInv'
  <2>1. failing' \subseteq FailedCall
    BY <1>6, Zenon DEF FailureClearsWaiters, LeaseInv, TypeOK, FailedCall
  <2>2. QED
    BY <1>6, <2>1, Zenon DEF FailureClearsWaiters, WaitersExcept, journal, LeaseInv, TypeOK,
       Exclusive, CohortCurrent, EpochFencing, ReplayExact, CleanedHoldsNothing, OwnedBy
<1>7. ASSUME NEW c \in failing, FailureAddsWaiter(c)
      PROVE  LeaseInv'
  <2>1. waiters' \subseteq Pids \X Resources
    BY <1>7, SMTT(30) DEF FailureAddsWaiter, LeaseInv, TypeOK, FailedCall
  <2>2. QED
    BY <1>7, <2>1, Zenon DEF FailureAddsWaiter, journal, LeaseInv, TypeOK,
       Exclusive, CohortCurrent, EpochFencing, ReplayExact, CleanedHoldsNothing, OwnedBy
<1>8. ASSUME NEW ids, Release(ids)
      PROVE  LeaseInv'
  <2> DEFINE gone == {l \in leases : l.lease_id \in ids}
  <2>1. leases' = leases \ gone /\ replayed' = leases'
    BY <1>8, Zenon DEF Release, LeaseInv, ReplayExact
  <2>2. \A q \in cleaned' : proc_state[q] = "terminal" /\ OwnedBy(q)' = {}
    BY <1>8, Zenon DEF Release, OwnedBy, LeaseInv, CleanedHoldsNothing
  <2>3. QED
    BY <1>8, <2>1, <2>2, ShrinkInv, Zenon DEF Release, LeaseInv, TypeOK
<1>9. ASSUME NEW l \in leases, NEW ttl \in TTLs, Renew(l, ttl)
      PROVE  LeaseInv'
  BY <1>9, RenewInv, Zenon
<1>10. ASSUME NEW cutoff \in 0..now, ReclaimExpired(cutoff)
       PROVE  LeaseInv'
  <2> DEFINE gone == {l \in leases : l.expires_at <= cutoff}
  <2>1. gone \in SUBSET leases
    BY Zenon
  <2>2. leases' = leases \ gone /\ replayed' = leases'
    BY <1>10, <2>1, ReplayShrinks, Zenon DEF ReclaimExpired
  <2>3. \A q \in cleaned' : proc_state[q] = "terminal" /\ OwnedBy(q)' = {}
    BY <1>10, Zenon DEF ReclaimExpired, OwnedBy, LeaseInv, CleanedHoldsNothing
  <2>4. QED
    BY <1>10, <2>1, <2>2, <2>3, ShrinkInv, Zenon DEF ReclaimExpired, LeaseInv, TypeOK
<1>11. ASSUME Tick
       PROVE  LeaseInv'
  BY <1>11, SMTT(30) DEF Tick, tables, journal, LeaseInv, TypeOK, Exclusive,
     CohortCurrent, EpochFencing, ReplayExact, CleanedHoldsNothing, OwnedBy
<1>12. ASSUME Crash
       PROVE  LeaseInv'
  BY <1>12, Zenon DEF Crash, tables, journal, LeaseInv, TypeOK, Exclusive,
     CohortCurrent, EpochFencing, ReplayExact, CleanedHoldsNothing, OwnedBy
<1>13. ASSUME Rebuild
       PROVE  LeaseInv'
  <2>1. last_token' = last_token
    BY <1>13, ReplayedTokenSame, Zenon DEF Rebuild, LeaseInv, TypeOK
  <2>2. leases' = leases
    BY <1>13, Zenon DEF Rebuild, LeaseInv, ReplayExact
  <2>3. QED
    BY <1>13, <2>1, <2>2, Zenon DEF Rebuild, journal, LeaseInv, TypeOK, Exclusive,
       CohortCurrent, EpochFencing, ReplayExact, CleanedHoldsNothing, OwnedBy
<1>14. CASE UNCHANGED vars
  BY <1>14, Zenon DEF vars, tables, journal, LeaseInv, TypeOK, Exclusive,
     CohortCurrent, EpochFencing, ReplayExact, CleanedHoldsNothing, OwnedBy
<1>15. QED
  BY <1>1, <1>2, <1>3, <1>4, <1>5, <1>6, <1>7, <1>8, <1>9, <1>10, <1>11, <1>12,
     <1>13, <1>14, Zenon DEF Next

-----------------------------------------------------------------------------
(* The theorems.                                                           *)

\* The inductive invariant holds in every behaviour of the lease service.
THEOREM LeaseInvariant == Spec => []LeaseInv
<1>1. Init => LeaseInv
  BY LeaseInit, Zenon
<1>2. LeaseInv /\ [Next]_vars => LeaseInv'
  BY LeaseNext, Zenon
<1>3. QED
  BY <1>1, <1>2, PTL DEF Spec

\* The tables, the journal and the calls in flight keep their shapes.
THEOREM LeaseTypeCorrect == Spec => []TypeOK
<1>1. LeaseInv => TypeOK
  BY Zenon DEF LeaseInv
<1>2. QED
  BY <1>1, LeaseInvariant, PTL

\* atomic_acquire keeps exclusive leases exclusive.
THEOREM LeaseExclusion == Spec => []Exclusive
<1>1. LeaseInv => Exclusive
  BY Zenon DEF LeaseInv
<1>2. QED
  BY <1>1, LeaseInvariant, PTL

\* Every held lease carries the newest token, and no ownership epoch ever
\* reuses the token of another.
THEOREM LeaseFencing == Spec => [](CohortCurrent /\ EpochFencing)
<1>1. LeaseInv => CohortCurrent /\ EpochFencing
  BY Zenon DEF LeaseInv
<1>2. QED
  BY <1>1, LeaseInvariant, PTL

\* Replaying the journal rebuilds the lease table exactly.
THEOREM LeaseReplay == Spec => []ReplayExact
<1>1. LeaseInv => ReplayExact
  BY Zenon DEF LeaseInv
<1>2. QED
  BY <1>1, LeaseInvariant, PTL

\* A terminal process that was cleaned up holds nothing ever after.
THEOREM LeaseCleanup == Spec => []CleanedHoldsNothing
<1>1. LeaseInv => CleanedHoldsNothing
  BY Zenon DEF LeaseInv
<1>2. QED
  BY <1>1, LeaseInvariant, PTL

-----------------------------------------------------------------------------
(* A stale holder never regains authority.                                 *)

\* Any row of the next state that carries a journalled authority was in the
\* table before, under the same authority and unexpired.
LEMMA AuthorityPreserved ==
    ASSUME LeaseInv, [Next]_vars, NEW a \in acquired,
           NEW l \in leases', AuthorityOf(l) = a, l.expires_at > now'
    PROVE  \E m \in leases : AuthorityOf(m) = a /\ m.expires_at > now
<1> USE DEF LeaseInv
<1>1. ASSUME NEW p \in Pids, NEW claims \in Requests, NEW ttl \in TTLs,
             Acquire(p, claims, ttl)
      PROVE  l \in leases /\ now' = now
  <2>1. PICK ids \in FreshIds(claims) :
           leases' = leases \cup NewLeases(p, claims, ids, ttl)
    BY <1>1, Zenon DEF Acquire
  <2>2. BusyResources(claims) = {}
    BY <1>1, Zenon DEF Acquire
  <2>3. l.lease_id = a.lease_id
    BY Zenon DEF AuthorityOf
  <2>4. l.lease_id \in UsedIds
    BY <2>3, Zenon DEF UsedIds
  <2>5. l \in leases
    BY <2>1, <2>2, <2>4, NewLeasesFacts, Zenon
  <2>6. QED
    BY <1>1, <2>5, Zenon DEF Acquire
<1>2. ASSUME NEW k \in leases, NEW ttl \in TTLs, Renew(k, ttl)
      PROVE  \E m \in leases : AuthorityOf(m) = a /\ m.expires_at > now
  <2>1. PICK m \in leases :
           l = IF m.lease_id = k.lease_id THEN [m EXCEPT !.expires_at = now + ttl] ELSE m
    BY <1>2, Zenon DEF Renew, Renewed
  <2>2. AuthorityOf(m) = a
    BY <2>1, SMTT(30) DEF AuthorityOf, TypeOK, Lease
  <2>3. m.expires_at > now
    <3>1. CASE m.lease_id = k.lease_id
      BY <1>2, <3>1, Zenon DEF Renew, Renewable
    <3>2. CASE m.lease_id # k.lease_id
      BY <1>2, <2>1, <3>2, Zenon DEF Renew
    <3>3. QED
      BY <3>1, <3>2, Zenon
  <2>4. QED
    BY <2>2, <2>3, Zenon
<1>3. CASE Tick
  BY <1>3, SMTT(30) DEF Tick, tables, TypeOK, Lease
<1>4. CASE Rebuild
  BY <1>4, Zenon DEF Rebuild, ReplayExact
<1>5. CASE leases' \subseteq leases /\ now' = now
  BY <1>5, Zenon
<1>6. ASSUME NEW p \in Pids,
             (\E claims \in Requests : AcquireBusy(p, claims))
               \/ ClearWaiters(p) \/ ReleaseAllForPid(p) \/ Terminate(p)
      PROVE  leases' \subseteq leases /\ now' = now
  BY <1>6, Zenon DEF AcquireBusy, ClearWaiters, ReleaseAllForPid, Terminate, tables, journal
<1>7. ASSUME NEW c \in failing, FailureClearsWaiters(c) \/ FailureAddsWaiter(c)
      PROVE  leases' \subseteq leases /\ now' = now
  BY <1>7, Zenon DEF FailureClearsWaiters, FailureAddsWaiter
<1>8. ASSUME (\E ids \in SUBSET {k.lease_id : k \in leases} : Release(ids))
               \/ (\E cutoff \in 0..now : ReclaimExpired(cutoff))
               \/ Crash \/ UNCHANGED vars
      PROVE  leases' \subseteq leases /\ now' = now
  BY <1>8, Zenon DEF Release, ReclaimExpired, Crash, vars, tables, journal
<1>9. QED
  BY <1>1, <1>2, <1>3, <1>4, <1>5, <1>6, <1>7, <1>8, Zenon DEF Next

\* An authority that stopped validating never validates again.
THEOREM LeaseNoRevival == Spec => LostAuthorityStaysLost
<1>1. LeaseInv /\ [Next]_vars =>
        [\A a \in acquired : ~FenceValid(a) => ~FenceValid(a)']_vars
  <2> SUFFICES ASSUME LeaseInv, [Next]_vars, NEW a \in acquired, FenceValid(a)'
               PROVE  FenceValid(a)
    BY Zenon
  <2>1. PICK l \in leases' : /\ AuthorityOf(l) = a
                             /\ l.expires_at > now'
                             /\ last_token'[a.resource_id] = a.fencing_token
    BY Zenon DEF FenceValid, AuthorityOf
  <2>2. PICK m \in leases : AuthorityOf(m) = a /\ m.expires_at > now
    BY <2>1, AuthorityPreserved, Zenon
  <2>3. last_token[a.resource_id] = a.fencing_token
    BY <2>2, Zenon DEF LeaseInv, CohortCurrent, AuthorityOf
  <2>4. QED
    BY <2>2, <2>3, Zenon DEF FenceValid
<1>2. QED
  BY <1>1, LeaseInvariant, PTL DEF Spec, LostAuthorityStaysLost
=============================================================================
