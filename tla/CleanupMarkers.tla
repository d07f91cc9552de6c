---------------------------- MODULE CleanupMarkers ----------------------------
(***************************************************************************)
(* Compensation of an admission pass and the durable cleanup markers       *)
(* (runtimes/multi_agent/sdk.py: run_pass, _record_failed_exact_cleanup;   *)
(* scheduler.py: record_cleanup_required, record_cleanup_resolution,       *)
(* reconcile_cleanup_markers).                                             *)
(*                                                                         *)
(* A pass admits claims, each with a Kernel lease, and gives them back     *)
(* when the graph moved or the follow-up failed.  Giving one back can fail *)
(* half way; the claim is then named by a marker in the journal, which a   *)
(* later audit closes once the ownership is gone.  Recovery tools close    *)
(* markers by hand, from threads of their own.  The event journal has the  *)
(* same contents in memory and on disk (an event is appended to memory     *)
(* only after its durable write); the claims have a live and a durable     *)
(* projection, and every event written carries the whole live one.         *)
(***************************************************************************)
EXTENDS Integers, FiniteSets, TLAPS

CONSTANTS
    Claims,      \* claim identities, each acquired at most once
    Tools,       \* threads that close markers by hand
    MaxFaults    \* lease releases, journal writes and lookups that fail

VARIABLES
    live,        \* claim -> state in the scheduler's memory
    saved,       \* claim -> state in the durable projection
    leases,      \* claims whose Kernel lease is live
    required,    \* claims with an EXECUTION_CLEANUP_REQUIRED event
    closed,      \* [claim, status, by]: the closing events in the journal
    pass,        \* claims the pass under way still has to give back
    calls,       \* tool -> the closing call between its two lock regions
    reported,    \* claims whose marker could not be written, told to the caller
    gaveUp,      \* claims the pass could not give back
    faults

vars == <<live, saved, leases, required, closed, pass, calls, reported,
          gaveUp, faults>>

Terminal == {"released", "lost"}

Init ==
    /\ live = [c \in Claims |-> "none"]
    /\ saved = live
    /\ leases = {}
    /\ required = {}
    /\ closed = {}
    /\ pass = {}
    /\ calls = [t \in Tools |-> {}]
    /\ reported = {}
    /\ gaveUp = {}
    /\ faults = 0

Fault ==
    /\ faults < MaxFaults
    /\ faults' = faults + 1

\* An event written to the journal carries the live claim projection.
RecordEvent(projection) ==
    /\ live' = projection
    /\ saved' = projection

(***************************************************************************)
(* The admission pass.                                                     *)
(***************************************************************************)
\* schedule_once admits the claims; they are handed to the caller, or have
\* to be given back because the graph version moved during admission or
\* because observe_vpg or reconcile raised.
RunPass(admitted) ==
    /\ pass = {}
    /\ \A c \in admitted : live[c] = "none"
    /\ RecordEvent([c \in Claims |-> IF c \in admitted THEN "active" ELSE live[c]])
    /\ leases' = leases \cup admitted
    /\ pass' \in {{}, admitted}
    /\ UNCHANGED <<required, closed, calls, reported, gaveUp, faults>>

\* release_task with the exact claim: nothing is done for a claim that is no
\* longer active.
NothingToRelease(c) ==
    /\ c \in pass
    /\ live[c] # "active"
    /\ pass' = pass \ {c}
    /\ UNCHANGED <<live, saved, leases, required, closed, calls, reported,
                   gaveUp, faults>>

Released(c) ==
    /\ c \in pass
    /\ live[c] = "active"
    /\ RecordEvent([live EXCEPT ![c] = "released"])
    /\ leases' = leases \ {c}
    /\ pass' = pass \ {c}
    /\ UNCHANGED <<required, closed, calls, reported, gaveUp, faults>>

\* What a release that raises leaves behind: the Kernel refused (nothing
\* changed), it released but the answer was lost, or the lease went and the
\* CLAIM_RELEASED event could not be written.
ReleaseRaises(c) ==
    \/ UNCHANGED <<live, leases>>
    \/ /\ leases' = leases \ {c}
       /\ UNCHANGED live
    \/ /\ leases' = leases \ {c}
       /\ live' = [live EXCEPT ![c] = "released"]

\* The marker of a claim already marked is found again and nothing is written.
\* (Marking it with another text raises ValueError; a pass gives a claim back
\* once, and so never marks it twice.)
MarkerWritten(c) ==
    /\ required' = required \cup {c}
    /\ saved' = IF c \in required THEN saved ELSE live'
    /\ UNCHANGED reported

\* The marker write fails as well: the diagnostic goes to the caller.
MarkerRefused(c) ==
    /\ faults + 1 < MaxFaults
    /\ reported' = reported \cup {c}
    /\ UNCHANGED <<required, saved>>

FailedExactCleanup(c) ==
    /\ c \in pass
    /\ live[c] = "active"
    /\ faults < MaxFaults
    /\ ReleaseRaises(c)
    /\ \/ MarkerWritten(c) /\ faults' = faults + 1
       \/ MarkerRefused(c) /\ faults' = faults + 2
    /\ gaveUp' = gaveUp \cup {c}
    /\ pass' = pass \ {c}
    /\ UNCHANGED <<closed, calls>>

(***************************************************************************)
(* What happens to the ownership meanwhile.                                *)
(***************************************************************************)
\* The worker that got the claim, or a later release, ends it normally.
Finish(c) ==
    /\ live[c] = "active"
    /\ c \notin pass
    /\ RecordEvent([live EXCEPT ![c] = "released"])
    /\ leases' = leases \ {c}
    /\ UNCHANGED <<required, closed, pass, calls, reported, gaveUp, faults>>

\* The process behind the lease dies, or the lease expires.
LeaseEnds(c) ==
    /\ c \in leases
    /\ leases' = leases \ {c}
    /\ UNCHANGED <<live, saved, required, closed, pass, calls, reported,
                   gaveUp, faults>>

\* reconcile: an active claim without its lease is lost.
Reconcile ==
    LET lost == {c \in Claims : live[c] = "active" /\ c \notin leases}
    IN  /\ lost # {}
        /\ RecordEvent([c \in Claims |-> IF c \in lost THEN "lost" ELSE live[c]])
        /\ UNCHANGED <<leases, required, closed, pass, calls, reported, gaveUp,
                       faults>>

Restart ==
    /\ live' = saved
    /\ pass' = {}
    /\ calls' = [t \in Tools |-> {}]
    /\ UNCHANGED <<saved, leases, required, closed, reported, gaveUp, faults>>

(***************************************************************************)
(* Closing a marker.                                                       *)
(***************************************************************************)
Statuses(c) == {e.status : e \in {e \in closed : e.claim = c}}

\* _pending_cleanup_markers_locked
Pending == {c \in required : Statuses(c) = {}}

\* The first lock region of record_cleanup_resolution.
BeginResolution(t, c, status) ==
    /\ calls[t] = {}
    /\ c \in required
    /\ Statuses(c) \subseteq {status}
    /\ calls' = [calls EXCEPT ![t] = {[claim |-> c, status |-> status]}]
    /\ UNCHANGED <<live, saved, leases, required, closed, pass, reported,
                   gaveUp, faults>>

ConcurrentlyClosed_Unread(c, status) == FALSE

\* The second lock region looks for the opposite closing event again.
ConcurrentlyClosed(c, status) ==
    \E other \in Statuses(c) : other # status

\* It raises, finds its own event (a conflict when the reason differs, with
\* the same effect), or appends it.
EndResolution(t) ==
    /\ \E call \in calls[t] :
         IF ConcurrentlyClosed(call.claim, call.status)
              \/ call.status \in Statuses(call.claim)
         THEN UNCHANGED <<live, saved, closed>>
         ELSE /\ closed' = closed \cup {[claim |-> call.claim,
                                         status |-> call.status,
                                         by |-> "tool"]}
              /\ RecordEvent(live)
    /\ calls' = [calls EXCEPT ![t] = {}]
    /\ UNCHANGED <<leases, required, pass, reported, gaveUp, faults>>

OwnershipGone_LeaseOnly(c, unread) == c \notin leases

\* The exact claim is terminal and the lease lookup, which may raise,
\* finds nothing.
OwnershipGone(c, unread) ==
    /\ live[c] \in Terminal
    /\ c \notin unread
    /\ c \notin leases

\* reconcile_cleanup_markers holds the (re-entrant) lock throughout.
ReconcileMarkers(unread) ==
    LET gone == {c \in Pending : OwnershipGone(c, unread)}
    IN  /\ gone # {}
        /\ closed' = closed \cup {[claim |-> c, status |-> "resolved",
                                   by |-> "audit"] : c \in gone}
        /\ RecordEvent(live)
        /\ IF unread = {} THEN UNCHANGED faults ELSE Fault
        /\ UNCHANGED <<leases, required, pass, calls, reported, gaveUp>>

Next ==
    \/ \E admitted \in SUBSET Claims \ {{}} : RunPass(admitted)
    \/ \E c \in Claims : \/ NothingToRelease(c)
                         \/ Released(c)
                         \/ FailedExactCleanup(c)
                         \/ Finish(c)
                         \/ LeaseEnds(c)
    \/ Reconcile
    \/ Restart
    \/ \E t \in Tools, c \in Claims, status \in {"resolved", "superseded"} :
         BeginResolution(t, c, status)
    \/ \E t \in Tools : EndResolution(t)
    \/ \E unread \in SUBSET Claims : ReconcileMarkers(unread)

Spec == Init /\ [][Next]_vars

(***************************************************************************)
(* Properties.                                                             *)
(***************************************************************************)
\* A cleanup that failed is never forgotten and never blessed too early: a
\* claim the pass could not give back has a marker in the journal or was
\* reported to the caller; two recovery threads never close one marker as
\* resolved and as superseded; and once the audit has resolved a marker, no
\* live lease is behind the claim and the claim is terminal in the durable
\* projection too, so no restart brings that ownership back.
CleanupIsHonest ==
    /\ gaveUp \subseteq required \cup reported
    /\ \A c \in Claims : \A s, r \in Statuses(c) : s = r
    /\ \A e \in closed : e.by = "audit" =>
         /\ e.claim \notin leases
         /\ live[e.claim] \in Terminal
         /\ saved[e.claim] \in Terminal
(***************************************************************************)
(* The proof.  Honesty is inductive beside the types: the audit closes a   *)
(* marker only in a state from which its claim cannot become active again, *)
(* and the second lock region reads the journal it appends to.             *)
(***************************************************************************)
ClaimStates == {"none", "active"} \cup Terminal

Resolutions == {"resolved", "superseded"}

TypeOK ==
    /\ live \in [Claims -> ClaimStates]
    /\ saved \in [Claims -> ClaimStates]
    /\ leases \subseteq Claims
    /\ required \subseteq Claims
    /\ pass \subseteq Claims
    /\ closed \subseteq [claim : Claims, status : Resolutions, by : {"tool", "audit"}]
    /\ calls \in [Tools -> SUBSET [claim : Claims, status : Resolutions]]

Honest == TypeOK /\ CleanupIsHonest

\* Two closing events of one claim say the same.
LEMMA OneStatus ==
    ASSUME TypeOK, \A c \in Claims : \A s, r \in Statuses(c) : s = r
    PROVE  \A e, f \in closed : e.claim = f.claim => e.status = f.status
<1> TAKE e, f \in closed
<1> HAVE e.claim = f.claim
<1>1. e.claim \in Claims
  BY DEF TypeOK
<1>2. e.status \in Statuses(e.claim) /\ f.status \in Statuses(e.claim)
  BY DEF Statuses
<1> QED BY <1>1, <1>2

\* A new scheduler: no claim, no marker.
LEMMA HonestInit == Init => Honest
<1> SUFFICES ASSUME Init PROVE Honest
  OBVIOUS
<1>1. TypeOK
  BY DEF Init, TypeOK, ClaimStates
<1>2. CleanupIsHonest
  BY DEF Init, CleanupIsHonest, Statuses
<1> QED BY <1>1, <1>2 DEF Honest

\* What passes, releases, ended leases, audits and restarts leave alone: a step
\* that closes no marker keeps the closed ones honest when it neither revives
\* a terminal claim nor leases one.
LEMMA HonestFrame ==
    ASSUME Honest, TypeOK', closed' = closed,
           gaveUp' \subseteq required' \cup reported',
           \A c \in Claims : live[c] \in Terminal /\ saved[c] \in Terminal =>
              /\ live'[c] \in Terminal /\ saved'[c] \in Terminal
              /\ c \notin leases => c \notin leases'
    PROVE  Honest'
BY DEF Honest, TypeOK, CleanupIsHonest, Statuses

\* Every step of passes, workers, recovery tools, audits and restarts keeps
\* the markers honest.
LEMMA HonestStep == Honest /\ [Next]_vars => Honest'
<1> SUFFICES ASSUME Honest, [Next]_vars PROVE Honest'
  OBVIOUS
<1>0. TypeOK /\ gaveUp \subseteq required \cup reported
  BY DEF Honest, CleanupIsHonest
<1>1. ASSUME NEW admitted \in SUBSET Claims, RunPass(admitted) PROVE Honest'
  <2>1. TypeOK'
    BY <1>0, <1>1 DEF TypeOK, RunPass, RecordEvent, ClaimStates
  <2>2. \A c \in Claims : live[c] \in Terminal =>
           /\ live'[c] \in Terminal /\ saved'[c] \in Terminal
           /\ c \notin leases => c \notin leases'
    BY <1>0, <1>1 DEF TypeOK, RunPass, RecordEvent, Terminal
  <2> QED BY <1>0, <1>1, <2>1, <2>2, HonestFrame DEF RunPass
<1>2. ASSUME NEW c \in Claims, NothingToRelease(c) PROVE Honest'
  BY <1>0, <1>2, HonestFrame DEF NothingToRelease, TypeOK
<1>3. ASSUME NEW c \in Claims, Released(c) \/ Finish(c) PROVE Honest'
  <2>1. TypeOK'
    BY <1>0, <1>3 DEF TypeOK, Released, Finish, RecordEvent, ClaimStates, Terminal
  <2>2. \A d \in Claims : live[d] \in Terminal =>
           /\ live'[d] \in Terminal /\ saved'[d] \in Terminal
           /\ d \notin leases => d \notin leases'
    BY <1>0, <1>3 DEF TypeOK, Released, Finish, RecordEvent, Terminal
  <2> QED BY <1>0, <1>3, <2>1, <2>2, HonestFrame DEF Released, Finish
<1>4. ASSUME NEW c \in Claims, FailedExactCleanup(c) PROVE Honest'
  <2>1. /\ live' \in [Claims -> ClaimStates] /\ leases' \subseteq leases
        /\ \A d \in Claims : live[d] \in Terminal => live'[d] \in Terminal
    BY <1>0, <1>4 DEF TypeOK, FailedExactCleanup, ReleaseRaises, ClaimStates, Terminal
  <2>2. /\ saved' \in {saved, live'}
        /\ required' \in {required, required \cup {c}}
        /\ gaveUp' \subseteq required' \cup reported'
    BY <1>0, <1>4 DEF FailedExactCleanup, MarkerWritten, MarkerRefused
  <2>3. TypeOK'
    BY <1>0, <1>4, <2>1, <2>2 DEF TypeOK, FailedExactCleanup
  <2> QED BY <1>4, <2>1, <2>2, <2>3, HonestFrame DEF FailedExactCleanup
<1>5. ASSUME NEW c \in Claims, LeaseEnds(c) PROVE Honest'
  BY <1>0, <1>5, HonestFrame DEF LeaseEnds, TypeOK
<1>6. CASE Reconcile
  <2>1. TypeOK'
    BY <1>0, <1>6 DEF TypeOK, Reconcile, RecordEvent, ClaimStates, Terminal
  <2>2. \A c \in Claims : live[c] \in Terminal =>
           live'[c] \in Terminal /\ saved'[c] \in Terminal
    BY <1>0, <1>6 DEF TypeOK, Reconcile, RecordEvent, Terminal
  <2> QED BY <1>0, <1>6, <2>1, <2>2, HonestFrame DEF Reconcile
<1>7. CASE Restart
  BY <1>0, <1>7, HonestFrame DEF Restart, TypeOK
<1>8. ASSUME NEW t \in Tools, NEW c \in Claims, NEW status \in Resolutions,
             BeginResolution(t, c, status)
      PROVE  Honest'
  BY <1>0, <1>8, HonestFrame DEF BeginResolution, TypeOK
<1>9. ASSUME NEW t \in Tools, EndResolution(t) PROVE Honest'
  <2>1. PICK call \in calls[t] :
             IF ConcurrentlyClosed(call.claim, call.status)
                  \/ call.status \in Statuses(call.claim)
             THEN UNCHANGED <<live, saved, closed>>
             ELSE /\ closed' = closed \cup {[claim |-> call.claim,
                                             status |-> call.status,
                                             by |-> "tool"]}
                  /\ RecordEvent(live)
    BY <1>9 DEF EndResolution
  <2>2. /\ calls' = [calls EXCEPT ![t] = {}]
        /\ UNCHANGED <<leases, required, pass, reported, gaveUp, faults>>
    BY <1>9 DEF EndResolution
  <2>3. call \in [claim : Claims, status : Resolutions]
    BY <1>0, <2>1 DEF TypeOK
  <2>4. CASE UNCHANGED <<live, saved, closed>>
    BY <1>0, <2>2, <2>4, HonestFrame DEF TypeOK
  <2>5. CASE /\ Statuses(call.claim) = {}
             /\ closed' = closed \cup {[claim |-> call.claim,
                                        status |-> call.status, by |-> "tool"]}
             /\ RecordEvent(live)
    <3>1. TypeOK'
      BY <1>0, <2>2, <2>3, <2>5 DEF TypeOK, RecordEvent
    <3>2. \A e, f \in closed' : e.claim = f.claim => e.status = f.status
      BY <1>0, <2>3, <2>5, OneStatus DEF Honest, CleanupIsHonest, Statuses
    <3>3. \A c \in Claims : \A s, r \in Statuses(c)' : s = r
      BY <3>1, <3>2 DEF TypeOK, Statuses
    <3> QED BY <1>0, <2>2, <2>5, <3>1, <3>3 DEF Honest, CleanupIsHonest, RecordEvent
  <2> QED BY <2>1, <2>4, <2>5 DEF ConcurrentlyClosed
<1>10. ASSUME NEW unread \in SUBSET Claims, ReconcileMarkers(unread) PROVE Honest'
  <2>1. PICK gone \in SUBSET Pending :
             /\ \A c \in gone : live[c] \in Terminal /\ c \notin leases
             /\ closed' = closed \cup {[claim |-> c, status |-> "resolved",
                                        by |-> "audit"] : c \in gone}
    BY <1>10 DEF ReconcileMarkers, OwnershipGone
  <2>2. /\ live' = live /\ saved' = live
        /\ UNCHANGED <<leases, required, pass, calls, reported, gaveUp>>
    BY <1>10 DEF ReconcileMarkers, RecordEvent
  <2>3. TypeOK'
    BY <1>0, <2>1, <2>2 DEF TypeOK, Pending, Resolutions
  <2>4. \A e \in closed : e.claim \notin gone
    BY <2>1 DEF Pending, Statuses
  <2>5. \A e, f \in closed' : e.claim = f.claim => e.status = f.status
    BY <1>0, <2>1, <2>4, OneStatus DEF Honest, CleanupIsHonest
  <2>6. \A c \in Claims : \A s, r \in Statuses(c)' : s = r
    BY <2>3, <2>5 DEF TypeOK, Statuses
  <2>7. \A e \in closed' : e.by = "audit" =>
           e.claim \notin leases' /\ live'[e.claim] \in Terminal /\ saved'[e.claim] \in Terminal
    BY <2>1, <2>2 DEF Honest, CleanupIsHonest
  <2> QED BY <1>0, <2>2, <2>3, <2>6, <2>7 DEF Honest, CleanupIsHonest
<1>11. CASE UNCHANGED vars
  BY <1>0, <1>11, HonestFrame DEF vars, TypeOK
<1> QED
  BY <1>1, <1>2, <1>3, <1>4, <1>5, <1>6, <1>7, <1>8, <1>9, <1>10, <1>11
     DEF Next, Resolutions

\* A failed cleanup is never forgotten and never blessed too early, for any
\* number of claims, recovery threads, faults and restarts.
THEOREM CleanupHonest == Spec => []CleanupIsHonest
<1>1. Honest => CleanupIsHonest
  BY DEF Honest
<1> QED BY HonestInit, HonestStep, <1>1, PTL DEF Spec
=============================================================================
