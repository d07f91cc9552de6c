------------------------ MODULE ClaimSchedulerProofs ------------------------
(***************************************************************************)
(* Proofs about ClaimScheduler, for every set of tasks and agents and every *)
(* bound on claims, versions, faults and crashes.                           *)
(*                                                                          *)
(* The snapshot on disk is a moment the memory went through: whatever holds *)
(* of the claims in memory after a step that saves them (Sound) holds of    *)
(* the snapshot, and between two saves the memory only goes on from it      *)
(* (Evolves).  A crash therefore leads back to a state the invariant        *)
(* allows.  OpInv is what the operation under way has established and not   *)
(* yet used; the lock keeps other operations from disturbing it, while the  *)
(* Kernel and the graph may move.                                           *)
(***************************************************************************)
EXTENDS ClaimScheduler, TLAPS, FiniteSetTheorems, WellFoundedInduction

Ended(cs, i) == i \in DOMAIN cs /\ cs[i].state \in TerminalClaimStates

\* ds goes on from cs: no claim is forgotten, moved, unbound or revived.
Evolves(cs, ds) ==
    /\ Len(cs) <= Len(ds)
    /\ \A i \in DOMAIN cs :
          /\ ds[i].task = cs[i].task /\ ds[i].agent = cs[i].agent
          /\ ds[i].inc = cs[i].inc /\ ds[i].replaces = cs[i].replaces
          /\ cs[i].bound => ds[i].bound
          /\ cs[i].state \in TerminalClaimStates => ds[i].state = cs[i].state

\* A task has at most one claim that has not ended.
OneLive(cs) ==
    \A i, j \in Live(cs) : cs[i].task = cs[j].task => i = j

\* A claim that owns or owned its task has been bound to a lease.
BoundIn(cs) ==
    \A i \in DOMAIN cs : cs[i].state \in {"active", "completed"} => cs[i].bound

EvidencedIn(cs) ==
    \A i \in DOMAIN cs :
        cs[i].state = "completed" =>
            /\ cs[i].attempt \in {"succeeded", "verified"}
            /\ \E e \in evidence : e[1] = i

\* Every Kernel row is the row of a claim that has not ended.
RowsIn(cs) ==
    \A r \in leases :
        /\ r.claim \in Live(cs)
        /\ cs[r.claim].task = r.task /\ cs[r.claim].agent = r.agent
        /\ cs[r.claim].inc = r.inc

ReplacedIn(cs) ==
    /\ Ended(cs, handoff.source)
    /\ \E i \in DOMAIN cs : cs[i].replaces /\ cs[i].bound

\* The source of a handoff has ended before anything replaces it.
HandoffIn(cs) ==
    /\ handoff.phase # "none" => handoff.source \in DOMAIN cs
    /\ \A i \in DOMAIN cs :
          cs[i].replaces => /\ handoff.phase # "none" /\ cs[i].agent = handoff.agent
                            /\ Ended(cs, handoff.source)
    /\ handoff.started => Ended(cs, handoff.source)
    /\ handoff.phase = "committed" => ReplacedIn(cs)

Sound(cs) ==
    /\ cs \in Seq(Claim) /\ Len(cs) <= MaxClaims
    /\ OneLive(cs) /\ BoundIn(cs) /\ EvidencedIn(cs) /\ RowsIn(cs) /\ HandoffIn(cs)

Ahead == Len(claims) = Len(disk.claims) /\ Evolves(disk.claims, claims)

HeldBy(S, cs, a) == {i \in S : cs[i].agent = a}
Fits(S, cs) == \A a \in Agents : Cardinality(HeldBy(S, cs, a)) <= Capacity

ReservedInv ==
    /\ reserved \subseteq DOMAIN claims /\ Live(claims) \subseteq reserved
    /\ Fits(reserved, claims) /\ Fits(Live(disk.claims), disk.claims)

HandoffInv ==
    /\ handoff.phase # "none" => handoff.agent \in Agents
    /\ handoff.phase \in {"none", "prepared", "aborted", "refused"} => ~handoff.started

OpRecord == [at : {"idle", "acquire", "activate", "undo", "mark_key", "free", "record",
                   "clear", "reconcile", "settle", "retire", "retired", "handoff",
                   "reassign", "replace", "reassigned", "close"},
             claim : 0..MaxClaims,
             to : {"none", "completed", "released", "retried", "committed",
                   "refused", "failed_closed"},
             seen : SUBSET ClaimIds, agent : Agents \cup {"none"},
             version : 0..MaxVersion, handoff : BOOLEAN]

\* No claim of the task being handed over has not ended.
SourceIsFree ==
    /\ Ended(claims, handoff.source)
    /\ \A j \in Live(claims) : claims[j].task # claims[handoff.source].task

OpInv ==
    /\ op \in OpRecord
    /\ op.handoff => handoff.phase = "committing"
    /\ op.at \in {"handoff", "reassign", "replace", "reassigned", "close"} => op.handoff
    /\ op.at \in {"mark_key", "free", "record", "reconcile", "settle", "retire",
                  "retired"} => ~op.handoff
    /\ op.at \in {"acquire", "activate", "undo", "mark_key", "free", "record", "clear",
                  "retired", "handoff", "reassign", "reassigned"} => op.claim \in DOMAIN claims
    /\ op.at = "acquire" => claims[op.claim].state = "acquiring" /\ RowsOf(op.claim) = {}
    /\ op.at \in {"activate", "undo", "free"} => claims[op.claim].state = "active"
    /\ op.at \in {"acquire", "activate", "reassigned"} =>
          (op.handoff => claims[op.claim].replaces)
    /\ op.at = "reassigned" => claims[op.claim].bound
    /\ op.at = "free" /\ op.to = "completed" =>
          /\ claims[op.claim].attempt = "verified"
          /\ \E e \in evidence : e[1] = op.claim
    /\ op.at = "record" => claims[op.claim].state \in TerminalClaimStates
    /\ op.at = "settle" => op.seen \subseteq InState(claims, TerminalClaimStates)
    /\ op.at = "retired" => op.claim \in Live(claims) /\ RowsOf(op.claim) = {}
    /\ op.at \in {"reassign", "clear", "replace"} => (op.handoff => SourceIsFree)
    /\ op.at = "close" =>
          /\ op.to \in {"committed", "refused", "failed_closed"}
          /\ op.to = "committed" => ReplacedIn(claims)
          /\ op.to = "refused" => ~handoff.started

ClaimInv ==
    /\ TypeOK /\ Sound(claims) /\ Sound(disk.claims) /\ Ahead
    /\ ReservedInv /\ HandoffInv /\ OpInv

-----------------------------------------------------------------------------
(* Sequences, minima and finite sets.                                       *)

\* A claim table is a function of the claim ids in use, and back.
LEMMA TableIsFunction ==
    ASSUME NEW cs \in Seq(Claim)
    PROVE  /\ Len(cs) \in Nat /\ DOMAIN cs = 1..Len(cs)
           /\ cs \in [1..Len(cs) -> Claim]
           /\ \A i \in DOMAIN cs : cs[i] \in Claim
BY SMTT(30)

LEMMA FunctionIsTable ==
    ASSUME NEW n \in Nat, NEW cs \in [1..n -> Claim]
    PROVE  cs \in Seq(Claim) /\ Len(cs) = n /\ DOMAIN cs = 1..n
BY SMTT(30)

\* Proposing a claim leaves the others as they are.
LEMMA AppendedTable ==
    ASSUME NEW cs \in Seq(Claim), NEW c \in Claim
    PROVE  /\ Append(cs, c) \in Seq(Claim)
           /\ Len(Append(cs, c)) = Len(cs) + 1
           /\ DOMAIN Append(cs, c) = DOMAIN cs \cup {Len(cs) + 1}
           /\ Append(cs, c)[Len(cs) + 1] = c
           /\ \A i \in DOMAIN cs : Append(cs, c)[i] = cs[i]
BY SMTT(30)

\* reconcile and retire_agent_process walk the claims in order: the next one
\* exists and is one of those that remain.
LEMMA SmallestIsMember ==
    ASSUME NEW S, S \subseteq Nat, S # {}
    PROVE  SmallestOf(S) \in S
<1> DEFINE Less == {p \in Nat \X Nat : p[1] < p[2]}
<1>1. OpToRel(<, Nat) = Less
  BY Zenon DEF OpToRel
<1>2. PICK x \in S : \A y \in S : ~(<<y, x>> \in Less)
  BY <1>1, NatLessThanWellFounded, WFMin, Zenon
<1>3. ASSUME NEW y \in S
      PROVE  x <= y
  <2>1. x \in Nat /\ y \in Nat
    BY Zenon
  <2>2. ~(y < x)
    BY <1>2, <2>1, Zenon
  <2>. QED  BY <2>1, <2>2, SMTT(30)
<1>. QED  BY <1>3, Zenon DEF SmallestOf

LEMMA LiveIsUnended ==
    ASSUME NEW cs \in Seq(Claim)
    PROVE  /\ Live(cs) \subseteq DOMAIN cs
           /\ \A i \in DOMAIN cs : i \in Live(cs) <=> cs[i].state \in {"acquiring", "active"}
           /\ \A i \in DOMAIN cs : i \in Live(cs) <=> cs[i].state \notin TerminalClaimStates
<1>1. \A i \in DOMAIN cs : cs[i].state \in ClaimStates
  BY TableIsFunction, Zenon DEF Claim
<1>. QED  BY <1>1, Zenon DEF Live, InState, ClaimStates, TerminalClaimStates

\* Fewer claims of the same agents need no more resources.
LEMMA FewerFit ==
    ASSUME NEW S, NEW T, NEW cs, NEW ds, IsFiniteSet(T), S \subseteq T,
           \A i \in S : ds[i].agent = cs[i].agent,
           Fits(T, cs)
    PROVE  Fits(S, ds)
<1> SUFFICES ASSUME NEW a \in Agents
             PROVE  Cardinality(HeldBy(S, ds, a)) <= Capacity
  BY Zenon DEF Fits
<1>1. HeldBy(S, ds, a) \subseteq HeldBy(T, cs, a) /\ HeldBy(T, cs, a) \subseteq T
  BY Zenon DEF HeldBy
<1>2. IsFiniteSet(HeldBy(T, cs, a))
  BY <1>1, FS_Subset, Zenon
<1>3. /\ IsFiniteSet(HeldBy(S, ds, a))
      /\ Cardinality(HeldBy(S, ds, a)) <= Cardinality(HeldBy(T, cs, a))
  BY <1>1, <1>2, FS_Subset, Zenon
<1>4. /\ Cardinality(HeldBy(S, ds, a)) \in Nat /\ Cardinality(HeldBy(T, cs, a)) \in Nat
      /\ Capacity \in Nat
  BY <1>2, <1>3, FS_CardinalityType, BoundsAssumption, Zenon
<1>5. Cardinality(HeldBy(T, cs, a)) <= Capacity
  BY Zenon DEF Fits
<1>. QED  BY <1>3, <1>4, <1>5, SMTT(30)

\* A claim fits when its agent's resources are not used up.
LEMMA OneMoreFits ==
    ASSUME NEW S, IsFiniteSet(S), NEW n, n \notin S, NEW cs, NEW ds,
           \A i \in S : ds[i].agent = cs[i].agent,
           Fits(S, cs), ~(Cardinality(HeldBy(S, cs, ds[n].agent)) >= Capacity)
    PROVE  Fits(S \cup {n}, ds)
<1> SUFFICES ASSUME NEW a \in Agents
             PROVE  Cardinality(HeldBy(S \cup {n}, ds, a)) <= Capacity
  BY Zenon DEF Fits
<1>1. IsFiniteSet(HeldBy(S, cs, a)) /\ n \notin HeldBy(S, cs, a)
  <2>1. HeldBy(S, cs, a) \subseteq S
    BY Zenon DEF HeldBy
  <2>. QED  BY <2>1, FS_Subset, Zenon
<1>2. Cardinality(HeldBy(S, cs, a)) \in Nat /\ Capacity \in Nat
  BY <1>1, FS_CardinalityType, BoundsAssumption, Zenon
<1>3. CASE ds[n].agent = a
  <2>1. HeldBy(S \cup {n}, ds, a) = HeldBy(S, cs, a) \cup {n}
    BY <1>3, Zenon DEF HeldBy
  <2>2. Cardinality(HeldBy(S, cs, a) \cup {n}) = Cardinality(HeldBy(S, cs, a)) + 1
    BY <1>1, FS_AddElement, Zenon
  <2>3. ~(Cardinality(HeldBy(S, cs, a)) >= Capacity)
    BY <1>3, Zenon
  <2>4. Cardinality(HeldBy(S \cup {n}, ds, a)) = Cardinality(HeldBy(S, cs, a)) + 1
    BY <2>1, <2>2, Zenon
  <2> HIDE DEF HeldBy
  <2>. QED  BY <1>2, <2>3, <2>4, SMTT(30)
<1>4. CASE ds[n].agent # a
  <2>1. HeldBy(S \cup {n}, ds, a) = HeldBy(S, cs, a)
    BY <1>4, Zenon DEF HeldBy
  <2>. QED  BY <2>1, Zenon DEF Fits
<1>. QED  BY <1>3, <1>4, Zenon

LEMMA TableIsFinite ==
    ASSUME NEW cs \in Seq(Claim), NEW S, S \subseteq DOMAIN cs
    PROVE  IsFiniteSet(S)
<1>1. DOMAIN cs = 1..Len(cs) /\ Len(cs) \in Nat
  BY TableIsFunction, Zenon
<1>2. IsFiniteSet(1..Len(cs))
  BY <1>1, FS_Interval, SMTT(30)
<1>. QED  BY <1>1, <1>2, FS_Subset, Zenon

-----------------------------------------------------------------------------
(* What all steps share.                                                    *)

\* The snapshot is kept or becomes the memory of the step, so that it stays
\* sound and behind the memory.
LEMMA DiskFollows ==
    ASSUME ClaimInv, Sound(claims)', Len(claims') = Len(claims), Evolves(claims, claims'),
           handoff' = handoff, evidence \subseteq evidence',
           disk' = disk \/ disk'.claims = claims'
    PROVE  Sound(disk.claims)' /\ Ahead'
<1>1. CASE disk'.claims = claims'
  <2>1. Sound(disk.claims)'
    BY <1>1, SMTT(30) DEF Sound, OneLive, BoundIn, EvidencedIn, RowsIn, HandoffIn, ReplacedIn,
                Ended, Live, InState
  <2>2. claims' \in Seq(Claim)
    BY Zenon DEF Sound
  <2>. QED  BY <1>1, <2>1, <2>2, Zenon DEF Ahead, Evolves
<1>2. CASE disk' = disk
  <2>1. /\ claims \in Seq(Claim) /\ claims' \in Seq(Claim) /\ disk.claims \in Seq(Claim)
        /\ Len(claims) = Len(disk.claims) /\ Len(claims') = Len(claims)
        /\ DOMAIN claims = DOMAIN disk.claims /\ DOMAIN claims' = DOMAIN claims
    BY SMTT(30) DEF ClaimInv, Sound, Ahead
  <2>2. Ahead'
    BY <1>2, <2>1, SMTT(30) DEF ClaimInv, Ahead, Evolves
  <2>3. RowsIn(disk.claims)'
    <3> SUFFICES ASSUME NEW r \in leases'
                 PROVE  /\ r.claim \in Live(disk.claims)
                        /\ disk.claims[r.claim].task = r.task
                        /\ disk.claims[r.claim].agent = r.agent
                        /\ disk.claims[r.claim].inc = r.inc
      BY <1>2, Zenon DEF RowsIn, Live, InState
    <3>1. /\ r.claim \in Live(claims') /\ claims'[r.claim].task = r.task
          /\ claims'[r.claim].agent = r.agent /\ claims'[r.claim].inc = r.inc
      BY Zenon DEF Sound, RowsIn, Live, InState
    <3>2. r.claim \in DOMAIN claims' /\ claims'[r.claim].state \notin TerminalClaimStates
      BY <2>1, <3>1, LiveIsUnended, Zenon
    <3>3. Evolves(disk.claims, claims')
      BY <1>2, <2>2, Zenon DEF Ahead, Evolves
    <3>. QED  BY <2>1, <3>1, <3>2, <3>3, LiveIsUnended, Zenon DEF Evolves
  <2>4. /\ EvidencedIn(disk.claims)' /\ HandoffIn(disk.claims)'
        /\ OneLive(disk.claims)' /\ BoundIn(disk.claims)'
    BY <1>2, SMTT(30) DEF ClaimInv, Sound, EvidencedIn, HandoffIn, ReplacedIn, Ended,
                OneLive, Live, InState, BoundIn
  <2>. QED  BY <1>2, <2>1, <2>2, <2>3, <2>4, Zenon DEF ClaimInv, Sound
<1>. QED  BY <1>1, <1>2, Zenon

\* Reservations are only given back, and not those of claims that go on.
LEMMA ReservedFollows ==
    ASSUME ClaimInv, Sound(claims)', Len(claims') = Len(claims), Evolves(claims, claims'),
           disk' = disk \/ disk'.claims = claims',
           reserved' \subseteq reserved, Live(claims') \subseteq reserved'
    PROVE  ReservedInv'
<1>1. /\ claims \in Seq(Claim) /\ claims' \in Seq(Claim) /\ DOMAIN claims' = DOMAIN claims
      /\ reserved' \subseteq DOMAIN claims' /\ reserved \subseteq DOMAIN claims
  BY SMTT(30) DEF ClaimInv, Sound, ReservedInv
<1>2. IsFiniteSet(reserved) /\ IsFiniteSet(reserved')
  BY <1>1, TableIsFinite, Zenon
<1>3. \A i \in DOMAIN claims : claims'[i].agent = claims[i].agent
  BY Zenon DEF Evolves
<1>4. Fits(reserved', claims')
  BY <1>1, <1>2, <1>3, FewerFit, SMTT(30) DEF ClaimInv, ReservedInv
<1>5. Fits(Live(disk'.claims), disk'.claims)
  <2>1. CASE disk' = disk
    BY <2>1, Zenon DEF ClaimInv, ReservedInv
  <2>2. CASE disk'.claims = claims'
    <3>1. Fits(Live(claims'), claims')
      BY <1>2, <1>4, FewerFit, Zenon
    <3>. QED  BY <2>2, <3>1, Zenon
  <2>. QED  BY <2>1, <2>2, Zenon
<1>. QED  BY <1>1, <1>4, <1>5, Zenon DEF ReservedInv, Fits, HeldBy, Live, InState

\* One claim that had not ended is updated and keeps its identity.
Updates(i) ==
    /\ i \in Live(claims)
    /\ claims' \in Seq(Claim) /\ Len(claims') = Len(claims)
    /\ \A j \in DOMAIN claims \ {i} : claims'[j] = claims[j]
    /\ claims'[i].task = claims[i].task /\ claims'[i].agent = claims[i].agent
    /\ claims'[i].inc = claims[i].inc /\ claims'[i].replaces = claims[i].replaces
    /\ claims[i].bound => claims'[i].bound

\* What the handoff needs of the claims, it keeps as they go on.
LEMMA HandoffFollows ==
    ASSUME ClaimInv, claims' \in Seq(Claim), Len(claims') = Len(claims),
           Evolves(claims, claims'), handoff' = handoff
    PROVE  HandoffIn(claims)'
<1>1. claims \in Seq(Claim) /\ DOMAIN claims' = DOMAIN claims /\ HandoffIn(claims)
  BY SMTT(30) DEF ClaimInv, Sound
<1>2. \A k : Ended(claims, k) => Ended(claims', k)
  BY <1>1, Zenon DEF Ended, Evolves
<1>3. ReplacedIn(claims) => ReplacedIn(claims)'
  BY <1>1, <1>2, Zenon DEF ReplacedIn, Evolves, Ended
<1>. QED  BY <1>1, <1>2, <1>3, Zenon DEF HandoffIn, Evolves, Ended

LEMMA UpdatedClaim ==
    ASSUME ClaimInv, NEW i, Updates(i), handoff' = handoff, evidence' = evidence,
           leases' \subseteq leases,
           claims'[i].state \in {"active", "completed"} => claims'[i].bound,
           claims'[i].state = "completed" =>
              /\ claims'[i].attempt \in {"succeeded", "verified"}
              /\ \E e \in evidence : e[1] = i,
           claims'[i].state \in TerminalClaimStates => \A r \in leases' : r.claim # i
    PROVE  /\ Sound(claims)' /\ Len(claims') = Len(claims) /\ Evolves(claims, claims')
           /\ Live(claims') \subseteq Live(claims)
<1>1. /\ claims \in Seq(Claim) /\ claims' \in Seq(Claim) /\ Len(claims') = Len(claims)
      /\ DOMAIN claims' = DOMAIN claims /\ i \in DOMAIN claims
      /\ Len(claims) <= MaxClaims /\ Len(claims) \in Nat
  BY LiveIsUnended, SMTT(30) DEF ClaimInv, Sound, Updates
<1>2. Evolves(claims, claims')
  BY <1>1, LiveIsUnended, SMTT(30) DEF Updates, Evolves
<1>3. Live(claims') \subseteq Live(claims)
  BY <1>1, LiveIsUnended, SMTT(30) DEF Updates
<1>4. OneLive(claims')
  BY <1>1, <1>2, <1>3, LiveIsUnended, SMTT(30) DEF ClaimInv, Sound, OneLive, Evolves
<1>5. BoundIn(claims')
  BY <1>1, Zenon DEF ClaimInv, Sound, BoundIn, Updates
<1>6. EvidencedIn(claims)'
  BY <1>1, SMTT(30) DEF ClaimInv, Sound, EvidencedIn, Updates
<1>7. RowsIn(claims)'
  BY <1>1, <1>2, LiveIsUnended, SMTT(30) DEF ClaimInv, Sound, RowsIn, Updates, Evolves
<1>8. HandoffIn(claims)'
  BY <1>1, <1>2, HandoffFollows, Zenon
<1>. QED  BY <1>1, <1>2, <1>3, <1>4, <1>5, <1>6, <1>7, <1>8, Zenon
          DEF Sound, OneLive, BoundIn, Live, InState

SafeStep == ClaimInv' /\ ReleaseEndsClaim /\ EndedIsFinal

LeaseRow == [task : Tasks, claim : ClaimIds, agent : Agents, inc : 0..MaxInc, live : BOOLEAN]
Saves == disk' = disk \/ disk' = [claims |-> claims', keys |-> keys']

LEMMA EvolvesOn ==
    ASSUME ClaimInv, Evolves(claims, claims'), Len(claims') = Len(claims), Saves,
           claims' \in Seq(Claim)
    PROVE  EndedIsFinal
<1>1. /\ claims \in Seq(Claim) /\ disk.claims \in Seq(Claim)
      /\ Len(claims) = Len(disk.claims) /\ Evolves(disk.claims, claims)
      /\ DOMAIN claims = DOMAIN disk.claims
  BY SMTT(30) DEF ClaimInv, Sound, Ahead
<1>2. CASE disk' = disk
  BY <1>1, <1>2, SMTT(30) DEF EndedIsFinal
<1>3. CASE disk' = [claims |-> claims', keys |-> keys']
  <2>1. disk'.claims = claims'
    BY <1>3, Zenon
  <2>2. \A i \in DOMAIN disk.claims : disk.claims[i].state \in TerminalClaimStates =>
           claims'[i].state = disk.claims[i].state
    BY <1>1, Zenon DEF Evolves
  <2>. QED  BY <1>1, <2>1, <2>2, SMTT(30) DEF EndedIsFinal, InState
<1>. QED  BY <1>2, <1>3, Zenon DEF Saves

\* A step of the scheduler that proposes no claim and leaves the handoff.
LEMMA MemoryStep ==
    ASSUME ClaimInv, Sound(claims)', Len(claims') = Len(claims), Evolves(claims, claims'),
           handoff' = handoff, evidence' = evidence, Saves,
           reserved' \subseteq reserved, Live(claims') \subseteq reserved',
           leases' \subseteq LeaseRow, keys' \subseteq Tasks \X (0..MaxVersion),
           UNCHANGED <<inc, dead, version, validity, stale_at, crashes>>,
           mishaps' \in 0..MaxMishaps, OpInv'
    PROVE  ClaimInv' /\ EndedIsFinal
<1>1. disk' = disk \/ disk'.claims = claims'
  BY SMTT(30) DEF Saves
<1>2. Sound(disk.claims)' /\ Ahead'
  BY <1>1, DiskFollows, Zenon
<1>3. ReservedInv'
  BY <1>1, ReservedFollows, Zenon
<1>4. HandoffInv'
  BY Zenon DEF ClaimInv, HandoffInv
<1>5. disk'.keys \subseteq Tasks \X (0..MaxVersion)
  BY SMTT(30) DEF ClaimInv, TypeOK, Saves
<1>6. TypeOK'
  BY <1>2, <1>3, <1>5, Zenon DEF ClaimInv, TypeOK, Sound, ReservedInv, OpInv, OpRecord, LeaseRow
<1>7. EndedIsFinal
  BY EvolvesOn, Zenon DEF Sound
<1>. QED  BY <1>2, <1>3, <1>4, <1>6, <1>7, Zenon DEF ClaimInv

\* A step that leaves the claims and the Kernel alone.
LEMMA FreeingStep ==
    ASSUME ClaimInv, UNCHANGED <<claims, leases, handoff, evidence>>, Saves,
           reserved' \subseteq reserved, Live(claims) \subseteq reserved',
           keys' \subseteq Tasks \X (0..MaxVersion),
           UNCHANGED <<inc, dead, version, validity, stale_at, crashes>>,
           mishaps' \in 0..MaxMishaps, OpInv'
    PROVE  SafeStep
<1>1. Sound(claims)'
  BY SMTT(30) DEF ClaimInv, Sound, OneLive, BoundIn, EvidencedIn, RowsIn, HandoffIn, ReplacedIn,
         Ended, Live, InState
<1>2. Evolves(claims, claims')
  BY SMTT(30) DEF ClaimInv, Sound, Evolves
<1>3. Live(claims') \subseteq reserved' /\ leases' \subseteq LeaseRow
  BY Zenon DEF ClaimInv, TypeOK, LeaseRow
<1>4. ClaimInv' /\ EndedIsFinal
  BY <1>1, <1>2, <1>3, MemoryStep, Zenon
<1>5. ReleaseEndsClaim
  BY Zenon DEF ReleaseEndsClaim
<1>. QED  BY <1>4, <1>5, Zenon DEF SafeStep

LEMMA QuietStep ==
    ASSUME ClaimInv, UNCHANGED <<claims, leases, handoff, evidence, reserved>>, Saves,
           keys' \subseteq Tasks \X (0..MaxVersion),
           UNCHANGED <<inc, dead, version, validity, stale_at, crashes>>,
           mishaps' \in 0..MaxMishaps, OpInv'
    PROVE  SafeStep
<1>1. reserved' \subseteq reserved /\ Live(claims) \subseteq reserved'
  BY Zenon DEF ClaimInv, ReservedInv
<1>. QED  BY <1>1, FreeingStep, Zenon

LEMMA Bounds ==
    /\ Capacity \in Nat /\ MaxAttempts \in Nat /\ MaxClaims \in Nat
    /\ MaxVersion \in Nat /\ MaxInc \in Nat /\ MaxMishaps \in Nat /\ MaxCrashes \in Nat
BY BoundsAssumption, Zenon

LEMMA IdleOp ==
    ASSUME op' = Idle
    PROVE  OpInv'
BY BoundsAssumption, SMTT(30) DEF OpInv, OpRecord, Idle

LEMMA RaisedOp ==
    ASSUME ClaimInv, op' = Raise, handoff' = handoff
    PROVE  OpInv'
<1>1. CASE ~op.handoff
  BY <1>1, IdleOp, Zenon DEF Raise
<1>2. CASE op.handoff
  <2>1. op' = [Idle EXCEPT !.at = "close", !.to = "failed_closed", !.handoff = TRUE]
    BY <1>2, Zenon DEF Raise
  <2>2. /\ op' = [at |-> "close", claim |-> 0, to |-> "failed_closed", seen |-> {},
                  agent |-> "none", version |-> 0, handoff |-> TRUE]
    BY <2>1, Zenon DEF Idle
  <2>3. handoff'.phase = "committing"
    BY <1>2, Zenon DEF ClaimInv, OpInv
  <2>4. op' \in OpRecord
    BY <2>2, Bounds, SMTT(30) DEF OpRecord
  <2>. QED  BY <2>2, <2>3, <2>4, SMTT(30) DEF OpInv
<1>. QED  BY <1>1, <1>2, Zenon

LEMMA MishapCount ==
    ASSUME ClaimInv, mishaps' = mishaps \/ Mishap
    PROVE  mishaps' \in 0..MaxMishaps
<1>1. MaxMishaps \in Nat /\ mishaps \in 0..MaxMishaps
  BY BoundsAssumption, Zenon DEF ClaimInv, TypeOK
<1>. QED  BY <1>1, SMTT(30) DEF Mishap

-----------------------------------------------------------------------------
(* One claim changes.                                                       *)

Becomes(i, s, b, x) ==
    /\ Updates(i)
    /\ claims'[i].state = s /\ claims'[i].bound = b /\ claims'[i].attempt = x

LEMMA ChangedClaim ==
    ASSUME ClaimInv, NEW i \in Live(claims), NEW s \in ClaimStates, NEW b \in BOOLEAN,
           NEW x \in AttemptStates, claims[i].bound => b,
           \/ claims' = [claims EXCEPT ![i].state = s, ![i].attempt = x] /\ b = claims[i].bound
           \/ claims' = [claims EXCEPT ![i].state = s, ![i].bound = b] /\ x = claims[i].attempt
           \/ claims' = [claims EXCEPT ![i].state = s] /\ b = claims[i].bound
                                                        /\ x = claims[i].attempt
           \/ claims' = [claims EXCEPT ![i].attempt = x] /\ b = claims[i].bound
                                                          /\ s = claims[i].state
           \/ claims' = [claims EXCEPT ![i].bound = b] /\ s = claims[i].state
                                                        /\ x = claims[i].attempt
    PROVE  Becomes(i, s, b, x)
<1>1. /\ claims \in Seq(Claim) /\ i \in DOMAIN claims /\ claims[i] \in Claim
      /\ Len(claims) \in Nat /\ DOMAIN claims = 1..Len(claims)
      /\ claims \in [1..Len(claims) -> Claim]
  BY LiveIsUnended, TableIsFunction, Zenon DEF ClaimInv, Sound
<1>2. /\ claims' \in [1..Len(claims) -> Claim]
      /\ \A j \in DOMAIN claims \ {i} : claims'[j] = claims[j]
      /\ claims'[i].task = claims[i].task /\ claims'[i].agent = claims[i].agent
      /\ claims'[i].inc = claims[i].inc /\ claims'[i].replaces = claims[i].replaces
      /\ claims'[i].bound = b /\ claims'[i].state = s /\ claims'[i].attempt = x
  <2>1. CASE claims' = [claims EXCEPT ![i].state = s, ![i].attempt = x] /\ b = claims[i].bound
    BY <1>1, <2>1, Zenon DEF Claim
  <2>2. CASE claims' = [claims EXCEPT ![i].state = s, ![i].bound = b] /\ x = claims[i].attempt
    BY <1>1, <2>2, Zenon DEF Claim
  <2>3. CASE claims' = [claims EXCEPT ![i].state = s] /\ b = claims[i].bound /\ x = claims[i].attempt
    BY <1>1, <2>3, Zenon DEF Claim
  <2>4. CASE claims' = [claims EXCEPT ![i].attempt = x] /\ b = claims[i].bound /\ s = claims[i].state
    BY <1>1, <2>4, Zenon DEF Claim
  <2>5. CASE claims' = [claims EXCEPT ![i].bound = b] /\ s = claims[i].state /\ x = claims[i].attempt
    BY <1>1, <2>5, Zenon DEF Claim
  <2>. QED  BY <2>1, <2>2, <2>3, <2>4, <2>5, Zenon
<1>. QED  BY <1>1, <1>2, FunctionIsTable, Zenon DEF Becomes, Updates

\* The rows found for a live claim are its own.
LEMMA RowsFound ==
    ASSUME ClaimInv, NEW i \in Live(claims)
    PROVE  /\ \A r \in lease_lookup(i) : r.claim = i
           /\ RowsOf(i) \subseteq lease_lookup(i)
<1>1. \A r \in leases : /\ r.claim \in Live(claims) /\ claims[r.claim].task = r.task
                        /\ claims[r.claim].agent = r.agent /\ claims[r.claim].inc = r.inc
  BY Zenon DEF ClaimInv, Sound, RowsIn
<1>2. \A j \in Live(claims) : claims[j].task = claims[i].task => j = i
  BY Zenon DEF ClaimInv, Sound, OneLive
<1>3. CASE claims[i].bound
  BY <1>3, Zenon DEF lease_lookup, RowsOf
<1>4. CASE ~claims[i].bound
  BY <1>1, <1>2, <1>4, Zenon DEF lease_lookup, RowsOf
<1>. QED  BY <1>3, <1>4, Zenon

\* A step of the scheduler on one live claim, by which it may lose its rows.
LEMMA ClaimStep ==
    ASSUME ClaimInv, NEW i \in Live(claims), NEW s, NEW b, NEW x, Becomes(i, s, b, x),
           s \in {"active", "completed"} => b,
           s = "completed" => x \in {"succeeded", "verified"} /\ \E e \in evidence : e[1] = i,
           UNCHANGED <<handoff, evidence, inc, dead, version, validity, stale_at, crashes>>,
           leases' \subseteq leases, \A r \in leases \ leases' : r.claim = i,
           s \in TerminalClaimStates => \A r \in leases' : r.claim # i,
           leases' = leases \/ s \in TerminalClaimStates
                            \/ (op'.at = "retired" /\ op'.claim = i),
           reserved' = reserved \/ (reserved' = reserved \ {i} /\ s \in TerminalClaimStates),
           Saves, keys' \subseteq Tasks \X (0..MaxVersion),
           mishaps' \in 0..MaxMishaps, OpInv'
    PROVE  SafeStep
<1>1. Updates(i) /\ claims'[i].state = s /\ claims'[i].bound = b /\ claims'[i].attempt = x
  BY Zenon DEF Becomes
<1>2. /\ Sound(claims)' /\ Len(claims') = Len(claims) /\ Evolves(claims, claims')
      /\ Live(claims') \subseteq Live(claims)
  BY <1>1, UpdatedClaim, Zenon
<1>3. s \in TerminalClaimStates => i \notin Live(claims')
  BY <1>1, Zenon DEF Live, InState, TerminalClaimStates
<1>4. reserved' \subseteq reserved /\ Live(claims') \subseteq reserved'
  BY <1>2, <1>3, Zenon DEF ClaimInv, ReservedInv
<1>5. leases' \subseteq LeaseRow
  BY Zenon DEF ClaimInv, TypeOK, LeaseRow
<1>6. ClaimInv' /\ EndedIsFinal
  BY <1>2, <1>4, <1>5, MemoryStep, Zenon
<1>7. ReleaseEndsClaim
  BY <1>1, Zenon DEF ReleaseEndsClaim
<1>. QED  BY <1>6, <1>7, Zenon DEF SafeStep

-----------------------------------------------------------------------------
(* schedule_once and _acquire_claim.                                        *)

LEMMA ActivateSafe ==
    ASSUME ClaimInv, Activate
    PROVE  SafeStep
<1>1. /\ op.at = "activate" /\ op \in OpRecord
      /\ op.claim \in DOMAIN claims /\ claims[op.claim].state = "active"
      /\ op.handoff => claims[op.claim].replaces /\ handoff.phase = "committing"
  BY Zenon DEF Activate, ClaimInv, OpInv
<1>2. claims[op.claim].bound
  BY <1>1, Zenon DEF ClaimInv, Sound, BoundIn
<1>3. UNCHANGED <<claims, keys, reserved, handoff, leases, inc, dead, version, validity,
                  stale_at, evidence, crashes>>
  BY Zenon DEF Activate, kernel, graph
<1>4. OpInv'
  <2>1. \/ op' = [op EXCEPT !.at = "reassigned"] /\ op.handoff
        \/ op' = [op EXCEPT !.at = "mark_key"] /\ ~op.handoff
        \/ op' = [op EXCEPT !.at = "undo"]
    BY <1>1, Zenon DEF Activate, OpRecord
  <2>. QED  BY <1>1, <1>2, <1>3, <2>1, Zenon DEF OpInv, OpRecord
<1>5. Saves /\ mishaps' \in 0..MaxMishaps
  BY <1>3, MishapCount, Zenon DEF Activate, Save, SaveFails, Saves
<1>. QED  BY <1>3, <1>4, <1>5, QuietStep, Zenon DEF ClaimInv, TypeOK

LEMMA MarkKeySafe ==
    ASSUME ClaimInv, MarkKey
    PROVE  SafeStep
<1>1. UNCHANGED <<claims, reserved, handoff, leases, inc, dead, version, validity,
                  stale_at, evidence, crashes>>
  BY Zenon DEF MarkKey, kernel, graph
<1>2. OpInv'
  BY IdleOp, Zenon DEF MarkKey
<1>3. Saves /\ mishaps' \in 0..MaxMishaps
  BY <1>1, MishapCount, Zenon DEF MarkKey, Save, SaveFails, Saves
<1>4. keys' \subseteq Tasks \X (0..MaxVersion)
  <2>1. /\ op.claim \in DOMAIN claims /\ op.version \in 0..MaxVersion
    BY Zenon DEF MarkKey, ClaimInv, OpInv, OpRecord
  <2>2. claims[op.claim].task \in Tasks
    BY <2>1, TableIsFunction, Zenon DEF ClaimInv, TypeOK, Claim
  <2>. QED  BY <2>1, <2>2, SMTT(30) DEF MarkKey, ClaimInv, TypeOK
<1>. QED  BY <1>1, <1>2, <1>3, <1>4, QuietStep, Zenon

\* The Kernel grants a row to a claim that is durable as ACQUIRING.
LEMMA AcquireLeaseSafe ==
    ASSUME ClaimInv, AcquireLease
    PROVE  SafeStep
<1> DEFINE i == op.claim
           row == [task |-> claims[i].task, claim |-> i, agent |-> claims[i].agent,
                   inc |-> claims[i].inc, live |-> TRUE]
<1>1. /\ op.at = "acquire" /\ op \in OpRecord
      /\ i \in DOMAIN claims /\ claims[i].state = "acquiring"
      /\ op.handoff => claims[i].replaces /\ handoff.phase = "committing"
  BY Zenon DEF AcquireLease, ClaimInv, OpInv
<1>2. /\ claims \in Seq(Claim) /\ Len(claims) <= MaxClaims /\ claims[i] \in Claim
      /\ Len(claims) \in Nat /\ DOMAIN claims = 1..Len(claims)
      /\ claims \in [1..Len(claims) -> Claim]
  BY <1>1, TableIsFunction, Zenon DEF ClaimInv, Sound
<1>3. /\ leases' = leases \cup {row}
      /\ claims' = [claims EXCEPT ![i].state = "active", ![i].bound = TRUE,
                                  ![i].attempt = "dispatched"]
      /\ op' = [op EXCEPT !.at = "activate"]
      /\ UNCHANGED <<keys, reserved, disk, handoff, inc, dead, version, validity,
                     stale_at, evidence, mishaps, crashes>>
  BY Zenon DEF AcquireLease, graph
<1>4. /\ claims' \in [1..Len(claims) -> Claim]
      /\ \A j \in DOMAIN claims \ {i} : claims'[j] = claims[j]
      /\ claims'[i].task = claims[i].task /\ claims'[i].agent = claims[i].agent
      /\ claims'[i].inc = claims[i].inc /\ claims'[i].replaces = claims[i].replaces
      /\ claims'[i].state = "active" /\ claims'[i].bound
  BY <1>1, <1>2, <1>3, Zenon DEF Claim, ClaimStates, AttemptStates
<1>5. claims' \in Seq(Claim) /\ Len(claims') = Len(claims) /\ DOMAIN claims' = DOMAIN claims
  BY <1>2, <1>4, FunctionIsTable, Zenon
<1>6. Evolves(claims, claims')
  BY <1>1, <1>2, <1>4, <1>5, SMTT(30) DEF Evolves, TerminalClaimStates
<1>7. Live(claims') = Live(claims)
  <2>1. \A j \in DOMAIN claims : claims'[j].state \in {"acquiring", "active"}
                                   <=> claims[j].state \in {"acquiring", "active"}
    BY <1>1, <1>4, Zenon
  <2>2. /\ Live(claims) \subseteq DOMAIN claims /\ Live(claims') \subseteq DOMAIN claims
        /\ \A j \in DOMAIN claims :
              /\ j \in Live(claims) <=> claims[j].state \in {"acquiring", "active"}
              /\ j \in Live(claims') <=> claims'[j].state \in {"acquiring", "active"}
    BY <1>2, <1>5, LiveIsUnended, Zenon
  <2>. QED  BY <2>1, <2>2, Zenon
<1>8. Sound(claims)'
  <2>1. OneLive(claims')
    BY <1>2, <1>6, <1>7, LiveIsUnended, SMTT(30) DEF ClaimInv, Sound, OneLive, Evolves
  <2>2. BoundIn(claims')
    BY <1>4, <1>5, Zenon DEF ClaimInv, Sound, BoundIn
  <2>3. EvidencedIn(claims)'
    BY <1>3, <1>4, <1>5, SMTT(30) DEF ClaimInv, Sound, EvidencedIn
  <2>4. RowsIn(claims)'
    <3>1. i \in Live(claims)
      BY <1>1, <1>2, LiveIsUnended, Zenon
    <3> HIDE DEF i
    <3>2. \A r \in leases' : r \in leases \/ r = row
      BY <1>3, Zenon
    <3>3. /\ row.claim \in Live(claims') /\ claims'[row.claim].task = row.task
          /\ claims'[row.claim].agent = row.agent /\ claims'[row.claim].inc = row.inc
      BY <1>4, <1>7, <3>1, Zenon
    <3>4. \A r \in leases : /\ r.claim \in Live(claims') /\ claims'[r.claim].task = r.task
                            /\ claims'[r.claim].agent = r.agent
                            /\ claims'[r.claim].inc = r.inc
      BY <1>2, <1>6, <1>7, LiveIsUnended, SMTT(30) DEF ClaimInv, Sound, RowsIn, Evolves
    <3> HIDE DEF row
    <3>. QED  BY <3>2, <3>3, <3>4, Zenon DEF RowsIn, Live, InState
  <2>5. HandoffIn(claims)'
    BY <1>3, <1>5, <1>6, HandoffFollows, Zenon
  <2>. QED  BY <1>2, <1>5, <2>1, <2>2, <2>3, <2>4, <2>5, Zenon
            DEF Sound, OneLive, BoundIn, Live, InState
<1>9. leases' \subseteq LeaseRow
  <2>1. i \in ClaimIds
    BY <1>1, <1>2, Bounds, SMTT(30) DEF ClaimIds
  <2>2. row \in LeaseRow
    BY <1>2, <2>1, Zenon DEF LeaseRow, Claim
  <2>3. leases \subseteq LeaseRow
    BY Zenon DEF ClaimInv, TypeOK, LeaseRow
  <2>. QED  BY <1>3, <2>2, <2>3, Zenon
<1>10. OpInv'
  BY <1>1, <1>3, <1>4, <1>5, Zenon DEF OpInv, OpRecord
<1>11. Live(claims') \subseteq reserved' /\ reserved' \subseteq reserved
  BY <1>3, <1>7, Zenon DEF ClaimInv, ReservedInv
<1>12. ClaimInv' /\ EndedIsFinal
  BY <1>3, <1>5, <1>6, <1>8, <1>9, <1>10, <1>11, MemoryStep, Zenon DEF ClaimInv, TypeOK, Saves
<1>13. ReleaseEndsClaim
  BY <1>3, Zenon DEF ReleaseEndsClaim
<1>. QED  BY <1>12, <1>13, Zenon DEF SafeStep

\* A refused claim never had a row.
LEMMA RefuseLeaseSafe ==
    ASSUME ClaimInv, RefuseLease
    PROVE  SafeStep
<1>1. PICK i : i = op.claim
  BY Zenon
<1>2. /\ op.at = "acquire" /\ i \in DOMAIN claims /\ claims[i].state = "acquiring"
      /\ \A r \in leases : r.claim # i
  BY <1>1, Zenon DEF RefuseLease, ClaimInv, OpInv, RowsOf
<1>3. /\ claims \in Seq(Claim) /\ claims[i] \in Claim
      /\ Len(claims) \in Nat /\ DOMAIN claims = 1..Len(claims)
      /\ claims \in [1..Len(claims) -> Claim]
  BY <1>2, TableIsFunction, Zenon DEF ClaimInv, Sound
<1>4. /\ claims' = [claims EXCEPT ![i].state = "rejected"]
      /\ reserved' = reserved \ {i} /\ op' = Raise
      /\ UNCHANGED <<keys, handoff, leases, inc, dead, version, validity,
                     stale_at, evidence, crashes>>
      /\ Save(claims', keys) \/ SaveFails
  BY <1>1, Zenon DEF RefuseLease, kernel, graph
<1>5. i \in Live(claims)
  BY <1>2, <1>3, LiveIsUnended, Zenon
<1>6. Becomes(i, "rejected", claims[i].bound, claims[i].attempt)
  BY <1>3, <1>4, <1>5, ChangedClaim, Zenon DEF Claim, ClaimStates
<1>7. OpInv'
  BY <1>4, RaisedOp, Zenon
<1>8. Saves /\ mishaps' \in 0..MaxMishaps /\ keys' \subseteq Tasks \X (0..MaxVersion)
  BY <1>4, MishapCount, Zenon DEF Save, SaveFails, Saves, ClaimInv, TypeOK
<1>. QED  BY <1>2, <1>4, <1>5, <1>6, <1>7, <1>8, ClaimStep, SMTT(30) DEF TerminalClaimStates

\* A claim is published for a task without a live one and fits its agent.
LEMMA ProposeSafe ==
    ASSUME ClaimInv, NEW t \in Tasks, NEW a \in Agents, NEW replaces \in BOOLEAN,
           Propose(t, a, replaces), ~shortages(a),
           \A j \in Live(claims) : claims[j].task # t,
           op.handoff => replaces,
           replaces => /\ handoff.phase # "none" /\ handoff.agent = a
                       /\ Ended(claims, handoff.source)
    PROVE  SafeStep
<1>1. PICK n : n = Len(claims) + 1
  BY Zenon
<1>2. PICK c : c = [task |-> t, agent |-> a, inc |-> inc[a],
                    epoch |-> SemanticEpoch(t), state |-> "acquiring", bound |-> FALSE,
                    attempt |-> "none", replaces |-> replaces]
  BY Zenon
<1>3. /\ n <= MaxClaims
      /\ \/ /\ claims' = Append(claims, c) /\ reserved' = reserved \cup {n}
            /\ disk' = [claims |-> claims', keys |-> keys] /\ mishaps' = mishaps
            /\ op' = [op EXCEPT !.at = "acquire", !.claim = n, !.version = version]
         \/ SaveFails /\ op' = Raise /\ UNCHANGED <<claims, reserved>>
      /\ UNCHANGED <<keys, handoff, leases, inc, dead, version, validity, stale_at,
                     evidence, crashes>>
  BY <1>1, <1>2, Zenon DEF Propose, Save, kernel, graph
<1>4. CASE SaveFails /\ op' = Raise /\ UNCHANGED <<claims, reserved>>
  <2>1. OpInv'
    BY <1>3, <1>4, RaisedOp, Zenon
  <2>2. Saves /\ mishaps' \in 0..MaxMishaps
    BY <1>4, MishapCount, Zenon DEF SaveFails, Saves
  <2>. QED  BY <1>3, <1>4, <2>1, <2>2, QuietStep, Zenon DEF ClaimInv, TypeOK
<1>5. CASE /\ claims' = Append(claims, c) /\ reserved' = reserved \cup {n}
           /\ disk' = [claims |-> claims', keys |-> keys] /\ mishaps' = mishaps
           /\ op' = [op EXCEPT !.at = "acquire", !.claim = n, !.version = version]
  <2>1. c \in Claim
    <3>1. SemanticEpoch(t) \in 0..MaxVersion /\ inc[a] \in 0..MaxInc
      BY Bounds, SMTT(30) DEF SemanticEpoch, ClaimInv, TypeOK
    <3>. QED  BY <1>2, <3>1, Zenon DEF Claim, ClaimStates, AttemptStates
  <2>2. /\ claims \in Seq(Claim) /\ disk.claims \in Seq(Claim)
        /\ Len(claims) \in Nat /\ DOMAIN claims = 1..Len(claims)
        /\ Len(disk.claims) = Len(claims) /\ DOMAIN disk.claims = DOMAIN claims
    BY TableIsFunction, Zenon DEF ClaimInv, Sound, Ahead
  <2>3. /\ claims' \in Seq(Claim) /\ Len(claims') = n /\ Len(claims') <= MaxClaims
        /\ DOMAIN claims' = DOMAIN claims \cup {n} /\ n \notin DOMAIN claims
        /\ claims'[n] = c /\ \A j \in DOMAIN claims : claims'[j] = claims[j]
    BY <1>1, <1>3, <1>5, <2>1, <2>2, AppendedTable, SMTT(30)
  <2>4. /\ c.task = t /\ c.agent = a /\ c.state = "acquiring" /\ c.replaces = replaces
        /\ c.bound = FALSE
    BY <1>2, Zenon
  <2>5. Live(claims') = Live(claims) \cup {n}
    <3>1. /\ \A j \in DOMAIN claims' : j \in Live(claims') <=>
                                        claims'[j].state \in {"acquiring", "active"}
          /\ \A j \in DOMAIN claims : j \in Live(claims) <=>
                                       claims[j].state \in {"acquiring", "active"}
          /\ Live(claims) \subseteq DOMAIN claims /\ Live(claims') \subseteq DOMAIN claims'
      BY <2>2, <2>3, LiveIsUnended, Zenon
    <3>. QED  BY <2>3, <2>4, <3>1, Zenon
  <2>6. Sound(claims)'
    <3>1. OneLive(claims')
      BY <2>2, <2>3, <2>4, <2>5, LiveIsUnended, SMTT(30) DEF ClaimInv, Sound, OneLive
    <3>2. BoundIn(claims')
      BY <2>3, <2>4, Zenon DEF ClaimInv, Sound, BoundIn
    <3>3. EvidencedIn(claims)'
      BY <1>3, <2>3, <2>4, SMTT(30) DEF ClaimInv, Sound, EvidencedIn
    <3>4. RowsIn(claims)'
      BY <1>3, <2>2, <2>3, <2>5, LiveIsUnended, SMTT(30) DEF ClaimInv, Sound, RowsIn
    <3>5. HandoffIn(claims)'
      <4>1. \A k : Ended(claims, k) => Ended(claims', k)
        BY <2>3, Zenon DEF Ended
      <4>2. ReplacedIn(claims) => ReplacedIn(claims')
        BY <2>3, <4>1, Zenon DEF ReplacedIn
      <4>3. \A j \in DOMAIN claims' : claims'[j].replaces =>
               /\ handoff.phase # "none" /\ claims'[j].agent = handoff.agent
               /\ Ended(claims', handoff.source)
        BY <2>3, <2>4, <4>1, Zenon DEF ClaimInv, Sound, HandoffIn
      <4>4. HandoffIn(claims')
        BY <2>3, <4>1, <4>2, <4>3, Zenon DEF ClaimInv, Sound, HandoffIn
      <4>. QED  BY <1>3, <4>4, Zenon DEF HandoffIn, ReplacedIn, Ended
    <3>. QED  BY <2>3, <3>1, <3>2, <3>3, <3>4, <3>5, Zenon DEF Sound, OneLive, BoundIn, Live, InState
  <2>7. disk'.claims = claims' /\ disk'.keys = keys
    BY <1>5, Zenon
  <2>8. Sound(disk.claims)'
    BY <2>6, <2>7, Zenon DEF Sound, OneLive, BoundIn, EvidencedIn, RowsIn, HandoffIn, ReplacedIn,
                      Ended, Live, InState
  <2>9. Ahead'
    BY <2>3, <2>7, SMTT(30) DEF Ahead, Evolves
  <2>10. ReservedInv'
    <3>1. /\ reserved \subseteq DOMAIN claims /\ IsFiniteSet(reserved) /\ n \notin reserved
          /\ Live(claims) \subseteq reserved /\ Fits(reserved, claims)
      BY <2>2, <2>3, TableIsFinite, Zenon DEF ClaimInv, ReservedInv
    <3>2. ~(Cardinality(HeldBy(reserved, claims, claims'[n].agent)) >= Capacity)
      BY <2>3, <2>4, Zenon DEF shortages, HeldBy
    <3>3. \A j \in reserved : claims'[j].agent = claims[j].agent
      BY <2>3, <3>1, Zenon
    <3>4. Fits(reserved', claims')
      BY <1>5, <3>1, <3>2, <3>3, OneMoreFits, Zenon
    <3>5. /\ Live(claims') \subseteq reserved' /\ reserved' \subseteq DOMAIN claims'
      BY <1>5, <2>3, <2>5, <3>1, Zenon
    <3>6. IsFiniteSet(reserved')
      BY <2>3, <3>5, TableIsFinite, Zenon
    <3>7. Fits(Live(claims'), claims')
      BY <3>4, <3>5, <3>6, FewerFit, Zenon
    <3>. QED  BY <2>7, <3>4, <3>5, <3>7, Zenon DEF ReservedInv, Fits, HeldBy, Live, InState
  <2>11. OpInv'
    <3>1. /\ op' \in OpRecord /\ op'.at = "acquire" /\ op'.claim = n
          /\ op'.handoff = op.handoff
      <4>1. op \in OpRecord /\ n \in 0..MaxClaims /\ version \in 0..MaxVersion
        BY <1>1, <1>3, <2>2, Bounds, SMTT(30) DEF ClaimInv, OpInv, TypeOK
      <4>. QED  BY <1>5, <4>1, Zenon DEF OpRecord
    <3>2. \A r \in leases : r.claim # n
      BY <2>2, <2>3, LiveIsUnended, SMTT(30) DEF ClaimInv, Sound, RowsIn
    <3>3. RowsOf(n)' = {}
      BY <1>3, <3>2, Zenon DEF RowsOf
    <3>4. op.handoff => handoff'.phase = "committing"
      BY <1>3, Zenon DEF ClaimInv, OpInv
    <3>. QED  BY <2>3, <2>4, <3>1, <3>3, <3>4, Zenon DEF OpInv, RowsOf
  <2>12. HandoffInv'
    BY <1>3, Zenon DEF ClaimInv, HandoffInv
  <2>13. TypeOK'
    BY <1>3, <1>5, <2>3, <2>7, <2>10, <2>11, Zenon DEF ClaimInv, TypeOK, ReservedInv, OpInv, OpRecord
  <2>14. EndedIsFinal
    BY <1>1, <2>2, <2>3, <2>7, SMTT(30) DEF EndedIsFinal, InState, ClaimInv, Ahead, Evolves
  <2>. QED  BY <1>3, <2>6, <2>8, <2>9, <2>10, <2>11, <2>12, <2>13, <2>14, Zenon
            DEF SafeStep, ClaimInv, ReleaseEndsClaim
<1>. QED  BY <1>3, <1>4, <1>5, Zenon

LEMMA ScheduleSafe ==
    ASSUME ClaimInv, NEW t \in Tasks, NEW a \in Agents, Schedule(t, a)
    PROVE  SafeStep
<1>1. /\ Propose(t, a, FALSE) /\ ~shortages(a) /\ ~op.handoff
  BY Zenon DEF Schedule, Idle
<1>2. \A j \in Live(claims) : claims[j].task # t
  <2>1. \A j \in Live(claims) : j \in InState(claims, {"acquiring"}) \/ j \in Active
    BY LiveIsUnended, Zenon DEF InState, Active, ClaimInv, Sound
  <2>. QED  BY <2>1, Zenon DEF Schedule
<1>. QED  BY <1>1, <1>2, ProposeSafe, Zenon


LEMMA UndoActivationSafe ==
    ASSUME ClaimInv, UndoActivation
    PROVE  SafeStep
<1>1. PICK i : i = op.claim
  BY Zenon
<1>2. /\ op.at = "undo" /\ i \in DOMAIN claims /\ claims[i].state = "active"
      /\ claims \in Seq(Claim) /\ claims[i] \in Claim
  BY <1>1, TableIsFunction, Zenon DEF UndoActivation, ClaimInv, OpInv, Sound
<1>3. /\ \/ /\ leases' = leases \ RowsOf(i)
            /\ claims' = [claims EXCEPT ![i].state = "released", ![i].attempt = "none"]
            /\ reserved' = reserved \ {i}
            /\ Save(claims', keys) \/ SaveFails
         \/ UNCHANGED <<leases, claims, reserved, disk>> /\ (mishaps' = mishaps \/ Mishap)
      /\ op' = Raise
      /\ UNCHANGED <<keys, handoff, inc, dead, version, validity, stale_at, evidence, crashes>>
  BY <1>1, Zenon DEF UndoActivation, release, ReleaseFails, graph
<1>4. i \in Live(claims)
  BY <1>2, LiveIsUnended, Zenon
<1>5. OpInv'
  BY <1>3, RaisedOp, Zenon
<1>6. Saves /\ mishaps' \in 0..MaxMishaps /\ keys' \subseteq Tasks \X (0..MaxVersion)
  BY <1>3, MishapCount, Zenon DEF Save, SaveFails, Saves, ClaimInv, TypeOK
<1>7. CASE /\ leases' = leases \ RowsOf(i)
           /\ claims' = [claims EXCEPT ![i].state = "released", ![i].attempt = "none"]
           /\ reserved' = reserved \ {i}
  <2>1. Becomes(i, "released", claims[i].bound, "none")
    BY <1>2, <1>4, <1>7, ChangedClaim, Zenon DEF Claim, ClaimStates, AttemptStates
  <2>2. /\ leases' \subseteq leases /\ \A r \in leases \ leases' : r.claim = i
        /\ \A r \in leases' : r.claim # i
    BY <1>7, Zenon DEF RowsOf
  <2>. QED  BY <1>3, <1>4, <1>5, <1>6, <1>7, <2>1, <2>2, ClaimStep, Zenon DEF TerminalClaimStates
<1>8. CASE UNCHANGED <<leases, claims, reserved, disk>>
  BY <1>3, <1>5, <1>6, <1>8, QuietStep, Zenon
<1>. QED  BY <1>3, <1>7, <1>8, Zenon

-----------------------------------------------------------------------------
(* The executor's callbacks, completion and release.                        *)

LEMMA ActiveClaim ==
    ASSUME ClaimInv, NEW i \in Active
    PROVE  /\ i \in Live(claims) /\ i \in DOMAIN claims /\ claims[i].state = "active"
           /\ claims[i].bound /\ claims[i].bound \in BOOLEAN /\ claims[i] \in Claim
<1>1. i \in DOMAIN claims /\ claims[i].state = "active" /\ claims \in Seq(Claim)
  BY Zenon DEF Active, InState, ClaimInv, Sound
<1>. QED  BY <1>1, LiveIsUnended, TableIsFunction, Zenon DEF ClaimInv, Sound, BoundIn, Claim

LEMMA CallbackSafe ==
    ASSUME ClaimInv, NEW i, NEW from, NEW to \in AttemptStates, Callback(i, from, to)
    PROVE  SafeStep
<1>1. /\ op = Idle /\ i \in Active
      /\ claims' = [claims EXCEPT ![i].attempt = to]
      /\ Save(claims', keys) \/ SaveFails
      /\ UNCHANGED <<keys, reserved, handoff, leases, inc, dead, version, validity,
                     stale_at, evidence, op, crashes>>
  BY Zenon DEF Callback, kernel, graph
<1>2. /\ i \in Live(claims) /\ claims[i].state = "active"
      /\ claims[i].bound /\ claims[i].bound \in BOOLEAN
  BY <1>1, ActiveClaim, Zenon
<1>3. Becomes(i, "active", claims[i].bound, to)
  BY <1>1, <1>2, ChangedClaim, Zenon DEF ClaimStates
<1>4. OpInv'
  BY <1>1, IdleOp, Zenon
<1>5. Saves /\ mishaps' \in 0..MaxMishaps /\ keys' \subseteq Tasks \X (0..MaxVersion)
  BY <1>1, MishapCount, Zenon DEF Save, SaveFails, Saves, ClaimInv, TypeOK
<1>. QED  BY <1>1, <1>2, <1>3, <1>4, <1>5, ClaimStep, Zenon DEF TerminalClaimStates

\* The claim that starts to complete has the evidence of its own attempt.
LEMMA CompleteSafe ==
    ASSUME ClaimInv, NEW i, Complete(i)
    PROVE  SafeStep
<1>1. /\ op = Idle /\ i \in Active /\ vpg_task_verified(i)
      /\ claims' = [claims EXCEPT ![i].attempt = "verified"]
      /\ UNCHANGED <<keys, reserved, handoff, leases, inc, dead, version, validity,
                     stale_at, evidence, crashes>>
  BY Zenon DEF Complete, kernel, graph
<1>2. /\ i \in Live(claims) /\ i \in DOMAIN claims /\ claims[i].state = "active"
      /\ claims[i].bound /\ claims[i].bound \in BOOLEAN
  BY <1>1, ActiveClaim, Zenon
<1>3. \E e \in evidence : e[1] = i
  BY <1>1, Zenon DEF vpg_task_verified, evidence_matches_active_attempt
<1>4. Becomes(i, "active", claims[i].bound, "verified")
  BY <1>1, <1>2, ChangedClaim, Zenon DEF ClaimStates, AttemptStates
<1>5. Saves /\ mishaps' \in 0..MaxMishaps /\ keys' \subseteq Tasks \X (0..MaxVersion)
  <2>1. (disk' = disk /\ mishaps' = mishaps) \/ Save(claims', keys) \/ SaveFails
    BY Zenon DEF Complete
  <2>. QED  BY <1>1, <2>1, MishapCount, Zenon DEF Save, SaveFails, Saves, ClaimInv, TypeOK
<1>6. OpInv'
  <2>1. CASE op' = Idle
    BY <2>1, IdleOp, Zenon
  <2>2. CASE op' = [Idle EXCEPT !.at = "free", !.claim = i, !.to = "completed"]
    <3>1. /\ op' = [at |-> "free", claim |-> i, to |-> "completed", seen |-> {},
                    agent |-> "none", version |-> 0, handoff |-> FALSE]
      BY <2>2, Zenon DEF Idle
    <3>2. i \in 0..MaxClaims
      BY <1>2, TableIsFunction, Bounds, SMTT(30) DEF ClaimInv, Sound
    <3>3. op' \in OpRecord
      BY <3>1, <3>2, Bounds, SMTT(30) DEF OpRecord
    <3>4. i \in DOMAIN claims' /\ claims'[i].state = "active" /\ claims'[i].attempt = "verified"
      BY <1>2, <1>4, SMTT(30) DEF Becomes, Updates, ClaimInv, Sound
    <3>. QED  BY <1>1, <1>3, <3>1, <3>3, <3>4, Zenon DEF OpInv
  <2>. QED  BY <2>1, <2>2, Zenon DEF Complete
<1>. QED  BY <1>1, <1>2, <1>4, <1>5, <1>6, ClaimStep, Zenon DEF TerminalClaimStates

LEMMA ReleaseTaskSafe ==
    ASSUME ClaimInv, NEW i, NEW how \in {"failed", "stale"}, NEW retry \in BOOLEAN,
           ReleaseTask(i, how, retry)
    PROVE  SafeStep
<1>1. PICK x : x = IF claims[i].attempt = "stale" THEN claims[i].attempt ELSE how
  BY Zenon
<1>2. PICK to : to = IF retry THEN "retried" ELSE "released"
  BY Zenon
<1>3. /\ op = Idle /\ i \in Active
      /\ claims' = [claims EXCEPT ![i].attempt = x]
      /\ \/ /\ Save(claims', keys)
            /\ op' = [Idle EXCEPT !.at = "free", !.claim = i, !.to = to]
         \/ SaveFails /\ op' = Idle
      /\ UNCHANGED <<keys, reserved, handoff, leases, inc, dead, version, validity,
                     stale_at, evidence, crashes>>
  BY <1>1, <1>2, Zenon DEF ReleaseTask, kernel, graph
<1>4. /\ i \in Live(claims) /\ i \in DOMAIN claims /\ claims[i].state = "active"
      /\ claims[i].bound /\ claims[i].bound \in BOOLEAN
  BY <1>3, ActiveClaim, Zenon
<1>5. Becomes(i, "active", claims[i].bound, x)
  <2>1. x \in AttemptStates
    BY <1>1, Zenon DEF AttemptStates
  <2>. QED  BY <1>3, <1>4, <2>1, ChangedClaim, Zenon DEF ClaimStates
<1>6. Saves /\ mishaps' \in 0..MaxMishaps /\ keys' \subseteq Tasks \X (0..MaxVersion)
  BY <1>3, MishapCount, Zenon DEF Save, SaveFails, Saves, ClaimInv, TypeOK
<1>7. OpInv'
  <2>1. CASE op' = Idle
    BY <2>1, IdleOp, Zenon
  <2>2. CASE op' = [Idle EXCEPT !.at = "free", !.claim = i, !.to = to]
    <3>1. /\ op' = [at |-> "free", claim |-> i, to |-> to, seen |-> {},
                    agent |-> "none", version |-> 0, handoff |-> FALSE]
      BY <2>2, Zenon DEF Idle
    <3>2. i \in 0..MaxClaims /\ to \in {"retried", "released"}
      BY <1>2, <1>4, TableIsFunction, Bounds, SMTT(30) DEF ClaimInv, Sound
    <3>3. op' \in OpRecord
      BY <3>1, <3>2, Bounds, SMTT(30) DEF OpRecord
    <3>4. i \in DOMAIN claims' /\ claims'[i].state = "active"
      BY <1>4, <1>5, SMTT(30) DEF Becomes, Updates, ClaimInv, Sound
    <3>. QED  BY <3>1, <3>2, <3>3, <3>4, Zenon DEF OpInv
  <2>. QED  BY <1>3, <2>1, <2>2, Zenon
<1>. QED  BY <1>3, <1>4, <1>5, <1>6, <1>7, ClaimStep, Zenon DEF TerminalClaimStates

\* The lease goes together with the claim, and a completed claim has evidence.
LEMMA FreeLeaseSafe ==
    ASSUME ClaimInv, FreeLease
    PROVE  SafeStep
<1>1. PICK i : i = op.claim
  BY Zenon
<1>2. PICK s : s = IF op.to = "completed" THEN "completed" ELSE "released"
  BY Zenon
<1>3. /\ op.at = "free" /\ op \in OpRecord /\ ~op.handoff
      /\ i \in DOMAIN claims /\ claims[i].state = "active"
      /\ claims \in Seq(Claim) /\ claims[i] \in Claim
      /\ s = "completed" => claims[i].attempt = "verified" /\ \E e \in evidence : e[1] = i
  BY <1>1, <1>2, TableIsFunction, Zenon DEF FreeLease, ClaimInv, OpInv, Sound
<1>4. /\ \/ /\ leases' = leases \ RowsOf(i) /\ mishaps' = mishaps
            /\ claims' = [claims EXCEPT ![i].state = s]
            /\ op' = [op EXCEPT !.at = "record"]
         \/ UNCHANGED <<leases, claims>> /\ op' = Idle /\ (mishaps' = mishaps \/ Mishap)
      /\ UNCHANGED <<keys, reserved, disk, handoff, inc, dead, version, validity,
                     stale_at, evidence, crashes>>
  BY <1>1, <1>2, Zenon DEF FreeLease, release, ReleaseFails, graph
<1>5. i \in Live(claims) /\ claims[i].bound
  BY <1>3, LiveIsUnended, Zenon DEF ClaimInv, Sound, BoundIn
<1>6. Saves /\ mishaps' \in 0..MaxMishaps /\ keys' \subseteq Tasks \X (0..MaxVersion)
  BY <1>4, MishapCount, Zenon DEF Saves, ClaimInv, TypeOK
<1>7. CASE /\ leases' = leases \ RowsOf(i) /\ claims' = [claims EXCEPT ![i].state = s]
           /\ op' = [op EXCEPT !.at = "record"]
  <2>1. Becomes(i, s, claims[i].bound, claims[i].attempt)
    BY <1>2, <1>3, <1>5, <1>7, ChangedClaim, Zenon DEF Claim, ClaimStates
  <2>2. /\ leases' \subseteq leases /\ \A r \in leases \ leases' : r.claim = i
        /\ \A r \in leases' : r.claim # i
    BY <1>7, Zenon DEF RowsOf
  <2>3. OpInv'
    <3>1. i \in DOMAIN claims' /\ claims'[i].state = s /\ s \in TerminalClaimStates
      BY <1>2, <1>3, <2>1, SMTT(30) DEF Becomes, Updates, TerminalClaimStates
    <3>2. /\ op' \in OpRecord /\ op'.at = "record" /\ op'.claim = i /\ ~op'.handoff
      BY <1>1, <1>3, <1>7, Zenon DEF OpRecord
    <3>. QED  BY <3>1, <3>2, Zenon DEF OpInv
  <2>. QED  BY <1>2, <1>3, <1>4, <1>5, <1>6, <2>1, <2>2, <2>3, ClaimStep, Zenon DEF TerminalClaimStates
<1>8. CASE UNCHANGED <<leases, claims>> /\ op' = Idle
  BY <1>4, <1>6, <1>8, IdleOp, QuietStep, Zenon
<1>. QED  BY <1>4, <1>7, <1>8, Zenon

LEMMA RecordEndSafe ==
    ASSUME ClaimInv, RecordEnd
    PROVE  SafeStep
<1>1. PICK i : i = op.claim
  BY Zenon
<1>2. /\ op.at = "record" /\ op \in OpRecord /\ ~op.handoff
      /\ i \in DOMAIN claims /\ claims[i].state \in TerminalClaimStates
      /\ claims \in Seq(Claim)
  BY <1>1, Zenon DEF RecordEnd, ClaimInv, OpInv, Sound
<1>3. /\ reserved' = reserved \ {i}
      /\ \/ Save(claims, keys) /\ (op' = [op EXCEPT !.at = "clear"] \/ op' = Idle)
         \/ SaveFails /\ op' = Idle
      /\ UNCHANGED <<claims, keys, handoff, leases, inc, dead, version, validity,
                     stale_at, evidence, crashes>>
  BY <1>1, Zenon DEF RecordEnd, kernel, graph
<1>4. reserved' \subseteq reserved /\ Live(claims) \subseteq reserved'
  BY <1>2, <1>3, LiveIsUnended, Zenon DEF ClaimInv, ReservedInv
<1>5. Saves /\ mishaps' \in 0..MaxMishaps /\ keys' \subseteq Tasks \X (0..MaxVersion)
  BY <1>3, MishapCount, Zenon DEF Save, SaveFails, Saves, ClaimInv, TypeOK
<1>6. OpInv'
  <2>1. CASE op' = Idle
    BY <2>1, IdleOp, Zenon
  <2>2. CASE op' = [op EXCEPT !.at = "clear"]
    <3>1. /\ op' \in OpRecord /\ op'.at = "clear" /\ op'.claim = i /\ ~op'.handoff
      BY <1>1, <1>2, <2>2, Zenon DEF OpRecord
    <3>. QED  BY <1>2, <1>3, <3>1, Zenon DEF OpInv
  <2>. QED  BY <1>3, <2>1, <2>2, Zenon
<1>. QED  BY <1>3, <1>4, <1>5, <1>6, FreeingStep, Zenon

LEMMA ClearKeysSafe ==
    ASSUME ClaimInv, ClearKeys
    PROVE  SafeStep
<1>1. /\ op.at = "clear" /\ op \in OpRecord
      /\ op.handoff => SourceIsFree /\ handoff.phase = "committing"
  BY Zenon DEF ClearKeys, ClaimInv, OpInv
<1>2. /\ keys' \subseteq keys
      /\ \/ Save(claims, keys') /\ (op' = Idle \/ (op.handoff /\ op' = [op EXCEPT !.at = "replace"]))
         \/ SaveFails /\ op' = Raise
      /\ UNCHANGED <<claims, reserved, handoff, leases, inc, dead, version, validity,
                     stale_at, evidence, crashes>>
  BY Zenon DEF ClearKeys, WithoutTask, kernel, graph
<1>3. Saves /\ mishaps' \in 0..MaxMishaps /\ keys' \subseteq Tasks \X (0..MaxVersion)
  BY <1>2, MishapCount, Zenon DEF Save, SaveFails, Saves, ClaimInv, TypeOK
<1>4. OpInv'
  <2>1. CASE op' = Idle
    BY <2>1, IdleOp, Zenon
  <2>2. CASE op' = Raise
    BY <1>2, <2>2, RaisedOp, Zenon
  <2>3. CASE op.handoff /\ op' = [op EXCEPT !.at = "replace"]
    <3>1. op' \in OpRecord /\ op'.at = "replace" /\ op'.handoff
      BY <1>1, <2>3, Zenon DEF OpRecord
    <3>2. SourceIsFree' /\ handoff'.phase = "committing"
      BY <1>1, <1>2, <2>3, Zenon DEF SourceIsFree, Ended, Live, InState
    <3>. QED  BY <3>1, <3>2, Zenon DEF OpInv
  <2>. QED  BY <1>2, <2>1, <2>2, <2>3, Zenon
<1>. QED  BY <1>2, <1>3, <1>4, QuietStep, Zenon

-----------------------------------------------------------------------------
(* Reconciliation and process replacement.                                  *)

\* The claim a walk comes to next has not ended.
LEMMA NextOfWalk ==
    ASSUME ClaimInv, NEW S, S \subseteq Live(claims), Remaining(S) # {}
    PROVE  /\ SmallestOf(Remaining(S)) \in S /\ SmallestOf(Remaining(S)) \in 0..MaxClaims
<1>1. claims \in Seq(Claim) /\ Len(claims) <= MaxClaims
  BY Zenon DEF ClaimInv, Sound
<1>2. S \subseteq DOMAIN claims /\ DOMAIN claims = 1..Len(claims) /\ Len(claims) \in Nat
  BY <1>1, LiveIsUnended, TableIsFunction, Zenon
<1>3. Remaining(S) \subseteq S /\ Remaining(S) \subseteq Nat
  BY <1>2, SMTT(30) DEF Remaining
<1>4. SmallestOf(Remaining(S)) \in S
  BY <1>3, SmallestIsMember, Zenon
<1>. QED  BY <1>1, <1>2, <1>4, Bounds, SMTT(30)

LEMMA EndedBeforeType ==
    ASSUME ClaimInv
    PROVE  EndedBefore \subseteq ClaimIds
<1>1. /\ claims \in Seq(Claim) /\ Len(claims) <= MaxClaims /\ op.seen \subseteq ClaimIds
  BY Zenon DEF ClaimInv, Sound, OpInv, OpRecord
<1>2. DOMAIN claims \subseteq ClaimIds
  BY <1>1, TableIsFunction, Bounds, SMTT(30) DEF ClaimIds
<1>. QED  BY <1>1, <1>2, Zenon DEF EndedBefore, InState

\* The walk releases only rows of the claim it ends.
LEMMA ReconcileClaimSafe ==
    ASSUME ClaimInv, ReconcileClaim
    PROVE  SafeStep
<1>1. PICK i : i = SmallestOf(Remaining(Live(claims)))
  BY Zenon
<1>2. PICK found : found = lease_lookup(i)
  BY Zenon
<1>3. PICK next : next = [op EXCEPT !.at = "reconcile", !.claim = i, !.seen = EndedBefore]
  BY Zenon
<1>4. PICK b \in BOOLEAN : b = (claims[i].bound \/ found # {})
  BY Zenon
<1>5. /\ Walking /\ Remaining(Live(claims)) # {}
      /\ \/ Verdict(i) = "active" /\ op' = next /\ UNCHANGED <<claims, leases, mishaps>>
         \/ /\ Verdict(i) # "active"
            /\ IF found = {} THEN leases' = leases ELSE leases' = leases \ found
            /\ claims' = [claims EXCEPT ![i].state = Verdict(i), ![i].bound = b]
            /\ op' = next /\ mishaps' = mishaps
         \/ /\ Verdict(i) # "active" /\ found # {}
            /\ leases' = leases /\ (mishaps' = mishaps \/ Mishap)
            /\ claims' = [claims EXCEPT ![i].bound = TRUE] /\ op' = Idle
      /\ UNCHANGED <<keys, reserved, disk, handoff, inc, dead, version, validity,
                     stale_at, evidence, crashes>>
  BY <1>1, <1>2, <1>3, <1>4, Zenon DEF ReconcileClaim, release, ReleaseFails, graph
<1>6. i \in Live(claims) /\ i \in 0..MaxClaims
  BY <1>1, <1>5, NextOfWalk, Zenon
<1>7. /\ claims \in Seq(Claim) /\ i \in DOMAIN claims /\ claims[i] \in Claim
      /\ claims[i].state \in {"acquiring", "active"}
  BY <1>6, LiveIsUnended, TableIsFunction, Zenon DEF ClaimInv, Sound
<1>8. (\A r \in found : r.claim = i) /\ RowsOf(i) \subseteq found /\ found \subseteq leases
  BY <1>2, <1>6, RowsFound, Zenon DEF lease_lookup, RowsOf
<1>9. Saves /\ mishaps' \in 0..MaxMishaps /\ keys' \subseteq Tasks \X (0..MaxVersion)
  BY <1>5, MishapCount, Zenon DEF Saves, ClaimInv, TypeOK
<1>10. op' = next => OpInv'
  <2>1. op \in OpRecord /\ ~op.handoff
    BY <1>5, SMTT(30) DEF Walking, Idle, ClaimInv, OpInv
  <2>2. next \in OpRecord /\ next.at = "reconcile" /\ ~next.handoff
    BY <1>3, <1>6, <2>1, EndedBeforeType, Zenon DEF OpRecord
  <2>. QED  BY <2>2, Zenon DEF OpInv
<1>11. CASE UNCHANGED <<claims, leases>> /\ op' = next
  BY <1>5, <1>9, <1>10, <1>11, QuietStep, Zenon
<1>12. CASE /\ Verdict(i) # "active"
            /\ IF found = {} THEN leases' = leases ELSE leases' = leases \ found
            /\ claims' = [claims EXCEPT ![i].state = Verdict(i), ![i].bound = b]
            /\ op' = next
  <2>1. PICK s \in {"completed", "lost"} : s = Verdict(i)
    BY <1>12, Zenon DEF Verdict
  <2>2. s = "completed" => /\ claims[i].state = "active" /\ vpg_task_verified(i)
    BY <2>1, Zenon DEF Verdict
  <2>3. s = "completed" => /\ b /\ claims[i].attempt \in {"succeeded", "verified"}
                           /\ \E e \in evidence : e[1] = i
    <3>1. claims[i].state = "active" => claims[i].bound
      BY <1>7, Zenon DEF ClaimInv, Sound, BoundIn
    <3>. QED  BY <1>4, <2>2, <3>1, Zenon DEF vpg_task_verified, evidence_matches_active_attempt
  <2>4. Becomes(i, s, b, claims[i].attempt)
    <3>1. s \in ClaimStates /\ claims[i].attempt \in AttemptStates /\ (claims[i].bound => b)
      BY <1>4, <1>7, Zenon DEF ClaimStates, Claim
    <3>2. claims' = [claims EXCEPT ![i].state = s, ![i].bound = b]
      BY <1>12, <2>1, Zenon
    <3>. QED  BY <1>6, <3>1, <3>2, ChangedClaim, Zenon
  <2>5. /\ leases' \subseteq leases /\ \A r \in leases \ leases' : r.claim = i
        /\ \A r \in leases' : r.claim # i
    BY <1>8, <1>12, Zenon DEF RowsOf
  <2>. QED  BY <1>5, <1>6, <1>9, <1>10, <1>12, <2>1, <2>3, <2>4, <2>5, ClaimStep, Zenon
            DEF TerminalClaimStates
<1>13. CASE /\ leases' = leases /\ claims' = [claims EXCEPT ![i].bound = TRUE] /\ op' = Idle
  <2>1. Becomes(i, claims[i].state, TRUE, claims[i].attempt)
    BY <1>6, <1>7, <1>13, ChangedClaim, Zenon DEF Claim
  <2>2. claims[i].state \notin TerminalClaimStates /\ claims[i].state # "completed"
    BY <1>7, Zenon DEF TerminalClaimStates
  <2>. QED  BY <1>5, <1>6, <1>9, <1>13, <2>1, <2>2, IdleOp, ClaimStep, Zenon
<1>. QED  BY <1>5, <1>11, <1>12, <1>13, Zenon

\* Lost claims are settled one by one; none of them is live.
LEMMA SettleStep ==
    ASSUME ClaimInv, Sound(claims)', Len(claims') = Len(claims), Evolves(claims, claims'),
           NEW lost, lost \subseteq InState(claims', TerminalClaimStates),
           NEW held, held \subseteq reserved, Live(claims') \subseteq held,
           SettleNext(claims', lost, held),
           UNCHANGED <<handoff, leases, inc, dead, version, validity, stale_at, evidence,
                       crashes>>
    PROVE  SafeStep
<1>1. PICK i : i = SmallestOf(lost)
  BY Zenon
<1>2. \/ /\ lost # {} /\ reserved' = held \ {i} /\ keys' \subseteq keys
         /\ \/ /\ Save(claims', keys')
               /\ op' = [Idle EXCEPT !.at = "settle", !.seen = lost \ {i}]
            \/ SaveFails /\ op' = Idle
      \/ /\ lost = {} /\ (Save(claims', keys) \/ SaveFails)
         /\ op' = Idle /\ reserved' = held /\ keys' = keys
  BY <1>1, Zenon DEF SettleNext, WithoutTask
<1>3. /\ claims' \in Seq(Claim) /\ Len(claims') <= MaxClaims
      /\ DOMAIN claims' = 1..Len(claims') /\ Len(claims') \in Nat
  BY TableIsFunction, Zenon DEF Sound
<1>4. lost \subseteq DOMAIN claims' /\ \A j \in lost : j \notin Live(claims')
  BY <1>3, LiveIsUnended, Zenon DEF InState
<1>5. lost # {} => i \in lost
  BY <1>1, <1>3, <1>4, SmallestIsMember, SMTT(30)
<1>6. reserved' \subseteq reserved /\ Live(claims') \subseteq reserved'
  BY <1>2, <1>4, <1>5, Zenon
<1>7. Saves /\ mishaps' \in 0..MaxMishaps /\ keys' \subseteq Tasks \X (0..MaxVersion)
  BY <1>2, MishapCount, Zenon DEF Save, SaveFails, Saves, ClaimInv, TypeOK
<1>8. OpInv'
  <2>1. CASE op' = Idle
    BY <2>1, IdleOp, Zenon
  <2>2. CASE op' = [Idle EXCEPT !.at = "settle", !.seen = lost \ {i}]
    <3>1. op' = [at |-> "settle", claim |-> 0, to |-> "none", seen |-> lost \ {i},
                 agent |-> "none", version |-> 0, handoff |-> FALSE]
      BY <2>2, Zenon DEF Idle
    <3>2. lost \ {i} \subseteq ClaimIds
      BY <1>3, <1>4, Bounds, SMTT(30) DEF ClaimIds
    <3>3. op' \in OpRecord
      BY <3>1, <3>2, Bounds, SMTT(30) DEF OpRecord
    <3>4. op'.seen \subseteq InState(claims', TerminalClaimStates)
      BY <3>1, Zenon
    <3>. QED  BY <3>1, <3>3, <3>4, Zenon DEF OpInv, InState
  <2>. QED  BY <1>2, <2>1, <2>2, Zenon
<1>9. leases' \subseteq LeaseRow
  BY Zenon DEF ClaimInv, TypeOK, LeaseRow
<1>10. ClaimInv' /\ EndedIsFinal
  BY <1>6, <1>7, <1>8, <1>9, MemoryStep, Zenon
<1>. QED  BY <1>10, Zenon DEF SafeStep, ReleaseEndsClaim

LEMMA SettleSafe ==
    ASSUME ClaimInv, Settle
    PROVE  SafeStep
<1>1. /\ op.at = "settle" /\ SettleNext(claims, op.seen, reserved)
      /\ UNCHANGED <<claims, handoff, leases, inc, dead, version, validity, stale_at,
                     evidence, crashes>>
  BY Zenon DEF Settle, kernel, graph
<1>2. SettleNext(claims', op.seen, reserved)
  BY <1>1, Zenon DEF SettleNext, Save, SaveFails
<1>3. Sound(claims)'
  BY <1>1, SMTT(30) DEF ClaimInv, Sound, OneLive, BoundIn, EvidencedIn, RowsIn, HandoffIn, ReplacedIn,
              Ended, Live, InState
<1>4. Evolves(claims, claims')
  BY <1>1, SMTT(30) DEF ClaimInv, Sound, Evolves
<1>5. /\ op.seen \subseteq InState(claims', TerminalClaimStates)
      /\ Live(claims') \subseteq reserved
  BY <1>1, Zenon DEF ClaimInv, OpInv, ReservedInv
<1>. QED  BY <1>1, <1>2, <1>3, <1>4, <1>5, SettleStep, Zenon

\* Only attempts that were under way crash, so completed claims keep theirs.
LEMMA EndReconcileSafe ==
    ASSUME ClaimInv, EndReconcile
    PROVE  SafeStep
<1> DEFINE ended(s) == InState(claims, {s}) \ EndedBefore
<1>1. /\ claims' = [i \in DOMAIN claims |->
                      IF /\ claims[i].attempt \in {"dispatched", "running"}
                         /\ ~process_is_alive(claims[i].agent, claims[i].inc)
                      THEN [claims[i] EXCEPT !.attempt = "crashed"] ELSE claims[i]]
      /\ SettleNext(claims', ended("lost"), reserved \ ended("completed"))
      /\ UNCHANGED <<handoff, leases, inc, dead, version, validity, stale_at, evidence,
                     crashes>>
  BY Zenon DEF EndReconcile, kernel, graph
<1>2. /\ claims \in Seq(Claim) /\ Len(claims) \in Nat /\ DOMAIN claims = 1..Len(claims)
      /\ \A i \in DOMAIN claims : claims[i] \in Claim
      /\ Len(claims) <= MaxClaims
  BY TableIsFunction, Zenon DEF ClaimInv, Sound
<1>3. ASSUME NEW i \in DOMAIN claims
      PROVE  /\ claims'[i] \in Claim
             /\ claims'[i].task = claims[i].task /\ claims'[i].agent = claims[i].agent
             /\ claims'[i].inc = claims[i].inc /\ claims'[i].replaces = claims[i].replaces
             /\ claims'[i].bound = claims[i].bound /\ claims'[i].state = claims[i].state
             /\ claims'[i].attempt = claims[i].attempt
                \/ claims[i].attempt \in {"dispatched", "running"}
  <2>1. claims[i] \in Claim
    BY <1>2, Zenon
  <2>2. \/ claims'[i] = claims[i]
        \/ /\ claims'[i] = [claims[i] EXCEPT !.attempt = "crashed"]
           /\ claims[i].attempt \in {"dispatched", "running"}
    BY <1>1, Zenon
  <2>. QED  BY <2>1, <2>2, Zenon DEF Claim, AttemptStates
<1>4. claims' \in [1..Len(claims) -> Claim]
  <2>1. DOMAIN claims' = 1..Len(claims) /\ claims' = [i \in 1..Len(claims) |-> claims'[i]]
    BY <1>1, <1>2, Zenon
  <2>. QED  BY <1>2, <1>3, <2>1, Zenon
<1>5. claims' \in Seq(Claim) /\ Len(claims') = Len(claims) /\ DOMAIN claims' = DOMAIN claims
  BY <1>2, <1>4, FunctionIsTable, Zenon
<1>6. Evolves(claims, claims')
  BY <1>3, <1>5, SMTT(30) DEF Evolves
<1>7. Live(claims') = Live(claims)
  BY <1>3, <1>5, Zenon DEF Live, InState
<1>8. Sound(claims)'
  <2>1. OneLive(claims')
    BY <1>2, <1>6, <1>7, LiveIsUnended, SMTT(30) DEF ClaimInv, Sound, OneLive, Evolves
  <2>2. BoundIn(claims')
    BY <1>3, <1>5, Zenon DEF ClaimInv, Sound, BoundIn
  <2>3. EvidencedIn(claims)'
    <3>1. EvidencedIn(claims) /\ evidence' = evidence
      BY <1>1, Zenon DEF ClaimInv, Sound
    <3>. QED  BY <1>3, <1>5, <3>1, Zenon DEF EvidencedIn
  <2>4. RowsIn(claims)'
    <3>1. \A r \in leases : /\ r.claim \in Live(claims') /\ claims'[r.claim].task = r.task
                            /\ claims'[r.claim].agent = r.agent
                            /\ claims'[r.claim].inc = r.inc
      BY <1>2, <1>6, <1>7, LiveIsUnended, SMTT(30) DEF ClaimInv, Sound, RowsIn, Evolves
    <3>. QED  BY <1>1, <3>1, Zenon DEF RowsIn, Live, InState
  <2>5. HandoffIn(claims)'
    BY <1>1, <1>5, <1>6, HandoffFollows, Zenon
  <2>. QED  BY <1>2, <1>5, <2>1, <2>2, <2>3, <2>4, <2>5, Zenon
            DEF Sound, OneLive, BoundIn, Live, InState
<1>9. ended("lost") \subseteq InState(claims', TerminalClaimStates)
  BY <1>3, <1>5, Zenon DEF InState, TerminalClaimStates
<1>10. Live(claims') \subseteq reserved \ ended("completed")
  <2>1. \A j \in ended("completed") : j \notin Live(claims)
    BY Zenon DEF InState, Live, TerminalClaimStates
  <2>. QED  BY <1>7, <2>1, Zenon DEF ClaimInv, ReservedInv
<1> HIDE DEF ended
<1>11. reserved \ ended("completed") \subseteq reserved
  BY Zenon
<1>. QED  BY <1>1, <1>5, <1>6, <1>8, <1>9, <1>10, <1>11, SettleStep, Zenon

\* retire_agent_process gives the rows back before it marks the claim.
LEMMA RetireClaimSafe ==
    ASSUME ClaimInv, RetireClaim
    PROVE  SafeStep
<1>1. PICK i : i = SmallestOf(ToRetire)
  BY Zenon
<1>2. PICK found : found = lease_lookup(i)
  BY Zenon
<1>3. PICK b \in BOOLEAN : b = (claims[i].bound \/ found # {})
  BY Zenon
<1>4. /\ op.at = "retire"
      /\ \/ op' = Idle /\ UNCHANGED <<leases, claims, mishaps>>
         \/ /\ ToRetire # {} /\ claims' = [claims EXCEPT ![i].bound = b]
            /\ IF found = {} THEN leases' = leases ELSE leases' = leases \ found
            /\ op' = [op EXCEPT !.at = "retired", !.claim = i] /\ mishaps' = mishaps
         \/ /\ ToRetire # {} /\ claims' = [claims EXCEPT ![i].bound = b]
            /\ leases' = leases /\ op' = Idle /\ (mishaps' = mishaps \/ Mishap)
      /\ UNCHANGED <<keys, reserved, disk, handoff, inc, dead, version, validity,
                     stale_at, evidence, crashes>>
  BY <1>1, <1>2, <1>3, Zenon DEF RetireClaim, release, ReleaseFails, graph
<1>5. Saves /\ mishaps' \in 0..MaxMishaps /\ keys' \subseteq Tasks \X (0..MaxVersion)
  BY <1>4, MishapCount, Zenon DEF Saves, ClaimInv, TypeOK
<1>6. CASE op' = Idle /\ UNCHANGED <<leases, claims, mishaps>>
  BY <1>4, <1>5, <1>6, IdleOp, QuietStep, Zenon
<1>7. CASE ToRetire # {} /\ claims' = [claims EXCEPT ![i].bound = b]
  <2>1. i \in Live(claims) /\ i \in 0..MaxClaims
    <3>1. PICK S : S = {j \in Live(claims) : /\ claims[j].agent = op.agent
                                              /\ claims[j].inc # inc[op.agent]}
      BY Zenon
    <3>2. S \subseteq Live(claims) /\ ToRetire = Remaining(S)
      BY <3>1, Zenon DEF ToRetire
    <3>. QED  BY <1>1, <1>7, <3>2, NextOfWalk, Zenon
  <2>2. /\ claims \in Seq(Claim) /\ i \in DOMAIN claims /\ claims[i] \in Claim
        /\ claims[i].state \in {"acquiring", "active"}
    BY <2>1, LiveIsUnended, TableIsFunction, Zenon DEF ClaimInv, Sound
  <2>3. (\A r \in found : r.claim = i) /\ RowsOf(i) \subseteq found /\ found \subseteq leases
    BY <1>2, <2>1, RowsFound, Zenon DEF lease_lookup, RowsOf
  <2>4. Becomes(i, claims[i].state, b, claims[i].attempt)
    BY <1>3, <1>7, <2>1, <2>2, ChangedClaim, Zenon DEF Claim
  <2>5. /\ claims[i].state \notin TerminalClaimStates /\ claims[i].state # "completed"
        /\ claims[i].state = "active" => b
    BY <1>3, <2>2, Zenon DEF TerminalClaimStates, ClaimInv, Sound, BoundIn
  <2>6. CASE leases' = leases /\ op' = Idle
    BY <1>4, <1>5, <2>1, <2>2, <2>4, <2>5, <2>6, IdleOp, ClaimStep, SMTT(30)
  <2>7. CASE /\ IF found = {} THEN leases' = leases ELSE leases' = leases \ found
             /\ op' = [op EXCEPT !.at = "retired", !.claim = i]
    <3>1. /\ leases' \subseteq leases /\ \A r \in leases \ leases' : r.claim = i
          /\ \A r \in leases' : r.claim # i
      BY <2>3, <2>7, Zenon DEF RowsOf
    <3>2. op \in OpRecord /\ ~op.handoff
      BY <1>4, Zenon DEF ClaimInv, OpInv
    <3>3. /\ op' \in OpRecord /\ op'.at = "retired" /\ op'.claim = i /\ ~op'.handoff
      BY <2>1, <2>7, <3>2, Zenon DEF OpRecord
    <3>4. i \in Live(claims') /\ i \in DOMAIN claims'
      <4>1. claims' \in Seq(Claim) /\ i \in DOMAIN claims' /\ claims'[i].state = claims[i].state
        BY <2>2, <2>4, SMTT(30) DEF Becomes, Updates
      <4>. QED  BY <2>2, <4>1, LiveIsUnended, Zenon
    <3>5. RowsOf(i)' = {}
      BY <3>1, Zenon DEF RowsOf
    <3>6. OpInv'
      BY <3>3, <3>4, <3>5, Zenon DEF OpInv, RowsOf, Live, InState
    <3>. QED  BY <1>4, <1>5, <2>1, <2>2, <2>4, <2>5, <3>1, <3>3, <3>6, ClaimStep, Zenon
  <2>. QED  BY <1>4, <1>5, <1>6, <2>6, <2>7, Zenon
<1>. QED  BY <1>4, <1>6, <1>7, Zenon

LEMMA RecordRetiredSafe ==
    ASSUME ClaimInv, RecordRetired
    PROVE  SafeStep
<1>1. PICK i : i = op.claim
  BY Zenon
<1>2. /\ op.at = "retired" /\ op \in OpRecord /\ ~op.handoff
      /\ i \in Live(claims) /\ RowsOf(i) = {}
  BY <1>1, Zenon DEF RecordRetired, ClaimInv, OpInv
<1>3. /\ claims' = [claims EXCEPT ![i].state = "lost"]
      /\ reserved' = reserved \ {i} /\ keys' \subseteq keys
      /\ \/ Save(claims', keys') /\ op' = [op EXCEPT !.at = "retire"]
         \/ SaveFails /\ op' = Idle
      /\ UNCHANGED <<handoff, leases, inc, dead, version, validity, stale_at, evidence,
                     crashes>>
  BY <1>1, Zenon DEF RecordRetired, WithoutTask, kernel, graph
<1>4. claims \in Seq(Claim) /\ i \in DOMAIN claims /\ claims[i] \in Claim
  BY <1>2, LiveIsUnended, TableIsFunction, Zenon DEF ClaimInv, Sound
<1>5. Becomes(i, "lost", claims[i].bound, claims[i].attempt)
  BY <1>2, <1>3, <1>4, ChangedClaim, Zenon DEF Claim, ClaimStates
<1>6. Saves /\ mishaps' \in 0..MaxMishaps /\ keys' \subseteq Tasks \X (0..MaxVersion)
  BY <1>3, MishapCount, Zenon DEF Save, SaveFails, Saves, ClaimInv, TypeOK
<1>7. OpInv'
  <2>1. CASE op' = Idle
    BY <2>1, IdleOp, Zenon
  <2>2. CASE op' = [op EXCEPT !.at = "retire"]
    <3>1. op' \in OpRecord /\ op'.at = "retire" /\ ~op'.handoff
      BY <1>2, <2>2, Zenon DEF OpRecord
    <3>. QED  BY <3>1, Zenon DEF OpInv
  <2>. QED  BY <1>3, <2>1, <2>2, Zenon
<1>8. \A r \in leases' : r.claim # i
  BY <1>2, <1>3, Zenon DEF RowsOf
<1>. QED  BY <1>2, <1>3, <1>5, <1>6, <1>7, <1>8, ClaimStep, SMTT(30) DEF TerminalClaimStates

-----------------------------------------------------------------------------
(* Ownership handoff.                                                       *)

HandoffRecord == [phase : Phases, source : 0..MaxClaims, agent : Agents \cup {"none"},
                  action : HandoffActions \cup {"none"}, started : BOOLEAN]

\* The record of the handoff changes together with a saved snapshot.
LEMMA HandoffStep ==
    ASSUME ClaimInv, disk' = [claims |-> claims, keys |-> keys],
           UNCHANGED <<claims, keys, reserved, leases, inc, dead, version, validity,
                       stale_at, evidence, mishaps, crashes>>,
           handoff' \in HandoffRecord, HandoffIn(claims)', HandoffInv', OpInv'
    PROVE  SafeStep
<1>1. disk'.claims = claims /\ disk'.keys = keys
  BY Zenon
<1>2. /\ claims \in Seq(Claim) /\ disk.claims \in Seq(Claim) /\ Len(claims) \in Nat
      /\ DOMAIN claims = DOMAIN disk.claims /\ DOMAIN claims = 1..Len(claims)
      /\ Evolves(disk.claims, claims) /\ Len(claims) = Len(disk.claims)
  BY TableIsFunction, Zenon DEF ClaimInv, Sound, Ahead
<1>3. Sound(claims)'
  BY Zenon DEF ClaimInv, Sound, OneLive, BoundIn, EvidencedIn, RowsIn, Live, InState
<1>4. Sound(disk.claims)'
  BY <1>1, <1>3, SMTT(30) DEF Sound, OneLive, BoundIn, EvidencedIn, RowsIn, HandoffIn, ReplacedIn,
                    Ended, Live, InState
<1>5. Ahead'
  BY <1>1, <1>2, Zenon DEF Ahead, Evolves
<1>6. ReservedInv'
  <2>1. /\ reserved \subseteq DOMAIN claims /\ Live(claims) \subseteq reserved
        /\ Fits(reserved, claims)
    BY Zenon DEF ClaimInv, ReservedInv
  <2>2. IsFiniteSet(reserved)
    BY <1>2, <2>1, TableIsFinite, Zenon
  <2>3. Fits(Live(claims), claims)
    BY <2>1, <2>2, FewerFit, Zenon
  <2>. QED  BY <1>1, <2>1, <2>3, Zenon DEF ReservedInv, Fits, HeldBy, Live, InState
<1>7. TypeOK'
  BY <1>1, <1>2, Zenon DEF ClaimInv, TypeOK, HandoffRecord, OpInv, OpRecord
<1>8. EndedIsFinal
  BY <1>1, <1>2, Zenon DEF EndedIsFinal, InState, Evolves
<1>. QED  BY <1>3, <1>4, <1>5, <1>6, <1>7, <1>8, Zenon DEF SafeStep, ClaimInv, ReleaseEndsClaim

LEMMA PrepareHandoffSafe ==
    ASSUME ClaimInv, NEW i, NEW b \in Agents, NEW action \in HandoffActions,
           PrepareHandoff(i, b, action)
    PROVE  SafeStep
<1>1. /\ op = Idle /\ handoff.phase = "none" /\ i \in Active
      /\ handoff' = [phase |-> "prepared", source |-> i, agent |-> b,
                     action |-> action, started |-> FALSE]
      /\ disk' = [claims |-> claims, keys |-> keys]
      /\ UNCHANGED <<claims, keys, reserved, leases, inc, dead, version, validity,
                     stale_at, evidence, op, mishaps, crashes>>
  BY Zenon DEF PrepareHandoff, Save, kernel, graph
<1>2. i \in DOMAIN claims /\ i \in 0..MaxClaims
  <2>1. claims \in Seq(Claim) /\ Len(claims) <= MaxClaims
    BY Zenon DEF ClaimInv, TypeOK
  <2>2. i \in DOMAIN claims
    BY <1>1, Zenon DEF Active, InState
  <2>3. i \in 1..Len(claims) /\ Len(claims) \in Nat
    BY <2>1, <2>2, TableIsFunction, Zenon
  <2>. QED  BY <2>1, <2>2, <2>3, Bounds, SMTT(30)
<1>3. handoff' \in HandoffRecord
  BY <1>1, <1>2, Zenon DEF HandoffRecord, Phases
<1>4. HandoffIn(claims)'
  BY <1>1, <1>2, Zenon DEF ClaimInv, Sound, HandoffIn
<1>5. HandoffInv'
  BY <1>1, Zenon DEF HandoffInv
<1>6. OpInv'
  BY <1>1, IdleOp, Zenon
<1>. QED  BY <1>1, <1>3, <1>4, <1>5, <1>6, HandoffStep, Zenon

\* The phase of the handoff moves on to p.
LEMMA PhaseStep ==
    ASSUME ClaimInv, NEW p \in Phases, handoff' = [handoff EXCEPT !.phase = p],
           handoff.phase # "none", p # "none",
           p = "committed" => ReplacedIn(claims),
           p \in {"prepared", "aborted", "refused"} => ~handoff.started,
           disk' = [claims |-> claims, keys |-> keys],
           UNCHANGED <<claims, keys, reserved, leases, inc, dead, version, validity,
                       stale_at, evidence, mishaps, crashes>>, OpInv'
    PROVE  SafeStep
<1>1. handoff \in HandoffRecord
  BY Zenon DEF ClaimInv, TypeOK, HandoffRecord
<1>2. /\ handoff' \in HandoffRecord /\ handoff'.phase = p /\ handoff'.source = handoff.source
      /\ handoff'.agent = handoff.agent /\ handoff'.started = handoff.started
  BY <1>1, Zenon DEF HandoffRecord
<1>3. HandoffIn(claims)'
  BY <1>2, Zenon DEF ClaimInv, Sound, HandoffIn, ReplacedIn, Ended
<1>4. HandoffInv'
  BY <1>2, Zenon DEF ClaimInv, HandoffInv
<1>. QED  BY <1>2, <1>3, <1>4, HandoffStep, Zenon

LEMMA CommitHandoffSafe ==
    ASSUME ClaimInv, CommitHandoff
    PROVE  SafeStep
<1>1. /\ op = Idle /\ handoff.phase \in {"prepared", "committing", "refused"}
      /\ handoff' = [handoff EXCEPT !.phase = "committing"]
      /\ disk' = [claims |-> claims, keys |-> keys]
      /\ op' = [Idle EXCEPT !.at = "handoff", !.claim = handoff.source, !.handoff = TRUE]
      /\ UNCHANGED <<claims, keys, reserved, leases, inc, dead, version, validity,
                     stale_at, evidence, mishaps, crashes>>
  BY Zenon DEF CommitHandoff, Save, kernel, graph
<1>2. /\ op' = [at |-> "handoff", claim |-> handoff.source, to |-> "none", seen |-> {},
                agent |-> "none", version |-> 0, handoff |-> TRUE]
  BY <1>1, Zenon DEF Idle
<1>3. /\ handoff.source \in DOMAIN claims /\ handoff \in HandoffRecord
      /\ handoff.source \in 0..MaxClaims
  BY <1>1, Zenon DEF ClaimInv, Sound, HandoffIn, TypeOK, HandoffRecord
<1>4. handoff'.phase = "committing"
  BY <1>1, <1>3, Zenon DEF HandoffRecord
<1>5. op' \in OpRecord
  BY <1>2, <1>3, Bounds, SMTT(30) DEF OpRecord
<1>6. OpInv'
  BY <1>1, <1>2, <1>3, <1>4, <1>5, Zenon DEF OpInv
<1>. QED  BY <1>1, <1>6, PhaseStep, Zenon DEF Phases

\* A replacement that was activated has been bound, and its source has ended.
LEMMA ReplacementsAreReal ==
    ASSUME ClaimInv, NEW i \in Replacements, claims[i].state \in {"active", "completed"}
    PROVE  ReplacedIn(claims)
BY Zenon DEF ClaimInv, Sound, BoundIn, HandoffIn, ReplacedIn, Replacements

LEMMA SettleHandoffSafe ==
    ASSUME ClaimInv, SettleHandoff
    PROVE  SafeStep
<1>1. /\ op.at = "handoff" /\ op \in OpRecord /\ op.handoff /\ handoff.phase = "committing"
  BY Zenon DEF SettleHandoff, ClaimInv, OpInv
<1>2. /\ op' = [op EXCEPT !.at = "close", !.to = HandoffOutcome]
      /\ UNCHANGED <<claims, keys, reserved, disk, handoff, leases, inc, dead, version,
                     validity, stale_at, evidence, mishaps, crashes>>
  BY Zenon DEF SettleHandoff, kernel, graph
<1>3. PICK to : to = HandoffOutcome
  BY Zenon
<1>4. /\ to \in {"committed", "refused", "failed_closed"}
      /\ to = "committed" => ReplacedIn(claims)
      /\ to = "refused" => ~handoff.started
  BY <1>3, ReplacementsAreReal, Zenon DEF HandoffOutcome
<1>5. op' \in OpRecord /\ op'.at = "close" /\ op'.to = to /\ op'.handoff
  BY <1>1, <1>2, <1>3, <1>4, Zenon DEF OpRecord
<1>6. to = "committed" => ReplacedIn(claims)'
  BY <1>2, <1>4, Zenon DEF ReplacedIn, Ended
<1>7. OpInv'
  BY <1>1, <1>2, <1>4, <1>5, <1>6, Zenon DEF OpInv
<1>. QED  BY <1>2, <1>7, MishapCount, QuietStep, Zenon DEF Saves, ClaimInv, TypeOK

\* The source ends together with its lease; its task is then free.
LEMMA ReleaseSourceSafe ==
    ASSUME ClaimInv, ReleaseSource
    PROVE  SafeStep
<1>1. PICK i : i = handoff.source
  BY Zenon
<1>2. PICK x : x = IF handoff.action = "rebase" THEN "stale" ELSE "preempted"
  BY Zenon
<1>3. /\ op.at = "handoff" /\ op \in OpRecord /\ op.handoff /\ handoff.phase = "committing"
      /\ op.claim \in DOMAIN claims
  BY Zenon DEF ReleaseSource, ClaimInv, OpInv
<1>4. i \in DOMAIN claims /\ claims[i].state = "active"
  BY <1>1, <1>3, Zenon DEF ReleaseSource, Transferable, ClaimInv, Sound, HandoffIn
<1>5. /\ \/ /\ leases' = leases \ RowsOf(i) /\ mishaps' = mishaps
            /\ claims' = [claims EXCEPT ![i].state = "released", ![i].attempt = x]
            /\ reserved' = reserved \ {i}
            /\ op' = [op EXCEPT !.at = "reassign", !.version = version]
         \/ /\ UNCHANGED <<leases, claims, reserved>> /\ (mishaps' = mishaps \/ Mishap)
            /\ op' = Raise
      /\ UNCHANGED <<keys, disk, handoff, inc, dead, version, validity, stale_at, evidence,
                     crashes>>
  BY <1>1, <1>2, Zenon DEF ReleaseSource, release, ReleaseFails, graph
<1>6. Saves /\ mishaps' \in 0..MaxMishaps /\ keys' \subseteq Tasks \X (0..MaxVersion)
  BY <1>5, MishapCount, Zenon DEF Saves, ClaimInv, TypeOK
<1>7. CASE UNCHANGED <<leases, claims, reserved>> /\ op' = Raise
  BY <1>5, <1>6, <1>7, RaisedOp, QuietStep, Zenon
<1>8. CASE /\ leases' = leases \ RowsOf(i)
           /\ claims' = [claims EXCEPT ![i].state = "released", ![i].attempt = x]
           /\ reserved' = reserved \ {i}
           /\ op' = [op EXCEPT !.at = "reassign", !.version = version]
  <2>1. /\ claims \in Seq(Claim) /\ claims[i] \in Claim /\ i \in Live(claims)
    BY <1>4, LiveIsUnended, TableIsFunction, Zenon DEF ClaimInv, Sound
  <2>2. Becomes(i, "released", claims[i].bound, x)
    <3>1. x \in AttemptStates /\ "released" \in ClaimStates /\ claims[i].bound \in BOOLEAN
      BY <1>2, <2>1, Zenon DEF AttemptStates, ClaimStates, Claim
    <3>. QED  BY <1>8, <2>1, <3>1, ChangedClaim, Zenon
  <2>3. /\ leases' \subseteq leases /\ \A r \in leases \ leases' : r.claim = i
        /\ \A r \in leases' : r.claim # i
    BY <1>8, Zenon DEF RowsOf
  <2>4. /\ claims' \in Seq(Claim) /\ DOMAIN claims' = DOMAIN claims
        /\ claims'[i].state = "released" /\ claims'[i].task = claims[i].task
        /\ \A j \in DOMAIN claims \ {i} : claims'[j] = claims[j]
    BY <2>1, <2>2, SMTT(30) DEF Becomes, Updates
  <2>5. SourceIsFree'
    <3>1. Ended(claims', i)
      BY <1>4, <2>4, Zenon DEF Ended, TerminalClaimStates
    <3>2. ASSUME NEW j \in Live(claims')
          PROVE  claims'[j].task # claims'[i].task
      <4>1. j \in DOMAIN claims' /\ claims'[j].state \in {"acquiring", "active"} /\ j # i
        BY <2>4, LiveIsUnended, Zenon
      <4>2. j \in Live(claims) /\ claims'[j] = claims[j]
        BY <2>1, <2>4, <4>1, LiveIsUnended, Zenon
      <4>. QED  BY <2>1, <2>4, <4>1, <4>2, Zenon DEF ClaimInv, Sound, OneLive
    <3>. QED  BY <1>1, <1>5, <3>1, <3>2, Zenon DEF SourceIsFree, Ended, Live, InState
  <2>6. /\ op' \in OpRecord /\ op'.at = "reassign" /\ op'.handoff /\ op'.claim = op.claim
    BY <1>3, <1>8, Zenon DEF OpRecord, ClaimInv, TypeOK
  <2>7. OpInv'
    BY <1>3, <1>5, <2>4, <2>5, <2>6, Zenon DEF OpInv
  <2>. QED  BY <1>5, <1>6, <1>8, <2>1, <2>2, <2>3, <2>7, ClaimStep, Zenon DEF TerminalClaimStates
<1>. QED  BY <1>5, <1>7, <1>8, Zenon

LEMMA ReassignSafe ==
    ASSUME ClaimInv, Reassign
    PROVE  SafeStep
<1>1. /\ op.at = "reassign" /\ op \in OpRecord /\ op.handoff /\ handoff.phase = "committing"
      /\ op.claim \in DOMAIN claims /\ SourceIsFree /\ handoff \in HandoffRecord
  BY Zenon DEF Reassign, ClaimInv, OpInv, TypeOK, HandoffRecord
<1>2. /\ \/ /\ disk' = [claims |-> claims, keys |-> keys] /\ mishaps' = mishaps
            /\ handoff' = [handoff EXCEPT !.started = TRUE]
            /\ op' = [op EXCEPT !.at = "clear"]
         \/ SaveFails /\ op' = Raise /\ handoff' = handoff
      /\ UNCHANGED <<claims, keys, reserved, leases, inc, dead, version, validity,
                     stale_at, evidence, crashes>>
  BY Zenon DEF Reassign, Save, kernel, graph
<1>3. CASE SaveFails /\ op' = Raise /\ handoff' = handoff
  BY <1>2, <1>3, MishapCount, RaisedOp, QuietStep, Zenon DEF SaveFails, Saves, ClaimInv, TypeOK
<1>4. CASE /\ disk' = [claims |-> claims, keys |-> keys] /\ mishaps' = mishaps
           /\ handoff' = [handoff EXCEPT !.started = TRUE]
           /\ op' = [op EXCEPT !.at = "clear"]
  <2>1. /\ handoff' \in HandoffRecord /\ handoff'.phase = "committing" /\ handoff'.started
        /\ handoff'.source = handoff.source /\ handoff'.agent = handoff.agent
    BY <1>1, <1>4, Zenon DEF HandoffRecord
  <2>2. HandoffIn(claims)'
    BY <1>1, <1>2, <2>1, Zenon DEF ClaimInv, Sound, HandoffIn, SourceIsFree, Ended
  <2>3. HandoffInv'
    BY <1>1, <2>1, Zenon DEF ClaimInv, HandoffInv
  <2>4. /\ op' \in OpRecord /\ op'.at = "clear" /\ op'.handoff /\ op'.claim = op.claim
    BY <1>1, <1>4, Zenon DEF OpRecord
  <2>5. SourceIsFree'
    BY <1>1, <1>2, <2>1, Zenon DEF SourceIsFree, Ended, Live, InState
  <2>6. OpInv'
    BY <1>1, <1>2, <2>1, <2>4, <2>5, Zenon DEF OpInv
  <2>. QED  BY <1>2, <1>4, <2>1, <2>2, <2>3, <2>6, HandoffStep, Zenon
<1>. QED  BY <1>2, <1>3, <1>4, Zenon

\* The replacement is admitted like any claim, for the task its source left.
LEMMA AdmitSafe ==
    ASSUME ClaimInv, Admit
    PROVE  SafeStep
<1>1. PICK t : t = claims[handoff.source].task
  BY Zenon
<1>2. PICK b : b = handoff.agent
  BY Zenon
<1>3. /\ op.at = "replace" /\ op.handoff /\ handoff.phase = "committing" /\ SourceIsFree
  BY Zenon DEF Admit, ClaimInv, OpInv
<1>4. \/ Propose(t, b, TRUE) /\ ~shortages(b)
      \/ /\ Save(claims, keys) \/ SaveFails
         /\ op' = Raise
         /\ UNCHANGED <<claims, keys, reserved, handoff, leases, inc, dead, version,
                        validity, stale_at, evidence, crashes>>
  BY <1>1, <1>2, Zenon DEF Admit, kernel, graph
<1>5. CASE Propose(t, b, TRUE) /\ ~shortages(b)
  <2>1. b \in Agents
    BY <1>2, <1>3, Zenon DEF ClaimInv, HandoffInv
  <2>2. t \in Tasks
    BY <1>1, <1>3, TableIsFunction, Zenon DEF SourceIsFree, Ended, ClaimInv, Sound, Claim
  <2>3. \A j \in Live(claims) : claims[j].task # t
    BY <1>1, <1>3, Zenon DEF SourceIsFree
  <2>. QED  BY <1>2, <1>3, <1>5, <2>1, <2>2, <2>3, ProposeSafe, Zenon DEF SourceIsFree
<1>6. CASE /\ Save(claims, keys) \/ SaveFails
           /\ op' = Raise
           /\ UNCHANGED <<claims, keys, reserved, handoff, leases, inc, dead, version,
                          validity, stale_at, evidence, crashes>>
  <2>1. Saves /\ mishaps' \in 0..MaxMishaps /\ keys' \subseteq Tasks \X (0..MaxVersion)
    BY <1>6, MishapCount, Zenon DEF Save, SaveFails, Saves, ClaimInv, TypeOK
  <2>. QED  BY <1>6, <2>1, RaisedOp, QuietStep, Zenon
<1>. QED  BY <1>4, <1>5, <1>6, Zenon

LEMMA RecordReassignedSafe ==
    ASSUME ClaimInv, RecordReassigned
    PROVE  SafeStep
<1>1. /\ op.at = "reassigned" /\ op \in OpRecord /\ op.handoff /\ handoff.phase = "committing"
      /\ op.claim \in DOMAIN claims /\ claims[op.claim].replaces /\ claims[op.claim].bound
  BY Zenon DEF RecordReassigned, ClaimInv, OpInv
<1>2. /\ \/ Save(claims, keys) /\ op' = [op EXCEPT !.at = "close", !.to = "committed"]
         \/ SaveFails /\ op' = Raise
      /\ UNCHANGED <<claims, keys, reserved, handoff, leases, inc, dead, version, validity,
                     stale_at, evidence, crashes>>
  BY Zenon DEF RecordReassigned, kernel, graph
<1>3. ReplacedIn(claims)
  BY <1>1, Zenon DEF ClaimInv, Sound, HandoffIn, ReplacedIn
<1>4. OpInv'
  <2>1. CASE op' = Raise
    BY <1>2, <2>1, RaisedOp, Zenon
  <2>2. CASE op' = [op EXCEPT !.at = "close", !.to = "committed"]
    <3>1. op' \in OpRecord /\ op'.at = "close" /\ op'.to = "committed" /\ op'.handoff
      BY <1>1, <2>2, Zenon DEF OpRecord
    <3>2. ReplacedIn(claims)'
      BY <1>2, <1>3, Zenon DEF ReplacedIn, Ended
    <3>. QED  BY <1>1, <1>2, <3>1, <3>2, Zenon DEF OpInv
  <2>. QED  BY <1>2, <2>1, <2>2, Zenon
<1>5. Saves /\ mishaps' \in 0..MaxMishaps /\ keys' \subseteq Tasks \X (0..MaxVersion)
  BY <1>2, MishapCount, Zenon DEF Save, SaveFails, Saves, ClaimInv, TypeOK
<1>. QED  BY <1>2, <1>4, <1>5, QuietStep, Zenon

LEMMA CloseHandoffSafe ==
    ASSUME ClaimInv, CloseHandoff
    PROVE  SafeStep
<1>1. /\ op.at = "close" /\ op.handoff /\ handoff.phase = "committing"
      /\ op.to \in {"committed", "refused", "failed_closed"}
      /\ op.to = "committed" => ReplacedIn(claims)
      /\ op.to = "refused" => ~handoff.started
  BY Zenon DEF CloseHandoff, ClaimInv, OpInv
<1>2. /\ \/ /\ disk' = [claims |-> claims, keys |-> keys] /\ mishaps' = mishaps
            /\ handoff' = [handoff EXCEPT !.phase = op.to]
         \/ SaveFails /\ handoff' = handoff
      /\ op' = Idle
      /\ UNCHANGED <<claims, keys, reserved, leases, inc, dead, version, validity,
                     stale_at, evidence, crashes>>
  BY Zenon DEF CloseHandoff, Save, kernel, graph
<1>3. OpInv'
  BY <1>2, IdleOp, Zenon
<1>4. CASE SaveFails /\ handoff' = handoff
  BY <1>2, <1>3, <1>4, MishapCount, QuietStep, Zenon DEF SaveFails, Saves, ClaimInv, TypeOK
<1>5. CASE /\ disk' = [claims |-> claims, keys |-> keys] /\ mishaps' = mishaps
           /\ handoff' = [handoff EXCEPT !.phase = op.to]
  <2>1. op.to \in Phases /\ op.to # "none" /\ op.to \notin {"prepared", "aborted"}
    BY <1>1, Zenon DEF Phases
  <2>. QED  BY <1>1, <1>2, <1>3, <1>5, <2>1, PhaseStep, Zenon
<1>. QED  BY <1>2, <1>4, <1>5, Zenon

\* A recovered handoff is aborted only if it had not started to reassign.
LEMMA RecoverHandoffSafe ==
    ASSUME ClaimInv, RecoverHandoff
    PROVE  SafeStep
<1>1. PICK p : p = RecoveredPhase
  BY Zenon
<1>2. /\ op = Idle /\ handoff.phase \in {"prepared", "committing", "refused"}
      /\ handoff' = [handoff EXCEPT !.phase = p]
      /\ disk' = [claims |-> claims, keys |-> keys]
      /\ UNCHANGED <<claims, keys, reserved, leases, inc, dead, version, validity,
                     stale_at, evidence, op, mishaps, crashes>>
  BY <1>1, Zenon DEF RecoverHandoff, Save, kernel, graph
<1>3. p \in {"aborted", "committed", "in_doubt"}
  BY <1>1, Zenon DEF RecoveredPhase
<1>4. p = "committed" => ReplacedIn(claims)
  BY <1>1, ReplacementsAreReal, Zenon DEF RecoveredPhase
<1>5. p = "aborted" => ~handoff.started
  <2>1. handoff.phase = "prepared" => ~handoff.started
    BY Zenon DEF ClaimInv, HandoffInv
  <2>2. claims[handoff.source].state = "active" => ~handoff.started
    BY Zenon DEF ClaimInv, Sound, HandoffIn, Ended, TerminalClaimStates
  <2>. QED  BY <1>1, <2>1, <2>2, Zenon DEF RecoveredPhase
<1>6. OpInv'
  BY <1>2, IdleOp, Zenon
<1>7. p \in Phases /\ p # "none" /\ p \notin {"prepared", "refused"}
  BY <1>3, Zenon DEF Phases
<1>. QED  BY <1>2, <1>4, <1>5, <1>6, <1>7, PhaseStep, Zenon

-----------------------------------------------------------------------------
(* The crash, and the other authorities.                                    *)

\* The restarted scheduler is in a state the snapshot went through.
LEMMA CrashRestartSafe ==
    ASSUME ClaimInv, CrashRestart
    PROVE  SafeStep
<1>1. /\ crashes < MaxCrashes /\ crashes' = crashes + 1
      /\ claims' = disk.claims /\ keys' = disk.keys /\ reserved' = Live(disk.claims)
      /\ op' = Idle
      /\ UNCHANGED <<disk, handoff, leases, inc, dead, version, validity, stale_at,
                     evidence, mishaps>>
  BY Zenon DEF CrashRestart, kernel, graph
<1>2. disk.claims \in Seq(Claim) /\ Len(disk.claims) \in Nat
  BY TableIsFunction, Zenon DEF ClaimInv, Sound
<1>3. Sound(claims)'
  BY <1>1, Zenon DEF ClaimInv, Sound, OneLive, BoundIn, EvidencedIn, RowsIn, HandoffIn, ReplacedIn,
              Ended, Live, InState
<1>4. Sound(disk.claims)'
  BY <1>1, Zenon DEF ClaimInv, Sound, OneLive, BoundIn, EvidencedIn, RowsIn, HandoffIn, ReplacedIn,
              Ended, Live, InState
<1>5. Ahead'
  BY <1>1, <1>2, SMTT(30) DEF Ahead, Evolves
<1>6. ReservedInv'
  BY <1>1, <1>2, LiveIsUnended, Zenon DEF ClaimInv, ReservedInv, Fits, HeldBy, Live, InState
<1>7. OpInv'
  BY <1>1, IdleOp, Zenon
<1>8. HandoffInv'
  BY <1>1, Zenon DEF ClaimInv, HandoffInv
<1>9. crashes' \in 0..MaxCrashes
  BY <1>1, Bounds, SMTT(30) DEF ClaimInv, TypeOK
<1>10. TypeOK'
  BY <1>1, <1>6, <1>7, <1>9, Zenon DEF ClaimInv, TypeOK, ReservedInv, OpInv, OpRecord
<1>11. EndedIsFinal
  BY <1>1, <1>2, SMTT(30) DEF EndedIsFinal
<1>. QED  BY <1>1, <1>3, <1>4, <1>5, <1>6, <1>7, <1>8, <1>10, <1>11, Zenon
          DEF SafeStep, ClaimInv, ReleaseEndsClaim

\* A row that is there after a step of the Kernel or the graph is the row of a
\* claim that had one.
Inherited ==
    \A r \in leases' : \E q \in leases : /\ q.claim = r.claim /\ q.task = r.task
                                          /\ q.agent = r.agent /\ q.inc = r.inc

\* What the operation under way relies on is not the Kernel's or the graph's to
\* take away.
LEMMA OpStays ==
    ASSUME ClaimInv, UNCHANGED <<op, claims, handoff>>, Inherited, evidence \subseteq evidence'
    PROVE  OpInv'
<1>1. RowsOf(op.claim) = {} => RowsOf(op.claim)' = {}
  BY SMTT(30) DEF Inherited, RowsOf
<1>2. (SourceIsFree => SourceIsFree') /\ (ReplacedIn(claims) => ReplacedIn(claims)')
  BY Zenon DEF SourceIsFree, ReplacedIn, Ended, Live, InState
<1>. QED  BY <1>1, <1>2, Zenon DEF ClaimInv, OpInv, Live, InState

\* The Kernel and the graph move while the scheduler's state stays.
LEMMA OutsideStep ==
    ASSUME ClaimInv, UNCHANGED <<claims, keys, reserved, disk, handoff, crashes>>,
           Inherited, leases' \subseteq LeaseRow, evidence \subseteq evidence',
           evidence' \subseteq ClaimIds \X (0..MaxVersion),
           inc' \in [Agents -> 0..MaxInc], dead' \subseteq Agents \X (0..MaxInc),
           version' \in 0..MaxVersion,
           validity' \in [Tasks -> {"unverified", "verified", "stale"}],
           stale_at' \in [Tasks -> 0..MaxVersion],
           mishaps' \in 0..MaxMishaps, OpInv', op' = op \/ leases' = leases
    PROVE  SafeStep
<1>1. RowsIn(claims)' /\ RowsIn(disk.claims)'
  <2>1. RowsIn(claims) /\ RowsIn(disk.claims)
    BY Zenon DEF ClaimInv, Sound
  <2>2. RowsIn(claims)'
    BY <2>1, SMTT(30) DEF RowsIn, Inherited, Live, InState
  <2>3. RowsIn(disk.claims)'
    BY <2>1, SMTT(30) DEF RowsIn, Inherited, Live, InState
  <2>. QED  BY <2>2, <2>3, Zenon
<1>2. EvidencedIn(claims)' /\ EvidencedIn(disk.claims)'
  BY Zenon DEF ClaimInv, Sound, EvidencedIn
<1>3. HandoffIn(claims)' /\ HandoffIn(disk.claims)'
  BY Zenon DEF ClaimInv, Sound, HandoffIn, ReplacedIn, Ended
<1>4. Sound(claims)' /\ Sound(disk.claims)'
  BY <1>1, <1>2, <1>3, Zenon DEF ClaimInv, Sound, OneLive, BoundIn, Live, InState
<1>5. Ahead' /\ ReservedInv' /\ HandoffInv'
  BY Zenon DEF ClaimInv, Ahead, Evolves, ReservedInv, Fits, HeldBy, Live, InState, HandoffInv
<1>6. TypeOK'
  BY Zenon DEF ClaimInv, TypeOK, LeaseRow, OpInv, OpRecord
<1>7. EndedIsFinal
  BY TableIsFunction, SMTT(30) DEF EndedIsFinal, ClaimInv, Sound
<1>. QED  BY <1>4, <1>5, <1>6, <1>7, Zenon DEF SafeStep, ClaimInv, ReleaseEndsClaim

LEMMA ReplaceProcessSafe ==
    ASSUME ClaimInv, NEW a \in Agents, ReplaceProcess(a)
    PROVE  SafeStep
<1>1. /\ Mishap /\ op = Idle /\ inc[a] < MaxInc
      /\ inc' = [inc EXCEPT ![a] = @ + 1]
      /\ op' = [Idle EXCEPT !.at = "retire", !.agent = a]
      /\ UNCHANGED <<claims, keys, reserved, disk, handoff, leases, dead, version, validity,
                     stale_at, evidence, crashes>>
  BY Zenon DEF ReplaceProcess, graph
<1>2. op' = [at |-> "retire", claim |-> 0, to |-> "none", seen |-> {}, agent |-> a,
             version |-> 0, handoff |-> FALSE]
  BY <1>1, Zenon DEF Idle
<1>3. op' \in OpRecord
  BY <1>2, Bounds, SMTT(30) DEF OpRecord
<1>4. OpInv'
  BY <1>2, <1>3, Zenon DEF OpInv
<1>5. inc' \in [Agents -> 0..MaxInc]
  <2>1. inc \in [Agents -> 0..MaxInc]
    BY Zenon DEF ClaimInv, TypeOK
  <2>. QED  BY <1>1, <2>1, Bounds, SMTT(30)
<1>6. Inherited
  BY <1>1, Zenon DEF Inherited
<1>. QED  BY <1>1, <1>4, <1>5, <1>6, MishapCount, OutsideStep, Zenon DEF ClaimInv, TypeOK, LeaseRow

LEMMA LeaseExpiresSafe ==
    ASSUME ClaimInv, NEW r \in leases, LeaseExpires(r)
    PROVE  SafeStep
<1>1. PICK q : q = [r EXCEPT !.live = FALSE]
  BY Zenon
<1>2. /\ Mishap /\ leases' = (leases \ {r}) \cup {q}
      /\ UNCHANGED <<claims, keys, reserved, disk, handoff, inc, dead, version, validity,
                     stale_at, evidence, op, crashes>>
  BY <1>1, Zenon DEF LeaseExpires, graph
<1>3. r \in LeaseRow /\ leases \subseteq LeaseRow
  BY Zenon DEF ClaimInv, TypeOK, LeaseRow
<1>4. /\ q \in LeaseRow /\ q.claim = r.claim /\ q.task = r.task /\ q.agent = r.agent
      /\ q.inc = r.inc
  BY <1>1, <1>3, Zenon DEF LeaseRow
<1>5. Inherited
  BY <1>2, <1>4, Zenon DEF Inherited
<1>6. leases' \subseteq LeaseRow
  BY <1>2, <1>3, <1>4, Zenon
<1>7. OpInv'
  BY <1>2, <1>5, OpStays, Zenon
<1>. QED  BY <1>2, <1>5, <1>6, <1>7, MishapCount, OutsideStep, Zenon DEF ClaimInv, TypeOK

LEMMA KernelReclaimsSafe ==
    ASSUME ClaimInv, NEW r \in leases, KernelReclaims(r)
    PROVE  SafeStep
<1>1. /\ leases' = leases \ {r}
      /\ UNCHANGED <<claims, keys, reserved, disk, handoff, inc, dead, version, validity,
                     stale_at, evidence, op, mishaps, crashes>>
  BY Zenon DEF KernelReclaims, graph
<1>2. Inherited /\ leases' \subseteq LeaseRow
  BY <1>1, Zenon DEF Inherited, ClaimInv, TypeOK, LeaseRow
<1>3. OpInv'
  BY <1>1, <1>2, OpStays, Zenon
<1>. QED  BY <1>1, <1>2, <1>3, OutsideStep, Zenon DEF ClaimInv, TypeOK

LEMMA ProcessDiesSafe ==
    ASSUME ClaimInv, NEW a \in Agents, ProcessDies(a)
    PROVE  SafeStep
<1>1. /\ Mishap /\ dead' = dead \cup {<<a, inc[a]>>}
      /\ UNCHANGED <<claims, keys, reserved, disk, handoff, leases, inc, version, validity,
                     stale_at, evidence, op, crashes>>
  BY Zenon DEF ProcessDies, graph
<1>2. Inherited
  BY <1>1, Zenon DEF Inherited
<1>3. OpInv'
  BY <1>1, <1>2, OpStays, Zenon
<1>4. dead' \subseteq Agents \X (0..MaxInc)
  <2>1. inc \in [Agents -> 0..MaxInc] /\ dead \subseteq Agents \X (0..MaxInc)
    BY Zenon DEF ClaimInv, TypeOK
  <2>. QED  BY <1>1, <2>1, SMTT(30)
<1>. QED  BY <1>1, <1>2, <1>3, <1>4, MishapCount, OutsideStep, Zenon DEF ClaimInv, TypeOK, LeaseRow

LEMMA GraphVerifiesSafe ==
    ASSUME ClaimInv, NEW i \in DOMAIN claims, GraphVerifies(i)
    PROVE  SafeStep
<1>1. PICK t : t = claims[i].task
  BY Zenon
<1>2. /\ version < MaxVersion /\ version' = version + 1
      /\ validity' = [validity EXCEPT ![t] = "verified"]
      /\ evidence' = evidence \cup {<<i, version + 1>>}
      /\ UNCHANGED <<claims, keys, reserved, disk, handoff, leases, inc, dead, stale_at, op,
                     mishaps, crashes>>
  BY <1>1, Zenon DEF GraphVerifies, kernel
<1>3. version + 1 \in 0..MaxVersion /\ i \in ClaimIds
  <2>1. claims \in Seq(Claim) /\ Len(claims) <= MaxClaims /\ version \in 0..MaxVersion
    BY Zenon DEF ClaimInv, TypeOK
  <2>2. i \in 1..Len(claims) /\ Len(claims) \in Nat
    BY <2>1, TableIsFunction, Zenon
  <2>. QED  BY <1>2, <2>1, <2>2, Bounds, SMTT(30) DEF ClaimIds
<1>4. validity' \in [Tasks -> {"unverified", "verified", "stale"}]
  BY <1>2, Zenon DEF ClaimInv, TypeOK
<1>5. evidence \subseteq evidence' /\ evidence' \subseteq ClaimIds \X (0..MaxVersion)
  BY <1>2, <1>3, SMTT(30) DEF ClaimInv, TypeOK
<1>6. Inherited
  BY <1>2, Zenon DEF Inherited
<1>7. OpInv'
  BY <1>2, <1>5, <1>6, OpStays, Zenon
<1>8. version' \in 0..MaxVersion
  BY <1>2, <1>3, Zenon
<1>9. /\ leases' \subseteq LeaseRow /\ inc' \in [Agents -> 0..MaxInc]
      /\ dead' \subseteq Agents \X (0..MaxInc)
      /\ stale_at' \in [Tasks -> 0..MaxVersion] /\ mishaps' \in 0..MaxMishaps
  BY <1>2, Zenon DEF ClaimInv, TypeOK, LeaseRow
<1>. QED  BY <1>2, <1>4, <1>5, <1>6, <1>7, <1>8, <1>9, OutsideStep, Zenon

LEMMA GraphInvalidatesSafe ==
    ASSUME ClaimInv, NEW t \in Tasks, GraphInvalidates(t)
    PROVE  SafeStep
<1>1. /\ version < MaxVersion /\ version' = version + 1
      /\ validity' = [validity EXCEPT ![t] = "stale"]
      /\ stale_at' = [stale_at EXCEPT ![t] = version + 1]
      /\ UNCHANGED <<claims, keys, reserved, disk, handoff, leases, inc, dead, evidence, op,
                     mishaps, crashes>>
  BY Zenon DEF GraphInvalidates, kernel
<1>2. version + 1 \in 0..MaxVersion
  BY <1>1, Bounds, SMTT(30) DEF ClaimInv, TypeOK
<1>3. /\ validity' \in [Tasks -> {"unverified", "verified", "stale"}]
      /\ stale_at' \in [Tasks -> 0..MaxVersion]
  BY <1>1, <1>2, Zenon DEF ClaimInv, TypeOK
<1>4. Inherited
  BY <1>1, Zenon DEF Inherited
<1>5. OpInv'
  BY <1>1, <1>4, OpStays, Zenon
<1>6. version' \in 0..MaxVersion
  BY <1>1, <1>2, Zenon
<1>7. /\ leases' \subseteq LeaseRow /\ inc' \in [Agents -> 0..MaxInc]
      /\ dead' \subseteq Agents \X (0..MaxInc) /\ mishaps' \in 0..MaxMishaps
      /\ evidence' \subseteq ClaimIds \X (0..MaxVersion) /\ evidence \subseteq evidence'
  BY <1>1, Zenon DEF ClaimInv, TypeOK, LeaseRow
<1>. QED  BY <1>1, <1>3, <1>4, <1>5, <1>6, <1>7, OutsideStep, Zenon

LEMMA GraphMovesSafe ==
    ASSUME ClaimInv, GraphMoves
    PROVE  SafeStep
<1>1. /\ Mishap /\ version < MaxVersion /\ version' = version + 1
      /\ UNCHANGED <<claims, keys, reserved, disk, handoff, leases, inc, dead, validity,
                     stale_at, evidence, op, crashes>>
  BY Zenon DEF GraphMoves, kernel
<1>2. version' \in 0..MaxVersion
  BY <1>1, Bounds, SMTT(30) DEF ClaimInv, TypeOK
<1>3. Inherited
  BY <1>1, Zenon DEF Inherited
<1>4. OpInv'
  BY <1>1, <1>3, OpStays, Zenon
<1>. QED  BY <1>1, <1>2, <1>3, <1>4, MishapCount, OutsideStep, Zenon DEF ClaimInv, TypeOK, LeaseRow

-----------------------------------------------------------------------------
(* The theorems.                                                            *)

LEMMA InitClaimInv ==
    ASSUME Init
    PROVE  ClaimInv
<1>1. /\ claims = <<>> /\ disk.claims = <<>> /\ disk.keys = {} /\ keys = {} /\ reserved = {}
      /\ handoff.phase = "none" /\ handoff.source = 0 /\ handoff.agent = "none"
      /\ handoff.action = "none" /\ handoff.started = FALSE
      /\ handoff \in HandoffRecord
      /\ leases = {} /\ dead = {} /\ evidence = {} /\ op = Idle
      /\ version = 0 /\ mishaps = 0 /\ crashes = 0
  BY Bounds, SMTT(30) DEF Init, HandoffRecord, Phases
<1>2. <<>> \in Seq(Claim) /\ Len(<<>>) = 0 /\ DOMAIN <<>> = {} /\ Live(<<>>) = {}
  BY SMTT(30) DEF Live, InState
<1>3. Sound(<<>>)
  BY <1>1, <1>2, Bounds, SMTT(30) DEF Sound, OneLive, BoundIn, EvidencedIn, RowsIn, HandoffIn
<1>4. Ahead
  BY <1>1, <1>2, SMTT(30) DEF Ahead, Evolves
<1>5. ReservedInv
  <2>1. \A a \in Agents : HeldBy({}, <<>>, a) = {}
    BY Zenon DEF HeldBy
  <2>2. Fits({}, <<>>)
    BY <2>1, FS_EmptySet, Bounds, SMTT(30) DEF Fits
  <2>. QED  BY <1>1, <1>2, <2>2, Zenon DEF ReservedInv
<1>6. HandoffInv
  BY <1>1, Zenon DEF HandoffInv
<1>7. OpInv
  BY <1>1, Bounds, SMTT(30) DEF OpInv, OpRecord, Idle
<1>8. inc \in [Agents -> 0..MaxInc]
  BY Bounds, SMTT(30) DEF Init
<1>9. /\ validity \in [Tasks -> {"unverified", "verified", "stale"}]
      /\ stale_at \in [Tasks -> 0..MaxVersion]
  BY Bounds, SMTT(30) DEF Init
<1>10. TypeOK
  BY <1>1, <1>2, <1>7, <1>8, <1>9, Bounds, SMTT(30) DEF TypeOK, HandoffRecord, OpInv, OpRecord
<1>. QED  BY <1>1, <1>3, <1>4, <1>5, <1>6, <1>7, <1>10, Zenon DEF ClaimInv

LEMMA NextSafe ==
    ASSUME ClaimInv, Next
    PROVE  SafeStep
<1>1. CASE Scheduling
  BY <1>1, ScheduleSafe, AcquireLeaseSafe, RefuseLeaseSafe, ActivateSafe, UndoActivationSafe,
     MarkKeySafe, Zenon DEF Scheduling
<1>2. CASE Ending
  <2>1. CASE \E i \in DOMAIN claims : Start(i) \/ Succeed(i) \/ MarkStale(i) \/ Complete(i)
    <3>1. {"running", "succeeded", "stale"} \subseteq AttemptStates
      BY Zenon DEF AttemptStates
    <3>. QED  BY <2>1, <3>1, CallbackSafe, CompleteSafe, Zenon DEF Start, Succeed, MarkStale
  <2>. QED  BY <1>2, <2>1, ReleaseTaskSafe, FreeLeaseSafe, RecordEndSafe, ClearKeysSafe, Zenon
            DEF Ending
<1>3. CASE Reclaiming
  BY <1>3, ReconcileClaimSafe, EndReconcileSafe, SettleSafe, ReplaceProcessSafe,
     RetireClaimSafe, RecordRetiredSafe, Zenon DEF Reclaiming
<1>4. CASE HandingOff
  BY <1>4, PrepareHandoffSafe, CommitHandoffSafe, SettleHandoffSafe, ReleaseSourceSafe,
     ReassignSafe, AdmitSafe, RecordReassignedSafe, CloseHandoffSafe, RecoverHandoffSafe, Zenon
     DEF HandingOff
<1>5. CASE Environment
  BY <1>5, CrashRestartSafe, LeaseExpiresSafe, KernelReclaimsSafe, ProcessDiesSafe,
     GraphVerifiesSafe, GraphInvalidatesSafe, GraphMovesSafe, Zenon DEF Environment
<1>. QED  BY <1>1, <1>2, <1>3, <1>4, <1>5, Zenon DEF Next

LEMMA StutterClaimInv ==
    ASSUME ClaimInv, UNCHANGED vars
    PROVE  ClaimInv'
<1>1. /\ UNCHANGED <<claims, keys, reserved, disk, handoff, leases, inc, dead, version,
                     validity, stale_at, evidence, op, mishaps, crashes>>
  BY Zenon DEF vars, kernel, graph
<1>2. Inherited
  BY <1>1, Zenon DEF Inherited
<1>3. OpInv'
  BY <1>1, <1>2, OpStays, Zenon
<1>. QED  BY <1>1, <1>2, <1>3, OutsideStep, Zenon DEF ClaimInv, TypeOK, LeaseRow, SafeStep

\* The scheduler's memory, its snapshot, its reservations, the handoff record,
\* the Kernel's rows and the operation under way fit together in every
\* reachable state, whatever fails, dies, expires or crashes in between.
THEOREM ClaimInvariant == Spec => []ClaimInv
<1>1. ClaimInv /\ [Next]_vars => ClaimInv'
  BY NextSafe, StutterClaimInv, Zenon DEF SafeStep
<1>. QED  BY <1>1, InitClaimInv, PTL DEF Spec

LEMMA ClaimInvIsSound ==
    ASSUME ClaimInv
    PROVE  ClaimsAreSound
<1>1. \A cs \in {claims, disk.claims} : Sound(cs) /\ cs \in Seq(Claim)
  BY Zenon DEF ClaimInv, Sound
<1>2. OneOwner
  <2> SUFFICES ASSUME NEW cs \in {claims, disk.claims}, NEW i \in InState(cs, {"active"}),
                      NEW j \in InState(cs, {"active"}), cs[i].task = cs[j].task
               PROVE  i = j
    BY Zenon DEF OneOwner
  <2>1. i \in Live(cs) /\ j \in Live(cs)
    BY <1>1, LiveIsUnended, Zenon DEF InState
  <2>. QED  BY <1>1, <2>1, Zenon DEF Sound, OneLive
<1>3. NoOrphanLease
  BY Zenon DEF ClaimInv, Sound, RowsIn, NoOrphanLease
<1>4. RestoredClaimsFit
  BY Zenon DEF ClaimInv, ReservedInv, Fits, HeldBy, RestoredClaimsFit
<1>5. CompletedByOwnEvidence
  BY Zenon DEF ClaimInv, Sound, EvidencedIn, CompletedByOwnEvidence, InState
<1>6. HandoffRecordIsTrue
  BY Zenon DEF ClaimInv, Sound, HandoffIn, ReplacedIn, Ended, HandoffInv, HandoffRecordIsTrue,
         InState
<1>. QED  BY <1>2, <1>3, <1>4, <1>5, <1>6, Zenon DEF ClaimInv, ClaimsAreSound

\* At most one owner per task, no lease without a durable live claim, restored
\* claims that fit, completion on the claim's own evidence and truthful handoff
\* records, for any number of tasks, agents, claims, faults and crashes
\* (schedule_once, reconcile, release_task, retire_agent_process, handoff_task).
THEOREM ClaimsSound == Spec => []ClaimsAreSound
<1>. QED  BY ClaimInvIsSound, ClaimInvariant, PTL

\* No step gives back the lease of a claim that goes on as the owner, and a
\* claim the snapshot shows as ended stays as it ended, across every write,
\* crash and restart (ClaimManager.release, CrashRestart).
THEOREM ClaimStepsFinal == Spec => ClaimStepsAreFinal
<1>1. ClaimInv /\ [Next]_vars => [ReleaseEndsClaim /\ EndedIsFinal]_vars
  BY NextSafe, Zenon DEF SafeStep
<1>. QED  BY <1>1, ClaimInvariant, PTL DEF Spec, ClaimStepsAreFinal
=============================================================================
