--------------------------- MODULE Reconciliation ---------------------------
(***************************************************************************)
(* External artifact versions and their reconciliation into the graph:     *)
(* FactsProvider, the authority for versions and observation tokens, and   *)
(* repair, reconcile_observation and reconcile_observations of AgentOS.    *)
(* Callers are threads or processes that share the database; each method   *)
(* is the sequence of reads and the one transaction its code performs.     *)
(*                                                                         *)
(* A version of an artifact is an index of facts[a]; the entry is its      *)
(* content.  A token stands for one artifact version of this graph:        *)
(* issuing it again returns the stored one.                                *)
(***************************************************************************)
EXTENDS Integers, Sequences, FiniteSets, SequencesExt

CONSTANTS Callers,
          Artifacts, Contents,
          Tasks,
          Inputs,      \* task -> artifacts it declares
          Output,      \* task -> set of the artifacts its PRODUCES edges bind
          Upstream,    \* task -> tasks it depends on
          Batches,     \* sets of artifacts reconciled by one call
          MaxFacts,    \* bound: artifact -> its versions
          MaxVersion   \* bound: graph versions

VARIABLES facts, tokens,         \* sdk_artifact_facts, sdk_observation_tokens
          validity, bound,       \* of the tasks; the output version verified
          gver, d3, keys,        \* graph version, D3 records, used keys
          call                   \* per caller

vars == <<facts, tokens, validity, bound, gver, d3, keys, call>>
graph == <<validity, bound, gver, d3, keys>>

LatestFact(a) == Len(facts[a])

Token(a, v) == [art |-> a, ver |-> v]

Idle == [pc |-> "idle", kind |-> "one", entries |-> {},
         seen |-> [ver |-> 0, validity |-> [t \in Tasks |-> "open"]],
         result |-> {}]

(* A graph whose tasks verified against registered first versions.         *)
Init ==
  /\ facts = [a \in Artifacts |-> <<CHOOSE c \in Contents : TRUE>>]
  /\ tokens = {Token(a, 1) : a \in Artifacts}
  /\ validity = [t \in Tasks |-> "verified"]
  /\ bound = [t \in Tasks |-> 1]
  /\ gver = 0 /\ d3 = <<>> /\ keys = {}
  /\ call = [c \in Callers |-> Idle]

(***************************************************************************)
(* The authority.                                                          *)
(***************************************************************************)
(* add_version: an existing version is immutable, an older one refused; a  *)
(* repeat of the newest content changes nothing.                           *)
AddVersion(a, v, body) ==
  /\ v = LatestFact(a) + 1 /\ v <= MaxFacts[a]
  /\ facts' = [facts EXCEPT ![a] = Append(@, body)]

(* observe_artifact with content, register_external_fact and               *)
(* apply_workspace_mutation; the first two differ by the token.            *)
Observe(a, body) ==
  /\ AddVersion(a, LatestFact(a) + 1, body)
  /\ tokens' = tokens \cup {Token(a, LatestFact(a) + 1)}
  /\ UNCHANGED <<graph, call>>

RegisterFact(a, body) ==
  /\ AddVersion(a, LatestFact(a) + 1, body)
  /\ UNCHANGED <<tokens, graph, call>>

(* observe_artifact without content: the version must be registered. *)
IssueObservation(a, v) ==
  /\ v \in 1..LatestFact(a) /\ Token(a, v) \notin tokens
  /\ tokens' = tokens \cup {Token(a, v)}
  /\ UNCHANGED <<facts, graph, call>>

ContentOf(tok) == facts[tok.art][tok.ver]

(***************************************************************************)
(* A transition moves one artifact from a previous to a newer token.       *)
(***************************************************************************)
Consumers(a) == {t \in Tasks : a \in Inputs[t]}

Entry(prev, cur) == [prev |-> prev, cur |-> cur, tasks |-> Consumers(cur.art)]

TransitionIsValid(prev, cur) ==
  /\ {prev, cur} \subseteq tokens
  /\ prev.art = cur.art
  /\ cur.ver > prev.ver
  /\ ContentOf(cur) # ContentOf(prev)
  /\ cur.ver = LatestFact(cur.art)
  /\ Consumers(cur.art) # {}

Seeds(entries) == UNION {e.tasks : e \in entries}

SeedsAdmissible(entries, val) ==
  \A t \in Seeds(entries) : val[t] \in {"verified", "stale"}

(* run_invalidation_engine: seeds and everything downstream of them. *)
Cone(seeds) ==
  LET Grow(s) == s \cup {t \in Tasks : Upstream[t] \cap s # {}}
  IN Grow(Grow(seeds))

(* Tasks whose verified output has a newer version. *)
Superseded == {t \in Tasks : \E a \in Output[t] : bound[t] < LatestFact(a)}

Affected(seeds, val) ==
  {t \in Cone(seeds) : val[t] \in {"verified", "stale"}}

(* RepairOutcome: the affected tasks, and the version the causes name. *)
Outcome(seen, seeds) ==
  [base |-> seen.ver, affected |-> Affected(seeds, seen.validity)]

Recorded(c, seeds) ==
  [kind |-> call[c].kind, entries |-> call[c].entries,
   outcome |-> Outcome(call[c].seen, seeds)]

(***************************************************************************)
(* Look-ups of a durable result.                                           *)
(***************************************************************************)
(* The newest record with this observation token; batches of several       *)
(* transitions and repairs without a token carry none.                     *)
WithToken(e) ==
  SelectSeq(d3, LAMBDA r : r.kind # "version" /\ \E x \in r.entries : x.cur = e.cur
                                             /\ Cardinality(r.entries) = 1)

WithBatch(entries) ==
  SelectSeq(d3, LAMBDA r : r.kind = "batch" /\ r.entries = entries)

Existing(c) ==
  IF call[c].kind = "batch" THEN WithBatch(call[c].entries)
  ELSE WithToken(CHOOSE e \in call[c].entries : TRUE)

(* Found, but recorded with another predecessor or another scope. *)
Conflicting(c) ==
  Existing(c) # <<>> /\ Last(Existing(c)).entries # call[c].entries

Goto(c, pc) == call' = [call EXCEPT ![c].pc = pc]

Return(c, outcomes) ==
  call' = [call EXCEPT ![c] = [Idle EXCEPT !.pc = "done", !.kind = call[c].kind,
                                 !.entries = call[c].entries, !.result = outcomes]]

Raise(c) == Return(c, {})

(***************************************************************************)
(* The three methods.                                                      *)
(***************************************************************************)
Free(c) == call[c].pc \in {"idle", "done"}

Begin(c, kind, entries, pc) ==
  /\ Free(c)
  /\ call' = [call EXCEPT ![c] = [Idle EXCEPT !.pc = pc, !.kind = kind,
                                   !.entries = entries]]
  /\ UNCHANGED <<facts, tokens, graph>>

Newest(a) == Token(a, LatestFact(a))

ReconcileOne(c, a, prev) ==
  /\ TransitionIsValid(Token(a, prev), Newest(a))
  /\ Begin(c, "one", {Entry(Token(a, prev), Newest(a))}, "lookup")

ReconcileBatch(c, arts, prev) ==
  /\ \A a \in arts : TransitionIsValid(Token(a, prev[a]), Newest(a))
  /\ Begin(c, "batch",
           {Entry(Token(a, prev[a]), Newest(a)) : a \in arts}, "snapshot")

(* repair with a token and no seeds: some PRODUCES edge must bind the      *)
(* artifact at an older version.                                           *)
RepairObserved(c, a) ==
  /\ Newest(a) \in tokens
  /\ \E t \in Tasks : a \in Output[t] /\ bound[t] < LatestFact(a)
  /\ Begin(c, "repair",
           {[prev |-> Newest(a), cur |-> Newest(a), tasks |-> {}]}, "snapshot")

(* repair by version number alone, which may register the version itself.  *)
RepairVersion(c, a, v) ==
  /\ v \in {LatestFact(a), LatestFact(a) + 1} \cap 1..MaxFacts[a]
  /\ \E t \in Tasks : a \in Output[t] /\ bound[t] < v
  /\ Begin(c, "version",
           {[prev |-> Token(a, v), cur |-> Token(a, v), tasks |-> {}]}, "snapshot")

(* The fast path of reconcile_observation. *)
Lookup(c) ==
  /\ call[c].pc = "lookup" /\ call[c].kind = "one"
  /\ IF Existing(c) = <<>> THEN Goto(c, "snapshot")
     ELSE IF Conflicting(c) THEN Raise(c)
     ELSE Return(c, {Last(Existing(c)).outcome})
  /\ UNCHANGED <<facts, tokens, graph>>

(* The semantic snapshot, and the guards on the seeds and the version.     *)
Snapshot(c) ==
  /\ call[c].pc = "snapshot"
  /\ IF /\ SeedsAdmissible(call[c].entries, validity)
        /\ \A e \in call[c].entries :
             call[c].kind = "batch" \/ e.cur.ver >= LatestFact(e.cur.art)
     THEN call' = [call EXCEPT
            ![c].pc = IF @ = "snapshot" /\ call[c].kind = "version"
                      THEN "register" ELSE "recheck",
            ![c].seen = [ver |-> gver, validity |-> validity]]
     ELSE IF call[c].kind = "batch" THEN Raise(c) ELSE Goto(c, "failed")
  /\ UNCHANGED <<facts, tokens, graph>>

(* The requested fact is registered once its cause is known, before the    *)
(* graph is touched; whatever fails afterwards leaves it registered.       *)
Register(c) ==
  /\ call[c].pc = "register"
  /\ LET tok == (CHOOSE e \in call[c].entries : TRUE).cur
     IN \/ /\ AddVersion(tok.art, tok.ver, "body") /\ Goto(c, "recheck")
        \/ /\ tok.ver = LatestFact(tok.art)
           /\ Goto(c, "recheck") /\ UNCHANGED facts
        \/ /\ tok.ver < LatestFact(tok.art)
           /\ Raise(c) /\ UNCHANGED facts
  /\ UNCHANGED <<tokens, graph>>

(* The optimistic check before anything is published; the batch then looks *)
(* for its own record.                                                     *)
Recheck(c) ==
  /\ call[c].pc = "recheck"
  /\ CASE call[c].seen.ver # gver ->
            IF call[c].kind = "batch" THEN Raise(c) ELSE Goto(c, "failed")
       [] call[c].seen.ver = gver /\ call[c].kind = "batch" /\ Existing(c) # <<>> ->
            Return(c, {Last(Existing(c)).outcome})
       [] OTHER -> Goto(c, "commit")
  /\ UNCHANGED <<facts, tokens, graph>>

SeedsOf(c) ==
  IF call[c].kind \in {"repair", "version"}
  THEN {t \in Tasks : \E e \in call[c].entries :
          e.cur.art \in Output[t] /\ bound[t] < e.cur.ver}
  ELSE Seeds(call[c].entries)

(* The read guards name the observed versions, which must be the newest.   *)
GuardsHold(c) ==
  \/ call[c].kind = "version"
  \/ \A e \in call[c].entries : e.cur.ver = LatestFact(e.cur.art)

KnownKey_Never(c) == FALSE

(* Two callers of the same transition share an idempotency key. *)
KnownKey(c) == <<call[c].kind, call[c].entries>> \in keys

(* What a refresh derives: the cone of the seeds and of every superseded   *)
(* output is stale.                                                        *)
Refresh(seeds) ==
  validity' = [t \in Tasks |->
     IF t \in Affected(seeds \cup Superseded, validity)
     THEN "stale" ELSE validity[t]]

AppendRecord(c) ==
  /\ gver' = gver + 1
  /\ Refresh(SeedsOf(c))
  /\ d3' = Append(d3, Recorded(c, SeedsOf(c)))
  /\ keys' = keys \cup (IF call[c].kind \in {"repair", "version"} THEN {}
                        ELSE {<<call[c].kind, call[c].entries>>})
  /\ UNCHANGED bound

Local(c) == {Outcome(call[c].seen, SeedsOf(c))}

(* refresh_derived_state: a known key is a replay, then the version is     *)
(* compared.  reconcile_observation reads the durable record afterwards.   *)
Commit(c) ==
  /\ call[c].pc = "commit"
  /\ CASE GuardsHold(c) /\ KnownKey(c) ->
            /\ UNCHANGED graph
            /\ IF call[c].kind = "one" THEN Goto(c, "answer")
               ELSE Return(c, Local(c))
       [] GuardsHold(c) /\ ~KnownKey(c) /\ gver = call[c].seen.ver ->
            /\ gver < MaxVersion
            /\ AppendRecord(c)
            /\ IF call[c].kind = "one" THEN Goto(c, "answer")
               ELSE Return(c, Local(c))
       [] OTHER -> UNCHANGED graph /\ Goto(c, "failed")
  /\ UNCHANGED <<facts, tokens>>

Answer(c) ==
  /\ call[c].pc = "answer"
  /\ IF Existing(c) = <<>> THEN Return(c, Local(c))
     ELSE IF Conflicting(c) THEN Raise(c)
     ELSE Return(c, {Last(Existing(c)).outcome})
  /\ UNCHANGED <<facts, tokens, graph>>

(* The except clauses: the loser of a race looks for the winner's record.  *)
Failed(c) ==
  /\ call[c].pc = "failed"
  /\ IF call[c].kind \in {"repair", "version"} \/ Existing(c) = <<>> \/ Conflicting(c)
     THEN Raise(c)
     ELSE Return(c, {Last(Existing(c)).outcome})
  /\ UNCHANGED <<facts, tokens, graph>>

(***************************************************************************)
(* Other writers of the graph: an attempt reads the newest inputs and      *)
(* verifies its task; the commit recomputes the derived state.             *)
(***************************************************************************)
Reverify(t) ==
  /\ gver < MaxVersion
  /\ validity[t] = "stale" /\ \A u \in Upstream[t] : validity[u] = "verified"
  /\ validity' = [validity EXCEPT ![t] = "verified"]
  /\ bound' = [bound EXCEPT ![t] =
       IF Output[t] = {} THEN @ ELSE LatestFact(CHOOSE a \in Output[t] : TRUE)]
  /\ gver' = gver + 1
  /\ UNCHANGED <<facts, tokens, d3, keys, call>>

Next ==
  \/ \E a \in Artifacts, body \in Contents : Observe(a, body) \/ RegisterFact(a, body)
  \/ \E a \in Artifacts : \E v \in 1..MaxFacts[a] : IssueObservation(a, v)
  \/ \E c \in Callers :
       \/ \E a \in Artifacts : \E p \in 1..MaxFacts[a] : ReconcileOne(c, a, p)
       \/ \E arts \in Batches : \E p \in [arts -> 1..2] : ReconcileBatch(c, arts, p)
       \/ \E a \in Artifacts : RepairObserved(c, a)
       \/ \E a \in Artifacts : \E v \in 1..MaxFacts[a] : RepairVersion(c, a, v)
       \/ Register(c)
       \/ Lookup(c) \/ Snapshot(c) \/ Recheck(c) \/ Commit(c) \/ Answer(c) \/ Failed(c)
  \/ \E t \in Tasks : Reverify(t)

Spec == Init /\ [][Next]_vars

(* Callers that race to reconcile one observation converge: the graph      *)
(* holds one D3 record for it, and what reconcile_observation returns is   *)
(* the outcome of a record made for exactly that transition, whichever     *)
(* caller committed and whatever else moved the graph in between.          *)
SameTransition(i, j) ==
  d3[i].kind = d3[j].kind /\ d3[i].entries = d3[j].entries

Returned(c) == call[c].pc = "done" /\ call[c].result # {}

ReconciledOnce ==
  /\ \A i, j \in 1..Len(d3) :
       (i # j /\ d3[i].kind \in {"one", "batch"}) => ~SameTransition(i, j)
  /\ \A c \in Callers :
       (Returned(c) /\ call[c].kind = "one") =>
         \E i \in 1..Len(d3) : /\ d3[i].entries = call[c].entries
                               /\ {d3[i].outcome} = call[c].result

=============================================================================
