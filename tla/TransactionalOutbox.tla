------------------------- MODULE TransactionalOutbox -------------------------
(***************************************************************************)
(* services/outbox.py: intents committed with an internal mutation, claims *)
(* with a time to live and a token, publishing, acknowledgement, retry and *)
(* the drain loop of dispatch_ready.  Workers may be processes of their    *)
(* own; each transaction is a step, and a worker can die between any two.  *)
(*                                                                         *)
(* Times are relative to the present: a row with avail <= 0 is available,  *)
(* one with expires <= 0 has an expired claim.  Tick lets one unit pass;   *)
(* of ages near MaxAge only their order is kept.  A drain reads the clock  *)
(* when it starts and then adds up how long its dispatches took, so its    *)
(* clock lags behind by the time spent between them (worker.lag).          *)
(***************************************************************************)
EXTENDS Integers, FiniteSets

CONSTANTS
    Keys,         \* idempotency keys
    Payloads,     \* payload, destination, headers and aggregate of an intent
    NoPayload,
    Delays,       \* how far ahead intents are made available
    Workers,
    Tokens,       \* claim tokens (uuid4)
    None,         \* no token, no key
    ClaimTtl, RetryDelay,
    MaxAttempts,  \* 0 for None: no limit
    Limit,        \* dispatches per drain
    Poison,       \* keys whose publishing always raises
    MaxAge,       \* bound on the age of a time stamp
    MaxLag,       \* bound on the time a drain spends between dispatches
    MaxElapsed,   \* bound on the time a publisher takes
    MaxDeaths     \* bound on workers that die

ASSUME OutboxConstants ==
    /\ NoPayload \notin Payloads
    /\ None \notin Tokens \cup Keys
    /\ Delays \subseteq Nat
    /\ ClaimTtl \in Nat \ {0}
    /\ RetryDelay \in Nat
    /\ MaxAttempts \in Nat
    /\ Limit \in Nat \ {0}
    /\ Poison \subseteq Keys
    /\ MaxLag \in Nat
    /\ MaxElapsed \in Nat
    /\ MaxAge \in Nat
    /\ IsFiniteSet(Keys) /\ MaxAge >= MaxLag + MaxElapsed + Cardinality(Keys)
    /\ MaxDeaths \in Nat

VARIABLES
    status, payload, attempts, avail, token, expires,  \* the rows, by key
    applied,  \* how often the internal mutation of each intent was applied
    worker,   \* the call each worker is in
    effects,  \* payloads the destination has seen under each key
    deaths

rows == <<status, payload, attempts, avail, token, expires>>
vars == <<rows, applied, worker, effects, deaths>>

Status == {"absent", "pending", "in_flight", "delivered", "failed"}

\* cur, held, tries, msg: key, token, attempts and payload of the record the
\* worker has claimed; done: its publish has had its effect.  start and tried:
\* the keys ready when the drain began, and those it has claimed.
IdleWorker ==
    [pc |-> "idle", drain |-> FALSE, cur |-> None, held |-> None, tries |-> 0,
     msg |-> NoPayload, done |-> FALSE, elapsed |-> 0, lag |-> 0, left |-> 0,
     deferred |-> {}, start |-> {}, tried |-> {}]

WorkerState ==
    [pc : {"idle", "claim", "publish", "defer", "restore"}, drain : BOOLEAN,
     cur : Keys \cup {None}, held : Tokens \cup {None}, tries : Nat,
     msg : Payloads \cup {NoPayload}, done : BOOLEAN, elapsed : Nat, lag : Nat,
     left : Nat, deferred : SUBSET Keys, start : SUBSET Keys, tried : SUBSET Keys]

Init ==
    /\ status = [k \in Keys |-> "absent"]
    /\ payload = [k \in Keys |-> NoPayload]
    /\ attempts = [k \in Keys |-> 0]
    /\ avail = [k \in Keys |-> 0]
    /\ token = [k \in Keys |-> None]
    /\ expires = [k \in Keys |-> 0]
    /\ applied = [k \in Keys |-> 0]
    /\ worker = [w \in Workers |-> IdleWorker]
    /\ effects = [k \in Keys |-> {}]
    /\ deaths = 0

-----------------------------------------------------------------------------
(* Intents                                                                 *)

\* enqueue_tx on a key that has no row.
Insert(k, p, d) ==
    /\ status[k] = "absent"
    /\ status' = [status EXCEPT ![k] = "pending"]
    /\ payload' = [payload EXCEPT ![k] = p]
    /\ avail' = [avail EXCEPT ![k] = d]
    /\ UNCHANGED <<attempts, token, expires>>

Enqueue(k, p, d) ==
    /\ Insert(k, p, d)
    /\ UNCHANGED <<applied, worker, effects, deaths>>

\* Mutant: the mutation is applied before the key is looked up.
CommitIntent_Again(k, p, d) ==
    /\ applied' = [applied EXCEPT ![k] = IF @ < 2 THEN @ + 1 ELSE @]
    /\ Insert(k, p, d) \/ (status[k] # "absent" /\ UNCHANGED rows)
    /\ UNCHANGED <<worker, effects, deaths>>

\* Mutant: a row that was not delivered takes the newer payload of its key.
CommitIntent_Overwrites(k, p, d) ==
    /\ \/ /\ Insert(k, p, d)
          /\ applied' = [applied EXCEPT ![k] = @ + 1]
       \/ /\ status[k] = "pending"
          /\ payload' = [payload EXCEPT ![k] = p]
          /\ UNCHANGED <<status, attempts, avail, token, expires, applied>>
    /\ UNCHANGED <<worker, effects, deaths>>

\* The mutation and the row share a transaction.  For a key that has a row
\* nothing changes: the call returns the row, or raises
\* OutboxIdempotencyConflict if the intent differs.
CommitIntent(k, p, d) ==
    /\ Insert(k, p, d)
    /\ applied' = [applied EXCEPT ![k] = @ + 1]
    /\ UNCHANGED <<worker, effects, deaths>>

RetryFailed(k) ==
    /\ status[k] = "failed"
    /\ status' = [status EXCEPT ![k] = "pending"]
    /\ avail' = [avail EXCEPT ![k] = 0]
    /\ UNCHANGED <<payload, attempts, token, expires, applied, worker, effects, deaths>>

-----------------------------------------------------------------------------
(* claim_next                                                              *)

\* Mutant: expired claims are left alone.
Ready_PendingOnly(k, lag) == status[k] = "pending" /\ avail[k] <= -lag

\* What a clock that lags behind by lag shows as ready.
Ready(k, lag) ==
    \/ status[k] = "pending" /\ avail[k] <= -lag
    \/ status[k] = "in_flight" /\ expires[k] <= -lag

\* Rows of one age are claimed in any order, for created_at and outbox_id.
First(k, lag) ==
    /\ Ready(k, lag)
    /\ \A j \in Keys : Ready(j, lag) => avail[k] <= avail[j]

BeginDispatch(w, drain) ==
    /\ worker[w].pc = "idle"
    /\ worker' = [worker EXCEPT ![w] =
          [IdleWorker EXCEPT !.pc = "claim", !.drain = drain,
                             !.left = IF drain THEN Limit ELSE 1,
                             !.start = {k \in Keys : Ready(k, 0)}]]
    /\ UNCHANGED <<rows, applied, effects, deaths>>

\* attempts: nothing tells numbers of MaxAttempts and more apart.
Claim(w, k, t) ==
    LET tries == IF attempts[k] < MaxAttempts THEN attempts[k] + 1 ELSE attempts[k] IN
    /\ worker[w].pc = "claim" /\ worker[w].left > 0
    /\ First(k, worker[w].lag)
    /\ \A j \in Keys : token[j] # t
    /\ \A v \in Workers : worker[v].held # t
    /\ status' = [status EXCEPT ![k] = "in_flight"]
    /\ attempts' = [attempts EXCEPT ![k] = tries]
    /\ token' = [token EXCEPT ![k] = t]
    /\ expires' = [expires EXCEPT ![k] = ClaimTtl - worker[w].lag]
    /\ worker' = [worker EXCEPT ![w] =
          [@ EXCEPT !.pc = "publish", !.cur = k, !.held = t, !.tries = tries,
                    !.msg = payload[k], !.elapsed = 0, !.left = worker[w].left - 1,
                    !.tried = worker[w].tried \cup {k}]]
    /\ UNCHANGED <<payload, avail, applied, effects, deaths>>

\* Nothing to claim, or the limit is reached.
EndDrain(w) ==
    /\ worker[w].pc = "claim"
    /\ worker[w].left = 0 \/ \A k \in Keys : ~Ready(k, worker[w].lag)
    /\ worker' = [worker EXCEPT ![w].pc = "restore"]
    /\ UNCHANGED <<rows, applied, effects, deaths>>

-----------------------------------------------------------------------------
(* dispatch_once after the claim                                           *)

\* The destination sees the message; the call has not returned yet.
Publish(w) ==
    /\ worker[w].pc = "publish"
    /\ ~worker[w].done
    /\ worker[w].cur \notin Poison
    /\ effects' = [effects EXCEPT ![worker[w].cur] = @ \cup {worker[w].msg}]
    /\ worker' = [worker EXCEPT ![w].done = TRUE]
    /\ UNCHANGED <<rows, applied, deaths>>

\* Mutant: the status is checked, the token is not.
Owns_StatusOnly(w) ==
    LET k == worker[w].cur IN status[k] = "in_flight" /\ expires[k] > -worker[w].lag

\* The condition of the updates of ack and nack, at completion time.
Owns(w) ==
    LET k == worker[w].cur IN
    /\ status[k] = "in_flight"
    /\ token[k] = worker[w].held
    /\ expires[k] > -worker[w].lag

\* Mutant: the claim columns are kept.
Settle_KeepsClaim(w, state) ==
    /\ status' = [status EXCEPT ![worker[w].cur] = state]
    /\ UNCHANGED <<payload, attempts, token, expires>>

\* ack and nack clear the claim columns.
Settle(w, state) ==
    LET k == worker[w].cur IN
    /\ status' = [status EXCEPT ![k] = state]
    /\ token' = [token EXCEPT ![k] = None]
    /\ expires' = [expires EXCEPT ![k] = 0]
    /\ UNCHANGED <<payload, attempts>>

\* The record is forgotten; a drain then looks whether to defer it.
Return(w, delivered) == [worker EXCEPT ![w] =
    IF worker[w].drain
    THEN [@ EXCEPT !.pc = "defer", !.held = None, !.tries = 0, !.msg = NoPayload,
                   !.done = delivered, !.elapsed = 0]
    ELSE IdleWorker]

Ack(w) ==
    /\ worker[w].pc = "publish"
    /\ worker[w].done
    /\ Owns(w)
    /\ Settle(w, "delivered")
    /\ worker' = Return(w, TRUE)
    /\ UNCHANGED <<avail, applied, effects, deaths>>

Exhausted(n) == MaxAttempts > 0 /\ n >= MaxAttempts

\* Mutant: one attempt too few.
Nack_OffByOne(w) ==
    LET k == worker[w].cur IN
    /\ worker[w].pc = "publish"
    /\ Owns(w)
    /\ Settle(w, IF MaxAttempts > 0 /\ worker[w].tries + 1 >= MaxAttempts
                 THEN "failed" ELSE "pending")
    /\ avail' = [avail EXCEPT ![k] =
          IF RetryDelay = 0 THEN -(worker[w].lag + worker[w].elapsed)
          ELSE RetryDelay - worker[w].lag]
    /\ worker' = Return(w, FALSE)
    /\ UNCHANGED <<applied, effects, deaths>>

\* The publisher raised, before its effect or after it.  A retry without
\* delay is due from the time the dispatch began.
Nack(w) ==
    LET k == worker[w].cur IN
    /\ worker[w].pc = "publish"
    /\ Owns(w)
    /\ Settle(w, IF Exhausted(worker[w].tries) THEN "failed" ELSE "pending")
    /\ avail' = [avail EXCEPT ![k] =
          IF RetryDelay = 0 THEN -(worker[w].lag + worker[w].elapsed)
          ELSE RetryDelay - worker[w].lag]
    /\ worker' = Return(w, FALSE)
    /\ UNCHANGED <<applied, effects, deaths>>

\* The publish ended, but the claim has expired or belongs to somebody else.
ClaimLost(w) ==
    /\ worker[w].pc = "publish"
    /\ ~Owns(w)
    /\ worker' = Return(w, FALSE)
    /\ UNCHANGED <<rows, applied, effects, deaths>>

-----------------------------------------------------------------------------
(* dispatch_ready                                                          *)

\* done: the result said delivered.
Deferrable(w) ==
    LET k == worker[w].cur IN
    ~worker[w].done /\ status[k] = "pending" /\ avail[k] <= -worker[w].lag

GoOn(w, deferred) == [worker EXCEPT ![w] =
    [@ EXCEPT !.pc = "claim", !.cur = None, !.done = FALSE,
              !.deferred = worker[w].deferred \cup deferred]]

\* Mutant: what failed is left where it is.
Defer_Not(w) ==
    /\ worker[w].pc = "defer"
    /\ Deferrable(w)
    /\ worker' = GoOn(w, {})
    /\ UNCHANGED <<rows, applied, effects, deaths>>

\* A failed record that is ready again moves past the scan time.
Defer(w) ==
    /\ worker[w].pc = "defer"
    /\ Deferrable(w)
    /\ avail' = [avail EXCEPT ![worker[w].cur] = 1 - worker[w].lag]
    /\ worker' = GoOn(w, {worker[w].cur})
    /\ UNCHANGED <<status, payload, attempts, token, expires, applied, effects, deaths>>

DeferNothing(w) ==
    /\ worker[w].pc = "defer"
    /\ ~Deferrable(w)
    /\ worker' = GoOn(w, {})
    /\ UNCHANGED <<rows, applied, effects, deaths>>

Restore(w) ==
    /\ worker[w].pc = "restore"
    /\ avail' = [k \in Keys |->
          IF k \in worker[w].deferred /\ status[k] = "pending" /\ avail[k] > -worker[w].lag
          THEN -worker[w].lag ELSE avail[k]]
    /\ worker' = [worker EXCEPT ![w] = IdleWorker]
    /\ UNCHANGED <<status, payload, attempts, token, expires, applied, effects, deaths>>

-----------------------------------------------------------------------------
(* Time and crashes                                                        *)

Between == {"claim", "defer", "restore"}

\* Older time stamps do not go below the bound and keep their order.
Older(t, k) ==
    LET least == Cardinality({j \in Keys : t[j] < t[k]}) - MaxAge
    IN  IF t[k] - 1 < least THEN least ELSE t[k] - 1

Tick ==
    /\ \A w \in Workers : /\ worker[w].pc \in Between => worker[w].lag < MaxLag
                          /\ worker[w].pc = "publish" => worker[w].elapsed < MaxElapsed
    /\ avail' = [k \in Keys |-> Older(avail, k)]
    /\ expires' = [k \in Keys |-> IF status[k] = "in_flight" THEN Older(expires, k)
                                  ELSE expires[k]]
    /\ worker' = [w \in Workers |->
          IF worker[w].pc \in Between THEN [worker[w] EXCEPT !.lag = @ + 1]
          ELSE IF worker[w].pc = "publish" THEN [worker[w] EXCEPT !.elapsed = @ + 1]
          ELSE worker[w]]
    /\ UNCHANGED <<status, payload, attempts, token, applied, effects, deaths>>

Die(w) ==
    /\ deaths < MaxDeaths
    /\ worker[w].pc # "idle"
    /\ deaths' = deaths + 1
    /\ worker' = [worker EXCEPT ![w] = IdleWorker]
    /\ UNCHANGED <<rows, applied, effects>>

Dispatch(w) ==
    \/ \E k \in Keys, t \in Tokens : Claim(w, k, t)
    \/ EndDrain(w) \/ Ack(w) \/ Nack(w) \/ ClaimLost(w)
    \/ Defer(w) \/ DeferNothing(w) \/ Restore(w)

Next ==
    \/ \E k \in Keys, p \in Payloads, d \in Delays : CommitIntent(k, p, d) \/ Enqueue(k, p, d)
    \/ \E k \in Keys : RetryFailed(k)
    \/ \E w \in Workers : \/ \E drain \in BOOLEAN : BeginDispatch(w, drain)
                          \/ Dispatch(w) \/ Publish(w) \/ Die(w)
    \/ Tick

Spec == Init /\ [][Next]_vars

\* Time passes; drains are started again and again and run on; a publisher
\* that is asked again and again gets its message out and answers in time,
\* and one that always raises does so in time.
\* Nobody retries a failed row by hand.
Fairness ==
    /\ WF_vars(Tick)
    /\ \A w \in Workers :
          /\ WF_vars(BeginDispatch(w, TRUE))
          /\ WF_vars(Dispatch(w))
    /\ \A k \in Keys \ Poison :
          /\ SF_vars(\E w \in Workers : worker[w].cur = k /\ Owns(w) /\ Publish(w))
          /\ SF_vars(\E w \in Workers : worker[w].cur = k /\ Ack(w))
    /\ \A k \in Poison : SF_vars(\E w \in Workers : worker[w].cur = k /\ Nack(w))

-----------------------------------------------------------------------------
(* Properties                                                              *)

\* Rows and workers hold what the code can put there; a row has a token while
\* it is in flight, a worker while it publishes, and at no other time.
TypeOK ==
    /\ status \in [Keys -> Status]
    /\ payload \in [Keys -> Payloads \cup {NoPayload}]
    /\ attempts \in [Keys -> Nat]
    /\ avail \in [Keys -> Int]
    /\ expires \in [Keys -> Int]
    /\ token \in [Keys -> Tokens \cup {None}]
    /\ applied \in [Keys -> Nat]
    /\ worker \in [Workers -> WorkerState]
    /\ effects \in [Keys -> SUBSET (Payloads \cup {NoPayload})]
    /\ deaths \in 0..MaxDeaths
    /\ \A k \in Keys : (token[k] # None) = (status[k] = "in_flight")
    /\ \A w \in Workers : /\ (worker[w].held # None) = (worker[w].pc = "publish")
                          /\ (worker[w].cur # None) = (worker[w].pc \in {"publish", "defer"})

\* commit_intent applies the internal mutation at most once per key, and never
\* for a key that has no row ("mutate is not called again").
AppliedOnce ==
    \A k \in Keys : applied[k] <= 1 /\ (status[k] = "absent" => applied[k] = 0)

\* A key stands for one intent: whatever was published under it is the payload
\* of its row, however often other payloads were offered for the key and
\* whoever published ("every delivery carries a stable idempotency key").
OneIntentPerKey == \A k \in Keys : effects[k] \subseteq {payload[k]}

\* A row is marked delivered only when the destination has seen its message,
\* although claims expire and move between workers while they publish.
DeliveredWasPublished ==
    \A k \in Keys : status[k] = "delivered" => payload[k] \in effects[k]

\* A worker that answers in time owns its claim alone: no other worker can
\* settle the row, and the attempts it counted are the row's.
ClaimIsExclusive ==
    \A w \in Workers : worker[w].pc = "publish" /\ Owns(w) =>
        /\ worker[w].tries = attempts[worker[w].cur]
        /\ \A v \in Workers \ {w} :
              worker[v].pc = "publish" /\ worker[v].cur = worker[w].cur => ~Owns(v)

\* Only a row that was tried max_attempts times becomes a dead letter, also
\* when its attempts were counted by several workers.
FailedMeansExhausted ==
    \A k \in Keys : status[k] = "failed" => Exhausted(attempts[k])

\* A delivered row never leaves that state: neither a late nack of a worker
\* that lost its claim nor a new claim touches it.
DeliveredIsFinal ==
    [][\A k \in Keys : status[k] = "delivered" => status'[k] = "delivered"]_vars

\* What makes the properties above inductive.  A publishing worker carries the
\* payload of its row and, while it holds the row's token, its attempts; no two
\* workers hold one token; a key without a row has had no effect.
OutboxInv ==
    /\ TypeOK /\ AppliedOnce /\ OneIntentPerKey /\ DeliveredWasPublished
    /\ FailedMeansExhausted
    /\ \A w \in Workers : worker[w].pc = "publish" =>
          LET k == worker[w].cur IN
          /\ status[k] # "absent"
          /\ worker[w].msg = payload[k]
          /\ worker[w].done => payload[k] \in effects[k]
          /\ token[k] = worker[w].held => worker[w].tries = attempts[k]
    /\ \A w \in Workers : worker[w].pc = "claim" => ~worker[w].done
    /\ \A w, v \in Workers : worker[w].held = worker[v].held /\ w # v => worker[w].held = None
    /\ \A k \in Keys : status[k] = "absent" => effects[k] = {}

\* w claims, in one drain, a record it has claimed before, while one that was
\* ready when the drain began has not had its turn.
ClaimsOutOfTurn(w) ==
    /\ worker[w].pc = "claim" /\ worker'[w].pc = "publish"
    /\ worker[w].drain
    /\ worker'[w].cur \in worker[w].tried
    /\ \E j \in worker[w].start \ worker[w].tried : Ready(j, worker[w].lag)

\* "A zero retry delay must not let one poison record monopolize an entire
\* drain call" (dispatch_ready): a record that failed is tried again only after
\* every record that was ready when the drain began.
FailureTakesItsTurn ==
    \A w \in Workers :
        ClaimsOutOfTurn(w) => status[worker'[w].cur] # "pending"

\* A committed intent is delivered in the end, whatever other keys do, if the
\* number of attempts is not limited.
GoodIntentsAreDelivered ==
    \A k \in Keys \ Poison : status[k] # "absent" ~> status[k] = "delivered"

\* The outbox is an at-least-once delivery service.
OutcomeOf(state) ==
    CASE state = "absent" -> "none"
      [] state \in {"pending", "in_flight"} -> "open"
      [] state = "delivered" -> "delivered"
      [] state = "failed" -> "dead"

Delivery == INSTANCE AtLeastOnceDelivery WITH
    intent <- payload, outcome <- [k \in Keys |-> OutcomeOf(status[k])]

\* Every behaviour of the outbox is one AtLeastOnceDelivery allows.
ImplementsDelivery == Delivery!Spec
=============================================================================
