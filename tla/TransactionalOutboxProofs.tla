---------------------- MODULE TransactionalOutboxProofs ----------------------
(***************************************************************************)
(* Proofs about TransactionalOutbox, for any keys, payloads, workers,      *)
(* tokens and bounds: the safety properties of the outbox, and that it     *)
(* implements AtLeastOnceDelivery.                                         *)
(***************************************************************************)
EXTENDS TransactionalOutbox, FiniteSetTheorems, TLAPS

-----------------------------------------------------------------------------
(* What the steps do to a worker.                                          *)

\* Workers other than w are where they were.
Others(w) == \A v \in Workers \ {w} : worker'[v] = worker[v]

LEMMA IdleType == IdleWorker \in WorkerState
    BY OutboxConstants, Zenon DEF IdleWorker, WorkerState

\* An update of one worker leaves the others alone.
LEMMA OneWorker ==
    ASSUME worker \in [Workers -> WorkerState], NEW w \in Workers,
           NEW r \in WorkerState, worker' = [worker EXCEPT ![w] = r]
    PROVE  /\ worker' \in [Workers -> WorkerState]
           /\ worker'[w] = r
           /\ Others(w)
    BY Zenon DEF Others

LEMMA BeginDispatchWorker ==
    ASSUME TypeOK, NEW w \in Workers, NEW drain \in BOOLEAN, BeginDispatch(w, drain)
    PROVE  /\ worker' \in [Workers -> WorkerState] /\ Others(w)
           /\ worker'[w].pc = "claim" /\ worker'[w].cur = None /\ worker'[w].held = None
           /\ ~worker'[w].done
<1> DEFINE r == [IdleWorker EXCEPT !.pc = "claim", !.drain = drain,
                             !.left = IF drain THEN Limit ELSE 1,
                             !.start = {k \in Keys : Ready(k, 0)}]
<1>1. /\ r \in WorkerState
      /\ r.pc = "claim" /\ r.cur = None /\ r.held = None /\ ~r.done
  BY OutboxConstants, Zenon DEF IdleWorker, WorkerState
<1>2. worker' = [worker EXCEPT ![w] = r]
  BY Zenon DEF BeginDispatch
<1>3. QED
  BY <1>1, <1>2, OneWorker, Zenon DEF TypeOK

\* A claim counts an attempt on its row, and the worker knows row and count.
LEMMA ClaimWorker ==
    ASSUME TypeOK, NEW w \in Workers, NEW k \in Keys, NEW t \in Tokens, Claim(w, k, t)
    PROVE  /\ worker' \in [Workers -> WorkerState] /\ Others(w)
           /\ worker'[w].pc = "publish" /\ worker'[w].cur = k /\ worker'[w].held = t
           /\ worker'[w].msg = payload[k] /\ worker'[w].tries = attempts'[k]
           /\ worker'[w].done = worker[w].done
           /\ worker[w].pc = "claim"
           /\ attempts' \in [Keys -> Nat]
           /\ \A j \in Keys : j # k => attempts'[j] = attempts[j]
<1> DEFINE tries == IF attempts[k] < MaxAttempts THEN attempts[k] + 1 ELSE attempts[k]
           old == worker[w]
           msg == payload[k]
           left == worker[w].left - 1
           tried == worker[w].tried \cup {k}
           r == [old EXCEPT !.pc = "publish", !.cur = k, !.held = t, !.tries = tries,
                    !.msg = msg, !.elapsed = 0, !.left = left, !.tried = tried]
<1>1. tries \in Nat
  BY OutboxConstants, SMTT(30) DEF TypeOK
<1>2. old \in WorkerState /\ worker[w].left > 0 /\ worker[w].pc = "claim"
  BY Zenon DEF TypeOK, Claim
<1>3. left \in Nat /\ tried \in SUBSET Keys
  BY <1>2, SMTT(30) DEF WorkerState
<1>4. msg \in Payloads \cup {NoPayload}
  BY Zenon DEF TypeOK
<1>5. attempts' = [attempts EXCEPT ![k] = tries] /\ worker' = [worker EXCEPT ![w] = r]
  BY Zenon DEF Claim
<1> HIDE DEF tries, left, tried, old, msg
<1>6. /\ r \in WorkerState
      /\ r.pc = "publish" /\ r.cur = k /\ r.held = t
      /\ r.msg = msg /\ r.tries = tries /\ r.done = old.done
  BY <1>1, <1>2, <1>3, <1>4, Zenon DEF WorkerState
<1> HIDE DEF r
<1>7. worker' \in [Workers -> WorkerState] /\ worker'[w] = r /\ Others(w)
  BY <1>5, <1>6, OneWorker, Zenon DEF TypeOK
<1>8. /\ attempts' \in [Keys -> Nat] /\ attempts'[k] = tries
      /\ \A j \in Keys : j # k => attempts'[j] = attempts[j]
  BY <1>1, <1>5, Zenon DEF TypeOK
<1>9. QED
  BY <1>2, <1>6, <1>7, <1>8, Zenon DEF old, msg

\* Setting one field of a worker.
LEMMA EndDrainWorker ==
    ASSUME TypeOK, NEW w \in Workers, EndDrain(w)
    PROVE  /\ worker' \in [Workers -> WorkerState] /\ Others(w)
           /\ worker'[w].pc = "restore" /\ worker'[w].cur = None /\ worker'[w].held = None
<1> DEFINE r == [worker[w] EXCEPT !.pc = "restore"]
<1>1. worker[w] \in WorkerState /\ worker[w].cur = None /\ worker[w].held = None
  BY Zenon DEF TypeOK, EndDrain
<1>2. r \in WorkerState /\ r.pc = "restore" /\ r.cur = None /\ r.held = None
  BY <1>1, Zenon DEF WorkerState
<1>3. worker' = [worker EXCEPT ![w] = r]
  BY Zenon DEF EndDrain
<1> HIDE DEF r
<1>4. QED
  BY <1>2, <1>3, OneWorker, Zenon DEF TypeOK

LEMMA PublishWorker ==
    ASSUME TypeOK, NEW w \in Workers, Publish(w)
    PROVE  /\ worker' \in [Workers -> WorkerState] /\ Others(w)
           /\ worker'[w].pc = "publish" /\ worker'[w].done
           /\ worker'[w].cur = worker[w].cur /\ worker'[w].held = worker[w].held
           /\ worker'[w].msg = worker[w].msg /\ worker'[w].tries = worker[w].tries
           /\ worker[w].pc = "publish" /\ worker[w].cur \in Keys
<1> DEFINE r == [worker[w] EXCEPT !.done = TRUE]
<1>1. worker[w] \in WorkerState /\ worker[w].pc = "publish" /\ worker[w].cur # None
  BY Zenon DEF TypeOK, Publish
<1>2. /\ r \in WorkerState /\ r.pc = "publish" /\ r.done /\ r.cur = worker[w].cur
      /\ r.held = worker[w].held /\ r.msg = worker[w].msg /\ r.tries = worker[w].tries
      /\ worker[w].cur \in Keys
  BY <1>1, Zenon DEF WorkerState
<1>3. worker' = [worker EXCEPT ![w] = r]
  BY Zenon DEF Publish
<1> HIDE DEF r
<1>4. QED
  BY <1>1, <1>2, <1>3, OneWorker, Zenon DEF TypeOK

\* dispatch_once has returned: the worker holds no claim any more.
Returned(w) ==
    /\ worker' \in [Workers -> WorkerState] /\ Others(w)
    /\ worker'[w].pc \in {"idle", "defer"} /\ worker'[w].held = None
    /\ (worker'[w].cur # None) = (worker'[w].pc = "defer")

LEMMA ReturnWorker ==
    ASSUME TypeOK, NEW w \in Workers, worker[w].pc = "publish",
           NEW delivered \in BOOLEAN, worker' = Return(w, delivered)
    PROVE  Returned(w)
<1> DEFINE old == worker[w]
           r == [old EXCEPT !.pc = "defer", !.held = None, !.tries = 0,
                            !.msg = NoPayload, !.done = delivered, !.elapsed = 0]
<1>1. old \in WorkerState /\ old.cur # None
  BY Zenon DEF TypeOK
<1>2. r \in WorkerState /\ r.pc = "defer" /\ r.held = None /\ r.cur # None
  <2> HIDE DEF old
  <2>1. QED BY <1>1, Zenon DEF WorkerState
<1>3. /\ IdleWorker \in WorkerState /\ IdleWorker.pc = "idle"
      /\ IdleWorker.held = None /\ IdleWorker.cur = None
  BY IdleType, Zenon DEF IdleWorker
<1>4. worker' = [worker EXCEPT ![w] = IF old.drain THEN r ELSE IdleWorker]
  BY Zenon DEF Return
<1> HIDE DEF r
<1>5. CASE old.drain
  <2>1. worker' = [worker EXCEPT ![w] = r]
    BY <1>4, <1>5, Zenon
  <2>2. QED
    BY <1>2, <2>1, OneWorker, ZenonT(30) DEF TypeOK, Returned
<1>6. CASE ~old.drain
  <2>1. worker' = [worker EXCEPT ![w] = IdleWorker]
    BY <1>4, <1>6, Zenon
  <2>2. QED
    BY <1>3, <2>1, OneWorker, Zenon DEF TypeOK, Returned
<1>7. QED
  BY <1>5, <1>6, Zenon

LEMMA GoOnWorker ==
    ASSUME TypeOK, NEW w \in Workers, worker[w].pc = "defer",
           NEW ks \in SUBSET Keys, worker' = GoOn(w, ks)
    PROVE  /\ worker' \in [Workers -> WorkerState] /\ Others(w)
           /\ worker'[w].pc = "claim" /\ worker'[w].cur = None
           /\ worker'[w].held = None /\ ~worker'[w].done
<1> DEFINE old == worker[w]
           deferred == worker[w].deferred \cup ks
           r == [old EXCEPT !.pc = "claim", !.cur = None, !.done = FALSE,
                            !.deferred = deferred]
<1>1. old \in WorkerState /\ old.held = None
  BY Zenon DEF TypeOK
<1>2. deferred \in SUBSET Keys
  BY <1>1, Zenon DEF WorkerState
<1>3. worker' = [worker EXCEPT ![w] = r]
  BY Zenon DEF GoOn
<1> HIDE DEF old, deferred
<1>4. /\ r \in WorkerState /\ r.pc = "claim" /\ r.cur = None
      /\ r.held = None /\ ~r.done
  BY <1>1, <1>2, Zenon DEF WorkerState
<1> HIDE DEF r
<1>5. QED
  BY <1>3, <1>4, OneWorker, Zenon DEF TypeOK

LEMMA IdleAgain ==
    ASSUME TypeOK, NEW w \in Workers, worker' = [worker EXCEPT ![w] = IdleWorker]
    PROVE  /\ worker' \in [Workers -> WorkerState] /\ Others(w)
           /\ worker'[w].pc = "idle" /\ worker'[w].cur = None /\ worker'[w].held = None
<1>1. /\ IdleWorker \in WorkerState /\ IdleWorker.pc = "idle"
      /\ IdleWorker.held = None /\ IdleWorker.cur = None
  BY IdleType, Zenon DEF IdleWorker
<1>2. QED
  BY <1>1, OneWorker, Zenon DEF TypeOK

\* Ageing keeps times integers.
LEMMA OlderType ==
    ASSUME NEW t \in [Keys -> Int], NEW k \in Keys
    PROVE  Older(t, k) \in Int
<1> DEFINE earlier == {j \in Keys : t[j] < t[k]}
<1>1. earlier \in SUBSET Keys
  BY Zenon
<1>2. Cardinality(earlier) \in Nat
  BY <1>1, OutboxConstants, FS_Subset, FS_CardinalityType, Zenon
<1> HIDE DEF earlier
<1>3. Cardinality(earlier) - MaxAge \in Int
  BY <1>2, OutboxConstants, SMTT(30)
<1>4. QED
  BY <1>3, SMTT(30) DEF Older, earlier

\* Time changes nothing of a worker but its clocks.
LEMMA TickWorker ==
    ASSUME TypeOK, Tick
    PROVE  /\ worker' \in [Workers -> WorkerState]
           /\ \A w \in Workers :
                /\ worker'[w].pc = worker[w].pc /\ worker'[w].cur = worker[w].cur
                /\ worker'[w].held = worker[w].held /\ worker'[w].tries = worker[w].tries
                /\ worker'[w].msg = worker[w].msg /\ worker'[w].done = worker[w].done
<1> DEFINE next(x) == IF x.pc \in Between THEN [x EXCEPT !.lag = @ + 1]
                      ELSE IF x.pc = "publish" THEN [x EXCEPT !.elapsed = @ + 1]
                      ELSE x
<1>1. worker' = [w \in Workers |-> next(worker[w])]
  BY Zenon DEF Tick
<1>2. ASSUME NEW x \in WorkerState
      PROVE  /\ next(x) \in WorkerState
             /\ next(x).pc = x.pc /\ next(x).cur = x.cur /\ next(x).held = x.held
             /\ next(x).tries = x.tries /\ next(x).msg = x.msg /\ next(x).done = x.done
  BY SMTT(30) DEF WorkerState
<1> HIDE DEF next
<1>3. QED
  BY <1>1, <1>2, Zenon DEF TypeOK

-----------------------------------------------------------------------------
(* The inductive invariant.                                                *)

LEMMA OutboxInit == Init => OutboxInv
<1> SUFFICES ASSUME Init PROVE OutboxInv
  BY Zenon
<1>1. /\ IdleWorker \in WorkerState /\ IdleWorker.pc = "idle"
      /\ IdleWorker.held = None /\ IdleWorker.cur = None
  BY IdleType, Zenon DEF IdleWorker
<1>2. \A w \in Workers : worker[w] = IdleWorker
  BY Zenon DEF Init
<1>3. TypeOK
  BY <1>1, OutboxConstants, SMTT(30) DEF Init, TypeOK, Status
<1>4. QED
  BY <1>1, <1>2, <1>3, SMTT(30) DEF Init, OutboxInv, AppliedOnce, OneIntentPerKey,
     DeliveredWasPublished, FailedMeansExhausted

\* An intent is inserted for a key that has no row: no worker is at it, and
\* the destination has seen nothing under it.
LEMMA InsertInv ==
    ASSUME OutboxInv, NEW k \in Keys, NEW p \in Payloads, NEW d \in Delays,
           Insert(k, p, d), UNCHANGED <<worker, effects, deaths>>,
           \/ applied' = applied
           \/ applied' = [applied EXCEPT ![k] = @ + 1]
    PROVE  OutboxInv'
<1>1. d \in Int
  BY OutboxConstants, SMTT(30)
<1>2. applied[k] = 0 /\ effects[k] = {} /\ applied \in [Keys -> Nat]
  BY Zenon DEF OutboxInv, TypeOK, AppliedOnce, Insert
<1>3. applied' \in [Keys -> Nat] /\ (\A j \in Keys : applied'[j] <= 1)
      /\ \A j \in Keys : j # k => applied'[j] = applied[j]
  BY <1>2, SMTT(30) DEF OutboxInv, AppliedOnce
<1>4. TypeOK'
  BY <1>1, <1>3, Zenon DEF OutboxInv, TypeOK, Insert, Status
<1>5. AppliedOnce'
  BY <1>3, Zenon DEF OutboxInv, AppliedOnce, TypeOK, Insert
<1>6. OneIntentPerKey' /\ DeliveredWasPublished' /\ FailedMeansExhausted'
  BY <1>2, Zenon DEF OutboxInv, OneIntentPerKey, DeliveredWasPublished, FailedMeansExhausted,
     TypeOK, Insert
<1>7. \A w \in Workers : worker[w].pc = "publish" => worker[w].cur \in Keys /\ worker[w].cur # k
  BY SMTT(30) DEF OutboxInv, TypeOK, WorkerState, Insert
<1>8. QED
  BY <1>4, <1>5, <1>6, <1>7, SMTT(30) DEF OutboxInv, TypeOK, Insert

LEMMA RetryFailedInv ==
    ASSUME OutboxInv, NEW k \in Keys, RetryFailed(k)
    PROVE  OutboxInv'
<1>1. TypeOK'
  BY SMTT(30) DEF OutboxInv, TypeOK, RetryFailed, Status
<1>2. AppliedOnce' /\ OneIntentPerKey' /\ DeliveredWasPublished' /\ FailedMeansExhausted'
  BY Zenon DEF OutboxInv, AppliedOnce, OneIntentPerKey, DeliveredWasPublished,
     FailedMeansExhausted, TypeOK, RetryFailed
<1>3. \A w \in Workers : worker[w].pc = "publish" => worker[w].cur \in Keys
  BY Zenon DEF OutboxInv, TypeOK, WorkerState
<1>4. QED
  BY <1>1, <1>2, <1>3, SMTT(30) DEF OutboxInv, TypeOK, RetryFailed

\* A step after which w publishes nothing, and which touches no column but
\* the times, preserves the invariant.
LEMMA QuietInv ==
    ASSUME OutboxInv, NEW w \in Workers,
           UNCHANGED <<status, payload, attempts, token, applied, effects>>,
           avail' \in [Keys -> Int], expires' \in [Keys -> Int], deaths' \in 0..MaxDeaths,
           worker' \in [Workers -> WorkerState], Others(w),
           worker'[w].pc # "publish", worker'[w].held = None,
           (worker'[w].cur # None) = (worker'[w].pc = "defer"),
           worker'[w].pc = "claim" => ~worker'[w].done
    PROVE  OutboxInv'
<1>1. TypeOK'
  BY SMTT(30) DEF OutboxInv, TypeOK, Others
<1>2. AppliedOnce' /\ OneIntentPerKey' /\ DeliveredWasPublished' /\ FailedMeansExhausted'
  BY Zenon DEF OutboxInv, AppliedOnce, OneIntentPerKey, DeliveredWasPublished,
     FailedMeansExhausted
<1>3. \A v \in Workers : worker'[v].pc = "publish" => v # w /\ worker'[v] = worker[v]
  BY Zenon DEF Others
<1>4. \A v \in Workers : worker'[v].pc = "claim" => ~worker'[v].done
  BY Zenon DEF Others, OutboxInv
<1>5. \A u, v \in Workers :
        worker'[u].held = worker'[v].held /\ u # v => worker'[u].held = None
  BY SMTT(30) DEF Others, OutboxInv
<1>6. QED
  BY <1>1, <1>2, <1>3, <1>4, <1>5, SMTT(30) DEF OutboxInv

LEMMA ClaimInv ==
    ASSUME OutboxInv, NEW w \in Workers, NEW k \in Keys, NEW t \in Tokens, Claim(w, k, t)
    PROVE  OutboxInv'
<1>1. TypeOK
  BY Zenon DEF OutboxInv
<1>2. /\ worker' \in [Workers -> WorkerState] /\ Others(w)
      /\ worker'[w].pc = "publish" /\ worker'[w].cur = k /\ worker'[w].held = t
      /\ worker'[w].msg = payload[k] /\ worker'[w].tries = attempts'[k]
      /\ ~worker'[w].done
      /\ attempts' \in [Keys -> Nat]
      /\ \A j \in Keys : j # k => attempts'[j] = attempts[j]
  BY <1>1, ClaimWorker, SMTT(30) DEF OutboxInv
<1>3. /\ status' = [status EXCEPT ![k] = "in_flight"]
      /\ token' = [token EXCEPT ![k] = t]
      /\ \A v \in Workers : worker[v].held # t
      /\ UNCHANGED <<payload, avail, applied, effects, deaths>>
      /\ expires' = [expires EXCEPT ![k] = ClaimTtl - worker[w].lag]
  BY Zenon DEF Claim
<1>4. status[k] # "absent" /\ status[k] # "failed"
  BY Zenon DEF Claim, First, Ready
<1>5. t # None /\ k # None /\ ClaimTtl - worker[w].lag \in Int
  BY <1>1, OutboxConstants, SMTT(30) DEF TypeOK, WorkerState
<1>6. TypeOK'
  BY <1>1, <1>2, <1>3, <1>5, SMTT(30) DEF TypeOK, Others, Status
<1>7. AppliedOnce' /\ OneIntentPerKey' /\ DeliveredWasPublished' /\ FailedMeansExhausted'
  BY <1>1, <1>2, <1>3, <1>4, Zenon DEF OutboxInv, AppliedOnce, OneIntentPerKey,
     DeliveredWasPublished, FailedMeansExhausted, TypeOK
<1>8. ASSUME NEW v \in Workers, worker'[v].pc = "publish"
      PROVE  LET j == worker'[v].cur IN
             /\ status'[j] # "absent"
             /\ worker'[v].msg = payload'[j]
             /\ worker'[v].done => payload'[j] \in effects'[j]
             /\ token'[j] = worker'[v].held => worker'[v].tries = attempts'[j]
  <2>1. CASE v = w
    BY <1>1, <1>2, <1>3, <2>1, Zenon DEF TypeOK
  <2>2. CASE v # w
    <3>1. worker'[v] = worker[v] /\ worker[v].held # t /\ worker[v].cur \in Keys
      BY <1>1, <1>2, <1>3, <1>8, <2>2, Zenon DEF Others, TypeOK, WorkerState
    <3>2. QED
      BY <1>1, <1>2, <1>3, <1>8, <3>1, SMTT(30) DEF OutboxInv, TypeOK
  <2>3. QED
    BY <2>1, <2>2, Zenon
<1>9. \A v \in Workers : worker'[v].pc = "claim" => ~worker'[v].done
  BY <1>2, SMTT(30) DEF Others, OutboxInv
<1>10. \A u, v \in Workers :
        worker'[u].held = worker'[v].held /\ u # v => worker'[u].held = None
  BY <1>2, <1>3, SMTT(30) DEF Others, OutboxInv
<1>11. \A j \in Keys : status'[j] = "absent" => effects'[j] = {}
  BY <1>1, <1>3, Zenon DEF OutboxInv, TypeOK
<1>12. QED
  BY <1>6, <1>7, <1>8, <1>9, <1>10, <1>11, Zenon DEF OutboxInv

LEMMA PublishInv ==
    ASSUME OutboxInv, NEW w \in Workers, Publish(w)
    PROVE  OutboxInv'
<1> DEFINE k == worker[w].cur
<1>1. TypeOK
  BY Zenon DEF OutboxInv
<1>2. /\ worker' \in [Workers -> WorkerState] /\ Others(w)
      /\ worker'[w].pc = "publish" /\ worker'[w].done
      /\ worker'[w].cur = k /\ worker'[w].held = worker[w].held
      /\ worker'[w].msg = worker[w].msg /\ worker'[w].tries = worker[w].tries
      /\ worker[w].pc = "publish" /\ k \in Keys
  BY <1>1, PublishWorker, Zenon
<1>3. /\ effects' = [effects EXCEPT ![k] = @ \cup {worker[w].msg}]
      /\ UNCHANGED <<status, payload, attempts, avail, token, expires, applied, deaths>>
  BY Zenon DEF Publish, rows
<1>4. worker[w].msg = payload[k] /\ status[k] # "absent"
  BY <1>2, Zenon DEF OutboxInv
<1> HIDE DEF k
<1>5. /\ effects' \in [Keys -> SUBSET (Payloads \cup {NoPayload})]
      /\ effects'[k] = effects[k] \cup {payload[k]}
      /\ \A j \in Keys : effects[j] \subseteq effects'[j] /\ (j # k => effects'[j] = effects[j])
  BY <1>1, <1>2, <1>3, <1>4, SMTT(30) DEF TypeOK
<1>6. TypeOK'
  BY <1>1, <1>2, <1>3, <1>5, SMTT(30) DEF TypeOK, Others, k
<1>7. AppliedOnce' /\ OneIntentPerKey' /\ DeliveredWasPublished' /\ FailedMeansExhausted'
  BY <1>3, <1>5, Zenon DEF OutboxInv, AppliedOnce, OneIntentPerKey,
     DeliveredWasPublished, FailedMeansExhausted
<1>8. ASSUME NEW v \in Workers, worker'[v].pc = "publish"
      PROVE  LET j == worker'[v].cur IN
             /\ status'[j] # "absent"
             /\ worker'[v].msg = payload'[j]
             /\ worker'[v].done => payload'[j] \in effects'[j]
             /\ token'[j] = worker'[v].held => worker'[v].tries = attempts'[j]
  <2>1. CASE v = w
    BY <1>2, <1>3, <1>4, <1>5, <2>1, SMTT(30) DEF OutboxInv, k
  <2>2. CASE v # w
    <3>1. worker'[v] = worker[v] /\ worker[v].cur \in Keys
      BY <1>1, <1>2, <1>8, <2>2, Zenon DEF Others, TypeOK, WorkerState
    <3>2. QED
      BY <1>3, <1>5, <1>8, <3>1, SMTT(30) DEF OutboxInv
  <2>3. QED
    BY <2>1, <2>2, Zenon
<1>9. \A v \in Workers : worker'[v].pc = "claim" => ~worker'[v].done
  BY <1>2, SMTT(30) DEF Others, OutboxInv
<1>10. \A u, v \in Workers :
        worker'[u].held = worker'[v].held /\ u # v => worker'[u].held = None
  BY <1>2, SMTT(30) DEF Others, OutboxInv
<1>11. \A j \in Keys : status'[j] = "absent" => effects'[j] = {}
  BY <1>3, <1>4, <1>5, Zenon DEF OutboxInv
<1>12. QED
  BY <1>6, <1>7, <1>8, <1>9, <1>10, <1>11, Zenon DEF OutboxInv

\* ack and nack: the worker owns its claim, so what it counted is the row's
\* count, and what it says of the row is true.
LEMMA SettleInv ==
    ASSUME OutboxInv, NEW w \in Workers, worker[w].pc = "publish", Owns(w),
           NEW state \in {"delivered", "failed", "pending"}, Settle(w, state),
           avail' \in [Keys -> Int], NEW delivered \in BOOLEAN,
           worker' = Return(w, delivered), UNCHANGED <<applied, effects, deaths>>,
           state = "delivered" => worker[w].done,
           state = "failed" => Exhausted(worker[w].tries)
    PROVE  OutboxInv'
<1> DEFINE k == worker[w].cur
<1>1. TypeOK
  BY Zenon DEF OutboxInv
<1>2. Returned(w)
  BY <1>1, ReturnWorker, Zenon
<1>3. /\ status' = [status EXCEPT ![k] = state] /\ token' = [token EXCEPT ![k] = None]
      /\ expires' = [expires EXCEPT ![k] = 0] /\ UNCHANGED <<payload, attempts>>
  BY Zenon DEF Settle
<1>4. k \in Keys /\ status[k] = "in_flight" /\ worker[w].tries = attempts[k]
  BY <1>1, Zenon DEF OutboxInv, TypeOK, WorkerState, Owns
<1>5. state = "delivered" => payload[k] \in effects[k]
  BY Zenon DEF OutboxInv
<1> HIDE DEF k
<1>6. TypeOK'
  BY <1>1, <1>2, <1>3, <1>4, SMTT(30) DEF TypeOK, Returned, Others, Status
<1>7. AppliedOnce' /\ OneIntentPerKey' /\ DeliveredWasPublished' /\ FailedMeansExhausted'
  BY <1>1, <1>3, <1>4, <1>5, SMTT(30) DEF OutboxInv, AppliedOnce, OneIntentPerKey,
     DeliveredWasPublished, FailedMeansExhausted, TypeOK
<1>8. ASSUME NEW v \in Workers, worker'[v].pc = "publish"
      PROVE  LET j == worker'[v].cur IN
             /\ status'[j] # "absent"
             /\ worker'[v].msg = payload'[j]
             /\ worker'[v].done => payload'[j] \in effects'[j]
             /\ token'[j] = worker'[v].held => worker'[v].tries = attempts'[j]
  <2>1. worker'[v] = worker[v]
    BY <1>2, <1>8, Zenon DEF Returned, Others
  <2>2. worker[v].cur \in Keys /\ worker[v].held # None
    BY <1>1, <1>8, <2>1, Zenon DEF TypeOK, WorkerState
  <2>3. QED
    BY <1>1, <1>3, <1>4, <1>8, <2>1, <2>2, SMTT(30) DEF OutboxInv, TypeOK
<1>9. \A v \in Workers : worker'[v].pc = "claim" => ~worker'[v].done
  BY <1>2, SMTT(30) DEF Returned, Others, OutboxInv
<1>10. \A u, v \in Workers :
        worker'[u].held = worker'[v].held /\ u # v => worker'[u].held = None
  BY <1>2, SMTT(30) DEF Returned, Others, OutboxInv
<1>11. \A j \in Keys : status'[j] = "absent" => effects'[j] = {}
  BY <1>1, <1>3, <1>4, Zenon DEF OutboxInv, TypeOK
<1>12. QED
  BY <1>6, <1>7, <1>8, <1>9, <1>10, <1>11, Zenon DEF OutboxInv

LEMMA NackInv ==
    ASSUME OutboxInv, NEW w \in Workers, Nack(w)
    PROVE  OutboxInv'
<1> DEFINE state == IF Exhausted(worker[w].tries) THEN "failed" ELSE "pending"
           due == IF RetryDelay = 0 THEN -(worker[w].lag + worker[w].elapsed)
                  ELSE RetryDelay - worker[w].lag
<1>1. /\ worker[w].pc = "publish" /\ Owns(w) /\ Settle(w, state)
      /\ avail' = [avail EXCEPT ![worker[w].cur] = due]
      /\ worker' = Return(w, FALSE) /\ UNCHANGED <<applied, effects, deaths>>
  BY Zenon DEF Nack
<1>2. due \in Int /\ avail \in [Keys -> Int]
  BY OutboxConstants, SMTT(30) DEF OutboxInv, TypeOK, WorkerState
<1> HIDE DEF due
<1>3. avail' \in [Keys -> Int]
  BY <1>1, <1>2, Zenon
<1>4. state \in {"delivered", "failed", "pending"} /\ state # "delivered"
      /\ (state = "failed" => Exhausted(worker[w].tries))
  BY Zenon
<1> HIDE DEF state
<1>5. QED
  BY <1>1, <1>3, <1>4, SettleInv, Zenon

LEMMA AckInv ==
    ASSUME OutboxInv, NEW w \in Workers, Ack(w)
    PROVE  OutboxInv'
<1>1. avail' \in [Keys -> Int]
  BY Zenon DEF OutboxInv, TypeOK, Ack
<1>2. QED
  BY <1>1, SettleInv, Zenon DEF Ack

LEMMA TickInv ==
    ASSUME OutboxInv, Tick
    PROVE  OutboxInv'
<1>1. TypeOK
  BY Zenon DEF OutboxInv
<1>2. /\ avail' = [k \in Keys |-> Older(avail, k)]
      /\ expires' = [k \in Keys |-> IF status[k] = "in_flight" THEN Older(expires, k)
                                    ELSE expires[k]]
      /\ UNCHANGED <<status, payload, attempts, token, applied, effects, deaths>>
  BY Zenon DEF Tick
<1>3. avail' \in [Keys -> Int] /\ expires' \in [Keys -> Int]
  <2>1. \A k \in Keys : Older(avail, k) \in Int /\ Older(expires, k) \in Int
    BY <1>1, OlderType, Zenon DEF TypeOK
  <2>2. QED
    BY <1>1, <1>2, <2>1, Zenon DEF TypeOK
<1>4. /\ worker' \in [Workers -> WorkerState]
      /\ \A w \in Workers :
            /\ worker'[w].pc = worker[w].pc /\ worker'[w].cur = worker[w].cur
            /\ worker'[w].held = worker[w].held /\ worker'[w].tries = worker[w].tries
            /\ worker'[w].msg = worker[w].msg /\ worker'[w].done = worker[w].done
  BY <1>1, TickWorker, Zenon
<1>5. TypeOK'
  BY <1>1, <1>2, <1>3, <1>4, SMTT(30) DEF TypeOK
<1>6. AppliedOnce' /\ OneIntentPerKey' /\ DeliveredWasPublished' /\ FailedMeansExhausted'
  BY <1>2, Zenon DEF OutboxInv, AppliedOnce, OneIntentPerKey, DeliveredWasPublished,
     FailedMeansExhausted
<1>7. QED
  BY <1>2, <1>4, <1>5, <1>6, SMTT(30) DEF OutboxInv

LEMMA OutboxStep == OutboxInv /\ [Next]_vars => OutboxInv'
<1> SUFFICES ASSUME OutboxInv, [Next]_vars PROVE OutboxInv'
  BY Zenon
<1>1. TypeOK /\ avail \in [Keys -> Int] /\ expires \in [Keys -> Int] /\ deaths \in 0..MaxDeaths
  BY Zenon DEF OutboxInv, TypeOK
<1>2. ASSUME NEW k \in Keys, NEW p \in Payloads, NEW d \in Delays, CommitIntent(k, p, d)
      PROVE  OutboxInv'
  BY <1>2, InsertInv, Zenon DEF CommitIntent
<1>3. ASSUME NEW k \in Keys, NEW p \in Payloads, NEW d \in Delays, Enqueue(k, p, d)
      PROVE  OutboxInv'
  BY <1>3, InsertInv, Zenon DEF Enqueue
<1>4. ASSUME NEW k \in Keys, RetryFailed(k)
      PROVE  OutboxInv'
  BY <1>4, RetryFailedInv, Zenon
<1>5. ASSUME NEW w \in Workers, NEW drain \in BOOLEAN, BeginDispatch(w, drain)
      PROVE  OutboxInv'
  BY <1>1, <1>5, BeginDispatchWorker, QuietInv, Zenon DEF BeginDispatch, rows
<1>6. ASSUME NEW w \in Workers, NEW k \in Keys, NEW t \in Tokens, Claim(w, k, t)
      PROVE  OutboxInv'
  BY <1>6, ClaimInv, Zenon
<1>7. ASSUME NEW w \in Workers, EndDrain(w)
      PROVE  OutboxInv'
  BY <1>1, <1>7, EndDrainWorker, QuietInv, Zenon DEF EndDrain, rows
<1>8. ASSUME NEW w \in Workers, Publish(w) \/ Ack(w) \/ Nack(w)
      PROVE  OutboxInv'
  BY <1>8, PublishInv, AckInv, NackInv, Zenon
<1>9. ASSUME NEW w \in Workers, ClaimLost(w)
      PROVE  OutboxInv'
  <2>1. Returned(w)
    BY <1>1, <1>9, ReturnWorker, Zenon DEF ClaimLost
  <2>2. QED
    BY <1>1, <1>9, <2>1, QuietInv, Zenon DEF ClaimLost, Returned, rows
<1>10. ASSUME NEW w \in Workers, Defer(w)
       PROVE  OutboxInv'
  <2>1. worker[w].cur \in Keys /\ 1 - worker[w].lag \in Int
    BY <1>1, <1>10, SMTT(30) DEF TypeOK, WorkerState, Defer
  <2>2. avail' \in [Keys -> Int] /\ expires' \in [Keys -> Int]
    BY <1>1, <1>10, <2>1, Zenon DEF Defer
  <2>3. /\ worker' \in [Workers -> WorkerState] /\ Others(w)
        /\ worker'[w].pc = "claim" /\ worker'[w].cur = None
        /\ worker'[w].held = None /\ ~worker'[w].done
    <3> DEFINE ks == {worker[w].cur}
    <3>1. ks \in SUBSET Keys /\ worker[w].pc = "defer" /\ worker' = GoOn(w, ks)
      BY <1>10, <2>1, Zenon DEF Defer
    <3> HIDE DEF ks
    <3>2. QED
      BY <1>1, <3>1, GoOnWorker, Zenon
  <2>4. QED
    BY <1>1, <1>10, <2>2, <2>3, QuietInv, Zenon DEF Defer
<1>11. ASSUME NEW w \in Workers, DeferNothing(w)
       PROVE  OutboxInv'
  BY <1>1, <1>11, GoOnWorker, QuietInv, SMTT(30) DEF DeferNothing, rows
<1>12. ASSUME NEW w \in Workers, Restore(w)
       PROVE  OutboxInv'
  <2>1. worker[w].lag \in Nat
    BY <1>1, Zenon DEF TypeOK, WorkerState
  <2>2. avail' \in [Keys -> Int] /\ expires' \in [Keys -> Int]
    BY <1>1, <1>12, <2>1, SMTT(30) DEF Restore
  <2>3. QED
    BY <1>1, <1>12, <2>2, IdleAgain, QuietInv, Zenon DEF Restore
<1>13. ASSUME NEW w \in Workers, Die(w)
       PROVE  OutboxInv'
  <2>1. deaths' \in 0..MaxDeaths
    BY <1>1, <1>13, OutboxConstants, SMTT(30) DEF Die
  <2>2. QED
    BY <1>1, <1>13, <2>1, IdleAgain, QuietInv, Zenon DEF Die, rows
<1>14. CASE Tick
  BY <1>14, TickInv, Zenon
<1>15. CASE UNCHANGED vars
  <2>1. UNCHANGED <<status, payload, attempts, avail, token, expires, applied, worker,
                    effects, deaths>>
    BY <1>15, Zenon DEF vars, rows
  <2>2. QED
    BY <2>1, Zenon DEF OutboxInv, TypeOK, AppliedOnce, OneIntentPerKey, DeliveredWasPublished,
       FailedMeansExhausted
<1>16. QED
  BY <1>2, <1>3, <1>4, <1>5, <1>6, <1>7, <1>8, <1>9, <1>10, <1>11, <1>12, <1>13,
     <1>14, <1>15, Zenon DEF Next, Dispatch

-----------------------------------------------------------------------------
(* Theorems                                                                *)

\* The inductive invariant holds in every state of the outbox, whatever the
\* number of workers, keys and crashes.
THEOREM OutboxInvariant == Spec => []OutboxInv
<1>1. QED
  BY OutboxInit, OutboxStep, PTL DEF Spec

\* commit_intent applies the mutation of a key at most once.
THEOREM MutationAppliedOnce == Spec => []AppliedOnce
<1>1. OutboxInv => AppliedOnce
  BY Zenon DEF OutboxInv
<1>2. QED
  BY <1>1, OutboxInvariant, PTL

\* Whatever is published under a key is the payload that was accepted for it.
THEOREM KeyStandsForOneIntent == Spec => []OneIntentPerKey
<1>1. OutboxInv => OneIntentPerKey
  BY Zenon DEF OutboxInv
<1>2. QED
  BY <1>1, OutboxInvariant, PTL

\* Only what the destination has seen is marked delivered, although claims
\* expire and move to other workers while messages are being published.
THEOREM NothingDeliveredUnseen == Spec => []DeliveredWasPublished
<1>1. OutboxInv => DeliveredWasPublished
  BY Zenon DEF OutboxInv
<1>2. QED
  BY <1>1, OutboxInvariant, PTL

\* A dead letter has used up its attempts.
THEOREM DeadLettersAreExhausted == Spec => []FailedMeansExhausted
<1>1. OutboxInv => FailedMeansExhausted
  BY Zenon DEF OutboxInv
<1>2. QED
  BY <1>1, OutboxInvariant, PTL

\* The claim token fences: at most one worker can settle a row, and the count
\* it compares with max_attempts is the row's.
THEOREM ClaimsAreFenced == Spec => []ClaimIsExclusive
<1>1. OutboxInv => ClaimIsExclusive
  BY SMTT(30) DEF OutboxInv, TypeOK, ClaimIsExclusive, Owns
<1>2. QED
  BY <1>1, OutboxInvariant, PTL

\* A delivered row stays delivered: a late nack or ack, a new claim and
\* retry_failed all need the row in another state.
THEOREM DeliveryIsFinal == Spec => DeliveredIsFinal
<1>1. ASSUME OutboxInv, [Next]_vars, NEW k \in Keys, status[k] = "delivered"
      PROVE  status'[k] = "delivered"
  <2>1. status \in [Keys -> Status]
    BY <1>1, Zenon DEF OutboxInv, TypeOK
  <2>2. ASSUME NEW w \in Workers, Ack(w) \/ Nack(w)
        PROVE  status'[k] = "delivered"
    BY <1>1, <2>1, <2>2, Zenon DEF Ack, Nack, Owns, Settle
  <2>3. ASSUME NEW w \in Workers, NEW j \in Keys, NEW t \in Tokens, Claim(w, j, t)
        PROVE  status'[k] = "delivered"
    BY <1>1, <2>1, <2>3, Zenon DEF Claim, First, Ready
  <2>4. ASSUME NEW j \in Keys, NEW p \in Payloads, NEW d \in Delays, Insert(j, p, d)
        PROVE  status'[k] = "delivered"
    BY <1>1, <2>1, <2>4, Zenon DEF Insert
  <2>5. ASSUME NEW j \in Keys, RetryFailed(j)
        PROVE  status'[k] = "delivered"
    BY <1>1, <2>1, <2>5, Zenon DEF RetryFailed
  <2>6. QED
    BY <1>1, <2>2, <2>3, <2>4, <2>5, Zenon DEF Next, Dispatch, vars, rows, CommitIntent, Enqueue,
       BeginDispatch, EndDrain, Publish, ClaimLost, Defer, DeferNothing, Restore, Die, Tick
<1>2. OutboxInv /\ [Next]_vars =>
         [\A k \in Keys : status[k] = "delivered" => status'[k] = "delivered"]_vars
  BY <1>1, Zenon
<1>3. QED
  BY <1>2, OutboxInvariant, PTL DEF Spec, DeliveredIsFinal

\* What a change of one row's state shows outside.
LEMMA OutcomeChanges ==
    ASSUME NEW k \in Keys, NEW s, status \in [Keys -> Status],
           status' = [status EXCEPT ![k] = s]
    PROVE  [j \in Keys |-> OutcomeOf(status[j])]'
              = [[j \in Keys |-> OutcomeOf(status[j])] EXCEPT ![k] = OutcomeOf(s)]
    BY Zenon

LEMMA Outcomes ==
    /\ OutcomeOf("absent") = "none"
    /\ OutcomeOf("pending") = "open" /\ OutcomeOf("in_flight") = "open"
    /\ OutcomeOf("delivered") = "delivered" /\ OutcomeOf("failed") = "dead"
    BY Zenon DEF OutcomeOf

\* The outbox implements at-least-once delivery: an insert accepts the intent,
\* a publish shows its effect (also one whose claim was lost), an ack delivers,
\* the last nack gives up, retry_failed reopens, and the rest is not visible.
THEOREM OutboxImplementsDelivery == Spec => ImplementsDelivery
<1>1. Init => Delivery!Init
  BY Outcomes, Zenon DEF Init, Delivery!Init
<1>2. ASSUME OutboxInv, [Next]_vars
      PROVE  [Delivery!Next]_(Delivery!vars)
  <2> DEFINE outcome == [j \in Keys |-> OutcomeOf(status[j])]
  <2>1. /\ status \in [Keys -> Status] /\ payload \in [Keys -> Payloads \cup {NoPayload}]
        /\ effects \in [Keys -> SUBSET (Payloads \cup {NoPayload})]
    BY <1>2, Zenon DEF OutboxInv, TypeOK
  <2>2. ASSUME NEW k \in Keys, NEW p \in Payloads, NEW d \in Delays,
               Insert(k, p, d), UNCHANGED effects
        PROVE  Delivery!Accept(k, p)
    <3>1. outcome[k] = "none" /\ outcome' = [outcome EXCEPT ![k] = "open"]
      BY <2>1, <2>2, Outcomes, OutcomeChanges, Zenon DEF Insert
    <3>2. QED
      BY <2>2, <3>1, Zenon DEF Insert, Delivery!Accept
  <2>3. ASSUME NEW k \in Keys, RetryFailed(k)
        PROVE  Delivery!Reopen(k)
    <3>1. outcome[k] = "dead" /\ outcome' = [outcome EXCEPT ![k] = "open"]
      BY <2>1, <2>3, Outcomes, OutcomeChanges, Zenon DEF RetryFailed
    <3>2. QED
      BY <2>3, <3>1, Zenon DEF RetryFailed, Delivery!Reopen
  <2>4. ASSUME NEW w \in Workers, Publish(w)
        PROVE  Delivery!Effect(worker[w].cur) /\ worker[w].cur \in Keys
    <3>1. /\ worker[w].cur \in Keys /\ worker[w].msg = payload[worker[w].cur]
          /\ status[worker[w].cur] # "absent"
      BY <1>2, <2>4, Zenon DEF OutboxInv, TypeOK, WorkerState, Publish
    <3>2. outcome[worker[w].cur] # "none"
      BY <2>1, <3>1, Outcomes, Zenon DEF Status
    <3>3. UNCHANGED <<payload, outcome>>
      BY <2>4, Zenon DEF Publish, rows
    <3>4. QED
      BY <2>4, <3>1, <3>2, <3>3, Zenon DEF Publish, Delivery!Effect
  <2>5. ASSUME NEW w \in Workers, NEW j \in Keys, NEW t \in Tokens, Claim(w, j, t)
        PROVE  UNCHANGED Delivery!vars
    <3>1. outcome' = [outcome EXCEPT ![j] = "open"] /\ outcome[j] = "open"
      BY <2>1, <2>5, Outcomes, OutcomeChanges, Zenon DEF Claim, First, Ready
    <3>2. outcome' = outcome
      BY <3>1, Zenon
    <3>3. QED
      BY <2>5, <3>2, Zenon DEF Claim, Delivery!vars
  <2>6. ASSUME NEW w \in Workers, Ack(w)
        PROVE  Delivery!Deliver(worker[w].cur) /\ worker[w].cur \in Keys
    <3> DEFINE k == worker[w].cur
    <3>1. k \in Keys /\ payload[k] \in effects[k] /\ status[k] = "in_flight"
      BY <1>2, <2>6, Zenon DEF OutboxInv, TypeOK, WorkerState, Ack, Owns
    <3>2. status' = [status EXCEPT ![k] = "delivered"] /\ UNCHANGED <<payload, effects>>
      BY <2>6, Zenon DEF Ack, Settle
    <3> HIDE DEF k
    <3>3. outcome[k] = "open" /\ outcome' = [outcome EXCEPT ![k] = "delivered"]
      BY <2>1, <3>1, <3>2, Outcomes, OutcomeChanges, Zenon
    <3>4. QED
      BY <3>1, <3>2, <3>3, Zenon DEF Delivery!Deliver, k
  <2>7. ASSUME NEW w \in Workers, Nack(w)
        PROVE  /\ worker[w].cur \in Keys
               /\ Delivery!GiveUp(worker[w].cur) \/ UNCHANGED Delivery!vars
    <3> DEFINE k == worker[w].cur
    <3>1. k \in Keys /\ status[k] = "in_flight"
      BY <1>2, <2>7, Zenon DEF OutboxInv, TypeOK, WorkerState, Nack, Owns
    <3>2. /\ status' = [status EXCEPT ![k] = "failed"] \/ status' = [status EXCEPT ![k] = "pending"]
          /\ UNCHANGED <<payload, effects>>
      BY <2>7, Zenon DEF Nack, Settle
    <3> HIDE DEF k
    <3>3. outcome[k] = "open"
      BY <2>1, <3>1, Outcomes, Zenon
    <3>4. CASE status' = [status EXCEPT ![k] = "failed"]
      <4>1. outcome' = [outcome EXCEPT ![k] = "dead"]
        BY <2>1, <3>1, <3>4, Outcomes, OutcomeChanges, Zenon
      <4>2. QED
        BY <3>1, <3>2, <3>3, <4>1, Zenon DEF Delivery!GiveUp, k
    <3>5. CASE status' = [status EXCEPT ![k] = "pending"]
      <4>1. outcome' = [outcome EXCEPT ![k] = "open"]
        BY <2>1, <3>1, <3>5, Outcomes, OutcomeChanges, Zenon
      <4>2. outcome' = outcome
        BY <3>3, <4>1, Zenon
      <4>3. QED
        BY <3>1, <3>2, <4>2, Zenon DEF Delivery!vars, k
    <3>6. QED
      BY <3>2, <3>4, <3>5, Zenon
  <2>8. ASSUME UNCHANGED <<status, payload, effects>>
        PROVE  UNCHANGED Delivery!vars
    BY <2>8, Zenon DEF Delivery!vars
  <2>9. QED
    BY <1>2, <2>2, <2>3, <2>4, <2>5, <2>6, <2>7, <2>8, Zenon DEF Next, Dispatch, Delivery!Next,
       vars, rows, CommitIntent, Enqueue, BeginDispatch, EndDrain, ClaimLost, Defer,
       DeferNothing, Restore, Die, Tick
<1>3. QED
  BY <1>1, <1>2, OutboxInvariant, PTL DEF Spec, ImplementsDelivery, Delivery!Spec
=============================================================================
