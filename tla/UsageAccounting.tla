-------------------------- MODULE UsageAccounting ---------------------------
(***************************************************************************)
(* What a goal's computation really cost (sdk/compute_usage.py), how that  *)
(* history corrects the next run's estimates (sdk/compute_calibration.py), *)
(* and how it is attributed to the scheduler's wastes                      *)
(* (sdk/waste_projection.py), together with the part of AgentOS.run and    *)
(* run_async that charges, measures and records each attempt.              *)
(*                                                                         *)
(* The five budget dimensions are treated alike by the code; one stands    *)
(* for them.  Attempts are numbered in the order they are dispatched and   *)
(* each has one claim, so the number also stands for the ledger key.       *)
(***************************************************************************)
EXTENDS Integers, Sequences, FiniteSets, FiniteSetsExt

CONSTANTS Tasks, Agents,
          ReadsOf,        \* the resources an attempt at each task reads
          Ends,           \* the states an attempt may end in
          Estimate,       \* the declared estimate of each task
          Amounts,        \* what an attempt may really cost
          FirstVersion,   \* the graph version the goal starts at
          MaxVersion, MaxAttempts, MaxRuns,
          MaxEpoch,       \* per task
          Owned,          \* the attempts whose records the ledger's owner edits
          Outcome         \* the outcomes it closes them with

VARIABLES
    attempts,   \* Scheduler.attempts
    ledger,     \* UsageLedger.records, per attempt {} or one record
    graph,      \* version and the semantic epoch of each task
    run,        \* number, declared estimates, budget used, accounted claims
    spent       \* what was first reported for each attempt

vars == <<attempts, ledger, graph, run, spent>>

None == -1

Scale == 1000000

Terminal == {"committed", "failed", "stale", "cancelled"}

-----------------------------------------------------------------------------
(* The ledger.                                                             *)
Record(state, estimated, reserved, measured) ==
    [state |-> state, estimated |-> estimated, reserved |-> reserved, measured |-> measured]

Allowed(state) ==
    CASE state = "estimated" -> {"reserved", "measured", "failed", "stale", "cancelled"}
      [] state = "reserved" -> {"measured", "failed", "stale", "cancelled"}
      [] state = "measured" -> Terminal
      [] OTHER -> {}

(* The next snapshot of a record, {} when the transition is refused: the   *)
(* target must be allowed and a value once set is never rewritten.         *)
Transition(r, target, reserved, measured) ==
    LET next == Record(target, r.estimated,
                       IF reserved = None THEN r.reserved ELSE reserved,
                       IF measured = None THEN r.measured ELSE measured) IN
    IF /\ next = r \/ target \in Allowed(r.state)
       /\ r.reserved # None => next.reserved = r.reserved
       /\ r.measured # None => next.measured = r.measured
    THEN {next} ELSE {}

(* Inserting a snapshot: an exact duplicate is idempotent, any other       *)
(* record under the same key is a conflict.                                *)
Add(book, c, r) == IF book[c] \in {{}, {r}} THEN {[book EXCEPT ![c] = {r}]} ELSE {}

RecordEstimate(book, c, usage) == Add(book, c, Record("estimated", usage, None, None))

RecordMeasured(book, c, usage) ==
    {[book EXCEPT ![c] = {n}] : n \in UNION {Transition(r, "measured", None, usage) : r \in book[c]}}

RecordMeasuredAttempt_LastWins(book, c, declared, usage) ==
    [book EXCEPT ![c] = {Record("measured", declared, None, usage)}]

(* Estimate and measurement in one go; any refusal leaves the ledger.      *)
RecordMeasuredAttempt(book, c, declared, usage) ==
    LET next == UNION {RecordMeasured(b, c, usage) : b \in RecordEstimate(book, c, declared)} IN
    IF next = {} THEN book ELSE CHOOSE b \in next : TRUE

Records(book) == {c \in DOMAIN book : book[c] # {}}

The(book, c) == CHOOSE r \in book[c] : TRUE

Measured(book, c) ==
    IF book[c] = {} THEN None ELSE The(book, c).measured

Total(S, value(_)) == MapThenSumSet(value, S)

Bucket_Reserved(book, states) ==
    Total({c \in Records(book) : The(book, c).state \in states},
          LAMBDA c : Max({The(book, c).measured, The(book, c).reserved, 0}))

(* The measured usage of the records in the given states.                  *)
Bucket(book, states) ==
    Total({c \in Records(book) : The(book, c).state \in states},
          LAMBDA c : Max({The(book, c).measured, 0}))

Aggregate(book) ==
    [measured |-> Bucket(book, Terminal \cup {"estimated", "reserved", "measured"}),
     activeReserved |-> Total({c \in Records(book) : The(book, c).state = "reserved"},
                              LAMBDA c : The(book, c).reserved),
     committed |-> Bucket(book, {"committed"}),
     failed |-> Bucket(book, {"failed"}),
     stale |-> Bucket(book, {"stale"}),
     cancelled |-> Bucket(book, {"cancelled"})]

-----------------------------------------------------------------------------
(* Calibration.  Records are sorted by their key, a claim id that ends in  *)
(* the decimal graph version and attempt number, compared as strings.      *)
Digits(n) == IF n < 10 THEN <<n>> ELSE <<n \div 10, n % 10>>

LexLess(s, t) ==
    \E i \in 1 .. Len(t) :
        /\ \A j \in 1 .. i - 1 : j <= Len(s) /\ s[j] = t[j]
        /\ i > Len(s) \/ s[i] < t[i]

KeyLess(c, d) ==
    LET v == Digits(attempts[c].version)
        w == Digits(attempts[d].version) IN
    \/ LexLess(v, w)
    \/ v = w /\ LexLess(Digits(attempts[c].number), Digits(attempts[d].number))

Samples(book, t) ==
    LET usable == {c \in Records(book) :
                      /\ attempts[c].task = t
                      /\ The(book, c).estimated > 0 /\ The(book, c).measured > 0} IN
    [i \in 1 .. Cardinality(usable) |->
        CHOOSE c \in usable : Cardinality({d \in usable : KeyLess(d, c)}) = i - 1]

Ewma(book, s) ==
    LET ratio(c) == (The(book, c).measured * Scale) \div The(book, c).estimated
        avg[i \in 1 .. Len(s)] ==
            IF i = 1 THEN ratio(s[1]) ELSE (ratio(s[i]) + avg[i - 1]) \div 2 IN
    avg[Len(s)]

Multiplier_Unclamped(book, t) ==
    IF Samples(book, t) = <<>> THEN Scale ELSE Ewma(book, Samples(book, t))

Multiplier(book, t) ==
    IF Samples(book, t) = <<>> THEN Scale
    ELSE Min({4 * Scale, Max({Scale \div 4, Ewma(book, Samples(book, t))})})

CalibrateEstimate(book, t) == (Estimate[t] * Multiplier(book, t)) \div Scale

(* Verdicts about the work and about its inputs; other states carry none.  *)
Outcomes(t) ==
    LET in(states) == Cardinality({c \in DOMAIN attempts :
                                      attempts[c].task = t /\ attempts[c].state \in states}) IN
    [verified |-> in({"verified"}), failed |-> in({"failed", "crashed"}), churned |-> in({"stale"})]

BlendRate(declared, successes, samples) ==
    IF samples = 0 THEN declared
    ELSE (declared * 2 + successes * 10000) \div (2 + samples)

CalibratedSuccess(t, declared) ==
    LET o == Outcomes(t) IN BlendRate(declared, o.verified, o.verified + o.failed)

CalibratedStability_Blamed(t, declared) ==
    LET o == Outcomes(t) IN
    BlendRate(declared, o.verified, o.verified + o.failed + o.churned)

CalibratedStability(t, declared) ==
    LET o == Outcomes(t) IN
    BlendRate(declared, o.verified + o.failed, o.verified + o.failed + o.churned)

-----------------------------------------------------------------------------
(* The waste projection.                                                   *)
Latest(t) == Max({attempts[c].epoch : c \in {d \in DOMAIN attempts : attempts[d].task = t}})

FirstOfEpoch(c) ==
    \A d \in DOMAIN attempts :
        attempts[d].task = attempts[c].task /\ attempts[d].epoch = attempts[c].epoch =>
            attempts[c].number <= attempts[d].number

Premature == {c \in DOMAIN attempts : attempts[c].state = "stale"}

Rework_Quarantined ==
    {c \in DOMAIN attempts : /\ attempts[c].state # "verified"
                             /\ attempts[c].epoch < Latest(attempts[c].task)}

Rework == {c \in DOMAIN attempts : /\ attempts[c].state \notin {"verified", "stale"}
                                   /\ attempts[c].epoch < Latest(attempts[c].task)}

Repeated == {c \in DOMAIN attempts : /\ attempts[c].state \notin {"verified", "stale"}
                                     /\ attempts[c].epoch = Latest(attempts[c].task)
                                     /\ ~FirstOfEpoch(c)}

WrongDirection == {c \in DOMAIN attempts : /\ attempts[c].state # "verified"
                                           /\ attempts[c].live > attempts[c].version}

(* The measured cost of a set of attempts: None when none was measured.    *)
SumMeasured(S) ==
    LET known == {c \in S : Measured(ledger, c) # None} IN
    IF S # {} /\ known = {} THEN None ELSE Total(known, LAMBDA c : Measured(ledger, c))

(* Re-reads: an agent's attempts in order of epoch and number, every       *)
(* resource version after its first appearance counted once.               *)
ReadBefore(c, d) ==
    /\ attempts[c].agent = attempts[d].agent
    /\ \/ attempts[c].epoch < attempts[d].epoch
       \/ attempts[c].epoch = attempts[d].epoch /\ attempts[c].number < attempts[d].number
       \/ attempts[c].epoch = attempts[d].epoch /\ attempts[c].number = attempts[d].number /\ c < d

Rereads(t) ==
    Total({c \in DOMAIN attempts : attempts[c].task = t},
          LAMBDA c : Cardinality({r \in attempts[c].reads :
              \E d \in DOMAIN attempts : ReadBefore(d, c) /\ r \in attempts[d].reads}))

-----------------------------------------------------------------------------
NoRun == [number |-> 0, declared |-> [t \in Tasks |-> None], used |-> 0, accounted |-> {}]

Init ==
    /\ attempts = <<>>
    /\ ledger = [c \in 1 .. MaxAttempts |-> {}]
    /\ graph = [version |-> FirstVersion, epoch |-> [t \in Tasks |-> 1]]
    /\ run = NoRun
    /\ spent = [c \in 1 .. MaxAttempts |-> None]

(* A budget-aware run begins: the estimates are calibrated once.           *)
StartRun ==
    /\ run.number < MaxRuns
    /\ run' = [number |-> run.number + 1, used |-> 0, accounted |-> {},
               declared |-> [t \in Tasks |-> CalibrateEstimate(ledger, t)]]
    /\ UNCHANGED <<attempts, ledger, graph, spent>>

(* A dispatched task is charged its declared estimate before it runs.      *)
Dispatch(t, a) ==
    /\ run.number > 0
    /\ Len(attempts) < MaxAttempts
    /\ \A c \in DOMAIN attempts : attempts[c].task = t => attempts[c].state # "running"
    /\ attempts' = Append(attempts,
           [task |-> t, agent |-> a, epoch |-> graph.epoch[t], version |-> graph.version, live |-> None,
            number |-> 1 + Cardinality({c \in DOMAIN attempts : attempts[c].task = t}),
            state |-> "running", reads |-> ReadsOf[t], declared |-> run.declared[t]])
    /\ run' = [run EXCEPT !.used = @ + run.declared[t]]
    /\ UNCHANGED <<ledger, graph, spent>>

(* The sync path records each executor's return; the async path may reach  *)
(* account_measured_usage twice for one claim (the verification and the    *)
(* worker-failure handler) and drops the second.                           *)
Measure(c, amount) ==
    /\ spent' = [spent EXCEPT ![c] = IF @ = None THEN amount ELSE @]
    /\ IF c \in run.accounted THEN UNCHANGED <<ledger, run>>
       ELSE /\ ledger' = RecordMeasuredAttempt(ledger, c, attempts[c].declared, amount)
            /\ run' = [run EXCEPT !.accounted = @ \cup {c}]
    /\ UNCHANGED <<attempts, graph>>

(* The attempt ends; a terminal event is stamped with the live version.    *)
EndAttempt(c, state) ==
    /\ attempts[c].state = "running"
    /\ attempts' = [attempts EXCEPT ![c].state = state, ![c].live = graph.version]
    /\ UNCHANGED <<ledger, graph, run, spent>>

(* The graph moves on, with or without a new epoch of one task.            *)
MoveGraph(bumped) ==
    /\ graph.version < MaxVersion
    /\ \A t \in bumped : graph.epoch[t] < MaxEpoch[t]
    /\ graph' = [version |-> graph.version + 1,
                 epoch |-> [t \in Tasks |-> graph.epoch[t] + IF t \in bumped THEN 1 ELSE 0]]
    /\ UNCHANGED <<attempts, ledger, run, spent>>

(* The ledger's public operations, applied by its owner: an estimate, a    *)
(* reservation, and finish (commit, fail, mark_stale, cancel), which needs *)
(* an explicit or an existing measurement.                                 *)
EstimateUsage(c) ==
    /\ ledger' \in RecordEstimate(ledger, c, attempts[c].declared)
    /\ UNCHANGED <<attempts, graph, run, spent>>

ReserveUsage(c) ==
    /\ \E r \in ledger[c] : \E n \in Transition(r, "reserved", attempts[c].declared, None) :
           ledger' = [ledger EXCEPT ![c] = {n}]
    /\ UNCHANGED <<attempts, graph, run, spent>>

FinishUsage(c, outcome, amount) ==
    /\ \E r \in ledger[c] :
          /\ amount = None => r.measured # None
          /\ \E n \in Transition(r, outcome, None, amount) :
                 /\ ledger' = [ledger EXCEPT ![c] = {n}]
                 /\ spent' = [spent EXCEPT ![c] = n.measured]
    /\ UNCHANGED <<attempts, graph, run>>

Next ==
    \/ StartRun
    \/ \E t \in Tasks, a \in Agents : Dispatch(t, a)
    \/ \E c \in DOMAIN attempts :
          \/ \E amount \in Amounts : Measure(c, amount)
          \/ \E state \in Ends : EndAttempt(c, state)
    \/ \E c \in Owned \cap DOMAIN attempts :
          \/ EstimateUsage(c)
          \/ ReserveUsage(c)
          \/ \E outcome \in Outcome, amount \in Amounts \cup {None} : FinishUsage(c, outcome, amount)
    \/ \E bumped \in {{}} \cup {{t} : t \in Tasks} : MoveGraph(bumped)

Spec == Init /\ [][Next]_vars

-----------------------------------------------------------------------------
(***************************************************************************)
(* Every cost is counted once and nothing is invented                      *)
(* (UsageLedger.aggregate, _AttemptBuckets, calibrate_estimate): the       *)
(* measured total is the sum of each attempt's first report however often  *)
(* it was reported, and splits into the outcome buckets and what is still  *)
(* open; the three waste buckets are disjoint, none holds a verified       *)
(* attempt, and together they cost no more than the total; a calibrated    *)
(* estimate stays within a quarter and four times the declared one, and a  *)
(* blended rate is a rate; and an agent's re-reads are the reads that add  *)
(* no resource version it had not read before.                             *)
(***************************************************************************)
CostsAreCountedOnce ==
    LET sum == Aggregate(ledger)
        wastes == <<Premature, Rework, Repeated>>
        cost(S) == Max({SumMeasured(S), 0}) IN
    /\ sum.measured = Total({c \in 1 .. Len(attempts) : Measured(ledger, c) # None},
                            LAMBDA c : spent[c])
    /\ sum.measured = sum.committed + sum.failed + sum.stale + sum.cancelled + Bucket(ledger, {"measured"})
    /\ \A i, j \in 1 .. 3 : i # j => wastes[i] \cap wastes[j] = {}
    /\ \A c \in Premature \cup Rework \cup Repeated \cup WrongDirection : attempts[c].state # "verified"
    /\ cost(Premature) + cost(Rework) + cost(Repeated) <= sum.measured
    /\ \A t \in Tasks :
          /\ 4 * CalibrateEstimate(ledger, t) + 3 >= Estimate[t]
          /\ CalibrateEstimate(ledger, t) <= 4 * Estimate[t]
          /\ (\A c \in Records(ledger) : attempts[c].task # t) => CalibrateEstimate(ledger, t) = Estimate[t]
          /\ Outcomes(t).churned = 0 => CalibratedStability(t, 10000) = 10000
          /\ CalibratedSuccess(t, 5000) \in 0 .. 10000
    /\ Total(Tasks, LAMBDA t : Rereads(t))
         = Total(DOMAIN attempts, LAMBDA c : Cardinality(attempts[c].reads))
             - Total(Agents, LAMBDA a : Cardinality(UNION {attempts[c].reads :
                       c \in {d \in DOMAIN attempts : attempts[d].agent = a}}))
=============================================================================
