------------------------ MODULE KernelActionsProofs ------------------------
(***************************************************************************)
(* Proofs about KernelActions, for any sets of actions, kernels and        *)
(* resources and any number of crashes.                                    *)
(***************************************************************************)
EXTENDS KernelActions, TLAPS

-----------------------------------------------------------------------------
(* The inductive invariant.                                                *)

Started == {"running"} \cup Terminal

\* Only the coroutine that has the loop is between two awaits.
LoopInv ==
    /\ \A a \in Actions : client[a] \notin {"new", "done"} => active = a
    /\ \A w \in Workers : worker[w].pc \notin Awaiting \cup {"idle"} => active = w
    /\ pend # {} => active # Nobody

\* An owed projection write is that of the coroutine that has the loop; it
\* agrees with the journal, and the action it is for was not terminal.
PendInv ==
    \A p \in pend :
        /\ \/ p[1] = active
           \/ active \in Workers /\ p[1] = worker[active].cur
        /\ acb[p[1]].state \notin Terminal
        /\ p[2].state = rep[p[1]].state
        /\ p[2].state = "admitted" => acb[p[1]].state \in {"submitted", "admitted"}
        /\ p[2].state # "absent"
        /\ p[2].claim = rep[p[1]].claim
        /\ p[2].side = rep[p[1]].side
        /\ p[2].policy = rep[p[1]].policy
        /\ p[2].retry_count = rep[p[1]].retry_count

\* The projection and the journal agree on what never changes and on
\* terminal states.
RowAgrees(a) ==
    /\ acb[a].state # "absent" =>
         /\ rep[a].claim = acb[a].claim
         /\ rep[a].side = acb[a].side
         /\ rep[a].policy = acb[a].policy
         /\ rep[a].retry_count = acb[a].retry_count
         /\ rep[a].state # "absent"
    /\ acb[a].state \in Terminal => rep[a].state = acb[a].state
    /\ rep[a].state = "committed" => acb[a].state = "committed"
    /\ client[a] = "new" => acb[a].state = "absent" /\ rep[a].state = "absent"

\* The counted driver calls fit the state.
RowCalls(a) ==
    /\ calls[a] <= 1
    /\ calls[a] >= 1 => acb[a].state \in Started /\ rep[a].state \in Started
    /\ recalls[a] <= 1
    /\ recalls[a] >= 1 => /\ acb[a].state # "absent"
                          /\ acb[a].side = "pure"
                          /\ acb[a].policy = "retry"
                          /\ acb[a].retry_count >= 1

\* No action was granted a token its resource has not issued.
RowGrants(a) ==
    /\ acb[a].state = "absent" => grant[a] = 0
    /\ acb[a].claim = NoResource => grant[a] = 0
    /\ acb[a].claim # NoResource => grant[a] <= last_token[acb[a].claim]

RowInv(a) == RowAgrees(a) /\ RowCalls(a) /\ RowGrants(a)

\* Where the submit or cancel call of an action is tells its state.
ClientInv(a) ==
    /\ client[a] = "acquire" =>
         /\ pend = {} => acb[a].state = "submitted"
         /\ \A p \in pend : p[2].state = "submitted"
    /\ client[a] = "admit" => pend = {} /\ acb[a].state = "submitted"
    /\ client[a] = "intent" =>
         /\ pend = {} => acb[a].state = "admitted" /\ rep[a].state = "admitted"
         /\ \A p \in pend : p[2].state = "admitted"
    /\ client[a] = "compensate" =>
         pend = {} /\ acb[a].state \in {"submitted", "admitted"}

\* Where the tick of a kernel is tells the state of the action at hand.
WorkerInv(w) ==
    LET a == worker[w].cur IN
    /\ worker[w].pc \notin {"idle", "loop"} => a \in Actions
    /\ worker[w].pc = "handle" => pend = {}
    /\ worker[w].pc = "call" =>
         /\ calls[a] = 0
         /\ rep[a].state = "running"
         /\ pend = {} => Running(a)
    /\ worker[w].pc = "recall" =>
         /\ pend = {}
         /\ acb[a].state # "absent"
         /\ recalls[a] = 0
         /\ acb[a].side = "pure"
         /\ acb[a].policy = "retry"
         /\ acb[a].retry_count >= 1
    /\ worker[w].pc = "release" =>
         /\ pend = {} => ~Running(a)
         /\ pend = {} /\ worker[w].sig # "none" =>
              /\ acb[a].state \in Terminal
              /\ worker[w].sig = SignalOf(acb[a].state)
              /\ sent[a] = <<>>
         /\ \A p \in pend : p[2].state = "failed" /\ worker[w].sig = "ACTION_FAILED"
    /\ worker[w].pc = "signal" =>
         /\ pend = {}
         /\ acb[a].state \in Terminal
         /\ worker[w].sig = SignalOf(acb[a].state)
         /\ sent[a] = <<>>

ActionInv ==
    /\ TypeOK
    /\ LoopInv
    /\ PendInv
    /\ \A a \in Actions : RowInv(a) /\ ClientInv(a)
    /\ OneTruthfulSignal
    /\ \A w \in Workers : WorkerInv(w)

-----------------------------------------------------------------------------
(* Facts the steps share.                                                  *)

LEMMA InvType == ActionInv => TypeOK
    BY Zenon DEF ActionInv
LEMMA InvLoop == ActionInv => LoopInv
    BY Zenon DEF ActionInv
LEMMA InvPend == ActionInv => PendInv
    BY Zenon DEF ActionInv
LEMMA InvRow == ActionInv => \A a \in Actions : RowInv(a)
    BY Zenon DEF ActionInv
LEMMA InvClient == ActionInv => \A a \in Actions : ClientInv(a)
    BY Zenon DEF ActionInv
LEMMA InvSignal == ActionInv => OneTruthfulSignal
    BY Zenon DEF ActionInv
LEMMA InvWorker == ActionInv => \A w \in Workers : WorkerInv(w)
    BY Zenon DEF ActionInv

\* A row nobody writes keeps its part of the invariant.
LEMMA RowFrame ==
    ASSUME NEW b \in Actions, RowInv(b), acb'[b] = acb[b], rep'[b] = rep[b],
           grant'[b] = grant[b], last_token' = last_token, calls'[b] = calls[b],
           recalls'[b] = recalls[b], client'[b] = "new" => client[b] = "new"
    PROVE  RowInv(b)'
    BY Zenon DEF RowInv, RowAgrees, RowCalls, RowGrants

\* While a submit or cancel call has the loop every kernel waits or is idle.
LEMMA ClientAlone ==
    ASSUME ActionInv, NEW a \in Actions, active = a
    PROVE  /\ \A w \in Workers : worker[w].pc \in Awaiting \cup {"idle"}
           /\ \A b \in Actions : b # a => client[b] \in {"new", "done"}
    BY KernelConstants, InvLoop, InvType, Zenon DEF LoopInv, TypeOK

\* While a kernel has the loop the others wait or are idle, and no call runs.
LEMMA WorkerAlone ==
    ASSUME ActionInv, NEW w \in Workers, active = w
    PROVE  /\ \A v \in Workers : v # w => worker[v].pc \in Awaiting \cup {"idle"}
           /\ \A b \in Actions : client[b] \in {"new", "done"}
    BY KernelConstants, InvLoop, InvType, Zenon DEF LoopInv, TypeOK

\* When nobody has the loop nothing is owed and nobody is between two awaits.
LEMMA NobodyAlone ==
    ASSUME ActionInv, active = Nobody
    PROVE  /\ pend = {}
           /\ \A v \in Workers : worker[v].pc \in Awaiting \cup {"idle"}
           /\ \A b \in Actions : client[b] \in {"new", "done"}
    BY KernelConstants, InvLoop, InvType, Zenon DEF LoopInv, TypeOK

LEMMA ActionInit == Init => ActionInv
    BY KernelConstants, SMTT(30) DEF Init, ActionInv, TypeOK, LoopInv, PendInv, RowInv,
       RowAgrees, RowCalls, RowGrants, ClientInv,
       WorkerInv, OneTruthfulSignal, IdleWorker, Absent, ActionControlBlock, ActionState,
       WorkerRecord, WorkerPcs, Signals, ClientPc, Awaiting, Terminal, Started,
       SideEffectClass, RecoveryPolicy

-----------------------------------------------------------------------------
(* What a step keeps when it is taken by one coroutine.                    *)

FencedStep == TerminalIsFinal /\ CommitsUnderNewestLease /\ RunningKeepsLease

\* A kernel that waits keeps its part of the invariant whatever others do.
LEMMA WaitingWorker ==
    ASSUME ActionInv, NEW v \in Workers, worker[v].pc \in Awaiting \cup {"idle"},
           worker'[v] = worker[v]
    PROVE  WorkerInv(v)'
    BY InvWorker, Zenon DEF WorkerInv, Awaiting

\* A call that is not running says nothing about its action.
LEMMA QuietClient ==
    ASSUME NEW b \in Actions, client'[b] \in {"new", "done", "finish", "cancel", "unlease"}
    PROVE  ClientInv(b)'
    BY Zenon DEF ClientInv

\* A step of the submit or cancel call of a.
LEMMA ClientFrame ==
    ASSUME ActionInv, NEW a \in Actions, active = a,
           NEW to \in ClientPc \ {"new"},
           client' = [client EXCEPT ![a] = to],
           worker' = worker,
           \/ active' = a
           \/ active' = Nobody /\ to = "done" /\ pend' = {}
    PROVE  /\ LoopInv'
           /\ client' \in [Actions -> ClientPc]
           /\ \A v \in Workers : WorkerInv(v)'
           /\ \A b \in Actions : b # a => ClientInv(b)'
           /\ client'[a] = to
           /\ \A b \in Actions : client'[b] = "new" => client[b] = "new"
<1>1. /\ \A v \in Workers : worker[v].pc \in Awaiting \cup {"idle"}
      /\ \A b \in Actions : b # a => client[b] \in {"new", "done"}
  BY ClientAlone, Zenon
<1>2. client \in [Actions -> ClientPc]
  BY InvType, Zenon DEF TypeOK
<1>3. \A b \in Actions : b # a => client'[b] \in {"new", "done"}
  BY <1>1, <1>2, Zenon
<1>4. \A b \in Actions : b # a => ClientInv(b)'
  BY <1>3, QuietClient, Zenon
<1>5. \A v \in Workers : WorkerInv(v)'
  BY <1>1, WaitingWorker, Zenon
<1>6. LoopInv'
  BY <1>1, <1>2, <1>3, KernelConstants, Zenon DEF LoopInv
<1>7. QED
  BY <1>2, <1>4, <1>5, <1>6, Zenon

\* A step of the tick of w.
LEMMA WorkerFrame ==
    ASSUME ActionInv, NEW w \in Workers, NEW r \in WorkerRecord,
           \/ active = w
           \/ active = Nobody,
           worker' = [worker EXCEPT ![w] = r],
           client' = client,
           \/ active' = w
           \/ active' = Nobody /\ pend' = {} /\ r.pc \in Awaiting \cup {"idle"}
    PROVE  /\ LoopInv'
           /\ worker' \in [Workers -> WorkerRecord]
           /\ worker'[w] = r
           /\ \A v \in Workers : v # w => WorkerInv(v)'
           /\ \A b \in Actions : ClientInv(b)'
<1>1. /\ \A v \in Workers : v # w => worker[v].pc \in Awaiting \cup {"idle"}
      /\ \A b \in Actions : client[b] \in {"new", "done"}
  BY WorkerAlone, NobodyAlone, Zenon
<1>2. worker \in [Workers -> WorkerRecord]
  BY InvType, Zenon DEF TypeOK
<1>3. \A v \in Workers : v # w => worker'[v] = worker[v]
  BY <1>2, Zenon
<1>4. \A v \in Workers : v # w => WorkerInv(v)'
  BY <1>1, <1>3, WaitingWorker, Zenon
<1>5. \A b \in Actions : ClientInv(b)'
  BY <1>1, QuietClient, Zenon
<1>6. worker'[w] = r /\ worker' \in [Workers -> WorkerRecord]
  BY <1>2, Zenon
<1>7. LoopInv'
  BY <1>1, <1>2, <1>3, <1>6, KernelConstants, Zenon DEF LoopInv
<1>8. QED
  BY <1>4, <1>5, <1>6, <1>7, Zenon

\* A step that writes neither the journal nor the projection and counts
\* neither a call nor a signal.
LEMMA RowsKept ==
    ASSUME ActionInv, acb' = acb, rep' = rep, grant' = grant, last_token' = last_token,
           calls' = calls, recalls' = recalls, sent' = sent,
           \A b \in Actions : client'[b] = "new" => client[b] = "new"
    PROVE  /\ \A b \in Actions : RowInv(b)'
           /\ OneTruthfulSignal'
           /\ TerminalIsFinal
           /\ CommitsUnderNewestLease
<1>1. \A b \in Actions : RowInv(b)'
  BY InvRow, RowFrame, Zenon
<1>2. QED
  BY <1>1, InvSignal, Zenon DEF OneTruthfulSignal, TerminalIsFinal, CommitsUnderNewestLease

\* append_event for a live action: only its journalled state changes, and the
\* projection write is owed.
LEMMA JournalKeeps ==
    ASSUME ActionInv, NEW a \in Actions, NEW state \in ActionState \ {"absent", "committed"},
           acb[a].state \notin Terminal \cup {"absent"},
           calls[a] >= 1 => state \in Started,
           Journal(a, state), grant' = grant, last_token' = last_token,
           calls' = calls, recalls' = recalls, sent' = sent,
           \A b \in Actions : client'[b] = "new" => client[b] = "new",
           client[a] # "new" 
    PROVE  /\ \A b \in Actions : RowInv(b)'
           /\ OneTruthfulSignal'
           /\ TerminalIsFinal
           /\ CommitsUnderNewestLease
           /\ acb' = acb
           /\ rep' \in [Actions -> ActionControlBlock]
           /\ rep'[a].state = state
           /\ pend' \in SUBSET (Actions \X ActionControlBlock)
           /\ pend' # {}
           /\ \A p \in pend' :
                /\ p[1] = a
                /\ acb[a].state \notin Terminal
                /\ p[2].state = state
                /\ p[2].state = rep'[a].state
                /\ p[2].state # "absent"
                /\ p[2].claim = rep'[a].claim
                /\ p[2].side = rep'[a].side
                /\ p[2].policy = rep'[a].policy
                /\ p[2].retry_count = rep'[a].retry_count
<1>1. /\ acb \in [Actions -> ActionControlBlock]
      /\ rep \in [Actions -> ActionControlBlock]
      /\ RowInv(a)
  BY InvType, InvRow, Zenon DEF TypeOK
<1>2. At(a, state) \in ActionControlBlock
  BY <1>1, Zenon DEF At, ActionControlBlock
<1>3. /\ acb' = acb
      /\ rep' = [rep EXCEPT ![a].state = state]
      /\ pend' = {<<a, At(a, state)>>}
  BY Zenon DEF Journal
<1>4. rep' \in [Actions -> ActionControlBlock]
  BY <1>1, <1>3, Zenon DEF ActionControlBlock
<1>5. /\ rep'[a].state = state
      /\ rep'[a].claim = rep[a].claim
      /\ rep'[a].side = rep[a].side
      /\ rep'[a].policy = rep[a].policy
      /\ rep'[a].retry_count = rep[a].retry_count
      /\ \A b \in Actions : b # a => rep'[b] = rep[b]
  BY <1>1, <1>3, Zenon DEF ActionControlBlock
<1>6. /\ At(a, state).state = state
      /\ At(a, state).claim = acb[a].claim
      /\ At(a, state).side = acb[a].side
      /\ At(a, state).policy = acb[a].policy
      /\ At(a, state).retry_count = acb[a].retry_count
  BY <1>1, Zenon DEF At, ActionControlBlock
<1>7. \A b \in Actions : RowInv(b)'
  <2>1. RowInv(a)'
    BY <1>1, <1>3, <1>5, Zenon DEF RowInv, RowAgrees, RowCalls, RowGrants
  <2>2. ASSUME NEW b \in Actions, b # a PROVE RowInv(b)'
    BY <2>2, <1>3, <1>5, InvRow, RowFrame, Zenon
  <2>3. QED
    BY <2>1, <2>2, Zenon
<1>8. OneTruthfulSignal' /\ TerminalIsFinal /\ CommitsUnderNewestLease
  BY <1>3, InvSignal, Zenon DEF OneTruthfulSignal, TerminalIsFinal, CommitsUnderNewestLease
<1>9. QED
  BY <1>1, <1>2, <1>3, <1>4, <1>5, <1>6, <1>7, <1>8, SMTT(30) DEF RowInv, RowAgrees

LEMMA SubmitInv ==
    ASSUME ActionInv, NEW a \in Actions, NEW claim \in Resources \cup {NoResource},
           NEW side \in Classes, NEW policy \in Policies, Submit(a, claim, side, policy)
    PROVE  ActionInv' /\ FencedStep
<1> DEFINE new == [state |-> "submitted", claim |-> claim, side |-> side,
                   policy |-> policy, retry_count |-> 0, token |-> 0]
<1>1. /\ rep' = [rep EXCEPT ![a] = new]
      /\ pend' = {<<a, new>>}
      /\ acb' = acb
      /\ active' = a
      /\ client' = [client EXCEPT ![a] = "acquire"]
      /\ UNCHANGED <<rows, grant, last_token, worker, calls, recalls, sent, crashes>>
      /\ active = Nobody
      /\ client[a] = "new"
  BY Zenon DEF Submit, LoopFree, leases, history
<1>2. new \in ActionControlBlock
  BY KernelConstants, Zenon DEF ActionControlBlock, ActionState
<1>3. TypeOK'
  BY <1>1, <1>2, InvType, SMTT(30) DEF TypeOK, ClientPc
<1>4. LoopInv'
  BY <1>1, NobodyAlone, KernelConstants, InvType, InvLoop, Zenon DEF TypeOK, LoopInv
<1>5. acb[a].state = "absent" /\ rep[a].state = "absent"
  BY <1>1, InvRow, Zenon DEF RowInv, RowAgrees
<1>6. PendInv'
  BY <1>1, <1>5, InvType, InvPend, SMTT(30) DEF TypeOK, PendInv, Terminal
<1>7. \A b \in Actions : RowInv(b)'
  <2>1. RowInv(a)'
    BY <1>1, <1>5, InvType, InvRow, Zenon DEF TypeOK, RowInv, RowAgrees, RowCalls, RowGrants, Terminal,
       Started
  <2>2. ASSUME NEW b \in Actions, b # a PROVE RowInv(b)'
    BY <1>1, <2>2, InvType, InvRow, RowFrame, Zenon DEF TypeOK
  <2>3. QED
    BY <2>1, <2>2, Zenon
<1>8. \A b \in Actions : ClientInv(b)'
  <2>1. \A b \in Actions : b # a => client'[b] \in {"new", "done"}
    BY <1>1, NobodyAlone, InvType, Zenon DEF TypeOK
  <2>2. client'[a] = "acquire" /\ pend' # {} /\ \A p \in pend' : p[2].state = "submitted"
    BY <1>1, InvType, SMTT(30) DEF TypeOK
  <2>3. QED
    BY <2>1, <2>2, Zenon DEF ClientInv
<1>9. OneTruthfulSignal'
  BY <1>1, InvType, InvSignal, Zenon DEF TypeOK, OneTruthfulSignal
<1>10. \A w \in Workers : WorkerInv(w)'
  BY <1>1, NobodyAlone, WaitingWorker, Zenon
<1>11. FencedStep
  BY <1>1, Zenon DEF FencedStep, TerminalIsFinal, CommitsUnderNewestLease, RunningKeepsLease
<1>12. QED
  BY <1>3, <1>4, <1>6, <1>7, <1>8, <1>9, <1>10, <1>11, Zenon DEF ActionInv

\* What a step Client(a, from, to) has in common.
LEMMA ClientFacts ==
    ASSUME ActionInv, NEW a \in Actions, NEW from, NEW to, Client(a, from, to)
    PROVE  /\ client[a] = from
           /\ active = a
           /\ pend = {}
           /\ client' = [client EXCEPT ![a] = to]
           /\ UNCHANGED <<worker, calls, recalls, sent, crashes>>
           /\ RowInv(a)
           /\ ClientInv(a)
    BY Zenon DEF Client, HasLoop, history, ActionInv

\* A step of a call that leaves the loop's owner and the tables alone.
LEMMA ClientQuiet ==
    ASSUME ActionInv, NEW a \in Actions, NEW from, NEW to \in ClientPc \ {"new"},
           Client(a, from, to), UNCHANGED <<tables, grant, last_token, active>>,
           rows' \in [Actions -> {"none", "live", "expired"}],
           ClientInv(a)'
    PROVE  ActionInv' /\ FencedStep
<1>1. /\ client[a] = from
      /\ active = a
      /\ pend = {}
      /\ client' = [client EXCEPT ![a] = to]
      /\ UNCHANGED <<worker, calls, recalls, sent, crashes>>
  BY ClientFacts, Zenon
<1>2. UNCHANGED <<acb, rep, pend, grant, last_token, active>>
  BY Zenon DEF tables
<1>3. /\ LoopInv'
      /\ client' \in [Actions -> ClientPc]
      /\ \A v \in Workers : WorkerInv(v)'
      /\ \A b \in Actions : b # a => ClientInv(b)'
      /\ \A b \in Actions : client'[b] = "new" => client[b] = "new"
  BY <1>1, <1>2, ClientFrame, Zenon
<1>4. TypeOK'
  BY <1>1, <1>2, <1>3, InvType, Zenon DEF TypeOK
<1>5. PendInv'
  BY <1>1, <1>2, Zenon DEF PendInv
<1>6. /\ \A b \in Actions : RowInv(b)'
      /\ OneTruthfulSignal'
      /\ TerminalIsFinal
      /\ CommitsUnderNewestLease
  BY <1>1, <1>2, <1>3, RowsKept, Zenon
<1>7. RunningKeepsLease
  BY <1>1, KernelConstants, Zenon DEF RunningKeepsLease
<1>8. QED
  BY <1>3, <1>4, <1>5, <1>6, <1>7, Zenon DEF ActionInv, FencedStep

\* A step of a call that journals a new state of its action.
LEMMA ClientJournals ==
    ASSUME ActionInv, NEW a \in Actions, NEW from, NEW to \in ClientPc \ {"new"},
           NEW state \in {"admitted", "failed"},
           Client(a, from, to), Journal(a, state), UNCHANGED <<leases, active>>,
           acb[a].state \in {"submitted", "admitted"}, client[a] # "new",
           state = "admitted" \/ to \in {"finish", "unlease"},
           to \in {"finish", "unlease", "intent"}
    PROVE  ActionInv' /\ FencedStep
<1>1. /\ client[a] = from
      /\ active = a
      /\ client' = [client EXCEPT ![a] = to]
      /\ UNCHANGED <<worker, calls, recalls, sent, crashes>>
      /\ RowInv(a)
  BY ClientFacts, Zenon
<1>2. UNCHANGED <<rows, grant, last_token, active>>
  BY Zenon DEF leases
<1>3. /\ LoopInv'
      /\ client' \in [Actions -> ClientPc]
      /\ \A v \in Workers : WorkerInv(v)'
      /\ \A b \in Actions : b # a => ClientInv(b)'
      /\ client'[a] = to
      /\ \A b \in Actions : client'[b] = "new" => client[b] = "new"
  BY <1>1, <1>2, ClientFrame, Zenon
<1>4. /\ state \in ActionState \ {"absent", "committed"}
      /\ acb[a].state \notin Terminal \cup {"absent"}
      /\ calls[a] >= 1 => state \in Started
  BY <1>1, Zenon DEF RowInv, RowCalls, ActionState, Terminal, Started
<1>5. /\ \A b \in Actions : RowInv(b)'
      /\ OneTruthfulSignal'
      /\ TerminalIsFinal
      /\ CommitsUnderNewestLease
      /\ acb' = acb
      /\ rep' \in [Actions -> ActionControlBlock]
      /\ pend' \in SUBSET (Actions \X ActionControlBlock)
      /\ pend' # {}
      /\ \A p \in pend' :
           /\ p[1] = a
           /\ acb[a].state \notin Terminal
           /\ p[2].state = state
           /\ p[2].state = rep'[a].state
           /\ p[2].state # "absent"
           /\ p[2].claim = rep'[a].claim
           /\ p[2].side = rep'[a].side
           /\ p[2].policy = rep'[a].policy
           /\ p[2].retry_count = rep'[a].retry_count
  BY <1>1, <1>2, <1>3, <1>4, JournalKeeps, SMTT(30)
<1>6. TypeOK'
  BY <1>1, <1>2, <1>3, <1>5, InvType, Zenon DEF TypeOK
<1>7. PendInv'
  BY <1>1, <1>2, <1>5, Zenon DEF PendInv
<1>8. ClientInv(a)'
  BY <1>3, <1>5, Zenon DEF ClientInv
<1>9. RunningKeepsLease
  BY <1>2, InvType, Zenon DEF TypeOK, RunningKeepsLease
<1>10. QED
  BY <1>3, <1>5, <1>6, <1>7, <1>8, <1>9, Zenon DEF ActionInv, FencedStep

LEMMA AcquireNothingInv ==
    ASSUME ActionInv, NEW a \in Actions, AcquireNothing(a)
    PROVE  ActionInv' /\ FencedStep
<1>1. ClientInv(a)'
  BY ClientFacts, InvClient, InvType, SMTT(30) DEF AcquireNothing, ClientInv, TypeOK, tables
<1>2. QED
  BY <1>1, ClientQuiet, InvType, Zenon DEF AcquireNothing, leases, ClientPc, TypeOK

LEMMA AcquireFailsInv ==
    ASSUME ActionInv, NEW a \in Actions, AcquireFails(a)
    PROVE  ActionInv' /\ FencedStep
<1>1. client[a] = "acquire" /\ acb[a].state = "submitted"
  BY ClientFacts, Zenon DEF AcquireFails, ClientInv
<1>2. QED
  BY <1>1, ClientJournals, Zenon DEF AcquireFails, ClientPc

LEMMA AdmitInv ==
    ASSUME ActionInv, NEW a \in Actions, Admit(a)
    PROVE  ActionInv' /\ FencedStep
<1>1. client[a] = "admit" /\ acb[a].state = "submitted"
  BY ClientFacts, Zenon DEF Admit, ClientInv
<1>2. QED
  BY <1>1, ClientJournals, Zenon DEF Admit, ClientPc

LEMMA CompensateInv ==
    ASSUME ActionInv, NEW a \in Actions, Compensate(a)
    PROVE  ActionInv' /\ FencedStep
<1>1. /\ Client(a, "compensate", "unlease")
      /\ client[a] = "compensate"
      /\ acb[a].state \in {"submitted", "admitted"}
  BY ClientFacts, Zenon DEF Compensate, ClientInv
<1>2. CASE Journal(a, "failed")
  BY <1>1, <1>2, ClientJournals, Zenon DEF Compensate, ClientPc
<1>3. CASE UNCHANGED tables
  <2>1. ClientInv(a)'
    BY <1>1, QuietClient, InvType, Zenon DEF Client, TypeOK
  <2>2. QED
    BY <1>1, <1>3, <2>1, ClientQuiet, InvType, Zenon DEF Compensate, leases, ClientPc, TypeOK
<1>4. QED
  BY <1>2, <1>3, Zenon DEF Compensate

LEMMA ReleaseAfterCompensationInv ==
    ASSUME ActionInv, NEW a \in Actions, ReleaseAfterCompensation(a)
    PROVE  ActionInv' /\ FencedStep
<1>1. ClientInv(a)'
  BY QuietClient, InvType, Zenon DEF ReleaseAfterCompensation, Client, TypeOK
<1>2. rows' \in [Actions -> {"none", "live", "expired"}]
  BY InvType, Zenon DEF ReleaseAfterCompensation, Unleased, TypeOK
<1>3. QED
  BY <1>1, <1>2, ClientQuiet, Zenon DEF ReleaseAfterCompensation, ClientPc

LEMMA CancelReleasesInv ==
    ASSUME ActionInv, NEW a \in Actions, CancelReleases(a)
    PROVE  ActionInv' /\ FencedStep
<1>1. ClientInv(a)'
  BY QuietClient, InvType, Zenon DEF CancelReleases, Client, TypeOK
<1>2. rows' \in [Actions -> {"none", "live", "expired"}]
  BY InvType, Zenon DEF CancelReleases, Unleased, TypeOK
<1>3. QED
  BY <1>1, <1>2, ClientQuiet, Zenon DEF CancelReleases, ClientPc

LEMMA AcquireLeaseInv ==
    ASSUME ActionInv, NEW a \in Actions, AcquireLease(a)
    PROVE  ActionInv' /\ FencedStep
<1> DEFINE r == acb[a].claim
<1>1. /\ client[a] = "acquire"
      /\ active = a
      /\ pend = {}
      /\ client' = [client EXCEPT ![a] = "admit"]
      /\ UNCHANGED <<worker, calls, recalls, sent, crashes, acb, rep, pend, active>>
      /\ acb[a].state = "submitted"
      /\ r # NoResource
      /\ last_token' = [last_token EXCEPT ![r] = last_token[r] + 1]
      /\ grant' = [grant EXCEPT ![a] = last_token[r] + 1]
      /\ rows' = [rows EXCEPT ![a] = "live"]
  BY ClientFacts, Zenon DEF AcquireLease, ClientInv, tables
<1>2. r \in Resources
  BY <1>1, InvType, Zenon DEF TypeOK, ActionControlBlock
<1>3. /\ LoopInv'
      /\ client' \in [Actions -> ClientPc]
      /\ \A v \in Workers : WorkerInv(v)'
      /\ \A b \in Actions : b # a => ClientInv(b)'
      /\ client'[a] = "admit"
      /\ \A b \in Actions : client'[b] = "new" => client[b] = "new"
  BY <1>1, ClientFrame, Zenon DEF ClientPc
<1>4. TypeOK'
  <2>1. /\ last_token' \in [Resources -> Nat]
        /\ grant' \in [Actions -> Nat]
        /\ rows' \in [Actions -> {"none", "live", "expired"}]
    BY <1>1, <1>2, InvType, SMTT(30) DEF TypeOK
  <2>2. QED
    BY <1>1, <1>3, <2>1, InvType, Zenon DEF TypeOK
<1>5. PendInv'
  BY <1>1, Zenon DEF PendInv
<1>6. \A b \in Actions : RowInv(b)'
  <2>1. \A s \in Resources : last_token'[s] >= last_token[s]
    BY <1>1, <1>2, InvType, SMTT(30) DEF TypeOK
  <2>2. grant'[a] <= last_token'[r] /\ \A b \in Actions : b # a => grant'[b] = grant[b]
    BY <1>1, <1>2, InvType, SMTT(30) DEF TypeOK
  <2>3. ASSUME NEW b \in Actions
        PROVE  /\ acb[b].claim \in Resources \cup {NoResource}
               /\ acb[b].claim # NoResource => grant'[b] <= last_token'[acb[b].claim]
               /\ acb[b].claim = NoResource => grant'[b] = grant[b]
               /\ acb[b].state = "absent" => grant'[b] = grant[b]
    <3>1. RowInv(b) /\ acb[b].claim \in Resources \cup {NoResource}
      BY InvType, InvRow, Zenon DEF TypeOK, ActionControlBlock
    <3>2. /\ grant[b] \in Nat
          /\ \A s \in Resources : last_token[s] \in Nat /\ last_token'[s] \in Nat
      BY <1>4, InvType, Zenon DEF TypeOK
    <3>3. QED
      BY <1>1, <2>1, <2>2, <3>1, <3>2, SMTT(30) DEF RowInv, RowGrants
  <2>4. QED
    <3>1. ASSUME NEW b \in Actions PROVE RowInv(b)'
      <4>1. RowInv(b)
        BY InvRow, Zenon
      <4>2. RowAgrees(b)' /\ RowCalls(b)'
        BY <1>1, <1>3, <4>1, Zenon DEF RowInv, RowAgrees, RowCalls
      <4>3. RowGrants(b)'
        BY <1>1, <2>3, <4>1, Zenon DEF RowInv, RowGrants
      <4>4. QED
        BY <4>2, <4>3, Zenon DEF RowInv
    <3>2. QED
      BY <3>1, Zenon
<1>7. ClientInv(a)'
  BY <1>1, <1>3, Zenon DEF ClientInv
<1>8. OneTruthfulSignal' /\ FencedStep
  BY <1>1, InvType, InvSignal, Zenon DEF TypeOK, OneTruthfulSignal, FencedStep, TerminalIsFinal,
     CommitsUnderNewestLease, RunningKeepsLease
<1>9. QED
  BY <1>3, <1>4, <1>5, <1>6, <1>7, <1>8, Zenon DEF ActionInv

LEMMA MarkIntentDurableInv ==
    ASSUME ActionInv, NEW a \in Actions, MarkIntentDurable(a)
    PROVE  ActionInv' /\ FencedStep
<1> DEFINE new == [acb[a] EXCEPT !.token = grant[a]]
<1>1. /\ client[a] = "intent"
      /\ active = a
      /\ client' = [client EXCEPT ![a] = "finish"]
      /\ UNCHANGED <<worker, calls, recalls, sent, crashes, acb, active, rows, grant, last_token>>
      /\ acb[a].state = "admitted"
      /\ rep[a].state = "admitted"
      /\ rep' = [rep EXCEPT ![a].token = grant[a]]
      /\ pend' = {<<a, new>>}
      /\ RowInv(a)
  BY ClientFacts, Zenon DEF MarkIntentDurable, ClientInv, leases
<1>2. new \in ActionControlBlock /\ rep' \in [Actions -> ActionControlBlock]
  <2>1. /\ acb[a] \in ActionControlBlock
        /\ rep \in [Actions -> ActionControlBlock]
        /\ grant[a] \in Nat
    BY InvType, Zenon DEF TypeOK
  <2>2. new \in ActionControlBlock
    BY <2>1, Zenon DEF ActionControlBlock
  <2>3. rep' \in [Actions -> ActionControlBlock]
    BY <1>1, <2>1, Zenon DEF ActionControlBlock
  <2>4. QED
    BY <2>2, <2>3, Zenon
<1>3. /\ LoopInv'
      /\ client' \in [Actions -> ClientPc]
      /\ \A v \in Workers : WorkerInv(v)'
      /\ \A b \in Actions : b # a => ClientInv(b)'
      /\ client'[a] = "finish"
      /\ \A b \in Actions : client'[b] = "new" => client[b] = "new"
  BY <1>1, ClientFrame, Zenon DEF ClientPc
<1>4. /\ \A b \in Actions : /\ rep'[b].state = rep[b].state
                            /\ rep'[b].claim = rep[b].claim
                            /\ rep'[b].side = rep[b].side
                            /\ rep'[b].policy = rep[b].policy
                            /\ rep'[b].retry_count = rep[b].retry_count
      /\ new.state = acb[a].state
      /\ new.claim = acb[a].claim
      /\ new.side = acb[a].side
      /\ new.policy = acb[a].policy
      /\ new.retry_count = acb[a].retry_count
  <2>1. acb[a] \in ActionControlBlock /\ rep \in [Actions -> ActionControlBlock]
    BY InvType, Zenon DEF TypeOK
  <2>2. QED
    BY <1>1, <2>1, Zenon DEF ActionControlBlock
<1> HIDE DEF new
<1>5. TypeOK'
  BY <1>1, <1>2, <1>3, InvType, SMTT(30) DEF TypeOK
<1>6. \A b \in Actions : RowInv(b)'
  <2>1. ASSUME NEW b \in Actions PROVE RowInv(b)'
    <3>1. RowInv(b)
      BY InvRow, Zenon
    <3>2. RowAgrees(b)'
      BY <1>1, <1>3, <1>4, <3>1, Zenon DEF RowInv, RowAgrees
    <3>3. RowCalls(b)' /\ RowGrants(b)'
      BY <1>1, <1>4, <3>1, Zenon DEF RowInv, RowCalls, RowGrants
    <3>4. QED
      BY <3>2, <3>3, Zenon DEF RowInv
  <2>2. QED
    BY <2>1, Zenon
<1>7. PendInv'
  <2>1. \A p \in pend' : p[1] = a /\ p[2] = new
    BY <1>1, SMTT(30)
  <2>2. QED
    BY <1>1, <1>4, <2>1, SMTT(30) DEF PendInv, RowInv, RowAgrees, Terminal
<1>8. ClientInv(a)'
  BY <1>3, QuietClient, Zenon
<1>9. OneTruthfulSignal' /\ FencedStep
  BY <1>1, InvType, InvSignal, Zenon DEF TypeOK, OneTruthfulSignal, FencedStep, TerminalIsFinal,
     CommitsUnderNewestLease, RunningKeepsLease
<1>10. QED
  BY <1>3, <1>5, <1>6, <1>7, <1>8, <1>9, Zenon DEF ActionInv

LEMMA AdmissionRaisesInv ==
    ASSUME ActionInv, NEW a \in Actions, AdmissionRaises(a)
    PROVE  ActionInv' /\ FencedStep
<1>1. CASE /\ client[a] \in {"admit", "intent"}
           /\ Client(a, client[a], "compensate")
           /\ UNCHANGED <<tables, leases, active>>
  <2>1. ClientInv(a)'
    BY <1>1, ClientFacts, InvClient, InvType, SMTT(30) DEF ClientInv, TypeOK, tables
  <2>2. QED
    BY <1>1, <2>1, ClientQuiet, InvType, Zenon DEF leases, ClientPc, TypeOK
<1>2. CASE /\ active = a
           /\ client[a] \in {"intent", "finish"}
           /\ \E p \in pend : p[2].state = "admitted"
           /\ pend' = {}
           /\ client' = [client EXCEPT ![a] = "compensate"]
           /\ UNCHANGED <<acb, rep, leases, active, worker, history>>
  <2>1. UNCHANGED <<acb, rep, rows, grant, last_token, active, worker, calls, recalls,
                    sent, crashes>>
    BY <1>2, Zenon DEF leases, history
  <2>2. acb[a].state \in {"submitted", "admitted"}
    BY <1>2, KernelConstants, InvPend, InvType, Zenon DEF PendInv, TypeOK
  <2>3. /\ LoopInv'
        /\ client' \in [Actions -> ClientPc]
        /\ \A v \in Workers : WorkerInv(v)'
        /\ \A b \in Actions : b # a => ClientInv(b)'
        /\ client'[a] = "compensate"
        /\ \A b \in Actions : client'[b] = "new" => client[b] = "new"
    BY <1>2, <2>1, ClientFrame, Zenon DEF ClientPc
  <2>4. TypeOK' /\ PendInv'
    BY <1>2, <2>1, <2>3, InvType, InvPend, Zenon DEF TypeOK, PendInv
  <2>5. ClientInv(a)'
    BY <1>2, <2>1, <2>2, <2>3, Zenon DEF ClientInv
  <2>6. /\ \A b \in Actions : RowInv(b)'
        /\ OneTruthfulSignal'
        /\ TerminalIsFinal
        /\ CommitsUnderNewestLease
    BY <2>1, <2>3, RowsKept, Zenon
  <2>7. RunningKeepsLease
    BY <2>1, Zenon DEF RunningKeepsLease
  <2>8. QED
    BY <2>3, <2>4, <2>5, <2>6, <2>7, Zenon DEF ActionInv, FencedStep
<1>3. QED
  BY <1>1, <1>2, Zenon DEF AdmissionRaises

LEMMA ClientDoneInv ==
    ASSUME ActionInv, NEW a \in Actions, ClientDone(a)
    PROVE  ActionInv' /\ FencedStep
<1>1. /\ active = a
      /\ pend = {}
      /\ client' = [client EXCEPT ![a] = "done"]
      /\ active' = Nobody
      /\ UNCHANGED <<worker, calls, recalls, sent, crashes, acb, rep, pend, rows, grant,
                     last_token>>
  BY ClientFacts, Zenon DEF ClientDone, tables, leases
<1>2. /\ LoopInv'
      /\ client' \in [Actions -> ClientPc]
      /\ \A v \in Workers : WorkerInv(v)'
      /\ \A b \in Actions : b # a => ClientInv(b)'
      /\ client'[a] = "done"
      /\ \A b \in Actions : client'[b] = "new" => client[b] = "new"
  BY <1>1, ClientFrame, Zenon DEF ClientPc
<1>3. TypeOK' /\ PendInv'
  BY <1>1, <1>2, InvType, InvPend, Zenon DEF TypeOK, PendInv
<1>4. ClientInv(a)'
  BY <1>2, QuietClient, Zenon
<1>5. /\ \A b \in Actions : RowInv(b)'
      /\ OneTruthfulSignal'
      /\ TerminalIsFinal
      /\ CommitsUnderNewestLease
  BY <1>1, <1>2, RowsKept, Zenon
<1>6. RunningKeepsLease
  BY <1>1, Zenon DEF RunningKeepsLease
<1>7. QED
  BY <1>2, <1>3, <1>4, <1>5, <1>6, Zenon DEF ActionInv, FencedStep

LEMMA CancelInv ==
    ASSUME ActionInv, NEW a \in Actions, Cancel(a)
    PROVE  ActionInv' /\ FencedStep
<1>1. /\ active = Nobody
      /\ pend = {}
      /\ client[a] = "done"
      /\ acb[a].state \in {"admitted", "running"}
      /\ Journal(a, "cancelled")
      /\ active' = a
      /\ client' = [client EXCEPT ![a] = "cancel"]
      /\ UNCHANGED <<worker, calls, recalls, sent, crashes, rows, grant, last_token>>
  BY Zenon DEF Cancel, LoopFree, leases, history
<1>2. /\ client \in [Actions -> ClientPc]
      /\ \A v \in Workers : worker[v].pc \in Awaiting \cup {"idle"}
      /\ \A b \in Actions : client[b] \in {"new", "done"}
  BY <1>1, NobodyAlone, InvType, Zenon DEF TypeOK
<1>3. /\ client' \in [Actions -> ClientPc]
      /\ \A b \in Actions : client'[b] \in {"new", "done", "cancel"}
      /\ \A b \in Actions : client'[b] = "new" => client[b] = "new"
      /\ \A b \in Actions : b # a => client'[b] \in {"new", "done"}
  BY <1>1, <1>2, Zenon DEF ClientPc
<1>4. /\ "cancelled" \in ActionState \ {"absent", "committed"}
      /\ acb[a].state \notin Terminal \cup {"absent"}
      /\ "cancelled" \in Started
      /\ client[a] # "new"
  BY <1>1, Zenon DEF ActionState, Terminal, Started
<1>5. /\ \A b \in Actions : RowInv(b)'
      /\ OneTruthfulSignal'
      /\ TerminalIsFinal
      /\ CommitsUnderNewestLease
      /\ acb' = acb
      /\ rep' \in [Actions -> ActionControlBlock]
      /\ pend' \in SUBSET (Actions \X ActionControlBlock)
      /\ pend' # {}
      /\ \A p \in pend' :
           /\ p[1] = a
           /\ acb[a].state \notin Terminal
           /\ p[2].state = "cancelled"
           /\ p[2].state = rep'[a].state
           /\ p[2].state # "absent"
           /\ p[2].claim = rep'[a].claim
           /\ p[2].side = rep'[a].side
           /\ p[2].policy = rep'[a].policy
           /\ p[2].retry_count = rep'[a].retry_count
  BY <1>1, <1>3, <1>4, JournalKeeps, SMTT(30)
<1>6. TypeOK'
  BY <1>1, <1>3, <1>5, InvType, Zenon DEF TypeOK
<1>7. PendInv'
  BY <1>1, <1>5, Zenon DEF PendInv
<1>8. LoopInv'
  BY <1>1, <1>2, <1>3, KernelConstants, Zenon DEF LoopInv
<1>9. \A b \in Actions : ClientInv(b)'
  BY <1>3, QuietClient, Zenon
<1>10. \A v \in Workers : WorkerInv(v)'
  BY <1>1, <1>2, WaitingWorker, Zenon
<1>11. RunningKeepsLease
  BY <1>1, Zenon DEF RunningKeepsLease
<1>12. QED
  BY <1>5, <1>6, <1>7, <1>8, <1>9, <1>10, <1>11, Zenon DEF ActionInv, FencedStep

-----------------------------------------------------------------------------
(* The second transaction, time, the owner and crashes.                    *)

LEMMA ProjectInv ==
    ASSUME ActionInv, Project
    PROVE  ActionInv' /\ FencedStep
<1>1. PICK p \in pend : acb' = [acb EXCEPT ![p[1]] = p[2]]
  BY Zenon DEF Project
<1> DEFINE a == p[1]
           q == p[2]
<1>2. /\ pend' = {}
      /\ UNCHANGED <<rep, rows, grant, last_token, active, client, worker, calls, recalls,
                     sent, crashes>>
  BY Zenon DEF Project, leases, history
<1>3. a \in Actions /\ q \in ActionControlBlock
  BY InvType, Zenon DEF TypeOK
<1>4. /\ a = active \/ (active \in Workers /\ a = worker[active].cur)
      /\ acb[a].state \notin Terminal
      /\ q.state = rep[a].state
      /\ q.state # "absent"
      /\ q.claim = rep[a].claim
      /\ q.side = rep[a].side
      /\ q.policy = rep[a].policy
      /\ q.retry_count = rep[a].retry_count
  BY InvPend, Zenon DEF PendInv
<1>5. acb'[a] = q /\ \A b \in Actions : b # a => acb'[b] = acb[b]
  BY <1>1, <1>3, InvType, Zenon DEF TypeOK
<1>6. q.state # "committed" /\ sent[a] = <<>>
  BY <1>3, <1>4, InvRow, InvSignal, SMTT(30) DEF RowInv, RowAgrees, OneTruthfulSignal, Terminal
<1>7. TypeOK'
  BY <1>1, <1>2, <1>3, InvType, Zenon DEF TypeOK
<1> HIDE DEF a, q
<1>8. LoopInv' /\ PendInv'
  BY <1>2, InvLoop, InvPend, Zenon DEF LoopInv, PendInv
<1>9. \A b \in Actions : RowInv(b)'
  <2>1. RowInv(a) /\ grant[a] \in Nat /\ \A s \in Resources : last_token[s] \in Nat
    BY <1>3, InvType, InvRow, Zenon DEF TypeOK
  <2>2. q.claim \in Resources \cup {NoResource}
    BY <1>3, Zenon DEF ActionControlBlock
  <2>3. RowInv(a)'
    <3>1. RowAgrees(a)'
      BY <1>2, <1>4, <1>5, <1>6, <2>1, Zenon DEF RowInv, RowAgrees
    <3>2. RowCalls(a)'
      BY <1>2, <1>4, <1>5, <2>1, Zenon DEF RowInv, RowAgrees, RowCalls
    <3>3. RowGrants(a)'
      BY <1>2, <1>4, <1>5, <2>1, <2>2, SMTT(30) DEF RowInv, RowAgrees, RowGrants
    <3>4. QED
      BY <3>1, <3>2, <3>3, Zenon DEF RowInv
  <2>4. ASSUME NEW b \in Actions, b # a PROVE RowInv(b)'
    BY <1>2, <1>5, <2>4, InvRow, RowFrame, Zenon
  <2>5. QED
    BY <2>3, <2>4, Zenon
<1>10. \A b \in Actions : ClientInv(b)'
  <2>1. ASSUME NEW b \in Actions, client[b] \notin {"new", "done"} PROVE a = b
    BY <1>3, <1>4, <2>1, KernelConstants, InvLoop, Zenon DEF LoopInv
  <2>2. ASSUME NEW b \in Actions PROVE ClientInv(b)'
    <3>1. ClientInv(b) /\ p \in pend /\ p[2] = q
      BY Zenon DEF ActionInv, q
    <3>2. QED
      BY <1>2, <1>4, <1>5, <2>1, <3>1, Zenon DEF ClientInv
  <2>3. QED
    BY <2>2, Zenon
<1>11. \A v \in Workers : WorkerInv(v)'
  <2>1. ASSUME NEW v \in Workers, worker[v].pc \notin Awaiting \cup {"idle"}
        PROVE  a = worker[v].cur
    BY <1>3, <1>4, <2>1, KernelConstants, InvLoop, Zenon DEF LoopInv
  <2>2. ASSUME NEW v \in Workers PROVE WorkerInv(v)'
    <3>1. WorkerInv(v) /\ p \in pend /\ p[2] = q
      BY Zenon DEF ActionInv, q
    <3>2. QED
      BY <1>2, <1>4, <1>5, <1>6, <2>1, <3>1, ZenonT(30)
      DEF WorkerInv, Awaiting, Running, Terminal, SignalOf
  <2>3. QED
    BY <2>2, Zenon
<1>12. OneTruthfulSignal'
  BY <1>2, <1>5, <1>6, InvSignal, Zenon DEF OneTruthfulSignal
<1>13. FencedStep
  BY <1>2, <1>4, <1>5, <1>6, Zenon DEF FencedStep, TerminalIsFinal, CommitsUnderNewestLease,
     RunningKeepsLease
<1>14. QED
  BY <1>7, <1>8, <1>9, <1>10, <1>11, <1>12, <1>13, Zenon DEF ActionInv

\* A step that only touches lease rows.
LEMMA RowsOnly ==
    ASSUME ActionInv, rows' \in [Actions -> {"none", "live", "expired"}],
           UNCHANGED <<tables, grant, last_token, active, client, worker, history>>
    PROVE  ActionInv'
<1>1. UNCHANGED <<acb, rep, pend, grant, last_token, active, client, worker, calls,
                  recalls, sent, crashes>>
  BY Zenon DEF tables, history
<1>2. TypeOK' /\ LoopInv' /\ PendInv'
  BY <1>1, InvType, InvLoop, InvPend, ZenonT(30) DEF TypeOK, LoopInv, PendInv
<1>3. \A a \in Actions : RowInv(a)' /\ ClientInv(a)'
  BY <1>1, InvRow, InvClient, RowFrame, ZenonT(30) DEF ClientInv
<1>4. \A w \in Workers : WorkerInv(w)'
  BY <1>1, InvWorker, SMTT(30) DEF WorkerInv, Running
<1>5. OneTruthfulSignal'
  BY <1>1, InvSignal, Zenon DEF OneTruthfulSignal
<1>6. QED
  BY <1>2, <1>3, <1>4, <1>5, Zenon DEF ActionInv

LEMMA ExpireInv ==
    ASSUME ActionInv, NEW a \in Actions, Expire(a)
    PROVE  ActionInv' /\ FencedStep
<1>1. rows' \in [Actions -> {"none", "live", "expired"}]
  BY InvType, Zenon DEF Expire, TypeOK
<1>2. FencedStep
  BY InvType, Zenon DEF Expire, tables, TypeOK, FencedStep, TerminalIsFinal,
     CommitsUnderNewestLease, RunningKeepsLease
<1>3. QED
  BY <1>1, <1>2, RowsOnly, Zenon DEF Expire

LEMMA OwnerReleasesInv ==
    ASSUME ActionInv, NEW a \in Actions, OwnerReleases(a)
    PROVE  ActionInv' /\ FencedStep
<1>1. rows' \in [Actions -> {"none", "live", "expired"}]
  BY InvType, Zenon DEF OwnerReleases, Unleased, TypeOK
<1>2. FencedStep
  BY KernelConstants, Zenon DEF OwnerReleases, LoopFree, tables, FencedStep, TerminalIsFinal,
     CommitsUnderNewestLease, RunningKeepsLease
<1>3. QED
  BY <1>1, <1>2, RowsOnly, Zenon DEF OwnerReleases

LEMMA CrashInv ==
    ASSUME ActionInv, Crash
    PROVE  ActionInv' /\ FencedStep
<1>1. /\ pend' = {}
      /\ active' = Nobody
      /\ client' = [a \in Actions |-> IF client[a] = "new" THEN "new" ELSE "done"]
      /\ worker' = [w \in Workers |-> IdleWorker]
      /\ crashes < MaxCrashes /\ crashes' = crashes + 1
      /\ UNCHANGED <<acb, rep, rows, grant, last_token, calls, recalls, sent>>
  BY Zenon DEF Crash, leases
<1>2. \A b \in Actions : /\ client'[b] \in {"new", "done"}
                         /\ client'[b] = "new" => client[b] = "new"
  BY <1>1, Zenon
<1>3. \A w \in Workers : worker'[w].pc = "idle"
  BY <1>1, Zenon DEF IdleWorker
<1>4. IdleWorker \in WorkerRecord
  BY Zenon DEF IdleWorker, WorkerRecord, WorkerPcs
<1>5. crashes' \in 0..MaxCrashes
  BY <1>1, KernelConstants, InvType, SMTT(30) DEF TypeOK
<1>6. TypeOK' /\ LoopInv' /\ PendInv'
  BY <1>1, <1>2, <1>3, <1>4, <1>5, InvType, InvLoop, InvPend, Zenon DEF TypeOK, LoopInv, PendInv,
     ClientPc
<1>7. \A b \in Actions : ClientInv(b)'
  BY <1>2, QuietClient, Zenon
<1>8. \A w \in Workers : WorkerInv(w)'
  BY <1>3, Zenon DEF WorkerInv
<1>9. /\ \A b \in Actions : RowInv(b)'
      /\ OneTruthfulSignal'
      /\ TerminalIsFinal
      /\ CommitsUnderNewestLease
  BY <1>1, <1>2, RowsKept, Zenon
<1>10. RunningKeepsLease
  BY <1>1, Zenon DEF RunningKeepsLease
<1>11. QED
  BY <1>6, <1>7, <1>8, <1>9, <1>10, Zenon DEF ActionInv, FencedStep

LEMMA RebuildInv ==
    ASSUME ActionInv, Rebuild
    PROVE  ActionInv' /\ FencedStep
<1>1. /\ active = Nobody
      /\ pend = {}
      /\ \A w \in Workers : worker[w].pc = "idle"
      /\ acb' = rep
      /\ UNCHANGED <<rep, pend, rows, grant, last_token, active, client, worker, calls,
                     recalls, sent, crashes>>
  BY Zenon DEF Rebuild, LoopFree, leases, history
<1>2. TypeOK' /\ LoopInv' /\ PendInv'
  BY <1>1, InvType, InvLoop, InvPend, Zenon DEF TypeOK, LoopInv, PendInv
<1>3. \A b \in Actions : ClientInv(b)'
  BY <1>1, NobodyAlone, QuietClient, Zenon
<1>4. \A w \in Workers : WorkerInv(w)'
  BY <1>1, WaitingWorker, Zenon
<1>5. ASSUME NEW b \in Actions PROVE RowInv(b)'
  <2>1. /\ RowInv(b)
        /\ grant[b] \in Nat
        /\ rep[b].claim \in Resources \cup {NoResource}
        /\ \A s \in Resources : last_token[s] \in Nat
    BY InvType, InvRow, Zenon DEF TypeOK, ActionControlBlock
  <2>2. QED
    <3>1. RowAgrees(b)'
      BY <1>1, <2>1, Zenon DEF RowInv, RowAgrees, Terminal
    <3>2. RowCalls(b)'
      BY <1>1, <2>1, Zenon DEF RowInv, RowAgrees, RowCalls, Started
    <3>3. RowGrants(b)'
      BY <1>1, <2>1, SMTT(30) DEF RowInv, RowAgrees, RowGrants
    <3>4. QED
      BY <3>1, <3>2, <3>3, Zenon DEF RowInv
<1>6. \A b \in Actions : /\ acb[b].state \in Terminal => acb'[b].state = acb[b].state
                         /\ acb'[b].state = "committed" => acb[b].state = "committed"
  BY <1>1, InvRow, Zenon DEF RowInv, RowAgrees
<1>7. OneTruthfulSignal'
  BY <1>1, <1>6, InvSignal, Zenon DEF OneTruthfulSignal
<1>8. FencedStep
  BY <1>1, <1>6, Zenon DEF FencedStep, TerminalIsFinal, CommitsUnderNewestLease,
     RunningKeepsLease
<1>9. QED
  BY <1>2, <1>3, <1>4, <1>5, <1>7, <1>8, Zenon DEF ActionInv

-----------------------------------------------------------------------------
(* The kernel's tick.                                                      *)

\* What a step Worker(w, pc, phase) has in common.
LEMMA WorkerFacts ==
    ASSUME ActionInv, NEW w \in Workers, NEW pc, NEW phase, Worker(w, pc, phase)
    PROVE  /\ worker[w].pc = pc
           /\ active = w
           /\ pend = {}
           /\ UNCHANGED <<client, crashes>>
           /\ worker[w] \in WorkerRecord
           /\ WorkerInv(w)
    BY InvType, InvWorker, Zenon DEF Worker, HasLoop, TypeOK

\* GoTo and Settle replace the record of w by one with the same action.
LEMMA GoToRecord ==
    ASSUME ActionInv, NEW w \in Workers, NEW pc \in WorkerPcs, GoTo(w, pc)
    PROVE  \E r \in WorkerRecord :
             /\ worker' = [worker EXCEPT ![w] = r]
             /\ r.pc = pc
             /\ r.cur = worker[w].cur
             /\ r.sig = worker[w].sig
<1> DEFINE r == [worker[w] EXCEPT !.pc = pc]
<1>1. worker[w] \in WorkerRecord /\ worker \in [Workers -> WorkerRecord]
  BY InvType, Zenon DEF TypeOK
<1>2. r \in WorkerRecord /\ r.pc = pc /\ r.cur = worker[w].cur /\ r.sig = worker[w].sig
  BY <1>1, Zenon DEF WorkerRecord
<1>3. worker' = [worker EXCEPT ![w] = r]
  BY <1>1, Zenon DEF GoTo, WorkerRecord
<1> HIDE DEF r
<1>4. QED
  BY <1>2, <1>3, Zenon

LEMMA SettleRecord ==
    ASSUME ActionInv, NEW w \in Workers, NEW sig \in Signals \cup {"none"}, Settle(w, sig)
    PROVE  \E r \in WorkerRecord :
             /\ worker' = [worker EXCEPT ![w] = r]
             /\ r.pc = "release"
             /\ r.cur = worker[w].cur
             /\ r.sig = sig
<1> DEFINE r == [worker[w] EXCEPT !.pc = "release", !.sig = sig]
<1>1. worker[w] \in WorkerRecord /\ worker \in [Workers -> WorkerRecord]
  BY InvType, Zenon DEF TypeOK
<1>2. r \in WorkerRecord /\ r.pc = "release" /\ r.cur = worker[w].cur /\ r.sig = sig
  BY <1>1, Zenon DEF WorkerRecord, WorkerPcs
<1>3. worker' = [worker EXCEPT ![w] = r]
  BY <1>1, Zenon DEF Settle, WorkerRecord
<1> HIDE DEF r
<1>4. QED
  BY <1>2, <1>3, Zenon

\* A step of w that leaves tables, calls and signals alone.
LEMMA WorkerQuiet ==
    ASSUME ActionInv, NEW w \in Workers, NEW r \in WorkerRecord,
           \/ active = w
           \/ active = Nobody,
           pend = {},
           worker' = [worker EXCEPT ![w] = r],
           UNCHANGED <<tables, leases, client, history>>,
           \/ active' = w
           \/ active' = Nobody /\ r.pc \in Awaiting \cup {"idle"},
           WorkerInv(w)'
    PROVE  ActionInv' /\ FencedStep
<1>1. UNCHANGED <<acb, rep, pend, rows, grant, last_token, client, calls, recalls, sent,
                  crashes>>
  BY Zenon DEF tables, leases, history
<1>2. /\ LoopInv'
      /\ worker' \in [Workers -> WorkerRecord]
      /\ \A v \in Workers : v # w => WorkerInv(v)'
      /\ \A b \in Actions : ClientInv(b)'
  BY <1>1, WorkerFrame, Zenon
<1>3. TypeOK' /\ PendInv'
  BY <1>1, <1>2, KernelConstants, InvType, InvPend, Zenon DEF TypeOK, PendInv
<1>4. /\ \A b \in Actions : RowInv(b)'
      /\ OneTruthfulSignal'
      /\ TerminalIsFinal
      /\ CommitsUnderNewestLease
  BY <1>1, RowsKept, Zenon
<1>5. RunningKeepsLease
  BY <1>1, Zenon DEF RunningKeepsLease
<1>6. QED
  BY <1>2, <1>3, <1>4, <1>5, Zenon DEF ActionInv, FencedStep

\* w turns to the next action, or awaits an inspection.
LEMMA GoToKeeps ==
    ASSUME ActionInv, NEW w \in Workers, NEW pc \in {"loop", "inspecting"},
           \/ active = w
           \/ active = Nobody,
           pend = {}, worker[w].cur \in Actions, GoTo(w, pc),
           UNCHANGED <<tables, leases, client, history>>
    PROVE  ActionInv' /\ FencedStep
<1>1. PICK r \in WorkerRecord :
             /\ worker' = [worker EXCEPT ![w] = r]
             /\ r.pc = pc
             /\ r.cur = worker[w].cur
  BY GoToRecord, SMTT(30) DEF WorkerPcs
<1>2. worker'[w] = r
  BY <1>1, InvType, Zenon DEF TypeOK
<1>3. WorkerInv(w)'
  BY <1>1, <1>2, Zenon DEF WorkerInv
<1>4. \/ active' = w
      \/ active' = Nobody /\ r.pc \in Awaiting \cup {"idle"}
  BY <1>1, Zenon DEF GoTo
<1>5. QED
  BY <1>1, <1>3, <1>4, WorkerQuiet, Zenon

\* One transaction makes a running action terminal; a commit is fenced.
LEMMA TerminateKeeps ==
    ASSUME ActionInv, NEW w \in Workers, NEW a \in Actions, a = worker[w].cur,
           NEW state \in {"committed", "failed", "uncertain"},
           state = "committed" => Fenced(a),
           \/ active = w
           \/ active = Nobody,
           pend = {}, TerminateIfRunning(w, a, state),
           UNCHANGED <<leases, client, history>>
    PROVE  ActionInv' /\ FencedStep
<1>1. UNCHANGED <<rows, grant, last_token, client, calls, recalls, sent, crashes>>
  BY Zenon DEF leases, history
<1>2. CASE ~Running(a)
  <2>1. UNCHANGED tables /\ Settle(w, "none")
    BY <1>2, Zenon DEF TerminateIfRunning
  <2>2. PICK r \in WorkerRecord :
               /\ worker' = [worker EXCEPT ![w] = r]
               /\ r.pc = "release"
               /\ r.cur = a
               /\ r.sig = "none"
    BY <2>1, SettleRecord, SMTT(30)
  <2>3. worker'[w] = r
    BY <2>2, InvType, Zenon DEF TypeOK
  <2>4. WorkerInv(w)'
    BY <1>2, <2>1, <2>2, <2>3, Zenon DEF WorkerInv, Running, tables
  <2>5. QED
    BY <2>1, <2>2, <2>4, WorkerQuiet, Zenon DEF Settle
<1>3. CASE Running(a)
  <2>1. /\ rep' = [rep EXCEPT ![a].state = state]
        /\ acb' = [acb EXCEPT ![a].state = state]
        /\ pend' = {}
        /\ Settle(w, SignalOf(state))
    BY <1>3, Zenon DEF TerminateIfRunning, Atomically
  <2>2. SignalOf(state) \in Signals /\ SignalOf(state) # "none"
    BY Zenon DEF SignalOf, Signals
  <2>3. PICK r \in WorkerRecord :
               /\ worker' = [worker EXCEPT ![w] = r]
               /\ r.pc = "release"
               /\ r.cur = a
               /\ r.sig = SignalOf(state)
    BY <2>1, <2>2, SettleRecord, SMTT(30)
  <2>4. active' = w
    BY <2>1, Zenon DEF Settle
  <2>5. /\ LoopInv'
        /\ worker' \in [Workers -> WorkerRecord]
        /\ worker'[w] = r
        /\ \A v \in Workers : v # w => WorkerInv(v)'
        /\ \A b \in Actions : ClientInv(b)'
    BY <1>1, <2>3, <2>4, WorkerFrame, Zenon
  <2>6. /\ acb \in [Actions -> ActionControlBlock]
        /\ rep \in [Actions -> ActionControlBlock]
        /\ state \in ActionState
        /\ state \in Terminal
    BY InvType, Zenon DEF TypeOK, ActionState, Terminal
  <2>7. /\ acb' \in [Actions -> ActionControlBlock]
        /\ rep' \in [Actions -> ActionControlBlock]
    BY <2>1, <2>6, SMTT(30) DEF ActionControlBlock
  <2>8. /\ acb'[a].state = state
        /\ acb'[a].claim = acb[a].claim
        /\ acb'[a].side = acb[a].side
        /\ acb'[a].policy = acb[a].policy
        /\ acb'[a].retry_count = acb[a].retry_count
        /\ rep'[a].state = state
        /\ rep'[a].claim = rep[a].claim
        /\ rep'[a].side = rep[a].side
        /\ rep'[a].policy = rep[a].policy
        /\ rep'[a].retry_count = rep[a].retry_count
        /\ \A b \in Actions : b # a => acb'[b] = acb[b] /\ rep'[b] = rep[b]
    BY <2>1, <2>6, SMTT(30) DEF ActionControlBlock
  <2>9. TypeOK'
    BY <1>1, <2>1, <2>4, <2>5, <2>7, InvType, Zenon DEF TypeOK
  <2>10. PendInv'
    BY <2>1, Zenon DEF PendInv
  <2>11. \A b \in Actions : RowInv(b)'
    <3>1. RowInv(a)'
      <4>1. RowInv(a)
        BY Zenon DEF ActionInv
      <4>2. QED
        <5>1. RowAgrees(a)'
          BY <1>1, <1>3, <2>8, <4>1, Zenon DEF RowInv, RowAgrees, Running
        <5>2. RowCalls(a)'
          BY <1>1, <1>3, <2>6, <2>8, <4>1, Zenon DEF RowInv, RowCalls, Running, Started
        <5>3. RowGrants(a)'
          BY <1>1, <2>6, <2>8, <4>1, Zenon DEF RowInv, RowGrants, Terminal
        <5>4. QED
          BY <5>1, <5>2, <5>3, Zenon DEF RowInv
    <3>2. ASSUME NEW b \in Actions, b # a PROVE RowInv(b)'
      BY <1>1, <2>8, <3>2, InvRow, RowFrame, Zenon
    <3>3. QED
      BY <3>1, <3>2, Zenon
  <2>12. sent[a] = <<>> /\ acb[a].state = "running"
    BY <1>3, InvSignal, Zenon DEF OneTruthfulSignal, Running, Terminal
  <2>13. OneTruthfulSignal'
    BY <1>1, <2>8, <2>12, InvSignal, Zenon DEF OneTruthfulSignal
  <2>14. WorkerInv(w)'
    BY <1>1, <2>1, <2>3, <2>5, <2>6, <2>8, <2>12, SMTT(30) DEF WorkerInv, Running, Terminal
  <2>15. TerminalIsFinal /\ RunningKeepsLease
    BY <1>1, <2>8, <2>12, Zenon DEF TerminalIsFinal, RunningKeepsLease, Terminal
  <2>16. ASSUME state = "committed", NEW b \in Actions, acb[b].claim = acb[a].claim
         PROVE  grant[b] <= acb[a].token
    <3>1. Fenced(a) /\ RowInv(b) /\ grant[b] \in Nat
      BY <2>16, InvType, InvRow, Zenon DEF TypeOK
    <3>2. QED
      BY <2>16, <3>1, SMTT(30) DEF Fenced, RowInv, RowGrants
  <2>17. CommitsUnderNewestLease
    BY <2>8, <2>16, Zenon DEF CommitsUnderNewestLease
  <2>18. QED
    BY <2>5, <2>9, <2>10, <2>11, <2>13, <2>14, <2>15, <2>17, Zenon DEF ActionInv, FencedStep
<1>4. QED
  BY <1>2, <1>3, Zenon

\* The one retry is reserved, or was reserved elsewhere, or is not permitted.
LEMMA ReserveRetryKeeps ==
    ASSUME ActionInv, NEW w \in Workers, NEW a \in Actions, a = worker[w].cur,
           \/ active = w
           \/ active = Nobody,
           pend = {}, ReserveRetry(w, a), UNCHANGED <<leases, client, history>>
    PROVE  ActionInv' /\ FencedStep
<1>1. CASE GoTo(w, "loop") /\ UNCHANGED tables
  BY <1>1, GoToKeeps, Zenon
<1>2. CASE TerminateIfRunning(w, a, "uncertain")
  BY <1>2, TerminateKeeps, Zenon
<1>3. CASE /\ Running(a) /\ acb[a].side = "pure" /\ acb[a].policy = "retry"
           /\ acb[a].retry_count < 1
           /\ acb' = [acb EXCEPT ![a].retry_count = @ + 1]
           /\ rep' = [rep EXCEPT ![a].retry_count = 1]
           /\ GoTo(w, "recall")
           /\ UNCHANGED pend
  <2>1. UNCHANGED <<rows, grant, last_token, client, calls, recalls, sent, crashes>>
    BY Zenon DEF leases, history
  <2>2. PICK r \in WorkerRecord :
               /\ worker' = [worker EXCEPT ![w] = r]
               /\ r.pc = "recall"
               /\ r.cur = a
    BY <1>3, GoToRecord, SMTT(30) DEF WorkerPcs
  <2>3. active' = w
    BY <1>3, Zenon DEF GoTo, Awaiting
  <2>4. /\ LoopInv'
        /\ worker' \in [Workers -> WorkerRecord]
        /\ worker'[w] = r
        /\ \A v \in Workers : v # w => WorkerInv(v)'
        /\ \A b \in Actions : ClientInv(b)'
    BY <2>1, <2>2, <2>3, WorkerFrame, Zenon
  <2>5. /\ acb \in [Actions -> ActionControlBlock]
        /\ rep \in [Actions -> ActionControlBlock]
        /\ acb[a].retry_count \in Nat
        /\ acb[a].retry_count = 0
    BY <1>3, InvType, SMTT(30) DEF TypeOK, ActionControlBlock
  <2>6. /\ acb' \in [Actions -> ActionControlBlock]
        /\ rep' \in [Actions -> ActionControlBlock]
    BY <1>3, <2>5, SMTT(30) DEF ActionControlBlock
  <2>7. /\ acb'[a].state = "running"
        /\ acb'[a].claim = acb[a].claim
        /\ acb'[a].side = acb[a].side
        /\ acb'[a].policy = acb[a].policy
        /\ acb'[a].retry_count = 1
        /\ rep'[a].state = rep[a].state
        /\ rep'[a].claim = rep[a].claim
        /\ rep'[a].side = rep[a].side
        /\ rep'[a].policy = rep[a].policy
        /\ rep'[a].retry_count = 1
        /\ \A b \in Actions : b # a => acb'[b] = acb[b] /\ rep'[b] = rep[b]
    BY <1>3, <2>5, SMTT(30) DEF ActionControlBlock, Running
  <2>8. TypeOK' /\ PendInv'
    BY <1>3, <2>1, <2>3, <2>4, <2>6, InvType, InvPend, Zenon DEF TypeOK, PendInv
  <2>9. RowInv(a) /\ recalls[a] \in Nat
    BY InvType, InvRow, Zenon DEF TypeOK
  <2>10. recalls[a] = 0
    BY <2>5, <2>9, SMTT(30) DEF RowInv, RowCalls
  <2>11. \A b \in Actions : RowInv(b)'
    <3>1. RowInv(a)'
      <4>1. acb[a].state = "running" /\ rep[a].state # "absent"
        BY <1>3, <2>9, Zenon DEF RowInv, RowAgrees, Running
      <4>2. RowAgrees(a)'
        BY <2>1, <2>7, <2>9, <4>1, ZenonT(30) DEF RowInv, RowAgrees, Terminal
      <4>3. RowCalls(a)'
        BY <2>1, <2>7, <2>9, <2>10, <4>1, SMTT(30) DEF RowInv, RowCalls
      <4>4. RowGrants(a)'
        BY <2>1, <2>7, <2>9, <4>1, Zenon DEF RowInv, RowGrants
      <4>5. QED
        BY <4>2, <4>3, <4>4, Zenon DEF RowInv
    <3>2. ASSUME NEW b \in Actions, b # a PROVE RowInv(b)'
      BY <2>1, <2>7, <3>2, InvRow, RowFrame, Zenon
    <3>3. QED
      BY <3>1, <3>2, Zenon
  <2>12. OneTruthfulSignal'
    <3>1. acb'[a].state = acb[a].state
      BY <1>3, <2>7, Zenon DEF Running
    <3>2. \A b \in Actions : b # a => acb'[b] = acb[b]
      BY <2>7, Zenon
    <3>3. \A b \in Actions : acb'[b].state = acb[b].state
      BY <3>1, <3>2, SMTT(30)
    <3>4. QED
      BY <2>1, <3>3, InvSignal, SMTT(30) DEF OneTruthfulSignal
  <2>13. WorkerInv(w)'
    BY <1>3, <2>1, <2>2, <2>4, <2>7, <2>10, SMTT(30) DEF WorkerInv
  <2>14. FencedStep
    BY <1>3, <2>1, <2>7, Zenon DEF FencedStep, TerminalIsFinal, CommitsUnderNewestLease,
       RunningKeepsLease, Running, Terminal
  <2>15. QED
    BY <2>4, <2>8, <2>11, <2>12, <2>13, <2>14, Zenon DEF ActionInv
<1>4. QED
  BY <1>1, <1>2, <1>3, Zenon DEF ReserveRetry

\* A kernel journals that an action fails or runs.
LEMMA WorkerJournals ==
    ASSUME ActionInv, NEW w \in Workers, NEW a \in Actions, NEW r \in WorkerRecord,
           NEW state \in {"failed", "running"},
           active = w, active' = w, worker' = [worker EXCEPT ![w] = r], r.cur = a,
           MayBecome(acb[a].state, state), Journal(a, state),
           \/ state = "failed" /\ r.pc = "release" /\ r.sig = "ACTION_FAILED"
           \/ state = "running" /\ r.pc = "call",
           UNCHANGED <<leases, client, history>>
    PROVE  ActionInv' /\ FencedStep
<1>1. UNCHANGED <<rows, grant, last_token, client, calls, recalls, sent, crashes>>
  BY Zenon DEF leases, history
<1>2. RowInv(a) /\ calls[a] \in Nat
  BY InvType, InvRow, Zenon DEF TypeOK
<1>3. /\ acb[a].state \notin Terminal \cup {"absent"}
      /\ state = "running" => acb[a].state = "admitted"
      /\ state \in ActionState \ {"absent", "committed"}
      /\ state \in Started
  BY Zenon DEF MayBecome, Terminal, ActionState, Started
<1>4. client[a] # "new" /\ (state = "running" => calls[a] = 0)
  BY <1>2, <1>3, SMTT(30) DEF RowInv, RowAgrees, RowCalls, Started, Terminal
<1>5. /\ \A b \in Actions : RowInv(b)'
      /\ OneTruthfulSignal'
      /\ TerminalIsFinal
      /\ CommitsUnderNewestLease
      /\ acb' = acb
      /\ rep' \in [Actions -> ActionControlBlock]
      /\ rep'[a].state = state
      /\ pend' \in SUBSET (Actions \X ActionControlBlock)
      /\ pend' # {}
      /\ \A p \in pend' :
           /\ p[1] = a
           /\ acb[a].state \notin Terminal
           /\ p[2].state = state
           /\ p[2].state = rep'[a].state
           /\ p[2].state # "absent"
           /\ p[2].claim = rep'[a].claim
           /\ p[2].side = rep'[a].side
           /\ p[2].policy = rep'[a].policy
           /\ p[2].retry_count = rep'[a].retry_count
  BY <1>1, <1>3, <1>4, JournalKeeps, SMTT(30)
<1>6. /\ LoopInv'
      /\ worker' \in [Workers -> WorkerRecord]
      /\ worker'[w] = r
      /\ \A v \in Workers : v # w => WorkerInv(v)'
      /\ \A b \in Actions : ClientInv(b)'
  BY <1>1, WorkerFrame, Zenon
<1>7. TypeOK'
  BY <1>1, <1>5, <1>6, InvType, Zenon DEF TypeOK
<1>8. PendInv'
  BY <1>5, <1>6, SMTT(30) DEF PendInv
<1>9. WorkerInv(w)'
  BY <1>1, <1>4, <1>5, <1>6, Zenon DEF WorkerInv
<1>10. RunningKeepsLease
  BY <1>1, Zenon DEF RunningKeepsLease
<1>11. QED
  BY <1>5, <1>6, <1>7, <1>8, <1>9, <1>10, Zenon DEF ActionInv, FencedStep

LEMMA DispatchOneInv ==
    ASSUME ActionInv, NEW w \in Workers, DispatchOne(w)
    PROVE  ActionInv' /\ FencedStep
<1> DEFINE a == worker[w].cur
<1>1. Worker(w, "handle", "dispatch") /\ UNCHANGED <<leases, calls, recalls, sent>>
  BY Zenon DEF DispatchOne
<1>2. /\ active = w
      /\ pend = {}
      /\ a \in Actions
      /\ UNCHANGED <<leases, client, history>>
  BY <1>1, WorkerFacts, SMTT(30) DEF WorkerInv, history
<1>3. CASE MayBecome(acb[a].state, "failed") /\ Journal(a, "failed") /\ Settle(w, "ACTION_FAILED")
  <2>1. PICK r \in WorkerRecord :
               /\ worker' = [worker EXCEPT ![w] = r]
               /\ r.pc = "release"
               /\ r.cur = a
               /\ r.sig = "ACTION_FAILED"
    BY <1>3, SettleRecord, Zenon DEF Signals
  <2>2. QED
    BY <1>2, <1>3, <2>1, WorkerJournals, Zenon DEF Settle
<1>4. CASE MayBecome(acb[a].state, "running") /\ Journal(a, "running") /\ GoTo(w, "call")
  <2>1. PICK r \in WorkerRecord :
               /\ worker' = [worker EXCEPT ![w] = r]
               /\ r.pc = "call"
               /\ r.cur = a
    BY <1>4, GoToRecord, SMTT(30) DEF WorkerPcs
  <2>2. QED
    BY <1>2, <1>4, <2>1, WorkerJournals, Zenon DEF GoTo, Awaiting
<1>5. CASE AbortTick(w)
  <2>1. IdleWorker \in WorkerRecord /\ IdleWorker.pc = "idle"
    BY Zenon DEF IdleWorker, WorkerRecord, WorkerPcs
  <2>2. worker'[w] = IdleWorker
    BY <1>5, InvType, Zenon DEF AbortTick, TypeOK
  <2>3. WorkerInv(w)'
    BY <2>1, <2>2, Zenon DEF WorkerInv
  <2>4. QED
    BY <1>2, <1>5, <2>1, <2>3, WorkerQuiet, Zenon DEF AbortTick
<1>6. QED
  BY <1>3, <1>4, <1>5, Zenon DEF DispatchOne

LEMMA BeginTickInv ==
    ASSUME ActionInv, NEW w \in Workers, BeginTick(w)
    PROVE  ActionInv' /\ FencedStep
<1> DEFINE r == [IdleWorker EXCEPT !.pc = "loop", !.todo = Listed("running")]
<1>1. /\ active = Nobody
      /\ pend = {}
      /\ rows' = [a \in Actions |-> IF rows[a] = "expired" THEN "none" ELSE rows[a]]
      /\ worker' = [worker EXCEPT ![w] = r]
      /\ active' = w
      /\ UNCHANGED <<acb, rep, pend, grant, last_token, client, calls, recalls, sent, crashes>>
  BY Zenon DEF BeginTick, LoopFree, tables, history
<1>2. Listed("running") \in SUBSET (Actions \X Nat)
  BY InvType, SMTT(30) DEF Listed, TypeOK, ActionControlBlock
<1>3. r \in WorkerRecord /\ r.pc = "loop"
  BY <1>2, Zenon DEF IdleWorker, WorkerRecord, WorkerPcs
<1> HIDE DEF r
<1>4. /\ LoopInv'
      /\ worker' \in [Workers -> WorkerRecord]
      /\ worker'[w] = r
      /\ \A v \in Workers : v # w => WorkerInv(v)'
      /\ \A b \in Actions : ClientInv(b)'
  BY <1>1, <1>3, WorkerFrame, Zenon
<1>5. TypeOK' /\ PendInv'
  BY <1>1, <1>4, InvType, InvPend, Zenon DEF TypeOK, PendInv
<1>6. WorkerInv(w)'
  BY <1>3, <1>4, Zenon DEF WorkerInv
<1>7. /\ \A b \in Actions : RowInv(b)'
      /\ OneTruthfulSignal'
      /\ TerminalIsFinal
      /\ CommitsUnderNewestLease
  BY <1>1, RowsKept, Zenon
<1>8. RunningKeepsLease
  BY <1>1, Zenon DEF RunningKeepsLease
<1>9. QED
  BY <1>4, <1>5, <1>6, <1>7, <1>8, Zenon DEF ActionInv, FencedStep

LEMMA TakeNextInv ==
    ASSUME ActionInv, NEW w \in Workers, TakeNext(w)
    PROVE  ActionInv' /\ FencedStep
<1>1. /\ active = w
      /\ pend = {}
      /\ worker[w] \in WorkerRecord
      /\ active' = w
      /\ UNCHANGED <<tables, leases, client, history>>
  BY WorkerFacts, Zenon DEF TakeNext, history
<1>2. PICK item \in worker[w].todo :
          worker' = [worker EXCEPT ![w] =
                       [worker[w] EXCEPT !.pc = "handle", !.todo = worker[w].todo \ {item},
                                         !.cur = item[1], !.seen = item[2], !.sig = "none"]]
  BY Zenon DEF TakeNext
<1> DEFINE r == [worker[w] EXCEPT !.pc = "handle", !.todo = worker[w].todo \ {item},
                                  !.cur = item[1], !.seen = item[2], !.sig = "none"]
<1>3. item[1] \in Actions /\ item[2] \in Nat
  BY <1>1, Zenon DEF WorkerRecord
<1>4. worker[w].todo \ {item} \in SUBSET (Actions \X Nat)
  BY <1>1, Zenon DEF WorkerRecord
<1>5. r \in WorkerRecord /\ r.pc = "handle" /\ r.cur = item[1]
  BY <1>1, <1>3, <1>4, Zenon DEF WorkerRecord, WorkerPcs
<1>6. worker' = [worker EXCEPT ![w] = r]
  BY <1>2, Zenon
<1> HIDE DEF r
<1>7. worker'[w] = r /\ pend' = {}
  BY <1>1, <1>6, InvType, Zenon DEF TypeOK, tables
<1>8. WorkerInv(w)'
  BY <1>3, <1>5, <1>7, Zenon DEF WorkerInv
<1>9. QED
  BY <1>1, <1>5, <1>6, <1>8, WorkerQuiet, Zenon

LEMMA EndRecoveryInv ==
    ASSUME ActionInv, NEW w \in Workers, EndRecovery(w)
    PROVE  ActionInv' /\ FencedStep
<1> DEFINE r == [worker[w] EXCEPT !.phase = "dispatch", !.todo = Listed("admitted")]
<1>1. /\ active = w
      /\ pend = {}
      /\ worker[w] \in WorkerRecord
      /\ worker[w].pc = "loop"
      /\ active' = w
      /\ UNCHANGED <<tables, leases, client, history>>
  BY WorkerFacts, Zenon DEF EndRecovery, history
<1>2. Listed("admitted") \in SUBSET (Actions \X Nat)
  BY InvType, SMTT(30) DEF Listed, TypeOK, ActionControlBlock
<1>3. r \in WorkerRecord /\ r.pc = "loop"
  BY <1>1, <1>2, Zenon DEF WorkerRecord
<1>4. worker' = [worker EXCEPT ![w] = r]
  BY <1>1, InvType, Zenon DEF EndRecovery, TypeOK, WorkerRecord
<1> HIDE DEF r
<1>5. worker'[w] = r
  BY <1>4, InvType, Zenon DEF TypeOK
<1>6. WorkerInv(w)'
  BY <1>3, <1>5, Zenon DEF WorkerInv
<1>7. QED
  BY <1>1, <1>3, <1>4, <1>6, WorkerQuiet, Zenon

LEMMA EndTickInv ==
    ASSUME ActionInv, NEW w \in Workers, EndTick(w)
    PROVE  ActionInv' /\ FencedStep
<1>1. /\ active = w
      /\ pend = {}
      /\ active' = Nobody
      /\ worker' = [worker EXCEPT ![w] = IdleWorker]
      /\ UNCHANGED <<tables, leases, client, history>>
  BY WorkerFacts, Zenon DEF EndTick, history
<1>2. IdleWorker \in WorkerRecord /\ IdleWorker.pc = "idle"
  BY Zenon DEF IdleWorker, WorkerRecord, WorkerPcs
<1>3. worker'[w] = IdleWorker
  BY <1>1, InvType, Zenon DEF TypeOK
<1>4. WorkerInv(w)'
  BY <1>2, <1>3, Zenon DEF WorkerInv
<1>5. QED
  BY <1>1, <1>2, <1>4, WorkerQuiet, Zenon

LEMMA RecoverOneInv ==
    ASSUME ActionInv, NEW w \in Workers, RecoverOne(w)
    PROVE  ActionInv' /\ FencedStep
<1> DEFINE a == worker[w].cur
<1>1. Worker(w, "handle", "recover") /\ UNCHANGED <<leases, calls, recalls, sent>>
  BY Zenon DEF RecoverOne
<1>2. /\ active = w
      /\ pend = {}
      /\ a \in Actions
      /\ UNCHANGED <<leases, client, history>>
  BY <1>1, WorkerFacts, SMTT(30) DEF WorkerInv, history
<1>3. \/ TerminateIfRunning(w, a, "failed")
      \/ TerminateIfRunning(w, a, "uncertain")
      \/ GoTo(w, "inspecting") /\ UNCHANGED tables
  BY Zenon DEF RecoverOne
<1>4. QED
  BY <1>2, <1>3, GoToKeeps, TerminateKeeps, Zenon

\* What an answer of a driver may lead to.
LEMMA AnswerKeeps ==
    ASSUME ActionInv, NEW w \in Workers, NEW pc \in Awaiting, Resume(w, pc),
           LET a == worker[w].cur IN
           \/ CommitIfFenced(w, a)
           \/ TerminateIfRunning(w, a, "failed")
           \/ TerminateIfRunning(w, a, "uncertain")
           \/ ReserveRetry(w, a)
           \/ GoTo(w, "loop") /\ UNCHANGED tables
           \/ GoTo(w, "inspecting") /\ UNCHANGED tables
    PROVE  ActionInv' /\ FencedStep
<1> DEFINE a == worker[w].cur
<1>1. /\ active = Nobody
      /\ pend = {}
      /\ UNCHANGED <<leases, client, history>>
      /\ a \in Actions
  BY InvWorker, Zenon DEF Resume, LoopFree, WorkerInv, Awaiting
<1>2. CASE CommitIfFenced(w, a)
  <2>1. PICK state \in {"committed", "failed"} :
               TerminateIfRunning(w, a, state) /\ (state = "committed" => Fenced(a))
    BY <1>2, Zenon DEF CommitIfFenced
  <2>2. QED
    BY <1>1, <2>1, TerminateKeeps, Zenon
<1>3. QED
  BY <1>1, <1>2, TerminateKeeps, ReserveRetryKeeps, GoToKeeps, Zenon

LEMMA AnswerInv ==
    ASSUME ActionInv, NEW w \in Workers, NEW status \in Definite \cup {"running"},
           Answer(w, status)
    PROVE  ActionInv' /\ FencedStep
<1> DEFINE a == worker[w].cur
           Led == \/ CommitIfFenced(w, a)
                  \/ TerminateIfRunning(w, a, "failed")
                  \/ TerminateIfRunning(w, a, "uncertain")
                  \/ ReserveRetry(w, a)
                  \/ GoTo(w, "loop") /\ UNCHANGED tables
                  \/ GoTo(w, "inspecting") /\ UNCHANGED tables
<1>1. DispatchAnswer(w, status) => Resume(w, "calling") /\ Led
  BY Zenon DEF DispatchAnswer, Definite
<1>2. RecoveryAnswer(w, status) => Resume(w, "inspecting") /\ Led
  BY Zenon DEF RecoveryAnswer, Definite
<1>3. InspectAfterUnknown(w, status) => Resume(w, "inspecting") /\ Led
  BY Zenon DEF InspectAfterUnknown, Definite
<1>4. RetryAnswer(w, status) => Resume(w, "recalling") /\ Led
  BY Zenon DEF RetryAnswer, Definite
<1>5. QED
  BY <1>1, <1>2, <1>3, <1>4, AnswerKeeps, Zenon DEF Answer, Awaiting

LEMMA CallDriverInv ==
    ASSUME ActionInv, NEW w \in Workers, CallDriver(w)
    PROVE  ActionInv' /\ FencedStep
<1>0. PICK a \in Actions : a = worker[w].cur
  BY WorkerFacts, SMTT(30) DEF CallDriver, RetryDriver, WorkerInv
<1>1. /\ active = w
      /\ pend = {}
      /\ a \in Actions
      /\ calls[a] = 0
      /\ rep[a].state = "running"
      /\ acb[a].state = "running"
      /\ calls' = [calls EXCEPT ![a] = calls[a] + 1]
      /\ GoTo(w, "calling")
      /\ UNCHANGED <<acb, rep, pend, rows, grant, last_token, client, recalls, sent, crashes>>
  BY <1>0, WorkerFacts, Zenon DEF CallDriver, WorkerInv, Running, tables, leases
<1>2. PICK r \in WorkerRecord :
             /\ worker' = [worker EXCEPT ![w] = r]
             /\ r.pc = "calling"
             /\ r.cur = a
  BY <1>0, <1>1, GoToRecord, SMTT(30) DEF WorkerPcs
<1>3. active' = Nobody
  BY <1>1, Zenon DEF GoTo, Awaiting
<1>4. /\ LoopInv'
      /\ worker' \in [Workers -> WorkerRecord]
      /\ worker'[w] = r
      /\ \A v \in Workers : v # w => WorkerInv(v)'
      /\ \A b \in Actions : ClientInv(b)'
  BY <1>1, <1>2, <1>3, WorkerFrame, Zenon DEF Awaiting
<1>5. /\ calls' \in [Actions -> Nat]
      /\ calls'[a] = 1
      /\ \A b \in Actions : b # a => calls'[b] = calls[b]
  BY <1>1, InvType, SMTT(30) DEF TypeOK
<1>6. TypeOK' /\ PendInv'
  BY <1>1, <1>3, <1>4, <1>5, InvType, InvPend, Zenon DEF TypeOK, PendInv
<1>7. \A b \in Actions : RowInv(b)'
  <2>1. RowInv(a)'
    BY <1>1, <1>5, InvRow, SMTT(30) DEF RowInv, RowAgrees, RowCalls, RowGrants, Started
  <2>2. ASSUME NEW b \in Actions, b # a PROVE RowInv(b)'
    BY <1>1, <1>5, <2>2, InvRow, RowFrame, Zenon
  <2>3. QED
    BY <2>1, <2>2, Zenon
<1>8. WorkerInv(w)'
  BY <1>1, <1>2, <1>4, Zenon DEF WorkerInv
<1>9. OneTruthfulSignal' /\ FencedStep
  BY <1>1, InvSignal, Zenon DEF OneTruthfulSignal, FencedStep, TerminalIsFinal,
     CommitsUnderNewestLease, RunningKeepsLease
<1>10. QED
  BY <1>4, <1>6, <1>7, <1>8, <1>9, ZenonT(30) DEF ActionInv

LEMMA RetryDriverInv ==
    ASSUME ActionInv, NEW w \in Workers, RetryDriver(w)
    PROVE  ActionInv' /\ FencedStep
<1>0. PICK a \in Actions : a = worker[w].cur
  BY WorkerFacts, SMTT(30) DEF CallDriver, RetryDriver, WorkerInv
<1>1. /\ active = w
      /\ pend = {}
      /\ a \in Actions
      /\ acb[a].state # "absent"
      /\ recalls[a] = 0
      /\ acb[a].side = "pure"
      /\ acb[a].policy = "retry"
      /\ acb[a].retry_count >= 1
      /\ UNCHANGED <<leases, client, crashes, calls, sent>>
  BY <1>0, WorkerFacts, Zenon DEF RetryDriver, WorkerInv
<1>2. CASE TerminateIfRunning(w, a, "uncertain") /\ UNCHANGED recalls
  BY <1>0, <1>1, <1>2, TerminateKeeps, Zenon DEF history
<1>3. CASE /\ recalls' = [recalls EXCEPT ![a] = recalls[a] + 1]
           /\ GoTo(w, "recalling")
           /\ UNCHANGED tables
  <2>1. UNCHANGED <<acb, rep, pend, rows, grant, last_token, client, calls, sent, crashes>>
    BY <1>1, <1>3, Zenon DEF tables, leases
  <2>2. PICK r \in WorkerRecord :
               /\ worker' = [worker EXCEPT ![w] = r]
               /\ r.pc = "recalling"
               /\ r.cur = a
    BY <1>0, <1>3, GoToRecord, SMTT(30) DEF WorkerPcs
  <2>3. active' = Nobody
    BY <1>3, Zenon DEF GoTo, Awaiting
  <2>4. /\ LoopInv'
        /\ worker' \in [Workers -> WorkerRecord]
        /\ worker'[w] = r
        /\ \A v \in Workers : v # w => WorkerInv(v)'
        /\ \A b \in Actions : ClientInv(b)'
    BY <1>1, <2>1, <2>2, <2>3, WorkerFrame, Zenon DEF Awaiting
  <2>5. /\ recalls' \in [Actions -> Nat]
        /\ recalls'[a] = 1
        /\ \A b \in Actions : b # a => recalls'[b] = recalls[b]
    BY <1>1, <1>3, InvType, SMTT(30) DEF TypeOK
  <2>6. TypeOK' /\ PendInv'
    BY <1>1, <2>1, <2>3, <2>4, <2>5, InvType, InvPend, ZenonT(30) DEF TypeOK, PendInv
  <2>7. \A b \in Actions : RowInv(b)'
    <3>1. RowInv(a)'
      BY <1>1, <2>1, <2>5, InvRow, SMTT(30) DEF RowInv, RowAgrees, RowCalls, RowGrants
    <3>2. ASSUME NEW b \in Actions, b # a PROVE RowInv(b)'
      BY <2>1, <2>5, <3>2, InvRow, RowFrame, Zenon
    <3>3. QED
      BY <3>1, <3>2, Zenon
  <2>8. WorkerInv(w)'
    BY <1>1, <2>2, <2>4, Zenon DEF WorkerInv
  <2>9. OneTruthfulSignal' /\ FencedStep
    BY <2>1, InvSignal, Zenon DEF OneTruthfulSignal, FencedStep, TerminalIsFinal,
       CommitsUnderNewestLease, RunningKeepsLease
  <2>10. QED
    BY <2>4, <2>6, <2>7, <2>8, <2>9, Zenon DEF ActionInv
<1>4. QED
  BY <1>0, <1>2, <1>3, Zenon DEF RetryDriver

LEMMA ReleaseLeasesInv ==
    ASSUME ActionInv, NEW w \in Workers, ReleaseLeases(w)
    PROVE  ActionInv' /\ FencedStep
<1> DEFINE a == worker[w].cur
           pc == IF worker[w].sig = "none" THEN "loop" ELSE "signal"
<1>1. /\ active = w
      /\ pend = {}
      /\ a \in Actions
      /\ ~Running(a)
      /\ worker[w].sig # "none" => /\ acb[a].state \in Terminal
                                   /\ worker[w].sig = SignalOf(acb[a].state)
                                   /\ sent[a] = <<>>
      /\ GoTo(w, pc)
      /\ rows' = [rows EXCEPT ![a] = "none"] \/ rows' = rows
      /\ UNCHANGED <<acb, rep, pend, grant, last_token, client, calls, recalls, sent, crashes>>
  <2>1. /\ active = w /\ pend = {} /\ UNCHANGED <<client, crashes>>
        /\ worker[w].pc = "release" /\ WorkerInv(w)
    BY WorkerFacts, Zenon DEF ReleaseLeases
  <2>2. /\ UNCHANGED <<acb, rep, pend, grant, last_token, client, calls, recalls, sent, crashes>>
        /\ rows' = [rows EXCEPT ![a] = "none"] \/ rows' = rows
    BY <2>1, SMTT(30) DEF ReleaseLeases, tables, Unleased
  <2>3. /\ a \in Actions /\ ~Running(a)
        /\ worker[w].sig # "none" => /\ acb[a].state \in Terminal
                                     /\ worker[w].sig = SignalOf(acb[a].state)
                                     /\ sent[a] = <<>>
    BY <2>1, Zenon DEF WorkerInv
  <2>4. GoTo(w, pc)
    BY Zenon DEF ReleaseLeases
  <2> QED BY <2>1, <2>2, <2>3, <2>4, Zenon
<1>2. PICK r \in WorkerRecord :
             /\ worker' = [worker EXCEPT ![w] = r]
             /\ r.pc = pc
             /\ r.cur = a
             /\ r.sig = worker[w].sig
  BY <1>1, GoToRecord, SMTT(30) DEF WorkerPcs
<1>3. active' = w
  BY <1>1, Zenon DEF GoTo, Awaiting
<1>4. /\ LoopInv'
      /\ worker' \in [Workers -> WorkerRecord]
      /\ worker'[w] = r
      /\ \A v \in Workers : v # w => WorkerInv(v)'
      /\ \A b \in Actions : ClientInv(b)'
  BY <1>1, <1>2, <1>3, WorkerFrame, Zenon
<1>5. WorkerInv(w)'
  BY <1>1, <1>2, <1>4, Zenon DEF WorkerInv
<1> HIDE DEF a, pc
<1>6. TypeOK' /\ PendInv'
  BY <1>1, <1>3, <1>4, InvType, InvPend, Zenon DEF TypeOK, PendInv
<1>7. /\ \A b \in Actions : RowInv(b)'
      /\ OneTruthfulSignal'
      /\ TerminalIsFinal
      /\ CommitsUnderNewestLease
  BY <1>1, RowsKept, Zenon
<1>8. RunningKeepsLease
  BY <1>1, InvType, Zenon DEF RunningKeepsLease, TypeOK
<1>9. QED
  BY <1>4, <1>5, <1>6, <1>7, <1>8, ZenonT(30) DEF ActionInv, FencedStep

LEMMA SendSignalInv ==
    ASSUME ActionInv, NEW w \in Workers, SendSignal(w)
    PROVE  ActionInv' /\ FencedStep
<1> DEFINE a == worker[w].cur
<1>1. /\ active = w
      /\ pend = {}
      /\ a \in Actions
      /\ acb[a].state \in Terminal
      /\ worker[w].sig = SignalOf(acb[a].state)
      /\ sent[a] = <<>>
      /\ sent' = [sent EXCEPT ![a] = Append(sent[a], worker[w].sig)]
      /\ GoTo(w, "loop")
      /\ UNCHANGED <<acb, rep, pend, rows, grant, last_token, client, calls, recalls, crashes>>
  <2>1. /\ active = w /\ pend = {} /\ UNCHANGED <<client, crashes>>
        /\ worker[w].pc = "signal" /\ WorkerInv(w)
    BY WorkerFacts, Zenon DEF SendSignal
  <2>2. UNCHANGED <<acb, rep, pend, rows, grant, last_token, client, calls, recalls, crashes>>
    BY <2>1, SMTT(30) DEF SendSignal, tables, leases
  <2>3. /\ a \in Actions /\ acb[a].state \in Terminal
        /\ worker[w].sig = SignalOf(acb[a].state) /\ sent[a] = <<>>
    BY <2>1, Zenon DEF WorkerInv
  <2>4. sent' = [sent EXCEPT ![a] = Append(sent[a], worker[w].sig)] /\ GoTo(w, "loop")
    BY Zenon DEF SendSignal
  <2> QED BY <2>1, <2>2, <2>3, <2>4, Zenon
<1>2. PICK r \in WorkerRecord :
             /\ worker' = [worker EXCEPT ![w] = r]
             /\ r.pc = "loop"
  BY <1>1, GoToRecord, SMTT(30) DEF WorkerPcs
<1>3. active' = w
  BY <1>1, Zenon DEF GoTo, Awaiting
<1>4. /\ LoopInv'
      /\ worker' \in [Workers -> WorkerRecord]
      /\ worker'[w] = r
      /\ \A v \in Workers : v # w => WorkerInv(v)'
      /\ \A b \in Actions : ClientInv(b)'
  BY <1>1, <1>2, <1>3, WorkerFrame, Zenon
<1>5. WorkerInv(w)'
  BY <1>2, <1>4, Zenon DEF WorkerInv
<1>6. SignalOf(acb[a].state) \in Signals
  BY Zenon DEF SignalOf, Signals
<1>7. Append(sent[a], worker[w].sig) = <<SignalOf(acb[a].state)>>
  BY <1>1, SMTT(30)
<1> HIDE DEF a
<1>8. /\ sent' \in [Actions -> Seq(Signals)]
      /\ sent'[a] = <<SignalOf(acb[a].state)>>
      /\ \A b \in Actions : b # a => sent'[b] = sent[b]
  BY <1>1, <1>6, <1>7, InvType, SMTT(30) DEF TypeOK
<1>9. TypeOK' /\ PendInv'
  BY <1>1, <1>3, <1>4, <1>8, InvType, InvPend, Zenon DEF TypeOK, PendInv
<1>10. \A b \in Actions : RowInv(b)'
  BY <1>1, InvRow, RowFrame, Zenon
<1>11. OneTruthfulSignal'
  BY <1>1, <1>8, InvSignal, Zenon DEF OneTruthfulSignal
<1>12. FencedStep
  BY <1>1, Zenon DEF FencedStep, TerminalIsFinal, CommitsUnderNewestLease, RunningKeepsLease
<1>13. QED
  BY <1>4, <1>5, <1>9, <1>10, <1>11, <1>12, ZenonT(30) DEF ActionInv

-----------------------------------------------------------------------------
(* Every step, and the theorems.                                           *)

LEMMA ActionNext ==
    ASSUME ActionInv, Next
    PROVE  ActionInv' /\ FencedStep
<1>1. ASSUME NEW a \in Actions, ClientStep(a) PROVE ActionInv' /\ FencedStep
  BY <1>1, AcquireNothingInv, AcquireLeaseInv, AcquireFailsInv, AdmitInv,
     MarkIntentDurableInv, AdmissionRaisesInv, CompensateInv,
     ReleaseAfterCompensationInv, CancelReleasesInv, ClientDoneInv, Zenon DEF ClientStep
<1>2. ASSUME NEW w \in Workers, WorkerStep(w) PROVE ActionInv' /\ FencedStep
  BY <1>2, TakeNextInv, RecoverOneInv, EndRecoveryInv, DispatchOneInv, EndTickInv,
     CallDriverInv, RetryDriverInv, ReleaseLeasesInv, SendSignalInv, Zenon DEF WorkerStep
<1>3. QED
  BY <1>1, <1>2, SubmitInv, CancelInv, ExpireInv, OwnerReleasesInv, BeginTickInv,
     AnswerInv, ProjectInv, CrashInv, RebuildInv, Zenon DEF Next

LEMMA ActionStutter ==
    ASSUME ActionInv, UNCHANGED vars
    PROVE  ActionInv'
<1>1. UNCHANGED <<acb, rep, pend, rows, grant, last_token, active, client, worker, calls,
                  recalls, sent, crashes>>
  BY Zenon DEF vars, tables, leases, history
<1>2. UNCHANGED <<tables, grant, last_token, active, client, worker, history>>
  BY <1>1, Zenon DEF tables, history
<1>3. QED
  BY <1>1, <1>2, RowsOnly, InvType, Zenon DEF TypeOK

\* The invariant that ties projection, journal, coroutines and counters
\* together is inductive (ActionService, Kernel.tick, Dispatcher).
THEOREM ActionInvariant == Spec => []ActionInv
<1>1. Init => ActionInv
  BY ActionInit, Zenon
<1>2. ActionInv /\ [Next]_vars => ActionInv'
  BY ActionNext, ActionStutter, Zenon
<1>3. QED
  BY <1>1, <1>2, PTL DEF Spec

LEMMA InvImpliesSafe == ActionInv => ActionsAreSafe
<1> SUFFICES ASSUME ActionInv PROVE ActionsAreSafe
  BY Zenon
<1>1. ASSUME NEW a \in Actions
      PROVE  /\ calls[a] <= 1
             /\ recalls[a] <= 1
             /\ recalls[a] = 1 => acb[a].side = "pure" /\ acb[a].policy = "retry"
  BY InvRow, Zenon DEF RowInv, RowCalls
<1>2. QED
  BY <1>1, Zenon DEF ActionInv, ActionsAreSafe, DispatchBound

\* For any number of kernels, actions and crashes: an action reaches its
\* driver at most once (and once more only if pure with policy retry), and
\* its owner is told at most one outcome, the one the action has.
THEOREM ActionsSafe == Spec => []ActionsAreSafe
  BY ActionInvariant, InvImpliesSafe, PTL

\* For any number of kernels, actions and crashes: terminal states are final,
\* a commit is made under the newest lease, and no kernel takes the lease of a
\* running action.
THEOREM ActionStepsFenced == Spec => ActionStepsAreFenced
<1>1. ActionInv /\ [Next]_vars =>
        [TerminalIsFinal /\ CommitsUnderNewestLease /\ RunningKeepsLease]_vars
  BY ActionNext, Zenon DEF FencedStep
<1>2. QED
  BY <1>1, ActionInvariant, PTL DEF Spec, ActionStepsAreFenced
=============================================================================
