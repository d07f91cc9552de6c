-------------------------- MODULE DeadlockRecovery --------------------------
(***************************************************************************)
(* Deadlock detection and recovery in the kernel's tick                    *)
(* (LeaseService.detect_deadlocks and _find_cycles,                        *)
(* AgentKernel._recover_deadlock and _select_victim).                      *)
(*                                                                         *)
(* The search is the code's iterative depth-first traversal, one step per  *)
(* neighbour looked at.  It runs over a snapshot of the wait-for graph;    *)
(* recovery then walks over the cycles found, while each victim changes    *)
(* the graph that the rest of the list was computed from.  No coroutine    *)
(* runs in between.  Pids are numbers; their order is the code's           *)
(* lexicographic order of pid strings.                                     *)
(***************************************************************************)
EXTENDS Integers, FiniteSets, SequencesExt

CONSTANTS
    NumPids,     \* processes 1 .. NumPids
    Priorities,  \* priorities processes are spawned with
    MaxExtra     \* bound on the leases of a process that nobody waits for

Pids == 1..NumPids

VARIABLES
    edges,     \* who waits for a lease of whom, as the tables say now
    priority,
    held,      \* number of leases each process holds
    failed,    \* processes in state FAILED
    raised,    \* an exception left tick()
    phase,     \* idle, search or recover
    wait_for,  \* the snapshot detect_deadlocks reads
    visited, work, stack,   \* locals of _find_cycles
    cycles,    \* cycles found in this tick
    todo       \* cycles recovery has not handled yet

search == <<wait_for, visited, work, stack, cycles>>
vars == <<edges, priority, held, failed, raised, phase, search, todo>>

Graphs == {g \in [Pids -> SUBSET Pids] : \A p \in Pids : p \notin g[p]}

WaitersFor(p) == {q \in Pids : p \in edges[q]}

\* A failed atomic_acquire leaves one wait edge, to the first busy resource of
\* its bundle.  Each waiter here waits for a resource of its own, which the
\* processes it waits for hold in shared mode: so every graph can come about,
\* and a process holds one lease per process waiting for it, besides others.
Init ==
    /\ edges \in Graphs
    /\ priority \in [Pids -> Priorities]
    /\ \E extra \in [Pids -> 0..MaxExtra] :
          held = [p \in Pids |-> Cardinality(WaitersFor(p)) + extra[p]]
    /\ failed = {}
    /\ raised = FALSE
    /\ phase = "idle"
    /\ wait_for = [p \in Pids |-> {}]
    /\ visited = {}
    /\ work = <<>>
    /\ stack = <<>>
    /\ cycles = {}
    /\ todo = {}

-----------------------------------------------------------------------------
(* _find_cycles                                                            *)

Least(S) == CHOOSE x \in S : \A y \in S : x <= y

\* detect_deadlocks joins lease_waiters with leases_projection.
BeginDetection ==
    /\ phase = "idle"
    /\ phase' = "search"
    /\ wait_for' = edges
    /\ visited' = {}
    /\ work' = <<>>
    /\ stack' = <<>>
    /\ cycles' = {}
    /\ UNCHANGED <<edges, priority, held, failed, raised, todo>>

Frame(p) == [node |-> p, neighbours |-> wait_for[p]]

Roots == {p \in Pids : wait_for[p] # {}} \ visited

StartRoot ==
    /\ phase = "search"
    /\ work = <<>>
    /\ Roots # {}
    /\ work' = <<Frame(Least(Roots))>>
    /\ stack' = <<Least(Roots)>>
    /\ UNCHANGED <<edges, priority, held, failed, raised, phase, wait_for,
                   visited, cycles, todo>>

\* Rotated to start at the smallest pid.
Normalized(c) ==
    LET i == CHOOSE j \in DOMAIN c : c[j] = Least(ToSet(c))
    IN  SubSeq(c, i, Len(c)) \o SubSeq(c, 1, i - 1)

Top == work[Len(work)]
Neighbour == Least(Top.neighbours)
OnStack(p) == p \in ToSet(stack)
CycleTo(p) == LET i == CHOOSE j \in DOMAIN stack : stack[j] = p
              IN  Normalized(SubSeq(stack, i, Len(stack)))
Advanced == [work EXCEPT ![Len(work)].neighbours = @ \ {Neighbour}]

\* Mutant: an edge to a finished node is taken for a back edge.
LookAtNeighbour_VisitedToo ==
    /\ phase = "search"
    /\ work # <<>>
    /\ Top.neighbours # {}
    /\ IF OnStack(Neighbour) \/ Neighbour \in visited
       THEN /\ cycles' = cycles \cup {IF OnStack(Neighbour) THEN CycleTo(Neighbour)
                                      ELSE Normalized(Append(stack, Neighbour))}
            /\ work' = Advanced
            /\ UNCHANGED stack
       ELSE /\ work' = Append(Advanced, Frame(Neighbour))
            /\ stack' = Append(stack, Neighbour)
            /\ UNCHANGED cycles
    /\ UNCHANGED <<edges, priority, held, failed, raised, phase, wait_for, visited, todo>>

\* Mutant: position 0 of the stack is taken for "not on the stack" (a test
\* of truth in place of "is not None"), and the node for visited.
LookAtNeighbour_RootMissed ==
    /\ phase = "search"
    /\ work # <<>>
    /\ Top.neighbours # {}
    /\ \/ /\ OnStack(Neighbour)
          /\ cycles' = IF Neighbour = stack[1] THEN cycles
                       ELSE cycles \cup {CycleTo(Neighbour)}
          /\ work' = Advanced
          /\ UNCHANGED stack
       \/ /\ ~OnStack(Neighbour)
          /\ work' = Append(Advanced, Frame(Neighbour))
          /\ stack' = Append(stack, Neighbour)
          /\ UNCHANGED cycles
    /\ UNCHANGED <<edges, priority, held, failed, raised, phase, wait_for, visited, todo>>

\* One iteration of the for loop over the neighbours of the top node.
LookAtNeighbour ==
    /\ phase = "search"
    /\ work # <<>>
    /\ Top.neighbours # {}
    /\ \/ /\ OnStack(Neighbour)
          /\ cycles' = cycles \cup {CycleTo(Neighbour)}
          /\ work' = Advanced
          /\ UNCHANGED stack
       \/ /\ ~OnStack(Neighbour) /\ Neighbour \in visited
          /\ work' = Advanced
          /\ UNCHANGED <<cycles, stack>>
       \/ /\ ~OnStack(Neighbour) /\ Neighbour \notin visited
          /\ work' = Append(Advanced, Frame(Neighbour))
          /\ stack' = Append(stack, Neighbour)
          /\ UNCHANGED cycles
    /\ UNCHANGED <<edges, priority, held, failed, raised, phase, wait_for, visited, todo>>

\* Mutant: the finished node stays on the stack.
FinishNode_StackKept ==
    /\ phase = "search"
    /\ work # <<>>
    /\ Top.neighbours = {}
    /\ visited' = visited \cup {Top.node}
    /\ work' = Front(work)
    /\ UNCHANGED <<edges, priority, held, failed, raised, phase, wait_for, stack, cycles, todo>>

FinishNode ==
    /\ phase = "search"
    /\ work # <<>>
    /\ Top.neighbours = {}
    /\ visited' = visited \cup {Top.node}
    /\ work' = Front(work)
    /\ stack' = Front(stack)
    /\ UNCHANGED <<edges, priority, held, failed, raised, phase, wait_for, cycles, todo>>

EndSearch ==
    /\ phase = "search"
    /\ work = <<>>
    /\ Roots = {}
    /\ phase' = "recover"
    /\ todo' = cycles
    /\ UNCHANGED <<edges, priority, held, failed, raised, search>>

-----------------------------------------------------------------------------
(* Recovery                                                                *)

\* The order of the returned list: sequences compared element by element.
Before(c, d) ==
    \/ \E i \in DOMAIN c \cap DOMAIN d :
          c[i] < d[i] /\ \A j \in 1..(i - 1) : c[j] = d[j]
    \/ Len(c) < Len(d) /\ \A j \in DOMAIN c : c[j] = d[j]

FirstCycle == CHOOSE c \in todo : \A d \in todo : c = d \/ Before(c, d)

\* _select_victim: lowest (priority, leases held, pid).
Precedes(p, q) ==
    \/ priority[p] < priority[q]
    \/ priority[p] = priority[q] /\ held[p] < held[q]
    \/ priority[p] = priority[q] /\ held[p] = held[q] /\ p < q

\* Mutant: the victim is sought among all processes.
SelectVictim_Anybody(c) ==
    CHOOSE p \in Pids : \A q \in Pids \ {p} : Precedes(p, q)

SelectVictim(c) ==
    CHOOSE p \in ToSet(c) : \A q \in ToSet(c) \ {p} : Precedes(p, q)

\* The victim is failed, then release_all_for_pid removes its leases and its
\* wait edges.
Without(p) == [q \in Pids |-> IF q = p THEN {} ELSE edges[q] \ {p}]

\* Mutant: the victim's leases stay.
RecoverCycle_KeepsLeases ==
    LET victim == SelectVictim(FirstCycle) IN
    /\ phase = "recover"
    /\ todo # {}
    /\ victim \notin failed
    /\ failed' = failed \cup {victim}
    /\ todo' = todo \ {FirstCycle}
    /\ UNCHANGED <<edges, held, priority, raised, phase, search>>

RecoverCycle ==
    LET victim == SelectVictim(FirstCycle) IN
    /\ phase = "recover"
    /\ todo # {}
    /\ victim \notin failed
    /\ failed' = failed \cup {victim}
    /\ edges' = Without(victim)
    /\ held' = [held EXCEPT ![victim] = 0]
    /\ todo' = todo \ {FirstCycle}
    /\ UNCHANGED <<priority, raised, phase, search>>

\* The victim of an earlier cycle is chosen again: the transition raises
\* TerminalStateError, which suppress(IllegalStateTransition) lets through.
RecoverCycleRaises ==
    /\ phase = "recover"
    /\ todo # {}
    /\ SelectVictim(FirstCycle) \in failed
    /\ raised' = TRUE
    /\ phase' = "idle"
    /\ todo' = {}
    /\ UNCHANGED <<edges, priority, held, failed, search>>

EndRecovery ==
    /\ phase = "recover"
    /\ todo = {}
    /\ phase' = "idle"
    /\ UNCHANGED <<edges, priority, held, failed, raised, search, todo>>

Next ==
    \/ BeginDetection \/ StartRoot \/ LookAtNeighbour \/ FinishNode \/ EndSearch
    \/ RecoverCycle \/ RecoverCycleRaises \/ EndRecovery

\* One coroutine runs all of this without an await, and the caller ticks again.
Fairness == WF_vars(Next)
Spec == Init /\ [][Next]_vars /\ Fairness

-----------------------------------------------------------------------------
(* Properties                                                              *)

\* What a path of the graph reaches from p in one or more steps.
Reach(g, p) ==
    LET upto[n \in 0..NumPids] ==
          IF n = 0 THEN g[p]
          ELSE upto[n - 1] \cup UNION {g[q] : q \in upto[n - 1]}
    IN  upto[NumPids]

Deadlocked(g) == {p \in Pids : p \in Reach(g, p)}

\* The processes that wait for each other, directly or not.
Group(g, p) == {q \in Reach(g, p) : p \in Reach(g, q)}

\* The search and recovery state has the shape of the code's locals.
TypeOK ==
    /\ edges \in Graphs
    /\ wait_for \in Graphs
    /\ priority \in [Pids -> Priorities]
    /\ held \in [Pids -> Nat]
    /\ failed \subseteq Pids
    /\ raised \in BOOLEAN
    /\ phase \in {"idle", "search", "recover"}
    /\ visited \subseteq Pids
    /\ Len(work) = Len(stack)
    /\ \A i \in DOMAIN work : work[i].node = stack[i]
    /\ todo \subseteq cycles

\* "Every cycle reported here is genuine" (_find_cycles): each one is a cycle
\* of distinct processes of the graph, written from its smallest pid.
ReportedCyclesAreGenuine ==
    \A c \in cycles :
        /\ Cardinality(ToSet(c)) = Len(c)
        /\ \A i \in DOMAIN c : c[(i % Len(c)) + 1] \in wait_for[c[i]]
        /\ \A i \in DOMAIN c : c[1] <= c[i]

\* "At least one genuine cycle per deadlocked group" (_find_cycles): when the
\* search ends, every set of mutually waiting processes has a reported cycle.
EveryGroupIsReported ==
    phase = "recover" =>
        \A p \in Deadlocked(wait_for) :
            \E c \in cycles : ToSet(c) \subseteq Group(wait_for, p)

\* No process is failed that was not part of a deadlock when it was detected.
VictimsWereDeadlocked ==
    failed' \ failed \subseteq Deadlocked(wait_for)

\* Ticking goes on until nobody is deadlocked, whatever the victims are.
DeadlocksAreResolved == <>[](Deadlocked(edges) = {})
=============================================================================
