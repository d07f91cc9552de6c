------------------------- MODULE ProvenanceJournal -------------------------
(***************************************************************************)
(* The hash-chained journal of observed reads and writes: one JSONL file   *)
(* that several store instances, in one process or in many, append to.     *)
(* No lock is shared: an instance reloads and verifies the file, chains    *)
(* its events to the tail it saw, and appends them; another instance may   *)
(* append in between, a write may stop part way and leave a torn line.     *)
(*                                                                         *)
(* An event's body is a number no other event has, and stands for its      *)
(* hash: the hash covers the body, the sequence and the previous hash.     *)
(***************************************************************************)
EXTENDS SequencesExt

CONSTANTS
    Stores,      \* the open instances
    Keys,        \* idempotency keys; "" is no key
    MaxBodies,   \* bound on the events ever built
    MaxTears     \* bound on the appends that stop part way

VARIABLES
    file,    \* the lines of the journal
    mem,     \* mem[s]: the events instance s holds
    call,    \* call[s]: the append s is in, as a set of at most one record
    next,    \* the next unused body
    acked,   \* events an append returned to its caller
    tears

vars == <<file, mem, call, next, acked, tears>>

Line(body, seq, prev, key) ==
    [body |-> body, seq |-> seq, prev |-> prev, key |-> key, whole |-> TRUE]

TailOf(lines) == IF lines = <<>> THEN 0 ELSE Last(lines).body

\* one contiguous run: every line parses, counts on from its predecessor,
\* and names its predecessor's hash
_verify_run(lines) ==
    \A i \in 1..Len(lines) :
        /\ lines[i].whole
        /\ lines[i].seq = i
        /\ lines[i].prev = (IF i = 1 THEN 0 ELSE lines[i - 1].body)
        /\ \A j \in 1..(i - 1) : lines[j].body # lines[i].body

\* a tolerant load: lines that do not verify are skipped
LoadFile_SkipsBad(lines) ==
    LET keep(acc, line) ==
            IF line.whole /\ line.seq = Len(acc) + 1 /\ line.prev = TailOf(acc)
            THEN Append(acc, line) ELSE acc
    IN  {FoldLeft(keep, <<>>, lines)}

\* the events a load returns, or nothing when it raises
LoadFile(lines) == IF _verify_run(lines) THEN {lines} ELSE {}

\* chain the events of a batch to the tail; an event whose key is already
\* recorded is answered with the recorded one
Stage(lines, batch) ==
    LET known(done, k) ==
            SelectSeq(lines \o done.staged, LAMBDA l : k # "" /\ l.key = k)
        add(done, k) ==
            IF known(done, k) # <<>>
            THEN [done EXCEPT !.result = @ \cup {known(done, k)[1]}]
            ELSE LET all == lines \o done.staged
                     l   == Line(next + Len(done.staged), Len(all) + 1,
                                 TailOf(all), k)
                 IN  [staged |-> Append(done.staged, l),
                      result |-> done.result \cup {l}]
    IN  FoldLeft(add, [staged |-> <<>>, result |-> {}], batch)

(***************************************************************************)
(* append_many: reload and stage, then write.                              *)
(***************************************************************************)
Batches == {<<k>> : k \in Keys} \cup {<<k, m>> : k, m \in Keys}

AppendReload(s, batch) ==
    /\ call[s] = {}
    /\ \E lines \in LoadFile(file) :
        LET st == Stage(lines, batch)
        IN  /\ next + Len(st.staged) <= MaxBodies + 1
            /\ next' = next + Len(st.staged)
            /\ mem' = [mem EXCEPT ![s] = lines]
            /\ call' = [call EXCEPT ![s] = {st}]
    /\ UNCHANGED <<file, acked, tears>>

\* lines written after a torn line share its text and do not parse
Appended(lines) ==
    IF file # <<>> /\ ~Last(file).whole /\ lines # <<>>
    THEN file \o [i \in 1..Len(lines) |->
                    IF i = 1 THEN [lines[1] EXCEPT !.whole = FALSE] ELSE lines[i]]
    ELSE file \o lines

AppendWrite(s) ==
    \E st \in call[s] :
        /\ file' = Appended(st.staged)
        /\ mem' = [mem EXCEPT ![s] = @ \o st.staged]
        /\ acked' = acked \cup st.result
        /\ call' = [call EXCEPT ![s] = {}]
        /\ UNCHANGED <<next, tears>>

\* the write fails or the process dies: a prefix of the lines is on disk,
\* its last one possibly torn; nothing is returned
AppendTorn(s) ==
    \E st \in call[s] :
        /\ st.staged # <<>>
        /\ tears < MaxTears
        /\ \E n \in 1..Len(st.staged), torn \in BOOLEAN :
            file' = Appended([i \in 1..n |->
                        [st.staged[i] EXCEPT !.whole = ~(torn /\ i = n)]])
        /\ tears' = tears + 1
        /\ call' = [call EXCEPT ![s] = {}]
        /\ UNCHANGED <<mem, next, acked>>

\* replay, and a newly opened instance: both load from disk
Replay(s) ==
    /\ call[s] = {}
    /\ \E lines \in LoadFile(file) : mem' = [mem EXCEPT ![s] = lines]
    /\ UNCHANGED <<file, call, next, acked, tears>>

Init ==
    /\ file = <<>>
    /\ mem = [s \in Stores |-> <<>>]
    /\ call = [s \in Stores |-> {}]
    /\ next = 1
    /\ acked = {}
    /\ tears = 0

Next ==
    \E s \in Stores :
        \/ \E batch \in Batches : AppendReload(s, batch)
        \/ AppendWrite(s)
        \/ AppendTorn(s)
        \/ Replay(s)

Spec == Init /\ [][Next]_vars

(***************************************************************************)
(* A journal that loads holds every event any append ever returned, with   *)
(* one event per idempotency key: racing instances and torn writes may     *)
(* make the journal unreadable, never silently shorter or forked (the      *)
(* reload in append_many "cannot silently fork the chain").                *)
(***************************************************************************)
LoadedIsComplete ==
    \A lines \in LoadFile(file) :
        /\ acked \subseteq Range(lines)
        /\ \A i, j \in 1..Len(lines) :
            lines[i].key = lines[j].key /\ lines[i].key # "" => i = j

=============================================================================
