---------------------------- MODULE DurableState ----------------------------
(***************************************************************************)
(* SchedulerStateStore (durable_state.py): the scheduler's event journal   *)
(* with its hash chain, the projection snapshot that is committed with it, *)
(* and the compare-and-swap between scheduler processes on one database.   *)
(*                                                                         *)
(* A projection is a set of claims; the hash of a value is the value.  An  *)
(* event row carries its payload and the chain it was hashed with.         *)
(***************************************************************************)
EXTENDS Integers, FiniteSets, SequencesExt

CONSTANTS Writers,      \* scheduler processes
          Claims,       \* claims a projection may hold
          Rivals,       \* claims that are ACTIVE on one task
          EventIds,
          MinItems,     \* _NORMALIZED_PROJECTION_MIN_ITEMS
          ScrubEvery,   \* SCRUB_EVERY_WRITES
          MaxEvents, MaxGeneration, MaxFaults   \* bounds

VARIABLES events,    \* scheduler_events: rows [seq, id, json, hash]
          snap,      \* scheduler_snapshot, NoSnap when missing
          rows,      \* the normalized projection tables
          writer,    \* per process: token, verified prefix, projection held
          truth,     \* ghost: the projection last committed
          carried,   \* ghost: writes committed over damaged history
          faults

vars == <<events, snap, rows, writer, truth, carried, faults>>

Edited == "edited"   \* the payload of a row changed by hand
NoSnap == [gen |-> -1, state |-> {}, hash |-> {}, seq |-> 0, tail |-> <<>>,
           normal |-> FALSE]
Unbound == [NoSnap EXCEPT !.gen = -2]
NewWriter == [tok |-> Unbound, seq |-> 0, hash |-> <<>>, writes |-> 0,
              mem |-> {}]

Token(s) == [s EXCEPT !.state = {}]

Init ==
  /\ events = <<>> /\ snap = NoSnap /\ rows = {}
  /\ writer = [w \in Writers |-> NewWriter]
  /\ truth = {} /\ carried = 0 /\ faults = 0

(* The rows after seq, in order, and whether they continue the chain. *)
VerifyEventsFrom(seq, hash) ==
  LET run == SelectSeq(events, LAMBDA e : e.seq > seq)
      chain[i \in 0..Len(run)] ==
        IF i = 0 THEN hash ELSE Append(chain[i - 1], run[i].json)
  IN [ok |-> \A i \in 1..Len(run) : /\ run[i].seq = seq + i
                                    /\ run[i].hash = chain[i]
                                    /\ run[i].json = run[i].id,
      seq |-> seq + Len(run), hash |-> chain[Len(run)]]

ValidateProjectionInvariants(p) == Cardinality(p \cap Rivals) <= 1

(* Every row of a normalized projection is hashed, and so is an inline one; *)
(* rows beside an inline snapshot are refused. *)
ProjectionOk(s) ==
  /\ s.hash = s.state
  /\ IF s.normal THEN rows = s.state ELSE rows = {}
  /\ ValidateProjectionInvariants(s.state)

LoadInTransaction ==
  LET v == VerifyEventsFrom(0, <<>>)
  IN /\ v.ok
     /\ IF snap = NoSnap THEN v.seq = 0 /\ rows = {}
        ELSE ProjectionOk(snap) /\ snap.seq = v.seq /\ snap.tail = v.hash

(* Corrupt state is refused and nothing is exposed. *)
Load(w) ==
  /\ LET v == VerifyEventsFrom(0, <<>>)
     IN writer' = IF ~LoadInTransaction THEN writer
                  ELSE [writer EXCEPT ![w] =
                         [tok |-> Token(snap), seq |-> v.seq, hash |-> v.hash,
                          writes |-> 0, mem |-> snap.state]]
  /\ UNCHANGED <<events, snap, rows, truth, carried, faults>>

(* Only what arrived since the last verification is verified, except every *)
(* ScrubEvery writes. *)
EventTail_NeverFull(w) ==
  [v |-> VerifyEventsFrom(writer[w].seq, writer[w].hash), writes |-> 0]

EventTail(w) ==
  LET full == writer[w].writes >= ScrubEvery
      v == IF full THEN VerifyEventsFrom(0, <<>>)
           ELSE VerifyEventsFrom(writer[w].seq, writer[w].hash)
  IN [v |-> v, writes |-> IF full THEN 0 ELSE writer[w].writes + 1]

AssertWriteToken_NoCas(w, v) ==
  /\ snap = NoSnap => v.seq = 0 /\ rows = {}
  /\ snap # NoSnap => /\ ProjectionOk(snap) /\ snap.seq = v.seq
                      /\ snap.tail = v.hash

AssertWriteToken(w, v) ==
  /\ IF snap = NoSnap THEN v.seq = 0 /\ rows = {}
     ELSE ProjectionOk(snap) /\ snap.seq = v.seq /\ snap.tail = v.hash
  /\ IF writer[w].tok = Unbound THEN snap = NoSnap
     ELSE writer[w].tok = Token(snap)

(* An event that is in the journal already is skipped if it is the same. *)
Stored(id) == {i \in 1..Len(events) : events[i].id = id}

SameEvent(id) ==
  \A i \in Stored(id) :
    /\ events[i].json = id
    /\ \/ events[i].seq = 1 /\ events[i].hash = <<id>>
       \/ \E j \in 1..Len(events) : /\ events[j].seq = events[i].seq - 1
                                    /\ events[i].hash = Append(events[j].hash, id)

AppendedEvents(batch, v) ==
  LET new == SelectSeq(batch, LAMBDA id : Stored(id) = {})
  IN [i \in 1..Len(new) |->
        [seq |-> v.seq + i, id |-> new[i], json |-> new[i],
         hash |-> v.hash \o SubSeq(new, 1, i)]]

(* Every projection table is made equal to the rows wanted. *)
SyncRows(p, normal) == rows' = IF normal THEN p ELSE rows

WriteSnapshot(p, v, more, normal) ==
  snap' = [gen |-> IF snap = NoSnap THEN 1 ELSE snap.gen + 1,
           state |-> p, hash |-> p, seq |-> v.seq + Len(more),
           tail |-> v.hash \o [i \in 1..Len(more) |-> more[i].json],
           normal |-> normal]

(* Once normalized, always normalized. *)
WriteProjection(p, v, more) ==
  LET normal == Cardinality(p) >= MinItems \/ snap.normal
  IN SyncRows(p, normal) /\ WriteSnapshot(p, v, more, normal)

InvalidateValidatedPrefix(w) ==
  writer' = [writer EXCEPT ![w].seq = 0, ![w].hash = <<>>, ![w].writes = 0]

Damaged == ~VerifyEventsFrom(0, <<>>).ok \/ (snap # NoSnap /\ snap.seq # Len(events))

(* append_events, and persist_state when the batch is empty. *)
AppendEvents(w, batch, p) ==
  /\ snap.gen < MaxGeneration /\ Len(events) + Len(batch) <= MaxEvents
  /\ LET t == EventTail(w)
         more == AppendedEvents(batch, t.v)
     IN IF /\ t.v.ok /\ AssertWriteToken(w, t.v)
           /\ \A i \in 1..Len(batch) : SameEvent(batch[i])
           /\ ValidateProjectionInvariants(p)
        THEN /\ events' = events \o more
             /\ WriteProjection(p, t.v, more)
             /\ writer' = [writer EXCEPT ![w] =
                  [tok |-> Token(snap'), seq |-> t.v.seq, hash |-> t.v.hash,
                   writes |-> t.writes, mem |-> p]]
             /\ truth' = p
             /\ carried' = IF Damaged THEN carried + 1 ELSE carried
        ELSE /\ InvalidateValidatedPrefix(w)
             /\ UNCHANGED <<events, snap, rows, truth, carried>>
  /\ UNCHANGED faults

Scrub(w) ==
  /\ LET v == VerifyEventsFrom(0, <<>>)
     IN /\ v.ok
        /\ writer' = [writer EXCEPT ![w].seq = v.seq, ![w].hash = v.hash,
                                    ![w].writes = 0]
  /\ UNCHANGED <<events, snap, rows, truth, carried, faults>>

(* The process dies and is started again. *)
Restart(w) ==
  /\ writer[w] # NewWriter
  /\ writer' = [writer EXCEPT ![w] = NewWriter]
  /\ UNCHANGED <<events, snap, rows, truth, carried, faults>>

(* A manual edit or a media failure. *)
Damage ==
  /\ faults < MaxFaults /\ faults' = faults + 1
  /\ UNCHANGED <<writer, truth, carried>>
  /\ \/ /\ \E i \in 1..Len(events) : events' = [events EXCEPT ![i].json = Edited]
        /\ UNCHANGED <<snap, rows>>
     \/ /\ \E i \in 1..Len(events) : events' = RemoveAt(events, i)
        /\ UNCHANGED <<snap, rows>>
     \/ \E c \in Claims :
          \/ /\ rows' = IF c \in rows THEN rows \ {c} ELSE rows \cup {c}
             /\ UNCHANGED <<events, snap>>
          \/ /\ snap # NoSnap
             /\ snap' = [snap EXCEPT !.state = IF c \in @ THEN @ \ {c} ELSE @ \cup {c}]
             /\ UNCHANGED <<events, rows>>
     \/ snap # NoSnap /\ Len(events) > 0 /\ snap' = NoSnap /\ UNCHANGED <<events, rows>>

Next ==
  \/ \E w \in Writers :
       \/ Load(w) \/ Scrub(w) \/ Restart(w)
       \/ \E p \in SUBSET Claims :
            \/ AppendEvents(w, <<>>, p)
            \/ \E id \in EventIds : AppendEvents(w, <<id>>, p)
  \/ Damage

Spec == Init /\ [][Next]_vars
-----------------------------------------------------------------------------
(* Two schedulers on one database: a write replaces exactly the projection *)
(* its writer last loaded or committed, whatever was restarted, refused or *)
(* damaged in between, so no scheduler's claims are overwritten unseen;    *)
(* and a load never returns anything but the projection last committed.    *)
NoLostUpdate ==
  /\ snap'.gen > snap.gen =>
       /\ \E w \in Writers : writer[w].mem = truth /\ writer'[w] # writer[w]
       /\ ValidateProjectionInvariants(snap'.state)
  /\ \A w \in Writers :
       writer'[w].mem # writer[w].mem =>
         writer'[w].mem = truth' \/ writer'[w] = NewWriter

(* Damage done to the journal outside the API is carried forward by at     *)
(* most SCRUB_EVERY_WRITES writes before a full verification stops them.   *)
DamageIsBounded == carried <= ScrubEvery
=============================================================================
