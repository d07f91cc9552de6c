------------------------ MODULE ExecutionProvenance ------------------------
(***************************************************************************)
(* One attempt's execution context and the boundaries it observes the      *)
(* world through: the workspace gateway, the HTTP gateway, the Context VM  *)
(* pages it starts from and the effect gateway.  Files, remote resources   *)
(* and registered artifact versions change while an operation is under     *)
(* way.  At the end the attempt asks to commit: coverage, the read guards  *)
(* and the re-read of the workspace decide.                                *)
(*                                                                         *)
(* A content is its own hash, "" is a missing file.  held[r] is the last   *)
(* thing the executor learnt of r: a content, "?" when the operation       *)
(* raised, "" when it never asked.                                         *)
(***************************************************************************)
EXTENDS SequencesExt

CONSTANTS
    Paths, Urls,     \* workspace files and remote resources
    Declared,        \* the task's declared inputs
    Writable,        \* its declared outputs
    Aliased,         \* paths declared by a URI that differs from the path
    Pages,           \* resources bound from a Context VM snapshot
    Contents,
    Effects,         \* declared effects, each with its idempotency key
    ReadLimit,       \* max_resources of the commit-time re-read
    MaxVersions, MaxEvents, MaxChanges

VARIABLES
    secure,    \* a secure context with a strict policy, or an audited one
    disk,      \* disk[p]: content of a file
    remote,    \* remote[u]: content a URL serves
    facts,     \* facts[r]: the registered versions' contents
    events,    \* the context's events
    held,
    op,        \* the operation under way, a set of at most one record
    bound,     \* the Context VM snapshot is bound
    applied,   \* effects that happened
    phase,     \* "open", "guarded", "committed" or "refused"
    changes

vars == <<secure, disk, remote, facts, events, held, op, bound, applied, phase, changes>>
world == <<secure, disk, remote, facts, changes>>

Resources == Paths \cup Urls

Uri(r) == IF r \in Aliased THEN <<"workspace", r>> ELSE <<"", r>>
Id(r)  == <<"", r>>

\* one observation; art is the artifact identity, {} when the event has none
Event(kind, uri, art, version, hash, known) ==
    [kind |-> kind, uri |-> uri, art |-> art, version |-> version,
     hash |-> hash, known |-> known, key |-> ""]

record(e) == events' = Append(events, e)

\* observe_unknown passes the artifact id on as metadata: the event has none
observe_unknown(kind, r) == record(Event(kind, Uri(r), {}, 0, "", FALSE))

Learn(r, c) == held' = [held EXCEPT ![r] = c]

Begin(o) == op = {} /\ phase = "open" /\ Len(events) < MaxEvents /\ op' = {o}
Raise(r) == Learn(r, "?")

(***************************************************************************)
(* The world outside.                                                      *)
(***************************************************************************)
ChangeFile(p, c) ==
    /\ changes < MaxChanges
    /\ disk[p] # c
    /\ disk' = [disk EXCEPT ![p] = c]
    /\ changes' = changes + 1
    /\ UNCHANGED <<secure, remote, facts, events, held, op, bound, applied, phase>>

ChangeRemote(u, c) ==
    /\ changes < MaxChanges
    /\ remote[u] # c
    /\ remote' = [remote EXCEPT ![u] = c]
    /\ changes' = changes + 1
    /\ UNCHANGED <<secure, disk, facts, events, held, op, bound, applied, phase>>

\* an observer registers what it sees as the next version
Register(r) ==
    LET c == IF r \in Paths THEN disk[r] ELSE remote[r]
    IN  /\ Len(facts[r]) < MaxVersions
        /\ c # ""
        /\ facts' = [facts EXCEPT ![r] = Append(@, c)]
        /\ UNCHANGED <<secure, disk, remote, changes, events, held, op, bound, applied, phase>>

(***************************************************************************)
(* The workspace gateway.                                                  *)
(***************************************************************************)
\* strict mode refuses a path that is not declared, before touching it
_authorize(p, allowed) == secure => p \in allowed

\* a claimed version must be registered with exactly this content; without
\* an authority (audit) the caller's claim is taken
_validate_snapshot_version(r, v, c) ==
    \/ v = 0
    \/ ~secure
    \/ v <= Len(facts[r]) /\ facts[r][v] = c

ReadPayload(p, v) ==
    /\ _authorize(p, Declared)
    /\ IF disk[p] = ""
       THEN /\ op = {} /\ phase = "open" /\ Len(events) < MaxEvents
            /\ observe_unknown("read", p)
            /\ Raise(p)
            /\ UNCHANGED op
       ELSE /\ Begin([kind |-> "read", r |-> p, v |-> v, body |-> disk[p]])
            /\ UNCHANGED <<events, held>>
    /\ UNCHANGED <<world, bound, applied, phase>>

\* the event takes its hash from a second read of the file
RecordedHash_Reread(o) == disk[o.r]

\* the bytes handed to the executor are the bytes that are hashed
RecordedHash(o) == o.body

ReadRecord ==
    \E o \in op :
        /\ o.kind = "read"
        /\ LET ok == _validate_snapshot_version(o.r, o.v, o.body)
           IN  /\ record(Event("read", Uri(o.r), {Id(o.r)}, o.v, RecordedHash(o), ok))
               /\ Learn(o.r, IF ok THEN o.body ELSE "?")
        /\ op' = {}
        /\ UNCHANGED <<world, bound, applied, phase>>

\* write_bytes: version check, compare before write, replace, read back
WriteCheck(p, c, expect) ==
    /\ _authorize(p, Writable)
    /\ expect # {} => disk[p] \in expect \ {""}
    /\ Begin([kind |-> "replace", r |-> p, v |-> 0, body |-> c])
    /\ UNCHANGED <<world, events, held, bound, applied, phase>>

WriteReplace ==
    \E o \in op :
        /\ o.kind = "replace"
        /\ disk' = [disk EXCEPT ![o.r] = o.body]
        /\ op' = {[o EXCEPT !.kind = "readback"]}
        /\ UNCHANGED <<secure, remote, facts, changes, events, held, bound, applied, phase>>

WriteRecord ==
    \E o \in op :
        /\ o.kind = "readback"
        /\ IF disk[o.r] = o.body
           THEN record(Event("write", Uri(o.r), {Id(o.r)}, 0, o.body, TRUE))
           ELSE observe_unknown("write", o.r)
        /\ op' = {}
        /\ UNCHANGED <<world, held, bound, applied, phase>>

(***************************************************************************)
(* The HTTP gateway: resolve the version, call the transport, validate.    *)
(***************************************************************************)
UnknownResponse(u) == record(Event("network", Uri(u), {}, 0, "", FALSE)) /\ Raise(u)

HttpResolve(u, v) ==
    LET version == IF v = 0 /\ secure THEN Len(facts[u]) ELSE v
    IN  /\ _authorize(u, Declared)
        /\ IF secure /\ version = 0
           THEN /\ op = {} /\ phase = "open" /\ Len(events) < MaxEvents
                /\ UnknownResponse(u)
                /\ UNCHANGED op
           ELSE /\ Begin([kind |-> "send", r |-> u, v |-> version, body |-> ""])
                /\ UNCHANGED <<events, held>>
        /\ UNCHANGED <<world, bound, applied, phase>>

\* the tool adapter's preflight: an undeclared URL, or a method that is not
\* a read, leaves an unknown input behind
HttpRefuse(u) ==
    /\ secure /\ u \notin Declared
    /\ op = {} /\ phase = "open" /\ Len(events) < MaxEvents
    /\ UnknownResponse(u)
    /\ UNCHANGED <<world, op, bound, applied, phase>>

HttpTransport(answers) ==
    \E o \in op :
        /\ o.kind = "send"
        /\ IF answers
           THEN /\ op' = {[o EXCEPT !.kind = "response", !.body = remote[o.r]]}
                /\ UNCHANGED <<events, held>>
           ELSE /\ UnknownResponse(o.r)
                /\ op' = {}
        /\ UNCHANGED <<world, bound, applied, phase>>

HttpRecord ==
    \E o \in op :
        /\ o.kind = "response"
        /\ IF _validate_snapshot_version(o.r, o.v, o.body)
           THEN /\ record(Event("network", Uri(o.r), {Id(o.r)}, o.v, o.body, TRUE))
                /\ Learn(o.r, o.body)
           ELSE UnknownResponse(o.r)
        /\ op' = {}
        /\ UNCHANGED <<world, bound, applied, phase>>

(***************************************************************************)
(* bind_context_snapshot: the pages the executor was given are reads.      *)
(***************************************************************************)
BindSnapshot ==
    /\ ~bound /\ op = {} /\ phase = "open" /\ Len(events) < MaxEvents
    /\ \A r \in Pages : facts[r] # <<>>
    /\ bound' = TRUE
    /\ LET page(r) == Event("page", Id(r), {Id(r)}, Len(facts[r]), Last(facts[r]), TRUE)
       IN  events' = events \o SetToSeq({page(r) : r \in Pages})
    /\ UNCHANGED <<world, held, op, applied, phase>>

(***************************************************************************)
(* Effects.  The gateway may answer, raise, or answer something that       *)
(* cannot be trusted; only a rejection means the effect did not happen.    *)
(***************************************************************************)
Outcomes == {"completed", "uncertain", "rejected", "raised", "untrusted"}

GatewaySubmit(e, outcome) ==
    /\ Begin([kind |-> outcome, r |-> e, v |-> 0, body |-> ""])
    /\ \/ outcome # "completed" /\ UNCHANGED applied
       \/ outcome # "rejected" /\ applied' = applied \cup {e}
    /\ UNCHANGED <<world, events, held, bound, phase>>

\* a submission that raised leaves no event
EffectEvents_OnlyAnswered(e, outcome) ==
    IF outcome = "raised" THEN <<>>
    ELSE <<[Event("write", <<"effect", e>>, {}, 0, "", outcome = "completed")
              EXCEPT !.key = e]>>

\* every outcome is recorded, as known only when the receipt is trusted and
\* says completed
EffectEvents(e, outcome) ==
    <<[Event("write", <<"effect", e>>, {}, 0, "", outcome = "completed")
         EXCEPT !.key = e]>>

\* the store answers a recorded key with the event recorded first
Coalesced(es) ==
    [i \in 1..Len(es) |->
        IF \E j \in 1..Len(events) : events[j].key = es[i].key
        THEN SelectSeq(events, LAMBDA x : x.key = es[i].key)[1]
        ELSE es[i]]

EffectRecord ==
    \E o \in op :
        /\ o.kind \in Outcomes
        /\ events' = events \o Coalesced(EffectEvents(o.r, o.kind))
        /\ op' = {}
        /\ UNCHANGED <<world, held, bound, applied, phase>>

(***************************************************************************)
(* The commit gate.                                                        *)
(***************************************************************************)
Inputs == SelectSeq(events, LAMBDA e : e.kind # "write")

\* assess_coverage, on the URIs of known and unknown input events
Complete ==
    LET seen == {e.uri : e \in Range(Inputs)}
    IN  /\ \A e \in Range(Inputs) : e.known
        /\ seen = {Uri(r) : r \in Declared}

\* strict admits complete coverage, audit admits
enforce_verification_coverage == secure => Complete

\* a guard is a known read with identity, version and hash; a secure commit
\* accepts no other read
Guarded(e) == e.known /\ e.art # {} /\ e.version > 0 /\ e.hash # ""

_preflight_read_guards ==
    /\ secure => \A e \in Range(Inputs) : Guarded(e)
    /\ \A e \in Range(Inputs) : Guarded(e) =>
        \A id \in e.art :
            LET r == id[2]
            IN  /\ Len(facts[r]) = e.version
                /\ facts[r][e.version] = e.hash

Identity(e) == IF e.art # {} THEN CHOOSE a \in e.art : TRUE ELSE e.uri

\* the latest event of each identity the workspace gateway read; the pages
\* and the responses were not read by it
WorkspaceReads == SelectSeq(events, LAMBDA e : e.kind = "read")

LatestReads ==
    {e \in Range(WorkspaceReads) :
        \E i \in 1..Len(WorkspaceReads) :
            /\ WorkspaceReads[i] = e
            /\ \A j \in (i + 1)..Len(WorkspaceReads) :
                Identity(WorkspaceReads[j]) # Identity(e)}

\* bounded, and closed on anything missing, unknown or different
validate_read_set_current ==
    /\ Cardinality({Identity(e) : e \in LatestReads}) <= ReadLimit
    /\ \A e \in LatestReads :
        e.known /\ \E id \in e.art : disk[id[2]] = e.hash

PreflightGuards ==
    /\ phase = "open" /\ op = {}
    /\ phase' = IF enforce_verification_coverage /\ _preflight_read_guards
                THEN "guarded" ELSE "refused"
    /\ UNCHANGED <<world, events, held, op, bound, applied>>

PreflightMediated ==
    /\ phase = "guarded"
    /\ phase' = IF validate_read_set_current THEN "committed" ELSE "refused"
    /\ UNCHANGED <<world, events, held, op, bound, applied>>

Init ==
    /\ secure \in BOOLEAN
    /\ \E c \in {CHOOSE c \in Contents : TRUE} :
        disk = [p \in Paths |-> c] /\ remote = [u \in Urls |-> c]
    /\ \E unregistered \in {{}, Urls \ Pages} :
        facts = [r \in Resources |-> IF r \in unregistered THEN <<>>
                   ELSE <<IF r \in Paths THEN disk[r] ELSE remote[r]>>]
    /\ events = <<>>
    /\ held = [r \in Resources |-> ""]
    /\ op = {} /\ bound = FALSE /\ applied = {}
    /\ phase = "open" /\ changes = 0

Next ==
    \/ \E p \in Paths, c \in Contents \cup {""} : ChangeFile(p, c)
    \/ \E u \in Urls, c \in Contents : ChangeRemote(u, c)
    \/ \E r \in Resources : Register(r)
    \/ \E p \in Paths, v \in 0..MaxVersions : ReadPayload(p, v)
    \/ ReadRecord
    \/ \E p \in Paths, c \in Contents, x \in {{}} \cup {{d} : d \in Contents} :
        WriteCheck(p, c, x)
    \/ WriteReplace
    \/ WriteRecord
    \/ \E u \in Urls, v \in 0..MaxVersions : HttpResolve(u, v)
    \/ \E u \in Urls : HttpRefuse(u)
    \/ \E ok \in BOOLEAN : HttpTransport(ok)
    \/ HttpRecord
    \/ BindSnapshot
    \/ \E e \in Effects, outcome \in Outcomes : GatewaySubmit(e, outcome)
    \/ EffectRecord
    \/ PreflightGuards
    \/ PreflightMediated

Spec == Init /\ [][Next]_vars

(***************************************************************************)
(* An attempt that passes the commit gate reasoned from the present: every *)
(* file it read still has the bytes it was handed, its last read of each   *)
(* file succeeded, and in a secure context every declared input was read   *)
(* and no read failed (_prepare_read_guards, _preflight_mediated_read_sets *)
(* and the gateways' recording, with changes at any point between).        *)
(***************************************************************************)
CommitsSeeThePresent ==
    phase' = "committed" /\ phase # "committed" =>
     /\ \A p \in Paths : held[p] \in {"", disk[p]}
     /\ secure => \A r \in Resources :
         /\ held[r] # "?"
         /\ r \in Declared \ Pages => held[r] # ""

(***************************************************************************)
(* No effect goes unrecorded: whatever the gateway answered or failed to   *)
(* answer, an effect that may have happened has a write event once its     *)
(* submission is over (submit_effect's three recording paths).             *)
(***************************************************************************)
EffectsAreRecorded ==
    op = {} => \A e \in applied : \E i \in 1..Len(events) : events[i].key = e

(***************************************************************************)
(* The gateway's read set lists a file only while the last read of it      *)
(* succeeded ("an earlier trusted snapshot must not remain visible as the  *)
(* current read/write binding", _event_set).                               *)
(***************************************************************************)
=============================================================================
