---------------------------- MODULE HarborAgent ----------------------------
(***************************************************************************)
(* The DSH agent inside a Harbor trial (lhtb_dsh_harbor_agent.py), the     *)
(* evidence it publishes, and the gate with which the pair runner decides  *)
(* from that evidence whether the trial really continued a session         *)
(* (run_lhtb_software5_pair.py).                                           *)
(*                                                                         *)
(* The agent runs one DSH process after another: the initial one, the      *)
(* slices of a controlled initial run, and one per verifier rejection.  A  *)
(* compacted restart opens a new generation with a home of its own; all    *)
(* other invocations of the LHOS arm resume the locked session of their    *)
(* generation.  The baseline arm starts every invocation in a fresh home.  *)
(* A session is named by its generation and is the number of its durable   *)
(* events; DSH may append to it, create a second session file, and end in  *)
(* every way the code classifies; Harbor may cancel it at any moment.      *)
(***************************************************************************)
EXTENDS Integers, Sequences, FiniteSets, SequencesExt, FiniteSetsExt

CONSTANTS
    Options,        \* the configured [arm, semantic, sliced]
    MaxInvocations, MaxExtraFiles

VARIABLES
    option,     \* arm, semantic_context_control, explicit time slice
    phase,      \* "new", "exec", "exited", "boundary", "verify" or "ended"
    initial,    \* is run(), not a continuation, on the stack?
    gen,        \* _session_generation, and _controlled_restart_count
    events,     \* durable: generation -> events of its session
    files,      \* durable: generation -> session files in its home
    locked,     \* {} or {[gen, events]}: the identity to resume
    locks,      \* _session_generations: generations ever locked
    invs,       \* durable: the invocation records
    decisions,  \* _semantic_decisions
    exception   \* how the trial ended: "", "timeout" or "error"

vars == <<option, phase, initial, gen, events, files, locked, locks, invs,
          decisions, exception>>

Init ==
    /\ option \in Options
    /\ phase = "new" /\ initial = TRUE /\ gen = 0
    /\ events = [g \in {0} |-> 0] /\ files = [g \in {0} |-> 0]
    /\ locked = {} /\ locks = {} /\ invs = <<>> /\ decisions = <<>>
    /\ exception = ""

\* run() slices an unsliced initial run when semantic control is on.
Controlled == option.arm = "lhos" /\ option.semantic /\ ~option.sliced

\* The slice the invocation runs under, if any.
Sliced == option.sliced \/ (initial /\ Controlled)

\* A generation's home exists once an invocation ran in it.
WithHome(f, g) == [h \in DOMAIN f \cup {g} |-> IF h \in DOMAIN f THEN f[h] ELSE 0]

\* An invocation record.  "before" and "after" are the events of its session
\* when it started and ended; only "resume" and "status" are published.
Invocation(g, resume) ==
    [gen |-> g, resume |-> resume, status |-> "running", effective |-> Sliced,
     before |-> WithHome(events, g)[g], after |-> 0]

\* _execute up to the process start.  The baseline's fresh home counts as a
\* generation of its own here; it is never locked.
Begin(g, resume) ==
    /\ Len(invs) < MaxInvocations
    /\ phase' = "exec"
    /\ gen' = g
    /\ events' = WithHome(events, g) /\ files' = WithHome(files, g)
    /\ invs' = Append(invs, Invocation(g, resume))

run ==
    /\ phase = "new"
    /\ Begin(0, FALSE)
    /\ UNCHANGED <<option, initial, locked, locks, decisions, exception>>

-----------------------------------------------------------------------------
(* The DSH process                                                         *)

\* DSH appends to its session or not; the first event creates the file.  It
\* may also open a second session instead of continuing the first.
DshWorks ==
    /\ phase = "exec" /\ phase' = "exited"
    /\ \E grown, extra \in 0..1 :
          /\ extra = 1 => files[gen] >= 1
                /\ Cardinality({g \in DOMAIN files : files[g] > 1}) < MaxExtraFiles
          /\ events' = [events EXCEPT ![gen] = @ + grown]
          /\ files' = [files EXCEPT ![gen] =
                          IF @ = 0 THEN grown ELSE @ + extra]
    /\ UNCHANGED <<option, initial, gen, locked, locks, invs, decisions,
                   exception>>

-----------------------------------------------------------------------------
(* How an invocation ends                                                  *)

Grew == events[gen] > Last(invs).before

\* A slice that ends, by exit 197 or by a kill at the deadline with progress.
\* Without progress it fails, unless only the tail of the budget was left.
SliceStatus(tail) ==
    IF Grew THEN "slice_preempted"
    ELSE IF tail THEN "budget_tail_no_progress" ELSE "slice_no_progress_failure"

\* A non-zero exit is recoverable after a durable max-tokens turn.
Recoverable == Grew /\ files[gen] = 1

Statuses ==
    {"completed", "failed", "provider_censored"}
        \cup (IF Recoverable THEN {"max_tokens_checkpoint"} ELSE {})
        \cup (IF Sliced THEN {SliceStatus(FALSE)} ELSE {})
        \cup (IF option.sliced /\ ~initial THEN {SliceStatus(TRUE)} ELSE {})

Preempted(status) == status \in {"slice_preempted", "budget_tail_no_progress",
                                 "slice_no_progress_failure"}

Raises(status) == status \in {"failed", "provider_censored",
                              "slice_no_progress_failure"}

\* The finally block closes the invocation record.
Closed(status) ==
    [invs EXCEPT ![Len(invs)].status = status, ![Len(invs)].after = events[gen]]

\* Exactly one session file, and a session id to resume.
Lockable == files[gen] = 1

\* _lock_resume_identity, or the error it raises.
Lock ==
    IF Lockable
    THEN /\ locked' = {[gen |-> gen, events |-> events[gen]]}
         /\ locks' = locks \cup {gen}
         /\ UNCHANGED exception
    ELSE /\ exception' = "error"
         /\ UNCHANGED <<locked, locks>>

\* _verify_resumed_identity: the same single session, and it grew.
ResumeVerified(status) ==
    \E l \in locked :
        /\ files[gen] = 1 /\ l.gen = gen
        /\ events[gen] > l.events \/ status = "budget_tail_no_progress"

\* run() after its only, or its last, invocation.
EndRun(status) ==
    IF option.arm = "lhos" THEN Lock ELSE UNCHANGED <<locked, locks, exception>>

\* A continuation after its invocation: a restart is locked, a resume checked.
EndContinuation(status) ==
    IF option.arm = "baseline" THEN UNCHANGED <<locked, locks, exception>>
    ELSE IF ~Last(invs).resume THEN Lock
    ELSE IF ResumeVerified(status)
    THEN /\ locked' = {[gen |-> gen, events |-> events[gen]]}
         /\ UNCHANGED <<locks, exception>>
    ELSE exception' = "error" /\ UNCHANGED <<locked, locks>>

\* The process ends.  An error ends the trial; a slice of a controlled
\* initial run leads to its boundary; anything else to the verifier.
EndInvocation ==
    /\ phase = "exited"
    /\ \E status \in Statuses :
          /\ invs' = Closed(status)
          /\ \/ /\ Raises(status)
                /\ exception' = "error" /\ phase' = "ended"
                /\ UNCHANGED <<initial, locked, locks>>
             \/ /\ ~Raises(status) /\ initial /\ Controlled /\ Preempted(status)
                /\ IF Last(invs).resume THEN UNCHANGED <<locked, locks, exception>>
                   ELSE Lock
                /\ phase' = IF exception' = "" THEN "boundary" ELSE "ended"
                /\ UNCHANGED initial
             \/ /\ ~Raises(status) /\ initial
                /\ ~(Controlled /\ Preempted(status))
                /\ EndRun(status)
                /\ phase' = IF exception' = "" THEN "verify" ELSE "ended"
                /\ initial' = FALSE
             \/ /\ ~Raises(status) /\ ~initial
                /\ EndContinuation(status)
                /\ phase' = IF exception' = "" THEN "verify" ELSE "ended"
                /\ UNCHANGED initial
    /\ UNCHANGED <<option, gen, events, files, decisions>>

\* Harbor's agent timeout cancels the process; the trial ends with it.
Cancel ==
    /\ phase = "exited"
    /\ invs' = Closed("cancelled")
    /\ exception' = "timeout" /\ phase' = "ended"
    /\ UNCHANGED <<option, initial, gen, events, files, locked, locks,
                   decisions>>

-----------------------------------------------------------------------------
(* Boundaries: the semantic policy chooses how to go on                    *)

\* The recorded decision carries the events of the active home alone.
Decision(action) ==
    [action |-> action, gen |-> gen, events |-> events[gen]]

\* A compacted restart: the next generation, in a fresh home.
Restart(decided) ==
    /\ Begin(gen + 1, FALSE)
    /\ decisions' = decided
    /\ UNCHANGED <<option, initial, locked, locks, exception>>

\* The locked session is resumed in its home.
Resume(decided) ==
    /\ Begin(gen, TRUE)
    /\ decisions' = decided
    /\ UNCHANGED <<option, initial, locked, locks, exception>>

\* The policy halts: the state goes to the verifier as it is.  A controlled
\* initial run still locks its identity on the way out.
Halt(decided) ==
    /\ decisions' = decided
    /\ IF initial THEN Lock ELSE UNCHANGED <<locked, locks, exception>>
    /\ phase' = IF exception' = "" THEN "verify" ELSE "ended"
    /\ initial' = FALSE
    /\ UNCHANGED <<option, gen, events, files, invs>>

\* The boundary between two slices of a controlled initial run, and a
\* verifier rejection under semantic control.
SemanticBoundary ==
    /\ phase = "boundary" \/ (phase = "verify" /\ option.semantic)
    /\ option.arm = "lhos" /\ Len(decisions) < MaxInvocations
    /\ \/ Restart(Append(decisions, Decision("restart")))
       \/ Resume(Append(decisions, Decision("resume")))
       \/ Halt(Append(decisions, Decision("terminate")))

\* A verifier rejection without semantic control; the baseline recomputes.
resume_after_verifier_rejection ==
    /\ phase = "verify" /\ ~(option.arm = "lhos" /\ option.semantic)
    /\ IF option.arm = "baseline" THEN Restart(decisions) ELSE Resume(decisions)

\* The verifier accepts, or the budget runs out while it works.
VerifierEnds ==
    /\ phase = "verify"
    /\ exception' \in {"", "timeout"}
    /\ phase' = "ended"
    /\ UNCHANGED <<option, initial, gen, events, files, locked, locks, invs,
                   decisions>>

Next ==
    \/ run \/ DshWorks \/ EndInvocation \/ Cancel
    \/ SemanticBoundary \/ resume_after_verifier_rejection \/ VerifierEnds

Spec == Init /\ [][Next]_vars

-----------------------------------------------------------------------------
(* The published evidence and the gates                                    *)

\* _write_observability: counts over the homes of all generations.
Observability ==
    [arm |-> option.arm,
     semantic |-> option.arm = "lhos" /\ option.semantic,
     session |-> {l.gen : l \in locked},
     generations |-> Cardinality(locks),
     restarts |-> IF option.arm = "lhos" THEN gen ELSE 0,
     decisions |-> decisions,
     sliced |-> option.sliced,
     effective |-> invs # <<>> /\ Last(invs).effective,
     invocations |-> [i \in DOMAIN invs |-> [resume |-> invs[i].resume,
                         status |-> invs[i].status, gen |-> invs[i].gen]],
     resumes |-> Cardinality({i \in DOMAIN invs : invs[i].resume}),
     files |-> MapThenSumSet(LAMBDA g : files[g], DOMAIN files),
     events |-> MapThenSumSet(LAMBDA g : events[g], DOMAIN events)]

DurableResumes_Any(o) == {i \in DOMAIN o.invocations : o.invocations[i].resume}

\* Resume invocations that ended at a durable boundary of their own.
DurableResumes(o) ==
    {i \in DOMAIN o.invocations :
        /\ o.invocations[i].resume
        /\ o.invocations[i].status \in
              {"completed", "slice_preempted", "max_tokens_checkpoint"}}

TopologyValid_Any(o) == o.generations >= 1

TopologyValid(o) ==
    IF o.semantic
    THEN /\ o.files = o.generations /\ o.generations >= 1
         /\ o.restarts = o.generations - 1
    ELSE o.files = 1

\* _natural_boundary_resume_evidence: a resume that only the budget cut.
NaturalBoundary(o, budget) ==
    LET cancelled == SelectSeq(o.invocations,
                        LAMBDA i : i.resume /\ i.status = "cancelled")
        resumed == SelectSeq(o.decisions, LAMBDA d : d.action = "resume")
    IN  /\ budget /\ cancelled # <<>> /\ resumed # <<>>
        /\ ~o.sliced /\ ~o.effective
        /\ \A i \in DOMAIN o.invocations : o.invocations[i].resume =>
              o.invocations[i].status \notin
                  {"slice_preempted", "budget_tail_no_progress",
                   "slice_no_progress_failure", "max_tokens_checkpoint"}
        /\ o.semantic /\ TopologyValid(o)
        /\ Last(resumed).events < o.events
        /\ {Last(resumed).gen} = o.session
        /\ {Last(cancelled).gen} = o.session

\* _resume_gate.
ResumeGate(o, budget) ==
    /\ o.arm = "lhos" /\ Len(o.invocations) >= 2 /\ o.resumes >= 1
    /\ o.session # {} /\ TopologyValid(o) /\ o.events > 0
    /\ DurableResumes(o) # {} \/ NaturalBoundary(o, budget)
    /\ o.semantic => Len(o.decisions) >= 1

\* _fresh_gate.
FreshGate(o) == o.arm = "baseline" /\ o.resumes = 0 /\ Len(o.invocations) >= 1

\* _trial_metrics: a trial counts for the mechanism comparison when it ended
\* without an error other than the budget, cost something and passed its gate.
MechanismEligible ==
    LET o == Observability
    IN  /\ phase = "ended" /\ exception # "error" /\ o.events > 0
        /\ IF o.arm = "lhos" THEN ResumeGate(o, exception = "timeout")
           ELSE FreshGate(o)

(* Properties                                                              *)

\* A trial labelled as context reuse continued a session: each generation
\* left exactly one session, and one whose events a resumed invocation found
\* came to an end of its own; a trial labelled fresh resumed nothing
\* (_resume_gate, _lock_resume_identity, _verify_resumed_identity).
ReuseIsReal ==
    MechanismEligible =>
        IF option.arm = "baseline"
        THEN \A i \in DOMAIN invs : ~invs[i].resume /\ invs[i].before = 0
        ELSE /\ \A g \in 0..gen : files[g] = 1
             /\ ~NaturalBoundary(Observability, exception = "timeout") =>
                   \E i \in DOMAIN invs :
                       /\ invs[i].resume /\ invs[i].gen \in locks
                       /\ invs[i].before > 0
                       /\ invs[i].status # "cancelled"

=============================================================================
