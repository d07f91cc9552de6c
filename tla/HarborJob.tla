----------------------------- MODULE HarborJob -----------------------------
(***************************************************************************)
(* One arm's Harbor worker and how its launcher reads the outcome.         *)
(* harbor_job_worker.py writes a status file, runs Harbor under a timeout  *)
(* and replaces the status; the pair runner (_run_fresh_arm,               *)
(* _run_lhos_arm) starts it again after a retry and classifies each        *)
(* attempt from the file and, for the fresh arm, from the worker's exit    *)
(* code.  Any of the processes may be killed.                              *)
(***************************************************************************)
EXTENDS Integers, FiniteSets

CONSTANTS Arms, MaxAttempts

VARIABLES
    arm,
    attempt,    \* attempts launched
    worker,     \* "none", "started", "armed", "waiting", "closing" or "gone"
    status,     \* the status file: {} or {[state, exit]}
    harbor,     \* Harbor's own exit code in this attempt, {} before
    code,       \* the exit the worker is about to report, {} before
    launcher,   \* {} before, {0} or {1}, {124} for the outer timeout
    verdict     \* "", "result", "error" or "infrastructure"

vars == <<arm, attempt, worker, status, harbor, code, launcher, verdict>>

\* WINDOWS_CONTROL_C_EXIT, the console interrupt.
ControlC == 99

Status(state, exit) == {[state |-> state, exit |-> exit]}

Init ==
    /\ arm \in Arms /\ attempt = 0 /\ worker = "none"
    /\ status = {} /\ harbor = {} /\ code = {} /\ launcher = {} /\ verdict = ""

\* The first attempt, or the next one.  After an interruption the status file
\* was archived; after a censored or unstarted attempt it is still there.
Launch ==
    /\ worker = "none" \/ verdict # ""
    /\ attempt < MaxAttempts /\ attempt' = attempt + 1
    /\ worker' = "started"
    /\ status' = IF verdict = "infrastructure" THEN {} ELSE status
    /\ harbor' = {} /\ code' = {} /\ launcher' = {} /\ verdict' = ""
    /\ UNCHANGED arm

\* The worker announces itself, then starts Harbor and announces its pid.
WriteRunning ==
    /\ worker = "started" /\ worker' = "armed"
    /\ status' = Status("running", -1)
    /\ UNCHANGED <<arm, attempt, harbor, code, launcher, verdict>>

Spawn ==
    /\ worker = "armed"
    /\ \/ worker' = "waiting" /\ UNCHANGED code
       \/ worker' = "closing" /\ code' = {125}
    /\ UNCHANGED <<arm, attempt, status, harbor, launcher, verdict>>

\* Harbor ends by itself; the worker's communicate returns its code.
HarborExits(n) ==
    /\ worker = "waiting" /\ harbor = {}
    /\ harbor' = {n} /\ code' = {n} /\ worker' = "closing"
    /\ UNCHANGED <<arm, attempt, status, launcher, verdict>>

\* The timeout, a console interrupt or an error: the process tree is killed.
WorkerStops(n) ==
    /\ worker = "waiting"
    /\ code' = {n} /\ worker' = "closing"
    /\ UNCHANGED <<arm, attempt, status, harbor, launcher, verdict>>

\* The final status.  The worker itself exits with 0.
FinalState(n) == IF n = ControlC THEN "infrastructure_interrupted"
                 ELSE IF n = 124 THEN "timed_out" ELSE "finished"

WriteFinal ==
    /\ worker = "closing"
    /\ \E n \in code : status' = Status(FinalState(n), n)
    /\ worker' = "gone" /\ launcher' = {0}
    /\ UNCHANGED <<arm, attempt, harbor, code, verdict>>

\* The worker is killed, or crashes, between any two of its steps.
Kill ==
    /\ worker \in {"started", "armed", "waiting", "closing"}
    /\ worker' = "gone" /\ launcher' \in {{1}, {124}}
    /\ UNCHANGED <<arm, attempt, status, harbor, code, verdict>>

\* _sanitize_status and _worker_infrastructure_reason.
Interrupted(s) ==
    \/ s = {}
    \/ \E x \in s : x.exit = ControlC \/ x.state = "running"
                       \/ x.state = "infrastructure_interrupted"

FreshVerdict_StatusOnly(s, l) ==
    IF l = {124} \/ Interrupted(s) THEN "infrastructure"
    ELSE IF \E x \in s : x.exit = 0 THEN "result" ELSE "error"

\* The fresh arm: an outer timeout (124) or an interruption may be retried,
\* and both the worker and Harbor must have ended with 0.
FreshVerdict(s, l) ==
    IF l = {124} \/ Interrupted(s) THEN "infrastructure"
    ELSE IF l # {0} THEN "error"
    ELSE IF \E x \in s : x.exit = 0 THEN "result" ELSE "error"

\* The LHOS arm runs the worker inside AgentOS and sees the file alone.
ResumeVerdict(s) ==
    IF Interrupted(s) THEN "infrastructure"
    ELSE IF \E x \in s : x.exit = 0 THEN "result" ELSE "error"

Classify ==
    /\ worker = "gone" /\ verdict = ""
    /\ verdict' = IF arm = "dsh_fresh" THEN FreshVerdict(status, launcher)
                  ELSE ResumeVerdict(status)
    /\ UNCHANGED <<arm, attempt, worker, status, harbor, code, launcher>>

Next ==
    \/ Launch \/ WriteRunning \/ Spawn \/ WriteFinal \/ Kill \/ Classify
    \/ \E n \in {0, 1, ControlC} : HarborExits(n)
    \/ \E n \in {124, 125, ControlC} : WorkerStops(n)

Spec == Init /\ [][Next]_vars

-----------------------------------------------------------------------------
(* Properties                                                              *)

\* A result of the fresh arm is Harbor's own success in this very attempt,
\* and a Harbor failure the worker lived to report is never taken for an
\* interruption that earns a retry (_run_fresh_arm).
FreshResultsAreHarbors ==
    arm = "dsh_fresh" =>
        /\ verdict = "result" => harbor = {0}
        /\ verdict = "infrastructure" /\ launcher = {0} => harbor \notin {{0}, {1}}

=============================================================================
