------------------------- MODULE CheckpointCapture -------------------------
(***************************************************************************)
(* External checkpoints of one running experiment arm.  A watcher polls    *)
(* the arm's invocation records; when the active time crosses a cutoff a   *)
(* capture freezes the container, commits its filesystem, thaws it and     *)
(* publishes the workspace as a snapshot.  The freezes are written to a    *)
(* ledger so that they do not count as active time.  Captures run in       *)
(* threads of the watcher, the arm runs on its own, the watcher may die.   *)
(*                                                                         *)
(* Time is counted in ticks.  The workspace is the work done so far, that  *)
(* is the number of ticks the container really ran.                        *)
(***************************************************************************)
EXTENDS SequencesExt

CONSTANTS
    Cutoffs,       \* active times to capture, a set of numbers
    MaxAttempts,   \* max_capture_attempts
    MaxTicks, MaxInvocations, MaxTrials, MaxFaults, MaxCrashes

VARIABLES
    arm,      \* the experiment: trial, invocation, clocks, container
    ledger,   \* recorded freezes of the present trial
    index,    \* the watcher's state per cutoff, in memory
    known,    \* the trial the index is about, a set of at most one
    saved,    \* the index file: both of them
    polled,   \* the watcher has polled and not yet saved
    cap,      \* the capture under way, a set of at most one record
    done,     \* result of a finished capture: {} or {<<cutoff, ok>>}
    snaps,    \* published snapshots
    scores,   \* scores[c]: "none", "begun" or "scored"
    ticks, faults, crashes

env == <<arm, ticks>>
vars == <<arm, ledger, index, saved, known, polled, cap, done, snaps, scores,
          ticks, faults, crashes>>

\* raw: wall time of the finished invocations; age: of the running one;
\* work: time the container really ran; inv = 0 when no invocation is running;
\* cut: an invocation ended while the container was frozen
Arm(trial) == [trial |-> trial, inv |-> 0, count |-> 0, raw |-> 0, age |-> 0,
               work |-> 0, paused |-> FALSE, ended |-> FALSE, cut |-> FALSE]

Cutoff(status, attempts) == [status |-> status, attempts |-> attempts]
(***************************************************************************)
(* The experiment.                                                         *)
(***************************************************************************)
Tick ==
    /\ ticks < MaxTicks /\ (arm.inv # 0 \/ arm.paused)
    /\ ticks' = ticks + 1
    /\ arm' = [arm EXCEPT !.age = IF arm.inv = 0 THEN @ ELSE @ + 1,
                          !.work = IF arm.paused THEN @ ELSE @ + 1]
    /\ cap' = {IF k.frozen THEN [k EXCEPT !.freeze = @ + 1] ELSE k : k \in cap}
    /\ UNCHANGED <<ledger, index, saved, known, polled, done, snaps, scores, faults, crashes>>

quiet == <<ledger, index, saved, known, polled, cap, done, snaps, scores, faults, crashes>>

StartInvocation ==
    /\ arm.inv = 0 /\ ~arm.ended /\ ~arm.paused /\ arm.count < MaxInvocations
    /\ arm' = [arm EXCEPT !.inv = arm.count + 1, !.count = @ + 1]
    /\ UNCHANGED <<ticks, quiet>>

\* the record is written on the host, and Harbor's deadline continues while the
\* container is paused
EndInvocation ==
    /\ arm.inv # 0
    /\ arm' = [arm EXCEPT !.inv = 0, !.raw = @ + arm.age, !.age = 0, !.cut = @ \/ arm.paused]
    /\ UNCHANGED <<ticks, quiet>>

\* Harbor retries the arm under a new trial name; the container goes away with
\* its trial
NewTrial ==
    /\ arm.inv = 0 /\ ~arm.ended /\ arm.count > 0
    /\ arm.trial < MaxTrials
    /\ arm' = Arm(arm.trial + 1)
    /\ UNCHANGED <<ticks, quiet>>

EndArm ==
    /\ arm.inv = 0 /\ ~arm.ended
    /\ arm' = [arm EXCEPT !.ended = TRUE, !.paused = FALSE]
    /\ UNCHANGED <<ticks, quiet>>

(***************************************************************************)
(* What the watcher sees.                                                  *)
(***************************************************************************)
FreezeSum(fs) == FoldSet(LAMBDA f, acc : f.dur + acc, 0, fs)
OfTrial == {f \in ledger : f.trial = arm.trial}

\* freezes of this trial, and those not of the running invocation
FreezeOffsets ==
    [total     |-> FreezeSum(OfTrial),
     completed |-> FreezeSum({f \in OfTrial : f.inv # arm.inv})]

NonNeg(n) == IF n < 0 THEN 0 ELSE n

\* wall time of all invocations less the recorded freezes
Active(off)    == NonNeg(arm.raw + arm.age - off.total)
Completed(off) == NonNeg(arm.raw - off.completed)

\* no invocation yet: there is no trial to look at
TrialFound == arm.count > 0

_capture_readiness(c) ==
    LET off == FreezeOffsets
    IN  CASE ~TrialFound \/ Active(off) < c -> "pending"
          [] TrialFound /\ Active(off) >= c /\ (arm.inv = 0 \/ Completed(off) >= c)
                -> "late_unavailable"
          [] OTHER -> "due"

(***************************************************************************)
(* The watch loop: harvest a finished capture, look at the arm, save.      *)
(***************************************************************************)
_atomic_write_json == saved' = [cuts |-> index', known |-> known']

Harvest ==
    /\ ~polled
    /\ \E r \in done :
        LET c == r[1]
        IN  index' = [index EXCEPT ![c].status =
                        CASE r[2] -> "captured"
                          [] ~r[2] /\ index[c].attempts >= MaxAttempts -> "failed"
                          [] OTHER -> "pending"]
    /\ known' = known
    /\ _atomic_write_json
    /\ done' = {}
    /\ UNCHANGED <<env, ledger, polled, cap, snaps, scores, faults, crashes>>

Pending == {c \in Cutoffs : index[c].status = "pending"}
FirstPending == CHOOSE c \in Pending : \A d \in Pending : c <= d

\* a changed trial fails every cutoff of the arm
IdentityChanged == TrialFound /\ known # {} /\ known # {arm.trial}

\* the arm has ended: what is left was missed or never reached
Close(c) ==
    [index[c] EXCEPT !.status =
        IF TrialFound /\ Active(FreezeOffsets) >= c THEN "late_unavailable" ELSE "not_reached"]

\* _capture_snapshot starts from the offsets read by this poll
Dispatch(c) ==
    {[c |-> c, stage |-> "refresh", trial |-> arm.trial, polledInv |-> arm.inv, inv |-> 0,
      prior |-> FreezeOffsets,
      acked |-> FALSE, frozen |-> FALSE, freeze |-> 0, seen |-> 0, at |-> 0, content |-> -1,
      cut |-> FALSE]}

Poll ==
    /\ ~polled /\ done = {}
    /\ polled' = TRUE
    /\ IF cap # {}
       THEN UNCHANGED <<index, known, cap>>
       ELSE /\ known' = IF TrialFound /\ known = {} THEN {arm.trial} ELSE known
            /\ \/ /\ IdentityChanged
                  /\ index' = [c \in Cutoffs |-> [index[c] EXCEPT !.status = "failed"]]
                  /\ UNCHANGED cap
               \/ /\ ~IdentityChanged /\ Pending # {}
                  /\ arm.ended /\ arm.inv = 0
                  /\ index' = [c \in Cutoffs |-> IF c \in Pending THEN Close(c) ELSE index[c]]
                  /\ UNCHANGED cap
               \/ /\ ~IdentityChanged /\ Pending # {} /\ ~arm.ended
                  /\ LET c == FirstPending
                         ready == _capture_readiness(c)
                     IN  /\ index' = [index EXCEPT ![c] =
                                CASE ready = "due" -> Cutoff("capturing", @.attempts + 1)
                                  [] ready = "late_unavailable" -> [@ EXCEPT !.status = ready]
                                  [] OTHER -> @]
                         /\ cap' = IF ready = "due" THEN Dispatch(c) ELSE {}
               \/ /\ ~IdentityChanged /\ Pending = {}
                  /\ UNCHANGED <<index, cap>>
    /\ UNCHANGED <<env, ledger, saved, done, snaps, scores, faults, crashes>>

SaveIndex ==
    /\ polled /\ polled' = FALSE
    /\ UNCHANGED <<index, known>>
    /\ _atomic_write_json
    /\ UNCHANGED <<env, ledger, cap, done, snaps, scores, faults, crashes>>

(***************************************************************************)
(* _capture_snapshot.                                                      *)
(***************************************************************************)
To(k, stage) == cap' = {[k EXCEPT !.stage = stage]}
Return(k, ok) == cap' = {} /\ done' = {<<k.c, ok>>}
Keep == UNCHANGED <<index, saved, known, polled, scores, ticks, crashes>>

\* a step that Docker may fail, by as many commands as it takes
Faults(n) == faults + n <= MaxFaults /\ faults' = faults + n
Fault == Faults(1)
NoFault == UNCHANGED faults

\* the container of the capture still exists
Present(k) == arm.trial = k.trial /\ ~arm.ended

\* the trial's container is running and not paused
_validate_container_identity(k) == arm.trial = k.trial /\ arm.inv # 0 /\ ~arm.paused

\* an existing snapshot is returned; otherwise the same trial must still be
\* running
CaptureRefresh ==
    \E k \in cap :
        /\ k.stage = "refresh"
        /\ IF k.c \in {s.c : s \in snaps} THEN Return(k, TRUE)
           ELSE IF _validate_container_identity(k)
           THEN cap' = {[k EXCEPT !.stage = "pause", !.inv = arm.inv]} /\ UNCHANGED done
           ELSE Return(k, FALSE)
        /\ Keep /\ UNCHANGED <<arm, ledger, snaps, faults>>

\* docker pause: done, refused, or done with its answer lost
CapturePause ==
    \E k \in cap :
        /\ k.stage = "pause"
        /\ \/ /\ Present(k)
              /\ arm' = [arm EXCEPT !.paused = TRUE]
              /\ cap' = {[k EXCEPT !.stage = "check", !.frozen = TRUE, !.acked = TRUE]}
              /\ NoFault
           \/ /\ arm' = arm /\ To(k, "finally")
              /\ IF Present(k) THEN Fault ELSE NoFault
           \/ /\ Present(k)
              /\ arm' = [arm EXCEPT !.paused = TRUE]
              /\ cap' = {[k EXCEPT !.stage = "finally", !.frozen = TRUE]}
              /\ Fault
        /\ Keep /\ UNCHANGED <<ledger, done, snaps>>

\* the same invocation, and one that was running at the cutoff
CaptureCheck ==
    \E k \in cap :
        /\ k.stage = "check"
        /\ IF Present(k) /\ arm.inv = k.inv /\ NonNeg(arm.raw - k.prior.completed) < k.c
           THEN cap' = {[k EXCEPT !.stage = "commit", !.at = arm.work, !.cut = arm.cut,
                                  !.seen = NonNeg(arm.raw + arm.age - k.prior.total)]}
           ELSE To(k, "finally")
        /\ Keep /\ UNCHANGED <<arm, ledger, done, snaps, faults>>

CaptureCommit ==
    \E k \in cap :
        /\ k.stage = "commit"
        /\ \/ /\ Present(k) /\ NoFault
              /\ cap' = {[k EXCEPT !.stage = "unpause", !.content = arm.work]}
           \/ To(k, "finally") /\ IF Present(k) THEN Fault ELSE NoFault
        /\ Keep /\ UNCHANGED <<arm, ledger, done, snaps>>

_ensure_unpaused(k) == Present(k) /\ arm' = [arm EXCEPT !.paused = FALSE] /\ NoFault

\* it raises when the container is gone, or after three attempts, which cost
\* more failures than a run with a single one has
UnpauseRaises(k) == UNCHANGED arm /\ IF Present(k) THEN Faults(2) ELSE NoFault

CaptureUnpause ==
    \E k \in cap :
        /\ k.stage = "unpause"
        /\ \/ _ensure_unpaused(k) /\ cap' = {[k EXCEPT !.stage = "ledger", !.frozen = FALSE]}
           \/ UnpauseRaises(k) /\ To(k, "finally")
        /\ Keep /\ UNCHANGED <<ledger, done, snaps>>

_write_freeze_ledger(k, inv) ==
    ledger' = ledger \cup
        {[trial |-> k.trial, inv |-> inv, c |-> k.c, n |-> index[k.c].attempts,
          dur |-> k.freeze]}

CaptureLedger ==
    \E k \in cap :
        /\ k.stage = "ledger"
        /\ _write_freeze_ledger(k, k.inv)
        /\ To(k, "publish")
        /\ Keep /\ UNCHANGED <<arm, done, snaps, faults>>

\* the workspace of the committed image, exported, scanned and hashed
_ingest_workspace(k) ==
    [c |-> k.c, content |-> k.content, at |-> k.at, seen |-> k.seen, trial |-> k.trial,
     cut |-> k.cut, intact |-> TRUE]

\* the snapshot directory is renamed in place when all of it is written
CapturePublish ==
    \E k \in cap :
        /\ k.stage = "publish"
        /\ \/ /\ snaps' = snaps \cup {_ingest_workspace(k)}
              /\ Return(k, TRUE) /\ NoFault
           \/ /\ Return(k, FALSE) /\ Fault /\ UNCHANGED snaps
        /\ Keep /\ UNCHANGED <<arm, ledger>>

\* only a pause that was acknowledged is undone
Finally_OnlyAcknowledged(k) ==
    IF k.acked
    THEN \/ _ensure_unpaused(k) /\ _write_freeze_ledger(k, k.polledInv)
         \/ UnpauseRaises(k) /\ UNCHANGED ledger
    ELSE UNCHANGED <<arm, ledger>> /\ NoFault

\* the finally block: thaw if frozen, and record the freeze for the
\* invocation of the poll; a pause whose answer was lost is noticed unless
\* the inspection fails as well
Finally(k) ==
    \/ k.frozen /\ _ensure_unpaused(k) /\ _write_freeze_ledger(k, k.polledInv)
    \/ k.frozen /\ UnpauseRaises(k) /\ UNCHANGED ledger
    \/ k.frozen /\ ~k.acked /\ UNCHANGED <<arm, ledger>> /\ Fault
    \/ ~k.frozen /\ UNCHANGED <<arm, ledger>> /\ NoFault

CaptureFinally ==
    \E k \in cap :
        /\ k.stage = "finally"
        /\ Finally(k)
        /\ Return(k, FALSE)
        /\ Keep /\ UNCHANGED snaps

(***************************************************************************)
(* The watcher process dies and is started again.                          *)
(***************************************************************************)
Restart ==
    /\ crashes < MaxCrashes
    /\ crashes' = crashes + 1
    /\ index' = [c \in Cutoffs |->
                    LET old == saved.cuts[c]
                    IN  IF old.status = "capturing" THEN [old EXCEPT !.status = "pending"] ELSE old]
    /\ known' = saved.known
    /\ _atomic_write_json
    /\ cap' = {} /\ done' = {} /\ polled' = FALSE
    /\ UNCHANGED <<env, ledger, snaps, scores, faults>>

(***************************************************************************)
(* Scoring, after every arm has ended.                                     *)
(***************************************************************************)
Damage ==
    /\ Fault /\ arm.ended
    /\ \E s \in snaps : snaps' = (snaps \ {s}) \cup {[s EXCEPT !.intact = FALSE]}
    /\ UNCHANGED <<env, ledger, index, saved, known, polled, cap, done, scores, crashes>>

\* the blobs must be those the snapshot was published with
materialize_snapshot(s) == s.intact

\* only a captured checkpoint of an ended arm is scored, in a directory that
\* does not exist yet; a score that exists is reused
ScoreBegin(s) ==
    /\ arm.ended
    /\ saved.cuts[s.c].status = "captured"
    /\ scores[s.c] = "none"
    /\ materialize_snapshot(s)
    /\ scores' = [scores EXCEPT ![s.c] = "begun"]
    /\ UNCHANGED <<env, ledger, index, saved, known, polled, cap, done, snaps, faults, crashes>>

\* the verifier ran: score.json is written
ScoreFinish(s) ==
    /\ scores[s.c] = "begun"
    /\ scores' = [scores EXCEPT ![s.c] = "scored"]
    /\ UNCHANGED <<env, ledger, index, saved, known, polled, cap, done, snaps, faults, crashes>>

Init ==
    /\ arm = Arm(1)
    /\ ledger = {} /\ snaps = {}
    /\ index = [c \in Cutoffs |-> Cutoff("pending", 0)]
    /\ known = {}
    /\ saved = [cuts |-> index, known |-> known]
    /\ polled = FALSE /\ cap = {} /\ done = {}
    /\ scores = [c \in Cutoffs |-> "none"]
    /\ ticks = 0 /\ faults = 0 /\ crashes = 0

Next ==
    \/ Tick \/ StartInvocation \/ EndInvocation \/ NewTrial \/ EndArm
    \/ Harvest \/ Poll \/ SaveIndex
    \/ CaptureRefresh \/ CapturePause \/ CaptureCheck \/ CaptureCommit
    \/ CaptureUnpause \/ CaptureLedger \/ CapturePublish \/ CaptureFinally
    \/ Restart \/ Damage
    \/ \E s \in snaps : ScoreBegin(s) \/ ScoreFinish(s)

Spec == Init /\ [][Next]_vars

\* at most one Docker command failed and no watcher died
Orderly == faults < 2 /\ crashes = 0

(***************************************************************************)
(* A published checkpoint holds the workspace as it was when the pause     *)
(* was acknowledged.  Unless an invocation ended while frozen, when too    *)
(* much is subtracted, the recorded active time is an upper bound of the   *)
(* time really worked by then.  Unless a watcher died or two Docker        *)
(* commands failed: the arm had really worked for the cutoff (no freeze    *)
(* was taken for work); the checkpoints of an arm are of one trial; and    *)
(* the container is frozen only while a capture is at work on it           *)
(* (_capture_snapshot, _freeze_offsets, _write_freeze_ledger, watch).      *)
(***************************************************************************)
CheckpointsAreFaithful ==
    /\ \A s \in snaps : s.content = s.at /\ (s.at <= s.seen \/ s.cut)
    /\ Orderly =>
        /\ \A s \in snaps : s.at >= s.c
        /\ \A s, t \in snaps : {index[s.c].status, index[t.c].status} = {"captured"}
                                => s.trial = t.trial
        /\ arm.paused => cap # {}
=============================================================================
