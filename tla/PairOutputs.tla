---------------------------- MODULE PairOutputs ----------------------------
(***************************************************************************)
(* Output directories of separately run arms (run_lhtb_software5_pair.py): *)
(* a prepared output is materialized into one output per arm, each arm is  *)
(* run and summarized on its own, and the two are merged into one paired   *)
(* result.  Every command may fail or be killed half way, the prepared     *)
(* output may be prepared again and images rebuilt between the commands.   *)
(*                                                                         *)
(* The identity of a prepared output (its manifest with tasks, budgets,    *)
(* seeds and configs) is a number; an image is its build number.           *)
(***************************************************************************)
EXTENDS Integers, FiniteSets

CONSTANTS Tasks, MaxPrepared, MaxBuilds, MaxCrashes

Modes == {"fresh", "lhos"}

VARIABLES
    prepared,   \* the source output: [id, pin, prebuilt]
    image,      \* the image Docker has now
    target,     \* arm outputs: mode -> {} or {[id, pin, filled]}
    records,    \* mode -> task -> {} or {arm record}
    arm_result, \* mode -> {} or {[id, rows]}, rows: task -> {} or {record}
    merged,     \* the merged output: {} or {[id, records, result]}
    step,       \* where the running command is
    crashes

vars == <<prepared, image, target, records, arm_result, merged, step, crashes>>

Idle == [at |-> "idle", created |-> {}]

\* An arm record: status, config parity and the image it ran on.
Record(status, parity, build) ==
    [status |-> status, parity |-> parity, image |-> build]

NoRecords == [t \in Tasks |-> {}]

Init ==
    /\ prepared = [id |-> 1, pin |-> 1, prebuilt |-> TRUE]
    /\ image = 1
    /\ target = [m \in Modes |-> {}]
    /\ records = [m \in Modes |-> NoRecords]
    /\ arm_result = [m \in Modes |-> {}]
    /\ merged = {} /\ step = Idle /\ crashes = 0

\* The source output is prepared again, with another manifest, and prebuilt.
Prepare ==
    /\ step = Idle /\ prepared.id < MaxPrepared
    /\ prepared' = [id |-> prepared.id + 1, pin |-> image, prebuilt |-> FALSE]
    /\ UNCHANGED <<image, target, records, arm_result, merged, step, crashes>>

\* prebuild: a rebuilt image replaces the one other outputs pinned.
Prebuild ==
    /\ step = Idle /\ image < MaxBuilds
    /\ image' = image + 1
    /\ prepared' = [prepared EXCEPT !.pin = image + 1, !.prebuilt = TRUE]
    /\ UNCHANGED <<target, records, arm_result, merged, step, crashes>>

-----------------------------------------------------------------------------
(* materialize_arm_outputs                                                 *)

\* Neither target may exist, and the source must be completely prebuilt.
MaterializeBegin ==
    /\ step = Idle /\ prepared.prebuilt
    /\ \A m \in Modes : target[m] = {}
    /\ step' = [at |-> "materialize", created |-> {}]
    /\ UNCHANGED <<prepared, image, target, records, arm_result, merged,
                   crashes>>

\* One arm's directory is created, and then filled, fresh first.
MaterializeArm(m) ==
    /\ step.at = "materialize" /\ (m = "lhos" => "fresh" \in step.created)
    /\ \/ /\ target[m] = {} /\ m \notin step.created
          /\ m = "lhos" => \E x \in target["fresh"] : x.filled
          /\ target' = [target EXCEPT ![m] = {[id |-> prepared.id,
                           pin |-> prepared.pin, filled |-> FALSE]}]
          /\ step' = [step EXCEPT !.created = @ \cup {m}]
       \/ /\ \E x \in target[m] :
                ~x.filled /\ target' = [target EXCEPT ![m] =
                                           {[x EXCEPT !.filled = TRUE]}]
          /\ step' = IF m = "lhos" THEN Idle ELSE step
    /\ UNCHANGED <<prepared, image, records, arm_result, merged, crashes>>

\* An exception removes the directories this call created.
MaterializeFails ==
    /\ step.at = "materialize"
    /\ target' = [m \in Modes |-> IF m \in step.created THEN {} ELSE target[m]]
    /\ step' = Idle
    /\ UNCHANGED <<prepared, image, records, arm_result, merged, crashes>>

-----------------------------------------------------------------------------
(* The arm batches                                                         *)

\* run_pairs in arm mode settles a task.  A directory without its manifest
\* cannot be run, and an image other than the pinned one fails the task.
RunArm(m, t) ==
    /\ step = Idle /\ records[m][t] = {}
    /\ \E x \in target[m] :
          /\ x.filled
          /\ \E status \in IF x.pin = image THEN {"completed", "failed"}
                           ELSE {"failed"} :
                records' = [records EXCEPT ![m][t] =
                               {Record(status, x.id, image)}]
    /\ UNCHANGED <<prepared, image, target, arm_result, merged, step, crashes>>

\* summarize_arm_output: one row per task, settled or not.
SummarizeArm(m) ==
    /\ step = Idle
    /\ \E x \in target[m] : /\ x.filled
                            /\ arm_result' = [arm_result EXCEPT ![m] =
                                  {[id |-> x.id, rows |-> records[m]]}]
    /\ UNCHANGED <<prepared, image, target, records, merged, step, crashes>>

\* A user removes an arm's output to start over.
Discard(m) ==
    /\ step = Idle /\ target[m] # {}
    /\ target' = [target EXCEPT ![m] = {}]
    /\ records' = [records EXCEPT ![m] = NoRecords]
    /\ arm_result' = [arm_result EXCEPT ![m] = {}]
    /\ UNCHANGED <<prepared, image, merged, step, crashes>>

-----------------------------------------------------------------------------
(* merge_arm_outputs                                                       *)

\* The manifests come from one source.
SameSource(f, l) == f.id = l.id

RowsMatch_ParityOnly(f, l) == \E x \in f, y \in l : x.parity = y.parity

\* Two rows of a task: equal parities and equal images, neither missing.
RowsMatch(f, l) ==
    \E x \in f, y \in l : x.parity = y.parity /\ x.image = y.image

\* Everything is validated against the arm summaries before the output is
\* created, which must not exist.
MergeBegin ==
    /\ step = Idle /\ merged = {}
    /\ \E f \in target["fresh"], l \in target["lhos"] :
          /\ f.filled /\ l.filled /\ SameSource(f, l)
          /\ \E fr \in arm_result["fresh"], lr \in arm_result["lhos"] :
                /\ fr.id = f.id /\ lr.id = l.id
                /\ \A t \in Tasks : RowsMatch(fr.rows[t], lr.rows[t])
          /\ merged' = {[id |-> f.id, result |-> FALSE,
                         records |-> [m \in Modes |-> NoRecords]]}
    /\ step' = [at |-> "merge", created |-> {}]
    /\ UNCHANGED <<prepared, image, target, records, arm_result, crashes>>

\* The arm records are copied, then the pair is summarized.
MergeCopy ==
    /\ step.at = "merge"
    /\ \E x \in merged :
          \/ /\ x.records # records
             /\ merged' = {[x EXCEPT !.records = records]}
             /\ UNCHANGED step
          \/ /\ x.records = records
             /\ merged' = {[x EXCEPT !.result = TRUE]}
             /\ step' = Idle
    /\ UNCHANGED <<prepared, image, target, records, arm_result, crashes>>

\* The command is killed; what it wrote stays.
Crash ==
    /\ step # Idle /\ crashes < MaxCrashes
    /\ crashes' = crashes + 1 /\ step' = Idle
    /\ UNCHANGED <<prepared, image, target, records, arm_result, merged>>

Next ==
    \/ Prepare \/ Prebuild \/ MaterializeBegin \/ MaterializeFails
    \/ MergeBegin \/ MergeCopy \/ Crash
    \/ \E m \in Modes : \/ MaterializeArm(m) \/ SummarizeArm(m) \/ Discard(m)
                        \/ \E t \in Tasks : RunArm(m, t)

Spec == Init /\ [][Next]_vars

-----------------------------------------------------------------------------
(* Properties                                                              *)

\* A merged result compares like with like: for every task it holds a record
\* of each arm, of one prepared source and run on one image
\* (merge_arm_outputs).
MergedPairsCompare ==
    \A x \in merged : x.result =>
        \A t \in Tasks : \E f \in x.records["fresh"][t],
                            l \in x.records["lhos"][t] :
            f.parity = x.id /\ l.parity = x.id /\ f.image = l.image
=============================================================================
