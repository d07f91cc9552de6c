------------------------------ MODULE StopLoss ------------------------------
(***************************************************************************)
(* The stop-loss of the LHOS arm: the agent's heartbeat file, written only *)
(* while an invocation runs (lhtb_dsh_harbor_agent.py _heartbeat_loop),    *)
(* and the pair runner's monitor that polls it and stops the run           *)
(* (run_lhtb_software5_pair.py _monitor_lhos, _run_lhos_arm).              *)
(*                                                                         *)
(* A session generation is the tokens it has used; its event count grows   *)
(* with them and is not kept apart.  The quality rule, off by default, is  *)
(* left out.                                                               *)
(***************************************************************************)
EXTENDS Integers, FiniteSets, FiniteSetsExt

CONSTANTS
    TokenBudget, InertBudget,   \* the ceilings of rules 1 and 2
    StallWindow,                \* polls without growth that are a stall
    Semantic,                   \* values of semantic_context_control
    MaxTokens, MaxInvocations

VARIABLES
    semantic,
    flying,     \* is an invocation running?
    invocation, \* invocations so far
    gen,        \* session generation
    tokens,     \* generation -> tokens its session has used
    decisions,  \* semantic decisions so far
    usage,      \* _heartbeat_generation_usage: key -> tokens last seen
    heartbeat,  \* the heartbeat file, {} until the first beat
    snapshot,   \* the observability file, {} until an invocation ended
    seen,       \* the monitor's last tokens and its stalled samples
    verdict,    \* why the monitor stopped the run, "" so far
    run,        \* "running" or "done"
    watched     \* ghost: was an invocation running at each stalled sample?

vars == <<semantic, flying, invocation, gen, tokens, decisions, usage,
          heartbeat, snapshot, seen, verdict, run, watched>>

Total(f) == MapThenSumSet(LAMBDA g : f[g], DOMAIN f)

Put(f, k, v) == [x \in DOMAIN f \cup {k} |-> IF x = k THEN v ELSE f[x]]

Init ==
    /\ semantic \in Semantic
    /\ flying = FALSE /\ invocation = 0 /\ gen = 0 /\ decisions = 0
    /\ tokens = [g \in {0} |-> 0] /\ usage = <<>>
    /\ heartbeat = {} /\ snapshot = {}
    /\ seen = [last |-> -1, stalled |-> 0]
    /\ verdict = "" /\ run = "running" /\ watched = TRUE

Alive == run = "running" /\ verdict = ""

\* The agent starts an invocation: the first, a resume, or a restart that
\* opens the next generation; semantic control decides at every boundary.
StartInvocation ==
    /\ Alive /\ ~flying /\ invocation < MaxInvocations
    /\ flying' = TRUE /\ invocation' = invocation + 1
    /\ \E g \in IF invocation > 0 /\ semantic THEN {gen, gen + 1} ELSE {gen} :
          /\ gen' = g
          /\ tokens' = IF g \in DOMAIN tokens THEN tokens ELSE Put(tokens, g, 0)
    /\ decisions' = IF invocation > 0 /\ semantic THEN decisions + 1
                    ELSE decisions
    /\ UNCHANGED <<semantic, usage, heartbeat, snapshot, seen, verdict, run,
                   watched>>

\* DSH spends tokens.
Spend ==
    /\ Alive /\ flying /\ Total(tokens) < MaxTokens
    /\ tokens' = [tokens EXCEPT ![gen] = @ + 1]
    /\ UNCHANGED <<semantic, flying, invocation, gen, decisions, usage,
                   heartbeat, snapshot, seen, verdict, run, watched>>

\* Usage is remembered per generation: a resumed session's trace already
\* contains what its earlier invocations used.
UsageKey_Invocation == invocation

UsageKey == gen

\* One round of _heartbeat_loop.
Beat ==
    /\ Alive /\ flying
    /\ usage' = Put(usage, UsageKey, tokens[gen])
    /\ heartbeat' = {[tokens |-> tokens[gen], cumulative |-> Total(usage'),
                      decisions |-> decisions]}
    /\ UNCHANGED <<semantic, flying, invocation, gen, tokens, decisions,
                   snapshot, seen, verdict, run, watched>>

\* The invocation ends: the heartbeat stops, the full snapshot is written.
\* What follows is Harbor's verifier, the agent's boundary or the end.
EndInvocation ==
    /\ Alive /\ flying /\ flying' = FALSE
    /\ snapshot' = {[tokens |-> Total(tokens), cumulative |-> Total(tokens),
                     decisions |-> decisions]}
    /\ UNCHANGED <<semantic, invocation, gen, tokens, decisions, usage,
                   heartbeat, seen, verdict, run, watched>>

EndRun ==
    /\ Alive /\ ~flying /\ invocation > 0 /\ run' = "done"
    /\ UNCHANGED <<semantic, flying, invocation, gen, tokens, decisions, usage,
                   heartbeat, snapshot, seen, verdict, watched>>

\* _find_observability: the heartbeat whenever there is one.
Found == IF heartbeat # {} THEN heartbeat ELSE snapshot

Spent_Generation(o) == o.tokens

Spent(o) == IF o.cumulative > o.tokens THEN o.cumulative ELSE o.tokens

\* The stalled samples after this one; a counter that went down is a restart.
Stalled(o) ==
    IF seen.last = -1 \/ o.tokens # seen.last THEN 0 ELSE seen.stalled + 1

Verdict(o) ==
    CASE Spent(o) > TokenBudget -> "token_budget_exceeded"
      [] semantic /\ o.decisions = 0 /\ Spent(o) > InertBudget ->
            "semantic_control_inert"
      [] Stalled(o) >= StallWindow -> "no_progress"
      [] OTHER -> ""

\* One sample of _monitor_lhos.  A verdict cancels the run.
Poll ==
    /\ Alive
    /\ \E o \in Found :
          /\ verdict' = Verdict(o)
          /\ seen' = [last |-> o.tokens, stalled |-> Stalled(o)]
          /\ watched' = IF Stalled(o) = 0 THEN TRUE ELSE watched /\ flying
    /\ UNCHANGED <<semantic, flying, invocation, gen, tokens, decisions, usage,
                   heartbeat, snapshot, run>>

Next ==
    \/ StartInvocation \/ Spend \/ Beat \/ EndInvocation \/ EndRun \/ Poll

Spec == Init /\ [][Next]_vars

-----------------------------------------------------------------------------
(* Properties                                                              *)

\* Tokens are neither counted twice over a resume nor forgotten over a
\* restart: a run stopped for its budget did spend more than it, a heartbeat
\* never claims more than all generations used, and what the monitor reads
\* from it is at least the last usage seen of every generation
\* (usage_cumulative, _heartbeat_generation_usage).
BudgetIsExact ==
    /\ verdict = "token_budget_exceeded" => Total(tokens) > TokenBudget
    /\ \A o \in heartbeat : /\ o.cumulative <= Total(tokens)
                            /\ Spent(o) >= Total(usage)

=============================================================================
