------------------------- MODULE AtLeastOnceDelivery -------------------------
(***************************************************************************)
(* What the transactional outbox promises (module docstring of             *)
(* services/outbox.py): an intent is accepted once under its key, its      *)
(* effect shows at the destination any number of times and always with the *)
(* accepted payload, and it is reported delivered only after it has shown. *)
(***************************************************************************)
CONSTANTS Keys, Payloads, NoPayload

VARIABLES
    intent,   \* the payload accepted under each key
    outcome,  \* none, open, delivered or dead
    effects   \* payloads the destination has seen under each key

vars == <<intent, outcome, effects>>

Init ==
    /\ intent = [k \in Keys |-> NoPayload]
    /\ outcome = [k \in Keys |-> "none"]
    /\ effects = [k \in Keys |-> {}]

Accept(k, p) ==
    /\ outcome[k] = "none"
    /\ intent' = [intent EXCEPT ![k] = p]
    /\ outcome' = [outcome EXCEPT ![k] = "open"]
    /\ UNCHANGED effects

\* Also after the intent is delivered or dead: a worker that lost its claim
\* may still be publishing.
Effect(k) ==
    /\ outcome[k] # "none"
    /\ effects' = [effects EXCEPT ![k] = @ \cup {intent[k]}]
    /\ UNCHANGED <<intent, outcome>>

Deliver(k) ==
    /\ outcome[k] = "open"
    /\ intent[k] \in effects[k]
    /\ outcome' = [outcome EXCEPT ![k] = "delivered"]
    /\ UNCHANGED <<intent, effects>>

GiveUp(k) ==
    /\ outcome[k] = "open"
    /\ outcome' = [outcome EXCEPT ![k] = "dead"]
    /\ UNCHANGED <<intent, effects>>

Reopen(k) ==
    /\ outcome[k] = "dead"
    /\ outcome' = [outcome EXCEPT ![k] = "open"]
    /\ UNCHANGED <<intent, effects>>

Next == \E k \in Keys :
    \/ \E p \in Payloads : Accept(k, p)
    \/ Effect(k) \/ Deliver(k) \/ GiveUp(k) \/ Reopen(k)

Spec == Init /\ [][Next]_vars
=============================================================================
