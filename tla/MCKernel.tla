------------------------------ MODULE MCKernel ------------------------------
(***************************************************************************)
(* The kernel's tables, for TLC: leases and the transactional outbox.      *)
(*                                                                         *)
(* They share no state here, so a behaviour is one of a single component:  *)
(* part says which.  LeaseService keeps its own variables, which rest in   *)
(* their initial state while the outbox runs, and the outbox uses the      *)
(* slots.  Lease ids and claim tokens are interchangeable, and so are the  *)
(* processes of the lease table and the workers of the outbox.             *)
(***************************************************************************)
EXTENDS LeaseService, TLC

CONSTANTS None, NoPayload

VARIABLES part,  \* the component this behaviour is about
          s1, s2, s3, s4, s5, s6, s7, s8, s9, s10

slots == <<s1, s2, s3, s4, s5, s6, s7, s8, s9, s10>>
allVars == <<part, vars, slots>>

Symmetry == Permutations(Pids) \cup Permutations(LeaseIds)

Outbox == INSTANCE TransactionalOutbox WITH
  status <- s1, payload <- s2, attempts <- s3, avail <- s4, token <- s5,
  expires <- s6, applied <- s7, worker <- s8, effects <- s9, deaths <- s10,
  Keys <- {"k"}, Payloads <- {"x", "y"}, NoPayload <- NoPayload,
  Delays <- {0, 1}, Workers <- Pids, Tokens <- LeaseIds, None <- None,
  ClaimTtl <- 1, RetryDelay <- 1, MaxAttempts <- 2, Limit <- 2, Poison <- {},
  MaxAge <- 4, MaxLag <- 1, MaxElapsed <- 2, MaxDeaths <- 1

-----------------------------------------------------------------------------
KernelInit ==
  /\ Init
  /\ \/ /\ part = "leases" /\ s1 = 0 /\ s2 = 0 /\ s3 = 0 /\ s4 = 0 /\ s5 = 0
        /\ s6 = 0 /\ s7 = 0 /\ s8 = 0 /\ s9 = 0 /\ s10 = 0
     \/ /\ part = "outbox" /\ Outbox!Init
        /\ proc_state = [p \in Pids |-> "none"]

LeasesNext == part = "leases" /\ Next /\ UNCHANGED <<part, slots>>
OutboxNext == part = "outbox" /\ Outbox!Next /\ UNCHANGED <<part, vars>>

KernelNext == LeasesNext \/ OutboxNext

KernelSpec == KernelInit /\ [][KernelNext]_allVars

-----------------------------------------------------------------------------
(* Outbox: the mutation of an intent is applied once, its key stands for   *)
(* one payload, a row is delivered only after its message was seen and a   *)
(* dead letter only after its last attempt, and a worker that still owns   *)
(* its claim owns it alone.                                                *)
OutboxInv == part = "outbox" => Outbox!OutboxInv /\ Outbox!ClaimIsExclusive

(* Every behaviour of the outbox is one of an at-least-once delivery:      *)
(* commit_intent and dispatch_ready under the names of                     *)
(* AtLeastOnceDelivery.                                                    *)
ImplementsDelivery ==
  /\ part = "outbox" => Outbox!Delivery!Init
  /\ [][part = "outbox" => [Outbox!Delivery!Next]_Outbox!Delivery!vars]_allVars
=============================================================================
