----------------------------- MODULE MCWorkers -----------------------------
(***************************************************************************)
(* The families of background loops of the serve process in one            *)
(* model-checking run with liveness: the worker that applies authorization *)
(* tuples with its reconciler, the relays and consumers of the index, and  *)
(* the webhook passes.  They share no state in the model and each property *)
(* speaks of one of them: the variable loops names the one that moves.     *)
(***************************************************************************)
EXTENDS MCAuthzSync, MCProjection, MCWebhooks

VARIABLE loops

workerVars == <<vars, projectionVars, webhookVars, loops>>

(* A step of one family leaves the others where they are.  (WorkersNext    *)
(* says the same without parameters, so that coverage is counted per       *)
(* action.)                                                                *)

InAuthz(A) ==
  loops = "authz" /\ A /\ UNCHANGED <<projectionVars, webhookVars, loops>>

InProjection(A) ==
  loops = "projection" /\ A /\ UNCHANGED <<vars, webhookVars, loops>>

InWebhooks(A) ==
  loops = "webhooks" /\ A /\ UNCHANGED <<vars, projectionVars, loops>>

WorkersInit ==
  /\ loops \in {"authz", "projection", "webhooks"}
  /\ Init /\ ProjectionInit /\ WebhooksInit

(* Bound: no failure and no replay while a second pass runs (Store_races   *)
(* has them side by side).  Fairness owes neither.                         *)
CalmBesideDrain ==
  \/ \A p \in Pass \ {HookLoop} : pass[p] = IdlePass /\ push[p] = NoPush
  \/ hookFaults = 0 /\ replays = {}

WorkersNext ==
  \/ /\ loops = "authz" /\ Next
     /\ UNCHANGED <<projectionVars, webhookVars, loops>>
  \/ /\ loops = "projection" /\ ProjectionNext
     /\ UNCHANGED <<vars, webhookVars, loops>>
  \/ /\ loops = "webhooks" /\ WebhooksNext /\ CalmBesideDrain'
     /\ UNCHANGED <<vars, projectionVars, loops>>

(* The fairness of the families, as their modules state it. *)

WorkersFairness ==
  /\ \A w \in Worker : WF_workerVars(InAuthz(WorkerStep(w)))
  /\ \A r \in RowId : WF_workerVars(InAuthz(TimePasses(r)))
  /\ WF_workerVars(InAuthz(ReconcileStep))
  /\ \A i \in Intake : WF_workerVars(InAuthz(UpsertEdgeCommit(i)))
  /\ \A d \in Deleter : WF_workerVars(InAuthz(DeleteCommit(d)))
  /\ \A t \in Relay : WF_workerVars(InProjection(RelayStep(t)))
  /\ \A t \in Consumer : WF_workerVars(InProjection(ConsumeStep(t)))
  /\ \A r \in OutboxRow : /\ WF_workerVars(InProjection(LeaseExpires(r)))
                          /\ WF_workerVars(InProjection(AckWaitExpires(r)))
  /\ WF_workerVars(InWebhooks(StartPass(HookLoop)))
  /\ \A p \in Pass : WF_workerVars(InWebhooks(PassStep(p)))
  /\ \A s \in Sub, e \in Event : WF_workerVars(InWebhooks(RetryDue(s, e)))

WorkersSpec == WorkersInit /\ [][WorkersNext]_workerVars /\ WorkersFairness
=============================================================================
