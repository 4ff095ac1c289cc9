----------------------------- MODULE MCStores ------------------------------
(***************************************************************************)
(* The components that race on the stores, in one model-checking run: the  *)
(* synchronisation of authorization tuples, the projection of two          *)
(* organisations' events, the deletion saga, the read path and the webhook *)
(* passes.  They share no state in the model and each property speaks of   *)
(* one of them: the variable part names the one that moves.                *)
(***************************************************************************)
EXTENDS MCAuthzSync, MCProjection, MCDeletion, MCRetrieval, MCWebhooks

VARIABLE part

storeVars ==
  <<vars, projectionVars, deletionVars, readVars, webhookVars, part>>

(* The read path begins with one of two ledgers; it rests with one. *)
StoresInit ==
  /\ part \in {"authz", "projection", "deletion", "reads", "webhooks"}
  /\ Init /\ ProjectionInit /\ DeletionInit /\ WebhooksInit
  /\ RetrievalInit
  /\ part # "reads" => readable = Node

(* Workers, calls and deletions are interchangeable.  Of two that are both *)
(* idle the first one moves.                                               *)
FirstFreeClaims ==
  \A v, w \in Worker :
    (v < w /\ batch[v] = {} /\ cur[v] = {} /\ batch[w] = {}) => batch'[w] = {}

InTurn ==
  /\ \A c, d \in Call : c < d /\ incoming[c].pc = "idle" => incoming[d].pc = "idle"
  /\ \A c, d \in Saga : c < d /\ saga[c].pc = "idle" => saga[d].pc = "idle"

(* Bounds across counters: after a failure the outbox has one row to       *)
(* delete a tuple; beside a search one deletion runs; changes and failures *)
(* of a request together are at most MaxChanges.                           *)
FaultOrSecondRow ==
  \/ faults = 0
  \/ \A r \in RowId : OpOf(r) = "delete" /\ r[3] # 1 => outbox[r].status = "none"

SearchOrSecondSaga ==
  \/ \A s \in Searcher : search[s].pc = "idle"
  \/ Cardinality({d \in Saga : saga[d].pc # "idle"}) <= 1

FewDisturbances == changes + readFaults <= MaxChanges

StoresNext ==
  \/ /\ part = "authz" /\ Next /\ FirstFreeClaims /\ FaultOrSecondRow'
     /\ UNCHANGED <<projectionVars, deletionVars, readVars, webhookVars, part>>
  \/ /\ part = "projection" /\ ProjectionNext
     /\ UNCHANGED <<vars, deletionVars, readVars, webhookVars, part>>
  \/ /\ part = "deletion" /\ DeletionNext /\ (SearchOrSecondSaga /\ InTurn)'
     /\ UNCHANGED <<vars, projectionVars, readVars, webhookVars, part>>
  \/ /\ part = "reads" /\ RetrievalNext /\ FewDisturbances'
     /\ UNCHANGED <<vars, projectionVars, deletionVars, webhookVars, part>>
  \/ /\ part = "webhooks" /\ WebhooksNext
     /\ UNCHANGED <<vars, projectionVars, deletionVars, readVars, part>>

StoresSpec == StoresInit /\ [][StoresNext]_storeVars
=============================================================================
