----------------------------- MODULE Projection -----------------------------
(***************************************************************************)
(* From the transactional outbox to the search index (ADR 0007).           *)
(*                                                                         *)
(* An accepted intake leaves one row in the outbox.  Relay loops claim     *)
(* rows under a lease, publish each to JetStream, project it into the      *)
(* index themselves, and mark the batch published; consumer loops fetch    *)
(* the stream's messages, project them too, and acknowledge.  An inbox     *)
(* receipt per event makes the second projection a no-op.                  *)
(*                                                                         *)
(* A row is <<organisation, event id>>: event ids may come from clients,   *)
(* so two organisations may use the same one.  The row stands for its      *)
(* payload.  Time is abstracted: leases, acknowledgement deadlines and     *)
(* JetStream's duplicate window may end at any moment.  Bound: a consumer  *)
(* fetches one message at a time.                                          *)
(***************************************************************************)
EXTENDS Integers, FiniteSets

CONSTANTS
  Org,         \* organisations
  EventId,     \* event ids
  Resource,    \* resource ids
  ResourceOf,  \* the resource an event id is about, in every organisation
  Relay,       \* relay loops, one per worker process
  Consumer,    \* consumer loops, one per worker process
  RelayBatch,  \* Worker.Batch
  MaxDeliver,  \* JetStream deliveries of a message (5 in the code)
  MaxPipeFaults, \* bound: failures and crashes in a behaviour
  NoOutboxRow  \* no row

OutboxRow == Org \X EventId

ASSUME ProjectionAssumption ==
  /\ ResourceOf \in [EventId -> Resource]
  /\ Relay \cap Consumer = {} /\ IsFiniteSet(Consumer)
  /\ RelayBatch \in Nat \ {0}
  /\ MaxDeliver \in Nat \ {0}
  /\ MaxPipeFaults \in Nat
  /\ NoOutboxRow \notin OutboxRow

VARIABLES
  eventOutbox, \* outbox rows, and whether a pending one may be claimed
  stream,      \* JetStream's message for each row, and its deliveries
  dedup,       \* message ids in the duplicate window
  inbox,       \* consumer_receipts of the index projector
  searchIndex,       \* the row each document was last written from
  relaying,        \* rows a relay has claimed and not yet published
  sent,        \* rows a relay will mark published
  job,         \* the projection a loop is running
  pipeFaults   \* failures so far

projectionVars ==
  <<eventOutbox, stream, dedup, inbox, searchIndex, relaying, sent, job, pipeFaults>>

Loop == Relay \cup Consumer
IdleLoop == [row |-> NoOutboxRow, step |-> "idle"]

DueRows == {r \in OutboxRow : eventOutbox[r].status = "pending" /\ eventOutbox[r].due}

Doc(r) == <<r[1], ResourceOf[r[2]]>>

(* Intake commits the row. *)
Accept(r) ==
  /\ eventOutbox[r].status = "none"
  /\ eventOutbox' = [eventOutbox EXCEPT ![r] = [status |-> "pending", due |-> TRUE]]
  /\ UNCHANGED <<stream, dedup, inbox, searchIndex, relaying, sent, job, pipeFaults>>

-----------------------------------------------------------------------------
(* relayOnce *)

(* claim_outbox_batch selects due rows, then leases and returns every row  *)
(* with one of their ids.                                                  *)
ClaimOutbox(t) ==
  /\ job[t] = IdleLoop /\ relaying[t] = {} /\ sent[t] = {}
  /\ \E rs \in SUBSET DueRows :
       LET claimed == {r \in OutboxRow : /\ eventOutbox[r].status # "none"
                                         /\ \E q \in rs : q[2] = r[2]}
       IN /\ rs # {}
          /\ \/ rs = DueRows /\ Cardinality(rs) <= RelayBatch
             \/ Cardinality(rs) = RelayBatch
          /\ relaying' = [relaying EXCEPT ![t] = claimed]
          /\ eventOutbox' = [r \in OutboxRow |->
               IF r \in claimed THEN [eventOutbox[r] EXCEPT !.due = FALSE]
               ELSE eventOutbox[r]]
  /\ UNCHANGED <<stream, dedup, inbox, searchIndex, sent, job, pipeFaults>>

(* JetStream drops a message whose id it has seen within the window. *)
Published(r) ==
  /\ stream' = IF r[2] \in dedup THEN stream
               ELSE [stream EXCEPT ![r] = [status |-> "ready", tries |-> 0]]
  /\ dedup' = dedup \cup {r[2]}

Publish(t) ==
  \E r \in relaying[t] :
    /\ job[t] = IdleLoop
    /\ Published(r)
    /\ relaying' = [relaying EXCEPT ![t] = @ \ {r}]
    /\ job' = [job EXCEPT ![t] = [row |-> r, step |-> "check"]]
    /\ UNCHANGED <<eventOutbox, inbox, searchIndex, sent, pipeFaults>>

(* Mutant: a failed publish is skipped and the row marked with the rest. *)
PublishErrorSkipped(t) ==
  \E r \in relaying[t] :
    /\ job[t] = IdleLoop
    /\ pipeFaults < MaxPipeFaults
    /\ pipeFaults' = pipeFaults + 1
    /\ relaying' = [relaying EXCEPT ![t] = @ \ {r}]
    /\ sent' = [sent EXCEPT ![t] = @ \cup {r}]
    /\ UNCHANGED <<eventOutbox, stream, dedup, inbox, searchIndex, job>>

(* A publish fails, or seems to: the pass returns and marks nothing. *)
PublishError(t) ==
  \E r \in relaying[t] :
    /\ job[t] = IdleLoop
    /\ pipeFaults < MaxPipeFaults
    /\ pipeFaults' = pipeFaults + 1
    /\ Published(r) \/ UNCHANGED <<stream, dedup>>
    /\ relaying' = [relaying EXCEPT ![t] = {}]
    /\ sent' = [sent EXCEPT ![t] = {}]
    /\ UNCHANGED <<eventOutbox, inbox, searchIndex, job>>

(* A projection error is only logged. *)
RelayProjected(t) ==
  /\ job[t].step \in {"ok", "failed"}
  /\ sent' = [sent EXCEPT ![t] = @ \cup {job[t].row}]
  /\ job' = [job EXCEPT ![t] = IdleLoop]
  /\ UNCHANGED <<eventOutbox, stream, dedup, inbox, searchIndex, relaying, pipeFaults>>

(* mark_outbox_published_batch: every row with one of the ids. *)
MarkOutboxPublished(t) ==
  /\ job[t] = IdleLoop /\ relaying[t] = {} /\ sent[t] # {}
  /\ eventOutbox' = [r \in OutboxRow |->
       IF eventOutbox[r].status = "pending" /\ \E q \in sent[t] : q[2] = r[2]
       THEN [status |-> "published", due |-> FALSE]
       ELSE eventOutbox[r]]
  /\ sent' = [sent EXCEPT ![t] = {}]
  /\ UNCHANGED <<stream, dedup, inbox, searchIndex, relaying, job, pipeFaults>>

-----------------------------------------------------------------------------
(* projectPayload *)

StepTo(t, step) == job' = [job EXCEPT ![t].step = step]

HasInbox(t) ==
  /\ job[t].step = "check"
  /\ StepTo(t, IF job[t].row \in inbox THEN "ok" ELSE "upsert")
  /\ UNCHANGED <<eventOutbox, stream, dedup, inbox, searchIndex, relaying, sent, pipeFaults>>

Upserted(r) == searchIndex' = [searchIndex EXCEPT ![Doc(r)] = r] /\ UNCHANGED inbox

(* GetRecord and Index.Upsert, with the revision of the event. *)
UpsertDocument(t) ==
  /\ job[t].step = "upsert"
  /\ Upserted(job[t].row)
  /\ StepTo(t, "receipt")
  /\ UNCHANGED <<eventOutbox, stream, dedup, relaying, sent, pipeFaults>>

Received(r) == inbox' = inbox \cup {r} /\ UNCHANGED searchIndex

PutInbox(t) ==
  /\ job[t].step = "receipt"
  /\ Received(job[t].row)
  /\ StepTo(t, "ok")
  /\ UNCHANGED <<eventOutbox, stream, dedup, relaying, sent, pipeFaults>>

(* The ledger or the index fails; the write may have been made. *)
ProjectError(t) ==
  /\ job[t].step \in {"check", "upsert", "receipt"}
  /\ pipeFaults < MaxPipeFaults
  /\ pipeFaults' = pipeFaults + 1
  /\ \/ UNCHANGED <<inbox, searchIndex>>
     \/ job[t].step = "upsert" /\ Upserted(job[t].row)
     \/ job[t].step = "receipt" /\ Received(job[t].row)
  /\ StepTo(t, "failed")
  /\ UNCHANGED <<eventOutbox, stream, dedup, relaying, sent>>

-----------------------------------------------------------------------------
(* consumeOnce *)

Deliverable(r) == stream[r].status = "ready" /\ stream[r].tries < MaxDeliver

Fetch(t) ==
  \E r \in OutboxRow :
    /\ job[t] = IdleLoop
    /\ Deliverable(r)
    /\ stream' = [stream EXCEPT ![r] = [status |-> "inflight",
                                        tries |-> @.tries + 1]]
    /\ job' = [job EXCEPT ![t] = [row |-> r, step |-> "check"]]
    /\ UNCHANGED <<eventOutbox, dedup, inbox, searchIndex, relaying, sent, pipeFaults>>

(* Ack only after the projection is durably recorded. *)
Ack(t) ==
  /\ job[t].step = "ok"
  /\ stream' = [stream EXCEPT ![job[t].row].status = "acked"]
  /\ job' = [job EXCEPT ![t] = IdleLoop]
  /\ UNCHANGED <<eventOutbox, dedup, inbox, searchIndex, relaying, sent, pipeFaults>>

(* Mutant: the message is acknowledged whatever the projection returned. *)
NakAcknowledges(t) ==
  /\ job[t].step = "failed"
  /\ stream' = [stream EXCEPT ![job[t].row].status = "acked"]
  /\ job' = [job EXCEPT ![t] = IdleLoop]
  /\ UNCHANGED <<eventOutbox, dedup, inbox, searchIndex, relaying, sent, pipeFaults>>

Nak(t) ==
  /\ job[t].step = "failed"
  /\ stream' = [stream EXCEPT ![job[t].row].status =
                  IF @ = "inflight" THEN "ready" ELSE @]
  /\ job' = [job EXCEPT ![t] = IdleLoop]
  /\ UNCHANGED <<eventOutbox, dedup, inbox, searchIndex, relaying, sent, pipeFaults>>

-----------------------------------------------------------------------------
(* Time and crashes *)

(* Mutant: the claim takes only rows that were never leased. *)
LeaseHoldsForever(r) ==
  /\ eventOutbox[r].status = "none"
  /\ eventOutbox[r].due
  /\ UNCHANGED projectionVars

LeaseExpires(r) ==
  /\ eventOutbox[r].status = "pending" /\ ~eventOutbox[r].due
  /\ eventOutbox' = [eventOutbox EXCEPT ![r].due = TRUE]
  /\ UNCHANGED <<stream, dedup, inbox, searchIndex, relaying, sent, job, pipeFaults>>

AckWaitExpires(r) ==
  /\ stream[r].status = "inflight"
  /\ stream' = [stream EXCEPT ![r].status = "ready"]
  /\ UNCHANGED <<eventOutbox, dedup, inbox, searchIndex, relaying, sent, job, pipeFaults>>

DuplicateWindowEnds(id) ==
  /\ id \in dedup
  /\ dedup' = dedup \ {id}
  /\ UNCHANGED <<eventOutbox, stream, inbox, searchIndex, relaying, sent, job, pipeFaults>>

(* The process dies, or gives up marking the batch. *)
Crash(t) ==
  /\ job[t] # IdleLoop \/ (t \in Relay /\ relaying[t] \cup sent[t] # {})
  /\ pipeFaults < MaxPipeFaults
  /\ pipeFaults' = pipeFaults + 1
  /\ job' = [job EXCEPT ![t] = IdleLoop]
  /\ relaying' = [u \in Relay |-> IF u = t THEN {} ELSE relaying[u]]
  /\ sent' = [u \in Relay |-> IF u = t THEN {} ELSE sent[u]]
  /\ UNCHANGED <<eventOutbox, stream, dedup, inbox, searchIndex>>

ProjectionInit ==
  /\ eventOutbox = [r \in OutboxRow |-> [status |-> "none", due |-> FALSE]]
  /\ stream = [r \in OutboxRow |-> [status |-> "none", tries |-> 0]]
  /\ dedup = {}
  /\ inbox = {}
  /\ searchIndex = [d \in Org \X Resource |-> NoOutboxRow]
  /\ relaying = [t \in Relay |-> {}]
  /\ sent = [t \in Relay |-> {}]
  /\ job = [t \in Loop |-> IdleLoop]
  /\ pipeFaults = 0

Project(t) == HasInbox(t) \/ UpsertDocument(t) \/ PutInbox(t) \/ ProjectError(t)

RelayStep(t) == \/ ClaimOutbox(t) \/ Publish(t) \/ PublishError(t)
                \/ RelayProjected(t) \/ MarkOutboxPublished(t) \/ Project(t)

ConsumeStep(t) == Fetch(t) \/ Ack(t) \/ Nak(t) \/ Project(t)

ProjectionNext ==
  \/ \E r \in OutboxRow : Accept(r) \/ LeaseExpires(r) \/ AckWaitExpires(r)
  \/ \E id \in EventId : DuplicateWindowEnds(id)
  \/ \E t \in Relay : RelayStep(t)
  \/ \E t \in Consumer : ConsumeStep(t)
  \/ \E t \in Loop : Crash(t)

ProjectionSpec == ProjectionInit /\ [][ProjectionNext]_projectionVars

(* The loops tick forever, and leases and acknowledgement deadlines end.   *)
(* Nothing obliges a client to send, a dependency to fail or the duplicate *)
(* window to close.                                                        *)
ProjectionFairness ==
  /\ \A t \in Relay : WF_projectionVars(RelayStep(t))
  /\ \A t \in Consumer : WF_projectionVars(ConsumeStep(t))
  /\ \A r \in OutboxRow : /\ WF_projectionVars(LeaseExpires(r))
                          /\ WF_projectionVars(AckWaitExpires(r))

ProjectionFairSpec == ProjectionSpec /\ ProjectionFairness

-----------------------------------------------------------------------------
(* Properties *)

ProjectionTypeOK ==
  /\ eventOutbox \in [OutboxRow -> [status : {"none", "pending", "published"},
                                     due : BOOLEAN]]
  /\ stream \in [OutboxRow -> [status : {"none", "ready", "inflight", "acked"},
                                tries : 0..MaxDeliver]]
  /\ dedup \subseteq EventId
  /\ inbox \subseteq OutboxRow
  /\ searchIndex \in [Org \X Resource -> OutboxRow \cup {NoOutboxRow}]
  /\ relaying \in [Relay -> SUBSET OutboxRow]
  /\ sent \in [Relay -> SUBSET OutboxRow]
  /\ job \in [Loop -> [row : OutboxRow \cup {NoOutboxRow},
                       step : {"idle", "check", "upsert", "receipt", "ok",
                               "failed"}]]
  /\ \A t \in Loop : job[t].step # "idle" => job[t].row \in OutboxRow
  /\ pipeFaults \in 0..MaxPipeFaults

(* consumeOnce: "Ack only after the projection is durably recorded".  A    *)
(* message leaves the stream, and a receipt is written, only once the      *)
(* event's document is in the index.                                       *)
RecordedBeforeAck ==
  /\ \A r \in OutboxRow : stream[r].status = "acked" => r \in inbox
  /\ \A r \in inbox : searchIndex[Doc(r)] # NoOutboxRow

(* A loop is projecting r and has not failed. *)
Running(r) == \E t \in Loop : job[t].row = r /\ job[t].step # "failed"

(* Deliveries that end without a receipt are used up by failures. *)
DeliveriesSpent(r) == stream[r].tries = MaxDeliver /\ pipeFaults >= MaxDeliver

(* Another organisation has sent an event with r's id. *)
SharesId(r) ==
  \E q \in OutboxRow \ {r} : q[2] = r[2] /\ eventOutbox[q].status # "none"

(* What a row marked published can be without being lost: projected, being *)
(* projected, or about to be delivered again.                              *)
StillComing(r) ==
  \/ r \in inbox
  \/ Running(r)
  \/ stream[r].status \in {"ready", "inflight"} /\ stream[r].tries < MaxDeliver

(* At-least-once delivery, as far as it goes.  mark_outbox_published_batch *)
(* takes a row out of the relays' sight; it is lost only if MaxDeliver     *)
(* deliveries have each cost a failure, or if another organisation uses    *)
(* the id, by which the stream deduplicates and the batch is marked.  No   *)
(* number of relays, consumers, expired leases, redeliveries or crashed    *)
(* passes loses it otherwise.                                              *)
PublishedIsNotLost ==
  \A r \in OutboxRow :
    eventOutbox[r].status = "published" => StillComing(r) \/ DeliveriesSpent(r) \/ SharesId(r)

(* Every accepted event reaches the index, through crashes, lost leases    *)
(* and duplicate deliveries, with the same two exceptions.                 *)
AcceptedIsProjected ==
  \A r \in OutboxRow :
    eventOutbox[r].status = "pending" ~> r \in inbox \/ DeliveriesSpent(r) \/ SharesId(r)

(* consumeOnce: a message not acknowledged "is redelivered (at-least-once) *)
(* instead of silently lost"; ports.Message: "redelivered or               *)
(* dead-lettered".  An event marked published always has a way left into   *)
(* the index; no dead letter exists in the code.                           *)
NeverSilentlyLost ==
  \A r \in OutboxRow : eventOutbox[r].status = "published" => StillComing(r)
=============================================================================
