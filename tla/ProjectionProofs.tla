-------------------------- MODULE ProjectionProofs --------------------------
(* Proofs about the path from the outbox to the index, for any number of   *)
(* organisations, events, relays, consumers and failures.                  *)
EXTENDS Projection, FiniteSetTheorems, TLAPS

(* What a loop at a step knows: it holds a row, what it is about to        *)
(* receipt is in the index, and what it reports done has its receipt.      *)
JobKnows(t) ==
  /\ job[t].step = "receipt" => searchIndex[Doc(job[t].row)] # NoOutboxRow
  /\ job[t].step = "ok" => job[t].row \in inbox

Recorded == RecordedBeforeAck /\ \A t \in Loop : JobKnows(t)

Jobs == [row : OutboxRow \cup {NoOutboxRow},
         step : {"idle", "check", "upsert", "receipt", "ok", "failed"}]

Rows == [status : {"none", "pending", "published"}, due : BOOLEAN]

(* Leasing a row, or ending its lease, keeps its type. *)
LEMMA DueType ==
  ASSUME NEW q \in Rows, NEW b \in BOOLEAN
  PROVE  [q EXCEPT !.due = b] \in Rows
BY DEF Rows

Messages == [status : {"none", "ready", "inflight", "acked"},
             tries : 0..MaxDeliver]

(* A message that changes its status stays a message. *)
LEMMA StatusType ==
  ASSUME NEW r \in OutboxRow, stream \in [OutboxRow -> Messages],
         NEW s \in {"none", "ready", "inflight", "acked"}
  PROVE  [stream EXCEPT ![r] = [stream[r] EXCEPT !.status = s]]
           \in [OutboxRow -> Messages]
<1>1. [stream[r] EXCEPT !.status = s] \in Messages
  BY DEF Messages
<1> QED BY <1>1

(* The document of an outbox row.                                          *)
LEMMA DocIsDoc == ASSUME NEW r \in OutboxRow PROVE Doc(r) \in Org \X Resource
BY ProjectionAssumption DEF OutboxRow, Doc

(* Moving a loop that holds a row to another step keeps job's type. *)
LEMMA AtType ==
  ASSUME ProjectionTypeOK, NEW t \in Loop, job[t].step # "idle",
         NEW s \in {"check", "upsert", "receipt", "ok", "failed"}, StepTo(t, s)
  PROVE  /\ job' \in [Loop -> Jobs]
         /\ \A u \in Loop : job'[u].step # "idle" => job'[u].row \in OutboxRow
         /\ job'[t].step = s /\ job'[t].row = job[t].row
         /\ \A u \in Loop \ {t} : job'[u] = job[u]
<1>1. job \in [Loop -> Jobs] /\ job[t] \in Jobs
  BY DEF ProjectionTypeOK, Jobs
<1>2. job' = [job EXCEPT ![t] = [job[t] EXCEPT !.step = s]]
  BY <1>1 DEF StepTo
<1>3. [job[t] EXCEPT !.step = s] \in Jobs
  BY <1>1 DEF Jobs
<1> QED BY <1>1, <1>2, <1>3 DEF ProjectionTypeOK, Jobs

(* Giving a loop a job, or taking it away, keeps job's type. *)
LEMMA JobType ==
  ASSUME ProjectionTypeOK, NEW t \in Loop,
         NEW j \in Jobs, j.step # "idle" => j.row \in OutboxRow,
         job' = [job EXCEPT ![t] = j]
  PROVE  /\ job' \in [Loop -> Jobs]
         /\ \A u \in Loop : job'[u].step # "idle" => job'[u].row \in OutboxRow
         /\ job'[t] = j
         /\ \A u \in Loop \ {t} : job'[u] = job[u]
BY DEF ProjectionTypeOK, Jobs

(* A loop at rest.                                                         *)
LEMMA IdleIsJob == IdleLoop \in Jobs /\ IdleLoop.step = "idle"
BY DEF IdleLoop, Jobs

(* A loop that has read its row.                                           *)
LEMMA CheckIsJob ==
  ASSUME NEW r \in OutboxRow PROVE [row |-> r, step |-> "check"] \in Jobs
BY DEF Jobs

(* Every step keeps the types.                                             *)
LEMMA TypeStep == ProjectionTypeOK /\ [ProjectionNext]_projectionVars => ProjectionTypeOK'
<1> USE ProjectionAssumption
<1> SUFFICES ASSUME ProjectionTypeOK, [ProjectionNext]_projectionVars PROVE ProjectionTypeOK'
  OBVIOUS
<1>1. CASE UNCHANGED projectionVars
  BY <1>1 DEF ProjectionTypeOK, projectionVars
<1>2. ASSUME NEW r \in OutboxRow, Accept(r) \/ LeaseExpires(r) \/ AckWaitExpires(r)
      PROVE ProjectionTypeOK'
  <2>1. CASE Accept(r)
    BY <2>1 DEF ProjectionTypeOK, Accept
  <2>2. CASE LeaseExpires(r)
    <3>1. eventOutbox' = [eventOutbox EXCEPT ![r] = [eventOutbox[r] EXCEPT !.due = TRUE]]
      BY <2>2 DEF LeaseExpires, ProjectionTypeOK
    <3>2. eventOutbox \in [OutboxRow -> Rows] /\ [eventOutbox[r] EXCEPT !.due = TRUE] \in Rows
      BY DueType DEF ProjectionTypeOK, Rows
    <3>3. eventOutbox' \in [OutboxRow -> Rows]
      BY <3>1, <3>2
    <3> QED BY <2>2, <3>3 DEF ProjectionTypeOK, LeaseExpires, Rows
  <2>3. CASE AckWaitExpires(r)
    <3>1. stream' = [stream EXCEPT ![r] = [stream[r] EXCEPT !.status = "ready"]]
      BY <2>3 DEF AckWaitExpires, ProjectionTypeOK
    <3>2. stream' \in [OutboxRow -> Messages]
      BY <3>1, StatusType DEF ProjectionTypeOK, Messages
    <3> QED BY <2>3, <3>2 DEF ProjectionTypeOK, AckWaitExpires, Messages
  <2> QED BY <1>2, <2>1, <2>2, <2>3
<1>3. ASSUME NEW id \in EventId, DuplicateWindowEnds(id) PROVE ProjectionTypeOK'
  BY <1>3 DEF ProjectionTypeOK, DuplicateWindowEnds
<1>p. ASSUME NEW r \in OutboxRow, Published(r)
      PROVE /\ stream' \in [OutboxRow -> [status : {"none", "ready", "inflight", "acked"},
                                    tries : 0..MaxDeliver]]
            /\ dedup' \subseteq EventId
  BY <1>p DEF ProjectionTypeOK, Published, OutboxRow
<1>u. ASSUME NEW r \in OutboxRow, Upserted(r)
      PROVE searchIndex' \in [Org \X Resource -> OutboxRow \cup {NoOutboxRow}]
  BY <1>u, DocIsDoc DEF ProjectionTypeOK, Upserted
<1>4. ASSUME NEW t \in Loop, Project(t) PROVE ProjectionTypeOK'
  <2>1. CASE HasInbox(t)
    <3>1. PICK s \in {"ok", "upsert"} : StepTo(t, s)
      BY <2>1 DEF HasInbox
    <3> QED BY <2>1, <3>1, AtType DEF ProjectionTypeOK, HasInbox, Jobs
  <2>2. CASE UpsertDocument(t)
    <3>1. job[t].row \in OutboxRow
      BY <2>2 DEF ProjectionTypeOK, UpsertDocument
    <3> QED BY <2>2, <3>1, <1>u, AtType DEF ProjectionTypeOK, UpsertDocument, Upserted, Jobs
  <2>3. CASE PutInbox(t)
    BY <2>3, AtType DEF ProjectionTypeOK, PutInbox, Received, Jobs
  <2>4. CASE ProjectError(t)
    <3>1. job[t].row \in OutboxRow
      BY <2>4 DEF ProjectionTypeOK, ProjectError
    <3>2. /\ inbox' \subseteq OutboxRow
          /\ searchIndex' \in [Org \X Resource -> OutboxRow \cup {NoOutboxRow}]
      BY <2>4, <3>1, <1>u DEF ProjectionTypeOK, ProjectError, Upserted, Received
    <3>3. /\ job' \in [Loop -> Jobs]
          /\ \A u \in Loop : job'[u].step # "idle" => job'[u].row \in OutboxRow
      BY <2>4, AtType DEF ProjectError
    <3>4. pipeFaults' \in 0..MaxPipeFaults
      BY <2>4 DEF ProjectError, ProjectionTypeOK
    <3> QED BY <2>4, <3>2, <3>3, <3>4 DEF ProjectionTypeOK, ProjectError, Jobs
  <2> QED BY <1>4, <2>1, <2>2, <2>3, <2>4 DEF Project
<1>5. ASSUME NEW t \in Relay, RelayStep(t) PROVE ProjectionTypeOK'
  <2>t. t \in Loop
    BY DEF Loop
  <2>1. CASE ClaimOutbox(t)
    <3>1. PICK claimed \in SUBSET OutboxRow :
            /\ relaying' = [relaying EXCEPT ![t] = claimed]
            /\ eventOutbox' = [r \in OutboxRow |-> IF r \in claimed
                                        THEN [eventOutbox[r] EXCEPT !.due = FALSE]
                                        ELSE eventOutbox[r]]
      <4>1. PICK rs \in SUBSET DueRows :
              LET claimed == {r \in OutboxRow : /\ eventOutbox[r].status # "none"
                                          /\ \E q \in rs : q[2] = r[2]}
              IN /\ relaying' = [relaying EXCEPT ![t] = claimed]
                 /\ eventOutbox' = [r \in OutboxRow |-> IF r \in claimed
                                             THEN [eventOutbox[r] EXCEPT !.due = FALSE]
                                             ELSE eventOutbox[r]]
        BY <2>1 DEF ClaimOutbox
      <4> QED BY <4>1, Zenon
    <3>2. \A r \in OutboxRow : eventOutbox[r] \in Rows /\ [eventOutbox[r] EXCEPT !.due = FALSE] \in Rows
      BY DueType DEF ProjectionTypeOK, Rows
    <3>3. eventOutbox' \in [OutboxRow -> Rows]
      BY <3>1, <3>2
    <3>4. relaying' \in [Relay -> SUBSET OutboxRow]
      BY <3>1 DEF ProjectionTypeOK
    <3> QED BY <2>1, <3>3, <3>4 DEF ProjectionTypeOK, ClaimOutbox, Rows
  <2>2. CASE Publish(t)
    <3>1. PICK r \in relaying[t] : Publish(t)!(r)
      BY <2>2 DEF Publish
    <3>2. r \in OutboxRow
      BY <3>1 DEF ProjectionTypeOK
    <3>3. /\ job' \in [Loop -> Jobs]
          /\ \A u \in Loop : job'[u].step # "idle" => job'[u].row \in OutboxRow
      BY <3>1, <3>2, <2>t, JobType, CheckIsJob
    <3> QED BY <3>1, <3>2, <3>3, <1>p DEF ProjectionTypeOK, Jobs
  <2>3. CASE PublishError(t)
    <3>1. PICK r \in relaying[t] : PublishError(t)!(r)
      BY <2>3 DEF PublishError
    <3>2. r \in OutboxRow
      BY <3>1 DEF ProjectionTypeOK
    <3>3. /\ stream' \in [OutboxRow -> [status : {"none", "ready", "inflight", "acked"},
                                  tries : 0..MaxDeliver]]
          /\ dedup' \subseteq EventId
      BY <3>1, <3>2, <1>p DEF ProjectionTypeOK
    <3>4. pipeFaults' \in 0..MaxPipeFaults
      BY <3>1 DEF ProjectionTypeOK
    <3> QED BY <3>1, <3>3, <3>4 DEF ProjectionTypeOK
  <2>4. CASE RelayProjected(t)
    <3>1. job[t].row \in OutboxRow
      BY <2>4, <2>t DEF ProjectionTypeOK, RelayProjected
    <3>2. /\ job' \in [Loop -> Jobs]
          /\ \A u \in Loop : job'[u].step # "idle" => job'[u].row \in OutboxRow
      BY <2>4, <2>t, JobType, IdleIsJob DEF RelayProjected
    <3> QED BY <2>4, <3>1, <3>2 DEF ProjectionTypeOK, RelayProjected, Jobs
  <2>5. CASE MarkOutboxPublished(t)
    BY <2>5 DEF ProjectionTypeOK, MarkOutboxPublished
  <2>6. CASE Project(t)
    BY <2>6, <2>t, <1>4
  <2> QED BY <1>5, <2>1, <2>2, <2>3, <2>4, <2>5, <2>6 DEF RelayStep
<1>6. ASSUME NEW t \in Consumer, ConsumeStep(t) PROVE ProjectionTypeOK'
  <2>t. t \in Loop
    BY DEF Loop
  <2>1. CASE Fetch(t)
    <3>1. PICK r \in OutboxRow : Fetch(t)!(r)
      BY <2>1 DEF Fetch
    <3>2. stream[r].tries + 1 \in 0..MaxDeliver
      BY <3>1 DEF ProjectionTypeOK, Deliverable
    <3>3. /\ job' \in [Loop -> Jobs]
          /\ \A u \in Loop : job'[u].step # "idle" => job'[u].row \in OutboxRow
      BY <3>1, <2>t, JobType, CheckIsJob
    <3> QED BY <3>1, <3>2, <3>3 DEF ProjectionTypeOK, Jobs
  <2>2. CASE Ack(t)
    <3>1. job[t].row \in OutboxRow
      BY <2>2, <2>t DEF ProjectionTypeOK, Ack
    <3>2. /\ job' \in [Loop -> Jobs]
          /\ \A u \in Loop : job'[u].step # "idle" => job'[u].row \in OutboxRow
      BY <2>2, <2>t, JobType, IdleIsJob DEF Ack
    <3>3. stream' = [stream EXCEPT ![job[t].row] =
                       [stream[job[t].row] EXCEPT !.status = "acked"]]
      BY <2>2, <3>1 DEF Ack, ProjectionTypeOK
    <3>4. stream' \in [OutboxRow -> Messages]
      BY <3>1, <3>3, StatusType DEF ProjectionTypeOK, Messages
    <3> QED BY <2>2, <3>2, <3>4 DEF ProjectionTypeOK, Ack, Jobs, Messages
  <2>3. CASE Nak(t)
    <3>1. job[t].row \in OutboxRow
      BY <2>3, <2>t DEF ProjectionTypeOK, Nak
    <3>2. /\ job' \in [Loop -> Jobs]
          /\ \A u \in Loop : job'[u].step # "idle" => job'[u].row \in OutboxRow
      BY <2>3, <2>t, JobType, IdleIsJob DEF Nak
    <3>3. PICK s \in {"none", "ready", "inflight", "acked"} :
            stream' = [stream EXCEPT ![job[t].row] =
                         [stream[job[t].row] EXCEPT !.status = s]]
      BY <2>3, <3>1 DEF Nak, ProjectionTypeOK
    <3>4. stream' \in [OutboxRow -> Messages]
      BY <3>1, <3>3, StatusType DEF ProjectionTypeOK, Messages
    <3> QED BY <2>3, <3>2, <3>4 DEF ProjectionTypeOK, Nak, Jobs, Messages
  <2>4. CASE Project(t)
    BY <2>4, <2>t, <1>4
  <2> QED BY <1>6, <2>1, <2>2, <2>3, <2>4 DEF ConsumeStep
<1>7. ASSUME NEW t \in Loop, Crash(t) PROVE ProjectionTypeOK'
  <2>1. /\ job' \in [Loop -> Jobs]
        /\ \A u \in Loop : job'[u].step # "idle" => job'[u].row \in OutboxRow
    BY <1>7, JobType, IdleIsJob DEF Crash
  <2>2. /\ pipeFaults' \in 0..MaxPipeFaults
        /\ relaying' \in [Relay -> SUBSET OutboxRow] /\ sent' \in [Relay -> SUBSET OutboxRow]
    BY <1>7 DEF Crash, ProjectionTypeOK
  <2> QED BY <1>7, <2>1, <2>2 DEF ProjectionTypeOK, Crash, Jobs
<1> QED BY <1>1, <1>2, <1>3, <1>5, <1>6, <1>7 DEF ProjectionNext

(* Type correctness of the path from the outbox to the index. *)
THEOREM ProjectionTypeCorrect == ProjectionSpec => []ProjectionTypeOK
<1>1. ProjectionInit => ProjectionTypeOK
  BY ProjectionAssumption DEF ProjectionInit, ProjectionTypeOK, IdleLoop
<1> QED BY <1>1, TypeStep, PTL DEF ProjectionSpec

(* Every step keeps RecordedBeforeAck and what the loops know of it.       *)
LEMMA RecordedStep == Recorded /\ ProjectionTypeOK /\ [ProjectionNext]_projectionVars => Recorded'
<1> SUFFICES ASSUME Recorded, ProjectionTypeOK, [ProjectionNext]_projectionVars PROVE Recorded'
  OBVIOUS
<1> USE ProjectionAssumption
(* Receipts and documents only accumulate, so a step keeps the invariant   *)
(* if it is right about the loop that moves and about what it records.     *)
<1>k. ASSUME NEW t \in Loop,
             \A u \in Loop \ {t} : job'[u] = job[u],
             inbox \subseteq inbox', inbox' \subseteq OutboxRow,
             \A d \in Org \X Resource : searchIndex[d] # NoOutboxRow => searchIndex'[d] # NoOutboxRow,
             \A r \in inbox' \ inbox : searchIndex'[Doc(r)] # NoOutboxRow,
             \A r \in OutboxRow : stream'[r].status = "acked" =>
                             stream[r].status = "acked" \/ r \in inbox',
             job'[t].step = "receipt" => searchIndex'[Doc(job'[t].row)] # NoOutboxRow,
             job'[t].step = "ok" => job'[t].row \in inbox'
      PROVE Recorded'
  <2>1. \A r \in inbox : Doc(r) \in Org \X Resource /\ searchIndex[Doc(r)] # NoOutboxRow
    BY DocIsDoc DEF Recorded, RecordedBeforeAck, ProjectionTypeOK
  <2>2. RecordedBeforeAck'
    BY <1>k, <2>1 DEF Recorded, RecordedBeforeAck
  <2>3. ASSUME NEW u \in Loop PROVE JobKnows(u)'
    <3>1. CASE u = t
      BY <3>1, <1>k DEF JobKnows
    <3>2. CASE u # t
      <4>1. job'[u] = job[u] /\ JobKnows(u)
        BY <3>2, <1>k DEF Recorded
      <4>2. job[u].step = "receipt" => Doc(job[u].row) \in Org \X Resource
        BY DocIsDoc DEF ProjectionTypeOK
      <4> QED BY <4>1, <4>2, <1>k DEF JobKnows
    <3> QED BY <3>1, <3>2
  <2> QED BY <2>2, <2>3 DEF Recorded
(* Steps that move no loop. *)
<1>q. ASSUME UNCHANGED <<inbox, searchIndex, job>>,
             \A r \in OutboxRow : stream'[r].status = "acked" => stream[r].status = "acked"
      PROVE Recorded'
  BY <1>q DEF Recorded, RecordedBeforeAck, JobKnows
<1>1. CASE UNCHANGED projectionVars
  BY <1>1, <1>q DEF projectionVars
<1>2. ASSUME NEW r \in OutboxRow, Accept(r) \/ LeaseExpires(r) \/ AckWaitExpires(r)
      PROVE Recorded'
  <2>1. CASE Accept(r) \/ LeaseExpires(r)
    BY <2>1, <1>q DEF Accept, LeaseExpires
  <2>2. CASE AckWaitExpires(r)
    BY <2>2, <1>q DEF AckWaitExpires, ProjectionTypeOK
  <2> QED BY <1>2, <2>1, <2>2
<1>3. ASSUME NEW id \in EventId, DuplicateWindowEnds(id) PROVE Recorded'
  BY <1>3, <1>q DEF DuplicateWindowEnds
<1>4. ASSUME NEW t \in Loop, Project(t) PROVE Recorded'
  <2>h. job[t].step # "idle" => job[t].row \in OutboxRow /\ Doc(job[t].row) \in Org \X Resource
    BY DocIsDoc DEF ProjectionTypeOK
  <2>u. ASSUME job[t].row \in OutboxRow, Upserted(job[t].row)
        PROVE /\ searchIndex'[Doc(job[t].row)] # NoOutboxRow /\ inbox' = inbox
              /\ \A d \in Org \X Resource : searchIndex[d] # NoOutboxRow => searchIndex'[d] # NoOutboxRow
    BY <2>u, DocIsDoc DEF Upserted, ProjectionTypeOK
  <2>1. CASE HasInbox(t)
    <3>1. PICK s \in {"ok", "upsert"} : StepTo(t, s) /\ (s = "ok" => job[t].row \in inbox)
      BY <2>1 DEF HasInbox
    <3>2. /\ job'[t].step = s /\ job'[t].row = job[t].row
          /\ \A u \in Loop \ {t} : job'[u] = job[u]
      BY <2>1, <3>1, AtType DEF HasInbox
    <3> QED BY <2>1, <3>1, <3>2, <1>k DEF HasInbox, ProjectionTypeOK
  <2>2. CASE UpsertDocument(t)
    <3>1. /\ job'[t].step = "receipt" /\ job'[t].row = job[t].row
          /\ \A u \in Loop \ {t} : job'[u] = job[u]
      BY <2>2, AtType DEF UpsertDocument
    <3> QED BY <2>2, <3>1, <2>u, <2>h, <1>k DEF UpsertDocument, ProjectionTypeOK
  <2>3. CASE PutInbox(t)
    <3>1. /\ job'[t].step = "ok" /\ job'[t].row = job[t].row
          /\ \A u \in Loop \ {t} : job'[u] = job[u]
      BY <2>3, AtType DEF PutInbox
    <3>2. searchIndex[Doc(job[t].row)] # NoOutboxRow
      BY <2>3 DEF PutInbox, Recorded, JobKnows
    <3> QED BY <2>3, <3>1, <3>2, <2>h, <1>k DEF PutInbox, Received, ProjectionTypeOK
  <2>4. CASE ProjectError(t)
    <3>1. /\ job'[t].step = "failed"
          /\ \A u \in Loop \ {t} : job'[u] = job[u]
      BY <2>4, AtType DEF ProjectError
    <3>2. stream' = stream /\ job[t].row \in OutboxRow
      BY <2>4, <2>h DEF ProjectError
    <3>3. CASE UNCHANGED <<inbox, searchIndex>>
      BY <3>1, <3>2, <3>3, <1>k DEF ProjectionTypeOK
    <3>4. CASE Upserted(job[t].row)
      BY <3>1, <3>2, <3>4, <2>u, <1>k DEF ProjectionTypeOK
    <3>5. CASE job[t].step = "receipt" /\ Received(job[t].row)
      <4>1. searchIndex[Doc(job[t].row)] # NoOutboxRow
        BY <3>5 DEF Recorded, JobKnows
      <4> QED BY <3>1, <3>2, <3>5, <4>1, <1>k DEF Received, ProjectionTypeOK
    <3> QED BY <2>4, <3>3, <3>4, <3>5 DEF ProjectError
  <2> QED BY <1>4, <2>1, <2>2, <2>3, <2>4 DEF Project
<1>i. ASSUME NEW t \in Loop, NEW j \in Jobs, j.step \in {"idle", "check"},
             j.step = "check" => j.row \in OutboxRow,
             job' = [job EXCEPT ![t] = j], UNCHANGED <<inbox, searchIndex>>,
             \A r \in OutboxRow : stream'[r].status = "acked" =>
                             stream[r].status = "acked" \/ r \in inbox
      PROVE Recorded'
  <2>1. job'[t] = j /\ \A u \in Loop \ {t} : job'[u] = job[u]
    BY <1>i, JobType
  <2> QED BY <1>i, <2>1, <1>k DEF ProjectionTypeOK
<1>p. ASSUME NEW r \in OutboxRow, Published(r), NEW q \in OutboxRow, stream'[q].status = "acked"
      PROVE stream[q].status = "acked"
  BY <1>p DEF Published, ProjectionTypeOK
<1>5. ASSUME NEW t \in Relay, RelayStep(t) PROVE Recorded'
  <2>t. t \in Loop
    BY DEF Loop
  <2>1. CASE ClaimOutbox(t)
    BY <2>1, <1>q DEF ClaimOutbox
  <2>2. CASE Publish(t)
    <3>1. PICK r \in relaying[t] : Publish(t)!(r)
      BY <2>2 DEF Publish
    <3>2. r \in OutboxRow
      BY <3>1 DEF ProjectionTypeOK
    <3>3. [row |-> r, step |-> "check"] \in Jobs
      BY <3>2, CheckIsJob
    <3> QED BY <3>1, <3>2, <3>3, <2>t, <1>p, <1>i
  <2>3. CASE PublishError(t)
    <3>1. PICK r \in relaying[t] : PublishError(t)!(r)
      BY <2>3 DEF PublishError
    <3>2. r \in OutboxRow
      BY <3>1 DEF ProjectionTypeOK
    <3> QED BY <3>1, <3>2, <1>p, <1>q
  <2>4. CASE RelayProjected(t)
    BY <2>4, <2>t, <1>i, IdleIsJob DEF RelayProjected
  <2>5. CASE MarkOutboxPublished(t)
    BY <2>5, <1>q DEF MarkOutboxPublished
  <2>6. CASE Project(t)
    BY <2>6, <2>t, <1>4
  <2> QED BY <1>5, <2>1, <2>2, <2>3, <2>4, <2>5, <2>6 DEF RelayStep
<1>6. ASSUME NEW t \in Consumer, ConsumeStep(t) PROVE Recorded'
  <2>t. t \in Loop
    BY DEF Loop
  <2>1. CASE Fetch(t)
    <3>1. PICK r \in OutboxRow : Fetch(t)!(r)
      BY <2>1 DEF Fetch
    <3>2. [row |-> r, step |-> "check"] \in Jobs
      BY CheckIsJob
    <3>3. \A q \in OutboxRow : stream'[q].status = "acked" => stream[q].status = "acked"
      BY <3>1 DEF ProjectionTypeOK
    <3> QED BY <3>1, <3>2, <3>3, <2>t, <1>i
  <2>2. CASE Ack(t)
    <3>1. job[t].row \in inbox
      BY <2>2, <2>t DEF Ack, Recorded, JobKnows
    <3>2. \A q \in OutboxRow : stream'[q].status = "acked" =>
                           stream[q].status = "acked" \/ q \in inbox
      BY <2>2, <3>1 DEF Ack, ProjectionTypeOK
    <3> QED BY <2>2, <3>2, <2>t, <1>i, IdleIsJob DEF Ack
  <2>3. CASE Nak(t)
    <3>1. \A q \in OutboxRow : stream'[q].status = "acked" => stream[q].status = "acked"
      BY <2>3 DEF Nak, ProjectionTypeOK
    <3> QED BY <2>3, <3>1, <2>t, <1>i, IdleIsJob DEF Nak
  <2>4. CASE Project(t)
    BY <2>4, <2>t, <1>4
  <2> QED BY <1>6, <2>1, <2>2, <2>3, <2>4 DEF ConsumeStep
<1>7. ASSUME NEW t \in Loop, Crash(t) PROVE Recorded'
  BY <1>7, <1>i, IdleIsJob DEF Crash
<1> QED BY <1>1, <1>2, <1>3, <1>5, <1>6, <1>7 DEF ProjectionNext

(* A message is acknowledged, and a receipt written, only once the event's *)
(* document is in the index, whatever crashes and redeliveries happen.     *)
THEOREM AckAfterRecord == ProjectionSpec => []RecordedBeforeAck
<1>1. ProjectionInit => Recorded
  BY ProjectionAssumption DEF ProjectionInit, Recorded, RecordedBeforeAck, JobKnows, IdleLoop
<1>2. Recorded => RecordedBeforeAck
  BY DEF Recorded
<1> QED BY <1>1, <1>2, RecordedStep, ProjectionTypeCorrect, PTL DEF ProjectionSpec
-----------------------------------------------------------------------------
(* Published rows.  JetStream knows messages by event id alone and gives   *)
(* each MaxDeliver deliveries.                                             *)

InStream(r) == stream[r].status # "none"

Known(r) == eventOutbox[r].status # "none"

(* In the stream, unless the id is another organisation's too. *)
Carried(r) == InStream(r) \/ SharesId(r)

(* What is in the duplicate window, sent or in a loop's hands is carried,  *)
(* and so is what is marked published; what a loop or the stream holds was *)
(* accepted.                                                               *)
Streamed ==
  /\ \A r \in OutboxRow : r[2] \in dedup => Carried(r)
  /\ \A t \in Relay : \A r \in sent[t] : Carried(r) /\ Known(r)
  /\ \A t \in Loop : job[t].step # "idle" => Carried(job[t].row) /\ Known(job[t].row)
  /\ \A r \in OutboxRow : eventOutbox[r].status = "published" => Carried(r)
  /\ \A t \in Relay : \A r \in relaying[t] : Known(r)
  /\ \A r \in OutboxRow : InStream(r) => Known(r)

(* The consumers that project a row and have not failed. *)
Fetched(r) == {t \in Consumer : job[t].row = r /\ job[t].step # "failed"}

(* A delivery without a receipt is in a consumer's hands, or cost a        *)
(* failure.                                                                *)
TriesAccounted ==
  \A r \in OutboxRow \ inbox : stream[r].tries <= Cardinality(Fetched(r)) + pipeFaults

NotLostInv == ProjectionTypeOK /\ Recorded /\ Streamed /\ TriesAccounted

(* The consumers of a row can be counted. *)
LEMMA FetchedIsFinite ==
  ASSUME NEW r
  PROVE  IsFiniteSet(Fetched(r)) /\ Cardinality(Fetched(r)) \in Nat
<1>1. Fetched(r) \subseteq Consumer
  BY DEF Fetched
<1> QED
  BY <1>1, ProjectionAssumption, FS_Subset, FS_CardinalityType

(* A step that leaves loops and receipts, and counts no delivery, keeps    *)
(* the account.                                                            *)
LEMMA TriesQuiet ==
  ASSUME ProjectionTypeOK, TriesAccounted, ProjectionTypeOK', inbox \subseteq inbox',
         \A r \in OutboxRow : stream'[r].tries <= stream[r].tries,
         \A r \in OutboxRow \ inbox' : Fetched(r)' = Fetched(r),
         pipeFaults <= pipeFaults'
  PROVE  TriesAccounted'
<1> SUFFICES ASSUME NEW r \in OutboxRow \ inbox'
             PROVE  stream'[r].tries <= Cardinality(Fetched(r)') + pipeFaults'
  BY DEF TriesAccounted
<1> DEFINE c == Cardinality(Fetched(r))
<1>1. c \in Nat
  BY FetchedIsFinite
<1>2. stream[r].tries <= c + pipeFaults
  BY DEF TriesAccounted
<1>3. /\ stream[r].tries \in Nat /\ stream'[r].tries \in Nat
      /\ pipeFaults \in Nat /\ pipeFaults' \in Nat
  BY ProjectionAssumption DEF ProjectionTypeOK
<1>4. Fetched(r)' = Fetched(r)
  OBVIOUS
<1> HIDE DEF c
<1>5. stream'[r].tries <= c + pipeFaults'
  BY <1>1, <1>2, <1>3
<1> QED
  BY <1>4, <1>5 DEF c

(* A failure pays for the delivery of the loop that it stops. *)
LEMMA TriesFault ==
  ASSUME ProjectionTypeOK, TriesAccounted, ProjectionTypeOK', inbox \subseteq inbox',
         stream' = stream, NEW t, \A u \in Loop \ {t} : job'[u] = job[u],
         pipeFaults' = pipeFaults + 1
  PROVE  TriesAccounted'
<1> SUFFICES ASSUME NEW r \in OutboxRow \ inbox'
             PROVE  stream[r].tries <= Cardinality(Fetched(r)') + (pipeFaults + 1)
  BY DEF TriesAccounted
<1> DEFINE c == Cardinality(Fetched(r))
           d == Cardinality(Fetched(r)')
<1>0. Fetched(r)' \subseteq Consumer /\ IsFiniteSet(Fetched(r)')
  <2>1. Fetched(r)' \subseteq Consumer
    BY DEF Fetched
  <2> QED
    BY <2>1, ProjectionAssumption, FS_Subset
<1>1. c \in Nat /\ d \in Nat /\ IsFiniteSet(Fetched(r))
  BY <1>0, FetchedIsFinite, FS_CardinalityType
<1>2. stream[r].tries <= c + pipeFaults
  BY DEF TriesAccounted
<1>3. stream[r].tries \in Nat /\ pipeFaults \in Nat
  BY ProjectionAssumption DEF ProjectionTypeOK
<1>4. Fetched(r) \ {t} \subseteq Fetched(r)'
  BY DEF Fetched, Loop
<1>5. c <= d + 1
  <2>1. /\ IsFiniteSet(Fetched(r) \ {t})
        /\ Cardinality(Fetched(r) \ {t}) \in {c, c - 1}
    <3>1. CASE t \in Fetched(r)
      BY <3>1, <1>1, FS_RemoveElement
    <3>2. CASE t \notin Fetched(r)
      <4>1. Fetched(r) \ {t} = Fetched(r)
        BY <3>2
      <4> QED
        BY <4>1, <1>1
    <3> QED
      BY <3>1, <3>2
  <2>2. Cardinality(Fetched(r) \ {t}) <= d
    BY <1>0, <1>4, FS_Subset
  <2> QED
    BY <1>1, <2>1, <2>2
<1> HIDE DEF c, d
<1>6. stream[r].tries <= d + (pipeFaults + 1)
  BY <1>1, <1>2, <1>3, <1>5
<1> QED
  BY <1>6 DEF d

(* A fetch puts its delivery into a consumer's hands. *)
LEMMA TriesFetch ==
  ASSUME ProjectionTypeOK, TriesAccounted, NEW t \in Consumer, Fetch(t)
  PROVE  TriesAccounted'
<1>1. PICK r \in OutboxRow : Fetch(t)!(r)
  BY DEF Fetch
<1>2. /\ stream'[r].tries = stream[r].tries + 1
      /\ \A q \in OutboxRow \ {r} : stream'[q] = stream[q]
      /\ UNCHANGED <<inbox, pipeFaults>>
  BY <1>1 DEF ProjectionTypeOK
<1>3. /\ t \in Loop /\ job'[t].row = r /\ job'[t].step = "check"
      /\ \A u \in Loop \ {t} : job'[u] = job[u]
      /\ job[t].row = NoOutboxRow
  BY <1>1 DEF ProjectionTypeOK, Loop, IdleLoop
<1>4. \A q \in OutboxRow : t \notin Fetched(q)
  BY <1>3, ProjectionAssumption DEF Fetched
<1>5. /\ Fetched(r)' = Fetched(r) \cup {t}
      /\ \A q \in OutboxRow \ {r} : Fetched(q)' = Fetched(q)
  BY <1>3, <1>4 DEF Fetched, Loop
<1>6. ASSUME NEW q \in OutboxRow \ inbox
      PROVE  stream'[q].tries <= Cardinality(Fetched(q)') + pipeFaults'
  <2>1. stream[q].tries <= Cardinality(Fetched(q)) + pipeFaults
    BY DEF TriesAccounted
  <2>2. CASE q # r
    BY <2>1, <2>2, <1>2, <1>5
  <2>3. CASE q = r
    <3> DEFINE c == Cardinality(Fetched(r))
    <3>1. c \in Nat /\ Cardinality(Fetched(r)') = c + 1
      BY <1>4, <1>5, FetchedIsFinite, FS_AddElement
    <3>2. stream[r].tries \in Nat /\ pipeFaults \in Nat
      BY ProjectionAssumption DEF ProjectionTypeOK
    <3>3. stream[r].tries <= c + pipeFaults
      BY <2>1, <2>3
    <3> HIDE DEF c
    <3>4. stream[r].tries + 1 <= (c + 1) + pipeFaults
      BY <3>1, <3>2, <3>3
    <3> QED
      BY <2>3, <3>1, <3>4, <1>2
  <2> QED
    BY <2>2, <2>3
<1> QED
  BY <1>2, <1>6 DEF TriesAccounted

(* An accepted event stays accepted, so a shared id stays shared. *)
LEMMA KnownStays ==
  ASSUME ProjectionTypeOK, [ProjectionNext]_projectionVars, NEW r \in OutboxRow
  PROVE  /\ Known(r) => Known(r)'
         /\ SharesId(r) => SharesId(r)'
<1>1. \A q \in OutboxRow : Known(q) => Known(q)'
  <2>1. CASE UNCHANGED eventOutbox
    BY <2>1 DEF Known
  <2>2. CASE \E q \in OutboxRow : Accept(q) \/ LeaseExpires(q)
    BY <2>2 DEF Accept, LeaseExpires, ProjectionTypeOK, Known
  <2>3. CASE \E t \in Relay : ClaimOutbox(t)
    <3>1. PICK claimed : eventOutbox' = [q \in OutboxRow |->
                            IF q \in claimed THEN [eventOutbox[q] EXCEPT !.due = FALSE]
                            ELSE eventOutbox[q]]
      BY <2>3, Zenon DEF ClaimOutbox
    <3>2. \A q \in OutboxRow :
            [eventOutbox[q] EXCEPT !.due = FALSE].status = eventOutbox[q].status
      BY DEF ProjectionTypeOK
    <3> QED
      BY <3>1, <3>2 DEF Known
  <2>4. CASE \E t \in Relay : MarkOutboxPublished(t)
    BY <2>4 DEF MarkOutboxPublished, Known
  <2> QED
    BY <2>1, <2>2, <2>3, <2>4 DEF ProjectionNext, projectionVars, AckWaitExpires,
       DuplicateWindowEnds, RelayStep, ConsumeStep, Project, Publish, PublishError,
       RelayProjected, HasInbox, UpsertDocument, PutInbox, ProjectError, Fetch, Ack, Nak, Crash
<1> QED
  BY <1>1 DEF Known, SharesId

(* Publishing puts the row into the stream, or finds it carried, and never *)
(* takes a row out.                                                        *)
LEMMA PublishedIs ==
  ASSUME ProjectionTypeOK, Streamed, NEW r \in OutboxRow, Known(r), Published(r),
         UNCHANGED eventOutbox
  PROVE  /\ \A q \in OutboxRow : InStream(q) => InStream(q)'
         /\ Carried(r)'
         /\ \A q \in OutboxRow : q[2] \in dedup' => Carried(q)'
         /\ \A q \in OutboxRow : stream'[q].tries <= stream[q].tries
         /\ \A q \in OutboxRow : InStream(q)' => Known(q)'
<1>0. \A q \in OutboxRow : SharesId(q)' = SharesId(q)
  BY DEF SharesId
<1>1. CASE r[2] \in dedup
  <2>1. stream' = stream /\ dedup' = dedup
    BY <1>1 DEF Published
  <2>2. \A q \in OutboxRow : stream[q].tries \in Nat
    BY ProjectionAssumption DEF ProjectionTypeOK
  <2> QED
    BY <1>0, <1>1, <2>1, <2>2 DEF Streamed, InStream, Carried, Known
<1>2. CASE r[2] \notin dedup
  <2>1. /\ stream'[r].status = "ready" /\ stream'[r].tries = 0
        /\ \A q \in OutboxRow \ {r} : stream'[q] = stream[q]
        /\ dedup' = dedup \cup {r[2]}
    BY <1>2 DEF Published, ProjectionTypeOK
  <2>2. \A q \in OutboxRow : stream[q].tries \in Nat
    BY ProjectionAssumption DEF ProjectionTypeOK
  <2>3. \A q \in OutboxRow : q[2] \in dedup' => q = r \/ SharesId(q) \/ q[2] \in dedup
    BY <2>1 DEF SharesId, Known
  <2> QED
    BY <1>0, <2>1, <2>2, <2>3 DEF Streamed, InStream, Carried, Known
<1> QED
  BY <1>1, <1>2

(* A step keeps Streamed if no row leaves the stream and what it adds to   *)
(* the window, a batch, a loop's hands or the published rows is there.     *)
LEMMA StreamedKept ==
  ASSUME ProjectionTypeOK, Streamed, [ProjectionNext]_projectionVars,
         \A r \in OutboxRow : InStream(r) => InStream(r)',
         \A r \in OutboxRow : r[2] \in dedup' => r[2] \in dedup \/ Carried(r)',
         \A t \in Relay : \A r \in sent'[t] : r \in sent[t] \/ (Carried(r)' /\ Known(r)'),
         \A t \in Loop : job'[t].step # "idle" =>
                           \/ job[t].step # "idle" /\ job'[t].row = job[t].row
                           \/ Carried(job[t].row)' /\ Known(job[t].row)',
         \A r \in OutboxRow : eventOutbox'[r].status = "published" =>
                                eventOutbox[r].status = "published" \/ Carried(r)',
         \A t \in Relay : \A r \in relaying'[t] : r \in relaying[t] \/ Known(r)',
         \A r \in OutboxRow : InStream(r)' => InStream(r) \/ Known(r)'
  PROVE  Streamed'
<1>0. \A r \in OutboxRow : (Carried(r) => Carried(r)') /\ (Known(r) => Known(r)')
  BY KnownStays DEF Carried
<1>1. \A t \in Loop : job[t].step # "idle" => job[t].row \in OutboxRow
  BY DEF ProjectionTypeOK
<1>2. \A t \in Relay : sent[t] \subseteq OutboxRow /\ relaying[t] \subseteq OutboxRow
  BY DEF ProjectionTypeOK
<1>3. \A t \in Loop : job'[t].step # "idle" => Carried(job[t].row)' /\ Known(job[t].row)'
  BY <1>0, <1>1 DEF Streamed, Carried, Known, InStream, SharesId
<1>4. \A t \in Relay : \A r \in sent'[t] : Carried(r)' /\ Known(r)'
  BY <1>0, <1>2 DEF Streamed
<1>5. \A r \in OutboxRow : r[2] \in dedup' => Carried(r)'
  BY <1>0 DEF Streamed
<1>6. \A r \in OutboxRow : eventOutbox'[r].status = "published" => Carried(r)'
  BY <1>0 DEF Streamed
<1>7. \A t \in Relay : \A r \in relaying'[t] : Known(r)'
  BY <1>0, <1>2 DEF Streamed
<1>8. \A r \in OutboxRow : InStream(r)' => Known(r)'
  BY <1>0 DEF Streamed
<1> QED
  BY <1>3, <1>4, <1>5, <1>6, <1>7, <1>8 DEF Streamed

(* Both parts are inductive, given the types before and after. *)
LEMMA NotLostStep ==
  ASSUME NotLostInv, [ProjectionNext]_projectionVars, ProjectionTypeOK'
  PROVE  Streamed' /\ TriesAccounted'
<1> USE DEF NotLostInv
<1>n. /\ \A r \in OutboxRow : stream[r].tries \in Nat
      /\ pipeFaults \in Nat
  BY ProjectionAssumption DEF ProjectionTypeOK
(* Steps that move no loop and no delivery. *)
<1>q. ASSUME UNCHANGED <<inbox, job, pipeFaults>>,
             \A r \in OutboxRow : stream'[r].tries <= stream[r].tries
      PROVE  TriesAccounted'
  <2>1. \A r \in OutboxRow : Fetched(r)' = Fetched(r)
    BY <1>q DEF Fetched
  <2> QED
    BY <1>q, <1>n, <2>1, TriesQuiet
<1>1. CASE UNCHANGED projectionVars
  <2>1. Streamed'
    BY <1>1 DEF projectionVars, Streamed, InStream, Carried, SharesId, Known
  <2>2. TriesAccounted'
    BY <1>1, <1>n, <1>q DEF projectionVars
  <2> QED
    BY <2>1, <2>2
<1>2. ASSUME NEW r \in OutboxRow, Accept(r) \/ LeaseExpires(r) \/ AckWaitExpires(r)
      PROVE  Streamed' /\ TriesAccounted'
  <2>1. /\ UNCHANGED <<dedup, inbox, searchIndex, relaying, sent, job, pipeFaults>>
        /\ \A q \in OutboxRow : InStream(q)' = InStream(q)
        /\ \A q \in OutboxRow : stream'[q].tries = stream[q].tries
        /\ \A q \in OutboxRow : eventOutbox'[q].status = "published" =>
                                  eventOutbox[q].status = "published"
    <3>1. CASE Accept(r)
      BY <3>1 DEF Accept, ProjectionTypeOK, InStream
    <3>2. CASE LeaseExpires(r)
      BY <3>2 DEF LeaseExpires, ProjectionTypeOK, InStream
    <3>3. CASE AckWaitExpires(r)
      <4>1. stream' = [stream EXCEPT ![r] = [stream[r] EXCEPT !.status = "ready"]]
        BY <3>3 DEF AckWaitExpires, ProjectionTypeOK
      <4>2. /\ stream'[r].status = "ready" /\ stream'[r].tries = stream[r].tries
            /\ \A q \in OutboxRow \ {r} : stream'[q] = stream[q]
        BY <4>1 DEF ProjectionTypeOK
      <4> QED
        BY <3>3, <4>2 DEF AckWaitExpires, InStream
    <3> QED
      BY <1>2, <3>1, <3>2, <3>3
  <2>2. Streamed'
    BY <2>1, StreamedKept
  <2> QED
    BY <2>1, <2>2, <1>n, <1>q
<1>3. ASSUME NEW id \in EventId, DuplicateWindowEnds(id)
      PROVE  Streamed' /\ TriesAccounted'
  <2>1. /\ UNCHANGED <<eventOutbox, stream, inbox, searchIndex, relaying, sent, job, pipeFaults>>
        /\ dedup' \subseteq dedup
    BY <1>3 DEF DuplicateWindowEnds
  <2>2. Streamed'
    BY <2>1 DEF Streamed, InStream, Carried, SharesId, Known
  <2> QED
    BY <2>1, <2>2, <1>n, <1>q
<1>4. ASSUME NEW t \in Loop, Project(t)
      PROVE  Streamed' /\ TriesAccounted'
  <2>1. PICK s \in {"check", "upsert", "receipt", "ok", "failed"} :
          /\ StepTo(t, s)
          /\ s = "failed" => pipeFaults' = pipeFaults + 1
          /\ s # "failed" => pipeFaults' = pipeFaults /\ job[t].step # "failed"
    BY <1>4 DEF Project, HasInbox, UpsertDocument, PutInbox, ProjectError
  <2>2. /\ UNCHANGED <<eventOutbox, stream, dedup, relaying, sent>>
        /\ inbox \subseteq inbox' /\ job[t].step # "idle"
    BY <1>4 DEF Project, HasInbox, UpsertDocument, PutInbox, ProjectError, Upserted, Received
  <2>3. /\ job'[t].step = s /\ job'[t].row = job[t].row
        /\ \A u \in Loop \ {t} : job'[u] = job[u]
    BY <2>1, <2>2, AtType
  <2>4. Streamed'
    <3>1. \A u \in Loop : job'[u].step # "idle" => job[u].step # "idle" /\ job'[u].row = job[u].row
      BY <2>2, <2>3
    <3>2. \A r \in OutboxRow : InStream(r)' = InStream(r)
      BY <2>2 DEF InStream
    <3> QED
      BY <2>2, <3>1, <3>2, StreamedKept
  <2>5. CASE s = "failed"
    BY <2>1, <2>2, <2>3, <2>4, <2>5, TriesFault
  <2>6. CASE s # "failed"
    <3>1. \A r \in OutboxRow : Fetched(r)' = Fetched(r)
      BY <2>1, <2>3, <2>6 DEF Fetched, Loop
    <3> QED
      BY <2>1, <2>2, <2>4, <2>6, <3>1, <1>n, TriesQuiet
  <2> QED
    BY <2>5, <2>6
(* A loop that takes a row in the stream, or ends its job without a        *)
(* failure of its own. *)
<1>5. ASSUME NEW t \in Relay, RelayStep(t)
      PROVE  Streamed' /\ TriesAccounted'
  <2>t. t \in Loop /\ t \notin Consumer
    BY ProjectionAssumption DEF Loop
  <2>f. ASSUME \A u \in Loop \ {t} : job'[u] = job[u]
        PROVE  \A r \in OutboxRow : Fetched(r)' = Fetched(r)
    BY <2>f, <2>t DEF Fetched, Loop
  <2>1. CASE ClaimOutbox(t)
    <3>1. /\ UNCHANGED <<stream, dedup, inbox, sent, job, pipeFaults>>
          /\ \A r \in OutboxRow : eventOutbox'[r].status = eventOutbox[r].status
          /\ \A u \in Relay : \A r \in relaying'[u] : r \in relaying[u] \/ (r \in OutboxRow /\ Known(r))
      <4>1. UNCHANGED <<stream, dedup, inbox, sent, job, pipeFaults>>
        BY <2>1 DEF ClaimOutbox
      <4>2. PICK claimed : eventOutbox' = [r \in OutboxRow |->
                              IF r \in claimed THEN [eventOutbox[r] EXCEPT !.due = FALSE]
                              ELSE eventOutbox[r]]
        BY <2>1, Zenon DEF ClaimOutbox
      <4>3. \A r \in OutboxRow :
              [eventOutbox[r] EXCEPT !.due = FALSE].status = eventOutbox[r].status
        BY DEF ProjectionTypeOK
      <4>4. \A u \in Relay : \A r \in relaying'[u] : r \in relaying[u] \/ (r \in OutboxRow /\ Known(r))
        BY <2>1 DEF ClaimOutbox, ProjectionTypeOK, Known
      <4> QED
        BY <4>1, <4>2, <4>3, <4>4
    <3>2. Streamed'
      <4>1. /\ \A r \in OutboxRow : InStream(r)' = InStream(r)
            /\ \A u \in Relay : \A r \in relaying'[u] : r \in relaying[u] \/ Known(r)'
        BY <3>1 DEF InStream, Known
      <4> QED
        BY <3>1, <4>1, StreamedKept
    <3> QED
      BY <3>1, <3>2, <1>n, <1>q
  <2>2. CASE Publish(t)
    <3>1. PICK r \in relaying[t] : Publish(t)!(r)
      BY <2>2 DEF Publish
    <3>2. r \in OutboxRow /\ Known(r) /\ UNCHANGED eventOutbox
      BY <3>1 DEF ProjectionTypeOK, Streamed
    <3>3. /\ job'[t] = [row |-> r, step |-> "check"]
          /\ \A u \in Loop \ {t} : job'[u] = job[u]
      BY <3>1, <3>2, <2>t, JobType, CheckIsJob
    <3>4. /\ \A q \in OutboxRow : InStream(q) => InStream(q)'
          /\ Carried(r)'
          /\ \A q \in OutboxRow : q[2] \in dedup' => Carried(q)'
          /\ \A q \in OutboxRow : stream'[q].tries <= stream[q].tries
          /\ \A q \in OutboxRow : InStream(q)' => Known(q)'
      BY <3>1, <3>2, PublishedIs
    <3>5. Known(r)'
      BY <3>2 DEF Known
    <3>6. /\ UNCHANGED <<eventOutbox, inbox, sent, pipeFaults>>
          /\ \A u \in Relay : relaying'[u] \subseteq relaying[u]
      BY <3>1 DEF ProjectionTypeOK
    <3>7. \A u \in Loop : job'[u].step # "idle" =>
                           \/ job[u].step # "idle" /\ job'[u].row = job[u].row
                           \/ Carried(job[u].row)' /\ Known(job[u].row)'
      BY <3>3, <3>4, <3>5 DEF Carried, InStream, SharesId, Known
    <3>8. Streamed'
      BY <3>4, <3>6, <3>7, StreamedKept
    <3> QED
      BY <3>3, <3>4, <3>6, <3>8, <2>f, <1>n, TriesQuiet
  <2>3. CASE PublishError(t)
    <3>1. PICK r \in relaying[t] : PublishError(t)!(r)
      BY <2>3 DEF PublishError
    <3>2. r \in OutboxRow /\ Known(r) /\ UNCHANGED eventOutbox
      BY <3>1 DEF ProjectionTypeOK, Streamed
    <3>3. /\ UNCHANGED <<eventOutbox, inbox, searchIndex, job>> /\ pipeFaults' = pipeFaults + 1
          /\ \A u \in Relay : sent'[u] \subseteq sent[u] /\ relaying'[u] \subseteq relaying[u]
      BY <3>1 DEF ProjectionTypeOK
    <3>4. /\ \A q \in OutboxRow : InStream(q) => InStream(q)'
          /\ \A q \in OutboxRow : q[2] \in dedup' => q[2] \in dedup \/ Carried(q)'
          /\ \A q \in OutboxRow : stream'[q].tries <= stream[q].tries
          /\ \A q \in OutboxRow : InStream(q)' => InStream(q) \/ Known(q)'
      <4>1. CASE Published(r)
        BY <3>2, <4>1, PublishedIs
      <4>2. CASE UNCHANGED <<stream, dedup>>
        BY <4>2, <1>n DEF InStream
      <4> QED
        BY <3>1, <4>1, <4>2
    <3>5. Streamed'
      BY <3>3, <3>4, StreamedKept
    <3>6. \A q \in OutboxRow : Fetched(q)' = Fetched(q)
      BY <3>3 DEF Fetched
    <3>7. pipeFaults <= pipeFaults'
      BY <3>3, <1>n
    <3> QED
      BY <3>3, <3>4, <3>5, <3>6, <3>7, TriesQuiet
  <2>4. CASE RelayProjected(t)
    <3>1. /\ UNCHANGED <<eventOutbox, stream, dedup, inbox, relaying, pipeFaults>>
          /\ \A u \in Relay : sent'[u] \subseteq sent[u] \cup {job[t].row}
          /\ job[t].step # "idle"
      BY <2>4 DEF RelayProjected, ProjectionTypeOK
    <3>2. job'[t] = IdleLoop /\ \A u \in Loop \ {t} : job'[u] = job[u]
      BY <2>4, <2>t, JobType, IdleIsJob DEF RelayProjected
    <3>3. Carried(job[t].row) /\ Known(job[t].row)
      BY <3>1, <2>t DEF Streamed
    <3>4. /\ \A u \in Relay : \A r \in sent'[u] : r \in sent[u] \/ (Carried(r)' /\ Known(r)')
          /\ \A r \in OutboxRow : InStream(r)' = InStream(r)
      BY <3>1, <3>3 DEF InStream, Carried, SharesId, Known
    <3>5. \A u \in Loop : job'[u].step # "idle" => job[u].step # "idle" /\ job'[u].row = job[u].row
      BY <3>2, IdleIsJob
    <3>6. Streamed'
      BY <3>1, <3>4, <3>5, StreamedKept
    <3> QED
      BY <3>1, <3>2, <3>6, <2>f, <1>n, TriesQuiet
  <2>5. CASE MarkOutboxPublished(t)
    <3>1. /\ UNCHANGED <<stream, dedup, inbox, relaying, job, pipeFaults>>
          /\ \A u \in Relay : sent'[u] \subseteq sent[u]
      BY <2>5 DEF MarkOutboxPublished, ProjectionTypeOK
    <3>2. ASSUME NEW r \in OutboxRow, eventOutbox'[r].status = "published"
          PROVE  eventOutbox[r].status = "published" \/ Carried(r)'
      <4>1. eventOutbox[r].status = "published" \/ \E q \in sent[t] : q[2] = r[2]
        BY <2>5, <3>2 DEF MarkOutboxPublished
      <4>2. \A q \in sent[t] : q \in OutboxRow /\ Carried(q) /\ Known(q)
        BY DEF ProjectionTypeOK, Streamed
      <4>3. eventOutbox[r].status = "published" \/ Carried(r)
        BY <4>1, <4>2 DEF Carried, SharesId, Known
      <4> QED
        BY <3>1, <4>3, KnownStays DEF Carried, InStream
    <3>3. \A r \in OutboxRow : InStream(r)' = InStream(r)
      BY <3>1 DEF InStream
    <3>4. Streamed'
      BY <3>1, <3>2, <3>3, StreamedKept
    <3> QED
      BY <3>1, <3>4, <1>n, <1>q
  <2>6. CASE Project(t)
    BY <2>6, <2>t, <1>4
  <2> QED
    BY <1>5, <2>1, <2>2, <2>3, <2>4, <2>5, <2>6 DEF RelayStep
<1>6. ASSUME NEW t \in Consumer, ConsumeStep(t)
      PROVE  Streamed' /\ TriesAccounted'
  <2>t. t \in Loop
    BY DEF Loop
  <2>1. CASE Fetch(t)
    <3>1. PICK r \in OutboxRow : Fetch(t)!(r)
      BY <2>1 DEF Fetch
    <3>2. /\ UNCHANGED <<eventOutbox, dedup, sent, relaying>>
          /\ stream'[r].status = "inflight" /\ stream[r].status = "ready"
          /\ \A q \in OutboxRow \ {r} : stream'[q] = stream[q]
      BY <3>1 DEF ProjectionTypeOK, Deliverable
    <3>3. /\ job'[t] = [row |-> r, step |-> "check"]
          /\ \A u \in Loop \ {t} : job'[u] = job[u]
      BY <3>1, <2>t, JobType, CheckIsJob
    <3>4. /\ \A q \in OutboxRow : InStream(q)' = InStream(q)
          /\ Carried(r)' /\ Known(r)'
      BY <3>2 DEF InStream, Carried, Known, Streamed
    <3>5. \A u \in Loop : job'[u].step # "idle" =>
                           \/ job[u].step # "idle" /\ job'[u].row = job[u].row
                           \/ Carried(job[u].row)' /\ Known(job[u].row)'
      BY <3>3, <3>4 DEF Carried, InStream, SharesId, Known
    <3>6. Streamed'
      BY <3>2, <3>4, <3>5, StreamedKept
    <3> QED
      BY <2>1, <3>6, TriesFetch
  <2>2. CASE Ack(t) \/ Nak(t)
    <3>1. /\ UNCHANGED <<eventOutbox, dedup, inbox, sent, relaying, pipeFaults>>
          /\ job[t].step \in {"ok", "failed"} /\ job' = [job EXCEPT ![t] = IdleLoop]
      BY <2>2 DEF Ack, Nak
    <3>2. job[t].row \in OutboxRow
      BY <3>1, <2>t DEF ProjectionTypeOK
    <3>3. job'[t] = IdleLoop /\ \A u \in Loop \ {t} : job'[u] = job[u]
      BY <3>1, <2>t, JobType, IdleIsJob
    <3>4. Known(job[t].row)
      BY <3>1, <2>t DEF Streamed
    <3>5. PICK s \in {"none", "ready", "inflight", "acked"} :
            /\ stream' = [stream EXCEPT ![job[t].row] =
                            [stream[job[t].row] EXCEPT !.status = s]]
            /\ s = "none" => ~InStream(job[t].row)
      BY <2>2, <3>2 DEF Ack, Nak, ProjectionTypeOK, InStream
    <3>6. /\ stream'[job[t].row].status = s
          /\ stream'[job[t].row].tries = stream[job[t].row].tries
          /\ \A q \in OutboxRow \ {job[t].row} : stream'[q] = stream[q]
      BY <3>2, <3>5 DEF ProjectionTypeOK
    <3>7. /\ \A q \in OutboxRow : InStream(q) => InStream(q)'
          /\ \A q \in OutboxRow : stream'[q].tries <= stream[q].tries
          /\ \A q \in OutboxRow : InStream(q)' => InStream(q) \/ Known(q)'
      BY <3>1, <3>4, <3>5, <3>6, <1>n DEF InStream, Known
    <3>8. \A u \in Loop : job'[u].step # "idle" => job[u].step # "idle" /\ job'[u].row = job[u].row
      BY <3>3, IdleIsJob
    <3>9. Streamed'
      BY <3>1, <3>7, <3>8, StreamedKept
    <3>10. \A r \in OutboxRow \ inbox : t \notin Fetched(r)
      <4>1. job[t].step = "ok" => job[t].row \in inbox
        BY <2>t DEF Recorded, JobKnows
      <4> QED
        BY <3>1, <4>1 DEF Fetched
    <3>11. \A r \in OutboxRow : t \notin Fetched(r)'
      BY <3>3, ProjectionAssumption DEF Fetched, IdleLoop
    <3>12. \A r \in OutboxRow \ inbox : Fetched(r)' = Fetched(r)
      BY <3>3, <3>10, <3>11 DEF Fetched, Loop
    <3> QED
      BY <3>1, <3>7, <3>9, <3>12, <1>n, TriesQuiet
  <2>3. CASE Project(t)
    BY <2>3, <2>t, <1>4
  <2> QED
    BY <1>6, <2>1, <2>2, <2>3 DEF ConsumeStep
<1>7. ASSUME NEW t \in Loop, Crash(t)
      PROVE  Streamed' /\ TriesAccounted'
  <2>1. /\ UNCHANGED <<eventOutbox, stream, dedup, inbox>> /\ pipeFaults' = pipeFaults + 1
        /\ \A u \in Relay : sent'[u] \subseteq sent[u] /\ relaying'[u] \subseteq relaying[u]
    BY <1>7 DEF Crash
  <2>2. job'[t] = IdleLoop /\ \A u \in Loop \ {t} : job'[u] = job[u]
    BY <1>7, JobType, IdleIsJob DEF Crash
  <2>3. \A u \in Loop : job'[u].step # "idle" => job[u].step # "idle" /\ job'[u].row = job[u].row
    BY <2>2, IdleIsJob
  <2>4. \A r \in OutboxRow : InStream(r)' = InStream(r)
    BY <2>1 DEF InStream
  <2>5. Streamed'
    BY <2>1, <2>3, <2>4, StreamedKept
  <2> QED
    BY <2>1, <2>2, <2>5, TriesFault
<1> QED
  BY <1>1, <1>2, <1>3, <1>5, <1>6, <1>7 DEF ProjectionNext

(* At-least-once delivery, and where it ends: what a row marked published  *)
(* stands for has its receipt, is being projected, or has a delivery left  *)
(* in the stream, unless MaxDeliver failures used the deliveries up or the *)
(* id is another organisation's too.  For any number of organisations,     *)
(* relays, consumers and failures, whatever leases, acknowledgement        *)
(* deadlines and duplicate windows end in between.                         *)
THEOREM PublishedIsNotLostAlways == ProjectionSpec => []PublishedIsNotLost
<1>1. ProjectionInit => NotLostInv
  <2> SUFFICES ASSUME ProjectionInit PROVE NotLostInv
    OBVIOUS
  <2>1. ProjectionTypeOK
    BY ProjectionAssumption DEF ProjectionInit, ProjectionTypeOK, IdleLoop
  <2>2. Recorded
    BY ProjectionAssumption DEF ProjectionInit, Recorded, RecordedBeforeAck, JobKnows, IdleLoop
  <2>3. Streamed
    BY DEF ProjectionInit, Streamed, IdleLoop, InStream
  <2>4. TriesAccounted
    <3>1. \A r \in OutboxRow : stream[r].tries = 0 /\ pipeFaults = 0
      BY DEF ProjectionInit
    <3>2. \A r \in OutboxRow : Cardinality(Fetched(r)) \in Nat
      BY FetchedIsFinite
    <3> QED
      BY <3>1, <3>2 DEF TriesAccounted
  <2> QED
    BY <2>1, <2>2, <2>3, <2>4 DEF NotLostInv
<1>2. NotLostInv /\ [ProjectionNext]_projectionVars => NotLostInv'
  <2> SUFFICES ASSUME NotLostInv, [ProjectionNext]_projectionVars PROVE NotLostInv'
    OBVIOUS
  <2>1. ProjectionTypeOK' /\ Recorded'
    BY TypeStep, RecordedStep DEF NotLostInv
  <2> QED
    BY <2>1, NotLostStep DEF NotLostInv
<1>3. NotLostInv => PublishedIsNotLost
  <2> SUFFICES ASSUME NotLostInv, NEW r \in OutboxRow,
                      eventOutbox[r].status = "published", r \notin inbox, ~Running(r),
                      ~SharesId(r), ~DeliveriesSpent(r)
               PROVE  /\ stream[r].status \in {"ready", "inflight"}
                      /\ stream[r].tries < MaxDeliver
    BY DEF PublishedIsNotLost, StillComing
  <2> USE DEF NotLostInv
  <2>1. stream[r].status \in {"ready", "inflight"}
    BY DEF Streamed, Carried, InStream, Recorded, RecordedBeforeAck, ProjectionTypeOK
  <2>2. Fetched(r) = {}
    BY DEF Fetched, Running, Loop
  <2>3. Cardinality(Fetched(r)) = 0
    BY <2>2, FS_EmptySet
  <2>4. stream[r].tries <= 0 + pipeFaults
    BY <2>3 DEF TriesAccounted
  <2>5. stream[r].tries \in 0..MaxDeliver /\ pipeFaults \in Nat
    BY ProjectionAssumption DEF ProjectionTypeOK
  <2>6. stream[r].tries < MaxDeliver
    BY <2>4, <2>5, ProjectionAssumption DEF DeliveriesSpent
  <2> QED
    BY <2>1, <2>6
<1> QED
  BY <1>1, <1>2, <1>3, PTL DEF ProjectionSpec
=============================================================================
