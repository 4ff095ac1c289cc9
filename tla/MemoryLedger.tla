---------------------------- MODULE MemoryLedger ----------------------------
(***************************************************************************)
(* The in-memory ledger, which tests and single-process deployments use in *)
(* place of PostgreSQL.  Each method holds one lock, so a method is one    *)
(* step; a transaction is a row of methods that others interleave with and *)
(* that nothing rolls back.                                                *)
(*                                                                         *)
(* Intakes, one deletion at a time, and outbox relays or authorisation     *)
(* workers use it (the two loops share no state: a behaviour has one).  A  *)
(* call stands for the revision it makes; one organisation and one parent  *)
(* edge per request are modelled.                                          *)
(***************************************************************************)
EXTENDS Naturals, Sequences, FiniteSets

CONSTANTS
  MemCall,     \* intakes
  MemRes,      \* resource ids
  MemKey,      \* idempotency keys
  MemEvent,    \* event ids, which outbox entries are keyed by
  MemDeletable,\* resources whose deletion is explored
  MemRequest,  \* requests: key, event, resource, parent ("" for none), sync
  MemWorker,   \* relays and workers that claim and mark
  Lease,       \* ticks a claim lasts (30 s in the code)
  MaxRows,     \* bound on tuple rows, with which deletions stop
  MaxMemTime   \* bound on time

ASSUME MemoryAssumption ==
  /\ "none" \notin MemCall
  /\ MemRequest \subseteq [key : MemKey, event : MemEvent, res : MemRes,
                           to : MemRes \cup {""}, sync : BOOLEAN]
  /\ MemDeletable \subseteq MemRes
  /\ Lease \in Nat \ {0}
  /\ {MaxRows, MaxMemTime} \subseteq Nat

VARIABLES
  memNow,
  memRecord,  \* records: lifecycle state and current revision
  memRevs,    \* revisions
  memIdem,    \* idempotency: the revision of each key
  memEdge,    \* edges by their (deterministic) id, the pair of ends
  memTuples,  \* authzTuples: rows in the order they were enqueued, and as
              \* history whether a failure was marked after its lease's end
  memOutbox,  \* outbox entries, oldest first
  memLease,   \* outboxLease: when the lease of an event id ends
  memCall,    \* each intake: its request and the method it calls next
  memDelete,  \* the deletion under way: its resource, the edges it listed,
              \* with their flags, and the one it has to enqueue
  memLoop,    \* the loop the workers run: relays, authorisation workers, or
              \* none
  memHeld,    \* what each worker has claimed and not yet marked
  memSent,    \* history: revisions published to the bus
  memOverlap, \* history: pairs of intakes that ran at the same time
  memRaced    \* history: edges upserted after the deletion listed them

memVars ==
  <<memNow, memRecord, memRevs, memIdem, memEdge, memTuples, memOutbox,
    memLease, memCall, memDelete, memLoop, memHeld, memSent, memOverlap,
    memRaced>>

NoRev == "none"
NoPair == <<>>
NoDeletion == [step |-> "idle", res |-> "", listed |-> {}, at |-> NoPair]
NoEdge == [state |-> "NONE", sync |-> FALSE]
NothingHeld == [kind |-> "none", id |-> 0, until |-> 0]

Req(c) == memCall[c].req
InProgress == {c \in MemCall : memCall[c].pc \notin {"idle", "done"}}
Pair(c) == <<Req(c).res, Req(c).to>>

Calls(c, pc) == memCall[c].pc = pc
Proceeds(c, pc) == memCall' = [memCall EXCEPT ![c].pc = pc]

-----------------------------------------------------------------------------
(* One intake, method by method *)

(* Mutant: the key is left to PutIdempotency. *)
GetIdempotencyLater(c) ==
  /\ Calls(c, "idle")
  /\ memOverlap' = memOverlap \cup {{c, d} : d \in InProgress}
  /\ Proceeds(c, "promote")
  /\ UNCHANGED <<memNow, memLoop, memRecord, memRevs, memIdem, memEdge, memTuples,
                 memOutbox, memLease, memDelete, memHeld, memSent, memRaced>>

(* A key that is known ends the call. *)
GetIdempotency(c) ==
  /\ Calls(c, "idle")
  /\ memOverlap' = memOverlap \cup {{c, d} : d \in InProgress}
  /\ Proceeds(c, IF memIdem[Req(c).key] # NoRev THEN "done" ELSE "promote")
  /\ UNCHANGED <<memNow, memLoop, memRecord, memRevs, memIdem, memEdge, memTuples,
                 memOutbox, memLease, memDelete, memHeld, memSent, memRaced>>

(* The record is replaced whatever its state. *)
PromotePlaceholder(c) ==
  /\ Calls(c, "promote")
  /\ memRecord' = [memRecord EXCEPT ![Req(c).res] = [state |-> "ACCEPTED", rev |-> c]]
  /\ Proceeds(c, "revision")
  /\ UNCHANGED <<memNow, memLoop, memRevs, memIdem, memEdge, memTuples, memOutbox,
                 memLease, memDelete, memHeld, memSent, memOverlap, memRaced>>

AppendRevision(c) ==
  /\ Calls(c, "revision")
  /\ memRevs' = memRevs \cup {c}
  /\ Proceeds(c, IF Req(c).to = "" THEN "outbox" ELSE "endpoint")
  /\ UNCHANGED <<memNow, memLoop, memRecord, memIdem, memEdge, memTuples, memOutbox,
                 memLease, memDelete, memHeld, memSent, memOverlap, memRaced>>

(* ensureEndpoint looks for the parent ... *)
EnsureEndpoint(c) ==
  /\ Calls(c, "endpoint")
  /\ Proceeds(c, IF memRecord[Req(c).to].state = "NONE" THEN "placeholder" ELSE "edge")
  /\ UNCHANGED <<memNow, memLoop, memRecord, memRevs, memIdem, memEdge, memTuples,
                 memOutbox, memLease, memDelete, memHeld, memSent, memOverlap, memRaced>>

(* Mutant: it is inserted because ensureEndpoint did not find one. *)
InsertPlaceholderUnchecked(c) ==
  /\ Calls(c, "placeholder")
  /\ memRecord' = [memRecord EXCEPT ![Req(c).to] = [state |-> "PLACEHOLDER", rev |-> NoRev]]
  /\ Proceeds(c, "edge")
  /\ UNCHANGED <<memNow, memLoop, memRevs, memIdem, memEdge, memTuples, memOutbox,
                 memLease, memDelete, memHeld, memSent, memOverlap, memRaced>>

(* ... and InsertPlaceholder looks again, under the lock.                  *)
InsertPlaceholder(c) ==
  /\ Calls(c, "placeholder")
  /\ memRecord' = [memRecord EXCEPT ![Req(c).to] =
       IF @.state = "NONE" THEN [state |-> "PLACEHOLDER", rev |-> NoRev] ELSE @]
  /\ Proceeds(c, "edge")
  /\ UNCHANGED <<memNow, memLoop, memRevs, memIdem, memEdge, memTuples, memOutbox,
                 memLease, memDelete, memHeld, memSent, memOverlap, memRaced>>

(* An active edge is refreshed in place, a tombstoned one comes back. *)
UpsertEdge(c) ==
  /\ Calls(c, "edge")
  /\ memEdge' = [memEdge EXCEPT ![Pair(c)] = [state |-> "ACTIVE", sync |-> Req(c).sync]]
  /\ Proceeds(c, IF Req(c).sync THEN "tuple" ELSE "outbox")
  /\ memRaced' = memRaced \cup ({Pair(c)} \cap {l.pair : l \in memDelete.listed})
  /\ UNCHANGED <<memNow, memLoop, memRecord, memRevs, memIdem, memTuples, memOutbox,
                 memLease, memDelete, memHeld, memSent, memOverlap>>

NewTuple(op, pair) ==
  [op |-> op, pair |-> pair, status |-> "pending", until |-> 0, late |-> FALSE]

(* Mutant: a pending row for the tuple will do, whatever its operation. *)
EnqueuedAnyOp(op, pair) ==
  IF \E i \in DOMAIN memTuples :
       memTuples[i].status = "pending" /\ memTuples[i].pair = pair
  THEN memTuples
  ELSE Append(memTuples, NewTuple(op, pair))

(* EnqueueAuthzTuple: a pending row for the same operation is refreshed. *)
EnqueuedTuple(op, pair) ==
  IF \E i \in DOMAIN memTuples :
       /\ memTuples[i].status = "pending"
       /\ memTuples[i].op = op /\ memTuples[i].pair = pair
  THEN memTuples
  ELSE Append(memTuples, NewTuple(op, pair))

EnqueueAuthzTuple(c) ==
  /\ Calls(c, "tuple")
  /\ memTuples' = EnqueuedTuple("write", Pair(c))
  /\ Proceeds(c, "outbox")
  /\ UNCHANGED <<memNow, memLoop, memRecord, memRevs, memIdem, memEdge, memOutbox,
                 memLease, memDelete, memHeld, memSent, memOverlap, memRaced>>

(* A slice: nothing stops a second entry with the same id. *)
EnqueueOutbox(c) ==
  /\ Calls(c, "outbox")
  /\ memOutbox' = Append(memOutbox, [id |-> Req(c).event, rev |-> c, published |-> FALSE])
  /\ Proceeds(c, "key")
  /\ UNCHANGED <<memNow, memLoop, memRecord, memRevs, memIdem, memEdge, memTuples,
                 memLease, memDelete, memHeld, memSent, memOverlap, memRaced>>

(* The key goes in, or it exists: the call answers with what it stands     *)
(* for, and what the call has written stays.                               *)
PutIdempotency(c) ==
  /\ Calls(c, "key")
  /\ memIdem' = [memIdem EXCEPT ![Req(c).key] = IF @ = NoRev THEN c ELSE @]
  /\ Proceeds(c, "done")
  /\ UNCHANGED <<memNow, memLoop, memRecord, memRevs, memEdge, memTuples, memOutbox,
                 memLease, memDelete, memHeld, memSent, memOverlap, memRaced>>

-----------------------------------------------------------------------------
(* One deletion at a time, method by method *)

(* UpsertRecord: the tombstone of a record the deletion found. *)
TombstoneRecord(res) ==
  /\ memDelete = NoDeletion
  /\ Len(memTuples) < MaxRows
  /\ memRecord[res].state # "NONE"
  /\ memRecord' = [memRecord EXCEPT ![res] = [state |-> "TOMBSTONED", rev |-> NoRev]]
  /\ memDelete' = [NoDeletion EXCEPT !.step = "list", !.res = res]
  /\ UNCHANGED <<memNow, memLoop, memRevs, memIdem, memEdge, memTuples, memOutbox,
                 memLease, memCall, memHeld, memSent, memOverlap, memRaced>>

ActiveEdgesOf(res) ==
  {p \in MemRes \X MemRes : res \in {p[1], p[2]} /\ memEdge[p].state = "ACTIVE"}

(* ListEdges copies the active edges at the resource. *)
ListEdges ==
  /\ memDelete.step = "list"
  /\ LET found == ActiveEdgesOf(memDelete.res) IN
     /\ memDelete' = IF found = {} THEN NoDeletion
                     ELSE [memDelete EXCEPT !.step = "edges",
                             !.listed = {[pair |-> p, sync |-> memEdge[p].sync] : p \in found}]
     /\ memRaced' = memRaced \ found
  /\ UNCHANGED <<memNow, memLoop, memRecord, memRevs, memIdem, memEdge, memTuples,
                 memOutbox, memLease, memCall, memHeld, memSent, memOverlap>>

(* With the last listed edge the transaction is over. *)
Deleted(listed, at) ==
  IF listed = {} /\ at = NoPair THEN NoDeletion
  ELSE [memDelete EXCEPT !.listed = listed, !.at = at]

(* TombstoneEdge changes the state of the edge as it is now; EnqueueForEdge *)
(* goes by the flag of the listed copy.                                     *)
TombstoneEdge(l) ==
  /\ memDelete.at = NoPair
  /\ l \in memDelete.listed
  /\ memEdge' = [memEdge EXCEPT ![l.pair].state = "TOMBSTONED"]
  /\ memDelete' = Deleted(memDelete.listed \ {l}, IF l.sync THEN l.pair ELSE NoPair)
  /\ UNCHANGED <<memNow, memLoop, memRecord, memRevs, memIdem, memTuples, memOutbox,
                 memLease, memCall, memHeld, memSent, memOverlap, memRaced>>

EnqueueDelete ==
  /\ memDelete.at # NoPair
  /\ memTuples' = EnqueuedTuple("delete", memDelete.at)
  /\ memDelete' = Deleted(memDelete.listed, NoPair)
  /\ UNCHANGED <<memNow, memLoop, memRecord, memRevs, memIdem, memEdge, memOutbox,
                 memLease, memCall, memHeld, memSent, memOverlap, memRaced>>

-----------------------------------------------------------------------------
(* Claims, one entry at a time *)

Claimable(i) == ~memOutbox[i].published /\ memLease[memOutbox[i].id] <= memNow

(* Mutant: any unpublished entry. *)
ClaimOutboxAgain(w) ==
  /\ memLoop = "outbox" /\ memHeld[w] = NothingHeld
  /\ \E i \in DOMAIN memOutbox :
       /\ ~memOutbox[i].published
       /\ memLease' = [memLease EXCEPT ![memOutbox[i].id] = memNow + Lease]
       /\ memHeld' = [memHeld EXCEPT ![w] =
            [kind |-> "outbox", id |-> i, until |-> memNow + Lease]]
  /\ UNCHANGED <<memNow, memLoop, memRecord, memRevs, memIdem, memEdge, memTuples,
                 memOutbox, memCall, memDelete, memSent, memOverlap, memRaced>>

(* The oldest unpublished entry whose id nobody holds. *)
ClaimOutbox(w) ==
  /\ memLoop = "outbox" /\ memHeld[w] = NothingHeld
  /\ \E i \in DOMAIN memOutbox :
       /\ Claimable(i) /\ \A j \in 1..(i - 1) : ~Claimable(j)
       /\ memLease' = [memLease EXCEPT ![memOutbox[i].id] = memNow + Lease]
       /\ memHeld' = [memHeld EXCEPT ![w] =
            [kind |-> "outbox", id |-> i, until |-> memNow + Lease]]
  /\ UNCHANGED <<memNow, memLoop, memRecord, memRevs, memIdem, memEdge, memTuples,
                 memOutbox, memCall, memDelete, memSent, memOverlap, memRaced>>

Published(id) == [i \in DOMAIN memOutbox |->
  IF memOutbox[i].id = id THEN [memOutbox[i] EXCEPT !.published = TRUE] ELSE memOutbox[i]]

(* Mutant: the entry is marked whether or not the bus took it. *)
PublishAlways(w, ok) ==
  /\ memHeld[w].kind = "outbox"
  /\ LET e == memOutbox[memHeld[w].id] IN
     /\ memSent' = IF ok THEN memSent \cup {e.rev} ELSE memSent
     /\ memOutbox' = Published(e.id)
     /\ memLease' = [memLease EXCEPT ![e.id] = 0]
  /\ memHeld' = [memHeld EXCEPT ![w] = NothingHeld]
  /\ UNCHANGED <<memNow, memLoop, memRecord, memRevs, memIdem, memEdge, memTuples,
                 memCall, memDelete, memOverlap, memRaced>>

(* Published, then MarkOutboxPublished by id; or left to its lease. *)
Publish(w, ok) ==
  /\ memHeld[w].kind = "outbox"
  /\ LET e == memOutbox[memHeld[w].id] IN
     /\ memSent' = IF ok THEN memSent \cup {e.rev} ELSE memSent
     /\ memOutbox' = IF ok THEN Published(e.id) ELSE memOutbox
     /\ memLease' = IF ok THEN [memLease EXCEPT ![e.id] = 0] ELSE memLease
  /\ memHeld' = [memHeld EXCEPT ![w] = NothingHeld]
  /\ UNCHANGED <<memNow, memLoop, memRecord, memRevs, memIdem, memEdge, memTuples,
                 memCall, memDelete, memOverlap, memRaced>>

(* Any pending row that is not leased or backing off (one field holds the  *)
(* end of either).                                                         *)
ClaimAuthzTuples(w) ==
  /\ memLoop = "tuple" /\ memHeld[w] = NothingHeld
  /\ \E i \in DOMAIN memTuples :
       /\ memTuples[i].status = "pending" /\ memTuples[i].until <= memNow
       /\ memTuples' = [memTuples EXCEPT ![i].until = memNow + Lease]
       /\ memHeld' = [memHeld EXCEPT ![w] =
            [kind |-> "tuple", id |-> i, until |-> memNow + Lease]]
  /\ UNCHANGED <<memNow, memLoop, memRecord, memRevs, memIdem, memEdge, memOutbox,
                 memLease, memCall, memDelete, memSent, memOverlap, memRaced>>

(* MarkAuthzTupleApplied, or MarkAuthzTupleFailed with the row dead or to  *)
(* be tried again later; by id, whoever holds the row by now.              *)
MarkAuthzTuple(w, status) ==
  /\ memHeld[w].kind = "tuple"
  /\ LET i == memHeld[w].id IN
     memTuples' = [memTuples EXCEPT
       ![i].status = IF status = "failed" THEN @ ELSE status,
       ![i].until = IF status = "failed" THEN memNow + 1 ELSE 0,
       ![i].late = @ \/ (status = "failed" /\ memHeld[w].until <= memNow)]
  /\ memHeld' = [memHeld EXCEPT ![w] = NothingHeld]
  /\ UNCHANGED <<memNow, memLoop, memRecord, memRevs, memIdem, memEdge, memOutbox,
                 memLease, memCall, memDelete, memSent, memOverlap, memRaced>>

MemTick ==
  /\ memNow < MaxMemTime
  /\ memNow' = memNow + 1
  /\ UNCHANGED <<memLoop, memRecord, memRevs, memIdem, memEdge, memTuples,
                 memOutbox, memLease, memCall, memDelete, memHeld, memSent, memOverlap, memRaced>>

-----------------------------------------------------------------------------
MemoryInit ==
  /\ memNow = 0
  /\ memRecord = [x \in MemRes |-> [state |-> "NONE", rev |-> NoRev]]
  /\ memRevs = {}
  /\ memIdem = [k \in MemKey |-> NoRev]
  /\ memEdge = [p \in MemRes \X MemRes |-> NoEdge]
  /\ memTuples = <<>>
  /\ memOutbox = <<>>
  /\ memLease = [e \in MemEvent |-> 0]
  /\ memCall \in [MemCall -> [pc : {"idle"}, req : MemRequest]]
  /\ memDelete = NoDeletion
  /\ memLoop \in {"outbox", "tuple", "none"}
  /\ memHeld = [w \in MemWorker |-> NothingHeld]
  /\ memSent = {}
  /\ memOverlap = {}
  /\ memRaced = {}

MemIntake(c) ==
  \/ GetIdempotency(c) \/ PromotePlaceholder(c) \/ AppendRevision(c)
  \/ EnsureEndpoint(c) \/ InsertPlaceholder(c) \/ UpsertEdge(c)
  \/ EnqueueAuthzTuple(c) \/ EnqueueOutbox(c) \/ PutIdempotency(c)

MemWork(w) ==
  \/ ClaimOutbox(w) \/ ClaimAuthzTuples(w)
  \/ \E ok \in BOOLEAN : Publish(w, ok)
  \/ \E status \in {"applied", "dead", "failed"} : MarkAuthzTuple(w, status)

MemoryNext ==
  \/ \E c \in MemCall : MemIntake(c)
  \/ \E res \in MemDeletable : TombstoneRecord(res)
  \/ ListEdges
  \/ \E l \in memDelete.listed : TombstoneEdge(l)
  \/ EnqueueDelete
  \/ \E w \in MemWorker : MemWork(w)
  \/ MemTick

MemorySpec == MemoryInit /\ [][MemoryNext]_memVars

-----------------------------------------------------------------------------
(* Properties *)

(* WithOrgTx is "a no-op transaction": a request that is sent twice may    *)
(* leave two revisions behind, but only when its two calls overlap.        *)
TwiceOnlyByOverlap ==
  \A c, d \in memRevs :
    c # d /\ Req(c).key = Req(d).key => {c, d} \in memOverlap

(* Whatever an intake saw of its parent before, a record with a revision   *)
(* is never replaced by a placeholder for the same id, deleted or not.     *)
PlaceholderNeverOverwrites ==
  \A c \in memRevs : memRecord[Req(c).res].state \in {"ACCEPTED", "TOMBSTONED"}

(* Two workers hold the same outbox event or the same tuple row only once  *)
(* the lease of one has run out.  (A worker that marks a failure after its *)
(* own lease ended clears the lease of whoever has claimed the row since:  *)
(* MarkAuthzTupleFailed goes by id alone.)                                 *)
LeasesExclusive ==
  \A w, v \in MemWorker :
    /\ w # v /\ memHeld[w].kind # "none"
    /\ memHeld[v].kind = memHeld[w].kind /\ memHeld[v].id = memHeld[w].id
    => \/ memHeld[w].until <= memNow \/ memHeld[v].until <= memNow
       \/ memHeld[w].kind = "tuple" /\ memTuples[memHeld[w].id].late

(* An outbox entry counts as published only if its revision went out, or   *)
(* another entry had its event id: MarkOutboxPublished marks them all.     *)
PublishedWasSent ==
  \A i \in DOMAIN memOutbox :
    memOutbox[i].published =>
      \/ memOutbox[i].rev \in memSent
      \/ \E j \in DOMAIN memOutbox : i # j /\ memOutbox[j].id = memOutbox[i].id

(* However intakes, deletions and workers interleave, an edge that is to   *)
(* be inherited through has its write requested, and one that was deleted  *)
(* has its delete requested, except between the two methods that do it and *)
(* when an intake upserted it after the deletion had listed it (the        *)
(* deletion goes by the flag it listed).                                   *)
EdgeOpsRequested ==
  \A pair \in MemRes \X MemRes : memEdge[pair].sync =>
    LET rows(op) == {i \in DOMAIN memTuples :
                       memTuples[i].pair = pair /\ memTuples[i].op = op}
    IN CASE memEdge[pair].state = "ACTIVE" ->
              rows("write") # {} \/ \E c \in MemCall : Calls(c, "tuple") /\ Pair(c) = pair
         [] memEdge[pair].state = "TOMBSTONED" ->
              rows("delete") # {} \/ memDelete.at = pair \/ pair \in memRaced

(* What the in-memory ledger still guarantees although its transactions    *)
(* lock nothing and undo nothing: the parts of the PostgreSQL ledger's     *)
(* promises that its single methods keep.                                  *)
MemoryStillHolds ==
  /\ TwiceOnlyByOverlap
  /\ PlaceholderNeverOverwrites
  /\ LeasesExclusive
  /\ PublishedWasSent
  /\ EdgeOpsRequested
=============================================================================
