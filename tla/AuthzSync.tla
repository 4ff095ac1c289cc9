----------------------------- MODULE AuthzSync -----------------------------
(***************************************************************************)
(* Durable AuthZ tuple synchronisation (ADR 0014).                         *)
(*                                                                         *)
(* A knowledge edge with predicate "parent" may ask for access inheritance *)
(* (sync_authz).  The ledger transaction that writes or tombstones such an *)
(* edge also enqueues a row in authz_tuple_outbox; background workers      *)
(* claim rows under a lease, apply them to OpenFGA one by one and mark the *)
(* outcome; a reconciler compares active edges with OpenFGA and enqueues   *)
(* the writes that are missing.                                            *)
(*                                                                         *)
(* An edge is the pair <<from, to>> of the resources it joins: its id is   *)
(* the hash of the triple, so the triple is its identity, and its OpenFGA  *)
(* tuple is (resource:from, parent, resource:to).  Only "parent" edges are *)
(* modelled; other predicates never reach this code.                       *)
(*                                                                         *)
(* Time is abstracted: a pending row is either due (next_attempt reached   *)
(* and no lease in force) or not, and TimePasses makes it due, whether it  *)
(* is a backoff that elapsed or a lease that ran out under a slow worker.  *)
(***************************************************************************)
EXTENDS Integers, FiniteSets

CONSTANTS
  Edge,            \* parent edges, pairs of resources
  Deletable,       \* resources whose deletion is explored
  SyncFlags,       \* sync_authz values intakes ask for
  Worker,          \* worker processes running authzLoop
  Intake,          \* concurrent intake transactions that write an edge
  Deleter,         \* concurrent deletion sagas
  Gen,             \* rows with the same operation and edge that may coexist
  Batch,           \* Worker.Batch, rows claimed at once
  MaxAuthzAttempts,\* failures after which a row is dead
  ReconcileLimit,  \* edges one reconcile pass looks at (200 in the code)
  EdgeListLimit,   \* edges one deletion tombstones (1000 in the code)
  MaxFaults,       \* bound: OpenFGA errors and worker crashes in a behaviour
  NoEdge           \* "not looking at any edge"

ASSUME AuthzAssumption ==
  /\ IsFiniteSet(Edge)
  /\ SyncFlags \subseteq BOOLEAN
  /\ Gen \subseteq Nat
  /\ Batch \in Nat \ {0}
  /\ MaxAuthzAttempts \in Nat \ {0}
  /\ ReconcileLimit \in Nat
  /\ EdgeListLimit \in Nat
  /\ MaxFaults \in Nat
  /\ NoEdge \notin Edge

VARIABLES
  edge,      \* graph_edges: lifecycle state, sync flag and creation order
  outbox,    \* authz_tuple_outbox
  tuples,    \* the parent tuples stored in OpenFGA
  batch,     \* rows a worker has claimed and not yet tried
  cur,       \* the row a worker has tried and not yet marked
  intake,    \* an intake transaction between UpsertEdge's SELECT and COMMIT
  deleter,   \* a deletion transaction between ListEdges and COMMIT
  recon,     \* the reconciler's position
  faults,    \* OpenFGA errors and crashes so far
  requested, \* history: edges some committed intake asked to synchronise
  revoked    \* history: edges some committed deletion has tombstoned

vars == <<edge, outbox, tuples, batch, cur, intake, deleter, recon, faults,
          requested, revoked>>

Operation == {"write", "delete"}

(* A row's operation, object and subject never change, so they are part of *)
(* its id; the generation tells apart rows that were enqueued one after    *)
(* the other.                                                              *)
RowId == Operation \X Edge \X Gen
OpOf(r) == r[1]
EdgeOf(r) == r[2]

Row == [status : {"none", "pending", "applied", "dead"},
        attempts : Nat,
        due : BOOLEAN]

(* A claimed row as the worker remembers it: attempts may be stale by the  *)
(* time they are written back.                                             *)
Claimed == [id : RowId, attempts : Nat]

NoRow == [status |-> "none", attempts |-> 0, due |-> FALSE]

FreshRow == [status |-> "pending", attempts |-> 0, due |-> TRUE]

Active(e) == edge[e].state = "ACTIVE"

(* authzsync.NeedsSynchronization for a stored edge. *)
Needs(e) == Active(e) /\ edge[e].sync

-----------------------------------------------------------------------------
(* The outbox table *)

Pending(ob, op, e) == \E g \in Gen : ob[<<op, e, g>>].status = "pending"

Held(r) == \E w \in Worker : \/ \E c \in batch[w] : c.id = r
                             \/ \E c \in cur[w] : c.op.id = r

(* Rows are never deleted, but an applied row no worker holds is never     *)
(* read again, so its place can stand for a new row.  Dead rows stay: they *)
(* are counted by readiness.                                               *)
Reusable(r) == outbox[r].status \in {"none", "applied"} /\ ~Held(r)

(* Bound: a transaction that enqueues for e waits for a place.             *)
HasRoom(op, e) == \E g \in Gen : Reusable(<<op, e, g>>)

Place(op, e) == CHOOSE g \in Gen : Reusable(<<op, e, g>>)

(* INSERT ... ON CONFLICT DO NOTHING under the unique index on pending     *)
(* rows, for every edge of a set.                                          *)
Enqueue(op, es) ==
  /\ \A e \in es : Pending(outbox, op, e) \/ HasRoom(op, e)
  /\ outbox' = [r \in RowId |->
       IF /\ OpOf(r) = op
          /\ EdgeOf(r) \in es
          /\ ~Pending(outbox, op, EdgeOf(r))
          /\ r[3] = Place(op, EdgeOf(r))
       THEN FreshRow
       ELSE outbox[r]]

-----------------------------------------------------------------------------
(* Intake: writeEdges for one edge *)

(* UpsertEdge first looks for the active triple. *)
UpsertEdgeSelect(i, e, s) ==
  /\ intake[i] = {}
  /\ intake' = [intake EXCEPT ![i] = {[edge |-> e, sync |-> s,
                                       found |-> Active(e)]}]
  /\ UNCHANGED <<edge, outbox, tuples, batch, cur, deleter, recon, faults,
                 requested, revoked>>

(* Mutant: the write row is enqueued without asking NeedsSynchronization. *)
UpsertEdgeCommitUnasked(i) ==
  \E t \in intake[i] :
    /\ edge' = [edge EXCEPT ![t.edge] =
         [state |-> IF t.found THEN @.state ELSE "ACTIVE",
          sync  |-> t.sync, born |-> @.born]]
    /\ Enqueue("write", {t.edge})
    /\ requested' = IF t.sync THEN requested \cup {t.edge} ELSE requested
    /\ intake' = [intake EXCEPT ![i] = {}]
    /\ UNCHANGED <<tuples, batch, cur, deleter, recon, faults, revoked>>

(* Mutant: an intake that does not ask for inheritance enqueues a delete. *)
UpsertEdgeCommitUnsync(i) ==
  \E t \in intake[i] :
    /\ edge' = [edge EXCEPT ![t.edge] =
         [state |-> IF t.found THEN @.state ELSE "ACTIVE",
          sync  |-> t.sync, born |-> @.born]]
    /\ Enqueue(IF t.sync THEN "write" ELSE "delete", {t.edge})
    /\ requested' = IF t.sync THEN requested \cup {t.edge} ELSE requested
    /\ intake' = [intake EXCEPT ![i] = {}]
    /\ UNCHANGED <<tuples, batch, cur, deleter, recon, faults, revoked>>

(* ... then updates the row it found, by id and whatever its state is now, *)
(* or inserts (reviving a tombstoned row with the same id); EnqueueForEdge *)
(* follows in the same transaction.                                        *)
UpsertEdgeCommit(i) ==
  \E t \in intake[i] :
    /\ edge' = [edge EXCEPT ![t.edge] =
         [state |-> IF t.found THEN @.state ELSE "ACTIVE",
          sync  |-> t.sync,
          born  |-> IF @.state = "NONE"
                    THEN Cardinality({e \in Edge : edge[e].state # "NONE"})
                    ELSE @.born]]
    /\ IF t.sync THEN Enqueue("write", {t.edge}) ELSE UNCHANGED outbox
    /\ requested' = IF t.sync THEN requested \cup {t.edge} ELSE requested
    /\ intake' = [intake EXCEPT ![i] = {}]
    /\ UNCHANGED <<tuples, batch, cur, deleter, recon, faults, revoked>>

-----------------------------------------------------------------------------
(* Deletion saga: the part of its transaction that concerns edges *)

Incident(res) == {e \in Edge : res \in {e[1], e[2]}}

(* ListEdges runs on its own connection: what it returns may be stale when *)
(* the transaction acts on it.                                             *)
DeleteListEdges(d, res) ==
  /\ deleter[d] = {}
  /\ \E es \in SUBSET {e \in Incident(res) : Active(e)} :
       /\ es # {}
       /\ \/ es = {e \in Incident(res) : Active(e)}
             /\ Cardinality(es) <= EdgeListLimit
          \/ Cardinality(es) = EdgeListLimit
       /\ deleter' = [deleter EXCEPT ![d] =
                        {[edge |-> e, sync |-> edge[e].sync] : e \in es}]
  /\ UNCHANGED <<edge, outbox, tuples, batch, cur, intake, recon, faults,
                 requested, revoked>>

(* TombstoneEdge for every listed edge, and a delete row for those that    *)
(* were listed as synchronised.                                            *)
DeleteCommit(d) ==
  LET listed == {t.edge : t \in deleter[d]}
      synced == {t.edge : t \in {u \in deleter[d] : u.sync}}
  IN /\ deleter[d] # {}
     /\ edge' = [e \in Edge |-> IF e \in listed
                                THEN [edge[e] EXCEPT !.state = "TOMBSTONED"]
                                ELSE edge[e]]
     /\ Enqueue("delete", synced)
     /\ revoked' = revoked \cup listed
     /\ deleter' = [deleter EXCEPT ![d] = {}]
     /\ UNCHANGED <<tuples, batch, cur, intake, recon, faults, requested>>

-----------------------------------------------------------------------------
(* authzOnce *)

Due == {r \in RowId : outbox[r].status = "pending" /\ outbox[r].due}

(* claim_authz_tuple_outbox: the due rows, at most Batch of them, leased.  *)
(* Their order in the batch is not specified by the query.                 *)
ClaimAuthzTuples(w) ==
  /\ batch[w] = {} /\ cur[w] = {}
  /\ \E rs \in SUBSET Due :
       /\ rs # {}
       /\ \/ rs = Due /\ Cardinality(rs) <= Batch
          \/ Cardinality(rs) = Batch
       /\ batch' = [batch EXCEPT ![w] =
                      {[id |-> r, attempts |-> outbox[r].attempts] : r \in rs}]
       /\ outbox' = [r \in RowId |-> IF r \in rs
                                     THEN [outbox[r] EXCEPT !.due = FALSE]
                                     ELSE outbox[r]]
  /\ UNCHANGED <<edge, tuples, cur, intake, deleter, recon, faults, requested,
                 revoked>>

(* OpenFGA's state after a write or delete; writing a tuple that exists    *)
(* and deleting one that does not count as success.                        *)
Mutated(r) ==
  IF OpOf(r) = "delete" THEN tuples \ {EdgeOf(r)} ELSE tuples \cup {EdgeOf(r)}

ApplyOk(w) ==
  \E c \in batch[w] :
    /\ cur[w] = {}
    /\ tuples' = Mutated(c.id)
    /\ cur' = [cur EXCEPT ![w] = {[op |-> c, ok |-> TRUE]}]
    /\ batch' = [batch EXCEPT ![w] = @ \ {c}]
    /\ UNCHANGED <<edge, outbox, intake, deleter, recon, faults, requested,
                   revoked>>

(* Mutant: the error is swallowed and the row goes on to be marked applied. *)
ApplyErrorSwallowed(w) ==
  \E c \in batch[w] :
    /\ cur[w] = {}
    /\ faults < MaxFaults
    /\ faults' = faults + 1
    /\ tuples' \in {tuples, Mutated(c.id)}
    /\ cur' = [cur EXCEPT ![w] = {[op |-> c, ok |-> TRUE]}]
    /\ batch' = [batch EXCEPT ![w] = @ \ {c}]
    /\ UNCHANGED <<edge, outbox, intake, deleter, recon, requested, revoked>>

(* The call failed; it may have taken effect all the same (a lost reply).  *)
ApplyError(w) ==
  \E c \in batch[w] :
    /\ cur[w] = {}
    /\ faults < MaxFaults
    /\ faults' = faults + 1
    /\ tuples' \in {tuples, Mutated(c.id)}
    /\ cur' = [cur EXCEPT ![w] = {[op |-> c, ok |-> FALSE]}]
    /\ batch' = [batch EXCEPT ![w] = @ \ {c}]
    /\ UNCHANGED <<edge, outbox, intake, deleter, recon, requested, revoked>>

(* mark_authz_tuple_applied: by id, whatever the row's status is. *)
MarkAuthzTupleApplied(w) ==
  \E c \in cur[w] :
    /\ c.ok
    /\ outbox' = [outbox EXCEPT ![c.op.id] =
                    [@ EXCEPT !.status = "applied", !.due = FALSE]]
    /\ cur' = [cur EXCEPT ![w] = {}]
    /\ UNCHANGED <<edge, tuples, batch, intake, deleter, recon, faults,
                   requested, revoked>>

(* mark_authz_tuple_failed: by id too, so it can bring an applied or dead  *)
(* row back; the unique index refuses that when another row for the same   *)
(* tuple is pending, and the worker ignores the error.                     *)
MarkAuthzTupleFailed(w) ==
  \E c \in cur[w] :
    LET r == c.op.id
        n == c.op.attempts + 1
        refused == \E g \in Gen \ {r[3]} :
                     outbox[<<r[1], r[2], g>>].status = "pending"
    IN /\ ~c.ok
       /\ outbox' = IF n >= MaxAuthzAttempts
                    THEN [outbox EXCEPT ![r] = [status |-> "dead",
                                                attempts |-> n, due |-> FALSE]]
                    ELSE IF refused
                    THEN outbox
                    ELSE [outbox EXCEPT ![r] = [status |-> "pending",
                                                attempts |-> n, due |-> FALSE]]
       /\ cur' = [cur EXCEPT ![w] = {}]
       /\ UNCHANGED <<edge, tuples, batch, intake, deleter, recon, faults,
                      requested, revoked>>

(* The worker process dies; its leases stay until they run out. *)
WorkerCrash(w) ==
  /\ batch[w] # {} \/ cur[w] # {}
  /\ faults < MaxFaults
  /\ faults' = faults + 1
  /\ batch' = [batch EXCEPT ![w] = {}]
  /\ cur' = [cur EXCEPT ![w] = {}]
  /\ UNCHANGED <<edge, outbox, tuples, intake, deleter, recon, requested,
                 revoked>>

(* Mutant: leases never run out, only backoffs elapse. *)
BackoffElapses(r) ==
  /\ outbox[r].status = "pending" /\ ~outbox[r].due
  /\ outbox[r].attempts > 0
  /\ outbox' = [outbox EXCEPT ![r] = [@ EXCEPT !.due = TRUE]]
  /\ UNCHANGED <<edge, tuples, batch, cur, intake, deleter, recon, faults,
                 requested, revoked>>

(* A lease runs out or a backoff elapses. *)
TimePasses(r) ==
  /\ outbox[r].status = "pending" /\ ~outbox[r].due
  /\ outbox' = [outbox EXCEPT ![r] = [@ EXCEPT !.due = TRUE]]
  /\ UNCHANGED <<edge, tuples, batch, cur, intake, deleter, recon, faults,
                 requested, revoked>>

-----------------------------------------------------------------------------
(* reconcileOnce *)

Idle == [todo |-> {}, at |-> NoEdge, step |-> "next"]

(* list_active_parent_edges_needing_authz: oldest first, up to the limit. *)
OldestNeeding ==
  {e \in Edge : /\ Needs(e)
                /\ Cardinality({f \in Edge : Needs(f) /\ edge[f].born < edge[e].born})
                     < ReconcileLimit}

ReconcileList ==
  /\ recon = Idle
  /\ recon' = [Idle EXCEPT !.todo = OldestNeeding]
  /\ UNCHANGED <<edge, outbox, tuples, batch, cur, intake, deleter, faults,
                 requested, revoked>>

(* Mutant: a dead row counts as work in progress. *)
ReconcilePendingOrDead(e) ==
  /\ recon.step = "next" /\ e \in recon.todo
  /\ recon' = IF \E g \in Gen : outbox[<<"write", e, g>>].status
                                 \in {"pending", "dead"}
              THEN [recon EXCEPT !.todo = @ \ {e}]
              ELSE [todo |-> recon.todo \ {e}, at |-> e, step |-> "inspect"]
  /\ UNCHANGED <<edge, outbox, tuples, batch, cur, intake, deleter, faults,
                 requested, revoked>>

(* HasAuthzTuplePending *)
ReconcilePending(e) ==
  /\ recon.step = "next" /\ e \in recon.todo
  /\ recon' = IF Pending(outbox, "write", e)
              THEN [recon EXCEPT !.todo = @ \ {e}]
              ELSE [todo |-> recon.todo \ {e}, at |-> e, step |-> "inspect"]
  /\ UNCHANGED <<edge, outbox, tuples, batch, cur, intake, deleter, faults,
                 requested, revoked>>

(* RelationshipInspector.HasTuple *)
ReconcileInspect ==
  /\ recon.step = "inspect"
  /\ recon' = IF recon.at \in tuples
              THEN [recon EXCEPT !.at = NoEdge, !.step = "next"]
              ELSE [recon EXCEPT !.step = "enqueue"]
  /\ UNCHANGED <<edge, outbox, tuples, batch, cur, intake, deleter, faults,
                 requested, revoked>>

(* HasTuple fails: the pass returns with the error. *)
ReconcileError ==
  /\ recon.step = "inspect"
  /\ faults < MaxFaults
  /\ faults' = faults + 1
  /\ recon' = Idle
  /\ UNCHANGED <<edge, outbox, tuples, batch, cur, intake, deleter, requested,
                 revoked>>

(* EnqueueForEdge with the edge as it was listed, in a transaction of its  *)
(* own.                                                                    *)
ReconcileEnqueue ==
  /\ recon.step = "enqueue"
  /\ Enqueue("write", {recon.at})
  /\ recon' = [recon EXCEPT !.at = NoEdge, !.step = "next"]
  /\ UNCHANGED <<edge, tuples, batch, cur, intake, deleter, faults, requested,
                 revoked>>

-----------------------------------------------------------------------------
Init ==
  /\ edge = [e \in Edge |-> [state |-> "NONE", sync |-> FALSE, born |-> 0]]
  /\ outbox = [r \in RowId |-> NoRow]
  /\ tuples = {}
  /\ batch = [w \in Worker |-> {}]
  /\ cur = [w \in Worker |-> {}]
  /\ intake = [i \in Intake |-> {}]
  /\ deleter = [d \in Deleter |-> {}]
  /\ recon = Idle
  /\ faults = 0
  /\ requested = {}
  /\ revoked = {}

WorkerStep(w) ==
  \/ ClaimAuthzTuples(w) \/ ApplyOk(w) \/ ApplyError(w)
  \/ MarkAuthzTupleApplied(w) \/ MarkAuthzTupleFailed(w)

ReconcileStep ==
  \/ ReconcileList \/ ReconcileInspect \/ ReconcileError \/ ReconcileEnqueue
  \/ \E e \in Edge : ReconcilePending(e)

Next ==
  \/ \E i \in Intake, e \in Edge, s \in SyncFlags : UpsertEdgeSelect(i, e, s)
  \/ \E i \in Intake : UpsertEdgeCommit(i)
  \/ \E d \in Deleter, res \in Deletable : DeleteListEdges(d, res)
  \/ \E d \in Deleter : DeleteCommit(d)
  \/ \E w \in Worker : WorkerStep(w) \/ WorkerCrash(w)
  \/ \E r \in RowId : TimePasses(r)
  \/ ReconcileStep

Spec == Init /\ [][Next]_vars

(* The loops tick forever and a transaction that has begun ends; nothing   *)
(* obliges a client to write or delete, OpenFGA to fail, or a worker to    *)
(* crash.                                                                  *)
Fairness ==
  /\ \A w \in Worker : WF_vars(WorkerStep(w))
  /\ \A r \in RowId : WF_vars(TimePasses(r))
  /\ WF_vars(ReconcileStep)
  /\ \A i \in Intake : WF_vars(UpsertEdgeCommit(i))
  /\ \A d \in Deleter : WF_vars(DeleteCommit(d))

FairSpec == Spec /\ Fairness

-----------------------------------------------------------------------------
(* Properties *)

TypeOK ==
  /\ edge \in [Edge -> [state : {"NONE", "ACTIVE", "TOMBSTONED"},
                        sync : BOOLEAN, born : Nat]]
  /\ outbox \in [RowId -> Row]
  /\ tuples \subseteq Edge
  /\ batch \in [Worker -> SUBSET Claimed]
  /\ cur \in [Worker -> SUBSET [op : Claimed, ok : BOOLEAN]]
  /\ intake \in [Intake -> SUBSET [edge : Edge, sync : BOOLEAN, found : BOOLEAN]]
  /\ deleter \in [Deleter -> SUBSET [edge : Edge, sync : BOOLEAN]]
  /\ recon \in [todo : SUBSET Edge, at : Edge \cup {NoEdge},
                step : {"next", "inspect", "enqueue"}]
  /\ recon.step # "next" => recon.at \in Edge
  /\ faults \in 0..MaxFaults
  /\ requested \subseteq Edge
  /\ revoked \subseteq Edge

(* ACL non-broadening (EnqueueForEdge's opt-in): OpenFGA holds an          *)
(* inheritance tuple only for an edge that some committed intake asked to  *)
(* synchronise, whatever retries, crashes and reconciliations happened.    *)
TupleRequested == tuples \subseteq requested

(* The transactional outbox leaves no gap: an active synchronised edge     *)
(* that no deletion ever touched has its tuple, or a pending row that will *)
(* write it, or a dead row that readiness reports.                         *)
OutboxCoversEdge ==
  \A e \in Edge \ revoked :
    Needs(e) => \/ e \in tuples
                \/ \E g \in Gen : outbox[<<"write", e, g>>].status
                                    \in {"pending", "dead"}

(* The worker never takes inheritance away on its own: a tuple disappears  *)
(* only for an edge that a committed deletion tombstoned.                  *)
RemovedOnlyIfRevoked ==
  [][\A e \in tuples \ tuples' : e \in revoked]_vars

(* Why the three properties above survive stale reads: everything in       *)
(* flight is justified.  A write row, a claimed copy of one, an edge the   *)
(* reconciler listed and a stored sync flag all go back to an accepted     *)
(* request; a delete row or copy goes back to a committed deletion; and a  *)
(* write reported as done has its tuple unless the edge was revoked.  This *)
(* is the inductive strengthening the proofs use.                          *)
Justified(r) == /\ OpOf(r) = "write" => EdgeOf(r) \in requested
                /\ OpOf(r) = "delete" => EdgeOf(r) \in revoked

InFlightJustified ==
  /\ \A e \in Edge : edge[e].sync => e \in requested
  /\ recon.todo \subseteq requested
  /\ recon.at \in requested \cup {NoEdge}
  /\ \A r \in RowId : outbox[r].status # "none" => Justified(r)
  /\ \A w \in Worker : \A c \in batch[w] : Justified(c.id)
  /\ \A w \in Worker : \A c \in cur[w] :
       /\ Justified(c.op.id)
       /\ c.ok /\ OpOf(c.op.id) = "write" /\ EdgeOf(c.op.id) \notin revoked
            => EdgeOf(c.op.id) \in tuples

(* Retries, lease takeovers and reconciliation converge: once an edge      *)
(* stays active and synchronised, its tuple is there for good, even after  *)
(* a dead letter or a delete applied late.  (ADR 0014, consequences: "No   *)
(* accepted parent edge can permanently diverge from its required OpenFGA  *)
(* tuple without operator-visible lag"; with lag it does not either.)      *)
ActiveEdgeConverges ==
  \A e \in Edge : <>[]Needs(e) => <>[](e \in tuples)

(* Every pending row is dealt with: no row is claimed and forgotten, by a  *)
(* crash or otherwise.                                                     *)
OutboxDrains ==
  \A r \in RowId : outbox[r].status = "pending"
                     ~> outbox[r].status # "pending"

(* ADR 0014, decision 5: "Tombstoning a knowledge parent edge enqueues a   *)
(* delete tuple operation so inheritance is revoked."                      *)
RevokedEdgeLosesTuple ==
  \A e \in Edge : <>[](edge[e].state = "TOMBSTONED") => <>[](e \notin tuples)
=============================================================================
