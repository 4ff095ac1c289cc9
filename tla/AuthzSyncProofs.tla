-------------------------- MODULE AuthzSyncProofs --------------------------
(***************************************************************************)
(* Proofs about AuthzSync, for any number of edges, workers, intakes,      *)
(* deletions, faults and any limits.                                       *)
(***************************************************************************)
EXTENDS AuthzSync, FiniteSetTheorems, TLAPS

-----------------------------------------------------------------------------
(* Facts about the outbox *)

(* The number of edges created so far is a natural number, so it can be    *)
(* the creation order of the next one.                                     *)
LEMMA BornIsNat ==
  Cardinality({e \in Edge : edge[e].state # "NONE"}) \in Nat
BY AuthzAssumption, FS_Subset, FS_CardinalityType

(* EnqueueAuthzTuple (INSERT ... ON CONFLICT DO NOTHING): afterwards every *)
(* key of the set has a pending row, and the only rows it changed are      *)
(* fresh pending rows for those keys, put where nothing pending, dead or   *)
(* held by a worker was.                                                   *)
LEMMA EnqueueFacts ==
  ASSUME TypeOK, NEW op \in Operation, NEW es \in SUBSET Edge, Enqueue(op, es)
  PROVE  /\ outbox' \in [RowId -> Row]
         /\ \A e \in es : \E g \in Gen : outbox'[<<op, e, g>>].status = "pending"
         /\ \A r \in RowId :
              \/ outbox'[r] = outbox[r]
              \/ /\ outbox'[r].status = "pending"
                 /\ OpOf(r) = op /\ EdgeOf(r) \in es
                 /\ outbox[r].status \in {"none", "applied"}
<1>1. FreshRow \in Row /\ FreshRow.status = "pending"
  BY DEF FreshRow, Row
<1>2. outbox' \in [RowId -> Row]
  BY <1>1 DEF Enqueue, TypeOK
<1>3. ASSUME NEW e \in es, ~Pending(outbox, op, e)
      PROVE  /\ Place(op, e) \in Gen
             /\ Reusable(<<op, e, Place(op, e)>>)
  BY <1>3 DEF Enqueue, HasRoom, Place
<1>4. ASSUME NEW e \in es
      PROVE  \E g \in Gen : outbox'[<<op, e, g>>].status = "pending"
  <2>1. \A g \in Gen : <<op, e, g>> \in RowId
    BY DEF RowId
  <2>2. CASE Pending(outbox, op, e)
    <3>1. PICK g \in Gen : outbox[<<op, e, g>>].status = "pending"
      BY <2>2 DEF Pending
    <3>2. outbox'[<<op, e, g>>] = outbox[<<op, e, g>>]
      BY <2>1, <2>2 DEF Enqueue, OpOf, EdgeOf
    <3>3. QED BY <3>1, <3>2
  <2>3. CASE ~Pending(outbox, op, e)
    <3>1. outbox'[<<op, e, Place(op, e)>>] = FreshRow
      BY <2>1, <2>3, <1>3 DEF Enqueue, OpOf, EdgeOf
    <3>2. QED BY <3>1, <1>1, <1>3, <2>3
  <2>4. QED BY <2>2, <2>3
<1>5. ASSUME NEW r \in RowId, outbox'[r] # outbox[r]
      PROVE  /\ outbox'[r].status = "pending"
             /\ OpOf(r) = op /\ EdgeOf(r) \in es
             /\ outbox[r].status \in {"none", "applied"}
  <2>1. /\ OpOf(r) = op
        /\ EdgeOf(r) \in es
        /\ ~Pending(outbox, op, EdgeOf(r))
        /\ r[3] = Place(op, EdgeOf(r))
        /\ outbox'[r] = FreshRow
    BY <1>5 DEF Enqueue
  <2>2. r = <<op, EdgeOf(r), Place(op, EdgeOf(r))>>
    BY <2>1 DEF RowId, OpOf, EdgeOf
  <2>3. Reusable(r)
    BY <2>1, <2>2, <1>3
  <2>4. QED BY <2>1, <2>3, <1>1 DEF Reusable
<1>6. QED BY <1>2, <1>4, <1>5

-----------------------------------------------------------------------------
(* Type correctness *)

(* Spec keeps every variable in its type: in particular a worker's stale   *)
(* attempts count is never written back outside its range, and the         *)
(* reconciler always has an edge when it inspects or enqueues.             *)
THEOREM TypeCorrect == Spec => []TypeOK
<1>1. Init => TypeOK
  BY AuthzAssumption DEF Init, TypeOK, Idle, NoRow, Row
<1>2. TypeOK /\ [Next]_vars => TypeOK'
  <2> SUFFICES ASSUME TypeOK, [Next]_vars
               PROVE  TypeOK'
    OBVIOUS
  <2>1. ASSUME NEW i \in Intake, NEW e \in Edge, NEW s \in SyncFlags,
               UpsertEdgeSelect(i, e, s)
        PROVE  TypeOK'
    BY <2>1, AuthzAssumption DEF UpsertEdgeSelect, Active, TypeOK
  <2>2. ASSUME NEW i \in Intake, UpsertEdgeCommit(i)
        PROVE  TypeOK'
    <3>1. PICK t \in intake[i] : UpsertEdgeCommit(i)!(t)
      BY <2>2 DEF UpsertEdgeCommit
    <3>2. t \in [edge : Edge, sync : BOOLEAN, found : BOOLEAN]
      BY DEF TypeOK
    <3>3. edge' \in [Edge -> [state : {"NONE", "ACTIVE", "TOMBSTONED"},
                              sync : BOOLEAN, born : Nat]]
      BY <3>1, <3>2, BornIsNat DEF TypeOK
    <3>4. outbox' \in [RowId -> Row]
      <4>1. CASE t.sync
        BY <4>1, <3>1, <3>2, EnqueueFacts DEF Operation
      <4>2. CASE ~t.sync
        BY <4>2, <3>1 DEF TypeOK
      <4>3. QED BY <4>1, <4>2
    <3>5. QED BY <3>1, <3>2, <3>3, <3>4 DEF TypeOK
  <2>3. ASSUME NEW d \in Deleter, NEW res \in Deletable, DeleteListEdges(d, res)
        PROVE  TypeOK'
    <3>1. PICK es \in SUBSET Edge :
            deleter' = [deleter EXCEPT ![d] =
                          {[edge |-> e, sync |-> edge[e].sync] : e \in es}]
      BY <2>3 DEF DeleteListEdges, Incident
    <3>2. {[edge |-> e, sync |-> edge[e].sync] : e \in es}
            \subseteq [edge : Edge, sync : BOOLEAN]
      BY DEF TypeOK
    <3>3. QED BY <2>3, <3>1, <3>2 DEF DeleteListEdges, TypeOK
  <2>4. ASSUME NEW d \in Deleter, DeleteCommit(d)
        PROVE  TypeOK'
    <3>1. /\ {t.edge : t \in deleter[d]} \subseteq Edge
          /\ {t.edge : t \in {u \in deleter[d] : u.sync}} \subseteq Edge
      BY DEF TypeOK
    <3>2. outbox' \in [RowId -> Row]
      BY <2>4, <3>1, EnqueueFacts DEF DeleteCommit, Operation
    <3>3. QED BY <2>4, <3>1, <3>2 DEF DeleteCommit, TypeOK
  <2>5. ASSUME NEW w \in Worker, ClaimAuthzTuples(w)
        PROVE  TypeOK'
    <3>1. PICK rs \in SUBSET RowId :
            /\ batch' = [batch EXCEPT ![w] =
                 {[id |-> r, attempts |-> outbox[r].attempts] : r \in rs}]
            /\ outbox' = [r \in RowId |-> IF r \in rs
                                     THEN [outbox[r] EXCEPT !.due = FALSE]
                                     ELSE outbox[r]]
      BY <2>5 DEF ClaimAuthzTuples, Due
    <3>2. {[id |-> r, attempts |-> outbox[r].attempts] : r \in rs}
            \subseteq Claimed
      BY DEF TypeOK, Claimed, Row
    <3>3. outbox' \in [RowId -> Row]
      BY <3>1 DEF TypeOK, Row
    <3>4. QED BY <2>5, <3>1, <3>2, <3>3 DEF ClaimAuthzTuples, TypeOK
  <2>6. ASSUME NEW w \in Worker, ApplyOk(w) \/ ApplyError(w)
        PROVE  TypeOK'
    <3>1. ASSUME NEW c \in batch[w]
          PROVE  c \in Claimed /\ Mutated(c.id) \subseteq Edge
      BY DEF TypeOK, Claimed, RowId, EdgeOf, Mutated
    <3>2. CASE ApplyOk(w)
      BY <3>1, <3>2 DEF ApplyOk, TypeOK
    <3>3. CASE ApplyError(w)
      BY <3>1, <3>3, AuthzAssumption DEF ApplyError, TypeOK
    <3>4. QED BY <2>6, <3>2, <3>3
  <2>7. ASSUME NEW w \in Worker, MarkAuthzTupleApplied(w)
        PROVE  TypeOK'
    <3>1. PICK c \in cur[w] :
            outbox' = [outbox EXCEPT ![c.op.id] =
                         [@ EXCEPT !.status = "applied", !.due = FALSE]]
      BY <2>7 DEF MarkAuthzTupleApplied
    <3>2. outbox' \in [RowId -> Row]
      BY <3>1 DEF TypeOK, Claimed, Row
    <3>3. QED BY <2>7, <3>2 DEF MarkAuthzTupleApplied, TypeOK
  <2>8. ASSUME NEW w \in Worker, MarkAuthzTupleFailed(w)
        PROVE  TypeOK'
    BY <2>8 DEF MarkAuthzTupleFailed, TypeOK, Claimed, Row
  <2>9. ASSUME NEW w \in Worker, WorkerCrash(w)
        PROVE  TypeOK'
    BY <2>9, AuthzAssumption DEF WorkerCrash, TypeOK
  <2>10. ASSUME NEW r \in RowId, TimePasses(r)
         PROVE  TypeOK'
    BY <2>10 DEF TimePasses, TypeOK, Row
  <2>11. CASE ReconcileList
    BY <2>11 DEF ReconcileList, OldestNeeding, Idle, TypeOK
  <2>12. ASSUME NEW e \in Edge, ReconcilePending(e)
         PROVE  TypeOK'
    BY <2>12 DEF ReconcilePending, TypeOK
  <2>13. CASE ReconcileInspect
    BY <2>13 DEF ReconcileInspect, TypeOK
  <2>14. CASE ReconcileError
    BY <2>14, AuthzAssumption DEF ReconcileError, Idle, TypeOK
  <2>15. CASE ReconcileEnqueue
    <3>1. outbox' \in [RowId -> Row]
      BY <2>15, EnqueueFacts DEF ReconcileEnqueue, Operation, TypeOK
    <3>2. QED BY <2>15, <3>1 DEF ReconcileEnqueue, TypeOK
  <2>16. CASE UNCHANGED vars
    BY <2>16 DEF vars, TypeOK
  <2>17. QED
    BY <2>1, <2>2, <2>3, <2>4, <2>5, <2>6, <2>7, <2>8, <2>9, <2>10, <2>11,
       <2>12, <2>13, <2>14, <2>15, <2>16
    DEF Next, WorkerStep, ReconcileStep
<1>3. QED BY <1>1, <1>2, PTL DEF Spec

-----------------------------------------------------------------------------
(* Safety *)

(* What is claimed of the core: the two safety invariants and the          *)
(* strengthening that makes them inductive.                                *)
SafetyInv == TupleRequested /\ OutboxCoversEdge /\ InFlightJustified

(* A transaction that enqueues writes for requested edges, or deletes for  *)
(* revoked ones, leaves only justified rows.                               *)
LEMMA EnqueueJustified ==
  ASSUME TypeOK, InFlightJustified, NEW op \in Operation,
         NEW es \in SUBSET Edge, Enqueue(op, es),
         requested \subseteq requested', revoked \subseteq revoked',
         op = "write" => es \subseteq requested',
         op = "delete" => es \subseteq revoked'
  PROVE  \A r \in RowId : outbox'[r].status # "none" => Justified(r)'
BY EnqueueFacts DEF InFlightJustified, Justified

(* Neither an enqueue nor a lease or backoff takes a pending or dead row   *)
(* away, so what covered an edge still does.                               *)
LEMMA EnqueueKeepsCover ==
  ASSUME TypeOK, NEW op \in Operation, NEW es \in SUBSET Edge,
         Enqueue(op, es), NEW r \in RowId,
         outbox[r].status \in {"pending", "dead"}
  PROVE  outbox'[r].status \in {"pending", "dead"}
BY EnqueueFacts

(* Every step keeps the invariant.                                         *)
LEMMA SafetyStep ==
  ASSUME TypeOK, TypeOK', SafetyInv, [Next]_vars
  PROVE  SafetyInv'
<1> USE DEF SafetyInv
<1>0. \A e \in Edge, g \in Gen : <<"write", e, g>> \in RowId
  BY DEF RowId, Operation
<1>1. ASSUME NEW i \in Intake, NEW e \in Edge, NEW s \in SyncFlags,
             UpsertEdgeSelect(i, e, s)
      PROVE  SafetyInv'
  BY <1>1 DEF UpsertEdgeSelect, TupleRequested, OutboxCoversEdge, Needs,
              Active, InFlightJustified, Justified
<1>2. ASSUME NEW i \in Intake, UpsertEdgeCommit(i)
      PROVE  SafetyInv'
  <2>1. PICK t \in intake[i] : UpsertEdgeCommit(i)!(t)
    BY <1>2 DEF UpsertEdgeCommit
  <2>2. t.edge \in Edge /\ t.sync \in BOOLEAN
    BY DEF TypeOK
  <2>3. \A r \in RowId : outbox'[r].status # "none" => Justified(r)'
    <3>1. CASE t.sync
      BY <3>1, <2>1, <2>2, EnqueueJustified DEF Operation
    <3>2. CASE ~t.sync
      BY <3>2, <2>1 DEF InFlightJustified, Justified
    <3>3. QED BY <3>1, <3>2
  <2>4. ASSUME NEW e \in Edge, edge'[e].sync
        PROVE  e \in requested'
    BY <2>1, <2>2, <2>4 DEF InFlightJustified, TypeOK
  <2>5. InFlightJustified'
    BY <2>1, <2>3, <2>4 DEF InFlightJustified, Justified
  <2>6. ASSUME NEW e \in Edge \ revoked', Needs(e)', e \notin tuples'
        PROVE  \E g \in Gen : outbox'[<<"write", e, g>>].status
                                \in {"pending", "dead"}
    <3>1. CASE e = t.edge
      <4>1. t.sync
        BY <2>1, <2>2, <2>6, <3>1 DEF Needs, TypeOK
      <4>2. Enqueue("write", {t.edge})
        BY <4>1, <2>1
      <4>3. {t.edge} \in SUBSET Edge /\ "write" \in Operation
        BY <2>2 DEF Operation
      <4>4. \A x \in {t.edge} : \E g \in Gen :
              outbox'[<<"write", x, g>>].status = "pending"
        BY <4>2, <4>3, EnqueueFacts
      <4>5. QED BY <4>4, <3>1
    <3>2. CASE e # t.edge
      <4>1. Needs(e) /\ e \notin revoked /\ e \notin tuples
        BY <2>1, <2>2, <2>6, <3>2 DEF Needs, Active, TypeOK
      <4>2. PICK g \in Gen : outbox[<<"write", e, g>>].status
                               \in {"pending", "dead"}
        BY <4>1 DEF OutboxCoversEdge
      <4>3. outbox'[<<"write", e, g>>].status \in {"pending", "dead"}
        BY <4>2, <2>1, <2>2, <1>0, EnqueueKeepsCover DEF Operation
      <4>4. QED BY <4>3
    <3>3. QED BY <3>1, <3>2
  <2>7. QED
    BY <2>1, <2>5, <2>6 DEF TupleRequested, OutboxCoversEdge
<1>3. ASSUME NEW d \in Deleter, NEW res \in Deletable, DeleteListEdges(d, res)
      PROVE  SafetyInv'
  BY <1>3 DEF DeleteListEdges, TupleRequested, OutboxCoversEdge, Needs,
              Active, InFlightJustified, Justified
<1>4. ASSUME NEW d \in Deleter, DeleteCommit(d)
      PROVE  SafetyInv'
  <2> DEFINE listed == {t.edge : t \in deleter[d]}
             synced == {t.edge : t \in {u \in deleter[d] : u.sync}}
  <2>1. synced \subseteq listed /\ listed \subseteq Edge
    BY DEF TypeOK
  <2>2. /\ Enqueue("delete", synced)
        /\ revoked' = revoked \cup listed
        /\ edge' = [e \in Edge |-> IF e \in listed
                                   THEN [edge[e] EXCEPT !.state = "TOMBSTONED"]
                                   ELSE edge[e]]
        /\ UNCHANGED <<tuples, batch, cur, intake, recon, faults, requested>>
    BY <1>4 DEF DeleteCommit
  <2> HIDE DEF listed, synced
  <2>3. \A r \in RowId : outbox'[r].status # "none" => Justified(r)'
    BY <2>1, <2>2, EnqueueJustified DEF Operation
  <2>4. \A e \in Edge : edge'[e].sync => e \in requested'
    BY <2>2 DEF InFlightJustified, TypeOK
  <2>5. InFlightJustified'
    BY <2>2, <2>3, <2>4 DEF InFlightJustified, Justified
  <2>6. ASSUME NEW e \in Edge \ revoked', Needs(e)', e \notin tuples'
        PROVE  \E g \in Gen : outbox'[<<"write", e, g>>].status
                                \in {"pending", "dead"}
    <3>1. Needs(e) /\ e \notin revoked /\ e \notin tuples
      BY <2>2, <2>6 DEF Needs, Active
    <3>2. PICK g \in Gen : outbox[<<"write", e, g>>].status
                             \in {"pending", "dead"}
      BY <3>1 DEF OutboxCoversEdge
    <3>3. outbox'[<<"write", e, g>>].status \in {"pending", "dead"}
      BY <3>2, <2>1, <2>2, <1>0, EnqueueKeepsCover DEF Operation
    <3>4. QED BY <3>3
  <2>7. QED BY <2>2, <2>5, <2>6 DEF TupleRequested, OutboxCoversEdge
<1>5. ASSUME NEW w \in Worker, ClaimAuthzTuples(w)
      PROVE  SafetyInv'
  <2>1. PICK rs \in SUBSET Due :
          /\ batch' = [batch EXCEPT ![w] =
               {[id |-> r, attempts |-> outbox[r].attempts] : r \in rs}]
          /\ outbox' = [r \in RowId |-> IF r \in rs
                                   THEN [outbox[r] EXCEPT !.due = FALSE]
                                   ELSE outbox[r]]
    BY <1>5 DEF ClaimAuthzTuples
  <2>2. UNCHANGED <<edge, tuples, cur, intake, deleter, recon, faults,
                    requested, revoked>>
    BY <1>5 DEF ClaimAuthzTuples
  <2>3. \A r \in RowId : outbox'[r].status = outbox[r].status
    BY <2>1 DEF TypeOK, Row
  <2>4. \A v \in Worker : \A c \in batch'[v] : Justified(c.id)
    BY <2>1 DEF Due, InFlightJustified, TypeOK
  <2>5. InFlightJustified'
    BY <2>2, <2>3, <2>4 DEF InFlightJustified, Justified
  <2>6. QED
    BY <2>2, <2>3, <2>5, <1>0 DEF TupleRequested, OutboxCoversEdge, Needs, Active
<1>6. ASSUME NEW w \in Worker, ApplyOk(w) \/ ApplyError(w)
      PROVE  SafetyInv'
  <2>1. PICK c \in batch[w], ok \in BOOLEAN :
          /\ tuples' \in {tuples, Mutated(c.id)}
          /\ ok => tuples' = Mutated(c.id)
          /\ cur' = [cur EXCEPT ![w] = {[op |-> c, ok |-> ok]}]
          /\ batch' = [batch EXCEPT ![w] = @ \ {c}]
          /\ UNCHANGED <<edge, outbox, intake, deleter, recon, requested,
                         revoked>>
    <3>1. CASE ApplyOk(w)   BY <3>1, Zenon DEF ApplyOk
    <3>2. CASE ApplyError(w)  BY <3>2, Zenon DEF ApplyError
    <3>3. QED BY <1>6, <3>1, <3>2
  <2>2. c \in Claimed /\ c.id \in RowId /\ Justified(c.id)
    BY DEF TypeOK, InFlightJustified, Claimed
  <2>3. OpOf(c.id) \in Operation /\ EdgeOf(c.id) \in Edge
    BY <2>2 DEF RowId, OpOf, EdgeOf
  <2>4. tuples' \subseteq requested
    BY <2>1, <2>2, <2>3 DEF TupleRequested, Mutated, Justified, Operation
  <2>5. \A e \in Edge \ revoked : e \in tuples => e \in tuples'
    BY <2>1, <2>2, <2>3 DEF Mutated, Justified, Operation
  <2>6. \A v \in Worker : \A k \in cur'[v] :
          /\ Justified(k.op.id)
          /\ k.ok /\ OpOf(k.op.id) = "write" /\ EdgeOf(k.op.id) \notin revoked
               => EdgeOf(k.op.id) \in tuples'
    <3> SUFFICES ASSUME NEW v \in Worker, NEW k \in cur'[v]
                 PROVE  /\ Justified(k.op.id)
                        /\ k.ok /\ OpOf(k.op.id) = "write"
                           /\ EdgeOf(k.op.id) \notin revoked
                             => EdgeOf(k.op.id) \in tuples'
      OBVIOUS
    <3>1. CASE v = w
      <4>1. k = [op |-> c, ok |-> ok]
        BY <2>1, <3>1 DEF TypeOK
      <4>2. QED BY <4>1, <2>1, <2>2 DEF Mutated
    <3>2. CASE v # w
      <4>1. k \in cur[v] /\ EdgeOf(k.op.id) \in Edge
        BY <2>1, <3>2 DEF TypeOK, Claimed, RowId, EdgeOf
      <4>2. QED BY <4>1, <2>5 DEF InFlightJustified
    <3>3. QED BY <3>1, <3>2
  <2>7. \A v \in Worker : \A k \in batch'[v] : Justified(k.id)
    BY <2>1 DEF InFlightJustified, TypeOK
  <2>8. InFlightJustified'
    BY <2>1, <2>6, <2>7 DEF InFlightJustified, Justified
  <2>9. QED
    BY <2>1, <2>4, <2>5, <2>8 DEF TupleRequested, OutboxCoversEdge, Needs, Active
<1>7. ASSUME NEW w \in Worker, MarkAuthzTupleApplied(w)
      PROVE  SafetyInv'
  <2>1. PICK c \in cur[w] :
          /\ c.ok
          /\ outbox' = [outbox EXCEPT ![c.op.id] =
                          [@ EXCEPT !.status = "applied", !.due = FALSE]]
          /\ cur' = [cur EXCEPT ![w] = {}]
          /\ UNCHANGED <<edge, tuples, batch, intake, deleter, recon, faults,
                         requested, revoked>>
    BY <1>7 DEF MarkAuthzTupleApplied
  <2>2. c.op.id \in RowId
    BY DEF TypeOK, Claimed
  <2>3. \A r \in RowId : r # c.op.id => outbox'[r] = outbox[r]
    BY <2>1, <2>2 DEF TypeOK
  <2>4. \A r \in RowId : outbox'[r].status # "none" => Justified(r)
    BY <2>1, <2>2, <2>3 DEF InFlightJustified
  <2>5. \A v \in Worker : cur'[v] \subseteq cur[v]
    BY <2>1 DEF TypeOK
  <2>6. InFlightJustified'
    BY <2>1, <2>4, <2>5 DEF InFlightJustified, Justified
  <2>7. ASSUME NEW e \in Edge \ revoked, Needs(e), e \notin tuples
        PROVE  \E g \in Gen : outbox'[<<"write", e, g>>].status
                                \in {"pending", "dead"}
    <3>1. PICK g \in Gen : outbox[<<"write", e, g>>].status
                             \in {"pending", "dead"}
      BY <2>7 DEF OutboxCoversEdge
    <3>2. <<"write", e, g>> # c.op.id
      BY <2>1, <2>7 DEF InFlightJustified, OpOf, EdgeOf
    <3>3. QED BY <3>1, <3>2, <2>3, <1>0
  <2>8. QED
    BY <2>1, <2>6, <2>7 DEF TupleRequested, OutboxCoversEdge, Needs, Active
<1>8. ASSUME NEW w \in Worker, MarkAuthzTupleFailed(w)
      PROVE  SafetyInv'
  <2>1. PICK c \in cur[w] :
          /\ \/ outbox' = outbox
             \/ \E row \in Row : /\ row.status \in {"pending", "dead"}
                                /\ outbox' = [outbox EXCEPT ![c.op.id] = row]
          /\ cur' = [cur EXCEPT ![w] = {}]
          /\ UNCHANGED <<edge, tuples, batch, intake, deleter, recon, faults,
                         requested, revoked>>
    <3>1. PICK c \in cur[w] : MarkAuthzTupleFailed(w)!(c)
      BY <1>8 DEF MarkAuthzTupleFailed
    <3>2. c.op.attempts + 1 \in Nat
      BY DEF TypeOK, Claimed
    <3>3. \A st \in {"pending", "dead"} :
            /\ [status |-> st, attempts |-> c.op.attempts + 1, due |-> FALSE] \in Row
            /\ [status |-> st, attempts |-> c.op.attempts + 1,
                due |-> FALSE].status \in {"pending", "dead"}
      BY <3>2 DEF Row
    <3>4. QED BY <3>1, <3>3
  <2>2. c.op.id \in RowId /\ Justified(c.op.id)
    BY DEF TypeOK, Claimed, InFlightJustified
  <2>3. \A r \in RowId :
          \/ outbox'[r] = outbox[r]
          \/ r = c.op.id /\ outbox'[r].status \in {"pending", "dead"}
    <3>1. CASE outbox' = outbox
      BY <3>1
    <3>2. ASSUME NEW row \in Row, row.status \in {"pending", "dead"},
                 outbox' = [outbox EXCEPT ![c.op.id] = row]
          PROVE  \A r \in RowId :
                   \/ outbox'[r] = outbox[r]
                   \/ r = c.op.id /\ outbox'[r].status \in {"pending", "dead"}
      BY <3>2, <2>2 DEF TypeOK
    <3>3. QED BY <2>1, <3>1, <3>2
  <2>4. \A r \in RowId : outbox'[r].status # "none" => Justified(r)
    BY <2>2, <2>3 DEF InFlightJustified
  <2>5. \A v \in Worker : cur'[v] \subseteq cur[v]
    BY <2>1 DEF TypeOK
  <2>6. InFlightJustified'
    BY <2>1, <2>4, <2>5 DEF InFlightJustified, Justified
  <2>7. \A e \in Edge, g \in Gen :
          outbox[<<"write", e, g>>].status \in {"pending", "dead"}
            => outbox'[<<"write", e, g>>].status \in {"pending", "dead"}
    BY <2>3, <1>0
  <2>8. QED
    BY <2>1, <2>6, <2>7 DEF TupleRequested, OutboxCoversEdge, Needs, Active
<1>9. ASSUME NEW w \in Worker, WorkerCrash(w)
      PROVE  SafetyInv'
  <2>1. \A v \in Worker : cur'[v] \subseteq cur[v] /\ batch'[v] \subseteq batch[v]
    BY <1>9 DEF WorkerCrash, TypeOK
  <2>2. UNCHANGED <<edge, outbox, tuples, recon, requested, revoked>>
    BY <1>9 DEF WorkerCrash
  <2>3. QED
    BY <2>1, <2>2 DEF TupleRequested, OutboxCoversEdge, Needs, Active,
                      InFlightJustified, Justified
<1>10. ASSUME NEW r \in RowId, TimePasses(r)
       PROVE  SafetyInv'
  <2>1. \A q \in RowId : outbox'[q].status = outbox[q].status
    BY <1>10 DEF TimePasses, TypeOK, Row
  <2>2. UNCHANGED <<edge, tuples, batch, cur, recon, requested, revoked>>
    BY <1>10 DEF TimePasses
  <2>3. QED
    BY <2>1, <2>2, <1>0 DEF TupleRequested, OutboxCoversEdge, Needs, Active,
                            InFlightJustified, Justified
<1>11. ASSUME ReconcileList \/ ReconcileInspect \/ ReconcileError
                \/ \E e \in Edge : ReconcilePending(e)
       PROVE  SafetyInv'
  <2>1. OldestNeeding \subseteq requested
    BY DEF OldestNeeding, Needs, InFlightJustified
  <2>2. /\ recon'.todo \subseteq requested
        /\ recon'.at \in requested \cup {NoEdge}
        /\ UNCHANGED <<edge, outbox, tuples, batch, cur, requested, revoked>>
    <3>1. CASE ReconcileList
      BY <3>1, <2>1 DEF ReconcileList, Idle
    <3>2. CASE ReconcileInspect
      BY <3>2 DEF ReconcileInspect, InFlightJustified, TypeOK
    <3>3. CASE ReconcileError
      BY <3>3 DEF ReconcileError, Idle
    <3>4. CASE \E e \in Edge : ReconcilePending(e)
      BY <3>4 DEF ReconcilePending, InFlightJustified, TypeOK
    <3>5. QED BY <1>11, <3>1, <3>2, <3>3, <3>4
  <2>3. QED
    BY <2>2 DEF TupleRequested, OutboxCoversEdge, Needs, Active,
                InFlightJustified, Justified
<1>12. CASE ReconcileEnqueue
  <2>1. /\ recon.at \in Edge /\ recon.at \in requested
        /\ Enqueue("write", {recon.at})
        /\ UNCHANGED <<edge, tuples, batch, cur, requested, revoked>>
    BY <1>12, AuthzAssumption DEF ReconcileEnqueue, TypeOK, InFlightJustified
  <2>2. recon'.todo = recon.todo /\ recon'.at = NoEdge
    BY <1>12 DEF ReconcileEnqueue, TypeOK
  <2>3. \A r \in RowId : outbox'[r].status # "none" => Justified(r)'
    BY <2>1, EnqueueJustified DEF Operation
  <2>4. InFlightJustified'
    BY <2>1, <2>2, <2>3 DEF InFlightJustified, Justified
  <2>5. \A e \in Edge, g \in Gen :
          outbox[<<"write", e, g>>].status \in {"pending", "dead"}
            => outbox'[<<"write", e, g>>].status \in {"pending", "dead"}
    BY <2>1, <1>0, EnqueueKeepsCover DEF Operation
  <2>6. QED
    BY <2>1, <2>4, <2>5 DEF TupleRequested, OutboxCoversEdge, Needs, Active
<1>13. CASE UNCHANGED vars
  BY <1>13 DEF vars, TupleRequested, OutboxCoversEdge, Needs, Active,
               InFlightJustified, Justified
<1>14. QED
  BY <1>1, <1>2, <1>3, <1>4, <1>5, <1>6, <1>7, <1>8, <1>9, <1>10, <1>11,
     <1>12, <1>13
  DEF Next, WorkerStep, ReconcileStep

(* The invariant step by step: it holds in every reachable state, so the   *)
(* action property below may use it.                                       *)
LEMMA SafetyInvariant == Spec => []SafetyInv
<1>1. Init => SafetyInv
  BY AuthzAssumption DEF Init, SafetyInv, TupleRequested, OutboxCoversEdge,
     Needs, Active, InFlightJustified, Justified, Idle, NoRow
<1>2. TypeOK /\ TypeOK' /\ SafetyInv /\ [Next]_vars => SafetyInv'
  BY SafetyStep
<1>3. QED BY <1>1, <1>2, TypeCorrect, PTL DEF Spec

(* Whatever the interleaving of intakes, deletions, workers that fail,     *)
(* crash or outlive their lease, and the reconciler: OpenFGA only holds    *)
(* tuples that were asked for.                                             *)
THEOREM OnlyRequestedTuples == Spec => []TupleRequested
<1>1. SafetyInv => TupleRequested
  BY DEF SafetyInv
<1>2. QED BY <1>1, SafetyInvariant, PTL

(* ... and an active synchronised edge never revoked is covered by its     *)
(* tuple or by an outbox row that operators can see.                       *)
THEOREM OutboxLeavesNoGap == Spec => []OutboxCoversEdge
<1>1. SafetyInv => OutboxCoversEdge
  BY DEF SafetyInv
<1>2. QED BY <1>1, SafetyInvariant, PTL

(* No step removes a tuple whose edge was not tombstoned by a committed    *)
(* deletion: a worker's late or repeated delete still goes back to one.    *)
THEOREM RemovalIsRevocation == Spec => RemovedOnlyIfRevoked
<1>1. TypeOK /\ SafetyInv /\ [Next]_vars
        => [\A e \in tuples \ tuples' : e \in revoked]_vars
  <2> SUFFICES ASSUME TypeOK, SafetyInv, Next,
                      NEW e \in tuples \ tuples'
               PROVE  e \in revoked
    OBVIOUS
  <2>1. PICK w \in Worker : ApplyOk(w) \/ ApplyError(w)
    BY DEF Next, WorkerStep, ReconcileStep, UpsertEdgeSelect,
       UpsertEdgeCommit, DeleteListEdges, DeleteCommit, ClaimAuthzTuples,
       MarkAuthzTupleApplied, MarkAuthzTupleFailed, WorkerCrash, TimePasses,
       ReconcileList, ReconcileInspect, ReconcileError, ReconcileEnqueue,
       ReconcilePending
  <2>2. PICK c \in batch[w] : tuples' \in {tuples, Mutated(c.id)}
    <3>1. CASE ApplyOk(w)  BY <3>1 DEF ApplyOk
    <3>2. CASE ApplyError(w)  BY <3>2 DEF ApplyError
    <3>3. QED BY <2>1, <3>1, <3>2
  <2>3. OpOf(c.id) = "delete" /\ EdgeOf(c.id) = e
    BY <2>2 DEF Mutated
  <2>4. QED BY <2>3 DEF SafetyInv, InFlightJustified, Justified
<1>2. QED BY <1>1, TypeCorrect, SafetyInvariant, PTL DEF Spec, RemovedOnlyIfRevoked
=============================================================================
