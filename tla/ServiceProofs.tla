--------------------------- MODULE ServiceProofs ----------------------------
(* Proofs about the operations around intake and retrieval: sources,       *)
(* mapping, the connection pool, migrations, start and exit, the memory    *)
(* ledger, export and import. For any number of calls, sources, versions,  *)
(* records and instances.                                                  *)
EXTENDS Sources, Mapping, Pool, Migrate, Lifecycle, MemoryLedger, Export, FiniteSetTheorems, TLAPS

-----------------------------------------------------------------------------
(* Sources and mapping revisions *)

(* A source row: the registrations and the secret it was stored with. *)
SourceRow == [reg : Nat, secret : Nat, identity : Nat, limits : Nat]

(* Values of the state of sources and mapping revisions. *)
SourcesTypeOK ==
  /\ srcStore \in {"postgres", "memory"}
  /\ srcRow \in SourceRow
  /\ mapSpecs \in [Revision -> [reg : Nat, born : Nat]]
  /\ srcCall \in [Registrar ->
       {IdleRegistrar} \cup
       [pc : {"upsert", "put"}, rev : Revision \cup {NoMapping}, row : SourceRow] \cup
       [pc : {"rotate"}, row : SourceRow]]
  /\ srcSeq \in Nat
  /\ answered \in SourceRow
  /\ firstReg \in Nat
  /\ lastMapped \in Nat
  /\ srcMixed \in BOOLEAN /\ mapReused \in BOOLEAN /\ mapLost \in BOOLEAN

(* The mapping revisions that are stored. *)
Stored == {r \in Revision : mapSpecs[r].born # 0}

(* The revisions that are stored are numbered without repetition in the    *)
(* order their rows were created; in memory there is at most one.          *)
RevisionsNumbered ==
  /\ IsFiniteSet(Stored)
  /\ \A r \in Stored : mapSpecs[r].born <= Cardinality(Stored)
  /\ \A r, q \in Stored : mapSpecs[r].born = mapSpecs[q].born => r = q

(* A registration has a number, and one that stores a mapping has one. *)
CallsNumbered ==
  \A c \in Registrar :
    /\ srcCall[c].pc \in {"upsert", "put"} =>
         srcCall[c].row.reg > 0 /\ srcCall[c].row.identity = srcCall[c].row.reg
    /\ srcCall[c].pc = "put" => srcCall[c].rev \in Revision

(* While no call began during another, the one call under way has the row  *)
(* to itself: what it read, or wrote, is what is stored and was answered.  *)
SerialCalls ==
  ~srcMixed =>
    /\ \A c, d \in UnderWay : c = d
    /\ srcRow.reg = answered.reg /\ srcRow.secret = answered.secret
    /\ srcStore = "memory" => srcRow = answered
    /\ \A c \in Registrar :
         /\ srcCall[c].pc = "rotate" =>
              srcCall[c].row = [srcRow EXCEPT !.secret = srcCall[c].row.secret]
         /\ srcCall[c].pc = "put" => srcCall[c].row.reg = lastMapped

(* PostgreSQL keeps the identity of the first registration, and no limits. *)
ColumnsKept ==
  /\ srcRow = NoSource \/ srcRow.reg > 0
  /\ srcStore = "postgres" => srcRow.identity = firstReg /\ srcRow.limits = 0
  /\ \A c \in Registrar : srcCall[c].pc = "rotate" => srcRow # NoSource /\ srcCall[c].row.reg > 0

SourcesInv ==
  /\ SourcesTypeOK
  /\ ColumnsKept
  /\ RevisionsNumbered
  /\ CallsNumbered
  /\ SerialCalls
  /\ MappingAsRegistered

(* An order the SMT solver is given as a fact. *)
LEMMA LessIfNotEqual == \A m, n \in Nat : m <= n /\ m # n => m < n
OBVIOUS

(* The mapping in force is a matter of the stored revisions alone. *)
LEMMA SameInForce ==
  ASSUME UNCHANGED mapSpecs PROVE MappingInForce' = MappingInForce
BY DEF MappingInForce, Newest

(* The fields of a row as a store keeps it. *)
LEMMA StoredSourceFields ==
  ASSUME srcStore \in {"postgres", "memory"}, srcRow \in SourceRow, NEW row \in SourceRow
  PROVE  /\ StoredSource(row) \in SourceRow
         /\ StoredSource(row).reg = row.reg /\ StoredSource(row).secret = row.secret
         /\ srcStore = "memory" => StoredSource(row) = row
         /\ srcStore = "postgres" =>
              /\ StoredSource(row).limits = 0
              /\ StoredSource(row).identity =
                   IF srcRow = NoSource THEN row.identity ELSE srcRow.identity
BY DEF StoredSource, SourceRow

(* The invariant holds whatever the calls do. *)
LEMMA SourcesInvHolds == SourcesSpec => []SourcesInv
<1> USE SourcesAssumption
<1>1. SourcesInit => SourcesInv
  <2> SUFFICES ASSUME SourcesInit PROVE SourcesInv
    OBVIOUS
  <2>1. srcMixed \in BOOLEAN /\ mapReused \in BOOLEAN /\ mapLost \in BOOLEAN
    BY Zenon DEF SourcesInit
  <2>2. SourcesTypeOK
    BY <2>1 DEF SourcesInit, SourcesTypeOK, SourceRow, NoSource
  <2>3. Stored = {}
    BY DEF SourcesInit, Stored
  <2>4. RevisionsNumbered
    BY <2>3, FS_EmptySet DEF RevisionsNumbered
  <2>5. CallsNumbered /\ SerialCalls /\ ColumnsKept
    BY DEF SourcesInit, CallsNumbered, SerialCalls, UnderWay, IdleRegistrar, ColumnsKept, NoSource
  <2>6. MappingAsRegistered
    BY <2>3 DEF SourcesInit, MappingAsRegistered, MappingInForce, Stored
  <2> QED
    BY <2>2, <2>4, <2>5, <2>6 DEF SourcesInv
<1>2. SourcesInv /\ [SourcesNext]_sourceVars => SourcesInv'
  <2> SUFFICES ASSUME SourcesInv, [SourcesNext]_sourceVars PROVE SourcesInv'
    OBVIOUS
  <2> USE DEF SourcesInv, SourcesTypeOK, SourceRow, IdleRegistrar
  <2>1. ASSUME NEW c \in Registrar, NEW rev \in Revision \cup {NoMapping},
               NEW secret \in BOOLEAN, RegisterSource(c, rev, secret)
        PROVE SourcesInv'
    <3> USE <2>1 DEF RegisterSource
    <3>1. srcMixed' \in BOOLEAN /\ (~srcMixed' => ~srcMixed /\ UnderWay = {})
      BY Zenon
    <3>2. SourcesTypeOK'
      BY <3>1
    <3>3. RevisionsNumbered'
      BY DEF RevisionsNumbered, Stored
    <3>4. CallsNumbered' /\ ColumnsKept'
      BY DEF CallsNumbered, ColumnsKept
    <3>5. SerialCalls'
      BY <3>1 DEF SerialCalls, UnderWay
    <3>6. MappingAsRegistered'
      <4>1. MappingInForce' = MappingInForce
        BY SameInForce
      <4>2. \A d \in Registrar : srcCall[d].pc = "put" => srcCall'[d].pc = "put"
        OBVIOUS
      <4> QED
        BY <3>1, <4>1, <4>2 DEF MappingAsRegistered
    <3> QED
      BY <3>2, <3>3, <3>4, <3>5, <3>6
  <2>2. ASSUME NEW c \in Registrar, UpsertSource(c) PROVE SourcesInv'
    <3> DEFINE row == srcCall[c].row
    <3>a. /\ row \in SourceRow /\ srcRow' = StoredSource(row) /\ srcRow' \in SourceRow
          /\ srcRow'.reg = row.reg /\ srcRow'.secret = row.secret
          /\ srcStore = "memory" => srcRow' = row
          /\ srcStore = "postgres" =>
               /\ srcRow'.limits = 0
               /\ srcRow'.identity = IF srcRow = NoSource THEN row.identity ELSE srcRow.identity
      BY <2>2, StoredSourceFields DEF UpsertSource
    <3> USE <2>2 DEF UpsertSource
    <3>1. SourcesTypeOK'
      BY <3>a
    <3>2. RevisionsNumbered'
      BY DEF RevisionsNumbered, Stored
    <3>3. CallsNumbered' /\ ColumnsKept'
      BY <3>a DEF CallsNumbered, ColumnsKept, NoSource
    <3>4. SerialCalls'
      BY <3>a DEF SerialCalls, UnderWay
    <3>5. MappingAsRegistered'
      <4>1. CASE srcCall[c].rev # NoMapping
        BY <4>1 DEF MappingAsRegistered
      <4>2. CASE srcCall[c].rev = NoMapping
        <5>1. lastMapped' = lastMapped /\ MappingInForce' = MappingInForce
          BY <4>2 DEF MappingInForce, Newest
        <5>2. ASSUME NEW d \in Registrar, srcCall[d].pc = "put"
              PROVE  srcCall'[d].pc = "put"
          BY <5>2
        <5> QED
          BY <5>1, <5>2 DEF MappingAsRegistered
      <4> QED
        BY <4>1, <4>2
    <3> QED
      BY <3>1, <3>2, <3>3, <3>4, <3>5
  <2>3. ASSUME NEW c \in Registrar, UpsertSourceFails(c) PROVE SourcesInv'
    <3> USE <2>3 DEF UpsertSourceFails
    <3>1. SourcesTypeOK'
      OBVIOUS
    <3>2. RevisionsNumbered'
      BY DEF RevisionsNumbered, Stored
    <3>3. CallsNumbered' /\ SerialCalls' /\ ColumnsKept'
      BY DEF CallsNumbered, SerialCalls, UnderWay, ColumnsKept
    <3>4. MappingAsRegistered'
      <4>1. MappingInForce' = MappingInForce
        BY SameInForce
      <4>2. \A d \in Registrar : srcCall[d].pc = "put" => srcCall'[d].pc = "put"
        OBVIOUS
      <4> QED
        BY <4>1, <4>2 DEF MappingAsRegistered
    <3> QED
      BY <3>1, <3>2, <3>3, <3>4
  <2>4. ASSUME NEW c \in Registrar, PutMappingSpec(c) PROVE SourcesInv'
    <3> DEFINE rev == srcCall[c].rev
               number == srcCall[c].row.reg
               known == mapSpecs[rev].born # 0
    <3>1. rev \in Revision /\ number \in Nat /\ number > 0
      BY <2>4 DEF PutMappingSpec, CallsNumbered
    <3>2. mapReused' \in BOOLEAN /\ (~mapReused' => ~mapReused /\ (known => Newest(rev)))
      BY <2>4, Zenon DEF PutMappingSpec
    <3>3. Cardinality(Stored) \in Nat
      BY FS_CardinalityType DEF RevisionsNumbered
    <3>4. mapSpecs' = [mapSpecs EXCEPT ![rev] =
            [reg |-> number,
             born |-> IF known THEN mapSpecs[rev].born ELSE Cardinality(Stored) + 1]]
      BY <2>4, <3>1 DEF PutMappingSpec, Stored
    <3>5. /\ srcCall' = [srcCall EXCEPT ![c] = IdleRegistrar]
          /\ UNCHANGED <<srcStore, srcRow, srcSeq, answered, firstReg, lastMapped, srcMixed, mapLost>>
      BY <2>4 DEF PutMappingSpec
    <3>6. srcMixed \/ lastMapped = number
      BY <2>4 DEF PutMappingSpec, SerialCalls
    <3> HIDE DEF rev, number, known
    <3>7. SourcesTypeOK'
      BY <3>1, <3>2, <3>3, <3>4, <3>5
    <3>8. Stored' = Stored \cup {rev} /\ (rev \in Stored <=> known)
      <4>1. \A r \in Revision : r # rev => mapSpecs'[r] = mapSpecs[r]
        BY <3>4
      <4>2. mapSpecs'[rev].born # 0
        BY <3>1, <3>3, <3>4 DEF known
      <4>3. rev \in Stored <=> known
        BY <3>1 DEF Stored, known
      <4> QED
        BY <3>1, <4>1, <4>2, <4>3 DEF Stored
    <3>9. RevisionsNumbered'
      <4>1. /\ IsFiniteSet(Stored')
            /\ Cardinality(Stored') = IF known THEN Cardinality(Stored)
                                      ELSE Cardinality(Stored) + 1
        BY <3>8, FS_AddElement DEF RevisionsNumbered
      <4>2. ASSUME NEW r \in Stored', r # rev
            PROVE  r \in Stored /\ mapSpecs'[r] = mapSpecs[r]
        BY <3>4, <3>8, <4>2 DEF Stored
      <4>3. /\ rev \in Stored'
            /\ mapSpecs'[rev].born = IF known THEN mapSpecs[rev].born
                                     ELSE Cardinality(Stored) + 1
        BY <3>1, <3>4, <3>8
      <4>4. \A r \in Stored : mapSpecs[r].born \in Nat
        BY DEF Stored
      <4> QED
        <5>1. ASSUME NEW r \in Stored' PROVE mapSpecs'[r].born <= Cardinality(Stored')
          <6>1. CASE r = rev
            BY <3>3, <3>8, <4>1, <4>3, <6>1 DEF RevisionsNumbered
          <6>2. CASE r # rev
            <7>1. /\ mapSpecs'[r].born = mapSpecs[r].born /\ mapSpecs[r].born \in Nat
                  /\ mapSpecs[r].born <= Cardinality(Stored)
              BY <4>2, <4>4, <6>2 DEF RevisionsNumbered
            <7> QED
              BY <3>3, <4>1, <7>1
          <6> QED
            BY <6>1, <6>2
        <5>2. ASSUME NEW r \in Stored', r # rev
              PROVE  mapSpecs'[r].born # mapSpecs'[rev].born
          <6>1. /\ mapSpecs'[r].born = mapSpecs[r].born /\ mapSpecs[r].born \in Nat
                /\ mapSpecs[r].born <= Cardinality(Stored)
            BY <4>2, <4>4, <5>2 DEF RevisionsNumbered
          <6>2. known => rev \in Stored /\ mapSpecs[r].born # mapSpecs[rev].born
            BY <3>8, <4>2, <5>2 DEF RevisionsNumbered
          <6> QED
            BY <3>3, <4>3, <6>1, <6>2
        <5>3. ASSUME NEW r \in Stored', NEW q \in Stored',
                     mapSpecs'[r].born = mapSpecs'[q].born
              PROVE  r = q
          <6>1. CASE r = rev \/ q = rev
            BY <5>2, <5>3, <6>1
          <6>2. CASE r # rev /\ q # rev
            BY <4>2, <5>3, <6>2 DEF RevisionsNumbered
          <6> QED
            BY <6>1, <6>2
        <5> QED
          BY <4>1, <5>1, <5>3 DEF RevisionsNumbered
    <3>10. CallsNumbered' /\ SerialCalls' /\ ColumnsKept'
      BY <3>5 DEF CallsNumbered, SerialCalls, UnderWay, ColumnsKept
    <3>11. MappingAsRegistered'
      <4> SUFFICES ASSUME ~srcMixed, ~mapReused' PROVE MappingInForce' = {lastMapped} \ {0}
        BY <3>5 DEF MappingAsRegistered
      <4>1. \A r \in Revision : mapSpecs'[r].born \in Nat /\ mapSpecs[r].born \in Nat
        BY <3>7
      <4>2. \A r \in Revision : r # rev => mapSpecs'[r].born < mapSpecs'[rev].born
        <5> SUFFICES ASSUME NEW r \in Revision, r # rev
                     PROVE  mapSpecs'[r].born < mapSpecs'[rev].born
          OBVIOUS
        <5>1. mapSpecs'[r].born = mapSpecs[r].born
          BY <3>4
        <5>2. CASE known
          <6>1. mapSpecs'[rev].born = mapSpecs[rev].born /\ rev \in Stored
            BY <3>1, <3>4, <3>8, <5>2
          <6>2. mapSpecs[r].born <= mapSpecs[rev].born
            BY <3>2, <5>2 DEF Newest
          <6>3. r \in Stored => mapSpecs[r].born # mapSpecs[rev].born
            BY <6>1 DEF RevisionsNumbered
          <6> QED
            <7>1. CASE r \in Stored
              <8>1. mapSpecs[r].born \in Nat /\ mapSpecs[rev].born \in Nat
                BY <3>1, <4>1
              <8>2. mapSpecs[r].born < mapSpecs[rev].born
                BY <6>2, <6>3, <7>1, <8>1, LessIfNotEqual, Zenon
              <8> QED
                BY <5>1, <6>1, <8>2
            <7>2. CASE r \notin Stored
              <8>1. mapSpecs[r].born = 0 /\ mapSpecs[rev].born # 0
                BY <6>1, <7>2 DEF Stored
              <8> QED
                BY <3>1, <4>1, <5>1, <6>1, <8>1
            <7> QED
              BY <7>1, <7>2
        <5>3. CASE ~known
          <6>1. mapSpecs'[rev].born = Cardinality(Stored) + 1
            BY <3>1, <3>4, <5>3
          <6>2. mapSpecs[r].born <= Cardinality(Stored)
            BY <3>3, <4>1 DEF RevisionsNumbered, Stored
          <6> QED
            BY <3>3, <4>1, <5>1, <6>1, <6>2
        <5> QED
          BY <5>2, <5>3
      <4>3. {q \in Revision : mapSpecs'[q].born # 0 /\ Newest(q)'} = {rev}
        <5>1. rev \in Stored'
          BY <3>8
        <5> QED
          BY <3>1, <4>1, <4>2, <5>1 DEF Newest, Stored
      <4>4. MappingInForce' = {mapSpecs'[r].reg : r \in {rev}}
        BY <4>3 DEF MappingInForce
      <4>5. MappingInForce' = {number}
        BY <3>1, <3>4, <4>4
      <4> QED
        BY <3>1, <3>6, <4>5
    <3> QED
      BY <3>7, <3>9, <3>10, <3>11
  <2>5. ASSUME NEW c \in Registrar, PutMappingMemory(c) PROVE SourcesInv'
    <3> DEFINE rev == srcCall[c].rev
               number == srcCall[c].row.reg
    <3>1. rev \in Revision /\ number \in Nat /\ number > 0
      BY <2>5 DEF PutMappingMemory, CallsNumbered
    <3>2. mapSpecs' = [r \in Revision |-> IF r = rev THEN [reg |-> number, born |-> 1]
                                          ELSE [reg |-> 0, born |-> 0]]
      BY <2>5 DEF PutMappingMemory
    <3>3. /\ srcCall' = [srcCall EXCEPT ![c] = IdleRegistrar]
          /\ UNCHANGED <<srcStore, srcRow, srcSeq, answered, firstReg, lastMapped, srcMixed,
                         mapReused, mapLost>>
      BY <2>5 DEF PutMappingMemory
    <3>4. srcMixed \/ lastMapped = number
      BY <2>5 DEF PutMappingMemory, SerialCalls
    <3> HIDE DEF rev, number
    <3>5. SourcesTypeOK'
      BY <3>1, <3>2, <3>3
    <3>6. Stored' = {rev}
      BY <3>1, <3>2 DEF Stored
    <3>7. RevisionsNumbered'
      <4>1. IsFiniteSet(Stored') /\ Cardinality(Stored') = 1
        BY <3>6, FS_Singleton
      <4>2. mapSpecs'[rev].born = 1
        BY <3>1, <3>2
      <4> QED
        BY <3>6, <4>1, <4>2 DEF RevisionsNumbered
    <3>8. CallsNumbered' /\ SerialCalls' /\ ColumnsKept'
      BY <3>3 DEF CallsNumbered, SerialCalls, UnderWay, ColumnsKept
    <3>9. MappingInForce' = {number}
      <4>1. {q \in Revision : mapSpecs'[q].born # 0 /\ Newest(q)'} = {rev}
        BY <3>1, <3>2 DEF Newest
      <4>2. MappingInForce' = {mapSpecs'[r].reg : r \in {rev}}
        BY <4>1 DEF MappingInForce
      <4> QED
        BY <3>1, <3>2, <4>2
    <3>10. MappingAsRegistered'
      BY <3>1, <3>3, <3>4, <3>9 DEF MappingAsRegistered
    <3> QED
      BY <3>5, <3>7, <3>8, <3>10
  <2>6. ASSUME NEW c \in Registrar, PutMappingFails(c) PROVE SourcesInv'
    <3> USE <2>6 DEF PutMappingFails
    <3>1. mapLost' \in BOOLEAN /\ mapLost'
      BY Zenon
    <3> QED
      BY <3>1 DEF RevisionsNumbered, Stored, CallsNumbered, SerialCalls, UnderWay,
         MappingAsRegistered, ColumnsKept
  <2>7. ASSUME NEW c \in Registrar, RotateSourceSecret(c) PROVE SourcesInv'
    <3> USE <2>7 DEF RotateSourceSecret
    <3>1. srcMixed' \in BOOLEAN /\ (~srcMixed' => ~srcMixed /\ UnderWay = {})
      BY Zenon
    <3>2. SourcesTypeOK'
      BY <3>1
    <3>3. RevisionsNumbered'
      BY DEF RevisionsNumbered, Stored
    <3>4. CallsNumbered' /\ ColumnsKept'
      BY DEF CallsNumbered, ColumnsKept
    <3>5. SerialCalls'
      BY <3>1 DEF SerialCalls, UnderWay
    <3>6. MappingAsRegistered'
      <4>1. MappingInForce' = MappingInForce
        BY SameInForce
      <4>2. \A d \in Registrar : srcCall[d].pc = "put" => srcCall'[d].pc = "put"
        OBVIOUS
      <4> QED
        BY <3>1, <4>1, <4>2 DEF MappingAsRegistered
    <3> QED
      BY <3>2, <3>3, <3>4, <3>5, <3>6
  <2>8. ASSUME NEW c \in Registrar, RotateSourceWrite(c) PROVE SourcesInv'
    <3> DEFINE row == srcCall[c].row
    <3>a. /\ row \in SourceRow /\ srcRow' = StoredSource(row) /\ srcRow' \in SourceRow
          /\ srcRow'.reg = row.reg /\ srcRow'.secret = row.secret
          /\ srcStore = "memory" => srcRow' = row
          /\ srcStore = "postgres" =>
               /\ srcRow'.limits = 0
               /\ srcRow'.identity = IF srcRow = NoSource THEN row.identity ELSE srcRow.identity
      BY <2>8, StoredSourceFields DEF RotateSourceWrite
    <3> USE <2>8 DEF RotateSourceWrite
    <3>1. SourcesTypeOK'
      BY <3>a
    <3>2. RevisionsNumbered'
      BY DEF RevisionsNumbered, Stored
    <3>3. CallsNumbered' /\ ColumnsKept'
      BY <3>a DEF CallsNumbered, ColumnsKept, NoSource
    <3>4. SerialCalls'
      <4> SUFFICES ASSUME ~srcMixed PROVE SerialCalls'
        BY DEF SerialCalls
      <4>1. /\ \A d \in Registrar : d # c => srcCall[d].pc = "idle"
            /\ row = [srcRow EXCEPT !.secret = row.secret]
        BY DEF SerialCalls, UnderWay
      <4>2. /\ srcRow.reg = answered.reg
            /\ srcStore = "memory" => srcRow = answered
        BY DEF SerialCalls
      <4>3. row.reg = srcRow.reg /\ answered'.reg = answered.reg /\ answered'.secret = row.secret
        BY <4>1
      <4>4. srcStore = "memory" => srcRow' = answered'
        BY <3>a, <4>1, <4>2
      <4> QED
        BY <3>a, <4>1, <4>2, <4>3, <4>4 DEF SerialCalls, UnderWay
    <3>5. MappingAsRegistered'
      <4>1. MappingInForce' = MappingInForce
        BY SameInForce
      <4>2. \A d \in Registrar : srcCall[d].pc = "put" => srcCall'[d].pc = "put"
        OBVIOUS
      <4> QED
        BY <4>1, <4>2 DEF MappingAsRegistered
    <3> QED
      BY <3>1, <3>2, <3>3, <3>4, <3>5
  <2>9. CASE UNCHANGED sourceVars
    <3>1. MappingInForce' = MappingInForce
      BY <2>9, SameInForce DEF sourceVars
    <3>2. MappingAsRegistered'
      BY <2>9, <3>1 DEF sourceVars, MappingAsRegistered
    <3> QED
      BY <2>9, <3>2 DEF sourceVars, RevisionsNumbered, Stored, CallsNumbered,
         SerialCalls, UnderWay, ColumnsKept
  <2> QED
    BY <2>1, <2>2, <2>3, <2>4, <2>5, <2>6, <2>7, <2>8, <2>9 DEF SourcesNext
<1> QED
  BY <1>1, <1>2, PTL DEF SourcesSpec

(* What a store keeps of the answered registrations and the mapping in     *)
(* force, up to the races, the dropped error and the reused revision the   *)
(* property names: for any calls and revisions, in both stores.            *)
THEOREM StoredAsAnsweredAlways == SourcesSpec => []StoredAsAnswered
<1>1. SourcesInv => StoredAsAnswered
  BY DEF SourcesInv, SerialCalls, ColumnsKept, StoredAsAnswered, SourceAsAnswered
<1> QED
  BY <1>1, SourcesInvHolds, PTL

-----------------------------------------------------------------------------
(* Mapping a payload *)

(* The predicates an edge can have. *)
Predicates == {em.pred : em \in EdgeMappings} \cup {"parent"}

(* An edge as mapped. *)
EdgeEntry ==
  [from : MapId \cup {""}, pred : Predicates, to : MapId \cup {""},
   sync : BOOLEAN, ensure : BOOLEAN]

(* Values of the state of a mapping. *)
MappingTypeOK ==
  /\ mapPc \in {"fields", "parent", "edges", "sync", "accepted", "refused"}
  /\ mapStore \in {"memory", "postgres"}
  /\ given = SourceCeilings(mapStore, registered)
  /\ mapped.ref \in VisRef \cup {NoRef}
  /\ mapEdges \in Seq(EdgeEntry)
  /\ mapAsked \in Seq(EdgeEntry)

(* The fields passed the ceilings before any edge was looked at, and an    *)
(* accepted payload passed the list of parents as well.                    *)
CeilingsPassed ==
  /\ mapPc \in {"parent", "edges", "sync", "accepted"} =>
       EnforceCeilings(mapped.grade, mapped.ref, given)
  /\ mapPc = "accepted" =>
       \A i \in DOMAIN mapEdges :
         mapEdges[i].sync => ParentAllowed(mapEdges[i].to, given.allow)

(* Only a parent edge ever asks for inheritance. *)
SyncIsParent ==
  \A i \in DOMAIN mapEdges : mapEdges[i].sync => mapEdges[i].pred = "parent"

(* What the loop maintains: an edge for each triple asked for and no other, *)
(* none twice, and its flags are those of the entries for the triple.      *)
Merged(edges, asked) ==
  /\ \A i, j \in DOMAIN edges : Triple(edges[i]) = Triple(edges[j]) => i = j
  /\ \A i \in DOMAIN edges :
       /\ \E e \in asked : Triple(e) = Triple(edges[i])
       /\ edges[i].sync <=> \E f \in asked : Triple(f) = Triple(edges[i]) /\ f.sync
       /\ edges[i].ensure <=> \E f \in asked : Triple(f) = Triple(edges[i]) /\ f.ensure
  /\ \A e \in asked : \E i \in DOMAIN edges : Triple(edges[i]) = Triple(e)

(* The edges the payload asks for that are not loops. *)
AskedFor == {e \in Range(mapAsked) : e.from # e.to}

(* Facts about numbers and sequences the solver is given. *)
LEMMA SmallNumbers == \A i \in 1 .. 4 : i \in Int /\ i # 0
OBVIOUS

(* The empty sequence is a sequence of anything. *)
LEMMA EmptySequence == DOMAIN <<>> = {} /\ \A S : <<>> \in Seq(S)
OBVIOUS

(* A known value has a rank between 1 and 4. *)
LEMMA RankType ==
  \A g \in Grades : \A v : Rank(g, v) \in Int /\ Rank(g, v) # 0
<1> SUFFICES ASSUME NEW g \in Grades, NEW v PROVE Rank(g, v) \in Int /\ Rank(g, v) # 0
  OBVIOUS
<1>1. CASE \E i \in 1 .. 4 : Ranked[g][i] = v
  <2>1. Rank(g, v) = CHOOSE i \in 1 .. 4 : Ranked[g][i] = v
    BY <1>1 DEF Rank
  <2>2. (CHOOSE i \in 1 .. 4 : Ranked[g][i] = v) \in 1 .. 4
    BY <1>1
  <2>3. Rank(g, v) \in 1 .. 4
    BY <2>1, <2>2, Zenon
  <2> QED
    BY <2>3, SmallNumbers, Zenon
<1>2. CASE ~\E i \in 1 .. 4 : Ranked[g][i] = v
  BY <1>2 DEF Rank
<1> QED
  BY <1>1, <1>2

(* The indices of a sequence, up to one of them. *)
LEMMA FromOneTo ==
  \A o, c \in Int : o >= 0 /\ o # 0 /\ o <= c => o \in 1 .. c
OBVIOUS

(* What the parent edge of a payload is. *)
LEMMA ParentEdgeIs ==
  \A to \in MapId \cup {""} :
    /\ Edge(Self, "parent", to, FALSE, TRUE) \in EdgeEntry
    /\ Edge(Self, "parent", to, FALSE, TRUE).pred = "parent"
<1> USE MappingAssumption
<1>1. \A to \in MapId \cup {""}, no, yes \in BOOLEAN :
        /\ Edge(Self, "parent", to, no, yes) \in EdgeEntry
        /\ Edge(Self, "parent", to, no, yes).pred = "parent"
  BY DEF Edge, EdgeEntry, Predicates
<1> QED
  BY <1>1, Zenon

(* Appending adds one element to the range. *)
LEMMA RangeOfAppend ==
  ASSUME NEW S, NEW s \in Seq(S), NEW e \in S
  PROVE  Range(Append(s, e)) = Range(s) \cup {e}
BY DEF Range

(* An edge that is asked for again. *)
Flagged(x, e) == [x EXCEPT !.sync = @ \/ e.sync, !.ensure = @ \/ e.ensure]

(* Flagged changes the flags of an edge and nothing else. *)
LEMMA FlaggedIs ==
  ASSUME NEW x \in EdgeEntry, NEW e \in EdgeEntry
  PROVE  /\ Flagged(x, e) \in EdgeEntry
         /\ Triple(Flagged(x, e)) = Triple(x)
         /\ Flagged(x, e).pred = x.pred /\ Flagged(x, e).to = x.to
         /\ Flagged(x, e).sync <=> x.sync \/ e.sync
         /\ Flagged(x, e).ensure <=> x.ensure \/ e.ensure
<1> DEFINE s == x.sync \/ e.sync
           n == x.ensure \/ e.ensure
<1>1. s \in BOOLEAN /\ n \in BOOLEAN
  BY Zenon
<1>2. Flagged(x, e) = [x EXCEPT !.sync = s, !.ensure = n]
  BY Zenon DEF Flagged
<1>3. (s <=> x.sync \/ e.sync) /\ (n <=> x.ensure \/ e.ensure)
  BY Zenon
<1> HIDE DEF s, n
<1>4. /\ Flagged(x, e) \in EdgeEntry
      /\ Flagged(x, e).from = x.from /\ Flagged(x, e).pred = x.pred
      /\ Flagged(x, e).to = x.to
  BY <1>1, <1>2 DEF EdgeEntry
<1>5. Flagged(x, e).sync = s /\ Flagged(x, e).ensure = n
  BY <1>1, <1>2 DEF EdgeEntry
<1>6. Triple(Flagged(x, e)) = Triple(x)
  BY <1>4 DEF Triple
<1> QED
  BY <1>3, <1>4, <1>5, <1>6, Zenon

(* The three things add does. *)
LEMMA AddedIs ==
  ASSUME NEW edges \in Seq(EdgeEntry), NEW e \in EdgeEntry
  PROVE  \/ e.from = e.to /\ Added(edges, e) = edges
         \/ /\ e.from # e.to
            /\ \E k \in DOMAIN edges : Triple(edges[k]) = Triple(e)
            /\ Added(edges, e) =
                 [i \in DOMAIN edges |->
                    IF Triple(edges[i]) # Triple(e) THEN edges[i] ELSE Flagged(edges[i], e)]
         \/ /\ e.from # e.to
            /\ \A k \in DOMAIN edges : Triple(edges[k]) # Triple(e)
            /\ Added(edges, e) = Append(edges, e)
<1>1. (\E f \in Range(edges) : Triple(f) = Triple(e))
        <=> \E k \in DOMAIN edges : Triple(edges[k]) = Triple(e)
  BY Zenon DEF Range
<1> QED
  BY <1>1, Zenon DEF Added, Flagged

(* Adding an edge keeps the list's type. *)
LEMMA AddedType ==
  ASSUME NEW edges \in Seq(EdgeEntry), NEW e \in EdgeEntry
  PROVE  Added(edges, e) \in Seq(EdgeEntry)
<1> DEFINE merge == [i \in DOMAIN edges |->
             IF Triple(edges[i]) # Triple(e) THEN edges[i] ELSE Flagged(edges[i], e)]
<1>1. \A i \in DOMAIN edges : edges[i] \in EdgeEntry /\ Flagged(edges[i], e) \in EdgeEntry
  BY FlaggedIs
<1>2. merge \in Seq(EdgeEntry)
  BY <1>1
<1>3. Append(edges, e) \in Seq(EdgeEntry)
  OBVIOUS
<1> QED
  BY <1>2, <1>3, AddedIs

(* One step of the loop. *)
LEMMA AddedMerges ==
  ASSUME NEW edges \in Seq(EdgeEntry), NEW asked \in SUBSET EdgeEntry,
         NEW e \in EdgeEntry, Merged(edges, asked), e.from # e.to
  PROVE  Merged(Added(edges, e), asked \cup {e})
<1>1. \A i \in DOMAIN edges : edges[i] \in EdgeEntry
  OBVIOUS
<1>2. CASE \E k \in DOMAIN edges : Triple(edges[k]) = Triple(e)
  <2> DEFINE new == Added(edges, e)
  <2>1. new = [i \in DOMAIN edges |->
                 IF Triple(edges[i]) # Triple(e) THEN edges[i] ELSE Flagged(edges[i], e)]
    BY <1>2, AddedIs, Zenon
  <2>2. DOMAIN new = DOMAIN edges
    BY <2>1
  <2>3. \A i \in DOMAIN edges :
          /\ Triple(edges[i]) # Triple(e) => new[i] = edges[i]
          /\ Triple(edges[i]) = Triple(e) => new[i] = Flagged(edges[i], e)
    BY <2>1
  <2> HIDE DEF new
  <2>4. \A i \in DOMAIN edges :
          /\ Triple(new[i]) = Triple(edges[i])
          /\ new[i].sync <=> edges[i].sync \/ (Triple(edges[i]) = Triple(e) /\ e.sync)
          /\ new[i].ensure <=> edges[i].ensure \/ (Triple(edges[i]) = Triple(e) /\ e.ensure)
    <3> SUFFICES ASSUME NEW i \in DOMAIN edges
                 PROVE
          /\ Triple(new[i]) = Triple(edges[i])
          /\ new[i].sync <=> edges[i].sync \/ (Triple(edges[i]) = Triple(e) /\ e.sync)
          /\ new[i].ensure <=> edges[i].ensure \/ (Triple(edges[i]) = Triple(e) /\ e.ensure)
      OBVIOUS
    <3>1. CASE Triple(edges[i]) # Triple(e)
      BY <2>3, <3>1, Zenon
    <3>2. CASE Triple(edges[i]) = Triple(e)
      <4>1. new[i] = Flagged(edges[i], e) /\ edges[i] \in EdgeEntry
        BY <1>1, <2>3, <3>2
      <4>2. /\ Triple(Flagged(edges[i], e)) = Triple(edges[i])
            /\ Flagged(edges[i], e).sync <=> edges[i].sync \/ e.sync
            /\ Flagged(edges[i], e).ensure <=> edges[i].ensure \/ e.ensure
        BY <4>1, FlaggedIs
      <4> QED
        BY <3>2, <4>1, <4>2, Zenon
    <3> QED
      BY <3>1, <3>2
  <2>5. Merged(new, asked \cup {e})
    BY <1>2, <2>2, <2>4, Zenon DEF Merged
  <2> QED
    BY <2>5 DEF new
<1>3. CASE \A k \in DOMAIN edges : Triple(edges[k]) # Triple(e)
  <2> DEFINE new == Added(edges, e)
             last == Len(edges) + 1
  <2>1. new = Append(edges, e)
    BY <1>3, AddedIs, Zenon
  <2>2. /\ DOMAIN new = DOMAIN edges \cup {last} /\ last \notin DOMAIN edges
        /\ new[last] = e
        /\ \A i \in DOMAIN edges : new[i] = edges[i]
    BY <2>1
  <2>3. \A f \in asked : Triple(f) # Triple(e)
    BY <1>3, Zenon DEF Merged
  <2> HIDE DEF new, last
  <2>4. Merged(new, asked \cup {e})
    <3>1. \A i, j \in DOMAIN new : Triple(new[i]) = Triple(new[j]) => i = j
      BY <1>3, <2>2, Zenon DEF Merged
    <3>2. ASSUME NEW i \in DOMAIN edges
          PROVE  /\ \E f \in asked \cup {e} : Triple(f) = Triple(new[i])
                 /\ new[i].sync <=>
                      \E f \in asked \cup {e} : Triple(f) = Triple(new[i]) /\ f.sync
                 /\ new[i].ensure <=>
                      \E f \in asked \cup {e} : Triple(f) = Triple(new[i]) /\ f.ensure
      <4>1. new[i] = edges[i] /\ Triple(e) # Triple(edges[i])
        BY <1>3, <2>2
      <4> QED
        BY <4>1, Zenon DEF Merged
    <3>3. /\ \E f \in asked \cup {e} : Triple(f) = Triple(new[last])
          /\ new[last].sync <=>
               \E f \in asked \cup {e} : Triple(f) = Triple(new[last]) /\ f.sync
          /\ new[last].ensure <=>
               \E f \in asked \cup {e} : Triple(f) = Triple(new[last]) /\ f.ensure
      BY <2>2, <2>3, Zenon
    <3>4. \A f \in asked \cup {e} : \E i \in DOMAIN new : Triple(new[i]) = Triple(f)
      BY <2>2, Zenon DEF Merged
    <3> QED
      BY <2>2, <3>1, <3>2, <3>3, <3>4, Zenon DEF Merged
  <2> QED
    BY <2>4 DEF new
<1> QED
  BY <1>2, <1>3

(* The edges of a merge are exactly the ones EdgesAsMapped builds. *)
LEMMA MergedIsAsMapped ==
  ASSUME NEW edges \in Seq(EdgeEntry), NEW asked \in SUBSET EdgeEntry,
         Merged(edges, asked)
  PROVE  Range(edges) =
           {Edge(e.from, e.pred, e.to,
                 \E f \in asked : Triple(f) = Triple(e) /\ f.sync,
                 \E f \in asked : Triple(f) = Triple(e) /\ f.ensure) : e \in asked}
<1> DEFINE s(e) == \E f \in asked : Triple(f) = Triple(e) /\ f.sync
           n(e) == \E f \in asked : Triple(f) = Triple(e) /\ f.ensure
<1>1. \A e : s(e) \in BOOLEAN /\ n(e) \in BOOLEAN
  BY Zenon
<1>2. ASSUME NEW i \in DOMAIN edges, NEW e \in asked, Triple(e) = Triple(edges[i])
      PROVE  edges[i] = Edge(e.from, e.pred, e.to, s(e), n(e))
  <2>1. edges[i] \in EdgeEntry /\ e \in EdgeEntry
    OBVIOUS
  <2>2. edges[i].from = e.from /\ edges[i].pred = e.pred /\ edges[i].to = e.to
    BY <1>2 DEF Triple
  <2>3. (edges[i].sync <=> s(e)) /\ (edges[i].ensure <=> n(e))
    BY <1>2, Zenon DEF Merged
  <2>4. edges[i].sync \in BOOLEAN /\ edges[i].ensure \in BOOLEAN
    BY <2>1 DEF EdgeEntry
  <2>5. edges[i].sync = s(e) /\ edges[i].ensure = n(e)
    BY <1>1, <2>3, <2>4, Zenon
  <2> HIDE DEF s, n
  <2> QED
    BY <2>1, <2>2, <2>5 DEF EdgeEntry, Edge
<1> HIDE DEF s, n
<1>3. ASSUME NEW x \in Range(edges)
      PROVE  \E e \in asked : x = Edge(e.from, e.pred, e.to, s(e), n(e))
  <2>1. PICK i \in DOMAIN edges : x = edges[i]
    BY DEF Range
  <2>2. PICK e \in asked : Triple(e) = Triple(edges[i])
    BY Zenon DEF Merged
  <2> QED
    BY <1>2, <2>1, <2>2
<1>4. ASSUME NEW e \in asked
      PROVE  Edge(e.from, e.pred, e.to, s(e), n(e)) \in Range(edges)
  <2>1. PICK i \in DOMAIN edges : Triple(edges[i]) = Triple(e)
    BY Zenon DEF Merged
  <2> QED
    BY <1>2, <2>1 DEF Range
<1>5. Range(edges) = {Edge(e.from, e.pred, e.to, s(e), n(e)) : e \in asked}
  BY <1>3, <1>4, Zenon
<1> QED
  BY <1>5, Zenon DEF s, n

(* The mapping's inductive invariant. *)
MappingInv ==
  /\ MappingTypeOK
  /\ CeilingsPassed
  /\ SyncIsParent
  /\ Merged(mapEdges, AskedFor)

(* An entry for a parent, or one that asks for no inheritance, keeps the   *)
(* loop's invariant.                                                       *)
LEMMA AddEdgeKeeps ==
  ASSUME MappingTypeOK, SyncIsParent, Merged(mapEdges, AskedFor),
         NEW e \in EdgeEntry, e.sync => e.pred = "parent", AddEdge(e)
  PROVE  /\ mapEdges' \in Seq(EdgeEntry) /\ mapAsked' \in Seq(EdgeEntry)
         /\ SyncIsParent'
         /\ Merged(mapEdges, AskedFor)'
<1> USE DEF MappingTypeOK
<1>1. mapEdges' = Added(mapEdges, e) /\ mapAsked' = Append(mapAsked, e)
  BY DEF AddEdge
<1>2. mapEdges' \in Seq(EdgeEntry) /\ mapAsked' \in Seq(EdgeEntry)
  BY <1>1, AddedType
<1>3. AskedFor \in SUBSET EdgeEntry
  BY DEF AskedFor, Range
<1>4. AskedFor' = IF e.from = e.to THEN AskedFor ELSE AskedFor \cup {e}
  BY <1>1, RangeOfAppend DEF AskedFor
<1>5. Merged(mapEdges, AskedFor)'
  <2>1. CASE e.from = e.to
    <3>1. mapEdges' = mapEdges /\ AskedFor' = AskedFor
      BY <1>1, <1>4, <2>1, AddedIs
    <3> QED
      BY <3>1 DEF Merged
  <2>2. CASE e.from # e.to
    <3>1. Merged(Added(mapEdges, e), AskedFor \cup {e})
      BY <1>3, <2>2, AddedMerges
    <3> QED
      BY <1>1, <1>4, <2>2, <3>1 DEF Merged
  <2> QED
    BY <2>1, <2>2
<1>6. SyncIsParent'
  <2>1. CASE mapEdges' = mapEdges
    BY <2>1 DEF SyncIsParent
  <2>2. CASE mapEdges' = [i \in DOMAIN mapEdges |->
               IF Triple(mapEdges[i]) # Triple(e) THEN mapEdges[i]
               ELSE Flagged(mapEdges[i], e)]
    <3> SUFFICES ASSUME NEW i \in DOMAIN mapEdges, mapEdges'[i].sync
                 PROVE  mapEdges'[i].pred = "parent"
      BY <2>2 DEF SyncIsParent
    <3>1. CASE Triple(mapEdges[i]) # Triple(e)
      BY <2>2, <3>1 DEF SyncIsParent
    <3>2. CASE Triple(mapEdges[i]) = Triple(e)
      <4>1. mapEdges'[i] = Flagged(mapEdges[i], e) /\ mapEdges[i] \in EdgeEntry
        BY <2>2, <3>2
      <4>2. mapEdges'[i].pred = mapEdges[i].pred /\ (mapEdges[i].sync \/ e.sync)
        BY <4>1, FlaggedIs
      <4>3. mapEdges[i].pred = e.pred
        BY <3>2 DEF Triple
      <4> QED
        BY <4>2, <4>3 DEF SyncIsParent
    <3> QED
      BY <3>1, <3>2
  <2>3. CASE mapEdges' = Append(mapEdges, e)
    BY <2>3 DEF SyncIsParent
  <2> QED
    BY <1>1, <2>1, <2>2, <2>3, AddedIs
<1> QED
  BY <1>2, <1>5, <1>6

(* The invariant holds at every step of a mapping. *)
LEMMA MappingInvHolds == MappingSpec => []MappingInv
<1> USE MappingAssumption
<1>1. MappingInit => MappingInv
  <2> SUFFICES ASSUME MappingInit PROVE MappingInv
    OBVIOUS
  <2>1. AskedFor = {}
    <3>1. mapAsked = <<>>
      BY Zenon DEF MappingInit
    <3>2. DOMAIN mapAsked = {}
      BY <3>1, EmptySequence, Zenon
    <3> QED
      BY <3>2, Zenon DEF AskedFor, Range
  <2>2. mapEdges = <<>> /\ DOMAIN mapEdges = {}
    <3>1. mapEdges = <<>>
      BY Zenon DEF MappingInit
    <3> QED
      BY <3>1, EmptySequence, Zenon
  <2>3. mapStore \in {"memory", "postgres"} /\ given = SourceCeilings(mapStore, registered)
    BY DEF MappingInit
  <2>4. mapPc = "fields" /\ mapped.ref = NoRef /\ mapAsked = <<>>
    BY DEF MappingInit
  <2>5. MappingTypeOK
    <3>1. mapEdges \in Seq(EdgeEntry) /\ mapAsked \in Seq(EdgeEntry)
      BY <2>2, <2>4, EmptySequence, Zenon
    <3> QED
      BY <2>3, <2>4, <3>1 DEF MappingTypeOK
  <2>6. CeilingsPassed /\ SyncIsParent
    BY <2>2, <2>4 DEF CeilingsPassed, SyncIsParent
  <2>7. Merged(mapEdges, AskedFor)
    BY <2>1, <2>2, Zenon DEF Merged
  <2> QED
    BY <2>5, <2>6, <2>7 DEF MappingInv
<1>2. MappingInv /\ [MappingNext]_mapVars => MappingInv'
  <2> SUFFICES ASSUME MappingInv, [MappingNext]_mapVars PROVE MappingInv'
    OBVIOUS
  <2> USE DEF MappingInv
  <2>1. ASSUME UNCHANGED <<mapEdges, mapAsked>>
        PROVE  /\ mapEdges' \in Seq(EdgeEntry) /\ mapAsked' \in Seq(EdgeEntry)
               /\ SyncIsParent' /\ Merged(mapEdges, AskedFor)'
    BY <2>1 DEF MappingTypeOK, SyncIsParent, AskedFor, Merged
  <2>2. ASSUME NEW claim, NEW ref \in VisRef \cup {NoRef}, NEW orgOk, NEW timesOk,
               NEW railsOk, NEW typeOk,
               ApplyFields(claim, ref, orgOk, timesOk, railsOk, typeOk)
        PROVE MappingInv'
    <3>1. UNCHANGED <<mapEdges, mapAsked, mapStore, registered, given>>
      BY <2>2 DEF ApplyFields, RefuseMapping, sourceOfMap
    <3>2. \/ /\ mapPc' = "parent" /\ mapped'.ref = ref
             /\ EnforceCeilings(mapped'.grade, mapped'.ref, given')
          \/ mapPc' = "refused" /\ UNCHANGED mapped
      <4> DEFINE out == WithDefaults(claim, given.ceil)
      <4>1. CASE EnforceCeilings(out, ref, given) /\ mapPc' = "parent"
                   /\ mapped' = [grade |-> out, ref |-> ref]
        <5> HIDE DEF out
        <5>1. mapped'.grade = out /\ mapped'.ref = ref
          BY <4>1
        <5> QED
          BY <3>1, <4>1, <5>1
      <4>2. CASE RefuseMapping
        BY <4>2 DEF RefuseMapping
      <4> QED
        BY <2>2, <4>1, <4>2, Zenon DEF ApplyFields
    <3>3. MappingTypeOK'
      BY <2>1, <3>1, <3>2 DEF MappingTypeOK
    <3>4. CeilingsPassed'
      BY <3>1, <3>2 DEF CeilingsPassed
    <3> QED
      BY <2>1, <3>1, <3>3, <3>4
  <2>3. ASSUME NEW parent \in MapId \cup {""}, MapParent(parent) PROVE MappingInv'
    <3>1. mapPc = "parent" /\ mapPc' = "edges" /\ UNCHANGED <<mapStore, registered, given, mapped>>
      BY <2>3 DEF MapParent, sourceOfMap
    <3>2. CeilingsPassed'
      BY <3>1 DEF CeilingsPassed, EnforceCeilings
    <3>3. CASE parent = ""
      <4>1. UNCHANGED <<mapEdges, mapAsked>>
        BY <2>3, <3>3 DEF MapParent
      <4> QED
        BY <2>1, <3>1, <3>2, <4>1 DEF MappingTypeOK
    <3>4. CASE parent # ""
      <4> DEFINE e == Edge(Self, "parent", parent, FALSE, TRUE)
      <4>1. e \in EdgeEntry /\ e.pred = "parent"
        BY ParentEdgeIs, Zenon
      <4>2. AddEdge(e)
        BY <2>3, <3>4 DEF MapParent
      <4> QED
        BY <3>1, <3>2, <4>1, <4>2, AddEdgeKeeps DEF MappingTypeOK
    <3> QED
      BY <3>3, <3>4
  <2>4. ASSUME NEW em \in EdgeMappings, NEW confidenceOk \in BOOLEAN,
               MapEdge(em, confidenceOk)
        PROVE MappingInv'
    <3> DEFINE pred == IF em.pred = "" THEN "parent" ELSE em.pred
               from == IF em.from = "" THEN Self ELSE em.from
               e == Edge(from, pred, em.to, em.sync, em.ensure)
    <3>1. mapPc = "edges" /\ UNCHANGED <<mapStore, registered, given, mapped>>
      BY <2>4 DEF MapEdge, RefuseMapping, sourceOfMap
    <3>2. CASE /\ em.sync => pred = "parent"
               /\ AddEdge(e) /\ UNCHANGED mapPc
      <4>1. e \in EdgeEntry /\ e.pred = pred /\ e.sync = em.sync
        <5>1. /\ em.from \in MapId \cup {""} /\ em.to \in MapId \cup {""}
              /\ em.sync \in BOOLEAN /\ em.ensure \in BOOLEAN
          OBVIOUS
        <5>2. from \in MapId \cup {""} /\ pred \in Predicates
          BY <5>1, Zenon DEF Predicates
        <5> HIDE DEF from, pred
        <5> QED
          BY <5>1, <5>2 DEF Edge, EdgeEntry
      <4>2. /\ mapEdges' \in Seq(EdgeEntry) /\ mapAsked' \in Seq(EdgeEntry)
            /\ SyncIsParent' /\ Merged(mapEdges, AskedFor)'
        BY <3>2, <4>1, AddEdgeKeeps
      <4>3. CeilingsPassed'
        BY <3>1, <3>2 DEF CeilingsPassed, EnforceCeilings
      <4> QED
        BY <3>1, <3>2, <4>2, <4>3 DEF MappingTypeOK
    <3>3. CASE RefuseMapping
      BY <2>1, <3>1, <3>3 DEF RefuseMapping, MappingTypeOK, CeilingsPassed
    <3> QED
      BY <2>4, <3>2, <3>3 DEF MapEdge
  <2>5. CASE MapVisibility
    <3>1. mapPc = "edges" /\ mapPc' = "sync" /\ UNCHANGED <<mapStore, registered, given, mapped>>
      BY <2>5 DEF MapVisibility, sourceOfMap
    <3>2. CeilingsPassed'
      BY <3>1 DEF CeilingsPassed, EnforceCeilings
    <3>3. CASE UNCHANGED <<mapEdges, mapAsked>>
      BY <2>1, <3>1, <3>2, <3>3 DEF MappingTypeOK
    <3>4. CASE /\ mapped.ref # NoRef
               /\ AddEdge(Edge(Self, "parent", RefTarget(mapped.ref), FALSE, TRUE))
      <4> DEFINE e == Edge(Self, "parent", RefTarget(mapped.ref), FALSE, TRUE)
      <4>1. RefTarget(mapped.ref) \in MapId
        BY <3>4 DEF RefTarget, MappingTypeOK
      <4>2. e \in EdgeEntry /\ e.pred = "parent"
        BY <4>1, ParentEdgeIs, Zenon
      <4> QED
        BY <3>1, <3>2, <3>4, <4>2, AddEdgeKeeps DEF MappingTypeOK
    <3> QED
      BY <2>5, <3>3, <3>4 DEF MapVisibility
  <2>6. CASE EnforceParentSync
    <3>1. UNCHANGED <<mapStore, registered, given, mapped, mapEdges, mapAsked>>
          /\ mapPc = "sync"
      BY <2>6 DEF EnforceParentSync, sourceOfMap
    <3>2. \/ mapPc' = "refused"
          \/ /\ mapPc' = "accepted"
             /\ \A e \in Range(mapEdges) : e.sync => ParentAllowed(e.to, given.allow)
      BY <2>6 DEF EnforceParentSync
    <3>3. MappingTypeOK'
      BY <3>1, <3>2 DEF MappingTypeOK
    <3>4. CeilingsPassed'
      BY <3>1, <3>2 DEF CeilingsPassed, EnforceCeilings, Range, ParentAllowed
    <3> QED
      BY <2>1, <3>1, <3>3, <3>4
  <2>7. CASE UNCHANGED mapVars
    BY <2>1, <2>7 DEF mapVars, sourceOfMap, MappingTypeOK, CeilingsPassed, EnforceCeilings, ParentAllowed
  <2> QED
    BY <2>2, <2>3, <2>4, <2>5, <2>6, <2>7 DEF MappingNext
<1> QED
  BY <1>1, <1>2, PTL DEF MappingSpec

(* An accepted payload never claims more than what is stored of its        *)
(* source's registration allows: for any specification, registration and   *)
(* payload, in both stores.                                                *)
THEOREM MappedWithinRegistrationAlways == MappingSpec => []MappedWithinRegistration
<1>1. MappingInv => MappedWithinRegistration
  <2> SUFFICES ASSUME MappingInv PROVE MappedWithinRegistration
    OBVIOUS
  <2>0. mapPc = "accepted" => \A g \in Grades : Within(g, given.ceil[g])
    <3> SUFFICES ASSUME mapPc = "accepted", NEW g \in Grades, given.ceil[g] # ""
                 PROVE  Rank(g, mapped.grade[g]) \in 1 .. Rank(g, given.ceil[g])
      BY DEF Within
    <3> DEFINE o == Rank(g, mapped.grade[g])
               c == Rank(g, given.ceil[g])
    <3>1. o >= 0 /\ c >= 0 /\ o <= c
      BY DEF MappingInv, CeilingsPassed, EnforceCeilings
    <3>2. o \in Int /\ c \in Int /\ o # 0
      BY RankType, Zenon
    <3> HIDE DEF o, c
    <3>3. o \in 1 .. c
      BY <3>1, <3>2, FromOneTo, Zenon
    <3> QED
      BY <3>3 DEF o, c
  <2>g. /\ mapStore = "memory" =>
             given.ceil = registered.ceil /\ given.allow = registered.allow
        /\ mapStore # "memory" =>
             /\ given.ceil["trust"] = registered.tier
             /\ given.ceil["classification"] = "internal"
             /\ given.allow = {}
    BY DEF MappingInv, MappingTypeOK, SourceCeilings
  <2>1. MappedWithinCeilings
    BY <2>0, <2>g DEF MappedWithinCeilings, Grades
  <2>2. SyncOnlyWhereListed
    BY <2>g DEF MappingInv, MappingTypeOK, CeilingsPassed, SyncIsParent,
           SyncOnlyWhereListed, ParentAllowed, Range
  <2> QED
    BY <2>1, <2>2 DEF MappedWithinRegistration
<1> QED
  BY <1>1, MappingInvHolds, PTL

(* The loop that merges the edges computes one edge for each triple asked  *)
(* for, with the flags of all its entries: for any number of entries.      *)
THEOREM EdgesAsMappedAlways == MappingSpec => []EdgesAsMapped
<1>1. MappingInv => EdgesAsMapped
  <2> SUFFICES ASSUME MappingInv PROVE EdgesAsMapped
    OBVIOUS
  <2>1. AskedFor \in SUBSET EdgeEntry /\ mapEdges \in Seq(EdgeEntry)
    BY DEF MappingInv, MappingTypeOK, AskedFor, Range
  <2>2. Range(mapEdges) =
          {Edge(e.from, e.pred, e.to,
                \E f \in AskedFor : Triple(f) = Triple(e) /\ f.sync,
                \E f \in AskedFor : Triple(f) = Triple(e) /\ f.ensure) : e \in AskedFor}
    BY <2>1, MergedIsAsMapped DEF MappingInv
  <2>3. \A i, j \in DOMAIN mapEdges : Triple(mapEdges[i]) = Triple(mapEdges[j]) => i = j
    BY DEF MappingInv, Merged
  <2> QED
    BY <2>2, <2>3, Zenon DEF EdgesAsMapped, AskedFor
<1> QED
  BY <1>1, MappingInvHolds, PTL

-----------------------------------------------------------------------------
(* The connection pool *)

(* The transactions that hold a connection, and those that hold a second. *)
Connected == {t \in Tx : txPc[t] \notin {"idle", "done"}}
Listing == {t \in Tx : txPc[t] = "listing"}

(* Values of the state of the pool and its transactions. *)
PoolTypeOK ==
  /\ poolFree \in Nat
  /\ rowLock \in [Row -> SUBSET Tx]
  /\ txPc \in [Tx -> {"idle", "lock", "ensure", "parent", "list", "listing",
                      "commit", "done"}]

(* Who holds a row is past locking it and not through; a deletion holds    *)
(* its row while it lists; only intakes look for a parent.                 *)
LocksHeld ==
  /\ \A r \in Row : \A t \in rowLock[r] :
       txPc[t] \in {"ensure", "parent", "list", "listing", "commit"}
  /\ \A t \in Tx :
       /\ txPc[t] \in {"list", "listing"} => t \in SagaTx /\ t \in rowLock[RowOf[t]]
       /\ txPc[t] \in {"ensure", "parent"} => t \in IntakeTx

(* Every connection is free, or is the first or the second of someone. *)
ConnectionsAccounted ==
  /\ IsFiniteSet(Connected) /\ IsFiniteSet(Listing)
  /\ poolFree + Cardinality(Connected) + Cardinality(Listing) = PoolSize

PoolInv == PoolTypeOK /\ LocksHeld /\ ConnectionsAccounted

(* A transaction takes its first connection, gives it back, or takes or    *)
(* gives back its second.                                                  *)
LEMMA ConnectionTaken ==
  ASSUME PoolInv, NEW t \in Tx, txPc[t] = "idle", Moves(t, "lock"),
         poolFree' = poolFree - 1
  PROVE  ConnectionsAccounted'
<1> USE DEF PoolInv, PoolTypeOK, ConnectionsAccounted
<1>1. Connected' = Connected \cup {t} /\ t \notin Connected
  BY DEF Connected, Moves
<1>2. Listing' = Listing
  BY DEF Listing, Moves
<1>3. IsFiniteSet(Connected') /\ Cardinality(Connected') = Cardinality(Connected) + 1
  BY <1>1, FS_AddElement
<1>4. Cardinality(Connected) \in Nat /\ Cardinality(Listing) \in Nat
  BY FS_CardinalityType
<1> QED
  BY <1>2, <1>3, <1>4, PoolAssumption

(* A transaction that ends gives one connection back. *)
LEMMA ConnectionReturned ==
  ASSUME PoolInv, NEW t \in Connected, t \notin Listing, Moves(t, "done"),
         poolFree' = poolFree + 1
  PROVE  ConnectionsAccounted'
<1> USE DEF PoolInv, PoolTypeOK, ConnectionsAccounted
<1>1. Connected' = Connected \ {t}
  BY DEF Connected, Moves
<1>2. Listing' = Listing
  BY DEF Connected, Listing, Moves
<1>3. IsFiniteSet(Connected') /\ Cardinality(Connected') = Cardinality(Connected) - 1
  BY <1>1, FS_RemoveElement
<1>4. Cardinality(Connected) \in Nat /\ Cardinality(Listing) \in Nat
  BY FS_CardinalityType
<1> QED
  BY <1>2, <1>3, <1>4, PoolAssumption

(* A transaction that lists takes a second connection. *)
LEMMA SecondTaken ==
  ASSUME PoolInv, NEW t \in Tx, txPc[t] = "list", Moves(t, "listing"),
         poolFree' = poolFree - 1
  PROVE  ConnectionsAccounted'
<1> USE DEF PoolInv, PoolTypeOK, ConnectionsAccounted
<1>1. Listing' = Listing \cup {t} /\ t \notin Listing
  BY DEF Listing, Moves
<1>2. Connected' = Connected
  BY DEF Connected, Moves
<1>3. IsFiniteSet(Listing') /\ Cardinality(Listing') = Cardinality(Listing) + 1
  BY <1>1, FS_AddElement
<1>4. Cardinality(Connected) \in Nat /\ Cardinality(Listing) \in Nat
  BY FS_CardinalityType
<1> QED
  BY <1>2, <1>3, <1>4, PoolAssumption

(* A listing that ends gives the second connection back. *)
LEMMA SecondReturned ==
  ASSUME PoolInv, NEW t \in Listing, Moves(t, "commit"), poolFree' = poolFree + 1
  PROVE  ConnectionsAccounted'
<1> USE DEF PoolInv, PoolTypeOK, ConnectionsAccounted
<1>1. Listing' = Listing \ {t}
  BY DEF Listing, Moves
<1>2. Connected' = Connected
  BY DEF Connected, Listing, Moves
<1>3. IsFiniteSet(Listing') /\ Cardinality(Listing') = Cardinality(Listing) - 1
  BY <1>1, FS_RemoveElement
<1>4. Cardinality(Connected) \in Nat /\ Cardinality(Listing) \in Nat
  BY FS_CardinalityType
<1> QED
  BY <1>2, <1>3, <1>4, PoolAssumption

(* The invariant holds whatever the transactions do. *)
LEMMA PoolInvHolds == PoolSpec => []PoolInv
<1> USE PoolAssumption
<1>1. PoolInit => PoolInv
  <2> SUFFICES ASSUME PoolInit PROVE PoolInv
    OBVIOUS
  <2>1. PoolTypeOK /\ LocksHeld
    BY DEF PoolInit, PoolTypeOK, LocksHeld, Tx
  <2>2. Connected = {} /\ Listing = {}
    BY DEF PoolInit, Connected, Listing
  <2>3. ConnectionsAccounted
    BY <2>2, FS_EmptySet DEF PoolInit, ConnectionsAccounted
  <2> QED
    BY <2>1, <2>3 DEF PoolInv
<1>2. PoolInv /\ [PoolNext]_poolVars => PoolInv'
  <2> SUFFICES ASSUME PoolInv, [PoolNext]_poolVars PROVE PoolInv'
    OBVIOUS
  <2> USE DEF PoolTypeOK
  <2>1. ASSUME NEW t \in Tx, BeginTx(t) PROVE PoolInv'
    <3>1. ConnectionsAccounted'
      BY <2>1, ConnectionTaken DEF BeginTx
    <3>2. PoolTypeOK' /\ LocksHeld'
      BY <2>1 DEF PoolInv, BeginTx, Moves, LocksHeld
    <3> QED
      BY <3>1, <3>2 DEF PoolInv
  <2>2. ASSUME NEW t \in Tx, LockRow(t) PROVE PoolInv'
    <3> USE <2>2 DEF LockRow, Moves
    <3>1. RowOf[t] \in Row /\ rowLock[RowOf[t]] \subseteq {t}
      BY DEF BlockedBy, Wanted, Tx
    <3>2. PoolTypeOK'
      BY <3>1 DEF PoolInv
    <3>3. LocksHeld'
      BY <3>1 DEF PoolInv, LocksHeld, Tx
    <3>4. Connected' = Connected /\ Listing' = Listing
      BY DEF PoolInv, Connected, Listing
    <3> QED
      BY <3>2, <3>3, <3>4 DEF PoolInv, ConnectionsAccounted
  <2>3. ASSUME NEW t \in Tx, t \in IntakeTx, FindParent(t) PROVE PoolInv'
    <3> USE <2>3 DEF FindParent, Moves
    <3>1. PoolTypeOK' /\ LocksHeld'
      BY DEF PoolInv, LocksHeld
    <3>2. Connected' = Connected /\ Listing' = Listing
      BY DEF PoolInv, Connected, Listing
    <3> QED
      BY <3>1, <3>2 DEF PoolInv, ConnectionsAccounted
  <2>4. ASSUME NEW t \in Tx, t \in IntakeTx, InsertParent(t) PROVE PoolInv'
    <3> USE <2>4 DEF InsertParent, Moves
    <3>1. ParentOf[t] \in Row /\ rowLock[ParentOf[t]] \subseteq {t}
      BY DEF BlockedBy, Wanted
    <3>2. PoolTypeOK'
      BY <3>1 DEF PoolInv
    <3>3. LocksHeld'
      BY <3>1 DEF PoolInv, LocksHeld, Tx
    <3>4. Connected' = Connected /\ Listing' = Listing
      BY DEF PoolInv, Connected, Listing
    <3> QED
      BY <3>2, <3>3, <3>4 DEF PoolInv, ConnectionsAccounted
  <2>5. ASSUME NEW t \in Tx, ListEdgesBegin(t) PROVE PoolInv'
    <3>1. ConnectionsAccounted'
      BY <2>5, SecondTaken DEF ListEdgesBegin
    <3>2. PoolTypeOK' /\ LocksHeld'
      BY <2>5 DEF PoolInv, ListEdgesBegin, Moves, LocksHeld
    <3> QED
      BY <3>1, <3>2 DEF PoolInv
  <2>6. ASSUME NEW t \in Tx, ListEdgesEnd(t) PROVE PoolInv'
    <3>1. ConnectionsAccounted'
      BY <2>6, SecondReturned DEF ListEdgesEnd, Listing
    <3>2. PoolTypeOK' /\ LocksHeld'
      BY <2>6 DEF PoolInv, ListEdgesEnd, Moves, LocksHeld
    <3> QED
      BY <3>1, <3>2 DEF PoolInv
  <2>7. ASSUME NEW t \in Tx, t \in Connected, t \notin Listing, Moves(t, "done"),
               poolFree' = poolFree + 1, rowLock' = Unlocked(t)
        PROVE PoolInv'
    <3>1. ConnectionsAccounted'
      BY <2>7, ConnectionReturned
    <3>2. PoolTypeOK' /\ LocksHeld'
      BY <2>7 DEF PoolInv, Moves, LocksHeld, Unlocked, Tx
    <3> QED
      BY <3>1, <3>2 DEF PoolInv
  <2>8. ASSUME NEW t \in Tx, CommitTx(t) PROVE PoolInv'
    BY <2>7, <2>8 DEF CommitTx, Connected, Listing
  <2>9. ASSUME NEW t \in Tx, DeadlockDetected(t) PROVE PoolInv'
    <3>1. BlockedBy(t) # {}
      BY <2>9 DEF DeadlockDetected, Circle
    <3>2. t \in Connected /\ t \notin Listing
      BY <3>1 DEF BlockedBy, Wanted, Connected, Listing
    <3> QED
      BY <2>7, <2>9, <3>2 DEF DeadlockDetected, AbortTx
  <2>10. CASE UNCHANGED poolVars
    BY <2>10 DEF poolVars, PoolInv, LocksHeld, ConnectionsAccounted, Connected, Listing
  <2> QED
    BY <2>1, <2>2, <2>3, <2>4, <2>5, <2>6, <2>8, <2>9, <2>10 DEF PoolNext
<1> QED
  BY <1>1, <1>2, PTL DEF PoolSpec

(* Without a circle the blocked transactions lead to one that is not       *)
(* blocked at a row: the set of all blocked ones would be a circle.        *)
LEMMA BlockersEnd ==
  ASSUME PoolInv, Stuck
  PROVE  \E t \in Unfinished : txPc[t] # "idle" /\ BlockedBy(t) = {}
<1> USE PoolAssumption DEF PoolInv, PoolTypeOK
<1> DEFINE Blocked == {t \in Tx : BlockedBy(t) # {}}
<1>1. ASSUME NEW t \in Tx, NEW u \in BlockedBy(t)
      PROVE  u \in Unfinished /\ txPc[u] # "idle"
  <2>1. PICK r \in Wanted(t) : u \in rowLock[r]
    BY <1>1 DEF BlockedBy
  <2>2. r \in Row
    BY <2>1 DEF Wanted, LocksHeld, Tx
  <2> QED
    BY <2>1, <2>2 DEF LocksHeld, Unfinished
<1>2. CASE Blocked = {}
  <2>1. \A t \in Unfinished : BlockedBy(t) = {}
    BY <1>2 DEF Unfinished
  <2>2. poolFree = 0
    BY <2>1 DEF Stuck, Waits
  <2>3. Connected # {}
    <3> SUFFICES ASSUME Connected = {} PROVE FALSE
      OBVIOUS
    <3>1. Listing = {}
      BY DEF Connected, Listing
    <3> QED
      BY <2>2, <3>1, FS_EmptySet DEF ConnectionsAccounted
  <2> QED
    BY <2>1, <2>3 DEF Connected, Unfinished
<1>3. CASE Blocked # {}
  <2>1. ~Circle(Blocked)
    BY DEF Stuck
  <2>2. PICK t \in Blocked : BlockedBy(t) \cap Blocked = {}
    BY <1>3, <2>1 DEF Circle
  <2>3. PICK u \in BlockedBy(t) : u \notin Blocked
    BY <2>2
  <2>4. u \in Unfinished /\ txPc[u] # "idle"
    BY <1>1, <2>3
  <2> QED
    BY <2>3, <2>4 DEF Unfinished
<1> QED
  BY <1>2, <1>3

(* Everyone waits for everyone only when a deletion that holds its row     *)
(* waits for its second connection and all connections are taken: for any  *)
(* transactions, rows and size of the pool.                                *)
THEOREM StuckOnlyByDeletionAlways == PoolSpec => []StuckOnlyByDeletion
<1>1. PoolInv => StuckOnlyByDeletion
  <2> SUFFICES ASSUME PoolInv, Stuck
               PROVE  \E t \in SagaTx :
                        /\ txPc[t] = "list" /\ t \in rowLock[RowOf[t]]
                        /\ Cardinality({u \in Unfinished : txPc[u] # "idle"}) >= PoolSize
    BY DEF StuckOnlyByDeletion
  <2> USE PoolAssumption DEF PoolInv, PoolTypeOK
  <2>1. PICK t \in Unfinished : txPc[t] # "idle" /\ BlockedBy(t) = {}
    BY BlockersEnd
  <2>2. txPc[t] = "list" /\ poolFree = 0
    BY <2>1 DEF Stuck, Waits
  <2>3. t \in SagaTx /\ t \in rowLock[RowOf[t]]
    BY <2>1, <2>2 DEF LocksHeld, Unfinished
  <2>4. Listing = {}
    <3> SUFFICES ASSUME NEW u \in Listing PROVE FALSE
      OBVIOUS
    <3>1. u \in Unfinished /\ txPc[u] = "listing"
      BY DEF Listing, Unfinished
    <3>2. BlockedBy(u) = {}
      BY <3>1 DEF BlockedBy, Wanted
    <3> QED
      BY <3>1, <3>2 DEF Stuck, Waits
  <2>5. {u \in Unfinished : txPc[u] # "idle"} = Connected
    BY DEF Unfinished, Connected
  <2>6. Cardinality(Connected) = PoolSize
    BY <2>2, <2>4, FS_EmptySet, FS_CardinalityType DEF ConnectionsAccounted
  <2>7. Cardinality(Connected) >= PoolSize
    BY <2>6
  <2> QED
    BY <2>2, <2>3, <2>5, <2>7, Zenon
<1> QED
  BY <1>1, PoolInvHolds, PTL

-----------------------------------------------------------------------------
(* Migrations *)

(* The versions before v. *)
Before(v) == {w \in Version : w < v}

(* Values of the runner's state. *)
MigrateTypeOK ==
  /\ applied \in SUBSET Version
  /\ recorded \in SUBSET Version
  /\ inForce \in Nat
  /\ granted \in SUBSET Version
  /\ migRun \in [MigrateRun ->
       [pc : {"idle", "check", "exec", "record", "grant", "done", "ungranted"}, at : Nat]]
  /\ probe \in Nat
  /\ roleExists \in BOOLEAN
  /\ migOverlap \in BOOLEAN

(* A version is recorded after its file was executed and after every       *)
(* earlier one was recorded, by this run or by another: whoever has come   *)
(* to a version has found, or left, the ones before it.                    *)
RecordedInOrder ==
  /\ recorded \subseteq applied
  /\ \A v \in recorded : Before(v) \subseteq recorded
  /\ \A r \in MigrateRun :
       /\ migRun[r].pc \in {"check", "exec", "record"} =>
            migRun[r].at \in Version /\ Before(migRun[r].at) \subseteq recorded
       /\ migRun[r].pc = "record" => migRun[r].at \in applied
       /\ migRun[r].pc \in {"grant", "done", "ungranted"} => recorded = Version
       /\ migRun[r].pc = "done" => granted = Version
  /\ probe \in Version => Before(probe) \subseteq recorded
  /\ probe \notin Version /\ probe # 0 => recorded = Version

(* While no two runs were under way at once, a run executes only a file    *)
(* newer than all that are recorded.                                       *)
SerialRuns ==
  ~migOverlap =>
    /\ \A r, s \in RunsUnderWay : r = s
    /\ \A r \in MigrateRun :
         migRun[r].pc \in {"exec", "record"} =>
           \A v \in recorded : v < migRun[r].at
    /\ \A r \in MigrateRun :
         migRun[r].pc = "record" /\ migRun[r].at \in Replaces => inForce = migRun[r].at
    /\ OlderOnlyByOverlap

MigrateInv == MigrateTypeOK /\ RecordedInOrder /\ SerialRuns

(* The two ways on from a version: the next one, or the grants. *)
LEMMA NextFileMoves ==
  ASSUME NEW r \in MigrateRun, NEW v \in Version, NextFile(r, v)
  PROVE  \/ /\ v = LastVersion
            /\ migRun' = [migRun EXCEPT ![r] = [pc |-> "grant", at |-> v]]
            /\ Before(v) \cup {v} = Version
         \/ /\ v # LastVersion
            /\ migRun' = [migRun EXCEPT ![r] = [pc |-> "check", at |-> v + 1]]
            /\ v + 1 \in Version
            /\ Before(v + 1) = Before(v) \cup {v}
BY MigrateAssumption DEF NextFile, RunMoves, Before, Version

(* The invariant holds whatever the instances do. *)
LEMMA MigrateInvHolds == MigrateSpec => []MigrateInv
<1> USE MigrateAssumption
<1>1. MigrateInit => MigrateInv
  <2>1. MigrateInit => migOverlap \in BOOLEAN /\ roleExists \in BOOLEAN
    BY Zenon DEF MigrateInit
  <2>2. MigrateInit => MigrateTypeOK
    BY <2>1 DEF MigrateInit, MigrateTypeOK, IdleRun
  <2>3. MigrateInit => RecordedInOrder /\ SerialRuns
    BY DEF MigrateInit, RecordedInOrder, SerialRuns, OlderOnlyByOverlap, RunsUnderWay,
           AtRest, IdleRun, Before, Version
  <2> QED
    BY <2>2, <2>3 DEF MigrateInv
<1>2. MigrateInv /\ [MigrateNext]_migrateVars => MigrateInv'
  <2> SUFFICES ASSUME MigrateInv, [MigrateNext]_migrateVars PROVE MigrateInv'
    OBVIOUS
  <2> USE DEF MigrateInv, MigrateTypeOK, AtRest
  <2>1. ASSUME NEW r \in MigrateRun, RunStarts(r) PROVE MigrateInv'
    <3> USE <2>1 DEF RunStarts, RunMoves
    <3>1. migOverlap' \in BOOLEAN /\ (~migOverlap' => ~migOverlap /\ RunsUnderWay = {})
      BY Zenon
    <3>2. MigrateTypeOK'
      BY <3>1
    <3>3. 1 \in Version /\ Before(1) = {}
      BY DEF Before, Version
    <3>4. RecordedInOrder'
      BY <3>3 DEF RecordedInOrder
    <3>5. SerialRuns'
      BY <3>1 DEF SerialRuns, OlderOnlyByOverlap, RunsUnderWay
    <3> QED
      BY <3>2, <3>4, <3>5
  <2>2. ASSUME NEW r \in MigrateRun, CheckVersion(r) PROVE MigrateInv'
    <3> DEFINE v == migRun[r].at
    <3>1. v \in Version /\ Before(v) \subseteq recorded
      BY <2>2 DEF CheckVersion, RecordedInOrder
    <3>2. CASE v \in recorded
      <4>1. NextFile(r, v)
        BY <2>2, <3>2 DEF CheckVersion
      <4>2. MigrateTypeOK'
        BY <2>2, <3>1, <4>1, NextFileMoves DEF CheckVersion, Version
      <4>3. RecordedInOrder'
        <5>1. CASE v = LastVersion
          <6> HIDE DEF v
          <6>1. migRun' = [migRun EXCEPT ![r] = [pc |-> "grant", at |-> v]]
            BY <3>1, <4>1, <5>1, NextFileMoves
          <6>2. Before(v) \cup {v} = Version
            BY <3>1, <4>1, <5>1, NextFileMoves
          <6>3. recorded = Version
            BY <3>1, <3>2, <6>2
          <6> QED
            BY <2>2, <3>1, <6>1, <6>3 DEF CheckVersion, RecordedInOrder
        <5>2. CASE v # LastVersion
          BY <2>2, <3>1, <3>2, <4>1, <5>2, NextFileMoves DEF CheckVersion, RecordedInOrder
        <5> QED
          BY <5>1, <5>2
      <4>4. SerialRuns'
        BY <2>2, <3>1, <4>1, NextFileMoves DEF CheckVersion, SerialRuns,
           OlderOnlyByOverlap, RunsUnderWay
      <4> QED
        BY <4>2, <4>3, <4>4
    <3>3. CASE v \notin recorded
      <4>1. \A w \in recorded : w < v
        BY <3>1, <3>3 DEF RecordedInOrder, Before, Version
      <4> QED
        BY <2>2, <3>1, <3>3, <4>1 DEF CheckVersion, RunMoves, RecordedInOrder, SerialRuns,
           OlderOnlyByOverlap, RunsUnderWay
    <3> QED
      BY <3>2, <3>3
  <2>3. ASSUME NEW r \in MigrateRun, ExecFile(r) PROVE MigrateInv'
    <3> USE <2>3 DEF ExecFile, RunMoves
    <3>1. migRun[r].at \in Version
      BY DEF RecordedInOrder
    <3>2. MigrateTypeOK'
      BY <3>1 DEF Version
    <3>3. RecordedInOrder'
      BY <3>1 DEF RecordedInOrder
    <3>4. SerialRuns'
      BY <3>1 DEF SerialRuns, OlderOnlyByOverlap, RunsUnderWay, Version
    <3> QED
      BY <3>2, <3>3, <3>4
  <2>4. ASSUME NEW r \in MigrateRun, RecordVersion(r) PROVE MigrateInv'
    <3> DEFINE v == migRun[r].at
    <3>1. v \in Version /\ Before(v) \subseteq recorded /\ v \in applied
      BY <2>4 DEF RecordVersion, RecordedInOrder
    <3>2. recorded' = recorded \cup {v}
      BY <2>4 DEF RecordVersion
    <3>3. CASE v \in recorded
      BY <2>4, <3>1, <3>2, <3>3 DEF RecordVersion, IdleRun, RecordedInOrder, SerialRuns,
         OlderOnlyByOverlap, RunsUnderWay
    <3>4. CASE v \notin recorded
      <4>1. NextFile(r, v)
        BY <2>4, <3>4 DEF RecordVersion
      <4>2. MigrateTypeOK'
        <5>1. recorded' \in SUBSET Version
          BY <3>1, <3>2
        <5>2. v \in Nat /\ v + 1 \in Nat
          BY <3>1 DEF Version
        <5> QED
          BY <2>4, <3>1, <4>1, <5>1, <5>2, NextFileMoves DEF RecordVersion
      <4>3. \A w \in recorded' : Before(w) \subseteq recorded'
        BY <3>1, <3>2 DEF RecordedInOrder
      <4>4. RecordedInOrder'
        BY <2>4, <3>1, <3>2, <4>1, <4>3, NextFileMoves DEF RecordVersion, RecordedInOrder
      <4>5. SerialRuns'
        BY <2>4, <3>1, <3>2, <4>1, NextFileMoves DEF RecordVersion, SerialRuns,
           OlderOnlyByOverlap, RunsUnderWay, Version
      <4> QED
        BY <4>2, <4>4, <4>5
    <3> QED
      BY <3>3, <3>4
  <2>5. ASSUME NEW r \in MigrateRun, GrantPrivileges(r) PROVE MigrateInv'
    <3>1. recorded = Version /\ applied = Version /\ granted \subseteq Version
      BY <2>5 DEF GrantPrivileges, RecordedInOrder
    <3>2. /\ granted' \in SUBSET Version /\ granted \subseteq granted'
          /\ UNCHANGED <<applied, recorded, inForce, probe, roleExists, migOverlap>>
          /\ \/ /\ migRun' = [migRun EXCEPT ![r] = [pc |-> "done", at |-> migRun[r].at]]
                /\ granted' = Version
             \/ migRun' = [migRun EXCEPT ![r] = [pc |-> "ungranted", at |-> migRun[r].at]]
      BY <2>5, <3>1 DEF GrantPrivileges, RunMoves
    <3>3. MigrateTypeOK'
      BY <3>2
    <3>4. RecordedInOrder'
      BY <3>1, <3>2 DEF RecordedInOrder
    <3>5. SerialRuns'
      BY <3>2 DEF SerialRuns, OlderOnlyByOverlap, RunsUnderWay
    <3> QED
      BY <3>3, <3>4, <3>5
  <2>6. ASSUME NEW r \in MigrateRun, RunFails(r) PROVE MigrateInv'
    BY <2>6 DEF RunFails, IdleRun, RecordedInOrder, SerialRuns,
       OlderOnlyByOverlap, RunsUnderWay
  <2>7. CASE CheckApplied
    <3>1. MigrateTypeOK'
      BY <2>7 DEF CheckApplied, Version
    <3>2. RecordedInOrder'
      <4>1. CASE probe \notin recorded
        BY <2>7, <4>1 DEF CheckApplied, RecordedInOrder, Version
      <4>2. CASE probe \in recorded /\ probe = LastVersion
        <5>1. Before(probe) \cup {probe} = Version
          BY <4>2 DEF Before, Version
        <5>2. recorded = Version
          <6>1. Before(probe) \subseteq recorded /\ recorded \subseteq Version
            BY <2>7 DEF CheckApplied, RecordedInOrder
          <6> QED
            BY <4>2, <5>1, <6>1
        <5>3. probe' \notin Version
          BY <2>7, <4>2 DEF CheckApplied, Version
        <5> QED
          BY <2>7, <5>2, <5>3 DEF CheckApplied, RecordedInOrder
      <4>3. CASE probe \in recorded /\ probe # LastVersion
        <5>1. Before(probe + 1) = Before(probe) \cup {probe} /\ probe + 1 \in Version
          BY <2>7, <4>3 DEF CheckApplied, Before, Version
        <5> QED
          BY <2>7, <4>3, <5>1 DEF CheckApplied, RecordedInOrder
      <4> QED
        BY <4>1, <4>2, <4>3
    <3>3. SerialRuns'
      BY <2>7 DEF CheckApplied, SerialRuns, OlderOnlyByOverlap, RunsUnderWay
    <3> QED
      BY <3>1, <3>2, <3>3
  <2>8. CASE ProbeAgain
    <3>1. Before(1) = {}
      BY DEF Before, Version
    <3> QED
      BY <2>8, <3>1 DEF ProbeAgain, RecordedInOrder, SerialRuns, OlderOnlyByOverlap,
         RunsUnderWay, Version
  <2>9. CASE BootstrapGrants
    BY <2>9 DEF BootstrapGrants, RecordedInOrder, SerialRuns, OlderOnlyByOverlap,
       RunsUnderWay
  <2>11. CASE RoleCreated
    <3>1. roleExists' \in BOOLEAN
      BY <2>11, Zenon DEF RoleCreated
    <3> QED
      BY <2>11, <3>1 DEF RoleCreated, RecordedInOrder, SerialRuns, OlderOnlyByOverlap,
         RunsUnderWay
  <2>10. CASE UNCHANGED migrateVars
    BY <2>10 DEF migrateVars, RecordedInOrder, SerialRuns, OlderOnlyByOverlap,
       RunsUnderWay
  <2> QED
    BY <2>1, <2>2, <2>3, <2>4, <2>5, <2>6, <2>7, <2>8, <2>9, <2>10, <2>11 DEF MigrateNext
<1> QED
  BY <1>1, <1>2, PTL DEF MigrateSpec

(* What is reported as migrated is, and only an overlap of two runs puts   *)
(* an old definition back: for any number of files, runs and failures.     *)
THEOREM MigrationIsSoundAlways == MigrateSpec => []MigrationIsSound
<1>1. MigrateInv => MigrationIsSound
  <2> SUFFICES ASSUME MigrateInv PROVE MigrationIsSound
    OBVIOUS
  <2>1. LastVersion + 1 \notin Version /\ LastVersion + 1 # 0
    BY MigrateAssumption DEF Version
  <2> QED
    BY <2>1 DEF MigrateInv, MigrateTypeOK, RecordedInOrder, SerialRuns, MigrationIsSound,
       MigratedIsServable, OlderOnlyByOverlap
<1> QED
  BY <1>1, MigrateInvHolds, PTL

-----------------------------------------------------------------------------
(* Start and exit *)

(* Values of the process's state. *)
LifeTypeOK ==
  /\ role \in {"serve", "all", "worker"}
  /\ lifeStore \in {"memory", "postgres"}
  /\ cancelled \in BOOLEAN
  /\ ready \in BOOLEAN
  /\ listener \in {"up", "failed", "closing", "closed", "overdue"}
  /\ httpReq \in [HttpReq -> {"none", "answered", "cut", "cutInTx"} \cup Active]
  /\ loopAt \in [WorkerLoop -> {"waiting", "working", "ended"}]
  /\ drainRow \in [DrainRow ->
       {"absent", "free", "held", "leased", "published", "late"}]
  /\ drainAt \in {"serving", "relay", "look", "rest", "stop", "returned"}
  /\ drainLeft \in SUBSET DrainRow
  /\ gaveUp \in BOOLEAN
  /\ mainAt \in {"serving", "closing", "exited"}

(* Once the drain has looked for the last time and found nothing, all that *)
(* is unpublished came later; on PostgreSQL, from its pass on, or was left *)
(* by the pass.  When Stop has returned no loop is running, and a worker's *)
(* main goroutine goes on only from there.                                 *)
DrainedBehind ==
  /\ drainAt \in {"rest", "stop", "returned"} /\ ~gaveUp /\ lifeStore = "memory" =>
       \A r \in Unpublished : drainRow[r] = "late"
  /\ drainAt \in {"look", "rest", "stop", "returned"} /\ ~gaveUp /\ lifeStore = "postgres" =>
       \A r \in Unpublished : drainRow[r] = "late" \/ r \in drainLeft
  /\ drainAt = "returned" => \A l \in WorkerLoop : loopAt[l] = "ended"
  /\ role = "worker" /\ mainAt # "serving" => drainAt = "returned"

(* A request is cut only by the exit, and Shutdown has then not seen it    *)
(* end; nothing is at work afterwards.                                     *)
RequestsOutlive ==
  /\ listener = "closed" => \A q \in HttpReq : httpReq[q] \notin Active
  /\ Alive => \A q \in HttpReq : httpReq[q] # "cut"
  /\ CutOnlyBetweenCalls

LifeInv == LifeTypeOK /\ DrainedBehind /\ RequestsOutlive

(* Rows that a pass takes were free. *)
LEMMA BecomeType ==
  ASSUME LifeTypeOK, NEW rows \in SUBSET DrainRow,
         NEW s \in {"free", "held", "leased", "published"}
  PROVE  Become(rows, s) \in
           [DrainRow -> {"absent", "free", "held", "leased", "published", "late"}]
BY DEF LifeTypeOK, Become

(* The invariant holds from start to exit. *)
LEMMA LifeInvHolds == LifeSpec => []LifeInv
<1> USE LifecycleAssumption
<1>1. LifeInit => LifeInv
  <2> SUFFICES ASSUME LifeInit PROVE LifeInv
    OBVIOUS
  <2>1. cancelled \in BOOLEAN /\ ready \in BOOLEAN /\ gaveUp \in BOOLEAN
    BY Zenon DEF LifeInit
  <2>2. LifeTypeOK
    BY <2>1 DEF LifeInit, LifeTypeOK
  <2>3. DrainedBehind /\ RequestsOutlive
    BY DEF LifeInit, DrainedBehind, RequestsOutlive, CutOnlyBetweenCalls, Active
  <2> QED
    BY <2>2, <2>3 DEF LifeInv
<1>2. LifeInv /\ [LifeNext]_lifeVars => LifeInv'
  <2> SUFFICES ASSUME LifeInv, [LifeNext]_lifeVars PROVE LifeInv'
    OBVIOUS
  <2> USE DEF LifeInv, LifeTypeOK
  <2>1. ASSUME NEW q \in HttpReq,
               Arrive(q) \/ Acquire(q) \/ Release(q) \/ AnswerReq(q)
        PROVE LifeInv'
    <3>1. Alive /\ UNCHANGED <<role, lifeStore, cancelled, ready, listener, loopAt, drainRow,
                              drainAt, drainLeft, gaveUp, mainAt>>
      BY <2>1 DEF Arrive, Acquire, Release, AnswerReq, ReqStep
    <3>2. \E to \in Active \cup {"answered"} :
            /\ httpReq' = [httpReq EXCEPT ![q] = to]
            /\ httpReq[q] \in Active \/ listener = "up"
      BY <2>1 DEF Arrive, Acquire, Release, AnswerReq, ReqStep, Active
    <3>3. LifeTypeOK'
      BY <3>1, <3>2
    <3>4. DrainedBehind'
      BY <3>1 DEF DrainedBehind, Unpublished
    <3>5. RequestsOutlive'
      BY <3>1, <3>2 DEF RequestsOutlive, CutOnlyBetweenCalls, Alive, Active
    <3> QED
      BY <3>3, <3>4, <3>5
  <2>2. ASSUME NEW l \in WorkerLoop, Tick(l) PROVE LifeInv'
    <3> USE <2>2 DEF Tick
    <3>1. \E rows \in SUBSET FreeRows : drainRow' = Become(rows, "held")
      <4>1. CASE l = "relay"
        BY <4>1
      <4>2. CASE l # "relay"
        <5>1. drainRow' = Become({}, "held")
          BY <4>2 DEF Become
        <5> QED
          BY <5>1
      <4> QED
        BY <4>1, <4>2
    <3>2. LifeTypeOK'
      BY <3>1, BecomeType DEF FreeRows
    <3>3. DrainedBehind'
      BY <3>1 DEF DrainedBehind, Become, FreeRows, Unpublished
    <3>4. RequestsOutlive'
      BY DEF RequestsOutlive, CutOnlyBetweenCalls, Alive
    <3> QED
      BY <3>2, <3>3, <3>4
  <2>3. ASSUME NEW l \in WorkerLoop, PassEnds(l) PROVE LifeInv'
    <3> USE <2>3 DEF PassEnds
    <3> DEFINE held == {r \in DrainRow : l = "relay" /\ drainRow[r] = "held"}
    <3>1. drainRow' \in {Become(held, "published"), Become(held, "leased")}
      OBVIOUS
    <3>2. LifeTypeOK'
      BY <3>1, BecomeType
    <3>3. DrainedBehind'
      BY <3>1 DEF DrainedBehind, Become, Unpublished
    <3>4. RequestsOutlive'
      BY DEF RequestsOutlive, CutOnlyBetweenCalls, Alive
    <3> QED
      BY <3>2, <3>3, <3>4
  <2>4. ASSUME NEW l \in WorkerLoop, LoopEnds(l) PROVE LifeInv'
    BY <2>4 DEF LoopEnds, DrainedBehind, Unpublished, RequestsOutlive,
       CutOnlyBetweenCalls, Alive
  <2>5. ASSUME NEW r \in DrainRow, RowArrives(r) \/ RowLeaseEnds(r) PROVE LifeInv'
    BY <2>5 DEF RowArrives, RowLeaseEnds, DrainedBehind, Unpublished, RequestsOutlive,
       CutOnlyBetweenCalls, Alive
  <2>6. CASE DrainBegins \/ DrainLooks \/ DrainRests \/ StopReturns
    BY <2>6 DEF DrainBegins, DrainLooks, DrainRests, StopReturns, DrainMoves, PendingListed,
       DrainedBehind, Unpublished, RequestsOutlive, CutOnlyBetweenCalls, Alive
  <2>7. CASE DrainRelays
    <3>1. PICK rows \in SUBSET FreeRows :
            /\ ClaimRows(rows)
            /\ drainRow' = Become(rows, "published")
            /\ drainLeft' = IF Cardinality(rows) = DrainBatch THEN DrainRow
                            ELSE {r \in DrainRow : drainRow[r] \in {"held", "leased"}}
      BY <2>7 DEF DrainRelays
    <3>2. LifeTypeOK'
      BY <2>7, <3>1, BecomeType DEF DrainRelays, DrainMoves, FreeRows
    <3>3. \A r \in Unpublished' : drainRow'[r] = "late" \/ r \in drainLeft'
      <4>1. CASE Cardinality(rows) = DrainBatch
        BY <3>1, <4>1 DEF Unpublished
      <4>2. CASE Cardinality(rows) # DrainBatch
        BY <3>1, <4>2 DEF ClaimRows, Unpublished, Become, FreeRows
      <4> QED
        BY <4>1, <4>2
    <3>4. DrainedBehind'
      BY <2>7, <3>3 DEF DrainRelays, DrainMoves, DrainedBehind
    <3>5. RequestsOutlive'
      BY <2>7 DEF DrainRelays, DrainMoves, RequestsOutlive, CutOnlyBetweenCalls, Alive
    <3> QED
      BY <3>2, <3>4, <3>5
  <2>8. CASE DrainGivesUp
    <3>1. gaveUp' \in BOOLEAN /\ gaveUp'
      BY <2>8, Zenon DEF DrainGivesUp
    <3>2. drainRow' = drainRow \/
            \E rows \in SUBSET FreeRows : drainRow' = Become(rows, "leased")
      BY <2>8 DEF DrainGivesUp
    <3>3. drainRow' \in
            [DrainRow -> {"absent", "free", "held", "leased", "published", "late"}]
      BY <3>2, BecomeType DEF FreeRows
    <3> QED
      BY <2>8, <3>1, <3>3 DEF DrainGivesUp, DrainMoves, DrainedBehind, Unpublished,
         RequestsOutlive, CutOnlyBetweenCalls, Alive
  <2>9. CASE Signal \/ NotReady
    <3>1. cancelled' \in BOOLEAN /\ ready' \in BOOLEAN
      BY <2>9, Zenon DEF Signal, NotReady
    <3> QED
      BY <2>9, <3>1 DEF Signal, NotReady, DrainedBehind, Unpublished, RequestsOutlive,
         CutOnlyBetweenCalls, Alive
  <2>10. CASE ListenFails \/ ShutdownBegins \/ ShutdownEnds
    BY <2>10 DEF ListenFails, ShutdownBegins, ShutdownEnds, DrainedBehind, Unpublished,
       RequestsOutlive, CutOnlyBetweenCalls, Alive
  <2>11. CASE MainReturns
    BY <2>11 DEF MainReturns, Serves, DrainedBehind, Unpublished, RequestsOutlive,
       CutOnlyBetweenCalls, Alive
  <2>12. CASE CleanupEnds
    <3> USE <2>12 DEF CleanupEnds, Exits
    <3>1. LifeTypeOK'
      BY DEF Active
    <3>2. DrainedBehind'
      BY DEF DrainedBehind, Unpublished
    <3>3. RequestsOutlive'
      BY DEF RequestsOutlive, CutOnlyBetweenCalls, Alive, Active
    <3> QED
      BY <3>1, <3>2, <3>3
  <2>13. CASE UNCHANGED lifeVars
    BY <2>13 DEF lifeVars, DrainedBehind, Unpublished, RequestsOutlive,
       CutOnlyBetweenCalls, Alive
  <2> QED
    BY <2>1, <2>2, <2>3, <2>4, <2>5, <2>6, <2>7, <2>8, <2>9, <2>10, <2>11, <2>12, <2>13
       DEF LifeNext
<1> QED
  BY <1>1, <1>2, PTL DEF LifeSpec

(* A process that is told to stop leaves no loop running, no transaction   *)
(* cut and, up to its time limits, only late rows unpublished, on          *)
(* PostgreSQL also what one pass left: for any requests, rows, loops and   *)
(* batch size.                                                             *)
THEOREM ExitIsOrderlyAlways == LifeSpec => []ExitIsOrderly
<1>1. LifeInv => ExitIsOrderly
  BY DEF LifeInv, LifeTypeOK, DrainedBehind, RequestsOutlive, ExitIsOrderly,
         WorkerLeavesLittle
<1> QED
  BY <1>1, LifeInvHolds, PTL

-----------------------------------------------------------------------------
(* The memory ledger *)

(* An edge's ends. *)
MemPairs == MemRes \X MemRes

(* The methods an intake calls, and the ends of its call. *)
MemPc == {"idle", "promote", "revision", "endpoint", "placeholder", "edge",
          "tuple", "outbox", "key", "done"}

(* A row of the tuple outbox. *)
MemRow == [op : {"write", "delete"}, pair : MemPairs,
           status : {"pending", "applied", "dead"}, until : Nat, late : BOOLEAN]
(* A row of the event outbox. *)
MemEntry == [id : MemEvent, rev : MemCall, published : BOOLEAN]

(* What a record can be in, a deletion under way, and a listed edge. *)
MemState == {"NONE", "PLACEHOLDER", "ACCEPTED", "TOMBSTONED"}
MemListed == [pair : MemPairs, sync : BOOLEAN]
MemDeletion == [step : {"idle", "list", "edges"}, res : MemRes \cup {""},
                listed : SUBSET MemListed, at : MemPairs \cup {NoPair}]

(* Values of the memory ledger's state. *)
MemTypeOK ==
  /\ memNow \in Nat
  /\ memRecord \in [MemRes -> [state : MemState, rev : MemCall \cup {NoRev}]]
  /\ memRevs \subseteq MemCall
  /\ memIdem \in [MemKey -> MemCall \cup {NoRev}]
  /\ memEdge \in [MemPairs -> [state : {"NONE", "ACTIVE", "TOMBSTONED"}, sync : BOOLEAN]]
  /\ memTuples \in Seq(MemRow)
  /\ memOutbox \in Seq(MemEntry)
  /\ memLease \in [MemEvent -> Nat]
  /\ memCall \in [MemCall -> [pc : MemPc, req : MemRequest]]
  /\ memDelete \in MemDeletion
  /\ memHeld \in [MemWorker -> [kind : {"none", "outbox", "tuple"}, id : Nat, until : Nat]]

(* A request with a parent is needed to get to the methods about one. *)
MemParented ==
  \A c \in MemCall :
    memCall[c].pc \in {"endpoint", "placeholder", "edge", "tuple"} => Req(c).to # ""

(* A revision is appended after the record is replaced and before the key  *)
(* goes in, and two intakes of one key that got so far overlapped.         *)
MemTaken == {c \in MemCall : c \in memRevs \/ c \in InProgress}

(* A call with a revision is past the append, and its key is taken when it *)
(* ends.                                                                   *)
MemRevisionsInv ==
  \A c \in memRevs :
    /\ memCall[c].pc \notin {"idle", "promote", "revision"}
    /\ memCall[c].pc = "done" => memIdem[Req(c).key] # NoRev

(* Of one key, calls that are under way or have a revision overlapped. *)
MemOverlapInv ==
  \A c, d \in MemTaken : c # d /\ Req(c).key = Req(d).key => {c, d} \in memOverlap

(* A record is accepted before its revision is appended, and only a        *)
(* deletion changes that.                                                  *)
MemKnown == {"ACCEPTED", "TOMBSTONED"}
MemAcceptedInv ==
  \A c \in MemCall : c \in memRevs \/ Calls(c, "revision")
                       => memRecord[Req(c).res].state \in MemKnown

(* What a worker holds is there, and its lease is not longer than Lease. *)
MemHeldInv ==
  \A w \in MemWorker :
    /\ memHeld[w].kind = "outbox" => memHeld[w].id \in DOMAIN memOutbox
    /\ memHeld[w].kind = "tuple" => memHeld[w].id \in DOMAIN memTuples
    /\ memHeld[w].until <= memNow + Lease

(* A lease that has not ended is still in the ledger, ... *)
MemOutboxLeased ==
  \A w \in MemWorker : memHeld[w].kind = "outbox" /\ ~(memHeld[w].until <= memNow) =>
    \/ memOutbox[memHeld[w].id].published
    \/ memHeld[w].until <= memLease[memOutbox[memHeld[w].id].id]

(* ... unless the row is done with or a late mark took the lease away. *)
MemTupleLeased ==
  \A w \in MemWorker : memHeld[w].kind = "tuple" /\ ~(memHeld[w].until <= memNow) =>
    \/ memTuples[memHeld[w].id].status # "pending"
    \/ memTuples[memHeld[w].id].late
    \/ memHeld[w].until <= memTuples[memHeld[w].id].until

(* EdgeOpsRequested, edge by edge; an edge that never was is not synced. *)
RowFor(op, pair) ==
  \E i \in DOMAIN memTuples : memTuples[i].pair = pair /\ memTuples[i].op = op

MemEdgeInv ==
  \A pair \in MemPairs :
    /\ memEdge[pair].state = "NONE" => ~memEdge[pair].sync
    /\ memEdge[pair].sync /\ memEdge[pair].state = "ACTIVE" =>
         RowFor("write", pair) \/ \E c \in MemCall : Calls(c, "tuple") /\ Pair(c) = pair
    /\ memEdge[pair].sync /\ memEdge[pair].state = "TOMBSTONED" =>
         RowFor("delete", pair) \/ memDelete.at = pair \/ pair \in memRaced

(* A listed edge that no intake has upserted since has the listed flag,    *)
(* and only a deletion that has listed its edges is at one.                *)
MemListedInv ==
  /\ memDelete.step # "edges" => memDelete.at = NoPair /\ memDelete.listed = {}
  /\ \A l \in memDelete.listed : l.pair \in memRaced \/ memEdge[l.pair].sync = l.sync

(* The memory ledger's inductive invariant. *)
MemInv ==
  /\ MemTypeOK /\ MemParented
  /\ MemRevisionsInv /\ MemOverlapInv /\ MemAcceptedInv
  /\ MemHeldInv /\ MemOutboxLeased /\ MemTupleLeased /\ LeasesExclusive
  /\ PublishedWasSent /\ MemEdgeInv /\ MemListedInv

-----------------------------------------------------------------------------
(* The empty sequence is a sequence of anything, with no element. *)
LEMMA MemEmptySeq == \A S : <<>> \in Seq(S) /\ DOMAIN <<>> = {}
  OBVIOUS

(* An element of a sequence is of the sequence's set. *)
LEMMA MemSeqElement ==
  ASSUME NEW S, NEW s \in Seq(S), NEW i \in DOMAIN s
  PROVE  s[i] \in S /\ i \in Nat
  OBVIOUS

(* Append puts one element after the others. *)
LEMMA MemSeqAppend ==
  ASSUME NEW S, NEW s \in Seq(S), NEW e \in S
  PROVE  /\ Append(s, e) \in Seq(S)
         /\ Len(s) + 1 \in DOMAIN Append(s, e) /\ Append(s, e)[Len(s) + 1] = e
         /\ \A i \in DOMAIN s : i \in DOMAIN Append(s, e) /\ Append(s, e)[i] = s[i]
         /\ \A i \in DOMAIN Append(s, e) : i \in DOMAIN s \/ i = Len(s) + 1
         /\ Len(s) + 1 \notin DOMAIN s
  OBVIOUS

(* A new lease ends in the future. *)
LEMMA MemLeaseIsNat == Lease \in Nat /\ \A n \in Nat : n + Lease \in Nat /\ ~(n + Lease <= n)
<1>1. Lease \in Nat /\ Lease # 0
  BY MemoryAssumption
<1> QED
  BY <1>1

(* The mark for no edge is not an edge. *)
LEMMA MemNoPairIsNoPair == \A p \in MemPairs : p # NoPair
  BY DEF MemPairs, NoPair

(* Fields of a request. *)
LEMMA MemRequestFields ==
  ASSUME NEW r \in MemRequest
  PROVE  /\ r.key \in MemKey /\ r.event \in MemEvent /\ r.res \in MemRes
         /\ r.to \in MemRes \cup {""} /\ r.sync \in BOOLEAN
  BY MemoryAssumption

(* The empty ledger satisfies the invariant. *)
LEMMA MemoryInitInv == MemoryInit => MemInv
<1> SUFFICES ASSUME MemoryInit PROVE MemInv
  OBVIOUS
<1> USE DEF MemoryInit
<1>1. MemTypeOK
  <2>1. memTuples \in Seq(MemRow) /\ memOutbox \in Seq(MemEntry)
    BY MemEmptySeq
  <2>2. memCall \in [MemCall -> [pc : MemPc, req : MemRequest]]
    BY DEF MemPc
  <2>3. memHeld \in [MemWorker -> [kind : {"none", "outbox", "tuple"}, id : Nat, until : Nat]]
    BY DEF NothingHeld
  <2>4. memEdge \in [MemPairs -> [state : {"NONE", "ACTIVE", "TOMBSTONED"}, sync : BOOLEAN]]
    BY DEF NoEdge, MemPairs
  <2>5. memDelete \in MemDeletion
    BY DEF NoDeletion, MemDeletion
  <2> QED
    BY <2>1, <2>2, <2>3, <2>4, <2>5 DEF MemTypeOK, MemState
<1>2. MemParented /\ MemRevisionsInv /\ MemOverlapInv /\ MemAcceptedInv
  BY DEF MemParented, MemRevisionsInv, MemOverlapInv, MemAcceptedInv, MemTaken,
         InProgress, Calls
<1>3. \A w \in MemWorker : memHeld[w] = NothingHeld
  OBVIOUS
<1>4. MemHeldInv
  <2>1. memNow = 0 /\ Lease \in Nat
    BY MemoryAssumption
  <2>2. \A w \in MemWorker : memHeld[w].kind = "none" /\ memHeld[w].until = 0
    BY <1>3 DEF NothingHeld
  <2> HIDE DEF MemoryInit
  <2> QED
    BY <2>1, <2>2 DEF MemHeldInv
<1>5. MemOutboxLeased /\ MemTupleLeased /\ LeasesExclusive
  BY <1>3 DEF MemOutboxLeased, MemTupleLeased, LeasesExclusive, NothingHeld
<1>6. PublishedWasSent
  BY MemEmptySeq DEF PublishedWasSent
<1>7. MemEdgeInv
  BY DEF MemEdgeInv, MemPairs, NoEdge
<1>8. MemListedInv
  BY DEF MemListedInv, NoDeletion
<1> QED
  BY <1>1, <1>2, <1>4, <1>5, <1>6, <1>7, <1>8 DEF MemInv

-----------------------------------------------------------------------------
(* What a step does to the calls *)

(* An intake's step moves its own call and no other. *)
LEMMA MemProceedsIs ==
  ASSUME MemTypeOK, NEW c \in MemCall, NEW pc \in MemPc, Proceeds(c, pc)
  PROVE  /\ memCall' \in [MemCall -> [pc : MemPc, req : MemRequest]]
         /\ memCall'[c].pc = pc
         /\ \A d \in MemCall : memCall'[d].req = memCall[d].req
         /\ \A d \in MemCall : d # c => memCall'[d].pc = memCall[d].pc
<1>1. memCall[c] \in [pc : MemPc, req : MemRequest]
  BY DEF MemTypeOK
<1>2. [memCall[c] EXCEPT !.pc = pc] \in [pc : MemPc, req : MemRequest]
  BY <1>1
<1> QED
  BY <1>1, <1>2 DEF MemTypeOK, Proceeds

(* EnqueueAuthzTuple keeps every row and adds one for the edge, or finds   *)
(* it.                                                                     *)
LEMMA MemEnqueuedIs ==
  ASSUME MemTypeOK, NEW op \in {"write", "delete"}, NEW pair \in MemPairs,
         memTuples' = EnqueuedTuple(op, pair)
  PROVE  /\ memTuples' \in Seq(MemRow)
         /\ DOMAIN memTuples \subseteq DOMAIN memTuples'
         /\ \A i \in DOMAIN memTuples : memTuples'[i] = memTuples[i]
         /\ RowFor(op, pair)'
<1> DEFINE there == \E i \in DOMAIN memTuples :
                      /\ memTuples[i].status = "pending"
                      /\ memTuples[i].op = op /\ memTuples[i].pair = pair
           row == NewTuple(op, pair)
<1>1. CASE there
  BY <1>1 DEF EnqueuedTuple, RowFor, MemTypeOK
<1>2. CASE ~there
  <2>1. memTuples' = Append(memTuples, row)
    BY <1>2 DEF EnqueuedTuple
  <2>2. row \in MemRow /\ row.op = op /\ row.pair = pair
    BY DEF NewTuple, MemRow
  <2> HIDE DEF row
  <2>3. /\ memTuples' \in Seq(MemRow)
        /\ Len(memTuples) \in Nat
        /\ DOMAIN memTuples = 1..Len(memTuples)
        /\ DOMAIN memTuples' = 1..(Len(memTuples) + 1)
        /\ \A i \in DOMAIN memTuples : memTuples'[i] = memTuples[i]
        /\ memTuples'[Len(memTuples) + 1] = row
    BY <2>1, <2>2 DEF MemTypeOK
  <2>4. Len(memTuples) + 1 \in DOMAIN memTuples'
    BY <2>3
  <2> QED
    BY <2>2, <2>3, <2>4 DEF RowFor
<1> QED
  BY <1>1, <1>2

(* A deletion goes on with the edges left and the one to enqueue, or ends. *)
LEMMA MemDeletedIs ==
  ASSUME MemTypeOK, MemListedInv, NEW listed \in SUBSET MemListed,
         NEW at \in MemPairs \cup {NoPair},
         memDelete' = Deleted(listed, at),
         memDelete.step = "edges"
  PROVE  /\ memDelete' \in MemDeletion
         /\ memDelete'.at = at /\ memDelete'.listed = listed
         /\ memDelete'.step # "edges" => at = NoPair /\ listed = {}
<1>1. CASE listed = {} /\ at = NoPair
  BY <1>1 DEF Deleted, NoDeletion, MemDeletion
<1>2. CASE ~(listed = {} /\ at = NoPair)
  BY <1>2 DEF Deleted, MemTypeOK, MemDeletion
<1> QED
  BY <1>1, <1>2

-----------------------------------------------------------------------------
(* The types *)

(* A method of an intake keeps the types. *)
LEMMA MemIntakeTypes ==
  ASSUME MemInv, NEW c \in MemCall, MemIntake(c)
  PROVE  MemTypeOK' /\ MemParented'
<1> USE DEF MemInv
<1> Req(c) \in MemRequest
  BY DEF Req, MemTypeOK
<1> /\ Req(c).key \in MemKey /\ Req(c).event \in MemEvent /\ Req(c).res \in MemRes
    /\ Req(c).to \in MemRes \cup {""} /\ Req(c).sync \in BOOLEAN
  BY MemRequestFields
<1>1. ASSUME NEW pc \in MemPc, Proceeds(c, pc),
             pc \in {"endpoint", "placeholder", "edge", "tuple"} => Req(c).to # "",
             UNCHANGED <<memNow, memHeld, memDelete, memLease>>,
             memRecord' \in [MemRes -> [state : MemState, rev : MemCall \cup {NoRev}]],
             memRevs' \subseteq MemCall, memIdem' \in [MemKey -> MemCall \cup {NoRev}],
             memEdge' \in [MemPairs -> [state : {"NONE", "ACTIVE", "TOMBSTONED"},
                                        sync : BOOLEAN]],
             memTuples' \in Seq(MemRow), memOutbox' \in Seq(MemEntry)
      PROVE  MemTypeOK' /\ MemParented'
  <2>1. /\ memCall' \in [MemCall -> [pc : MemPc, req : MemRequest]]
        /\ memCall'[c].pc = pc
        /\ \A d \in MemCall : memCall'[d].req = memCall[d].req
        /\ \A d \in MemCall : d # c => memCall'[d].pc = memCall[d].pc
    BY <1>1, MemProceedsIs
  <2>2. MemTypeOK'
    BY <1>1, <2>1 DEF MemTypeOK
  <2> QED
    BY <1>1, <2>1, <2>2 DEF MemParented, Req
<1>2. CASE GetIdempotency(c)
  <2>1. PICK pc \in {"done", "promote"} : Proceeds(c, pc)
    BY <1>2 DEF GetIdempotency
  <2> QED
    BY <1>1, <1>2, <2>1 DEF GetIdempotency, MemPc, MemTypeOK
<1>3. CASE PromotePlaceholder(c)
  BY <1>1, <1>3 DEF PromotePlaceholder, MemPc, MemTypeOK, MemState
<1>4. CASE AppendRevision(c)
  <2>1. PICK pc \in {"outbox", "endpoint"} :
          Proceeds(c, pc) /\ (pc = "endpoint" => Req(c).to # "")
    BY <1>4 DEF AppendRevision
  <2> QED
    BY <1>1, <1>4, <2>1 DEF AppendRevision, MemPc, MemTypeOK
<1>5. CASE EnsureEndpoint(c)
  <2>1. PICK pc \in {"placeholder", "edge"} : Proceeds(c, pc)
    BY <1>5 DEF EnsureEndpoint
  <2>2. Req(c).to # ""
    BY <1>5 DEF EnsureEndpoint, Calls, MemParented
  <2> QED
    BY <1>1, <1>5, <2>1, <2>2 DEF EnsureEndpoint, MemPc, MemTypeOK
<1>6. CASE InsertPlaceholder(c)
  <2>1. Req(c).to # ""
    BY <1>6 DEF InsertPlaceholder, Calls, MemParented
  <2> QED
    BY <1>1, <1>6, <2>1 DEF InsertPlaceholder, MemPc, MemTypeOK, MemState
<1>7. CASE UpsertEdge(c)
  <2>1. Req(c).to # ""
    BY <1>7 DEF UpsertEdge, Calls, MemParented
  <2>2. PICK pc \in {"tuple", "outbox"} : Proceeds(c, pc)
    BY <1>7 DEF UpsertEdge
  <2>3. memEdge' \in [MemPairs -> [state : {"NONE", "ACTIVE", "TOMBSTONED"}, sync : BOOLEAN]]
    BY <1>7 DEF UpsertEdge, MemTypeOK
  <2> QED
    BY <1>1, <1>7, <2>1, <2>2, <2>3 DEF UpsertEdge, MemPc, MemTypeOK
<1>8. CASE EnqueueAuthzTuple(c)
  <2>1. Req(c).to # ""
    BY <1>8 DEF EnqueueAuthzTuple, Calls, MemParented
  <2>2. memTuples' \in Seq(MemRow)
    BY <1>8, <2>1, MemEnqueuedIs DEF EnqueueAuthzTuple, Pair, MemPairs
  <2> QED
    BY <1>1, <1>8, <2>2 DEF EnqueueAuthzTuple, MemPc, MemTypeOK
<1>9. CASE EnqueueOutbox(c)
  <2> DEFINE e == [id |-> Req(c).event, rev |-> c, published |-> FALSE]
  <2>1. e \in MemEntry /\ memOutbox' = Append(memOutbox, e)
    BY <1>9 DEF MemEntry, EnqueueOutbox
  <2> HIDE DEF e
  <2>2. memOutbox' \in Seq(MemEntry)
    BY <2>1, MemSeqAppend DEF MemTypeOK
  <2> QED
    BY <1>1, <1>9, <2>2 DEF EnqueueOutbox, MemPc, MemTypeOK
<1>10. CASE PutIdempotency(c)
  BY <1>1, <1>10 DEF PutIdempotency, MemPc, MemTypeOK
<1> QED
  BY <1>2, <1>3, <1>4, <1>5, <1>6, <1>7, <1>8, <1>9, <1>10 DEF MemIntake

(* What the workers do to the rows, the entries and the leases. *)
LEMMA MemClaimOutboxIs ==
  ASSUME MemInv, NEW w \in MemWorker, ClaimOutbox(w)
  PROVE  /\ memHeld[w].kind = "none"
         /\ \E i \in DOMAIN memOutbox :
              /\ ~memOutbox[i].published /\ memLease[memOutbox[i].id] <= memNow
              /\ memOutbox[i].id \in MemEvent
              /\ memLease' = [memLease EXCEPT ![memOutbox[i].id] = memNow + Lease]
              /\ memHeld' = [memHeld EXCEPT ![w] =
                   [kind |-> "outbox", id |-> i, until |-> memNow + Lease]]
              /\ i \in Nat
<1>1. PICK i \in DOMAIN memOutbox :
         /\ ~memOutbox[i].published /\ memLease[memOutbox[i].id] <= memNow
         /\ memLease' = [memLease EXCEPT ![memOutbox[i].id] = memNow + Lease]
         /\ memHeld' = [memHeld EXCEPT ![w] =
              [kind |-> "outbox", id |-> i, until |-> memNow + Lease]]
  BY DEF ClaimOutbox, Claimable
<1>2. memOutbox \in Seq(MemEntry)
  BY DEF MemInv, MemTypeOK
<1>3. i \in Nat /\ memOutbox[i] \in MemEntry
  BY <1>2
<1>4. memOutbox[i].id \in MemEvent
  BY <1>3 DEF MemEntry
<1>5. memHeld[w].kind = "none"
  BY DEF ClaimOutbox, NothingHeld
<1> QED
  BY <1>1, <1>3, <1>4, <1>5

(* MarkOutboxPublished flags the rows of one event and changes nothing     *)
(* else.                                                                   *)
LEMMA MemPublishedIs ==
  ASSUME MemTypeOK, NEW id
  PROVE  /\ Published(id) \in Seq(MemEntry)
         /\ DOMAIN Published(id) = DOMAIN memOutbox
         /\ \A i \in DOMAIN memOutbox :
              /\ Published(id)[i].id = memOutbox[i].id
              /\ Published(id)[i].rev = memOutbox[i].rev
              /\ memOutbox[i].id = id => Published(id)[i].published
              /\ memOutbox[i].id # id => Published(id)[i] = memOutbox[i]
<1>1. \A i \in DOMAIN memOutbox : memOutbox[i] \in MemEntry
  BY DEF MemTypeOK
<1>2. \A i \in DOMAIN memOutbox : [memOutbox[i] EXCEPT !.published = TRUE] \in MemEntry
  BY <1>1 DEF MemEntry
<1>3. /\ Len(memOutbox) \in Nat
      /\ DOMAIN memOutbox = 1..Len(memOutbox)
  BY DEF MemTypeOK
<1>4. Published(id) \in [1..Len(memOutbox) -> MemEntry]
  BY <1>1, <1>2, <1>3 DEF Published
<1>5. Published(id) \in Seq(MemEntry)
  BY <1>3, <1>4
<1>6. \A i \in DOMAIN memOutbox :
        Published(id)[i] = IF memOutbox[i].id = id
                           THEN [memOutbox[i] EXCEPT !.published = TRUE] ELSE memOutbox[i]
  BY DEF Published
<1>7. \A i \in DOMAIN memOutbox :
              /\ Published(id)[i].id = memOutbox[i].id
              /\ Published(id)[i].rev = memOutbox[i].rev
              /\ memOutbox[i].id = id => Published(id)[i].published
              /\ memOutbox[i].id # id => Published(id)[i] = memOutbox[i]
  BY <1>1, <1>2, <1>6 DEF MemEntry
<1> QED
  BY <1>3, <1>4, <1>5, <1>7

(* ClaimPendingAuthzTuples changes the lease of the row it claims. *)
LEMMA MemClaimTuplesIs ==
  ASSUME MemInv, NEW w \in MemWorker, ClaimAuthzTuples(w)
  PROVE  /\ memHeld[w].kind = "none"
         /\ memTuples' \in Seq(MemRow)
         /\ DOMAIN memTuples' = DOMAIN memTuples
         /\ \A j \in DOMAIN memTuples :
              /\ memTuples'[j].op = memTuples[j].op /\ memTuples'[j].pair = memTuples[j].pair
              /\ memTuples'[j].status = memTuples[j].status
              /\ memTuples'[j].late = memTuples[j].late
         /\ \E i \in DOMAIN memTuples :
              /\ memTuples[i].status = "pending" /\ memTuples[i].until <= memNow
              /\ memTuples'[i].until = memNow + Lease
              /\ \A j \in DOMAIN memTuples : j # i => memTuples'[j] = memTuples[j]
              /\ memHeld' = [memHeld EXCEPT ![w] =
                   [kind |-> "tuple", id |-> i, until |-> memNow + Lease]]
              /\ i \in Nat
<1> USE DEF MemInv
<1>1. PICK i \in DOMAIN memTuples :
         /\ memTuples[i].status = "pending" /\ memTuples[i].until <= memNow
         /\ memTuples' = [memTuples EXCEPT ![i].until = memNow + Lease]
         /\ memHeld' = [memHeld EXCEPT ![w] =
              [kind |-> "tuple", id |-> i, until |-> memNow + Lease]]
  BY DEF ClaimAuthzTuples
<1>2. memTuples[i] \in MemRow /\ memNow + Lease \in Nat /\ i \in Nat
  <2>1. memTuples \in Seq(MemRow) /\ memNow \in Nat
    BY DEF MemTypeOK
  <2> QED
    BY <2>1, MemSeqElement, MemLeaseIsNat
<1>3. [memTuples[i] EXCEPT !.until = memNow + Lease] \in MemRow
  BY <1>2 DEF MemRow
<1>4. memTuples' \in Seq(MemRow) /\ DOMAIN memTuples' = DOMAIN memTuples
  BY <1>1, <1>3 DEF MemTypeOK
<1>5. /\ memTuples'[i] = [memTuples[i] EXCEPT !.until = memNow + Lease]
      /\ \A j \in DOMAIN memTuples : j # i => memTuples'[j] = memTuples[j]
  BY <1>1 DEF MemTypeOK
<1>6. /\ memTuples'[i].op = memTuples[i].op /\ memTuples'[i].pair = memTuples[i].pair
      /\ memTuples'[i].status = memTuples[i].status
      /\ memTuples'[i].late = memTuples[i].late
      /\ memTuples'[i].until = memNow + Lease
  BY <1>2, <1>5 DEF MemRow
<1>7. memHeld[w].kind = "none"
  BY DEF ClaimAuthzTuples, NothingHeld
<1> QED
  BY <1>1, <1>2, <1>4, <1>5, <1>6, <1>7

(* A mark changes the row the worker holds. *)
LEMMA MemMarkIs ==
  ASSUME MemInv, NEW w \in MemWorker, NEW status \in {"applied", "dead", "failed"},
         MarkAuthzTuple(w, status)
  PROVE  /\ memHeld[w].id \in DOMAIN memTuples
         /\ memTuples' \in Seq(MemRow)
         /\ DOMAIN memTuples' = DOMAIN memTuples
         /\ \A j \in DOMAIN memTuples :
              /\ memTuples'[j].op = memTuples[j].op /\ memTuples'[j].pair = memTuples[j].pair
              /\ j # memHeld[w].id => memTuples'[j] = memTuples[j]
         /\ LET i == memHeld[w].id IN
            /\ status # "failed" => memTuples'[i].status # "pending"
            /\ memTuples[i].late => memTuples'[i].late
            /\ status = "failed" /\ memHeld[w].until <= memNow => memTuples'[i].late
            /\ status = "failed" => memTuples'[i].status = memTuples[i].status
<1> USE DEF MemInv
<1> DEFINE i == memHeld[w].id
           st == IF status = "failed" THEN memTuples[i].status ELSE status
           un == IF status = "failed" THEN memNow + 1 ELSE 0
           lt == memTuples[i].late \/ (status = "failed" /\ memHeld[w].until <= memNow)
           row == [[[memTuples[i] EXCEPT !.status = st] EXCEPT !.until = un] EXCEPT !.late = lt]
<1>1. i \in DOMAIN memTuples
  BY DEF MarkAuthzTuple, MemHeldInv
<1>2. memTuples[i] \in MemRow
  BY <1>1 DEF MemTypeOK
<1>3. st \in {"pending", "applied", "dead"} /\ un \in Nat
  BY <1>2 DEF MemRow, MemTypeOK
<1>4. lt \in BOOLEAN
  OBVIOUS
<1>5. memTuples' = [memTuples EXCEPT ![i] = row]
  BY <1>1, <1>2 DEF MarkAuthzTuple, MemTypeOK, MemRow
<1> HIDE DEF st, un, lt
<1>6. /\ row \in MemRow /\ row.op = memTuples[i].op /\ row.pair = memTuples[i].pair
      /\ row.status = st /\ row.late = lt
  BY <1>2, <1>3, <1>4 DEF MemRow
<1> HIDE DEF row, i
<1>7. /\ memTuples' \in Seq(MemRow) /\ DOMAIN memTuples' = DOMAIN memTuples
      /\ memTuples'[i] = row
      /\ \A j \in DOMAIN memTuples : j # i => memTuples'[j] = memTuples[j]
  BY <1>1, <1>5, <1>6 DEF MemTypeOK
<1>8. /\ status # "failed" => st # "pending"
      /\ status = "failed" => st = memTuples[i].status
  BY DEF st
<1>9. /\ memTuples[i].late => lt
      /\ status = "failed" /\ memHeld[w].until <= memNow => lt
  BY DEF lt
<1>10. \A j \in DOMAIN memTuples :
         memTuples'[j].op = memTuples[j].op /\ memTuples'[j].pair = memTuples[j].pair
  BY <1>6, <1>7
<1> QED
  BY <1>1, <1>6, <1>7, <1>8, <1>9, <1>10, Zenon DEF i

(* The other steps keep the types. *)
LEMMA MemOtherTypes ==
  ASSUME MemInv,
         \/ \E res \in MemDeletable : TombstoneRecord(res)
         \/ ListEdges
         \/ \E l \in memDelete.listed : TombstoneEdge(l)
         \/ EnqueueDelete
         \/ \E w \in MemWorker : MemWork(w)
         \/ MemTick
         \/ UNCHANGED memVars
  PROVE  MemTypeOK' /\ MemParented'
<1> USE DEF MemInv
<1>1. UNCHANGED memCall
  BY DEF TombstoneRecord, ListEdges, TombstoneEdge, EnqueueDelete, MemWork, ClaimOutbox,
         ClaimAuthzTuples, Publish, MarkAuthzTuple, MemTick, memVars
<1>2. MemParented'
  BY <1>1 DEF MemParented, Req
<1>3. ASSUME NEW w \in MemWorker, NEW i \in Nat, NEW n \in Nat,
             NEW kind \in {"none", "outbox", "tuple"},
             memHeld' = [memHeld EXCEPT ![w] = [kind |-> kind, id |-> i, until |-> n]]
      PROVE  memHeld' \in [MemWorker -> [kind : {"none", "outbox", "tuple"},
                                         id : Nat, until : Nat]]
  BY <1>3 DEF MemTypeOK
<1>4. ASSUME NEW l \in memDelete.listed, TombstoneEdge(l) PROVE MemTypeOK'
  <2>1. l \in MemListed /\ l.pair \in MemPairs /\ memDelete.step = "edges"
    BY DEF MemTypeOK, MemDeletion, MemListed, MemListedInv
  <2>2. memEdge[l.pair] \in [state : {"NONE", "ACTIVE", "TOMBSTONED"}, sync : BOOLEAN]
    BY <2>1 DEF MemTypeOK
  <2>3. [memEdge[l.pair] EXCEPT !.state = "TOMBSTONED"]
          \in [state : {"NONE", "ACTIVE", "TOMBSTONED"}, sync : BOOLEAN]
    BY <2>2
  <2>4. memEdge' \in [MemPairs -> [state : {"NONE", "ACTIVE", "TOMBSTONED"}, sync : BOOLEAN]]
    BY <1>4, <2>3 DEF MemTypeOK, TombstoneEdge
  <2> DEFINE left == memDelete.listed \ {l}
             at == IF l.sync THEN l.pair ELSE NoPair
  <2>5. left \in SUBSET MemListed /\ at \in MemPairs \cup {NoPair}
    BY <2>1 DEF MemTypeOK, MemDeletion
  <2>6. memDelete' = Deleted(left, at)
    BY <1>4 DEF TombstoneEdge
  <2> HIDE DEF left, at
  <2>7. memDelete' \in MemDeletion
    BY <2>1, <2>5, <2>6, MemDeletedIs
  <2> QED
    BY <1>4, <2>4, <2>7 DEF MemTypeOK, TombstoneEdge
<1>5. CASE EnqueueDelete
  <2>1. memDelete.at \in MemPairs /\ memDelete.step = "edges"
    BY <1>5 DEF EnqueueDelete, MemTypeOK, MemDeletion, MemListedInv
  <2>2. memTuples' \in Seq(MemRow)
    BY <1>5, <2>1, MemEnqueuedIs DEF EnqueueDelete
  <2>3. memDelete.listed \in SUBSET MemListed
    BY DEF MemTypeOK, MemDeletion
  <2>4. memDelete' \in MemDeletion
    BY <1>5, <2>1, <2>3, MemDeletedIs DEF EnqueueDelete
  <2> QED
    BY <1>2, <1>5, <2>2, <2>4 DEF MemTypeOK, EnqueueDelete
<1>12. ASSUME NEW res \in MemDeletable, TombstoneRecord(res) PROVE MemTypeOK'
  <2>1. res \in MemRes
    BY MemoryAssumption
  <2>2. memRecord' \in [MemRes -> [state : MemState, rev : MemCall \cup {NoRev}]]
    BY <1>12, <2>1 DEF TombstoneRecord, MemTypeOK, MemState
  <2>3. memDelete' \in MemDeletion
    BY <1>12, <2>1 DEF TombstoneRecord, NoDeletion, MemDeletion
  <2> QED
    BY <1>12, <2>2, <2>3 DEF TombstoneRecord, MemTypeOK
<1>13. CASE ListEdges
  <2> DEFINE found == ActiveEdgesOf(memDelete.res)
             copies == {[pair |-> p, sync |-> memEdge[p].sync] : p \in found}
  <2>1. \A p \in found : p \in MemPairs /\ memEdge[p].sync \in BOOLEAN
    BY DEF ActiveEdgesOf, MemPairs, MemTypeOK
  <2>2. copies \in SUBSET MemListed
    BY <2>1 DEF MemListed
  <2>3. memDelete' = NoDeletion \/ memDelete' = [memDelete EXCEPT !.step = "edges", !.listed = copies]
    BY <1>13 DEF ListEdges
  <2> HIDE DEF copies
  <2>4. memDelete' \in MemDeletion
    <3>1. NoDeletion \in MemDeletion
      BY DEF NoDeletion, MemDeletion
    <3>2. [memDelete EXCEPT !.step = "edges", !.listed = copies] \in MemDeletion
      BY <2>2 DEF MemTypeOK, MemDeletion
    <3> QED
      BY <2>3, <3>1, <3>2
  <2> QED
    BY <1>2, <1>13, <2>4 DEF ListEdges, MemTypeOK
<1>6. ASSUME NEW w \in MemWorker, ClaimOutbox(w) PROVE MemTypeOK'
  <2>1. PICK i \in DOMAIN memOutbox :
          /\ i \in Nat /\ memOutbox[i].id \in MemEvent
          /\ memLease' = [memLease EXCEPT ![memOutbox[i].id] = memNow + Lease]
          /\ memHeld' = [memHeld EXCEPT ![w] =
               [kind |-> "outbox", id |-> i, until |-> memNow + Lease]]
    BY <1>6, MemClaimOutboxIs
  <2>2. memNow + Lease \in Nat
    BY MemLeaseIsNat DEF MemTypeOK
  <2>3. memLease' \in [MemEvent -> Nat]
    BY <2>1, <2>2 DEF MemTypeOK
  <2>4. memHeld' \in [MemWorker -> [kind : {"none", "outbox", "tuple"},
                                         id : Nat, until : Nat]]
    BY <1>3, <2>1, <2>2
  <2> QED
    BY <1>6, <2>3, <2>4 DEF MemTypeOK, ClaimOutbox
<1>7. ASSUME NEW w \in MemWorker, ClaimAuthzTuples(w) PROVE MemTypeOK'
  <2>1. PICK i \in DOMAIN memTuples :
          /\ i \in Nat
          /\ memHeld' = [memHeld EXCEPT ![w] =
               [kind |-> "tuple", id |-> i, until |-> memNow + Lease]]
    BY <1>7, MemClaimTuplesIs
  <2>2. memTuples' \in Seq(MemRow)
    BY <1>7, MemClaimTuplesIs
  <2>3. memNow + Lease \in Nat
    BY MemLeaseIsNat DEF MemTypeOK
  <2>4. memHeld' \in [MemWorker -> [kind : {"none", "outbox", "tuple"},
                                         id : Nat, until : Nat]]
    BY <1>3, <2>1, <2>3
  <2> QED
    BY <1>7, <2>2, <2>4 DEF MemTypeOK, ClaimAuthzTuples
<1>8. ASSUME NEW w \in MemWorker, NEW ok \in BOOLEAN, Publish(w, ok) PROVE MemTypeOK'
  <2> DEFINE e == memOutbox[memHeld[w].id]
  <2>1. e \in MemEntry
    <3>1. memHeld[w].id \in DOMAIN memOutbox
      BY <1>8 DEF Publish, MemHeldInv
    <3> QED
      BY <3>1, MemSeqElement DEF MemTypeOK
  <2>2. memOutbox' \in Seq(MemEntry)
    BY <1>8, MemPublishedIs DEF Publish, MemTypeOK
  <2>3. e.id \in MemEvent
    BY <2>1 DEF MemEntry
  <2>4. memLease' \in [MemEvent -> Nat]
    BY <1>8, <2>3 DEF Publish, MemTypeOK
  <2>5. memHeld' \in [MemWorker -> [kind : {"none", "outbox", "tuple"},
                                         id : Nat, until : Nat]]
    BY <1>3, <1>8 DEF Publish, NothingHeld
  <2> QED
    BY <1>8, <2>2, <2>4, <2>5 DEF MemTypeOK, Publish
<1>9. ASSUME NEW w \in MemWorker, NEW status \in {"applied", "dead", "failed"},
             MarkAuthzTuple(w, status)
      PROVE  MemTypeOK'
  <2>1. memTuples' \in Seq(MemRow)
    BY <1>9, MemMarkIs
  <2>2. memHeld' \in [MemWorker -> [kind : {"none", "outbox", "tuple"},
                                         id : Nat, until : Nat]]
    BY <1>3, <1>9 DEF MarkAuthzTuple, NothingHeld
  <2> QED
    BY <1>9, <2>1, <2>2 DEF MemTypeOK, MarkAuthzTuple
<1>10. CASE MemTick
  <2>1. memNow' \in Nat
    BY <1>10 DEF MemTick, MemTypeOK
  <2> QED
    BY <1>2, <1>10, <2>1 DEF MemTick, MemTypeOK
<1>11. CASE UNCHANGED memVars
  BY <1>2, <1>11 DEF memVars, MemTypeOK
<1> QED
  BY <1>2, <1>4, <1>5, <1>6, <1>7, <1>8, <1>9, <1>10, <1>11, <1>12, <1>13 DEF MemWork

-----------------------------------------------------------------------------
(* Intakes of one key, and records with a revision *)

(* What is said of intakes and revisions is inductive. *)
LEMMA MemIntakesStep ==
  ASSUME MemInv, [MemoryNext]_memVars, MemTypeOK'
  PROVE  MemRevisionsInv' /\ MemOverlapInv' /\ MemAcceptedInv'
<1> USE DEF MemInv
<1>1. CASE UNCHANGED <<memCall, memRevs, memIdem, memOverlap, memRecord>>
  BY <1>1 DEF MemRevisionsInv, MemOverlapInv, MemAcceptedInv, MemTaken, InProgress,
              Calls, Req
<1>2. ASSUME NEW c \in MemCall, MemIntake(c)
      PROVE  MemRevisionsInv' /\ MemOverlapInv' /\ MemAcceptedInv'
  <2>1. /\ \A d \in MemCall : Req(d)' = Req(d)
        /\ \A d \in MemCall : d # c => memCall'[d].pc = memCall[d].pc
        /\ \A d \in MemCall : Req(d).key \in MemKey /\ Req(d).res \in MemRes
        /\ Req(c).to \in MemRes \cup {""}
    <3>1. \E pc \in MemPc : Proceeds(c, pc)
      BY <1>2 DEF MemIntake, GetIdempotency, PromotePlaceholder, AppendRevision,
           EnsureEndpoint, InsertPlaceholder, UpsertEdge, EnqueueAuthzTuple,
           EnqueueOutbox, PutIdempotency, MemPc
    <3>2. \A d \in MemCall : Req(d) \in MemRequest
      BY DEF Req, MemTypeOK
    <3> QED
      BY <3>1, <3>2, MemProceedsIs, MemRequestFields DEF Req
  <2>12. memRevs \subseteq MemCall /\ memRevs' \subseteq MemCall
    BY DEF MemTypeOK
  <2>2. ASSUME NEW pc \in MemPc, pc \notin {"idle", "promote", "revision", "done"},
               Proceeds(c, pc), c \in InProgress,
               memCall[c].pc \notin {"promote", "revision"},
               UNCHANGED <<memRevs, memIdem, memOverlap>>,
               \A x \in MemRes : memRecord[x].state \in MemKnown =>
                                   memRecord'[x].state \in MemKnown
        PROVE  MemRevisionsInv' /\ MemOverlapInv' /\ MemAcceptedInv'
    <3>1. memCall'[c].pc = pc
      BY <2>2, MemProceedsIs
    <3>2. MemRevisionsInv'
      BY <2>1, <2>2, <3>1, <2>12 DEF MemRevisionsInv
    <3>3. MemTaken' = MemTaken
      BY <2>1, <2>2, <3>1 DEF MemTaken, InProgress
    <3>4. MemOverlapInv'
      BY <2>1, <2>2, <3>3 DEF MemOverlapInv, MemTaken
    <3>5. MemAcceptedInv'
      BY <2>1, <2>2, <3>1 DEF MemAcceptedInv, Calls
    <3> QED
      BY <3>2, <3>4, <3>5
  <2>3. CASE GetIdempotency(c)
    <3> DEFINE pc == IF memIdem[Req(c).key] # NoRev THEN "done" ELSE "promote"
    <3>1. memCall'[c].pc = pc /\ pc \in {"done", "promote"}
      BY <2>3, MemProceedsIs DEF GetIdempotency, MemPc
    <3>2. c \notin memRevs
      BY <2>3 DEF GetIdempotency, Calls, MemRevisionsInv
    <3>3. UNCHANGED <<memRevs, memIdem, memRecord>>
      BY <2>3 DEF GetIdempotency
    <3>4. MemRevisionsInv'
      BY <2>1, <3>2, <3>3, <2>12 DEF MemRevisionsInv
    <3>5. MemAcceptedInv'
      BY <2>1, <3>1, <3>2, <3>3 DEF MemAcceptedInv, Calls
    <3>6. MemOverlapInv'
      <4> SUFFICES ASSUME NEW a \in MemTaken', NEW b \in MemTaken', a # b,
                          Req(a)'.key = Req(b)'.key
                   PROVE  {a, b} \in memOverlap'
        BY DEF MemOverlapInv
      <4>1. a \in MemCall /\ b \in MemCall
        BY DEF MemTaken
      <4>2. /\ a # c => a \in MemTaken
            /\ b # c => b \in MemTaken
        BY <2>1, <3>3, <4>1 DEF MemTaken, InProgress
      <4>3. /\ memOverlap' = memOverlap \cup {{c, d} : d \in InProgress}
            /\ Req(a).key = Req(b).key
        BY <2>1, <2>3, <4>1 DEF GetIdempotency
      <4>4. CASE a # c /\ b # c
        BY <4>2, <4>3, <4>4 DEF MemOverlapInv
      <4>5. ASSUME NEW d \in MemTaken, d # c, Req(d).key = Req(c).key, c \in MemTaken'
            PROVE  d \in InProgress
        <5>1. pc = "promote"
          BY <3>1, <3>2, <3>3, <4>5 DEF MemTaken, InProgress
        <5>2. memIdem[Req(c).key] = NoRev
          BY <5>1
        <5>3. d \in memRevs => memCall[d].pc \notin {"idle", "done"}
          BY <4>5, <5>2 DEF MemRevisionsInv
        <5> QED
          BY <4>5, <5>3 DEF MemTaken, InProgress
      <4>6. CASE a = c
        BY <4>2, <4>3, <4>5, <4>6
      <4>7. CASE b = c
        <5>1. a \in InProgress
          BY <4>2, <4>3, <4>5, <4>7
        <5>2. {a, b} = {c, a}
          BY <4>7
        <5> QED
          BY <4>3, <5>1, <5>2
      <4> QED
        BY <4>4, <4>6, <4>7
    <3> QED
      BY <3>4, <3>5, <3>6
  <2>4. CASE PromotePlaceholder(c)
    <3>1. memCall'[c].pc = "revision" /\ memCall[c].pc = "promote"
      BY <2>4, MemProceedsIs DEF PromotePlaceholder, MemPc, Calls
    <3>2. c \notin memRevs
      BY <3>1 DEF MemRevisionsInv
    <3>3. UNCHANGED <<memRevs, memIdem, memOverlap>>
      BY <2>4 DEF PromotePlaceholder
    <3>4. MemRevisionsInv'
      BY <2>1, <3>2, <3>3, <2>12 DEF MemRevisionsInv
    <3>5. MemTaken' = MemTaken
      BY <2>1, <3>1, <3>3 DEF MemTaken, InProgress
    <3>6. MemOverlapInv'
      BY <2>1, <3>3, <3>5 DEF MemOverlapInv, MemTaken
    <3>7. /\ memRecord'[Req(c).res].state = "ACCEPTED"
          /\ \A x \in MemRes : x # Req(c).res => memRecord'[x] = memRecord[x]
      BY <2>1, <2>4 DEF PromotePlaceholder, MemTypeOK
    <3>8. MemAcceptedInv'
      BY <2>1, <3>1, <3>3, <3>7 DEF MemAcceptedInv, Calls, MemKnown
    <3> QED
      BY <3>4, <3>6, <3>8
  <2>5. CASE AppendRevision(c)
    <3>1. memCall'[c].pc \in {"outbox", "endpoint"} /\ memCall[c].pc = "revision"
      BY <2>5, MemProceedsIs DEF AppendRevision, MemPc, Calls
    <3>2. UNCHANGED <<memIdem, memOverlap, memRecord>> /\ memRevs' = memRevs \cup {c}
      BY <2>5 DEF AppendRevision
    <3>3. MemRevisionsInv'
      BY <2>1, <3>1, <3>2, <2>12 DEF MemRevisionsInv
    <3>4. MemTaken' = MemTaken
      BY <2>1, <3>1, <3>2 DEF MemTaken, InProgress
    <3>5. MemOverlapInv'
      BY <2>1, <3>2, <3>4 DEF MemOverlapInv, MemTaken
    <3>6. MemAcceptedInv'
      BY <2>1, <3>1, <3>2 DEF MemAcceptedInv, Calls
    <3> QED
      BY <3>3, <3>5, <3>6
  <2>6. CASE EnsureEndpoint(c)
    <3>1. \E pc \in {"placeholder", "edge"} : Proceeds(c, pc)
      BY <2>6 DEF EnsureEndpoint
    <3> QED
      BY <2>2, <2>6, <3>1 DEF EnsureEndpoint, MemPc, Calls, InProgress
  <2>7. CASE InsertPlaceholder(c)
    <3>1. Req(c).to \in MemRes
      BY <2>1, <2>7 DEF InsertPlaceholder, MemParented, Calls
    <3>2. \A x \in MemRes : memRecord[x].state \in MemKnown =>
                                   memRecord'[x].state \in MemKnown
      BY <2>7, <3>1 DEF InsertPlaceholder, MemTypeOK, MemKnown
    <3> QED
      BY <2>2, <2>7, <3>2 DEF InsertPlaceholder, MemPc, Calls, InProgress
  <2>8. CASE UpsertEdge(c)
    <3>1. \E pc \in {"tuple", "outbox"} : Proceeds(c, pc)
      BY <2>8 DEF UpsertEdge
    <3> QED
      BY <2>2, <2>8, <3>1 DEF UpsertEdge, MemPc, Calls, InProgress
  <2>9. CASE EnqueueAuthzTuple(c)
    BY <2>2, <2>9 DEF EnqueueAuthzTuple, MemPc, Calls, InProgress
  <2>10. CASE EnqueueOutbox(c)
    BY <2>2, <2>10 DEF EnqueueOutbox, MemPc, Calls, InProgress
  <2>11. CASE PutIdempotency(c)
    <3>1. memCall'[c].pc = "done" /\ memCall[c].pc = "key"
      BY <2>11, MemProceedsIs DEF PutIdempotency, MemPc, Calls
    <3>2. UNCHANGED <<memRevs, memOverlap, memRecord>>
      BY <2>11 DEF PutIdempotency
    <3>3. c # NoRev
      BY MemoryAssumption DEF NoRev
    <3>4. /\ memIdem'[Req(c).key] # NoRev
          /\ \A k \in MemKey : k # Req(c).key => memIdem'[k] = memIdem[k]
      BY <2>1, <2>11, <3>3 DEF PutIdempotency, MemTypeOK
    <3>5. MemRevisionsInv'
      BY <2>1, <3>1, <3>2, <3>4, <2>12 DEF MemRevisionsInv
    <3>6. MemTaken' \subseteq MemTaken
      BY <2>1, <3>1, <3>2 DEF MemTaken, InProgress
    <3>7. MemOverlapInv'
      BY <2>1, <3>2, <3>6 DEF MemOverlapInv, MemTaken
    <3>8. MemAcceptedInv'
      BY <2>1, <3>1, <3>2 DEF MemAcceptedInv, Calls
    <3> QED
      BY <3>5, <3>7, <3>8
  <2> QED
    BY <1>2, <2>3, <2>4, <2>5, <2>6, <2>7, <2>8, <2>9, <2>10, <2>11 DEF MemIntake
<1>3. ASSUME NEW res \in MemDeletable, TombstoneRecord(res)
      PROVE  MemRevisionsInv' /\ MemOverlapInv' /\ MemAcceptedInv'
  <2>1. /\ UNCHANGED <<memCall, memRevs, memIdem, memOverlap>>
        /\ memRecord' = [memRecord EXCEPT ![res] = [state |-> "TOMBSTONED", rev |-> NoRev]]
    BY <1>3 DEF TombstoneRecord
  <2>2. \A x \in MemRes : memRecord[x].state \in MemKnown => memRecord'[x].state \in MemKnown
    BY <2>1 DEF MemTypeOK, MemKnown
  <2>3. \A c \in MemCall : Req(c).res \in MemRes
    BY MemRequestFields DEF Req, MemTypeOK
  <2> QED
    BY <2>1, <2>2, <2>3 DEF MemRevisionsInv, MemOverlapInv, MemAcceptedInv, MemTaken,
                            InProgress, Calls, Req
<1>4. \/ \E c \in MemCall : MemIntake(c)
      \/ \E res \in MemDeletable : TombstoneRecord(res)
      \/ UNCHANGED <<memCall, memRevs, memIdem, memOverlap, memRecord>>
  BY DEF MemoryNext, ListEdges, TombstoneEdge, EnqueueDelete, MemWork, ClaimOutbox,
         ClaimAuthzTuples, Publish, MarkAuthzTuple, MemTick, memVars
<1> QED
  BY <1>1, <1>2, <1>3, <1>4

-----------------------------------------------------------------------------
(* Leases *)

(* Orders of times the solver is given as facts. *)
LEMMA MemLeq ==
  /\ \A a, b, c \in Nat : a <= b /\ b <= c => a <= c
  /\ \A a, b \in Nat : a <= b => a <= b + 1
  /\ \A a, b \in Nat : a <= b + Lease => a <= (b + 1) + Lease
  BY MemLeaseIsNat

(* The times of leases are numbers. *)
LEMMA MemHeldTypes ==
  ASSUME MemTypeOK
  PROVE  /\ memNow \in Nat
         /\ \A w \in MemWorker : memHeld[w].id \in Nat /\ memHeld[w].until \in Nat
         /\ \A i \in DOMAIN memTuples :
              memTuples[i].until \in Nat /\ memTuples[i].late \in BOOLEAN
         /\ \A i \in DOMAIN memOutbox : memOutbox[i].id \in MemEvent
         /\ \A e \in MemEvent : memLease[e] \in Nat
<1>1. /\ \A i \in DOMAIN memTuples : memTuples[i] \in MemRow
      /\ \A i \in DOMAIN memOutbox : memOutbox[i] \in MemEntry
  BY MemSeqElement DEF MemTypeOK
<1>2. /\ \A i \in DOMAIN memTuples :
           memTuples[i].until \in Nat /\ memTuples[i].late \in BOOLEAN
      /\ \A i \in DOMAIN memOutbox : memOutbox[i].id \in MemEvent
  BY <1>1 DEF MemRow, MemEntry
<1> QED
  BY <1>2 DEF MemTypeOK

(* Rows that are appended disturb no lease. *)
LEMMA MemGrowKeepsLeases ==
  ASSUME MemInv, UNCHANGED <<memNow, memLease, memHeld>>,
         \A i \in DOMAIN memTuples : i \in DOMAIN memTuples' /\ memTuples'[i] = memTuples[i],
         \A i \in DOMAIN memOutbox : i \in DOMAIN memOutbox' /\ memOutbox'[i] = memOutbox[i]
  PROVE  MemHeldInv' /\ MemOutboxLeased' /\ MemTupleLeased' /\ LeasesExclusive'
<1> USE DEF MemInv
<1>1. MemHeldInv'
  BY DEF MemHeldInv
<1>2. MemOutboxLeased' /\ MemTupleLeased'
  BY DEF MemHeldInv, MemOutboxLeased, MemTupleLeased
<1>3. \A w \in MemWorker : memHeld[w].kind = "tuple" =>
        memTuples'[memHeld[w].id] = memTuples[memHeld[w].id]
  BY DEF MemHeldInv
<1>4. LeasesExclusive'
  BY <1>3 DEF LeasesExclusive
<1> QED
  BY <1>1, <1>2, <1>4

(* A claim of an event leaves the leases exclusive. *)
LEMMA MemClaimOutboxKeepsLeases ==
  ASSUME MemInv, NEW w \in MemWorker, ClaimOutbox(w)
  PROVE  MemHeldInv' /\ MemOutboxLeased' /\ MemTupleLeased' /\ LeasesExclusive'
<1> USE DEF MemInv
<1>1. UNCHANGED <<memNow, memTuples, memOutbox>>
  BY DEF ClaimOutbox
<1>2. PICK i \in DOMAIN memOutbox :
        /\ ~memOutbox[i].published /\ memLease[memOutbox[i].id] <= memNow
        /\ memOutbox[i].id \in MemEvent
        /\ memLease' = [memLease EXCEPT ![memOutbox[i].id] = memNow + Lease]
        /\ memHeld' = [memHeld EXCEPT ![w] =
             [kind |-> "outbox", id |-> i, until |-> memNow + Lease]]
  BY MemClaimOutboxIs
<1>3. /\ memHeld'[w].kind = "outbox" /\ memHeld'[w].id = i
      /\ memHeld'[w].until = memNow + Lease
      /\ \A v \in MemWorker : v # w => memHeld'[v] = memHeld[v]
  BY <1>2 DEF MemTypeOK
<1>4. memNow + Lease \in Nat /\ ~(memNow + Lease <= memNow) /\ memNow + Lease <= memNow + Lease
  BY MemHeldTypes, MemLeaseIsNat
<1>5. MemHeldInv'
  BY <1>1, <1>3, <1>4 DEF MemHeldInv
<1>6. /\ memLease'[memOutbox[i].id] = memNow + Lease
      /\ \A e \in MemEvent : e # memOutbox[i].id => memLease'[e] = memLease[e]
  BY <1>2 DEF MemTypeOK
<1>7. MemOutboxLeased'
  <2> SUFFICES ASSUME NEW v \in MemWorker, memHeld'[v].kind = "outbox",
                      ~(memHeld'[v].until <= memNow')
               PROVE  \/ memOutbox'[memHeld'[v].id].published
                      \/ memHeld'[v].until <= memLease'[memOutbox'[memHeld'[v].id].id]
    BY DEF MemOutboxLeased
  <2>1. CASE v = w
    BY <1>1, <1>3, <1>4, <1>6, <2>1
  <2>2. CASE v # w
    <3>1. /\ memHeld'[v] = memHeld[v]
          /\ memHeld[v].until <= memNow + Lease
          /\ memOutbox[memHeld[v].id].id \in MemEvent
      BY <1>3, <2>2, MemHeldTypes DEF MemHeldInv
    <3>2. \/ memOutbox[memHeld[v].id].published
          \/ memHeld[v].until <= memLease[memOutbox[memHeld[v].id].id]
      BY <1>1, <3>1 DEF MemOutboxLeased
    <3> QED
      BY <1>1, <1>6, <3>1, <3>2
  <2> QED
    BY <2>1, <2>2
<1>8. MemTupleLeased'
  BY <1>1, <1>3 DEF MemTupleLeased
<1>9. \A v \in MemWorker : v # w /\ memHeld[v].kind = "outbox" /\ memHeld[v].id = i
        => memHeld[v].until <= memNow
  <2> SUFFICES ASSUME NEW v \in MemWorker, memHeld[v].kind = "outbox", memHeld[v].id = i,
                      ~(memHeld[v].until <= memNow)
               PROVE  FALSE
    OBVIOUS
  <2>1. memHeld[v].until <= memLease[memOutbox[i].id]
    BY <1>2 DEF MemOutboxLeased
  <2> QED
    BY <1>2, <2>1, MemHeldTypes, MemLeq
<1>10. LeasesExclusive'
  BY <1>1, <1>3, <1>9 DEF LeasesExclusive
<1> QED
  BY <1>5, <1>7, <1>8, <1>10

(* A claim of a tuple row leaves the leases exclusive. *)
LEMMA MemClaimTuplesKeepsLeases ==
  ASSUME MemInv, NEW w \in MemWorker, ClaimAuthzTuples(w)
  PROVE  MemHeldInv' /\ MemOutboxLeased' /\ MemTupleLeased' /\ LeasesExclusive'
<1> USE DEF MemInv
<1>1. UNCHANGED <<memNow, memOutbox, memLease>>
  BY DEF ClaimAuthzTuples
<1>2. /\ DOMAIN memTuples' = DOMAIN memTuples
      /\ \A j \in DOMAIN memTuples :
           /\ memTuples'[j].status = memTuples[j].status
           /\ memTuples'[j].late = memTuples[j].late
  BY MemClaimTuplesIs
<1>3. PICK i \in DOMAIN memTuples :
        /\ memTuples[i].status = "pending" /\ memTuples[i].until <= memNow
        /\ memTuples'[i].until = memNow + Lease
        /\ \A j \in DOMAIN memTuples : j # i => memTuples'[j] = memTuples[j]
        /\ memHeld' = [memHeld EXCEPT ![w] =
             [kind |-> "tuple", id |-> i, until |-> memNow + Lease]]
  BY MemClaimTuplesIs
<1>4. /\ memHeld'[w].kind = "tuple" /\ memHeld'[w].id = i
      /\ memHeld'[w].until = memNow + Lease
      /\ \A v \in MemWorker : v # w => memHeld'[v] = memHeld[v]
  BY <1>3 DEF MemTypeOK
<1>5. memNow + Lease \in Nat /\ ~(memNow + Lease <= memNow) /\ memNow + Lease <= memNow + Lease
  BY MemHeldTypes, MemLeaseIsNat
<1>6. MemHeldInv'
  BY <1>1, <1>2, <1>4, <1>5 DEF MemHeldInv
<1>7. MemOutboxLeased'
  BY <1>1, <1>4 DEF MemOutboxLeased
<1>8. MemTupleLeased'
  <2> SUFFICES ASSUME NEW v \in MemWorker, memHeld'[v].kind = "tuple",
                      ~(memHeld'[v].until <= memNow')
               PROVE  \/ memTuples'[memHeld'[v].id].status # "pending"
                      \/ memTuples'[memHeld'[v].id].late
                      \/ memHeld'[v].until <= memTuples'[memHeld'[v].id].until
    BY DEF MemTupleLeased
  <2>1. CASE v = w
    BY <1>3, <1>4, <1>5, <2>1
  <2>2. CASE v # w
    <3>1. /\ memHeld'[v] = memHeld[v]
          /\ memHeld[v].until <= memNow + Lease
          /\ memHeld[v].id \in DOMAIN memTuples
      BY <1>4, <2>2 DEF MemHeldInv
    <3>2. \/ memTuples[memHeld[v].id].status # "pending"
          \/ memTuples[memHeld[v].id].late
          \/ memHeld[v].until <= memTuples[memHeld[v].id].until
      BY <1>1, <3>1 DEF MemTupleLeased
    <3> QED
      BY <1>2, <1>3, <3>1, <3>2
  <2> QED
    BY <2>1, <2>2
<1>9. \A v \in MemWorker : v # w /\ memHeld[v].kind = "tuple" /\ memHeld[v].id = i
        => memHeld[v].until <= memNow \/ memTuples'[i].late
  <2> SUFFICES ASSUME NEW v \in MemWorker, memHeld[v].kind = "tuple", memHeld[v].id = i,
                      ~(memHeld[v].until <= memNow), ~memTuples[i].late
               PROVE  FALSE
    BY <1>2
  <2>1. memHeld[v].until <= memTuples[i].until
    BY <1>3 DEF MemTupleLeased
  <2> QED
    BY <1>3, <2>1, MemHeldTypes, MemLeq
<1>10. LeasesExclusive'
  <2> SUFFICES ASSUME NEW u \in MemWorker, NEW v \in MemWorker, u # v,
                      memHeld'[u].kind # "none", memHeld'[v].kind = memHeld'[u].kind,
                      memHeld'[v].id = memHeld'[u].id
               PROVE  \/ memHeld'[u].until <= memNow' \/ memHeld'[v].until <= memNow'
                      \/ memHeld'[u].kind = "tuple" /\ memTuples'[memHeld'[u].id].late
    BY DEF LeasesExclusive
  <2>1. CASE u = w
    BY <1>1, <1>4, <1>9, <2>1
  <2>2. CASE v = w
    BY <1>1, <1>4, <1>9, <2>2
  <2>3. CASE u # w /\ v # w
    <3>1. memHeld'[u] = memHeld[u] /\ memHeld'[v] = memHeld[v]
      BY <1>4, <2>3
    <3>2. \/ memHeld[u].until <= memNow \/ memHeld[v].until <= memNow
          \/ memHeld[u].kind = "tuple" /\ memTuples[memHeld[u].id].late
      BY <3>1 DEF LeasesExclusive
    <3>3. memHeld[u].kind = "tuple" => memHeld[u].id \in DOMAIN memTuples
      BY DEF MemHeldInv
    <3> QED
      BY <1>1, <1>2, <3>1, <3>2, <3>3
  <2> QED
    BY <2>1, <2>2, <2>3
<1> QED
  BY <1>6, <1>7, <1>8, <1>10

(* A publish, acknowledged or not, leaves the leases exclusive. *)
LEMMA MemPublishKeepsLeases ==
  ASSUME MemInv, NEW w \in MemWorker, NEW ok \in BOOLEAN, Publish(w, ok)
  PROVE  MemHeldInv' /\ MemOutboxLeased' /\ MemTupleLeased' /\ LeasesExclusive'
<1> USE DEF MemInv
<1> DEFINE e == memOutbox[memHeld[w].id]
<1>1. UNCHANGED <<memNow, memTuples>>
  BY DEF Publish
<1>2. memHeld[w].id \in DOMAIN memOutbox /\ e.id \in MemEvent
  BY MemHeldTypes DEF Publish, MemHeldInv
<1>3. /\ memHeld'[w].kind = "none" /\ memHeld'[w].until = 0
      /\ \A v \in MemWorker : v # w => memHeld'[v] = memHeld[v]
  BY DEF Publish, MemTypeOK, NothingHeld
<1>4. /\ DOMAIN memOutbox' = DOMAIN memOutbox
      /\ \A i \in DOMAIN memOutbox :
           /\ memOutbox'[i].id = memOutbox[i].id
           /\ memOutbox[i].published => memOutbox'[i].published
           /\ \/ memOutbox'[i].published
              \/ memLease'[memOutbox[i].id] = memLease[memOutbox[i].id]
  <2>1. CASE ok
    <3>1. memOutbox' = Published(e.id) /\ memLease' = [memLease EXCEPT ![e.id] = 0]
      BY <2>1 DEF Publish
    <3>2. /\ DOMAIN memOutbox' = DOMAIN memOutbox
          /\ \A i \in DOMAIN memOutbox :
              /\ memOutbox'[i].id = memOutbox[i].id
              /\ memOutbox[i].id = e.id => memOutbox'[i].published
              /\ memOutbox[i].id # e.id => memOutbox'[i] = memOutbox[i]
      BY <3>1, MemPublishedIs
    <3>3. \A i \in DOMAIN memOutbox : memOutbox[i].id # e.id =>
              memLease'[memOutbox[i].id] = memLease[memOutbox[i].id]
      BY <3>1, MemHeldTypes DEF MemTypeOK
    <3> HIDE DEF e
    <3> QED
      BY <3>2, <3>3
  <2>2. CASE ~ok
    BY <2>2 DEF Publish
  <2> QED
    BY <2>1, <2>2
<1> HIDE DEF e
<1>5. \A n \in Nat : 0 <= n + Lease
  BY MemLeaseIsNat
<1>6. MemHeldInv'
  BY <1>1, <1>3, <1>4, <1>5, MemHeldTypes DEF MemHeldInv
<1>7. MemOutboxLeased'
  <2> SUFFICES ASSUME NEW v \in MemWorker, memHeld'[v].kind = "outbox",
                      ~(memHeld'[v].until <= memNow')
               PROVE  \/ memOutbox'[memHeld'[v].id].published
                      \/ memHeld'[v].until <= memLease'[memOutbox'[memHeld'[v].id].id]
    BY DEF MemOutboxLeased
  <2>1. memHeld'[v] = memHeld[v]
    BY <1>3
  <2>2. memHeld[v].id \in DOMAIN memOutbox
    BY <2>1 DEF MemHeldInv
  <2>3. \/ memOutbox[memHeld[v].id].published
        \/ memHeld[v].until <= memLease[memOutbox[memHeld[v].id].id]
    BY <1>1, <2>1 DEF MemOutboxLeased
  <2> QED
    BY <1>4, <2>1, <2>2, <2>3
<1>8. MemTupleLeased'
  BY <1>1, <1>3 DEF MemTupleLeased
<1>9. LeasesExclusive'
  BY <1>1, <1>3 DEF LeasesExclusive
<1> QED
  BY <1>6, <1>7, <1>8, <1>9

(* A mark leaves the leases exclusive, or its row marked late. *)
LEMMA MemMarkKeepsLeases ==
  ASSUME MemInv, NEW w \in MemWorker, NEW status \in {"applied", "dead", "failed"},
         MarkAuthzTuple(w, status)
  PROVE  MemHeldInv' /\ MemOutboxLeased' /\ MemTupleLeased' /\ LeasesExclusive'
<1> USE DEF MemInv
<1> DEFINE i == memHeld[w].id
<1>1. UNCHANGED <<memNow, memOutbox, memLease>> /\ memHeld[w].kind = "tuple"
  BY DEF MarkAuthzTuple
<1>2. /\ memHeld'[w].kind = "none" /\ memHeld'[w].until = 0
      /\ \A v \in MemWorker : v # w => memHeld'[v] = memHeld[v]
  BY DEF MarkAuthzTuple, MemTypeOK, NothingHeld
<1>3. /\ i \in DOMAIN memTuples
      /\ DOMAIN memTuples' = DOMAIN memTuples
      /\ \A j \in DOMAIN memTuples : j # i => memTuples'[j] = memTuples[j]
      /\ status # "failed" => memTuples'[i].status # "pending"
      /\ memTuples[i].late => memTuples'[i].late
      /\ status = "failed" /\ memHeld[w].until <= memNow => memTuples'[i].late
  BY MemMarkIs
<1>4. \A n \in Nat : 0 <= n + Lease
  BY MemLeaseIsNat
<1>5. MemHeldInv'
  BY <1>1, <1>2, <1>3, <1>4, MemHeldTypes DEF MemHeldInv
<1>6. MemOutboxLeased'
  BY <1>1, <1>2 DEF MemOutboxLeased
<1>7. MemTupleLeased'
  <2> SUFFICES ASSUME NEW v \in MemWorker, memHeld'[v].kind = "tuple",
                      ~(memHeld'[v].until <= memNow')
               PROVE  \/ memTuples'[memHeld'[v].id].status # "pending"
                      \/ memTuples'[memHeld'[v].id].late
                      \/ memHeld'[v].until <= memTuples'[memHeld'[v].id].until
    BY DEF MemTupleLeased
  <2>1. memHeld'[v] = memHeld[v] /\ v # w
    BY <1>2
  <2>2. CASE memHeld[v].id # i
    <3>1. memHeld[v].id \in DOMAIN memTuples
      BY <2>1 DEF MemHeldInv
    <3>2. \/ memTuples[memHeld[v].id].status # "pending"
          \/ memTuples[memHeld[v].id].late
          \/ memHeld[v].until <= memTuples[memHeld[v].id].until
      BY <1>1, <2>1 DEF MemTupleLeased
    <3> HIDE DEF i
    <3> QED
      BY <1>3, <2>1, <2>2, <3>1, <3>2
  <2>3. CASE memHeld[v].id = i /\ status = "failed"
    <3>1. memHeld[w].until <= memNow \/ memTuples[i].late
      BY <1>1, <2>1, <2>3 DEF LeasesExclusive
    <3> QED
      BY <1>3, <2>1, <2>3, <3>1
  <2>4. CASE memHeld[v].id = i /\ status # "failed"
    BY <1>3, <2>1, <2>4
  <2> QED
    BY <2>2, <2>3, <2>4
<1>8. LeasesExclusive'
  <2> SUFFICES ASSUME NEW u \in MemWorker, NEW v \in MemWorker, u # v,
                      memHeld'[u].kind # "none", memHeld'[v].kind = memHeld'[u].kind,
                      memHeld'[v].id = memHeld'[u].id
               PROVE  \/ memHeld'[u].until <= memNow' \/ memHeld'[v].until <= memNow'
                      \/ memHeld'[u].kind = "tuple" /\ memTuples'[memHeld'[u].id].late
    BY DEF LeasesExclusive
  <2>1. memHeld'[u] = memHeld[u] /\ memHeld'[v] = memHeld[v]
    BY <1>2
  <2>2. \/ memHeld[u].until <= memNow \/ memHeld[v].until <= memNow
        \/ memHeld[u].kind = "tuple" /\ memTuples[memHeld[u].id].late
    BY <2>1 DEF LeasesExclusive
  <2>3. memHeld[u].kind = "tuple" => memHeld[u].id \in DOMAIN memTuples
    BY DEF MemHeldInv
  <2> HIDE DEF i
  <2> QED
    BY <1>1, <1>3, <2>1, <2>2, <2>3
<1> QED
  BY <1>5, <1>6, <1>7, <1>8

(* Time only ends leases. *)
LEMMA MemTickKeepsLeases ==
  ASSUME MemInv, MemTick
  PROVE  MemHeldInv' /\ MemOutboxLeased' /\ MemTupleLeased' /\ LeasesExclusive'
<1> USE DEF MemInv
<1>1. memNow' = memNow + 1 /\ UNCHANGED <<memTuples, memOutbox, memLease, memHeld>>
  BY DEF MemTick
<1>2. \A w \in MemWorker :
        /\ memHeld[w].until <= memNow => memHeld[w].until <= memNow'
        /\ memHeld[w].until <= memNow + Lease => memHeld[w].until <= memNow' + Lease
  BY <1>1, MemHeldTypes, MemLeq
<1>3. MemHeldInv'
  BY <1>1, <1>2 DEF MemHeldInv
<1>4. MemOutboxLeased' /\ MemTupleLeased'
  BY <1>1, <1>2 DEF MemOutboxLeased, MemTupleLeased
<1>5. LeasesExclusive'
  BY <1>1, <1>2 DEF LeasesExclusive
<1> QED
  BY <1>3, <1>4, <1>5

(* What is said of leases is inductive. *)
LEMMA MemLeasesStep ==
  ASSUME MemInv, [MemoryNext]_memVars
  PROVE  MemHeldInv' /\ MemOutboxLeased' /\ MemTupleLeased' /\ LeasesExclusive'
<1> USE DEF MemInv
<1>1. CASE UNCHANGED <<memNow, memTuples, memOutbox, memLease, memHeld>>
  BY <1>1, MemGrowKeepsLeases
<1>2. ASSUME NEW c \in MemCall, EnqueueAuthzTuple(c)
      PROVE  MemHeldInv' /\ MemOutboxLeased' /\ MemTupleLeased' /\ LeasesExclusive'
  <2>1. Req(c) \in MemRequest /\ Req(c).to # ""
    BY <1>2 DEF Req, MemTypeOK, EnqueueAuthzTuple, MemParented, Calls
  <2>2. Pair(c) \in MemPairs
    BY <2>1, MemRequestFields DEF Pair, MemPairs
  <2> QED
    BY <1>2, <2>2, MemEnqueuedIs, MemGrowKeepsLeases DEF EnqueueAuthzTuple
<1>3. ASSUME NEW c \in MemCall, EnqueueOutbox(c)
      PROVE  MemHeldInv' /\ MemOutboxLeased' /\ MemTupleLeased' /\ LeasesExclusive'
  <2> DEFINE e == [id |-> Req(c).event, rev |-> c, published |-> FALSE]
  <2>1. Req(c) \in MemRequest
    BY DEF Req, MemTypeOK
  <2>2. e \in MemEntry /\ memOutbox' = Append(memOutbox, e)
    BY <1>3, <2>1, MemRequestFields DEF MemEntry, EnqueueOutbox
  <2> HIDE DEF e
  <2>3. \A i \in DOMAIN memOutbox : i \in DOMAIN memOutbox' /\ memOutbox'[i] = memOutbox[i]
    BY <2>2, MemSeqAppend DEF MemTypeOK
  <2> QED
    BY <1>3, <2>3, MemGrowKeepsLeases DEF EnqueueOutbox
<1>4. CASE EnqueueDelete
  <2>1. memDelete.at \in MemPairs
    BY <1>4 DEF EnqueueDelete, MemTypeOK, MemDeletion
  <2> QED
    BY <1>4, <2>1, MemEnqueuedIs, MemGrowKeepsLeases DEF EnqueueDelete
<1>5. \/ UNCHANGED <<memNow, memTuples, memOutbox, memLease, memHeld>>
      \/ \E c \in MemCall : EnqueueAuthzTuple(c) \/ EnqueueOutbox(c)
      \/ EnqueueDelete
      \/ \E w \in MemWorker : MemWork(w)
      \/ MemTick
  BY DEF MemoryNext, MemIntake, GetIdempotency, PromotePlaceholder, AppendRevision,
         EnsureEndpoint, InsertPlaceholder, UpsertEdge, PutIdempotency, TombstoneRecord,
         ListEdges, TombstoneEdge, memVars
<1> QED
  BY <1>1, <1>2, <1>3, <1>4, <1>5, MemClaimOutboxKeepsLeases, MemClaimTuplesKeepsLeases,
     MemPublishKeepsLeases, MemMarkKeepsLeases, MemTickKeepsLeases DEF MemWork

-----------------------------------------------------------------------------
(* The outbox, and the operations of an edge *)

(* An event is published only after it was sent. *)
LEMMA MemPublishedStep ==
  ASSUME MemInv, [MemoryNext]_memVars
  PROVE  PublishedWasSent'
<1> USE DEF MemInv
<1>1. CASE UNCHANGED <<memOutbox, memSent>>
  BY <1>1 DEF PublishedWasSent
<1>2. ASSUME NEW c \in MemCall, EnqueueOutbox(c) PROVE PublishedWasSent'
  <2> DEFINE e == [id |-> Req(c).event, rev |-> c, published |-> FALSE]
  <2>1. Req(c) \in MemRequest
    BY DEF Req, MemTypeOK
  <2>2. e \in MemEntry /\ memOutbox' = Append(memOutbox, e) /\ ~e.published
    BY <1>2, <2>1, MemRequestFields DEF MemEntry, EnqueueOutbox
  <2> HIDE DEF e
  <2>3. /\ \A i \in DOMAIN memOutbox : i \in DOMAIN memOutbox' /\ memOutbox'[i] = memOutbox[i]
        /\ \A i \in DOMAIN memOutbox' : i \in DOMAIN memOutbox \/ memOutbox'[i] = e
    BY <2>2, MemSeqAppend DEF MemTypeOK
  <2>4. memSent' = memSent
    BY <1>2 DEF EnqueueOutbox
  <2> SUFFICES ASSUME NEW i \in DOMAIN memOutbox', memOutbox'[i].published
               PROVE  \/ memOutbox'[i].rev \in memSent'
                      \/ \E j \in DOMAIN memOutbox' : i # j /\ memOutbox'[j].id = memOutbox'[i].id
    BY DEF PublishedWasSent
  <2>5. i \in DOMAIN memOutbox /\ memOutbox'[i] = memOutbox[i]
    BY <2>2, <2>3
  <2>6. \/ memOutbox[i].rev \in memSent
        \/ \E j \in DOMAIN memOutbox : i # j /\ memOutbox[j].id = memOutbox[i].id
    BY <2>5 DEF PublishedWasSent
  <2> QED
    BY <2>3, <2>4, <2>5, <2>6
<1>3. ASSUME NEW w \in MemWorker, Publish(w, TRUE) PROVE PublishedWasSent'
  <2> DEFINE h == memHeld[w].id
             e == memOutbox[h]
  <2>1. h \in DOMAIN memOutbox
    BY <1>3 DEF Publish, MemHeldInv
  <2>2. memOutbox' = Published(e.id) /\ memSent' = memSent \cup {e.rev}
    BY <1>3 DEF Publish
  <2>3. /\ DOMAIN memOutbox' = DOMAIN memOutbox
        /\ \A i \in DOMAIN memOutbox :
             /\ memOutbox'[i].id = memOutbox[i].id
             /\ memOutbox'[i].rev = memOutbox[i].rev
             /\ memOutbox[i].id # e.id => memOutbox'[i] = memOutbox[i]
    BY <2>2, MemPublishedIs
  <2> SUFFICES ASSUME NEW i \in DOMAIN memOutbox, memOutbox'[i].published
               PROVE  \/ memOutbox'[i].rev \in memSent'
                      \/ \E j \in DOMAIN memOutbox : i # j /\ memOutbox'[j].id = memOutbox'[i].id
    BY <2>3 DEF PublishedWasSent
  <2> HIDE DEF h
  <2>4. CASE i = h
    BY <2>1, <2>2, <2>3, <2>4
  <2>5. CASE i # h /\ memOutbox[i].id = e.id
    BY <2>1, <2>3, <2>5
  <2>6. CASE memOutbox[i].id # e.id
    <3>1. \/ memOutbox[i].rev \in memSent
          \/ \E j \in DOMAIN memOutbox : i # j /\ memOutbox[j].id = memOutbox[i].id
      BY <2>3, <2>6 DEF PublishedWasSent
    <3> QED
      BY <2>2, <2>3, <3>1
  <2> QED
    BY <2>4, <2>5, <2>6
<1>4. ASSUME NEW w \in MemWorker, NEW ok \in BOOLEAN, Publish(w, ok) PROVE PublishedWasSent'
  <2>1. CASE ok = TRUE
    BY <1>3, <1>4, <2>1
  <2>2. CASE ok = FALSE
    BY <1>1, <1>4, <2>2 DEF Publish
  <2> QED
    BY <2>1, <2>2
<1>5. \/ UNCHANGED <<memOutbox, memSent>>
      \/ \E c \in MemCall : EnqueueOutbox(c)
      \/ \E w \in MemWorker : \E ok \in BOOLEAN : Publish(w, ok)
  BY DEF MemoryNext, MemIntake, GetIdempotency, PromotePlaceholder, AppendRevision,
         EnsureEndpoint, InsertPlaceholder, UpsertEdge, EnqueueAuthzTuple, PutIdempotency,
         TombstoneRecord, ListEdges, TombstoneEdge, EnqueueDelete, MemWork, ClaimOutbox,
         ClaimAuthzTuples, MarkAuthzTuple, MemTick, memVars
<1> QED
  BY <1>1, <1>2, <1>4, <1>5

(* Rows stay, and so do the calls that are at "tuple" but c. *)
LEMMA MemEdgeKept ==
  ASSUME MemInv, UNCHANGED memEdge,
         \A op \in {"write", "delete"} : \A pair \in MemPairs :
            RowFor(op, pair) => RowFor(op, pair)',
         \A d \in MemCall : \A pair \in MemPairs :
            Calls(d, "tuple") /\ Pair(d) = pair =>
              RowFor("write", pair)' \/ (Calls(d, "tuple")' /\ Pair(d)' = pair),
         \A pair \in MemPairs : memDelete.at = pair =>
            memDelete'.at = pair \/ RowFor("delete", pair)',
         \A pair \in MemPairs : pair \in memRaced =>
            memEdge[pair].state = "ACTIVE" \/ pair \in memRaced'
  PROVE  MemEdgeInv'
<1> SUFFICES ASSUME NEW pair \in MemPairs
             PROVE  /\ memEdge[pair].state = "NONE" => ~memEdge[pair].sync
                    /\ memEdge[pair].sync /\ memEdge[pair].state = "ACTIVE" =>
                         \/ RowFor("write", pair)'
                         \/ \E c \in MemCall : Calls(c, "tuple")' /\ Pair(c)' = pair
                    /\ memEdge[pair].sync /\ memEdge[pair].state = "TOMBSTONED" =>
                         \/ RowFor("delete", pair)' \/ memDelete'.at = pair
                         \/ pair \in memRaced'
  BY DEF MemEdgeInv
<1>1. /\ memEdge[pair].state = "NONE" => ~memEdge[pair].sync
      /\ memEdge[pair].sync /\ memEdge[pair].state = "ACTIVE" =>
           RowFor("write", pair) \/ \E c \in MemCall : Calls(c, "tuple") /\ Pair(c) = pair
      /\ memEdge[pair].sync /\ memEdge[pair].state = "TOMBSTONED" =>
           RowFor("delete", pair) \/ memDelete.at = pair \/ pair \in memRaced
  BY DEF MemInv, MemEdgeInv
<1>2. /\ RowFor("write", pair) => RowFor("write", pair)'
      /\ RowFor("delete", pair) => RowFor("delete", pair)'
  OBVIOUS
<1>3. ASSUME NEW c \in MemCall, Calls(c, "tuple"), Pair(c) = pair
      PROVE  \/ RowFor("write", pair)'
             \/ \E d \in MemCall : Calls(d, "tuple")' /\ Pair(d)' = pair
  BY <1>3
<1> QED
  BY <1>1, <1>2, <1>3

(* What is said of an edge's tuple rows is inductive. *)
LEMMA MemEdgeStep ==
  ASSUME MemInv, [MemoryNext]_memVars, MemTypeOK'
  PROVE  MemEdgeInv'
<1> USE DEF MemInv
<1>0. ASSUME UNCHANGED memTuples
      PROVE  \A op \in {"write", "delete"} : \A pair \in MemPairs :
               RowFor(op, pair) => RowFor(op, pair)'
  BY <1>0 DEF RowFor
<1>1. ASSUME UNCHANGED memCall
      PROVE  \A d \in MemCall : Calls(d, "tuple") => Calls(d, "tuple")' /\ Pair(d)' = Pair(d)
  BY <1>1 DEF Calls, Pair, Req
<1>2. ASSUME NEW c \in MemCall, MemIntake(c)
      PROVE  /\ \A d \in MemCall : Pair(d)' = Pair(d)
             /\ \A d \in MemCall : d # c => memCall'[d].pc = memCall[d].pc
  <2>1. \E pc \in MemPc : Proceeds(c, pc)
    BY <1>2 DEF MemIntake, GetIdempotency, PromotePlaceholder, AppendRevision,
           EnsureEndpoint, InsertPlaceholder, UpsertEdge, EnqueueAuthzTuple,
           EnqueueOutbox, PutIdempotency, MemPc
  <2> QED
    BY <2>1, MemProceedsIs DEF Pair, Req
<1>3. CASE UNCHANGED <<memEdge, memTuples, memCall, memDelete, memRaced>>
  BY <1>0, <1>1, <1>3, MemEdgeKept
<1>4. ASSUME NEW c \in MemCall, MemIntake(c), memCall[c].pc # "tuple",
             UNCHANGED <<memEdge, memTuples, memDelete, memRaced>>
      PROVE  MemEdgeInv'
  BY <1>0, <1>2, <1>4, MemEdgeKept DEF Calls
<1>5. ASSUME NEW c \in MemCall, UpsertEdge(c) PROVE MemEdgeInv'
  <2>1. Req(c) \in MemRequest /\ Req(c).to # ""
    BY <1>5 DEF Req, MemTypeOK, UpsertEdge, MemParented, Calls
  <2>2. Pair(c) \in MemPairs /\ Req(c).sync \in BOOLEAN
    BY <2>1, MemRequestFields DEF Pair, MemPairs
  <2>3. /\ \A d \in MemCall : Pair(d)' = Pair(d)
        /\ \A d \in MemCall : d # c => memCall'[d].pc = memCall[d].pc
    BY <1>2, <1>5 DEF MemIntake
  <2>4. Req(c).sync => memCall'[c].pc = "tuple"
    BY <1>5, MemProceedsIs DEF UpsertEdge, MemPc
  <2>5. /\ memEdge'[Pair(c)] = [state |-> "ACTIVE", sync |-> Req(c).sync]
        /\ \A p \in MemPairs : p # Pair(c) => memEdge'[p] = memEdge[p]
    BY <1>5, <2>2 DEF UpsertEdge, MemTypeOK
  <2>6. memCall[c].pc = "edge" /\ UNCHANGED <<memTuples, memDelete>>
        /\ memRaced \subseteq memRaced'
    BY <1>5 DEF UpsertEdge, Calls
  <2> SUFFICES ASSUME NEW pair \in MemPairs
               PROVE  /\ memEdge'[pair].state = "NONE" => ~memEdge'[pair].sync
                      /\ memEdge'[pair].sync /\ memEdge'[pair].state = "ACTIVE" =>
                           \/ RowFor("write", pair)'
                           \/ \E d \in MemCall : Calls(d, "tuple")' /\ Pair(d)' = pair
                      /\ memEdge'[pair].sync /\ memEdge'[pair].state = "TOMBSTONED" =>
                           \/ RowFor("delete", pair)' \/ memDelete'.at = pair
                         \/ pair \in memRaced'
    BY DEF MemEdgeInv
  <2>7. CASE pair = Pair(c)
    <3>1. memEdge'[pair].state = "ACTIVE" /\ memEdge'[pair].sync = Req(c).sync
      BY <2>5, <2>7
    <3>2. Req(c).sync => Calls(c, "tuple")' /\ Pair(c)' = pair
      BY <2>3, <2>4, <2>7 DEF Calls
    <3> QED
      BY <3>1, <3>2
  <2>8. CASE pair # Pair(c)
    <3>1. memEdge'[pair] = memEdge[pair]
      BY <2>5, <2>8
    <3>2. \A op \in {"write", "delete"} : RowFor(op, pair) => RowFor(op, pair)'
      BY <1>0, <2>6
    <3>3. \A d \in MemCall : Calls(d, "tuple") => Calls(d, "tuple")'
      BY <2>3, <2>6 DEF Calls
    <3>4. /\ memEdge[pair].state = "NONE" => ~memEdge[pair].sync
          /\ memEdge[pair].sync /\ memEdge[pair].state = "ACTIVE" =>
               RowFor("write", pair) \/ \E d \in MemCall : Calls(d, "tuple") /\ Pair(d) = pair
          /\ memEdge[pair].sync /\ memEdge[pair].state = "TOMBSTONED" =>
               RowFor("delete", pair) \/ memDelete.at = pair \/ pair \in memRaced
      BY DEF MemEdgeInv
    <3> QED
      BY <2>3, <2>6, <3>1, <3>2, <3>3, <3>4
  <2> QED
    BY <2>7, <2>8
<1>6. ASSUME NEW op \in {"write", "delete"}, NEW pair \in MemPairs,
             memTuples' = EnqueuedTuple(op, pair)
      PROVE  /\ RowFor(op, pair)'
             /\ \A o \in {"write", "delete"} : \A p \in MemPairs :
                  RowFor(o, p) => RowFor(o, p)'
  <2>1. /\ \A i \in DOMAIN memTuples : i \in DOMAIN memTuples' /\ memTuples'[i] = memTuples[i]
        /\ RowFor(op, pair)'
    BY <1>6, MemEnqueuedIs
  <2> QED
    BY <2>1 DEF RowFor
<1>7. ASSUME NEW c \in MemCall, EnqueueAuthzTuple(c) PROVE MemEdgeInv'
  <2>1. Req(c) \in MemRequest /\ Req(c).to # ""
    BY <1>7 DEF Req, MemTypeOK, EnqueueAuthzTuple, MemParented, Calls
  <2>2. Pair(c) \in MemPairs
    BY <2>1, MemRequestFields DEF Pair, MemPairs
  <2>3. /\ \A d \in MemCall : Pair(d)' = Pair(d)
        /\ \A d \in MemCall : d # c => memCall'[d].pc = memCall[d].pc
    BY <1>2, <1>7 DEF MemIntake
  <2>4. memTuples' = EnqueuedTuple("write", Pair(c)) /\ UNCHANGED <<memEdge, memDelete, memRaced>>
    BY <1>7 DEF EnqueueAuthzTuple
  <2> QED
    BY <1>6, <2>2, <2>3, <2>4, MemEdgeKept DEF Calls
<1>8. CASE EnqueueDelete
  <2>1. memDelete.at \in MemPairs /\ memDelete.step = "edges"
    BY <1>8 DEF EnqueueDelete, MemTypeOK, MemDeletion, MemListedInv
  <2>2. /\ memTuples' = EnqueuedTuple("delete", memDelete.at)
        /\ UNCHANGED <<memEdge, memCall, memRaced>>
    BY <1>8 DEF EnqueueDelete
  <2> QED
    BY <1>1, <1>6, <2>1, <2>2, MemEdgeKept
<1>9. ASSUME NEW w \in MemWorker, MemWork(w) PROVE MemEdgeInv'
  <2>1. UNCHANGED <<memEdge, memCall, memDelete, memRaced>>
    BY <1>9 DEF MemWork, ClaimOutbox, ClaimAuthzTuples, Publish, MarkAuthzTuple
  <2>2. \/ UNCHANGED memTuples
        \/ /\ DOMAIN memTuples' = DOMAIN memTuples
           /\ \A j \in DOMAIN memTuples :
                memTuples'[j].op = memTuples[j].op /\ memTuples'[j].pair = memTuples[j].pair
    <3>1. CASE ClaimAuthzTuples(w)
      BY <3>1, MemClaimTuplesIs
    <3>2. ASSUME NEW status \in {"applied", "dead", "failed"}, MarkAuthzTuple(w, status)
          PROVE  /\ DOMAIN memTuples' = DOMAIN memTuples
                 /\ \A j \in DOMAIN memTuples :
                      memTuples'[j].op = memTuples[j].op /\ memTuples'[j].pair = memTuples[j].pair
      BY <3>2, MemMarkIs
    <3>3. CASE ClaimOutbox(w) \/ \E ok \in BOOLEAN : Publish(w, ok)
      BY <3>3 DEF ClaimOutbox, Publish
    <3> QED
      BY <1>9, <3>1, <3>2, <3>3 DEF MemWork
  <2>3. \A op \in {"write", "delete"} : \A pair \in MemPairs :
          RowFor(op, pair) => RowFor(op, pair)'
    BY <2>2 DEF RowFor
  <2> QED
    BY <1>1, <2>1, <2>3, MemEdgeKept
<1>10. ASSUME NEW l \in memDelete.listed, TombstoneEdge(l) PROVE MemEdgeInv'
  <2> DEFINE p == l.pair
             left == memDelete.listed \ {l}
             at == IF l.sync THEN p ELSE NoPair
  <2>9. p \in MemPairs /\ memDelete.step = "edges"
    BY DEF MemTypeOK, MemDeletion, MemListed, MemListedInv
  <2>10. left \in SUBSET MemListed /\ at \in MemPairs \cup {NoPair}
    BY <2>9 DEF MemTypeOK, MemDeletion
  <2>11. memDelete' = Deleted(left, at)
    BY <1>10 DEF TombstoneEdge
  <2>12. memDelete'.at = at
    <3> HIDE DEF left, at
    <3> QED
      BY <2>9, <2>10, <2>11, MemDeletedIs
  <2>1. /\ memDelete.at = NoPair
        /\ UNCHANGED <<memTuples, memCall, memRaced>>
        /\ p \in memRaced \/ memEdge[p].sync = l.sync
        /\ l.sync => memDelete'.at = p
    BY <1>10, <2>12 DEF TombstoneEdge, MemListedInv
  <2>2. memEdge[p] \in [state : {"NONE", "ACTIVE", "TOMBSTONED"}, sync : BOOLEAN]
    BY <2>9 DEF MemTypeOK
  <2>3. /\ memEdge'[p] = [memEdge[p] EXCEPT !.state = "TOMBSTONED"]
        /\ \A q \in MemPairs : q # p => memEdge'[q] = memEdge[q]
    BY <1>10, <2>9 DEF TombstoneEdge, MemTypeOK
  <2> HIDE DEF p, left, at
  <2>4. memEdge'[p].state = "TOMBSTONED" /\ memEdge'[p].sync = memEdge[p].sync
    BY <2>2, <2>3
  <2>5. \A op \in {"write", "delete"} : \A pair \in MemPairs :
          RowFor(op, pair) => RowFor(op, pair)'
    BY <1>0, <2>1
  <2>6. \A d \in MemCall : Calls(d, "tuple") => Calls(d, "tuple")' /\ Pair(d)' = Pair(d)
    BY <1>1, <2>1
  <2> SUFFICES ASSUME NEW pair \in MemPairs
               PROVE  /\ memEdge'[pair].state = "NONE" => ~memEdge'[pair].sync
                      /\ memEdge'[pair].sync /\ memEdge'[pair].state = "ACTIVE" =>
                           \/ RowFor("write", pair)'
                           \/ \E d \in MemCall : Calls(d, "tuple")' /\ Pair(d)' = pair
                      /\ memEdge'[pair].sync /\ memEdge'[pair].state = "TOMBSTONED" =>
                           \/ RowFor("delete", pair)' \/ memDelete'.at = pair
                         \/ pair \in memRaced'
    BY DEF MemEdgeInv
  <2>7. CASE pair = p
    BY <2>1, <2>4, <2>7
  <2>8. CASE pair # p
    <3>1. memEdge'[pair] = memEdge[pair]
      BY <2>3, <2>8
    <3>2. memDelete.at # pair
      BY <2>1, MemNoPairIsNoPair
    <3>3. /\ memEdge[pair].state = "NONE" => ~memEdge[pair].sync
          /\ memEdge[pair].sync /\ memEdge[pair].state = "ACTIVE" =>
               RowFor("write", pair) \/ \E d \in MemCall : Calls(d, "tuple") /\ Pair(d) = pair
          /\ memEdge[pair].sync /\ memEdge[pair].state = "TOMBSTONED" =>
               RowFor("delete", pair) \/ pair \in memRaced
      BY <3>2 DEF MemEdgeInv
    <3> QED
      BY <2>1, <2>5, <2>6, <3>1, <3>3
  <2> QED
    BY <2>7, <2>8
<1>11. ASSUME NEW c \in MemCall, MemIntake(c) PROVE MemEdgeInv'
  <2>1. CASE UpsertEdge(c) \/ EnqueueAuthzTuple(c)
    BY <1>5, <1>7, <2>1
  <2>2. CASE ~(UpsertEdge(c) \/ EnqueueAuthzTuple(c))
    <3>1. memCall[c].pc # "tuple" /\ UNCHANGED <<memEdge, memTuples, memDelete, memRaced>>
      BY <1>11, <2>2 DEF MemIntake, GetIdempotency, PromotePlaceholder, AppendRevision,
           EnsureEndpoint, InsertPlaceholder, EnqueueOutbox, PutIdempotency, Calls
    <3> QED
      BY <1>4, <1>11, <3>1
  <2> QED
    BY <2>1, <2>2
<1>12. CASE MemTick \/ UNCHANGED memVars
  BY <1>3, <1>12 DEF MemTick, memVars
<1>13. CASE ListEdges
  <2> DEFINE found == ActiveEdgesOf(memDelete.res)
  <2>1. /\ memDelete.step = "list" /\ UNCHANGED <<memEdge, memTuples, memCall>>
        /\ memRaced' = memRaced \ found
    BY <1>13 DEF ListEdges
  <2>2. memDelete.at = NoPair
    BY <2>1 DEF MemListedInv
  <2>3. \A pair \in found : memEdge[pair].state = "ACTIVE"
    BY DEF ActiveEdgesOf
  <2>4. \A pair \in MemPairs : pair \in memRaced =>
          memEdge[pair].state = "ACTIVE" \/ pair \in memRaced'
    BY <2>1, <2>3
  <2> QED
    BY <1>0, <1>1, <2>1, <2>2, <2>4, MemEdgeKept, MemNoPairIsNoPair
<1>14. ASSUME NEW res \in MemDeletable, TombstoneRecord(res) PROVE MemEdgeInv'
  <2>1. /\ memDelete.at = NoPair
        /\ UNCHANGED <<memEdge, memTuples, memCall, memRaced>>
    BY <1>14 DEF TombstoneRecord, NoDeletion
  <2> QED
    BY <1>0, <1>1, <2>1, MemEdgeKept, MemNoPairIsNoPair
<1> QED
  BY <1>8, <1>9, <1>10, <1>11, <1>12, <1>13, <1>14 DEF MemoryNext

(* The copies a deletion works from stay what they were. *)
LEMMA MemListedStep ==
  ASSUME MemInv, [MemoryNext]_memVars
  PROVE  MemListedInv'
<1> USE DEF MemInv
<1>1. CASE UNCHANGED <<memEdge, memDelete, memRaced>>
  BY <1>1 DEF MemListedInv
<1>2. ASSUME NEW c \in MemCall, UpsertEdge(c) PROVE MemListedInv'
  <2>1. /\ UNCHANGED memDelete
        /\ memRaced' = memRaced \cup ({Pair(c)} \cap {l.pair : l \in memDelete.listed})
    BY <1>2 DEF UpsertEdge
  <2>2. \A p \in MemPairs : p # Pair(c) => memEdge'[p] = memEdge[p]
    BY <1>2 DEF UpsertEdge, MemTypeOK
  <2>3. \A l \in memDelete.listed : l.pair \in MemPairs
    BY DEF MemTypeOK, MemDeletion, MemListed
  <2> QED
    BY <2>1, <2>2, <2>3 DEF MemListedInv
<1>3. ASSUME NEW l \in memDelete.listed, TombstoneEdge(l) PROVE MemListedInv'
  <2> DEFINE left == memDelete.listed \ {l}
             at == IF l.sync THEN l.pair ELSE NoPair
  <2>1. \A k \in memDelete.listed : k.pair \in MemPairs
    BY DEF MemTypeOK, MemDeletion, MemListed
  <2>2. memDelete.step = "edges" /\ UNCHANGED memRaced
    BY <1>3 DEF MemListedInv, TombstoneEdge
  <2>3. \A p \in MemPairs : memEdge'[p].sync = memEdge[p].sync
    BY <1>3, <2>1 DEF TombstoneEdge, MemTypeOK
  <2>4. left \in SUBSET MemListed /\ at \in MemPairs \cup {NoPair}
    BY <2>1 DEF MemTypeOK, MemDeletion
  <2>5. memDelete' = Deleted(left, at)
    BY <1>3 DEF TombstoneEdge
  <2>6. /\ memDelete'.at = at /\ memDelete'.listed = left
        /\ memDelete'.step # "edges" => at = NoPair /\ left = {}
    <3> HIDE DEF left, at
    <3> QED
      BY <2>2, <2>4, <2>5, MemDeletedIs
  <2> QED
    BY <2>1, <2>2, <2>3, <2>6 DEF MemListedInv
<1>4. CASE EnqueueDelete
  <2>1. memDelete.step = "edges" /\ memDelete.listed \in SUBSET MemListed
    BY <1>4 DEF MemListedInv, EnqueueDelete, MemTypeOK, MemDeletion
  <2>2. /\ memDelete'.at = NoPair /\ memDelete'.listed = memDelete.listed
        /\ memDelete'.step # "edges" => memDelete.listed = {}
    BY <1>4, <2>1, MemDeletedIs DEF EnqueueDelete
  <2>3. UNCHANGED <<memEdge, memRaced>>
    BY <1>4 DEF EnqueueDelete
  <2> QED
    BY <2>2, <2>3 DEF MemListedInv
<1>5. CASE ListEdges
  <2> DEFINE found == ActiveEdgesOf(memDelete.res)
             copies == {[pair |-> p, sync |-> memEdge[p].sync] : p \in found}
  <2>1. UNCHANGED memEdge
    BY <1>5 DEF ListEdges
  <2>2. CASE memDelete' = NoDeletion
    BY <2>2 DEF MemListedInv, NoDeletion
  <2>3. CASE memDelete' = [memDelete EXCEPT !.step = "edges", !.listed = copies]
    <3>1. memDelete'.step = "edges" /\ memDelete'.listed = copies
      BY <2>3 DEF MemTypeOK, MemDeletion
    <3>2. \A l \in copies : memEdge[l.pair].sync = l.sync
      OBVIOUS
    <3> QED
      BY <2>1, <3>1, <3>2 DEF MemListedInv
  <2> QED
    BY <1>5, <2>2, <2>3 DEF ListEdges
<1>6. ASSUME NEW res \in MemDeletable, TombstoneRecord(res) PROVE MemListedInv'
  BY <1>6 DEF TombstoneRecord, NoDeletion, MemListedInv
<1>7. \/ UNCHANGED <<memEdge, memDelete, memRaced>>
      \/ \E c \in MemCall : UpsertEdge(c)
      \/ \E res \in MemDeletable : TombstoneRecord(res)
      \/ ListEdges
      \/ \E l \in memDelete.listed : TombstoneEdge(l)
      \/ EnqueueDelete
  BY DEF MemoryNext, MemIntake, GetIdempotency, PromotePlaceholder, AppendRevision,
         EnsureEndpoint, InsertPlaceholder, EnqueueAuthzTuple, EnqueueOutbox,
         PutIdempotency, MemWork, ClaimOutbox, ClaimAuthzTuples, Publish,
         MarkAuthzTuple, MemTick, memVars
<1> QED
  BY <1>1, <1>2, <1>3, <1>4, <1>5, <1>6, <1>7

-----------------------------------------------------------------------------
(* The invariant implies the property. *)
LEMMA MemInvGives == MemInv => MemoryStillHolds
<1> SUFFICES ASSUME MemInv PROVE MemoryStillHolds
  OBVIOUS
<1> USE DEF MemInv
<1>1. TwiceOnlyByOverlap
  BY DEF TwiceOnlyByOverlap, MemOverlapInv, MemTaken, MemTypeOK
<1>2. PlaceholderNeverOverwrites
  BY DEF PlaceholderNeverOverwrites, MemAcceptedInv, MemTypeOK, MemKnown
<1>3. EdgeOpsRequested
  <2> SUFFICES ASSUME NEW pair \in MemRes \X MemRes, memEdge[pair].sync
               PROVE  LET rows(op) == {i \in DOMAIN memTuples :
                                memTuples[i].pair = pair /\ memTuples[i].op = op}
                      IN CASE memEdge[pair].state = "ACTIVE" ->
                              rows("write") # {} \/ \E c \in MemCall :
                                                      Calls(c, "tuple") /\ Pair(c) = pair
                           [] memEdge[pair].state = "TOMBSTONED" ->
                              \/ rows("delete") # {} \/ memDelete.at = pair
                              \/ pair \in memRaced
    BY DEF EdgeOpsRequested
  <2>1. memEdge[pair].state \in {"NONE", "ACTIVE", "TOMBSTONED"}
    BY DEF MemTypeOK, MemPairs
  <2>2. /\ memEdge[pair].state # "NONE"
        /\ memEdge[pair].state = "ACTIVE" =>
             RowFor("write", pair) \/ \E c \in MemCall : Calls(c, "tuple") /\ Pair(c) = pair
        /\ memEdge[pair].state = "TOMBSTONED" =>
             RowFor("delete", pair) \/ memDelete.at = pair \/ pair \in memRaced
    BY DEF MemEdgeInv, MemPairs
  <2>3. CASE memEdge[pair].state = "ACTIVE"
    BY <2>2, <2>3 DEF RowFor
  <2>4. CASE memEdge[pair].state = "TOMBSTONED"
    BY <2>2, <2>4 DEF RowFor
  <2> QED
    BY <2>1, <2>2, <2>3, <2>4
<1> QED
  BY <1>1, <1>2, <1>3 DEF MemoryStillHolds

(* The invariant holds whatever intakes, deletions and workers do. *)
LEMMA MemoryInvHolds == MemorySpec => []MemInv
<1>1. MemInv /\ [MemoryNext]_memVars => MemInv'
  <2> SUFFICES ASSUME MemInv, [MemoryNext]_memVars PROVE MemInv'
    OBVIOUS
  <2>1. MemTypeOK' /\ MemParented'
    BY MemIntakeTypes, MemOtherTypes DEF MemoryNext
  <2> QED
    BY <2>1, MemIntakesStep, MemLeasesStep, MemPublishedStep, MemEdgeStep, MemListedStep
       DEF MemInv
<1> QED
  BY <1>1, MemoryInitInv, PTL DEF MemorySpec

(* Of the memory ledger, whose methods each take the lock for themselves,  *)
(* with no transaction around an intake: two revisions under one           *)
(* idempotency key come from intakes that overlapped, a revision's record  *)
(* is no placeholder, two leases of one row in force together take a late  *)
(* mark, a published event was sent, and an edge to synchronise has, or is *)
(* about to get, its tuple operation, unless an intake changed it after a  *)
(* deletion had listed it.                                                 *)
THEOREM MemoryStillHoldsAlways == MemorySpec => []MemoryStillHolds
  BY MemoryInvHolds, MemInvGives, PTL

-----------------------------------------------------------------------------
(* Export and import *)

(* A record, as stored or as listed. *)
ExRec == [state : {"NONE", "PLACEHOLDER", "ACCEPTED", "TOMBSTONED", ""}, rev : Nat,
          tags : BOOLEAN]
(* An edge. *)
ExEdge == [state : {"NONE", "ACTIVE", "TOMBSTONED"}, sync : BOOLEAN]
(* A revision. *)
ExRevs == [res : Item, rev : Nat]
(* A ledger, or a manifest. *)
ExLedgers == [rec : [Item -> ExRec], revs : SUBSET ExRevs, edge : [Ends -> ExEdge]]
(* The ledger an import writes to, with the tuples it asked for. *)
ExTargets == [rec : [Item -> ExRec], revs : SUBSET ExRevs, edge : [Ends -> ExEdge],
              asked : SUBSET Ends]

(* Values of the state of an export and its imports. *)
ExTypeOK ==
  /\ exStore \in {"postgres", "memory"} /\ exInto \in {"postgres", "memory"}
  /\ exLedger \in ExLedgers
  /\ exBuild \in [pc : {"idle", "failed", "revisions", "edges", "sealed"},
                  todo : SUBSET Item]
  /\ exFile \in ExLedgers
  /\ exTarget \in ExTargets
  /\ exImport \in {"none", "imported", "rolledback"}
  /\ exCommits \in Nat
  /\ exRaced \in BOOLEAN

(* Every end of an edge is there, and every record's current revision. *)
ExClosed(l) ==
  /\ \A p \in Links(l) : {p[1], p[2]} \subseteq Present(l)
  /\ \A x \in Present(l) : l.rec[x].rev = 0 \/ [res |-> x, rev |-> l.rec[x].rev] \in l.revs

(* What Build has read is what the ledger still holds, unless it raced. *)
ExReadInv ==
  exBuild.pc \in {"revisions", "edges"} /\ ~exRaced =>
    /\ \A x \in Item : /\ exFile.rec[x].rev = exLedger.rec[x].rev
                       /\ exFile.rec[x].state = "NONE" <=> exLedger.rec[x].state = "NONE"
    /\ \A v \in exLedger.revs :
         v.res \in Present(exLedger) \ exBuild.todo => v \in exFile.revs
    /\ exBuild.pc = "edges" => exBuild.todo = {}

(* A sealed manifest no commit raced is closed. *)
ExSealedInv == exBuild.pc = "sealed" /\ ~exRaced => ExClosed(exFile)

(* Nothing is imported before the manifest is sealed; afterwards what is   *)
(* active in the target is as the manifest has it.                         *)
ExTargetInv ==
  /\ exBuild.pc # "sealed" =>
       /\ exTarget = [rec |-> Empty.rec, revs |-> {}, edge |-> Empty.edge, asked |-> {}]
       /\ exImport = "none"
  /\ \A p \in Ends : exTarget.edge[p].state = "ACTIVE" => exFile.edge[p] = exTarget.edge[p]
  /\ \A p \in Ends : Syncs(exTarget.edge[p]) => p \in exTarget.asked
  /\ ~exRaced => ExClosed(exTarget)

(* The inductive invariant of an export and its imports. *)
ExportInv ==
  ExTypeOK /\ ExClosed(exLedger) /\ ExReadInv /\ ExSealedInv /\ ExTargetInv
  /\ RolledBackOnlyFor

(* The empty ledger. *)
LEMMA ExEmptyIs ==
  /\ Empty \in ExLedgers
  /\ \A x \in Item : Empty.rec[x].state = "NONE" /\ Empty.rec[x].rev = 0
  /\ \A p \in Ends : Empty.edge[p].state = "NONE"
  /\ Empty.revs = {}
  BY DEF Empty, ExLedgers, ExRec, ExEdge, Absent, NoLink

(* The ends of an edge. *)
LEMMA ExEndsAre == \A p \in Ends : p[1] \in Item /\ p[2] \in Item
  BY DEF Ends

(* Fields of a ledger. *)
LEMMA ExLedgerFields ==
  ASSUME NEW l \in ExLedgers
  PROVE  /\ l.rec \in [Item -> ExRec] /\ l.revs \subseteq ExRevs /\ l.edge \in [Ends -> ExEdge]
         /\ \A x \in Item : /\ l.rec[x] \in ExRec /\ l.rec[x].rev \in Nat
                            /\ l.rec[x].state \in {"NONE", "PLACEHOLDER", "ACCEPTED",
                                                   "TOMBSTONED", ""}
         /\ \A p \in Ends : /\ l.edge[p] \in ExEdge /\ l.edge[p].sync \in BOOLEAN
                            /\ l.edge[p].state \in {"NONE", "ACTIVE", "TOMBSTONED"}
  BY DEF ExLedgers, ExRec, ExEdge

(* Fields of the target. *)
LEMMA ExTargetFields ==
  ASSUME NEW l \in ExTargets
  PROVE  /\ l.rec \in [Item -> ExRec] /\ l.revs \subseteq ExRevs /\ l.edge \in [Ends -> ExEdge]
         /\ l.asked \subseteq Ends
         /\ \A x \in Item : /\ l.rec[x] \in ExRec /\ l.rec[x].rev \in Nat
                            /\ l.rec[x].state \in {"NONE", "PLACEHOLDER", "ACCEPTED",
                                                   "TOMBSTONED", ""}
         /\ \A p \in Ends : /\ l.edge[p] \in ExEdge /\ l.edge[p].sync \in BOOLEAN
                            /\ l.edge[p].state \in {"NONE", "ACTIVE", "TOMBSTONED"}
  BY DEF ExTargets, ExRec, ExEdge

(* A target with nothing in it is closed. *)
LEMMA ExNothingIsWhole ==
  LET t == [rec |-> Empty.rec, revs |-> {}, edge |-> Empty.edge, asked |-> {}]
  IN  /\ t \in ExTargets /\ ExClosed(t)
      /\ \A p \in Ends : t.edge[p].state = "NONE"
<1> DEFINE t == [rec |-> Empty.rec, revs |-> {}, edge |-> Empty.edge, asked |-> {}]
<1>1. t \in ExTargets
  BY ExEmptyIs, ExLedgerFields DEF ExTargets
<1>2. /\ \A x \in Item : t.rec[x].state = "NONE" 
      /\ \A p \in Ends : t.edge[p].state = "NONE"
  BY ExEmptyIs
<1> HIDE DEF t
<1>3. Present(t) = {} /\ Links(t) = {}
  BY <1>2 DEF Present, Links
<1>4. ExClosed(t)
  BY <1>3 DEF ExClosed
<1> QED
  BY <1>1, <1>2, <1>4 DEF t

(* The initial state satisfies the invariant. *)
LEMMA ExportInitInv == ExportInit => ExportInv
<1> SUFFICES ASSUME ExportInit PROVE ExportInv
  OBVIOUS
<1> USE DEF ExportInit
<1>1. ExTypeOK
  BY ExEmptyIs, ExNothingIsWhole DEF ExTypeOK
<1>2. Present(Empty) = {} /\ Links(Empty) = {}
  BY ExEmptyIs DEF Present, Links
<1>3. ExClosed(exLedger)
  BY <1>2 DEF ExClosed
<1>4. ExReadInv /\ ExSealedInv /\ RolledBackOnlyFor
  BY DEF ExReadInv, ExSealedInv, RolledBackOnlyFor
<1>5. ExTargetInv
  BY ExNothingIsWhole DEF ExTargetInv, Syncs
<1> QED
  BY <1>1, <1>3, <1>4, <1>5 DEF ExportInv

-----------------------------------------------------------------------------
(* A commit keeps the ledger closed, and Build's reads if it is not         *)
(* reading.                                                                 *)
LEMMA ExCommitStep ==
  ASSUME ExportInv, NEW l \in ExLedgers, ExClosed(l), CommitWith(l)
  PROVE  ExportInv'
<1> USE DEF ExportInv
<1>1. /\ exLedger' = l /\ exRaced' = (exRaced \/ Reading) /\ exCommits' = exCommits + 1
      /\ UNCHANGED <<exStore, exInto, exBuild, exFile, exTarget, exImport, exImports, exDeleted>>
  BY DEF CommitWith
<1>2. ExTypeOK'
  BY <1>1 DEF ExTypeOK
<1>3. ExClosed(exLedger)'
  BY <1>1 DEF ExClosed, Present, Links
<1>4. exBuild.pc \in {"revisions", "edges"} => exRaced'
  BY <1>1 DEF Reading
<1>5. ~exRaced' => ~exRaced
  BY <1>1
<1>6. ExReadInv'
  BY <1>1, <1>4 DEF ExReadInv
<1>7. ExClosed(exFile)' = ExClosed(exFile) /\ ExClosed(exTarget)' = ExClosed(exTarget)
  BY <1>1 DEF ExClosed, Present, Links
<1>8. ExSealedInv'
  BY <1>1, <1>5, <1>7 DEF ExSealedInv
<1>9. ExTargetInv'
  BY <1>1, <1>5, <1>7 DEF ExTargetInv
<1>10. RolledBackOnlyFor'
  BY <1>1 DEF RolledBackOnlyFor, Untagged, Present
<1> QED
  BY <1>2, <1>3, <1>6, <1>8, <1>9, <1>10

(* An intake at the source keeps the invariant. *)
LEMMA ExIntakeStep ==
  ASSUME ExportInv, NEW x \in Item, NEW y \in Item, NEW sync \in BOOLEAN,
         IntakeCommits(x, y, sync)
  PROVE  ExportInv'
<1> USE DEF ExportInv
<1> DEFINE rev == exCommits + 1
           new == [state |-> "ACCEPTED", rev |-> rev, tags |-> x \in Tagged]
           rec == [exLedger.rec EXCEPT ![x] = new]
           all == [rec EXCEPT ![y] = IF @.state = "NONE" THEN Placeholder ELSE @]
           revs == exLedger.revs \cup {[res |-> x, rev |-> rev]}
           edge == [p \in Ends |-> IF p = <<x, y>> THEN [state |-> "ACTIVE", sync |-> sync]
                                   ELSE exLedger.edge[p]]
           l == [rec |-> all, revs |-> revs, edge |-> edge]
<1>1. rev \in Nat
  BY DEF ExTypeOK
<1>2. CommitWith(l)
  BY DEF IntakeCommits
<1>3. /\ exLedger.rec \in [Item -> ExRec] /\ exLedger.revs \subseteq ExRevs
      /\ exLedger.edge \in [Ends -> ExEdge]
  BY ExLedgerFields DEF ExTypeOK
<1> HIDE DEF rev
<1>14. /\ new \in ExRec /\ new.state # "NONE" /\ new.rev = rev
       /\ Placeholder \in ExRec /\ Placeholder.state # "NONE" /\ Placeholder.rev = 0
  BY <1>1 DEF ExRec, Placeholder
<1> HIDE DEF new
<1>4. /\ rec \in [Item -> ExRec] /\ rec[x] = new
      /\ \A z \in Item : z # x => rec[z] = exLedger.rec[z]
  BY <1>3, <1>14
<1> HIDE DEF rec
<1>5. /\ all \in [Item -> ExRec] /\ all[x] = new
      /\ all[y].state # "NONE"
      /\ \A z \in Item : z # x => all[z] = exLedger.rec[z] \/ all[z].rev = 0
      /\ \A z \in Item : z \notin {x, y} => all[z] = exLedger.rec[z]
  BY <1>4, <1>14
<1>6. revs \subseteq ExRevs
  BY <1>1, <1>3 DEF ExRevs
<1>7. /\ edge \in [Ends -> ExEdge]
      /\ \A q \in Ends : q # <<x, y>> => edge[q] = exLedger.edge[q]
  BY <1>3 DEF ExEdge
<1> HIDE DEF all, edge
<1>8. l \in ExLedgers
  BY <1>5, <1>6, <1>7 DEF ExLedgers
<1>9. Present(l) = Present(exLedger) \cup {x, y}
  BY <1>5, <1>14 DEF Present
<1>10. Links(l) \subseteq Links(exLedger) \cup {<<x, y>>}
  BY <1>7 DEF Links
<1>11. \A q \in Links(l) : {q[1], q[2]} \subseteq Present(l)
  <2>1. <<x, y>>[1] = x /\ <<x, y>>[2] = y
    OBVIOUS
  <2>2. \A q \in Links(exLedger) : {q[1], q[2]} \subseteq Present(exLedger)
    BY DEF ExClosed
  <2> HIDE DEF l
  <2> QED
    BY <1>9, <1>10, <2>1, <2>2
<1>12. ASSUME NEW z \in Present(l)
       PROVE  l.rec[z].rev = 0 \/ [res |-> z, rev |-> l.rec[z].rev] \in l.revs
  <2>0. z \in Item /\ l.rec[z] = all[z] /\ all[z].state # "NONE"
    BY DEF Present
  <2>1. CASE z = x
    BY <1>5, <1>14, <2>1
  <2>2. CASE z # x /\ all[z] = exLedger.rec[z]
    <3>1. z \in Present(exLedger)
      BY <2>0, <2>2 DEF Present
    <3>2. exLedger.rec[z].rev = 0 \/ [res |-> z, rev |-> exLedger.rec[z].rev] \in exLedger.revs
      BY <3>1 DEF ExClosed
    <3> QED
      BY <2>2, <3>2
  <2>3. CASE all[z].rev = 0
    BY <2>0, <2>3
  <2> QED
    BY <1>5, <2>0, <2>1, <2>2, <2>3
<1>13. ExClosed(l)
  BY <1>11, <1>12 DEF ExClosed
<1> HIDE DEF l
<1> QED
  BY <1>2, <1>8, <1>13, ExCommitStep

(* A deletion at the source keeps the invariant. *)
LEMMA ExDeletionStep ==
  ASSUME ExportInv, NEW x \in Item, DeletionCommits(x)
  PROVE  ExportInv'
<1> USE DEF ExportInv
<1> DEFINE rev == exCommits + 1
           old == exLedger.rec[x]
           new == [old EXCEPT !.state = "TOMBSTONED", !.rev = rev]
           rec == [exLedger.rec EXCEPT ![x].state = "TOMBSTONED", ![x].rev = rev]
           revs == exLedger.revs \cup {[res |-> x, rev |-> rev]}
           edge == [p \in Ends |-> LET e == exLedger.edge[p] IN
                    IF x \in {p[1], p[2]} /\ e.state = "ACTIVE"
                    THEN [e EXCEPT !.state = "TOMBSTONED"] ELSE e]
           l == [rec |-> rec, revs |-> revs, edge |-> edge]
<1>1. CommitWith(l) /\ exLedger.rec[x].state # "NONE"
  BY DEF DeletionCommits
<1>2. /\ exLedger.rec \in [Item -> ExRec] /\ exLedger.revs \subseteq ExRevs
      /\ \A p \in Ends : exLedger.edge[p] \in ExEdge
      /\ rev \in Nat
  <2>1. exLedger \in ExLedgers /\ exCommits \in Nat
    BY DEF ExTypeOK
  <2>2. rev \in Nat
    BY <2>1
  <2> QED
    BY <2>1, <2>2, ExLedgerFields
<1> HIDE DEF rev
<1>12. new \in ExRec /\ new.state = "TOMBSTONED" /\ new.rev = rev
  BY <1>2 DEF ExRec
<1>3. /\ rec \in [Item -> ExRec] /\ rec[x].state = "TOMBSTONED" /\ rec[x].rev = rev
      /\ \A z \in Item : z # x => rec[z] = exLedger.rec[z]
  <2>1. rec = [exLedger.rec EXCEPT ![x] = new]
    BY <1>2
  <2> HIDE DEF new, rec
  <2> QED
    BY <1>2, <1>12, <2>1
<1>4. revs \subseteq ExRevs
  BY <1>2 DEF ExRevs
<1>5. \A p \in Ends : [exLedger.edge[p] EXCEPT !.state = "TOMBSTONED"] \in ExEdge
  BY <1>2 DEF ExEdge
<1>6. /\ edge \in [Ends -> ExEdge]
      /\ \A p \in Ends : edge[p].state # "NONE" => exLedger.edge[p].state # "NONE"
  BY <1>2, <1>5 DEF ExEdge
<1> HIDE DEF rec, edge
<1>7. l \in ExLedgers
  BY <1>3, <1>4, <1>6 DEF ExLedgers
<1>8. Present(l) = Present(exLedger)
  BY <1>1, <1>3 DEF Present
<1>9. Links(l) \subseteq Links(exLedger)
  BY <1>6 DEF Links
<1>10. ASSUME NEW z \in Present(l)
       PROVE  l.rec[z].rev = 0 \/ [res |-> z, rev |-> l.rec[z].rev] \in l.revs
  <2>0. z \in Item
    BY DEF Present
  <2>1. CASE z = x
    BY <1>3, <2>1
  <2>2. CASE z # x
    <3>1. exLedger.rec[z].rev = 0 \/ [res |-> z, rev |-> exLedger.rec[z].rev] \in exLedger.revs
      BY <1>8 DEF ExClosed
    <3> QED
      BY <1>3, <2>0, <2>2, <3>1
  <2> QED
    BY <2>1, <2>2
<1>11. ExClosed(l)
  BY <1>8, <1>9, <1>10 DEF ExClosed
<1> HIDE DEF l
<1> QED
  BY <1>1, <1>7, <1>11, ExCommitStep

-----------------------------------------------------------------------------
(* Build *)

(* Reading the records keeps the invariant. *)
LEMMA ExListRecordsStep ==
  ASSUME ExportInv, ListRecords
  PROVE  ExportInv'
<1> USE DEF ExportInv
<1> DEFINE rec == [x \in Item |-> ListedRecord(exLedger.rec[x])]
<1>1. UNCHANGED <<exStore, exInto, exLedger, exTarget, exImport, exImports, exCommits, exRaced>>
  BY DEF ListRecords
<1>2. exBuild.pc = "idle"
  BY DEF ListRecords
<1>3. /\ exLedger \in ExLedgers /\ exFile \in ExLedgers
      /\ exTarget = [rec |-> Empty.rec, revs |-> {}, edge |-> Empty.edge, asked |-> {}]
      /\ exImport = "none"
  BY <1>2 DEF ExTypeOK, ExTargetInv
<1>4. /\ rec \in [Item -> ExRec]
      /\ \A x \in Item : /\ rec[x].rev = exLedger.rec[x].rev
                         /\ rec[x].state = "NONE" <=> exLedger.rec[x].state = "NONE"
  <2>1. \A x \in Item : /\ exLedger.rec[x] \in ExRec
                        /\ exLedger.rec[x].state \in {"NONE", "PLACEHOLDER", "ACCEPTED",
                                                   "TOMBSTONED", ""}
    BY <1>3, ExLedgerFields
  <2>2. \A x \in Item :
          /\ ListedRecord(exLedger.rec[x]) \in ExRec
          /\ ListedRecord(exLedger.rec[x]).rev = exLedger.rec[x].rev
          /\ ListedRecord(exLedger.rec[x]).state = "NONE" <=> exLedger.rec[x].state = "NONE"
    BY <2>1 DEF ListedRecord, ExRec
  <2> QED
    BY <2>2
<1>5. \/ exBuild' = [pc |-> "failed", todo |-> {}] /\ UNCHANGED exFile
      \/ /\ exBuild' = [pc |-> "revisions", todo |-> Present(exLedger)]
         /\ exFile' = [exFile EXCEPT !.rec = rec]
  BY DEF ListRecords
<1> HIDE DEF rec
<1>6. [exFile EXCEPT !.rec = rec] \in ExLedgers /\ [exFile EXCEPT !.rec = rec].rec = rec
  BY <1>3, <1>4 DEF ExLedgers
<1>7. Present(exLedger) \subseteq Item
  BY DEF Present
<1>8. ExTypeOK'
  BY <1>1, <1>5, <1>6, <1>7 DEF ExTypeOK
<1>9. ExClosed(exLedger)'
  BY <1>1 DEF ExClosed, Present, Links
<1>10. exBuild'.pc \in {"failed", "revisions"}
  BY <1>5
<1>11. ExReadInv'
  <2>1. CASE exBuild' = [pc |-> "failed", todo |-> {}]
    BY <2>1 DEF ExReadInv
  <2>2. CASE /\ exBuild' = [pc |-> "revisions", todo |-> Present(exLedger)]
             /\ exFile' = [exFile EXCEPT !.rec = rec]
    <3>1. /\ exFile'.rec = rec /\ exBuild'.pc = "revisions"
          /\ exBuild'.todo = Present(exLedger)
      BY <1>6, <2>2
    <3>2. Present(exLedger)' = Present(exLedger)
      BY <1>1 DEF Present
    <3> QED
      BY <1>1, <1>4, <3>1, <3>2 DEF ExReadInv
  <2> QED
    BY <1>5, <2>1, <2>2
<1>12. ExSealedInv' /\ RolledBackOnlyFor'
  BY <1>1, <1>3, <1>10 DEF ExSealedInv, RolledBackOnlyFor
<1>13. ExTargetInv'
  <2>1. ExClosed(exTarget)' = ExClosed(exTarget)
    BY <1>1 DEF ExClosed, Present, Links
  <2>2. \A p \in Ends : exTarget.edge[p].state = "NONE"
    BY <1>3, ExNothingIsWhole
  <2>3. ExClosed(exTarget)
    BY <1>3, ExNothingIsWhole
  <2> QED
    BY <1>1, <1>3, <2>1, <2>2, <2>3 DEF ExTargetInv, Syncs
<1> QED
  BY <1>8, <1>9, <1>11, <1>12, <1>13

(* While nothing is sealed the target is empty, and stays so. *)
LEMMA ExTargetStaysEmpty ==
  ASSUME ExTargetInv, exBuild.pc # "sealed", UNCHANGED <<exTarget, exImport>>
  PROVE  ExTargetInv' /\ RolledBackOnlyFor'
<1>1. /\ exTarget = [rec |-> Empty.rec, revs |-> {}, edge |-> Empty.edge, asked |-> {}]
      /\ exImport = "none"
  BY DEF ExTargetInv
<1>2. \A p \in Ends : exTarget.edge[p].state = "NONE"
  BY <1>1, ExNothingIsWhole
<1>3. ExClosed(exTarget)
  BY <1>1, ExNothingIsWhole
<1>4. ExClosed(exTarget)' = ExClosed(exTarget)
  BY DEF ExClosed, Present, Links
<1> QED
  BY <1>1, <1>2, <1>3, <1>4 DEF ExTargetInv, Syncs, RolledBackOnlyFor

(* Reading a record's revisions keeps the invariant. *)
LEMMA ExListRevisionsStep ==
  ASSUME ExportInv, ListRevisions
  PROVE  ExportInv'
<1> USE DEF ExportInv
<1> DEFINE x == Min(exBuild.todo)
<1>1. /\ UNCHANGED <<exStore, exInto, exLedger, exTarget, exImport, exImports, exCommits, exRaced>>
      /\ exBuild.pc = "revisions"
  BY DEF ListRevisions
<1>2. \/ exBuild.todo = {} /\ exBuild' = [exBuild EXCEPT !.pc = "edges"] /\ UNCHANGED exFile
      \/ /\ exBuild' = [exBuild EXCEPT !.todo = @ \ {x}]
         /\ exFile' = [exFile EXCEPT !.revs = @ \cup {v \in exLedger.revs : v.res = x}]
  BY DEF ListRevisions
<1> HIDE DEF x
<1>3. exFile \in ExLedgers /\ exLedger \in ExLedgers
  BY DEF ExTypeOK
<1>4. exBuild \in [pc : {"idle", "failed", "revisions", "edges", "sealed"}, todo : SUBSET Item]
  BY DEF ExTypeOK
<1>5. ExClosed(exLedger)'
  BY <1>1 DEF ExClosed, Present, Links
<1>6. ExTargetInv' /\ RolledBackOnlyFor'
  BY <1>1, ExTargetStaysEmpty
<1>7. Present(exLedger)' = Present(exLedger)
  BY <1>1 DEF Present
<1>8. CASE exBuild.todo = {} /\ exBuild' = [exBuild EXCEPT !.pc = "edges"] /\ UNCHANGED exFile
  <2>1. exBuild'.pc = "edges" /\ exBuild'.todo = {}
    BY <1>4, <1>8
  <2>2. ExTypeOK'
    BY <1>1, <1>4, <1>8 DEF ExTypeOK
  <2>3. ExReadInv'
    BY <1>1, <1>7, <1>8, <2>1 DEF ExReadInv
  <2>4. ExSealedInv'
    BY <2>1 DEF ExSealedInv
  <2> QED
    BY <1>5, <1>6, <2>2, <2>3, <2>4
<1>9. CASE /\ exBuild' = [exBuild EXCEPT !.todo = @ \ {x}]
           /\ exFile' = [exFile EXCEPT !.revs = @ \cup {v \in exLedger.revs : v.res = x}]
  <2>1. /\ exBuild'.pc = "revisions" /\ exBuild'.todo = exBuild.todo \ {x}
        /\ exBuild' \in [pc : {"idle", "failed", "revisions", "edges", "sealed"},
                         todo : SUBSET Item]
    BY <1>1, <1>4, <1>9
  <2>2. exFile.revs \cup {v \in exLedger.revs : v.res = x} \subseteq ExRevs
    BY <1>3, ExLedgerFields
  <2>3. /\ exFile' \in ExLedgers /\ exFile'.rec = exFile.rec
        /\ exFile'.revs = exFile.revs \cup {v \in exLedger.revs : v.res = x}
    BY <1>3, <1>9, <2>2 DEF ExLedgers
  <2>4. ExTypeOK'
    BY <1>1, <2>1, <2>3 DEF ExTypeOK
  <2>5. ExReadInv'
    BY <1>1, <1>7, <2>1, <2>3 DEF ExReadInv
  <2>6. ExSealedInv'
    BY <2>1 DEF ExSealedInv
  <2> QED
    BY <1>5, <1>6, <2>4, <2>5, <2>6
<1> QED
  BY <1>2, <1>8, <1>9

(* Reading the edges and sealing keeps the invariant. *)
LEMMA ExSealStep ==
  ASSUME ExportInv, ListEdgesAndSeal
  PROVE  ExportInv'
<1> USE DEF ExportInv
<1>1. /\ UNCHANGED <<exStore, exInto, exLedger, exTarget, exImport, exImports, exCommits, exRaced>>
      /\ exBuild.pc = "edges" /\ exBuild' = [exBuild EXCEPT !.pc = "sealed"]
      /\ exFile' = [exFile EXCEPT !.edge = exLedger.edge]
  BY DEF ListEdgesAndSeal
<1>2. exFile \in ExLedgers /\ exLedger \in ExLedgers
  BY DEF ExTypeOK
<1>3. /\ exFile' \in ExLedgers /\ exFile'.rec = exFile.rec /\ exFile'.revs = exFile.revs
      /\ exFile'.edge = exLedger.edge
  BY <1>1, <1>2, ExLedgerFields DEF ExLedgers
<1>4. /\ exBuild' \in [pc : {"idle", "failed", "revisions", "edges", "sealed"},
                       todo : SUBSET Item]
      /\ exBuild'.pc = "sealed"
  BY <1>1 DEF ExTypeOK
<1>5. ExTypeOK'
  BY <1>1, <1>3, <1>4 DEF ExTypeOK
<1>6. ExClosed(exLedger)'
  BY <1>1 DEF ExClosed, Present, Links
<1>7. ExTargetInv' /\ RolledBackOnlyFor'
  BY <1>1, ExTargetStaysEmpty
<1>8. ExReadInv'
  BY <1>4 DEF ExReadInv
<1>9. ASSUME ~exRaced PROVE ExClosed(exFile)'
  <2>1. /\ \A x \in Item : /\ exFile.rec[x].rev = exLedger.rec[x].rev
                           /\ exFile.rec[x].state = "NONE" <=> exLedger.rec[x].state = "NONE"
        /\ \A v \in exLedger.revs : v.res \in Present(exLedger) => v \in exFile.revs
    BY <1>1, <1>9 DEF ExReadInv
  <2>2. Present(exFile)' = Present(exLedger)
    BY <1>3, <2>1 DEF Present
  <2>3. Links(exFile)' = Links(exLedger)
    BY <1>3 DEF Links
  <2>4. \A p \in Links(exFile)' : {p[1], p[2]} \subseteq Present(exFile)'
    BY <2>2, <2>3 DEF ExClosed
  <2>5. ASSUME NEW x \in Present(exFile)'
        PROVE  exFile'.rec[x].rev = 0 \/ [res |-> x, rev |-> exFile'.rec[x].rev] \in exFile'.revs
    <3>1. x \in Item /\ x \in Present(exLedger)
      BY <2>2 DEF Present
    <3>2. exLedger.rec[x].rev = 0 \/ [res |-> x, rev |-> exLedger.rec[x].rev] \in exLedger.revs
      BY <3>1 DEF ExClosed
    <3>3. [res |-> x, rev |-> exLedger.rec[x].rev].res = x
      OBVIOUS
    <3>4. \/ exLedger.rec[x].rev = 0
          \/ [res |-> x, rev |-> exLedger.rec[x].rev] \in exFile.revs
      BY <2>1, <3>1, <3>2, <3>3
    <3> QED
      BY <1>3, <2>1, <3>1, <3>4
  <2> QED
    BY <2>4, <2>5 DEF ExClosed
<1>10. ExSealedInv'
  BY <1>1, <1>9 DEF ExSealedInv
<1> QED
  BY <1>5, <1>6, <1>7, <1>8, <1>10

(* A Build that fails leaves nothing behind. *)
LEMMA ExBuildFailsStep ==
  ASSUME ExportInv, BuildFails
  PROVE  ExportInv'
<1> USE DEF ExportInv
<1>1. /\ UNCHANGED <<exStore, exInto, exLedger, exTarget, exImport, exImports, exCommits>>
      /\ exBuild.pc # "sealed" /\ exBuild' = [pc |-> "idle", todo |-> {}]
      /\ exFile' = Empty /\ exRaced' = FALSE
  BY DEF BuildFails, Reading
<1>2. ExTypeOK'
  BY <1>1, ExEmptyIs DEF ExTypeOK
<1>3. ExClosed(exLedger)'
  BY <1>1 DEF ExClosed, Present, Links
<1>4. ExTargetInv' /\ RolledBackOnlyFor'
  BY <1>1, ExTargetStaysEmpty
<1>5. ExReadInv' /\ ExSealedInv'
  BY <1>1 DEF ExReadInv, ExSealedInv
<1> QED
  BY <1>2, <1>3, <1>4, <1>5

-----------------------------------------------------------------------------
(* ImportInto *)

(* What an import makes of a target and a manifest. *)
LEMMA ExImportedIs ==
  ASSUME NEW l \in ExTargets, NEW m \in ExLedgers
  PROVE  /\ ImportedRecords(l, m) \in [Item -> ExRec]
         /\ \A x \in Item :
              /\ m.rec[x].state = "NONE" => ImportedRecords(l, m)[x] = l.rec[x]
              /\ m.rec[x].state # "NONE" =>
                   /\ ImportedRecords(l, m)[x].state # "NONE"
                   /\ ImportedRecords(l, m)[x].rev = m.rec[x].rev
         /\ ImportedEdges(l, m) \in [Ends -> ExEdge]
         /\ \A p \in Ends :
              /\ m.edge[p].state = "NONE" => ImportedEdges(l, m)[p] = l.edge[p]
              /\ m.edge[p].state # "NONE" /\ l.edge[p].state = "ACTIVE" =>
                   ImportedEdges(l, m)[p] = [state |-> "ACTIVE", sync |-> m.edge[p].sync]
              /\ m.edge[p].state # "NONE" /\ l.edge[p].state # "ACTIVE" =>
                   ImportedEdges(l, m)[p] = m.edge[p]
<1>1. \A x \in Item : l.rec[x] \in ExRec /\ m.rec[x] \in ExRec
  BY ExTargetFields, ExLedgerFields
<1>2. \A x \in Item : /\ [m.rec[x] EXCEPT !.state = "ACCEPTED"] \in ExRec
                      /\ [m.rec[x] EXCEPT !.state = "ACCEPTED"].rev = m.rec[x].rev
                      /\ [m.rec[x] EXCEPT !.state = "ACCEPTED"].state = "ACCEPTED"
  BY <1>1 DEF ExRec
<1>3. /\ ImportedRecords(l, m) \in [Item -> ExRec]
      /\ \A x \in Item :
              /\ m.rec[x].state = "NONE" => ImportedRecords(l, m)[x] = l.rec[x]
              /\ m.rec[x].state # "NONE" =>
                   /\ ImportedRecords(l, m)[x].state # "NONE"
                   /\ ImportedRecords(l, m)[x].rev = m.rec[x].rev
  BY <1>1, <1>2 DEF ImportedRecords
<1>4. \A p \in Ends : l.edge[p] \in ExEdge /\ m.edge[p] \in ExEdge
  BY ExTargetFields, ExLedgerFields
<1>5. \A p \in Ends : /\ [l.edge[p] EXCEPT !.sync = m.edge[p].sync] \in ExEdge
                      /\ l.edge[p].state = "ACTIVE" =>
                           [l.edge[p] EXCEPT !.sync = m.edge[p].sync]
                             = [state |-> "ACTIVE", sync |-> m.edge[p].sync]
  BY <1>4 DEF ExEdge
<1>6. ImportedEdges(l, m) \in [Ends -> ExEdge]
  BY <1>4, <1>5 DEF ImportedEdges
<1>7. \A p \in Ends :
              /\ m.edge[p].state = "NONE" => ImportedEdges(l, m)[p] = l.edge[p]
              /\ m.edge[p].state # "NONE" /\ l.edge[p].state = "ACTIVE" =>
                   ImportedEdges(l, m)[p] = [state |-> "ACTIVE", sync |-> m.edge[p].sync]
              /\ m.edge[p].state # "NONE" /\ l.edge[p].state # "ACTIVE" =>
                   ImportedEdges(l, m)[p] = m.edge[p]
  BY <1>5 DEF ImportedEdges
<1> QED
  BY <1>3, <1>6, <1>7

(* An import, committed or rolled back, keeps the invariant. *)
LEMMA ExImportStep ==
  ASSUME ExportInv, ImportExport
  PROVE  ExportInv'
<1> USE DEF ExportInv
<1> DEFINE ok == exInto = "memory" \/ KeysHold(exTarget, exFile)
           recs == ImportedRecords(exTarget, exFile)
           edges == ImportedEdges(exTarget, exFile)
           revs == exTarget.revs \cup exFile.revs
           asked == exTarget.asked \cup Requested(exTarget, exFile)
           t == [rec |-> recs, revs |-> revs, edge |-> edges, asked |-> asked]
<1>1. /\ UNCHANGED <<exStore, exInto, exLedger, exBuild, exFile, exCommits, exRaced>>
      /\ exBuild.pc = "sealed"
      /\ ok => exImport' = "imported" /\ exTarget' = t
      /\ ~ok => exImport' = "rolledback" /\ exTarget' = exTarget
  BY DEF ImportExport
<1>2. exTarget \in ExTargets /\ exFile \in ExLedgers
  BY DEF ExTypeOK
<1>3. ExClosed(exLedger)' /\ ExClosed(exFile)' = ExClosed(exFile)
  BY <1>1 DEF ExClosed, Present, Links
<1>4. ExReadInv'
  BY <1>1 DEF ExReadInv
<1>5. ExSealedInv'
  BY <1>1, <1>3 DEF ExSealedInv
<1>6. CASE ~ok
  <2>1. ExTypeOK'
    BY <1>1, <1>6 DEF ExTypeOK
  <2>2. ExClosed(exTarget)' = ExClosed(exTarget)
    BY <1>1, <1>6 DEF ExClosed, Present, Links
  <2>3. ExTargetInv'
    BY <1>1, <1>6, <2>2 DEF ExTargetInv
  <2>4. ASSUME ~exRaced
        PROVE  \/ exTarget.revs \cap exFile.revs # {}
               \/ exInto = "postgres" /\ Untagged(exFile) # {}
    <3>1. \A p \in Links(exFile) : {p[1], p[2]} \subseteq Present(exFile)
      BY <1>1, <2>4 DEF ExSealedInv, ExClosed
    <3> QED
      BY <1>6, <3>1 DEF KeysHold, ExTypeOK
  <2>5. RolledBackOnlyFor'
    BY <1>1, <1>6, <2>4 DEF RolledBackOnlyFor, Untagged, Present
  <2> QED
    BY <1>3, <1>4, <1>5, <2>1, <2>3, <2>5
<1>7. CASE ok
  <2>1. /\ recs \in [Item -> ExRec]
        /\ \A x \in Item :
              /\ exFile.rec[x].state = "NONE" => recs[x] = exTarget.rec[x]
              /\ exFile.rec[x].state # "NONE" =>
                   recs[x].state # "NONE" /\ recs[x].rev = exFile.rec[x].rev
        /\ edges \in [Ends -> ExEdge]
        /\ \A p \in Ends :
              /\ exFile.edge[p].state = "NONE" => edges[p] = exTarget.edge[p]
              /\ exFile.edge[p].state # "NONE" /\ exTarget.edge[p].state = "ACTIVE" =>
                   edges[p] = [state |-> "ACTIVE", sync |-> exFile.edge[p].sync]
              /\ exFile.edge[p].state # "NONE" /\ exTarget.edge[p].state # "ACTIVE" =>
                   edges[p] = exFile.edge[p]
    BY <1>2, ExImportedIs
  <2>2. revs \subseteq ExRevs /\ asked \subseteq Ends
    BY <1>2, ExTargetFields, ExLedgerFields DEF Requested
  <2>3. asked = exTarget.asked \cup {p \in Ends : Syncs(exFile.edge[p])}
    BY DEF Requested
  <2> HIDE DEF recs, edges, asked
  <2>4. t \in ExTargets
    BY <2>1, <2>2 DEF ExTargets
  <2>5. ExTypeOK'
    BY <1>1, <1>7, <2>4 DEF ExTypeOK
  <2>6. exTarget'.rec = recs /\ exTarget'.revs = revs /\ exTarget'.edge = edges
        /\ exTarget'.asked = asked
    BY <1>1, <1>7
  <2>7. ASSUME NEW p \in Ends, edges[p].state = "ACTIVE" PROVE exFile.edge[p] = edges[p]
    <3>1. exTarget.edge[p].state = "ACTIVE" => exFile.edge[p] = exTarget.edge[p]
      BY DEF ExTargetInv
    <3>2. exFile.edge[p] \in ExEdge
      BY <1>2, ExLedgerFields
    <3>3. exFile.edge[p].state = "ACTIVE" =>
            exFile.edge[p] = [state |-> "ACTIVE", sync |-> exFile.edge[p].sync]
      BY <3>2 DEF ExEdge
    <3> QED
      BY <2>1, <2>7, <3>1, <3>3
  <2>8. \A p \in Ends : Syncs(edges[p]) => p \in asked
    BY <2>3, <2>7 DEF Syncs
  <2>9. ASSUME ~exRaced PROVE ExClosed(exTarget)'
    <3>1. ExClosed(exFile) /\ ExClosed(exTarget)
      BY <1>1, <2>9 DEF ExSealedInv, ExTargetInv
    <3>2. Present(exTarget)' = Present(exTarget) \cup Present(exFile)
      BY <2>1, <2>6 DEF Present
    <3>3. Links(exTarget)' \subseteq Links(exTarget) \cup Links(exFile)
      BY <2>1, <2>6 DEF Links
    <3>4. \A p \in Links(exTarget)' : {p[1], p[2]} \subseteq Present(exTarget)'
      BY <3>1, <3>2, <3>3 DEF ExClosed
    <3>5. ASSUME NEW x \in Present(exTarget)'
          PROVE  exTarget'.rec[x].rev = 0
                 \/ [res |-> x, rev |-> exTarget'.rec[x].rev] \in exTarget'.revs
      <4>0. x \in Item
        BY <3>2 DEF Present
      <4>1. CASE exFile.rec[x].state = "NONE"
        <5>1. x \in Present(exTarget) /\ recs[x] = exTarget.rec[x]
          BY <2>1, <2>6, <3>2, <4>0, <4>1 DEF Present
        <5>2. exTarget.rec[x].rev = 0
              \/ [res |-> x, rev |-> exTarget.rec[x].rev] \in exTarget.revs
          BY <3>1, <5>1 DEF ExClosed
        <5> QED
          BY <2>6, <5>1, <5>2
      <4>2. CASE exFile.rec[x].state # "NONE"
        <5>1. x \in Present(exFile) /\ recs[x].rev = exFile.rec[x].rev
          BY <2>1, <4>0, <4>2 DEF Present
        <5>2. exFile.rec[x].rev = 0
              \/ [res |-> x, rev |-> exFile.rec[x].rev] \in exFile.revs
          BY <3>1, <5>1 DEF ExClosed
        <5> QED
          BY <2>6, <5>1, <5>2
      <4> QED
        BY <4>1, <4>2
    <3> QED
      BY <3>4, <3>5 DEF ExClosed
  <2>10. ExTargetInv'
    BY <1>1, <2>6, <2>7, <2>8, <2>9 DEF ExTargetInv
  <2>11. RolledBackOnlyFor'
    BY <1>1, <1>7 DEF RolledBackOnlyFor
  <2> QED
    BY <1>3, <1>4, <1>5, <2>5, <2>10, <2>11
<1> QED
  BY <1>6, <1>7

(* A deletion at the target keeps the invariant. *)
LEMMA ExTargetDeletesStep ==
  ASSUME ExportInv, NEW p \in Ends, TargetDeletes(p)
  PROVE  ExportInv'
<1> USE DEF ExportInv
<1>1. /\ UNCHANGED <<exStore, exInto, exLedger, exBuild, exFile, exImport, exCommits, exRaced>>
      /\ exTarget.edge[p].state = "ACTIVE"
      /\ exTarget' = [exTarget EXCEPT !.edge[p].state = "TOMBSTONED", !.asked = @ \ {p}]
  BY DEF TargetDeletes
<1>2. exTarget \in ExTargets
  BY DEF ExTypeOK
<1> DEFINE e == [exTarget.edge EXCEPT ![p] = [exTarget.edge[p] EXCEPT !.state = "TOMBSTONED"]]
<1>3. [exTarget.edge[p] EXCEPT !.state = "TOMBSTONED"] \in ExEdge
      /\ [exTarget.edge[p] EXCEPT !.state = "TOMBSTONED"].state = "TOMBSTONED"
  BY <1>2, ExTargetFields DEF ExEdge
<1>4. /\ e \in [Ends -> ExEdge] /\ e[p].state = "TOMBSTONED"
      /\ \A q \in Ends : q # p => e[q] = exTarget.edge[q]
  BY <1>2, <1>3, ExTargetFields
<1>5. exTarget' = [rec |-> exTarget.rec, revs |-> exTarget.revs, edge |-> e,
                   asked |-> exTarget.asked \ {p}]
  BY <1>1, <1>2 DEF ExTargets
<1> HIDE DEF e
<1>6. /\ exTarget'.rec = exTarget.rec /\ exTarget'.revs = exTarget.revs
      /\ exTarget'.edge = e /\ exTarget'.asked = exTarget.asked \ {p}
  BY <1>5
<1>7. exTarget' \in ExTargets
  BY <1>2, <1>4, <1>5, ExTargetFields DEF ExTargets
<1>8. ExTypeOK'
  BY <1>1, <1>7 DEF ExTypeOK
<1>9. ExClosed(exLedger)' /\ ExClosed(exFile)' = ExClosed(exFile)
  BY <1>1 DEF ExClosed, Present, Links
<1>10. ExReadInv' /\ ExSealedInv'
  <2>1. ExReadInv'
    BY <1>1 DEF ExReadInv, Present
  <2>2. ExSealedInv'
    BY <1>1, <1>9 DEF ExSealedInv
  <2> QED
    BY <2>1, <2>2
<1>11. RolledBackOnlyFor'
  BY <1>1, <1>6 DEF RolledBackOnlyFor, Untagged, Present
<1>12. exBuild.pc = "sealed"
  BY <1>1, ExNothingIsWhole DEF ExTargetInv
<1>13. ExTargetInv'
  <2>1. Present(exTarget)' = Present(exTarget)
    BY <1>6 DEF Present
  <2>2. Links(exTarget)' = Links(exTarget)
    BY <1>1, <1>4, <1>6 DEF Links
  <2>3. ExClosed(exTarget) => ExClosed(exTarget)'
    BY <1>6, <2>1, <2>2 DEF ExClosed
  <2>4. \A q \in Ends : e[q].state = "ACTIVE" => q # p /\ e[q] = exTarget.edge[q]
    BY <1>4
  <2> QED
    BY <1>1, <1>6, <1>12, <2>3, <2>4 DEF ExTargetInv, Syncs
<1> QED
  BY <1>8, <1>9, <1>10, <1>11, <1>13

(* The invariant holds whatever commits, builds and imports do. *)
LEMMA ExportInvHolds == ExportSpec => []ExportInv
<1>1. ExportInv /\ [ExportNext]_exVars => ExportInv'
  <2> SUFFICES ASSUME ExportInv, [ExportNext]_exVars PROVE ExportInv'
    OBVIOUS
  <2>1. CASE UNCHANGED exVars
    BY <2>1 DEF exVars, ExportInv, ExTypeOK, ExClosed, ExReadInv, ExSealedInv, ExTargetInv,
                RolledBackOnlyFor, Untagged, Present, Links, Syncs
  <2>2. CASE ExportNext
    BY <2>2, ExIntakeStep, ExDeletionStep, ExListRecordsStep, ExListRevisionsStep,
       ExSealStep, ExBuildFailsStep, ExImportStep, ExTargetDeletesStep DEF ExportNext
  <2> QED
    BY <2>1, <2>2
<1> QED
  BY <1>1, ExportInitInv, PTL DEF ExportSpec

(* What was deleted is deleted in a manifest of the in-memory store. *)
ExDeletedInv ==
  /\ exDeleted \subseteq Item
  /\ exStore = "memory" /\ exBuild.pc \in {"revisions", "edges", "sealed"} =>
       \A x \in exDeleted : isTomb(exFile.rec[x].state)

(* Deletions travel. *)
LEMMA ExDeletedHolds == ExportSpec => [](ExDeletedInv /\ DeletionsTravel)
<1>1. ExportInit => ExDeletedInv /\ DeletionsTravel
  BY DEF ExportInit, ExDeletedInv, DeletionsTravel
<1>2. /\ ExportInv /\ ExDeletedInv /\ DeletionsTravel
      /\ [ExportNext]_exVars
      => (ExDeletedInv /\ DeletionsTravel)'
  <2> SUFFICES ASSUME ExportInv, ExDeletedInv, DeletionsTravel, [ExportNext]_exVars
               PROVE  (ExDeletedInv /\ DeletionsTravel)'
    OBVIOUS
  <2> USE DEF ExportInv
  <2>0. exLedger \in ExLedgers /\ exFile \in ExLedgers /\ exTarget \in ExTargets
    BY DEF ExTypeOK
  <2>1. CASE /\ UNCHANGED <<exStore, exBuild, exFile, exImport, exDeleted>>
             /\ exTarget'.rec = exTarget.rec
    BY <2>1 DEF ExDeletedInv, DeletionsTravel
  <2>2. CASE ListRecords
    <3> DEFINE rec == [x \in Item |-> ListedRecord(exLedger.rec[x])]
    <3>1. /\ exBuild.pc = "idle" /\ UNCHANGED <<exStore, exImport>>
          /\ exDeleted' = {x \in Item : isTomb(exLedger.rec[x].state)}
          /\ \/ exBuild' = [pc |-> "failed", todo |-> {}]
             \/ exFile' = [exFile EXCEPT !.rec = rec]
      BY <2>2 DEF ListRecords
    <3>2. exImport' = "none"
      BY <3>1 DEF ExTargetInv
    <3>3. exFile' = [exFile EXCEPT !.rec = rec] => exFile'.rec = rec
      BY <2>0 DEF ExLedgers
    <3>4. exStore = "memory" => \A x \in Item : rec[x] = exLedger.rec[x]
      BY DEF ListedRecord
    <3> HIDE DEF rec
    <3>5. CASE exBuild' = [pc |-> "failed", todo |-> {}]
      BY <3>1, <3>2, <3>5 DEF ExDeletedInv, DeletionsTravel
    <3>6. CASE exFile' = [exFile EXCEPT !.rec = rec]
      BY <3>1, <3>2, <3>3, <3>4, <3>6 DEF ExDeletedInv, DeletionsTravel
    <3> QED
      BY <3>1, <3>5, <3>6
  <2>3. CASE ListRevisions
    <3>1. /\ exBuild.pc = "revisions" /\ UNCHANGED <<exStore, exImport, exDeleted>>
          /\ \/ UNCHANGED exFile
             \/ \E r : exFile' = [exFile EXCEPT !.revs = r]
      BY <2>3 DEF ListRevisions
    <3>2. exFile'.rec = exFile.rec
      BY <2>0, <3>1 DEF ExLedgers
    <3>3. exImport = "none"
      BY <3>1 DEF ExTargetInv
    <3> QED
      BY <3>1, <3>2, <3>3 DEF ExDeletedInv, DeletionsTravel
  <2>4. CASE ListEdgesAndSeal
    <3>1. /\ exBuild.pc = "edges" /\ UNCHANGED <<exStore, exImport, exDeleted>>
          /\ exFile' = [exFile EXCEPT !.edge = exLedger.edge]
      BY <2>4 DEF ListEdgesAndSeal
    <3>2. exFile'.rec = exFile.rec
      BY <2>0, <3>1 DEF ExLedgers
    <3>3. exImport = "none"
      BY <3>1 DEF ExTargetInv
    <3> QED
      BY <3>1, <3>2, <3>3 DEF ExDeletedInv, DeletionsTravel
  <2>5. CASE BuildFails
    BY <2>5 DEF BuildFails, ExDeletedInv, DeletionsTravel
  <2>6. CASE ImportExport
    <3>1. /\ exBuild.pc = "sealed"
          /\ UNCHANGED <<exStore, exBuild, exFile, exDeleted>>
          /\ \/ exImport' = "rolledback"
             \/ exTarget'.rec = ImportedRecords(exTarget, exFile)
      BY <2>6 DEF ImportExport
    <3>2. ExDeletedInv'
      BY <3>1 DEF ExDeletedInv
    <3>3. \A x \in Item : isTomb(exFile.rec[x].state) =>
            ImportedRecords(exTarget, exFile)[x] = exFile.rec[x]
      BY DEF isTomb, ImportedRecords
    <3>4. DeletionsTravel'
      BY <3>1, <3>3 DEF ExDeletedInv, DeletionsTravel
    <3> QED
      BY <3>2, <3>4
  <2>7. \/ /\ UNCHANGED <<exStore, exBuild, exFile, exImport, exDeleted>>
           /\ exTarget'.rec = exTarget.rec
        \/ ListRecords \/ ListRevisions \/ ListEdgesAndSeal \/ BuildFails \/ ImportExport
    <3>1. ASSUME NEW p \in Ends, TargetDeletes(p)
          PROVE  /\ UNCHANGED <<exStore, exBuild, exFile, exImport, exDeleted>>
                 /\ exTarget'.rec = exTarget.rec
      <4>1. exTarget' = [exTarget EXCEPT !.edge[p].state = "TOMBSTONED", !.asked = @ \ {p}]
        BY <3>1 DEF TargetDeletes
      <4>2. exTarget'.rec = exTarget.rec
        BY <2>0, <4>1 DEF ExTargets
      <4> QED
        BY <3>1, <4>2 DEF TargetDeletes
    <3>2. CASE UNCHANGED exVars
      BY <3>2 DEF exVars
    <3>3. ASSUME NEW l, CommitWith(l)
          PROVE  /\ UNCHANGED <<exStore, exBuild, exFile, exImport, exDeleted>>
                 /\ exTarget'.rec = exTarget.rec
      BY <3>3 DEF CommitWith
    <3>4. ASSUME NEW x \in Item, NEW y \in Item, NEW sync \in BOOLEAN,
                 IntakeCommits(x, y, sync)
          PROVE  \E l : CommitWith(l)
      BY <3>4 DEF IntakeCommits
    <3>5. ASSUME NEW x \in Item, DeletionCommits(x) PROVE \E l : CommitWith(l)
      BY <3>5 DEF DeletionCommits
    <3> QED
      BY <3>1, <3>2, <3>3, <3>4, <3>5 DEF ExportNext
  <2> QED
    BY <2>1, <2>2, <2>3, <2>4, <2>5, <2>6, <2>7
<1> QED
  BY <1>1, <1>2, ExportInvHolds, PTL DEF ExportSpec

(* Of a manifest Build reads in three separate listings, and of its        *)
(* imports: an import is rolled back only into PostgreSQL, and only for a  *)
(* manifest a commit raced, for revisions the target has, or for a record  *)
(* without tags; what a manifest of the in-memory store has as deleted is  *)
(* deleted in the target; an edge to synchronise that an import brought    *)
(* had its tuple asked for; and what was built without a race arrives with *)
(* every end of its edges and every current revision.                      *)
THEOREM TransferIsSoundAlways == ExportSpec => []TransferIsSound
<1>1. ExportInv /\ DeletionsTravel => TransferIsSound
  BY DEF ExportInv, TransferIsSound, ClosedUnlessRaced, ImportedIsWhole, ExSealedInv,
         ExTargetInv, ExClosed
<1> QED
  BY <1>1, ExportInvHolds, ExDeletedHolds, PTL
=============================================================================
