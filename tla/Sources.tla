------------------------------ MODULE Sources ------------------------------
(***************************************************************************)
(* One registered source: its row, its signing secret and its mapping      *)
(* specification, under concurrent registrations and secret rotations.     *)
(*                                                                         *)
(* Registrations and secrets are numbered in the order they are made, and  *)
(* the row records which registration its fields come from, in the groups  *)
(* the stores tell apart: reg stands for display name, trust tier and the  *)
(* enabled flag, secret for the attributes, identity for system and        *)
(* mapping_spec_id, limits for the ceilings, the replay window and the     *)
(* allow-lists.                                                            *)
(***************************************************************************)
EXTENDS Naturals, FiniteSets

CONSTANTS
  Registrar,  \* concurrent administrative calls
  Revision,   \* revisions a mapping specification may declare
  NoMapping,  \* a registration without an inline mapping
  MaxWrites   \* bound on registrations and rotations

ASSUME SourcesAssumption ==
  /\ NoMapping \notin Revision
  /\ MaxWrites \in Nat

VARIABLES
  srcStore,   \* "postgres" or "memory"
  srcRow,     \* the source as GetSource returns it: whose fields, which
              \* secret; 0 for none
  mapSpecs,   \* mapping_specs of the source: the rules of each revision and
              \* when its row was created, 0 for never
  srcCall,    \* each call
  srcSeq,     \* registrations and rotations so far
  answered,   \* history: the source as the successful calls reported it
  firstReg,   \* history: the registration stored first
  lastMapped, \* history: the last stored registration that had a mapping
  srcMixed,   \* history: a call began while another was under way
  mapReused,  \* history: a revision that was not the newest was put again
  mapLost     \* history: storing a mapping failed

sourceVars ==
  <<srcStore, srcRow, mapSpecs, srcCall, srcSeq, answered, firstReg,
    lastMapped, srcMixed, mapReused, mapLost>>

NoSource == [reg |-> 0, secret |-> 0, identity |-> 0, limits |-> 0]
IdleRegistrar == [pc |-> "idle"]
UnderWay == {c \in Registrar : srcCall[c].pc # "idle"}

(* RegisterSource up to its transaction: defaults are filled in and the    *)
(* inline mapping is parsed.  A registration without a secret stores none. *)
RegisterSource(c, rev, secret) ==
  /\ srcCall[c].pc = "idle"
  /\ srcSeq < MaxWrites
  /\ srcSeq' = srcSeq + 1
  /\ srcCall' = [srcCall EXCEPT
       ![c] = [pc |-> "upsert", rev |-> rev,
               row |-> [reg |-> srcSeq', secret |-> IF secret THEN srcSeq' ELSE 0,
                        identity |-> srcSeq', limits |-> srcSeq']]]
  /\ srcMixed' = (srcMixed \/ UnderWay # {})
  /\ UNCHANGED <<srcStore, srcRow, mapSpecs, answered, firstReg, lastMapped, mapReused, mapLost>>

(* Mutant: a conflict leaves the attributes, and with them the secret. *)
StoredSourceKeepsSecret(row) ==
  [row EXCEPT !.secret = IF srcRow = NoSource THEN @ ELSE srcRow.secret]

(* What the upsert of a row leaves stored.  In memory, all of it.  The     *)
(* PostgreSQL table has no columns for the limits, and a conflict updates  *)
(* neither system nor mapping_spec_id.                                     *)
StoredSource(row) ==
  IF srcStore = "memory" THEN row
  ELSE [row EXCEPT !.limits = 0,
                   !.identity = IF srcRow = NoSource THEN @ ELSE srcRow.identity]

(* The upsert commits; the answer is the registration as it was given.     *)
(* The mapping comes after it.                                             *)
UpsertSource(c) ==
  /\ srcCall[c].pc = "upsert"
  /\ srcRow' = StoredSource(srcCall[c].row)
  /\ answered' = srcCall[c].row
  /\ firstReg' = IF srcRow = NoSource THEN srcCall[c].row.reg ELSE firstReg
  /\ LET mapped == srcCall[c].rev # NoMapping IN
     /\ srcCall' = [srcCall EXCEPT ![c] = IF mapped THEN [@ EXCEPT !.pc = "put"] ELSE IdleRegistrar]
     /\ lastMapped' = IF mapped THEN srcCall[c].row.reg ELSE lastMapped
  /\ UNCHANGED <<srcStore, mapSpecs, srcSeq, srcMixed, mapReused, mapLost>>

(* The transaction fails and the caller is told. *)
UpsertSourceFails(c) ==
  /\ srcCall[c].pc \in {"upsert", "rotate"}
  /\ srcCall' = [srcCall EXCEPT ![c] = IdleRegistrar]
  /\ UNCHANGED <<srcStore, srcRow, mapSpecs, srcSeq, answered, firstReg, lastMapped,
                 srcMixed, mapReused, mapLost>>

Newest(rev) == \A r \in Revision : mapSpecs[r].born <= mapSpecs[rev].born

(* Mutant: an existing revision keeps its rules. *)
PutMappingSpecOnce(c) ==
  /\ srcCall[c].pc = "put"
  /\ LET rev == srcCall[c].rev  known == mapSpecs[rev].born # 0 IN
     /\ mapSpecs' = IF known THEN mapSpecs
                    ELSE [mapSpecs EXCEPT ![rev] = [reg |-> srcCall[c].row.reg,
                            born |-> Cardinality({r \in Revision : mapSpecs[r].born # 0}) + 1]]
     /\ mapReused' = (mapReused \/ (known /\ ~Newest(rev)))
  /\ srcCall' = [srcCall EXCEPT ![c] = IdleRegistrar]
  /\ UNCHANGED <<srcStore, srcRow, srcSeq, answered, firstReg, lastMapped, srcMixed, mapLost>>

(* PutMappingSpec in PostgreSQL: a revision that exists gets the new rules *)
(* and keeps its created_at.                                               *)
PutMappingSpec(c) ==
  /\ srcStore = "postgres"
  /\ srcCall[c].pc = "put"
  /\ LET rev == srcCall[c].rev  known == mapSpecs[rev].born # 0 IN
     /\ mapSpecs' = [mapSpecs EXCEPT ![rev] =
          [reg |-> srcCall[c].row.reg,
           born |-> IF known THEN @.born
                    ELSE Cardinality({r \in Revision : mapSpecs[r].born # 0}) + 1]]
     /\ mapReused' = (mapReused \/ (known /\ ~Newest(rev)))
  /\ srcCall' = [srcCall EXCEPT ![c] = IdleRegistrar]
  /\ UNCHANGED <<srcStore, srcRow, srcSeq, answered, firstReg, lastMapped, srcMixed, mapLost>>

(* In memory a source has one mapping. *)
PutMappingMemory(c) ==
  /\ srcStore = "memory"
  /\ srcCall[c].pc = "put"
  /\ mapSpecs' = [r \in Revision |->
       IF r = srcCall[c].rev THEN [reg |-> srcCall[c].row.reg, born |-> 1]
       ELSE [reg |-> 0, born |-> 0]]
  /\ srcCall' = [srcCall EXCEPT ![c] = IdleRegistrar]
  /\ UNCHANGED <<srcStore, srcRow, srcSeq, answered, firstReg, lastMapped, srcMixed, mapReused,
                 mapLost>>

(* The error of PutMappingSpec is dropped: the caller is told of success.  *)
(* (An INSERT that fails has aborted the transaction in which the fallback *)
(* to the attributes would run.)                                           *)
PutMappingFails(c) ==
  /\ srcCall[c].pc = "put"
  /\ mapLost' = TRUE
  /\ srcCall' = [srcCall EXCEPT ![c] = IdleRegistrar]
  /\ UNCHANGED <<srcStore, srcRow, mapSpecs, srcSeq, answered, firstReg, lastMapped, srcMixed,
                 mapReused>>

(* RotateSourceSecret reads the row before its transaction ...             *)
RotateSourceSecret(c) ==
  /\ srcCall[c].pc = "idle"
  /\ srcRow # NoSource
  /\ srcSeq < MaxWrites
  /\ srcSeq' = srcSeq + 1
  /\ srcCall' = [srcCall EXCEPT
       ![c] = [pc |-> "rotate", row |-> [srcRow EXCEPT !.secret = srcSeq']]]
  /\ srcMixed' = (srcMixed \/ UnderWay # {})
  /\ UNCHANGED <<srcStore, srcRow, mapSpecs, answered, firstReg, lastMapped, mapReused, mapLost>>

(* ... and writes all of it back; the answer has the secret alone.         *)
RotateSourceWrite(c) ==
  /\ srcCall[c].pc = "rotate"
  /\ srcRow' = StoredSource(srcCall[c].row)
  /\ answered' = [answered EXCEPT !.secret = srcCall[c].row.secret]
  /\ srcCall' = [srcCall EXCEPT ![c] = IdleRegistrar]
  /\ UNCHANGED <<srcStore, mapSpecs, srcSeq, firstReg, lastMapped, srcMixed, mapReused, mapLost>>

(* GetMappingSpec: the rules of the revision created last. *)
MappingInForce ==
  {mapSpecs[r].reg : r \in {q \in Revision : mapSpecs[q].born # 0 /\ Newest(q)}}

SourcesInit ==
  /\ srcStore \in {"postgres", "memory"}
  /\ srcRow = NoSource
  /\ mapSpecs = [r \in Revision |-> [reg |-> 0, born |-> 0]]
  /\ srcCall = [c \in Registrar |-> IdleRegistrar]
  /\ srcSeq = 0
  /\ answered = NoSource
  /\ firstReg = 0
  /\ lastMapped = 0
  /\ srcMixed = FALSE
  /\ mapReused = FALSE
  /\ mapLost = FALSE

SourcesNext ==
  \E c \in Registrar :
    \/ \E rev \in Revision \cup {NoMapping} : \E secret \in BOOLEAN :
         RegisterSource(c, rev, secret)
    \/ UpsertSource(c) \/ UpsertSourceFails(c)
    \/ PutMappingSpec(c) \/ PutMappingMemory(c) \/ PutMappingFails(c)
    \/ RotateSourceSecret(c) \/ RotateSourceWrite(c)

SourcesSpec == SourcesInit /\ [][SourcesNext]_sourceVars

-----------------------------------------------------------------------------
(* Properties *)

(* Unless calls overlap, the name, trust tier, enabled flag and secret of  *)
(* a source are those of the successful calls, and in memory all the rest  *)
(* too (an overlapping RotateSourceSecret writes back a row it read before *)
(* its transaction).  PostgreSQL keeps system and mapping of the first     *)
(* registration and none of the limits that RegisterSource answers.        *)
SourceAsAnswered ==
  /\ srcMixed \/ (srcRow.reg = answered.reg /\ srcRow.secret = answered.secret)
  /\ srcStore = "memory" => srcMixed \/ srcRow = answered
  /\ srcStore = "postgres" => srcRow.identity = firstReg /\ srcRow.limits = 0

(* Ingest maps a source's payloads by the mapping that was registered      *)
(* last, except after overlapping calls, after a put whose error           *)
(* RegisterSource dropped, and after an earlier revision was put again     *)
(* (its row keeps the created_at that GetMappingSpec orders by).           *)
MappingAsRegistered ==
  \/ srcMixed \/ mapReused \/ mapLost
  \/ \E c \in Registrar : srcCall[c].pc = "put"
  \/ MappingInForce = {lastMapped} \ {0}

(* Row and mapping are both what the callers were told, up to the races    *)
(* and the dropped error that the two parts name.                          *)
StoredAsAnswered == SourceAsAnswered /\ MappingAsRegistered
=============================================================================
