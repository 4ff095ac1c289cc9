--------------------------- MODULE DeletionProofs ---------------------------
(* Proofs about the deletion saga, for any number of intakes, deletions,   *)
(* searches and failures.                                                  *)
EXTENDS Deletion, TLAPS

Sagas == [pc : {"idle", "tombstone", "enumerate", "index", "hold", "erase",
                "pend", "purge", "done", "failed"},
          found : SUBSET Call, todo : SUBSET Call, prior : SUBSET Call]

(* Everything a step of the saga may assume and must keep. *)
LEMMA TypeStep == DeletionTypeOK /\ [DeletionNext]_deletionVars => DeletionTypeOK'
<1> SUFFICES ASSUME DeletionTypeOK, [DeletionNext]_deletionVars PROVE DeletionTypeOK'
  OBVIOUS
<1> USE DeletionAssumption
<1>1. ASSUME NEW c \in Call, IntakePut(c) PROVE DeletionTypeOK'
  BY <1>1 DEF DeletionTypeOK, IntakePut, Records, State
<1>2. ASSUME NEW c \in Call, IntakeCommit(c) PROVE DeletionTypeOK'
  BY <1>2 DEF DeletionTypeOK, IntakeCommit, Records, State
<1>3. ASSUME NEW c \in Call, IntakeAbort(c) PROVE DeletionTypeOK'
  BY <1>3 DEF DeletionTypeOK, IntakeAbort, Records, State
<1>4. ASSUME NEW c \in Call, IndexUpsert(c) PROVE DeletionTypeOK'
  BY <1>4 DEF DeletionTypeOK, IndexUpsert, Records, State
<1>5. ASSUME PlaceHold PROVE DeletionTypeOK'
  BY <1>5 DEF DeletionTypeOK, PlaceHold, Records, State
<1>6. ASSUME ReleaseHold PROVE DeletionTypeOK'
  BY <1>6 DEF DeletionTypeOK, ReleaseHold, Records, State
<1>7. ASSUME NEW d \in Saga, GetRecord(d) PROVE DeletionTypeOK'
  BY <1>7 DEF DeletionTypeOK, GetRecord, At, Records, State
<1>8. ASSUME NEW d \in Saga, Tombstone(d) PROVE DeletionTypeOK'
  BY <1>8 DEF DeletionTypeOK, Tombstone, Records, State
<1>9. ASSUME NEW d \in Saga, enumerate(d) PROVE DeletionTypeOK'
  <2>1. PICK rs \in Listings :
          saga' = [saga EXCEPT ![d] = [pc |-> "index", found |-> EvidenceOf(rs),
                                       todo |-> EvidenceOf(rs), prior |-> @.prior]]
    BY <1>9 DEF enumerate
  <2>2. EvidenceOf(rs) \subseteq Call
    BY DEF EvidenceOf
  <2>3. saga' \in [Saga -> Sagas]
    BY <2>1, <2>2 DEF DeletionTypeOK, Sagas
  <2> QED
    BY <1>9, <2>3 DEF DeletionTypeOK, enumerate, Sagas, Records, State
<1>10. ASSUME NEW d \in Saga, EnumerateError(d) PROVE DeletionTypeOK'
  BY <1>10 DEF DeletionTypeOK, EnumerateError, At, Records, State
<1>11. ASSUME NEW d \in Saga, IndexDelete(d) PROVE DeletionTypeOK'
  BY <1>11 DEF DeletionTypeOK, IndexDelete, At, Records, State
<1>12. ASSUME NEW d \in Saga, HasLegalHold(d) PROVE DeletionTypeOK'
  BY <1>12 DEF DeletionTypeOK, HasLegalHold, At, Records, State
<1>13. ASSUME NEW d \in Saga, DeleteVersion(d) PROVE DeletionTypeOK'
  BY <1>13 DEF DeletionTypeOK, DeleteVersion, Records, State
<1>14. ASSUME NEW d \in Saga, DeleteVersionError(d) PROVE DeletionTypeOK'
  BY <1>14 DEF DeletionTypeOK, DeleteVersionError, Records, State
<1>15. ASSUME NEW d \in Saga, Erased(d) PROVE DeletionTypeOK'
  BY <1>15 DEF DeletionTypeOK, Erased, At, Records, State
<1>16. ASSUME NEW d \in Saga, Finish(d) PROVE DeletionTypeOK'
  BY <1>16 DEF DeletionTypeOK, Finish, Outcome, Records, State
<1>17. ASSUME NEW d \in Saga, SagaFails(d) PROVE DeletionTypeOK'
  BY <1>17 DEF DeletionTypeOK, SagaFails, Outcome, Records, State
<1>18. ASSUME NEW s \in Searcher, SearchCandidates(s) PROVE DeletionTypeOK'
  BY <1>18 DEF DeletionTypeOK, SearchCandidates
<1>19. ASSUME NEW s \in Searcher, Hydrate(s) PROVE DeletionTypeOK'
  BY <1>19 DEF DeletionTypeOK, Hydrate, Records, State
<1>20. CASE UNCHANGED deletionVars
  BY <1>20 DEF DeletionTypeOK, deletionVars, Records, State
<1> QED
  BY <1>1, <1>2, <1>3, <1>4, <1>5, <1>6, <1>7, <1>8, <1>9, <1>10, <1>11, <1>12,
     <1>13, <1>14, <1>15, <1>16, <1>17, <1>18, <1>19, <1>20 DEF DeletionNext, SagaStep

(* The variables keep their types whatever interleaves and fails. *)
THEOREM DeletionTypeCorrect == DeletionSpec => []DeletionTypeOK
<1>1. ASSUME DeletionInit PROVE DeletionTypeOK
  <2>1. search \in [Searcher -> [pc : {"idle", "hydrate", "cited", "skipped"},
                                 seen : Records, calls : SUBSET Call]]
    BY <1>1 DEF DeletionInit, Records, State
  <2>2. saga \in [Saga -> Sagas]
    BY <1>1 DEF DeletionInit, Sagas
  <2>3. sagaFaults \in 0..MaxSagaFaults
    BY <1>1, DeletionAssumption DEF DeletionInit
  <2> QED
    BY <1>1, <2>1, <2>2, <2>3 DEF DeletionInit, DeletionTypeOK, Sagas, Records, State
<1> QED
  BY <1>1, TypeStep, PTL DEF DeletionSpec

-----------------------------------------------------------------------------
(* The inductive invariant.  Evidence, once erased, stays erased, because  *)
(* only an intake that has not committed stores any and a deletion lists   *)
(* committed revisions only.                                               *)

CommittedIsDone == \A c \in Call \cap revisions : incoming[c].pc = "done"

SagaOK(d) ==
  /\ saga[d].found \subseteq revisions
  /\ (saga[d].found \ saga[d].todo) \cap evidence = {}
  /\ saga[d].pc = "purge" => saga[d].todo = {}
  /\ saga[d].pc \notin {"idle", "tombstone", "failed"} => d \in revisions
  /\ manifest[d] = "completed" => saga[d].pc = "done" /\ saga[d].todo = {}
  /\ held /\ saga[d].pc = "erase" => d \in heldLate

(* What a search found when it began bounds what it may still cite. *)
SearchOK(s) ==
  /\ search[s].calls \subseteq revisions \cap Call
  /\ search[s].pc = "hydrate" /\ IsTombstoned(search[s].seen.state)
       => search[s].calls # revisions \cap Call \/ IsTombstoned(record.state)
  /\ search[s].pc = "cited" /\ IsTombstoned(search[s].seen.state)
       => search[s].calls # revisions \cap Call

SafetyInv ==
  /\ CommittedIsDone
  /\ \A d \in Saga : SagaOK(d)
  /\ \A s \in Searcher : SearchOK(s)

(* Every step keeps the invariant.                                         *)
LEMMA SafetyStep == DeletionTypeOK /\ SafetyInv /\ [DeletionNext]_deletionVars => SafetyInv'
<1> SUFFICES ASSUME DeletionTypeOK, SafetyInv, [DeletionNext]_deletionVars PROVE SafetyInv'
  OBVIOUS
<1> USE DeletionAssumption
<1>1. ASSUME NEW c \in Call, IntakePut(c) PROVE SafetyInv'
  <2>1. c \notin revisions
    BY <1>1 DEF SafetyInv, CommittedIsDone, IntakePut
  <2>2. CommittedIsDone'
    BY <1>1, <2>1 DEF SafetyInv, CommittedIsDone, IntakePut, DeletionTypeOK
  <2>3. ASSUME NEW d \in Saga PROVE SagaOK(d)'
    BY <1>1, <2>1 DEF SafetyInv, SagaOK, IntakePut
  <2>4. ASSUME NEW s \in Searcher PROVE SearchOK(s)'
    BY <1>1 DEF SafetyInv, SearchOK, IntakePut
  <2> QED
    BY <2>2, <2>3, <2>4 DEF SafetyInv
<1>2. ASSUME NEW c \in Call, IntakeCommit(c) PROVE SafetyInv'
  <2>1. c \notin revisions
    BY <1>2 DEF SafetyInv, CommittedIsDone, IntakeCommit
  <2>2. CommittedIsDone'
    BY <1>2 DEF SafetyInv, CommittedIsDone, IntakeCommit, DeletionTypeOK
  <2>3. ASSUME NEW d \in Saga PROVE SagaOK(d)'
    BY <1>2 DEF SafetyInv, SagaOK, IntakeCommit
  <2>4. ASSUME NEW s \in Searcher PROVE SearchOK(s)'
    BY <1>2, <2>1 DEF SafetyInv, SearchOK, IntakeCommit
  <2> QED
    BY <2>2, <2>3, <2>4 DEF SafetyInv
<1>3. ASSUME NEW c \in Call, IntakeAbort(c) PROVE SafetyInv'
  <2>1. CommittedIsDone'
    BY <1>3 DEF SafetyInv, CommittedIsDone, IntakeAbort, DeletionTypeOK
  <2> QED
    BY <1>3, <2>1 DEF SafetyInv, SagaOK, SearchOK, IntakeAbort
<1>4. ASSUME NEW c \in Call, IndexUpsert(c) PROVE SafetyInv'
  BY <1>4 DEF SafetyInv, CommittedIsDone, SagaOK, SearchOK, IndexUpsert
<1>5. ASSUME PlaceHold PROVE SafetyInv'
  BY <1>5 DEF SafetyInv, CommittedIsDone, SagaOK, SearchOK, PlaceHold
<1>6. ASSUME ReleaseHold PROVE SafetyInv'
  BY <1>6 DEF SafetyInv, CommittedIsDone, SagaOK, SearchOK, ReleaseHold
<1>7. ASSUME NEW d \in Saga, GetRecord(d) PROVE SafetyInv'
  <2>1. ASSUME NEW e \in Saga PROVE SagaOK(e)'
    BY <1>7 DEF SafetyInv, SagaOK, GetRecord, At, DeletionTypeOK
  <2> QED
    BY <1>7, <2>1 DEF SafetyInv, CommittedIsDone, SearchOK, GetRecord
<1>8. ASSUME NEW d \in Saga, Tombstone(d) PROVE SafetyInv'
  <2>1. Call \cap revisions' = Call \cap revisions
    BY <1>8 DEF Tombstone
  <2>2. ASSUME NEW e \in Saga PROVE SagaOK(e)'
    <3>1. CASE e = d
      BY <1>8, <3>1 DEF SafetyInv, SagaOK, Tombstone, DeletionTypeOK
    <3>2. CASE e # d
      BY <1>8, <3>2 DEF SafetyInv, SagaOK, Tombstone, DeletionTypeOK
    <3> QED
      BY <3>1, <3>2
  <2>3. ASSUME NEW s \in Searcher PROVE SearchOK(s)'
    BY <1>8, <2>1 DEF SafetyInv, SearchOK, Tombstone, IsTombstoned
  <2> QED
    BY <1>8, <2>1, <2>2, <2>3 DEF SafetyInv, CommittedIsDone, Tombstone
<1>9. ASSUME NEW d \in Saga, enumerate(d) PROVE SafetyInv'
  <2>1. PICK rs \in Listings :
          saga' = [saga EXCEPT ![d] = [pc |-> "index", found |-> EvidenceOf(rs),
                                       todo |-> EvidenceOf(rs), prior |-> @.prior]]
    BY <1>9 DEF enumerate
  <2>2. EvidenceOf(rs) \subseteq revisions
    BY DEF EvidenceOf, Listings
  <2>3. ASSUME NEW e \in Saga PROVE SagaOK(e)'
    <3>1. CASE e = d
      BY <1>9, <2>1, <2>2, <3>1 DEF SafetyInv, SagaOK, enumerate, DeletionTypeOK
    <3>2. CASE e # d
      BY <1>9, <2>1, <3>2 DEF SafetyInv, SagaOK, enumerate, DeletionTypeOK
    <3> QED
      BY <3>1, <3>2
  <2> QED
    BY <1>9, <2>3 DEF SafetyInv, CommittedIsDone, SearchOK, enumerate
<1>10. ASSUME NEW d \in Saga, EnumerateError(d) PROVE SafetyInv'
  <2>1. ASSUME NEW e \in Saga PROVE SagaOK(e)'
    BY <1>10 DEF SafetyInv, SagaOK, EnumerateError, At, DeletionTypeOK
  <2> QED
    BY <1>10, <2>1 DEF SafetyInv, CommittedIsDone, SearchOK, EnumerateError
<1>11. ASSUME NEW d \in Saga, IndexDelete(d) PROVE SafetyInv'
  <2>1. ASSUME NEW e \in Saga PROVE SagaOK(e)'
    BY <1>11 DEF SafetyInv, SagaOK, IndexDelete, At, DeletionTypeOK
  <2> QED
    BY <1>11, <2>1 DEF SafetyInv, CommittedIsDone, SearchOK, IndexDelete
<1>12. ASSUME NEW d \in Saga, HasLegalHold(d) PROVE SafetyInv'
  <2>1. ASSUME NEW e \in Saga PROVE SagaOK(e)'
    BY <1>12 DEF SafetyInv, SagaOK, HasLegalHold, At, DeletionTypeOK
  <2> QED
    BY <1>12, <2>1 DEF SafetyInv, CommittedIsDone, SearchOK, HasLegalHold
<1>13. ASSUME NEW d \in Saga, DeleteVersion(d) PROVE SafetyInv'
  <2>1. PICK c \in saga[d].todo : /\ evidence' = evidence \ {c}
                                  /\ saga' = [saga EXCEPT ![d].todo = @ \ {c}]
    BY <1>13 DEF DeleteVersion
  <2>2. ASSUME NEW e \in Saga PROVE SagaOK(e)'
    <3>1. CASE e = d
      BY <1>13, <2>1, <3>1 DEF SafetyInv, SagaOK, DeleteVersion, DeletionTypeOK
    <3>2. CASE e # d
      BY <1>13, <2>1, <3>2 DEF SafetyInv, SagaOK, DeleteVersion, DeletionTypeOK
    <3> QED
      BY <3>1, <3>2
  <2> QED
    BY <1>13, <2>2 DEF SafetyInv, CommittedIsDone, SearchOK, DeleteVersion
<1>14. ASSUME NEW d \in Saga, DeleteVersionError(d) PROVE SafetyInv'
  <2>1. ASSUME NEW e \in Saga PROVE SagaOK(e)'
    BY <1>14 DEF SafetyInv, SagaOK, DeleteVersionError, DeletionTypeOK
  <2> QED
    BY <1>14, <2>1 DEF SafetyInv, CommittedIsDone, SearchOK, DeleteVersionError
<1>15. ASSUME NEW d \in Saga, Erased(d) PROVE SafetyInv'
  <2>1. ASSUME NEW e \in Saga PROVE SagaOK(e)'
    BY <1>15 DEF SafetyInv, SagaOK, Erased, At, DeletionTypeOK
  <2> QED
    BY <1>15, <2>1 DEF SafetyInv, CommittedIsDone, SearchOK, Erased
<1>16. ASSUME NEW d \in Saga, Finish(d) PROVE SafetyInv'
  <2>1. ASSUME NEW e \in Saga PROVE SagaOK(e)'
    BY <1>16 DEF SafetyInv, SagaOK, Finish, DeletionTypeOK
  <2>2. ASSUME NEW s \in Searcher PROVE SearchOK(s)'
    BY <1>16 DEF SafetyInv, SearchOK, Finish, Outcome, IsTombstoned
  <2> QED
    BY <1>16, <2>1, <2>2 DEF SafetyInv, CommittedIsDone, Finish
<1>17. ASSUME NEW d \in Saga, SagaFails(d) PROVE SafetyInv'
  <2>1. Call \cap revisions' = Call \cap revisions /\ revisions \subseteq revisions'
    BY <1>17 DEF SagaFails
  <2>2. record' = record \/ IsTombstoned(record'.state)
    BY <1>17 DEF SagaFails, Outcome, IsTombstoned
  <2>3. ASSUME NEW e \in Saga PROVE SagaOK(e)'
    BY <1>17, <2>1 DEF SafetyInv, SagaOK, SagaFails, DeletionTypeOK
  <2>4. ASSUME NEW s \in Searcher PROVE SearchOK(s)'
    BY <1>17, <2>1, <2>2 DEF SafetyInv, SearchOK, SagaFails
  <2> QED
    BY <1>17, <2>1, <2>3, <2>4 DEF SafetyInv, CommittedIsDone, SagaFails
<1>18. ASSUME NEW s \in Searcher, SearchCandidates(s) PROVE SafetyInv'
  <2>1. ASSUME NEW t \in Searcher PROVE SearchOK(t)'
    BY <1>18 DEF SafetyInv, SearchOK, SearchCandidates, DeletionTypeOK
  <2> QED
    BY <1>18, <2>1 DEF SafetyInv, CommittedIsDone, SagaOK, SearchCandidates
<1>19. ASSUME NEW s \in Searcher, Hydrate(s) PROVE SafetyInv'
  <2>1. ASSUME NEW t \in Searcher PROVE SearchOK(t)'
    BY <1>19 DEF SafetyInv, SearchOK, Hydrate, DeletionTypeOK
  <2> QED
    BY <1>19, <2>1 DEF SafetyInv, CommittedIsDone, SagaOK, Hydrate
<1>20. CASE UNCHANGED deletionVars
  BY <1>20 DEF SafetyInv, CommittedIsDone, SagaOK, SearchOK, deletionVars
<1> QED
  BY <1>1, <1>2, <1>3, <1>4, <1>5, <1>6, <1>7, <1>8, <1>9, <1>10, <1>11, <1>12,
     <1>13, <1>14, <1>15, <1>16, <1>17, <1>18, <1>19, <1>20 DEF DeletionNext, SagaStep

(* So it holds of a whole behaviour.                                       *)
LEMMA SafetyInvariant == DeletionSpec => []SafetyInv
<1>1. DeletionInit => SafetyInv
  BY DEF DeletionInit, SafetyInv, CommittedIsDone, SagaOK, SearchOK
<1> QED
  BY <1>1, SafetyStep, DeletionTypeCorrect, PTL DEF DeletionSpec

(* A tombstone hides its record from every search that begins after it,    *)
(* whatever the index still holds, until an intake commits.                *)
THEOREM TombstonesDominate == DeletionSpec => []TombstoneDominates
<1>1. SafetyInv => TombstoneDominates
  BY DEF SafetyInv, SearchOK, TombstoneDominates
<1> QED
  BY <1>1, SafetyInvariant, PTL

(* A completed manifest never lists evidence that is still stored. *)
THEOREM ManifestsAreHonest == DeletionSpec => []ManifestIsHonest
<1>1. SafetyInv => ManifestIsHonest
  BY DEF SafetyInv, SagaOK, ManifestIsHonest
<1> QED
  BY <1>1, SafetyInvariant, PTL

(* Evidence under a legal hold is erased only by a deletion that asked for *)
(* the hold before it was placed.                                          *)
THEOREM HoldsYieldOnlyToRaces == DeletionSpec => HeldErasedOnlyByRace
<1>1. ASSUME DeletionTypeOK, SafetyInv, [DeletionNext]_deletionVars, held, ~(evidence \subseteq evidence')
      PROVE  \E d \in heldLate : saga[d].pc = "erase"
  <2>1. PICK d \in Saga : DeleteVersion(d) \/ DeleteVersionError(d)
    BY <1>1 DEF DeletionNext, SagaStep, deletionVars, IntakePut, IntakeCommit, IntakeAbort,
       IndexUpsert, PlaceHold, ReleaseHold, GetRecord, Tombstone, enumerate,
       EnumerateError, IndexDelete, HasLegalHold, Erased, Finish, SagaFails,
       SearchCandidates, Hydrate
  <2>2. saga[d].pc = "erase"
    BY <2>1 DEF DeleteVersion, DeleteVersionError
  <2> QED
    BY <1>1, <2>2 DEF SafetyInv, SagaOK
<1>2. DeletionTypeOK /\ SafetyInv /\ [DeletionNext]_deletionVars
        => [held /\ ~(evidence \subseteq evidence')
              => \E d \in heldLate : saga[d].pc = "erase"]_deletionVars
  BY <1>1
<1> QED
  BY <1>2, SafetyInvariant, DeletionTypeCorrect, PTL DEF DeletionSpec, HeldErasedOnlyByRace

-----------------------------------------------------------------------------
(* What a deletion hides, and who may have erased the evidence of a live   *)
(* record.                                                                 *)

Hides(d) ==
  /\ saga[d].prior \subseteq revisions
  /\ saga[d].todo \subseteq saga[d].found
  /\ saga[d].pc \in {"idle", "tombstone", "enumerate"} => saga[d].found = {}
  /\ Live(record) => record.rev \notin saga[d].prior

LiveIsCommitted == Live(record) => record.rev \in Call \cap revisions

OpenHasEvidence == \A c \in Call : incoming[c].pc = "open" => c \in evidence

EvidenceAccounted ==
  \A c \in Call \cap revisions :
    c \in evidence \/ \E d \in Saga : c \in saga[d].found

VisibleInv ==
  /\ LiveIsCommitted
  /\ OpenHasEvidence
  /\ EvidenceAccounted
  /\ \A d \in Saga : Hides(d)

(* Every step keeps what the visibility of a record rests on.              *)
LEMMA VisibleStep == DeletionTypeOK /\ SafetyInv /\ VisibleInv /\ [DeletionNext]_deletionVars => VisibleInv'
<1> SUFFICES ASSUME DeletionTypeOK, SafetyInv, VisibleInv, [DeletionNext]_deletionVars PROVE VisibleInv'
  OBVIOUS
<1> USE DeletionAssumption DEF VisibleInv
(* Steps that leave the sagas, the record and the evidence alone. *)
<1>1. ASSUME record' = record, saga' = saga, revisions \subseteq revisions',
             Call \cap revisions' = Call \cap revisions, evidence' = evidence,
             \A c \in Call : incoming'[c].pc = "open" => incoming[c].pc = "open"
      PROVE  VisibleInv'
  BY <1>1 DEF LiveIsCommitted, OpenHasEvidence, EvidenceAccounted, Hides
<1>2. ASSUME NEW c \in Call, IntakePut(c) PROVE VisibleInv'
  <2>1. OpenHasEvidence'
    BY <1>2 DEF OpenHasEvidence, IntakePut, DeletionTypeOK
  <2> QED
    BY <1>2, <2>1 DEF LiveIsCommitted, EvidenceAccounted, Hides, IntakePut
<1>3. ASSUME NEW c \in Call, IntakeCommit(c) PROVE VisibleInv'
  <2>1. c \notin revisions
    BY <1>3 DEF SafetyInv, CommittedIsDone, IntakeCommit
  <2>2. LiveIsCommitted'
    BY <1>3 DEF LiveIsCommitted, IntakeCommit
  <2>3. OpenHasEvidence'
    BY <1>3 DEF OpenHasEvidence, IntakeCommit, DeletionTypeOK
  <2>4. EvidenceAccounted'
    BY <1>3 DEF EvidenceAccounted, OpenHasEvidence, IntakeCommit
  <2>5. ASSUME NEW d \in Saga PROVE Hides(d)'
    BY <1>3, <2>1 DEF Hides, IntakeCommit
  <2> QED
    BY <2>2, <2>3, <2>4, <2>5
<1>4. ASSUME NEW c \in Call, IntakeAbort(c) PROVE VisibleInv'
  BY <1>1, <1>4 DEF IntakeAbort, DeletionTypeOK
<1>5. ASSUME NEW c \in Call, IndexUpsert(c) PROVE VisibleInv'
  BY <1>1, <1>5 DEF IndexUpsert
<1>6. ASSUME PlaceHold \/ ReleaseHold PROVE VisibleInv'
  BY <1>1, <1>6 DEF PlaceHold, ReleaseHold
<1>7. ASSUME NEW s \in Searcher, SearchCandidates(s) \/ Hydrate(s) PROVE VisibleInv'
  BY <1>1, <1>7 DEF SearchCandidates, Hydrate
<1>8. CASE UNCHANGED deletionVars
  BY <1>1, <1>8 DEF deletionVars
(* Steps of a saga after its tombstone that change no record and no list. *)
<1>9. ASSUME NEW d \in Saga, record' = record, revisions' = revisions,
             evidence' = evidence, incoming' = incoming, NEW to,
             saga' = [saga EXCEPT ![d].pc = to],
             to \in {"idle", "tombstone", "enumerate"} => saga[d].found = {}
      PROVE  VisibleInv'
  <2>1. ASSUME NEW e \in Saga PROVE Hides(e)'
    BY <1>9 DEF Hides, DeletionTypeOK
  <2>2. \A e \in Saga : saga'[e].found = saga[e].found
    BY <1>9 DEF DeletionTypeOK
  <2> QED
    BY <1>9, <2>1, <2>2 DEF LiveIsCommitted, OpenHasEvidence, EvidenceAccounted
<1>10. ASSUME NEW d \in Saga, GetRecord(d) PROVE VisibleInv'
  BY <1>9, <1>10 DEF GetRecord, At, Hides
<1>11. ASSUME NEW d \in Saga, EnumerateError(d) PROVE VisibleInv'
  BY <1>9, <1>11 DEF EnumerateError, At
<1>12. ASSUME NEW d \in Saga, IndexDelete(d) PROVE VisibleInv'
  BY <1>9, <1>12 DEF IndexDelete, At
<1>13. ASSUME NEW d \in Saga, HasLegalHold(d) PROVE VisibleInv'
  <2>1. saga' = [saga EXCEPT ![d].pc = IF held THEN "pend" ELSE "erase"]
    BY <1>13 DEF HasLegalHold, At
  <2> QED
    BY <1>9, <1>13, <2>1 DEF HasLegalHold
<1>14. ASSUME NEW d \in Saga, Erased(d) PROVE VisibleInv'
  BY <1>9, <1>14 DEF Erased, At
<1>15. ASSUME NEW d \in Saga, Tombstone(d) PROVE VisibleInv'
  <2>1. Call \cap revisions' = Call \cap revisions /\ revisions \subseteq revisions'
    BY <1>15 DEF Tombstone
  <2>2. ~Live(record)'
    BY <1>15 DEF Tombstone, Live
  <2>3. ASSUME NEW e \in Saga PROVE Hides(e)'
    BY <1>15, <2>1, <2>2 DEF Hides, Tombstone, DeletionTypeOK
  <2>4. \A e \in Saga : saga'[e].found = saga[e].found
    BY <1>15 DEF Tombstone, DeletionTypeOK
  <2> QED
    BY <1>15, <2>1, <2>2, <2>3, <2>4
       DEF LiveIsCommitted, OpenHasEvidence, EvidenceAccounted, Tombstone
<1>16. ASSUME NEW d \in Saga, enumerate(d) PROVE VisibleInv'
  <2>1. PICK rs \in Listings :
          saga' = [saga EXCEPT ![d] = [pc |-> "index", found |-> EvidenceOf(rs),
                                       todo |-> EvidenceOf(rs), prior |-> @.prior]]
    BY <1>16 DEF enumerate
  <2>2. ASSUME NEW e \in Saga PROVE Hides(e)'
    BY <1>16, <2>1 DEF Hides, enumerate, DeletionTypeOK
  <2>3. saga[d].found = {}
    BY <1>16 DEF Hides, enumerate
  <2>4. \A e \in Saga : saga[e].found \subseteq saga'[e].found
    BY <2>1, <2>3 DEF DeletionTypeOK
  <2> QED
    BY <1>16, <2>2, <2>4
       DEF LiveIsCommitted, OpenHasEvidence, EvidenceAccounted, enumerate
<1>17. ASSUME NEW d \in Saga, DeleteVersion(d) PROVE VisibleInv'
  <2>1. PICK c \in saga[d].todo : /\ evidence' = evidence \ {c}
                                  /\ saga' = [saga EXCEPT ![d].todo = @ \ {c}]
    BY <1>17 DEF DeleteVersion
  <2>2. c \in saga[d].found /\ c \in revisions
    BY <2>1 DEF Hides, SafetyInv, SagaOK
  <2>3. ASSUME NEW e \in Saga PROVE Hides(e)'
    BY <1>17, <2>1 DEF Hides, DeleteVersion, DeletionTypeOK
  <2>4. \A e \in Saga : saga'[e].found = saga[e].found
    BY <2>1 DEF DeletionTypeOK
  <2>5. OpenHasEvidence'
    BY <1>17, <2>1, <2>2 DEF OpenHasEvidence, SafetyInv, CommittedIsDone, DeleteVersion
  <2>6. EvidenceAccounted'
    BY <1>17, <2>1, <2>2, <2>4 DEF EvidenceAccounted, DeleteVersion
  <2> QED
    BY <1>17, <2>3, <2>5, <2>6 DEF LiveIsCommitted, DeleteVersion
<1>18. ASSUME NEW d \in Saga, DeleteVersionError(d) PROVE VisibleInv'
  <2>1. PICK c \in saga[d].todo : evidence' \in {evidence, evidence \ {c}}
    BY <1>18 DEF DeleteVersionError
  <2>2. c \in saga[d].found /\ c \in revisions
    BY <2>1 DEF Hides, SafetyInv, SagaOK
  <2>3. ASSUME NEW e \in Saga PROVE Hides(e)'
    BY <1>18 DEF Hides, DeleteVersionError, DeletionTypeOK
  <2>4. \A e \in Saga : saga'[e].found = saga[e].found
    BY <1>18 DEF DeleteVersionError, DeletionTypeOK
  <2>5. OpenHasEvidence'
    BY <1>18, <2>1, <2>2
       DEF OpenHasEvidence, SafetyInv, CommittedIsDone, DeleteVersionError
  <2>6. EvidenceAccounted'
    BY <1>18, <2>1, <2>2, <2>4 DEF EvidenceAccounted, DeleteVersionError
  <2> QED
    BY <1>18, <2>3, <2>5, <2>6 DEF LiveIsCommitted, DeleteVersionError
(* Steps after which the record is not live, or is as it was. *)
<1>19. ASSUME NEW d \in Saga, Finish(d) \/ SagaFails(d) PROVE VisibleInv'
  <2>1. Call \cap revisions' = Call \cap revisions /\ revisions \subseteq revisions'
    BY <1>19 DEF Finish, SagaFails
  <2>2. record' = record \/ ~Live(record)'
    BY <1>19 DEF Finish, SagaFails, Outcome, Live
  <2>3. evidence' = evidence /\ incoming' = incoming
    BY <1>19 DEF Finish, SagaFails
  <2>4. PICK to \in {"done", "failed"} : saga' = [saga EXCEPT ![d].pc = to]
    BY <1>19 DEF Finish, SagaFails
  <2>5. ASSUME NEW e \in Saga PROVE Hides(e)'
    BY <2>1, <2>2, <2>4 DEF Hides, Live, DeletionTypeOK
  <2>6. \A e \in Saga : saga'[e].found = saga[e].found
    BY <2>4 DEF DeletionTypeOK
  <2> QED
    BY <2>1, <2>2, <2>3, <2>5, <2>6
       DEF LiveIsCommitted, OpenHasEvidence, EvidenceAccounted, Live
<1> QED
  BY <1>2, <1>3, <1>4, <1>5, <1>6, <1>7, <1>8, <1>10, <1>11, <1>12, <1>13, <1>14,
     <1>15, <1>16, <1>17, <1>18, <1>19 DEF DeletionNext, SagaStep

(* A deletion revokes visibility before it cleans up: what it hides stays  *)
(* hidden, and a live record lost its evidence only to a deletion whose    *)
(* tombstone it had overtaken.                                             *)
THEOREM CleanupFollowsRevocation == DeletionSpec => []VisibilityRevokedFirst
<1>1. DeletionInit => VisibleInv
  BY DEF DeletionInit, VisibleInv, LiveIsCommitted, OpenHasEvidence, EvidenceAccounted,
     Hides, Live
<1>2. VisibleInv => VisibilityRevokedFirst
  BY DEF VisibleInv, LiveIsCommitted, EvidenceAccounted, Hides,
     VisibilityRevokedFirst
<1> QED
  BY <1>1, <1>2, VisibleStep, SafetyInvariant, DeletionTypeCorrect, PTL DEF DeletionSpec
=============================================================================
