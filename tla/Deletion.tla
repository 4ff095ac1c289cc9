------------------------------ MODULE Deletion ------------------------------
(***************************************************************************)
(* The deletion saga (deletion.Service.Run) against the intakes, index     *)
(* projections and searches that run beside it.                            *)
(*                                                                         *)
(* The saga tombstones the record in one transaction, then lists the       *)
(* resource's evidence, removes its search document, asks for a legal      *)
(* hold, erases the evidence version by version and rewrites the record.   *)
(* Nothing locks the resource between these steps.                         *)
(*                                                                         *)
(* Resources do not meet in this code, so one is modelled.  An intake      *)
(* stands for its revision and its evidence version, a deletion for its    *)
(* tombstone revision.  The edges a deletion tombstones are in AuthzSync,  *)
(* the steps of an intake in Intake, the delivery of projections in        *)
(* Projection.                                                             *)
(***************************************************************************)
EXTENDS Integers, FiniteSets

CONSTANTS
  Call,           \* intakes of the resource
  Saga,        \* deletions of the resource
  Searcher,       \* searches that match the resource
  EvidenceListed, \* ListRevisions returns evidence refs (memory yes, Postgres no)
  RevisionLimit,  \* revisions enumerate asks for (100 in the code)
  MaxSagaFaults,      \* bound: failed dependencies and crashes in a behaviour
  None            \* nothing

ASSUME DeletionAssumption ==
  /\ Call \cap Saga = {}
  /\ None \notin Call \cup Saga
  /\ EvidenceListed \in BOOLEAN
  /\ RevisionLimit \in Nat
  /\ MaxSagaFaults \in Nat

VARIABLES
  record,    \* lifecycle state and current revision
  revisions, \* committed revisions: intakes, and deletions for tombstones
  evidence,  \* evidence versions stored
  index,     \* the intake the search document was last written from
  held,      \* a legal hold is in force
  incoming,    \* where each intake is, and the tombstones older than it
  saga,      \* where each deletion is, the evidence it has listed, and
             \* (history) the intakes committed before its tombstone
  manifest,  \* the outcome each deletion reported
  heldLate,      \* history: deletions a hold was placed too late for
  search,    \* where each search is, and what it found when it began
  sagaFaults     \* failures so far

deletionVars == <<record, revisions, evidence, index, held, incoming, saga, manifest,
          heldLate, search, sagaFaults>>

IsTombstoned(state) == state \in {"TOMBSTONED", "PURGE_PENDING", "PURGED"}

Live(r) == r.state = "ACCEPTED"

-----------------------------------------------------------------------------
(* Intakes and projections *)

(* Evidence.Put, before the transaction. *)
IntakePut(c) ==
  /\ incoming[c].pc = "idle"
  /\ incoming' = [incoming EXCEPT ![c] = [pc |-> "open",
                                      after |-> revisions \cap Saga]]
  /\ evidence' = evidence \cup {c}
  /\ UNCHANGED <<record, revisions, index, held, saga, manifest, heldLate, search,
                 sagaFaults>>

(* PromotePlaceholder takes the record over whatever its state is. *)
IntakeCommit(c) ==
  /\ incoming[c].pc = "open"
  /\ incoming' = [incoming EXCEPT ![c].pc = "done"]
  /\ record' = [state |-> "ACCEPTED", rev |-> c]
  /\ revisions' = revisions \cup {c}
  /\ UNCHANGED <<evidence, index, held, saga, manifest, heldLate, search, sagaFaults>>

(* The transaction is refused or fails; its evidence stays. *)
IntakeAbort(c) ==
  /\ incoming[c].pc = "open"
  /\ sagaFaults < MaxSagaFaults
  /\ sagaFaults' = sagaFaults + 1
  /\ incoming' = [incoming EXCEPT ![c].pc = "failed"]
  /\ UNCHANGED <<record, revisions, evidence, index, held, saga, manifest,
                 heldLate, search>>

(* Index.Upsert for a committed intake, by the intake itself, the relay or *)
(* a consumer.  Neither asks whether the record is tombstoned, and the     *)
(* write may come at any time after the commit, and again.                 *)
IndexUpsert(c) ==
  /\ c \in revisions
  /\ index' = c
  /\ UNCHANGED <<record, revisions, evidence, held, incoming, saga, manifest,
                 heldLate, search, sagaFaults>>

-----------------------------------------------------------------------------
(* Legal holds are placed and released outside this code. *)

PlaceHold ==
  /\ ~held
  /\ held' = TRUE
  /\ heldLate' = {d \in Saga : saga[d].pc \in {"erase", "pend", "purge"}}
  /\ UNCHANGED <<record, revisions, evidence, index, incoming, saga, manifest,
                 search, sagaFaults>>

ReleaseHold ==
  /\ held
  /\ held' = FALSE
  /\ UNCHANGED <<record, revisions, evidence, index, incoming, saga, manifest,
                 heldLate, search, sagaFaults>>

-----------------------------------------------------------------------------
(* The saga *)

At(d, from, to) == /\ saga[d].pc = from
                   /\ saga' = [saga EXCEPT ![d].pc = to]

(* GetRecord finds the record.  What is remembered of it is rewritten      *)
(* before it is used, except facts that do not matter here.                *)
GetRecord(d) ==
  /\ record.state # "NONE"
  /\ At(d, "idle", "tombstone")
  /\ UNCHANGED <<record, revisions, evidence, index, held, incoming, manifest,
                 heldLate, search, sagaFaults>>

(* Mutant: the tombstone revision is appended, the record left as it is. *)
TombstoneRecordKept(d) ==
  /\ saga[d].pc = "tombstone"
  /\ saga' = [saga EXCEPT ![d] = [pc |-> "enumerate", found |-> @.found,
                                  todo |-> @.todo, prior |-> revisions \cap Call]]
  /\ revisions' = revisions \cup {d}
  /\ UNCHANGED <<record, evidence, index, held, incoming, manifest, heldLate, search,
                 sagaFaults>>

(* AppendRevision and UpsertRecord, in one transaction. *)
Tombstone(d) ==
  /\ saga[d].pc = "tombstone"
  /\ saga' = [saga EXCEPT ![d] = [pc |-> "enumerate", found |-> @.found,
                                  todo |-> @.todo, prior |-> revisions \cap Call]]
  /\ revisions' = revisions \cup {d}
  /\ record' = [state |-> "TOMBSTONED", rev |-> d]
  /\ UNCHANGED <<evidence, index, held, incoming, manifest, heldLate, search, sagaFaults>>

(* What ListRevisions may return: at most the limit. *)
Listings == {rs \in SUBSET revisions :
               \/ rs = revisions /\ Cardinality(rs) <= RevisionLimit
               \/ Cardinality(rs) = RevisionLimit}

EvidenceOf(rs) == IF EvidenceListed THEN rs \cap Call ELSE {}

enumerate(d) ==
  /\ saga[d].pc = "enumerate"
  /\ \E rs \in Listings :
       saga' = [saga EXCEPT ![d] = [pc |-> "index", found |-> EvidenceOf(rs),
                                    todo |-> EvidenceOf(rs), prior |-> @.prior]]
  /\ UNCHANGED <<record, revisions, evidence, index, held, incoming, manifest,
                 heldLate, search, sagaFaults>>

(* ListRevisions fails: the saga goes on without any evidence. *)
EnumerateError(d) ==
  /\ sagaFaults < MaxSagaFaults
  /\ sagaFaults' = sagaFaults + 1
  /\ At(d, "enumerate", "index")
  /\ UNCHANGED <<record, revisions, evidence, index, held, incoming, manifest,
                 heldLate, search>>

IndexDelete(d) ==
  /\ At(d, "index", "hold")
  /\ index' = None
  /\ UNCHANGED <<record, revisions, evidence, held, incoming, manifest, heldLate,
                 search, sagaFaults>>

(* Mutant: the hold is not asked for. *)
HoldUnasked(d) ==
  /\ At(d, "hold", "erase")
  /\ UNCHANGED <<record, revisions, evidence, index, held, incoming, manifest,
                 heldLate, search, sagaFaults>>

HasLegalHold(d) ==
  /\ At(d, "hold", IF held THEN "pend" ELSE "erase")
  /\ UNCHANGED <<record, revisions, evidence, index, held, incoming, manifest,
                 heldLate, search, sagaFaults>>

DeleteVersion(d) ==
  /\ saga[d].pc = "erase"
  /\ \E c \in saga[d].todo :
       /\ evidence' = evidence \ {c}
       /\ saga' = [saga EXCEPT ![d].todo = @ \ {c}]
  /\ UNCHANGED <<record, revisions, index, held, incoming, manifest, heldLate,
                 search, sagaFaults>>

(* Mutant: a version that cannot be erased is skipped. *)
DeleteVersionSkips(d) ==
  /\ saga[d].pc = "erase"
  /\ sagaFaults < MaxSagaFaults
  /\ sagaFaults' = sagaFaults + 1
  /\ \E c \in saga[d].todo : saga' = [saga EXCEPT ![d].todo = @ \ {c}]
  /\ UNCHANGED <<record, revisions, evidence, index, held, incoming, manifest,
                 heldLate, search>>

(* The first failure ends the loop; the version may be gone all the same.  *)
DeleteVersionError(d) ==
  /\ saga[d].pc = "erase"
  /\ sagaFaults < MaxSagaFaults
  /\ sagaFaults' = sagaFaults + 1
  /\ \E c \in saga[d].todo : evidence' \in {evidence, evidence \ {c}}
  /\ saga' = [saga EXCEPT ![d].pc = "pend"]
  /\ UNCHANGED <<record, revisions, index, held, incoming, manifest, heldLate, search>>

Erased(d) ==
  /\ saga[d].todo = {}
  /\ At(d, "erase", "purge")
  /\ UNCHANGED <<record, revisions, evidence, index, held, incoming, manifest,
                 heldLate, search, sagaFaults>>

(* UpsertRecord with the record as tombstoned, over whatever is there; an  *)
(* error is ignored.  The manifest follows.                                *)
Outcome(pc) == IF pc = "purge" THEN "PURGED" ELSE "PURGE_PENDING"

Finish(d) ==
  /\ saga[d].pc \in {"purge", "pend"}
  /\ saga' = [saga EXCEPT ![d].pc = "done"]
  /\ \/ /\ record' = [state |-> Outcome(saga[d].pc), rev |-> d]
        /\ UNCHANGED sagaFaults
     \/ /\ sagaFaults < MaxSagaFaults
        /\ sagaFaults' = sagaFaults + 1
        /\ UNCHANGED record
  /\ manifest' = [manifest EXCEPT ![d] = IF saga[d].pc = "purge"
                                        THEN "completed" ELSE "blocked"]
  /\ UNCHANGED <<revisions, evidence, index, held, incoming, heldLate, search>>

(* A dependency whose error is returned fails, or the process dies.  No    *)
(* one resumes the saga.                                                   *)
SagaFails(d) ==
  /\ saga[d].pc \notin {"idle", "done", "failed"}
  /\ sagaFaults < MaxSagaFaults
  /\ sagaFaults' = sagaFaults + 1
  /\ saga' = [saga EXCEPT ![d].pc = "failed"]
  /\ \/ UNCHANGED <<record, revisions, index>>
     \/ /\ saga[d].pc = "tombstone"
        /\ revisions' = revisions \cup {d}
        /\ record' = [state |-> "TOMBSTONED", rev |-> d]
        /\ UNCHANGED index
     \/ /\ saga[d].pc = "index"
        /\ index' = None
        /\ UNCHANGED <<record, revisions>>
     \/ /\ saga[d].pc \in {"purge", "pend"}
        /\ record' = [state |-> Outcome(saga[d].pc), rev |-> d]
        /\ UNCHANGED <<revisions, index>>
  /\ UNCHANGED <<evidence, held, incoming, manifest, heldLate, search>>

-----------------------------------------------------------------------------
(* Search *)

(* SearchCandidates finds the document; BatchCheck allows it. *)
SearchCandidates(s) ==
  /\ search[s].pc = "idle"
  /\ index # None
  /\ search' = [search EXCEPT ![s] = [pc |-> "hydrate", seen |-> record,
                                      calls |-> revisions \cap Call]]
  /\ UNCHANGED <<record, revisions, evidence, index, held, incoming, saga,
                 manifest, heldLate, sagaFaults>>

(* Mutant: only the first tombstone state counts. *)
HydrateTombstonedOnly(s) ==
  /\ search[s].pc = "hydrate"
  /\ search' = [search EXCEPT ![s].pc =
                  IF record.state = "TOMBSTONED" THEN "skipped" ELSE "cited"]
  /\ UNCHANGED <<record, revisions, evidence, index, held, incoming, saga,
                 manifest, heldLate, sagaFaults>>

(* GetRecord and the tombstone check, before the citation is made. *)
Hydrate(s) ==
  /\ search[s].pc = "hydrate"
  /\ search' = [search EXCEPT ![s].pc =
                  IF IsTombstoned(record.state) THEN "skipped" ELSE "cited"]
  /\ UNCHANGED <<record, revisions, evidence, index, held, incoming, saga,
                 manifest, heldLate, sagaFaults>>

-----------------------------------------------------------------------------
DeletionInit ==
  /\ record = [state |-> "NONE", rev |-> None]
  /\ revisions = {}
  /\ evidence = {}
  /\ index = None
  /\ held = FALSE
  /\ incoming = [c \in Call |-> [pc |-> "idle", after |-> {}]]
  /\ saga = [d \in Saga |-> [pc |-> "idle", found |-> {}, todo |-> {},
                             prior |-> {}]]
  /\ manifest = [d \in Saga |-> "none"]
  /\ heldLate = {}
  /\ search = [s \in Searcher |-> [pc |-> "idle", calls |-> {},
                                   seen |-> [state |-> "NONE", rev |-> None]]]
  /\ sagaFaults = 0

SagaStep(d) ==
  \/ GetRecord(d) \/ Tombstone(d) \/ enumerate(d) \/ EnumerateError(d)
  \/ IndexDelete(d) \/ HasLegalHold(d) \/ DeleteVersion(d)
  \/ DeleteVersionError(d) \/ Erased(d) \/ Finish(d)

DeletionNext ==
  \/ \E c \in Call : \/ IntakePut(c) \/ IntakeCommit(c) \/ IntakeAbort(c)
                     \/ IndexUpsert(c)
  \/ PlaceHold \/ ReleaseHold
  \/ \E d \in Saga : SagaStep(d) \/ SagaFails(d)
  \/ \E s \in Searcher : SearchCandidates(s) \/ Hydrate(s)

DeletionSpec == DeletionInit /\ [][DeletionNext]_deletionVars

-----------------------------------------------------------------------------
(* Properties *)

State == {"NONE", "ACCEPTED", "TOMBSTONED", "PURGE_PENDING", "PURGED"}

Records == [state : State, rev : Call \cup Saga \cup {None}]

DeletionTypeOK ==
  /\ record \in Records
  /\ revisions \subseteq Call \cup Saga
  /\ evidence \subseteq Call
  /\ index \in Call \cup {None}
  /\ held \in BOOLEAN
  /\ incoming \in [Call -> [pc : {"idle", "open", "done", "failed"},
                          after : SUBSET Saga]]
  /\ saga \in [Saga -> [pc : {"idle", "tombstone", "enumerate", "index",
                                 "hold", "erase", "pend", "purge", "done",
                                 "failed"},
                           found : SUBSET Call, todo : SUBSET Call,
                           prior : SUBSET Call]]
  /\ manifest \in [Saga -> {"none", "completed", "blocked"}]
  /\ heldLate \subseteq Saga
  /\ search \in [Searcher -> [pc : {"idle", "hydrate", "cited", "skipped"},
                              seen : Records, calls : SUBSET Call]]
  /\ sagaFaults \in 0..MaxSagaFaults

(* retrieval.Search: "Tombstones dominate any older upsert, including      *)
(* after index lag/restore."  A search that began when the record was      *)
(* tombstoned cites it only if an intake has been committed since, however *)
(* stale the search document and whatever became of the deletion.          *)
TombstoneDominates ==
  \A s \in Searcher :
    search[s].pc = "cited" /\ IsTombstoned(search[s].seen.state)
      => revisions \cap Call # search[s].calls

(* A completed manifest tells the truth about what it lists: every         *)
(* evidence version among its derivatives is gone, and the tombstone       *)
(* revision it names is in the ledger.                                     *)
ManifestIsHonest ==
  \A d \in Saga : manifest[d] = "completed" =>
    /\ saga[d].found \cap evidence = {}
    /\ d \in revisions

(* The legal-hold check leaves exactly one gap: evidence under a hold is   *)
(* erased only by a deletion that had asked before the hold was placed.    *)
HeldErasedOnlyByRace ==
  [][held /\ ~(evidence \subseteq evidence')
       => \E d \in heldLate : saga[d].pc = "erase"]_deletionVars

(* "erase evidence according to retention/legal-hold policy; emit a signed *)
(* completion or blocked manifest": a completed deletion leaves none of    *)
(* the evidence of revisions committed before its tombstone.               *)
CompletedMeansErased ==
  \A d \in Saga : manifest[d] = "completed" =>
    saga[d].prior \cap evidence = {}

(* "A tombstone or access revocation dominates an older upsert after       *)
(* retries, replay, reconciliation, or restore": the record is live only   *)
(* through an intake that began after every tombstone.                     *)
NoResurrection ==
  Live(record) => (revisions \cap Saga) \subseteq incoming[record.rev].after

(* deletion.Run: "Visibility is revoked before projection cleanup."  No    *)
(* intake committed before a tombstone is live after it, and a live record *)
(* lacks its evidence only where a deletion listed an intake that came     *)
(* between its tombstone and its enumeration.                              *)
VisibilityRevokedFirst ==
  Live(record) =>
    /\ \A d \in Saga : record.rev \notin saga[d].prior
    /\ record.rev \notin evidence =>
         \E d \in Saga : record.rev \in saga[d].found \ saga[d].prior
=============================================================================
