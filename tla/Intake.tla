------------------------------- MODULE Intake -------------------------------
(***************************************************************************)
(* The intake path: ApplicationService.Intake around IntakeService.Intake. *)
(*                                                                         *)
(* A call looks its idempotency key up, stores the evidence, then runs one *)
(* ledger transaction (record, revision, edge endpoints, outbox row,       *)
(* idempotency row) and, once that has committed, appends to the change    *)
(* feed and writes the search index.  Calls run concurrently and retries   *)
(* are further calls with the same request.                                *)
(*                                                                         *)
(* Every call mints one revision id and at most one evidence version, so   *)
(* the call itself stands for both.  The transaction runs under READ       *)
(* COMMITTED: GetRecordTx takes no lock, so what it saw may be stale when  *)
(* PromotePlaceholder writes; from that write on the row lock and the      *)
(* unique indexes serialise transactions, so the writes and COMMIT are one *)
(* step.  One organisation is modelled: row level security separates them. *)
(***************************************************************************)
EXTENDS Integers, FiniteSets

CONSTANTS
  Call,      \* intake calls, which name their revision and evidence version
  Name,      \* idempotency keys and event ids: one space of strings
  Resource,  \* resource ids
  Fact,      \* titles and classifications, as one value
  Request,   \* the requests clients send
  None,      \* an empty field
  MaxFaults  \* bound: failed dependencies and crashes in a behaviour

ASSUME IntakeAssumption ==
  /\ None \notin Name \cup Resource \cup Fact \cup Call
  /\ Request \subseteq [key : Name \cup {None}, event : Name, res : Resource,
                        gen : BOOLEAN, sot : BOOLEAN, fact : Fact \cup {None},
                        to : Resource \cup {None}, dry : BOOLEAN]
  /\ MaxFaults \in Nat

VARIABLES
  record,    \* resources: lifecycle state, authority, facts, current revision
  revisions, \* revisions
  idem,      \* records: the revision each idempotency key stands for
  outbox,    \* outbox: event id and the revision its payload names
  evidence,  \* evidence versions stored
  changes,   \* change feed: revision and action
  index,     \* search index: revision and text of each resource's document
  pc,        \* where each call is
  req,       \* the request of each call
  rec,       \* the record a call is about to write, and the revision it saw
  answer,    \* status and revision each call returned
  faults     \* failures so far

intakeVars == <<record, revisions, idem, outbox, evidence, changes, index, pc, req,
          rec, answer, faults>>

NoRecord == [state |-> "NONE", sot |-> FALSE, fact |-> None, rev |-> None]
NoAnswer == [status |-> "none", rev |-> None]

(* The key falls back on the event id, which is never empty. *)
idemKey(r) == IF r.key = None THEN r.event ELSE r.key

Enqueued(e) == \E row \in outbox : row.event = e

(* The call returns. *)
Return(c, status, rev) ==
  /\ answer' = [answer EXCEPT ![c] = [status |-> status, rev |-> rev]]
  /\ pc' = [pc EXCEPT ![c] = "done"]

GoTo(c, step) == pc' = [pc EXCEPT ![c] = step] /\ UNCHANGED answer

ledger == <<record, revisions, idem, outbox>>
derived == <<evidence, changes, index>>

-----------------------------------------------------------------------------
Begin(c) ==
  /\ pc[c] = "idle"
  /\ GoTo(c, "lookup")
  /\ UNCHANGED <<ledger, derived, req, rec, faults>>

(* The request is turned down: authentication, quota, source, signature or *)
(* replay window before anything is stored, or the mapping's ceilings once *)
(* the evidence has been.                                                  *)
Refuse(c) ==
  /\ pc[c] \in {"lookup", "read"}
  /\ Return(c, "refused", None)
  /\ UNCHANGED <<ledger, derived, req, rec, faults>>

(* GetIdempotency; a dry run ends here, with nothing stored. *)
LookupKey(c) ==
  /\ pc[c] = "lookup"
  /\ LET prev == idem[idemKey(req[c])]
     IN \/ prev # None /\ Return(c, "duplicate", prev)
        \/ prev = None /\ req[c].dry /\ Return(c, "dry", None)
        \/ prev = None /\ ~req[c].dry /\ GoTo(c, "evidence")
  /\ UNCHANGED <<ledger, derived, req, rec, faults>>

StoreEvidence(c) == /\ evidence' = evidence \cup {c}
                    /\ UNCHANGED <<changes, index>>

(* Evidence.Put, before the transaction. *)
PutEvidence(c) ==
  /\ pc[c] = "evidence"
  /\ StoreEvidence(c)
  /\ GoTo(c, "read")
  /\ UNCHANGED <<ledger, req, rec, faults>>

wouldOverwriteSoT(old, r) ==
  \/ r.sot
  \/ r.fact # None /\ old.fact # None /\ r.fact # old.fact

(* Mutant: preserveSoT is left out. *)
canonicalPlain(r, old, seen) ==
  [sot |-> r.sot, fact |-> r.fact, seen |-> seen]

(* What ToRecord, or preserveSoT over the record found, will write. *)
canonical(r, old, seen) ==
  IF r.gen /\ old.sot
  THEN [sot |-> old.sot, fact |-> old.fact, seen |-> seen]
  ELSE [sot |-> r.sot, fact |-> r.fact, seen |-> seen]

(* GetRecordTx and the source-of-truth checks. *)
ReadRecord(c) ==
  LET old == record[req[c].res]
  IN /\ pc[c] = "read"
     /\ \/ /\ req[c].gen /\ old.sot /\ wouldOverwriteSoT(old, req[c])
           /\ Return(c, "forbidden", None)
           /\ UNCHANGED rec
        \/ /\ ~(req[c].gen /\ old.sot /\ wouldOverwriteSoT(old, req[c]))
           /\ rec' = [rec EXCEPT ![c] = canonical(req[c], old, old.rev)]
           /\ GoTo(c, "commit")
     /\ UNCHANGED <<ledger, derived, req, faults>>

-----------------------------------------------------------------------------
(* The transaction's writes *)

(* PromotePlaceholder writes the record whatever its state is;             *)
(* ensureEndpoint leaves a placeholder where the edge's other end is not   *)
(* known.  (That is the memory ledger; PostgreSQL refuses the placeholder, *)
(* which has no labels, and such a call ends in Fail.)                     *)
promoted(c) ==
  [x \in Resource |->
     IF x = req[c].res
     THEN [state |-> "ACCEPTED", sot |-> rec[c].sot, fact |-> rec[c].fact,
           rev |-> c]
     ELSE IF x = req[c].to /\ record[x].state = "NONE"
     THEN [NoRecord EXCEPT !.state = "PLACEHOLDER"]
     ELSE record[x]]

(* Mutant: PutIdempotency does not look whether its row went in. *)
WritesKeyUnchecked(c) ==
  /\ ~Enqueued(req[c].event)
  /\ record' = promoted(c)
  /\ revisions' = revisions \cup {c}
  /\ outbox' = outbox \cup {[event |-> req[c].event, rev |-> c]}
  /\ idem' = [idem EXCEPT ![idemKey(req[c])] = IF @ = None THEN c ELSE @]

(* Mutant: EnqueueOutbox ignores a conflict. *)
WritesOutboxLenient(c) ==
  /\ idem[idemKey(req[c])] = None
  /\ record' = promoted(c)
  /\ revisions' = revisions \cup {c}
  /\ outbox' = IF Enqueued(req[c].event) THEN outbox
               ELSE outbox \cup {[event |-> req[c].event, rev |-> c]}
  /\ idem' = [idem EXCEPT ![idemKey(req[c])] = c]

(* PromotePlaceholder, AppendRevision, EnqueueOutbox, PutIdempotency.      *)
Writes(c) ==
  /\ ~Enqueued(req[c].event)
  /\ idem[idemKey(req[c])] = None
  /\ record' = promoted(c)
  /\ revisions' = revisions \cup {c}
  /\ outbox' = outbox \cup {[event |-> req[c].event, rev |-> c]}
  /\ idem' = [idem EXCEPT ![idemKey(req[c])] = c]

Commit(c) ==
  /\ pc[c] = "commit"
  /\ Writes(c)
  /\ GoTo(c, "announce")
  /\ UNCHANGED <<derived, req, rec, faults>>

(* EnqueueOutbox meets its primary key: a database error, not an API one.  *)
OutboxConflict(c) ==
  /\ pc[c] = "commit"
  /\ Enqueued(req[c].event)
  /\ Return(c, "error", None)
  /\ UNCHANGED <<ledger, derived, req, rec, faults>>

(* Mutant: the 409 answer names the revision that was rolled back. *)
KeyConflictOwnRevision(c) ==
  /\ pc[c] = "commit"
  /\ ~Enqueued(req[c].event)
  /\ idem[idemKey(req[c])] # None
  /\ Return(c, "duplicate", c)
  /\ UNCHANGED <<ledger, derived, req, rec, faults>>

(* PutIdempotency inserts nothing and does not find its revision: 409, and *)
(* the call answers with the outcome the key stands for.                   *)
KeyConflict(c) ==
  /\ pc[c] = "commit"
  /\ ~Enqueued(req[c].event)
  /\ idem[idemKey(req[c])] # None
  /\ Return(c, "duplicate", idem[idemKey(req[c])])
  /\ UNCHANGED <<ledger, derived, req, rec, faults>>

-----------------------------------------------------------------------------
(* After the transaction *)

AnnounceChange(c, action) == /\ changes' = changes \cup {<<c, action>>}
                           /\ UNCHANGED <<evidence, index>>

(* Mutant: a failed append is ignored. *)
AnnounceBestEffort(c) ==
  /\ pc[c] = "announce"
  /\ changes' \in {changes, changes \cup {<<c, "resource.accepted">>}}
  /\ GoTo(c, IF req[c].to = None THEN "load" ELSE "announceEdges")
  /\ UNCHANGED <<ledger, evidence, index, req, rec, faults>>

Announce(c) ==
  /\ pc[c] = "announce"
  /\ AnnounceChange(c, "resource.accepted")
  /\ GoTo(c, IF req[c].to = None THEN "load" ELSE "announceEdges")
  /\ UNCHANGED <<ledger, req, rec, faults>>

AnnounceEdges(c) ==
  /\ pc[c] = "announceEdges"
  /\ AnnounceChange(c, "graph.edges_upserted")
  /\ GoTo(c, "load")
  /\ UNCHANGED <<ledger, req, rec, faults>>

(* GetRecord supplies the text of the document ... *)
LoadRecord(c) ==
  /\ pc[c] = "load"
  /\ rec' = [rec EXCEPT ![c].fact = record[req[c].res].fact]
  /\ GoTo(c, "index")
  /\ UNCHANGED <<ledger, derived, req, faults>>

IndexDocument(c) ==
  /\ index' = [index EXCEPT ![req[c].res] = [rev |-> c, text |-> rec[c].fact]]
  /\ UNCHANGED <<evidence, changes>>

(* ... and this call its revision. *)
IndexUpsert(c) ==
  /\ pc[c] = "index"
  /\ IndexDocument(c)
  /\ Return(c, "accepted", c)
  /\ UNCHANGED <<ledger, req, rec, faults>>

-----------------------------------------------------------------------------
(* A dependency fails or the process dies: the call ends in an error, and  *)
(* what it was doing may have been done all the same.                      *)
Fail(c) ==
  /\ pc[c] \notin {"idle", "done"}
  /\ faults < MaxFaults
  /\ faults' = faults + 1
  /\ Return(c, "error", None)
  /\ \/ UNCHANGED <<ledger, derived>>
     \/ pc[c] = "evidence" /\ StoreEvidence(c) /\ UNCHANGED ledger
     \/ pc[c] = "commit" /\ Writes(c) /\ UNCHANGED derived
     \/ pc[c] = "announce" /\ AnnounceChange(c, "resource.accepted")
                           /\ UNCHANGED ledger
     \/ pc[c] = "announceEdges" /\ AnnounceChange(c, "graph.edges_upserted")
                                /\ UNCHANGED ledger
     \/ pc[c] = "index" /\ IndexDocument(c) /\ UNCHANGED ledger
  /\ UNCHANGED <<req, rec>>

IntakeInit ==
  /\ record = [x \in Resource |-> NoRecord]
  /\ revisions = {}
  /\ idem = [k \in Name |-> None]
  /\ outbox = {}
  /\ evidence = {}
  /\ changes = {}
  /\ index = [x \in Resource |-> [rev |-> None, text |-> None]]
  /\ pc = [c \in Call |-> "idle"]
  /\ req \in [Call -> Request]
  /\ rec = [c \in Call |-> [sot |-> FALSE, fact |-> None, seen |-> None]]
  /\ answer = [c \in Call |-> NoAnswer]
  /\ faults = 0

CallStep(c) ==
  \/ Refuse(c) \/ LookupKey(c) \/ PutEvidence(c) \/ ReadRecord(c)
  \/ Commit(c) \/ OutboxConflict(c) \/ KeyConflict(c)
  \/ Announce(c) \/ AnnounceEdges(c) \/ LoadRecord(c) \/ IndexUpsert(c)

IntakeNext == \E c \in Call : Begin(c) \/ CallStep(c) \/ Fail(c)

IntakeSpec == IntakeInit /\ [][IntakeNext]_intakeVars

-----------------------------------------------------------------------------
(* Properties *)

Step == {"idle", "lookup", "evidence", "read", "commit", "announce",
         "announceEdges", "load", "index", "done"}

Status == {"none", "refused", "duplicate", "dry", "forbidden", "error",
           "accepted"}

IntakeTypeOK ==
  /\ record \in [Resource -> [state : {"NONE", "PLACEHOLDER", "ACCEPTED"},
                              sot : BOOLEAN, fact : Fact \cup {None},
                              rev : Call \cup {None}]]
  /\ revisions \subseteq Call
  /\ idem \in [Name -> Call \cup {None}]
  /\ outbox \subseteq [event : Name, rev : Call]
  /\ evidence \subseteq Call
  /\ changes \subseteq Call \X {"resource.accepted", "graph.edges_upserted"}
  /\ index \in [Resource -> [rev : Call \cup {None}, text : Fact \cup {None}]]
  /\ pc \in [Call -> Step]
  /\ req \in [Call -> Request]
  /\ rec \in [Call -> [sot : BOOLEAN, fact : Fact \cup {None},
                       seen : Call \cup {None}]]
  /\ answer \in [Call -> [status : Status, rev : Call \cup {None}]]
  /\ faults \in 0..MaxFaults

(* Intake is idempotent: however calls with the same key interleave, fail  *)
(* and retry, at most one of them commits.                                 *)
OneCommitPerKey ==
  \A c, d \in revisions : idemKey(req[c]) = idemKey(req[d]) => c = d

(* A replay reports the outcome of the call that committed: accepted and   *)
(* duplicate answers under one key all name one revision, and that         *)
(* revision is in the ledger with its outbox event and its evidence.       *)
ReplaySameOutcome ==
  \A c \in Call : answer[c].status \in {"accepted", "duplicate"} =>
    LET rev == answer[c].rev
    IN /\ rev \in revisions
       /\ idemKey(req[rev]) = idemKey(req[c])
       /\ rev \in evidence
       /\ [event |-> req[rev].event, rev |-> rev] \in outbox

(* The ledger is whole whatever failed: no two outbox rows share an event  *)
(* id, every revision has an outbox row, its evidence and its key, and a   *)
(* record's current revision is a committed one of that resource.          *)
LedgerIsWhole ==
  /\ \A p, q \in outbox : p.event = q.event => p = q
  /\ \A c \in revisions : /\ [event |-> req[c].event, rev |-> c] \in outbox
                          /\ c \in evidence
                          /\ idem[idemKey(req[c])] = c
  /\ \A x \in Resource : record[x].state = "ACCEPTED" =>
       record[x].rev \in revisions /\ req[record[x].rev].res = x

(* A call that answered "accepted" has told the change feed about the      *)
(* record and about its edges, and has left its resource in the index.     *)
AcceptedIsAnnounced ==
  \A c \in Call : answer[c].status = "accepted" =>
    /\ <<c, "resource.accepted">> \in changes
    /\ req[c].to # None => <<c, "graph.edges_upserted">> \in changes
    /\ index[req[c].res].rev # None

(* The commit of generated call c takes facts or authority away from the   *)
(* source-of-truth record x.                                               *)
Overwrites(c, x) ==
  /\ c \notin revisions /\ c \in revisions' /\ req[c].gen
  /\ record[x].sot /\ record[x].state = "ACCEPTED"
  /\ \/ ~record'[x].sot
     \/ record'[x].fact # record[x].fact

(* The source-of-truth checks leave exactly one gap: a generated call      *)
(* overwrites authoritative facts only if they were committed after it     *)
(* had read the record.                                                    *)
OverwriteOnlyByRace ==
  [][\A c \in Call, x \in Resource :
       Overwrites(c, x) => rec[c].seen # record[x].rev]_intakeVars

(* ADR 0005: generated observations make "no overwrite of source-          *)
(* authoritative facts".  No commit of a generated call takes facts or     *)
(* authority away from an accepted source-of-truth record.                 *)
NeverOverwritten == [][\A c \in Call, x \in Resource : ~Overwrites(c, x)]_intakeVars
=============================================================================
