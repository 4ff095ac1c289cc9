------------------------------- MODULE Export -------------------------------
(***************************************************************************)
(* Export of an organisation and import of the manifest into another one,  *)
(* of the same deployment or of one with the other store.                  *)
(*                                                                         *)
(* Build reads records, then the revisions of each, then the edges, each   *)
(* in a transaction of its own, while intakes and deletions commit.        *)
(* ImportInto is one transaction: PostgreSQL checks keys and rolls back,   *)
(* the in-memory store does neither, and no method of it fails.            *)
(*                                                                         *)
(* A resource has one parent edge at most per other end, whose id both     *)
(* stores derive from its ends.  Revisions are numbered as they commit.    *)
(* Of a record's tags it matters whether it has any: a manifest is JSON,   *)
(* in which no tags are left out, and a tags column is NOT NULL.           *)
(***************************************************************************)
EXTENDS Naturals, FiniteSets, FiniteSetsExt

CONSTANTS
  Item,        \* resources, numbered in the order of their ids
  Tagged,      \* the resources whose intakes carry tags
  RecordCap,   \* records a manifest may hold (10000 in the code)
  MaxCommits,  \* bound on intakes and deletions
  MaxImports   \* bound on imports

ASSUME ExportAssumption ==
  /\ Item \subseteq Nat
  /\ Tagged \subseteq Item
  /\ {RecordCap, MaxCommits, MaxImports} \subseteq Nat

VARIABLES
  exStore,   \* the exporting deployment's store: "postgres" or "memory"
  exInto,    \* the importing deployment's
  exLedger,  \* the exported organisation: records, revisions, edges
  exBuild,   \* Build: where it is, and the records still to be read
  exFile,    \* the manifest so far
  exTarget,  \* the organisation imported into, with the tuples requested
  exImport,  \* the outcome of the last import
  exImports, \* history: imports so far
  exCommits, \* history: commits in the exported organisation so far
  exRaced,   \* history: one of them while Build was reading
  exDeleted  \* history: resources deleted when Build listed the records

exVars == <<exStore, exInto, exLedger, exBuild, exFile, exTarget, exImport,
            exImports, exCommits, exRaced, exDeleted>>

Ends == {p \in Item \X Item : p[1] # p[2]}
Absent == [state |-> "NONE", rev |-> 0, tags |-> FALSE]
Placeholder == [state |-> "PLACEHOLDER", rev |-> 0, tags |-> FALSE]
NoLink == [state |-> "NONE", sync |-> FALSE]
Empty == [rec |-> [x \in Item |-> Absent], revs |-> {}, edge |-> [p \in Ends |-> NoLink]]

Present(l) == {x \in Item : l.rec[x].state # "NONE"}
Links(l) == {p \in Ends : l.edge[p].state # "NONE"}
Syncs(e) == e.state = "ACTIVE" /\ e.sync
isTomb(state) == state \in {"TOMBSTONED", "PURGE_PENDING", "PURGED"}
Reading == exBuild.pc \in {"revisions", "edges"}

-----------------------------------------------------------------------------
(* The exported organisation goes on *)

CommitWith(l) ==
  /\ exCommits < MaxCommits
  /\ exCommits' = exCommits + 1
  /\ exLedger' = l
  /\ exRaced' = (exRaced \/ Reading)
  /\ UNCHANGED <<exStore, exInto, exBuild, exFile, exTarget, exImport, exImports,
                 exDeleted>>

(* An intake, with a parent edge unless x = y.  An unknown parent gets a   *)
(* placeholder, whose missing tags PostgreSQL refuses with the intake.     *)
IntakeCommits(x, y, sync) ==
  LET rev == exCommits + 1
      rec == [exLedger.rec EXCEPT ![x] =
                [state |-> "ACCEPTED", rev |-> rev, tags |-> x \in Tagged]]
  IN /\ exStore = "postgres" => rec[y].state # "NONE"
     /\ CommitWith(
          [rec |-> [rec EXCEPT ![y] = IF @.state = "NONE" THEN Placeholder ELSE @],
           revs |-> exLedger.revs \cup {[res |-> x, rev |-> rev]},
           edge |-> [p \in Ends |-> IF p = <<x, y>> THEN [state |-> "ACTIVE", sync |-> sync]
                                    ELSE exLedger.edge[p]]])

(* A deletion: a revision of its own, and the record and its edges are     *)
(* tombstoned.                                                             *)
DeletionCommits(x) ==
  /\ exLedger.rec[x].state # "NONE"
  /\ CommitWith([rec |-> [exLedger.rec EXCEPT ![x].state = "TOMBSTONED",
                                              ![x].rev = exCommits + 1],
                 revs |-> exLedger.revs \cup {[res |-> x, rev |-> exCommits + 1]},
                 edge |-> [p \in Ends |-> LET e == exLedger.edge[p] IN
                    IF x \in {p[1], p[2]} /\ e.state = "ACTIVE"
                    THEN [e EXCEPT !.state = "TOMBSTONED"] ELSE e]])

-----------------------------------------------------------------------------
(* Build *)

(* The query of the PostgreSQL adapter leaves the lifecycle state and the  *)
(* tags out.                                                               *)
ListedRecord(r) == IF exStore = "postgres" /\ r.state # "NONE"
                   THEN [r EXCEPT !.state = "", !.tags = FALSE] ELSE r

(* Mutant: the listing leaves deleted records out. *)
ListRecordsAlive ==
  /\ exBuild.pc = "idle"
  /\ LET rec == [x \in Item |-> IF isTomb(exLedger.rec[x].state) THEN Absent
                  ELSE ListedRecord(exLedger.rec[x])]
         found == {x \in Item : rec[x].state # "NONE"}
     IN IF Cardinality(found) > RecordCap
        THEN exBuild' = [pc |-> "failed", todo |-> {}] /\ UNCHANGED exFile
        ELSE /\ exBuild' = [pc |-> "revisions", todo |-> found]
             /\ exFile' = [exFile EXCEPT !.rec = rec]
  /\ exDeleted' = {x \in Item : isTomb(exLedger.rec[x].state)}
  /\ UNCHANGED <<exStore, exInto, exLedger, exTarget, exImport, exImports, exCommits,
                 exRaced>>

(* ListRecords, one over the cap to tell whether there are more. *)
ListRecords ==
  /\ exBuild.pc = "idle"
  /\ LET rec == [x \in Item |-> ListedRecord(exLedger.rec[x])]
         found == Present(exLedger)
     IN IF Cardinality(found) > RecordCap
        THEN exBuild' = [pc |-> "failed", todo |-> {}] /\ UNCHANGED exFile
        ELSE /\ exBuild' = [pc |-> "revisions", todo |-> found]
             /\ exFile' = [exFile EXCEPT !.rec = rec]
  /\ exDeleted' = {x \in Item : isTomb(exLedger.rec[x].state)}
  /\ UNCHANGED <<exStore, exInto, exLedger, exTarget, exImport, exImports, exCommits,
                 exRaced>>

(* ListRevisions of the next record, in the order of the ids. *)
ListRevisions ==
  /\ exBuild.pc = "revisions"
  /\ IF exBuild.todo = {}
     THEN exBuild' = [exBuild EXCEPT !.pc = "edges"] /\ UNCHANGED exFile
     ELSE LET x == Min(exBuild.todo) IN
          /\ exBuild' = [exBuild EXCEPT !.todo = @ \ {x}]
          /\ exFile' = [exFile EXCEPT !.revs = @ \cup {v \in exLedger.revs : v.res = x}]
  /\ UNCHANGED <<exStore, exInto, exLedger, exTarget, exImport, exImports, exCommits,
                 exRaced, exDeleted>>

(* ListEdges, the dead ones too, and the manifest is sealed.  (Sources are *)
(* read before it, evidence is measured after it; neither is read again.)  *)
ListEdgesAndSeal ==
  /\ exBuild.pc = "edges"
  /\ exBuild' = [exBuild EXCEPT !.pc = "sealed"]
  /\ exFile' = [exFile EXCEPT !.edge = exLedger.edge]
  /\ UNCHANGED <<exStore, exInto, exLedger, exTarget, exImport, exImports, exCommits,
                 exRaced, exDeleted>>

(* A read fails and so does the export; the caller may ask for another. *)
BuildFails ==
  /\ Reading \/ exBuild.pc = "failed"
  /\ exBuild' = [pc |-> "idle", todo |-> {}]
  /\ exFile' = Empty
  /\ exRaced' = FALSE
  /\ exDeleted' = {}
  /\ UNCHANGED <<exStore, exInto, exLedger, exTarget, exImport, exImports, exCommits>>

-----------------------------------------------------------------------------
(* ImportInto *)

(* Records first, in PostgreSQL with ACCEPTED for a state that is not      *)
(* given; the tombstones replayed after them have the same states.         *)
ImportedRecords(l, m) ==
  [x \in Item |-> IF m.rec[x].state = "NONE" THEN l.rec[x]
                  ELSE IF m.rec[x].state = "" /\ exInto = "postgres"
                  THEN [m.rec[x] EXCEPT !.state = "ACCEPTED"]
                  ELSE m.rec[x]]

(* UpsertEdge: an active edge stays so and takes the new metadata. *)
ImportedEdges(l, m) ==
  [p \in Ends |-> IF m.edge[p].state = "NONE" THEN l.edge[p]
                  ELSE IF l.edge[p].state = "ACTIVE"
                  THEN [l.edge[p] EXCEPT !.sync = m.edge[p].sync]
                  ELSE m.edge[p]]

(* Mutant: the tuples of edges that are new to the organisation only. *)
RequestedForNew(l, m) == {p \in Ends : Syncs(m.edge[p]) /\ l.edge[p].state = "NONE"}

(* EnqueueForEdge; the tuples the manifest lists are the same ones again. *)
Requested(l, m) == {p \in Ends : Syncs(m.edge[p])}

(* Records without tags, for which NULL goes to PostgreSQL. *)
Untagged(m) == {x \in Present(m) : ~m.rec[x].tags}

(* Mutant: edges go in before the records. *)
KeysHoldEdgesFirst(l, m) ==
  /\ Untagged(m) = {}
  /\ l.revs \cap m.revs = {}
  /\ \A p \in Links(m) : {p[1], p[2]} \subseteq Present(l)

(* The NOT NULL tags, the primary key of revisions and the foreign keys of *)
(* edges.                                                                  *)
KeysHold(l, m) ==
  /\ Untagged(m) = {}
  /\ l.revs \cap m.revs = {}
  /\ \A p \in Links(m) : {p[1], p[2]} \subseteq Present(l) \cup Present(m)

(* The hash is checked, the manifest re-sealed for the target and loaded.  *)
ImportExport ==
  /\ exBuild.pc = "sealed"
  /\ exImports < MaxImports
  /\ exImports' = exImports + 1
  /\ LET ok == exInto = "memory" \/ KeysHold(exTarget, exFile) IN
     /\ exImport' = IF ok THEN "imported" ELSE "rolledback"
     /\ exTarget' = IF ~ok THEN exTarget ELSE
          [rec |-> ImportedRecords(exTarget, exFile),
           revs |-> exTarget.revs \cup exFile.revs,
           edge |-> ImportedEdges(exTarget, exFile),
           asked |-> exTarget.asked \cup Requested(exTarget, exFile)]
  /\ UNCHANGED <<exStore, exInto, exLedger, exBuild, exFile, exCommits, exRaced,
                 exDeleted>>

(* An edge of the target is deleted; the delete that is enqueued with it   *)
(* ends the request for its tuple.                                         *)
TargetDeletes(p) ==
  /\ exTarget.edge[p].state = "ACTIVE"
  /\ exImports < MaxImports
  /\ exTarget' = [exTarget EXCEPT !.edge[p].state = "TOMBSTONED", !.asked = @ \ {p}]
  /\ UNCHANGED <<exStore, exInto, exLedger, exBuild, exFile, exImport, exImports,
                 exCommits, exRaced, exDeleted>>

ExportInit ==
  /\ exStore \in {"postgres", "memory"}
  /\ exInto \in {"postgres", "memory"}
  /\ exLedger = Empty
  /\ exBuild = [pc |-> "idle", todo |-> {}]
  /\ exFile = Empty
  /\ exTarget = [rec |-> Empty.rec, revs |-> {}, edge |-> Empty.edge, asked |-> {}]
  /\ exImport = "none"
  /\ exImports = 0
  /\ exCommits = 0
  /\ exRaced = FALSE
  /\ exDeleted = {}

ExportNext ==
  \/ \E x, y \in Item : \E sync \in BOOLEAN : IntakeCommits(x, y, sync)
  \/ \E x \in Item : DeletionCommits(x)
  \/ ListRecords \/ ListRevisions \/ ListEdgesAndSeal \/ BuildFails
  \/ ImportExport
  \/ \E p \in Ends : TargetDeletes(p)

ExportSpec == ExportInit /\ [][ExportNext]_exVars

-----------------------------------------------------------------------------
(* Properties *)

(* A manifest is closed, every end of its edges and every record's current *)
(* revision in it, unless something was committed between Build's reads.   *)
ClosedUnlessRaced ==
  exBuild.pc = "sealed" /\ ~exRaced =>
    /\ \A p \in Links(exFile) : {p[1], p[2]} \subseteq Present(exFile)
    /\ \A x \in Present(exFile) :
         exFile.rec[x].rev = 0 \/ [res |-> x, rev |-> exFile.rec[x].rev] \in exFile.revs

(* An import is rolled back for three reasons only: Build raced a commit,  *)
(* the target has the manifest's revisions already, or a record has no     *)
(* tags, as none has in a manifest of a PostgreSQL deployment.             *)
RolledBackOnlyFor ==
  exImport = "rolledback" =>
    \/ exRaced
    \/ exTarget.revs \cap exFile.revs # {}
    \/ exInto = "postgres" /\ Untagged(exFile) # {}

(* What was deleted when Build listed the records is deleted where it was  *)
(* imported, unless it came from PostgreSQL, whose listing has no states.  *)
DeletionsTravel ==
  exImport = "imported" /\ exStore = "memory" =>
    \A x \in exDeleted : isTomb(exTarget.rec[x].state)

(* What an import leaves in the target is whole: an active edge to inherit *)
(* through has its tuple requested, even where the edge had been imported  *)
(* and deleted before, and unless Build raced, ends and current revisions  *)
(* are there.                                                              *)
ImportedIsWhole ==
  /\ \A p \in Ends : Syncs(exTarget.edge[p]) => p \in exTarget.asked
  /\ ~exRaced =>
       /\ \A p \in Links(exTarget) : {p[1], p[2]} \subseteq Present(exTarget)
       /\ \A x \in Present(exTarget) : exTarget.rec[x].rev = 0 \/
            [res |-> x, rev |-> exTarget.rec[x].rev] \in exTarget.revs

(* A transfer is sound: the manifest is closed unless Build raced, what it *)
(* is imported into is whole, also the second time, what is deleted stays  *)
(* so, and nothing else makes the import fail.                             *)
TransferIsSound ==
  ClosedUnlessRaced /\ RolledBackOnlyFor /\ DeletionsTravel /\ ImportedIsWhole

(* "Org export manifests ... round-trip graph_edges": between two          *)
(* organisations of one deployment, the first import of a manifest that    *)
(* nothing raced brings its edges.                                         *)
EdgesRoundTrip ==
  exInto = exStore /\ exImport # "none" /\ ~exRaced /\ exImports = 1 =>
    \A p \in Links(exFile) : exTarget.edge[p].state # "NONE"
=============================================================================
