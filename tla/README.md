# Context Fabric in TLA+

A TLA+ development kept beside the Context Fabric server (the Go module under
`src/`). It models the parts of the server in which several actors touch the
same state (intake calls, deletion sagas, background workers, subscribers),
model-checks them on small instances with TLC, and proves the central safety
properties for every value of the constants with TLAPS.

`PROJECT.json` is the machine-readable index: the components, the runs, the
source lines each definition stands for, a mutant for every checked property,
the findings, the hazards and the theorems.

## 1. The system

Context Fabric keeps governed context records for organisations. A source sends
an event; **intake** stores its raw evidence, maps it to a record and writes the
record, a revision, graph edges, an outbox row and an idempotency row in one
ledger transaction. **Workers** move the outbox to JetStream and the search
index, and edge inheritance to OpenFGA. **Retrieval** searches the index,
authorises, and hydrates from the ledger. **Deletion** tombstones a record and
cleans up behind it. A **change feed** announces what happened, by cursor and by
signed webhooks.

| Component | State | Operations | Talks to | What makes it correct |
|---|---|---|---|---|
| Intake (`internal/ingest`, `application/service.go`) | none between calls | `Intake`, `IntakeBatch` | ledger, evidence, change feed, index | one commit per idempotency key; a replay reports the committed outcome; facts from a source of truth are not overwritten by generated ones; accepted means announced |
| Ledger (`adapters/postgres/store.go`, `migrations/`) | `resources`, `revisions`, `records`, `outbox`, `graph_edges`, `authz_tuple_outbox`, `consumer_receipts`, `change_events` | statements run by the other parts | PostgreSQL | constraints and conflict clauses that keep the tables consistent |
| AuthZ synchronisation (`internal/authzsync`, `application/worker.go`) | `authz_tuple_outbox`, OpenFGA tuples | `EnqueueForEdge`, `authzOnce`, `reconcileOnce` | ledger, OpenFGA | no inheritance nobody asked for, none lost, none kept after a revocation |
| Relay and projection (`application/worker.go`, `adapters/nats/bus.go`) | outbox leases, stream, inbox receipts, index | `relayOnce`, `consumeOnce`, `projectPayload` | ledger, JetStream, index | at-least-once delivery, acknowledged only when recorded |
| Deletion (`internal/deletion`) | lifecycle state, evidence, manifest | `Run` | ledger, index, evidence store, legal holds | visibility goes first, evidence goes, holds are honoured, the manifest is true |
| Retrieval (`internal/retrieval`, `internal/policy`) | none | `Search`, `Graph`, `Brief`, `Get` | index, OpenFGA, policy, ledger | nothing tombstoned or forbidden is returned, no edge without its ends, nothing left out silently |
| Change feed and webhooks (`internal/changes`) | `change_events`, subscriptions, the in-memory delivery log | `Append`, `List`, `UpsertWebhook`, `DeliverPending`, `Replay` | ledger, subscribers | a cursor misses nothing; every event is pushed or dead-lettered |
| OpenFGA, NATS, S3 adapters | external | `WriteTuple`, `Publish`, `Put`, ... | network | idempotent writes, deduplication, version deletes |
| Mapping (`internal/mapping`) | specs | `Apply` | intake | the ceilings of a registration are never exceeded; inheritance only from listed parents |
| Quota (`internal/quota`, `enforceQuota`) | token buckets, override cache | `Allow`, `SetOrgLimits` | application service | a limit is a limit, and the one that was stored |
| Authentication (`internal/authn`, credential stores) | JWKS and discovery cache, agent keys | `Authenticate`, create, rotate, revoke | identity provider, all entry points | only genuine and current tokens and keys pass; a rotation retires and never locks out |
| AuthZ gate (`application/authz_gate.go`) | none | `requireManage`, `requireIngest`, ... | OpenFGA | nobody administers without having held a relation |
| Sources (`RegisterSource`, `RotateSourceSecret`) | `sources`, `mapping_specs` | register, rotate, put mapping | ledger, mapping | what was answered is what is stored |
| Export and import (`internal/export`) | none | `Build`, `ImportInto` | ledger | the manifest is closed, the import whole, deletions survive |
| Memory adapters | maps, one lock per method | the ledger's, index's and evidence store's operations | demo profile | same behaviour as PostgreSQL |
| Migrations (`internal/migrate`) | `schema_migrations` | `Run`, `CheckApplied`, `Bootstrap` | PostgreSQL, readiness probe | every file executed, none over a newer one |
| Processes (`cmd/context-fabric`, `RunWorker`) | readiness, listener, loops | start, drain, stop, shut down | all | no work is cut off by an orderly exit |
| HTTP and MCP handlers, configuration, connectors, audit, observability, conformance suite, SDK, deploy files | none of their own | decoding, wiring, reporting | application service | |

What is hard in it: transactions under READ COMMITTED whose reads are not locked;
leases that run out under a slow worker; a dependency that fails after it has
done what it was asked; processes that die between two steps; steps of a saga
between which nothing is locked; limits (batch sizes, list limits, delivery
counts, log lengths) that are reached silently. Section 8 and the `hazards` of
`PROJECT.json` list these line by line.

## 2. The modules

A specification's `MC` module gives TLC its small sets and symmetries; a `Proofs`
module holds its theorems: one of its own for each of the larger specifications,
`AccessProofs` and `ServiceProofs` for the smaller ones, a part each. Three `MC` modules put several
components into one run: `MCStores` those that race on the stores, `MCWorkers` the background loops, with
liveness, and `MCService` the operations behind the API.

| Specification | Models | Proofs |
|---|---|---|
| `AuthzSync` | inheritance tuples: enqueue, claim, apply, mark, reconcile | `AuthzSyncProofs` |
| `Intake` | concurrent intake calls and their failures | `IntakeProofs` |
| `Projection` | outbox relay, JetStream, consumers, inbox, index | `ProjectionProofs` |
| `Deletion` | the saga against intakes, projections, searches, holds | `DeletionProofs` |
| `Retrieval` | search and graph reads against grants, intakes, deletions | `RetrievalProofs` |
| `ChangeFeed` | appends and cursor readers | `ChangeFeedProofs` |
| `Webhooks` | delivery passes; `EXTENDS ChangeFeed`, so feed and passes run together | `ChangeFeedProofs` |
| `Quota` | token bucket, cached limits, concurrent refreshes | `AccessProofs` |
| `Credentials` | agent keys in PostgreSQL and in memory, rotation by concurrent calls | `AccessProofs` |
| `KeyRing` | the abstract store of keys that `Credentials` implements | `AccessProofs` |
| `Identity` | the authentication chain, the discovery and JWKS cache | `AccessProofs` |
| `Gate` | scopes and relations in front of every operation | `AccessProofs` |
| `Sources` | registration, signing secret and mapping of a source | `ServiceProofs` |
| `Mapping` | `Apply`: grades, ceilings, edges | `ServiceProofs` |
| `Export` | building a manifest and importing it | `ServiceProofs` |
| `MemoryLedger` | the in-memory ledger, method by method | `ServiceProofs` |
| `Pool` | connections and row locks | `ServiceProofs` |
| `Migrate` | migration runs and the readiness probe | `ServiceProofs` |
| `Lifecycle` | how a process ends | `ServiceProofs` |

Conventions: a definition has the name of the function it models where TLA+
allows it. `Fail`, `...Error`, `Crash` and `Restart` actions are failures; all of
them count against a bound (`MaxFaults`, `MaxPipeFaults`, `MaxSagaFaults`, `MaxReadFaults`, `MaxHookFaults`, ...), and each allows what was being done
to have been done all the same. Time is a number only where durations are compared
(`Quota`, `Identity`, `MemoryLedger`); elsewhere an action such as
`LeaseExpires` lets a deadline pass at any moment, so every order of deadlines
that the real clock allows is explored. Variables marked "history" are
not in the program; no guard reads them. Definitions under a comment that
begins "Mutant:" are not part of the model: each is a plausible bug that one of
the properties rejects (section 5).

### 2.1 AuthzSync

| State | Code |
|---|---|
| `edge` | `graph_edges` rows with predicate `parent`: lifecycle, `sync_authz`, creation order |
| `outbox` | `authz_tuple_outbox`: status, attempts, and `due` for "`next_attempt` reached and no lease" |
| `tuples` | OpenFGA |
| `batch`, `cur` | what `authzOnce` holds in local variables: claimed rows, and the row tried but not yet marked |
| `intake`, `deleter` | transactions of intake and deletion between their unlocked read and their commit |
| `recon` | `reconcileOnce`'s loop position |

`UpsertEdgeSelect`/`UpsertEdgeCommit` are the two halves of `UpsertEdge` with the
`EnqueueForEdge` that follows in the same transaction: the SELECT takes no lock,
so what it found may be stale. `DeleteListEdges`/`DeleteCommit` are the saga's
edge part, where `ListEdges` runs on another connection than the transaction.
`ClaimAuthzTuples`, `ApplyOk`/`ApplyError`, `MarkAuthzTupleApplied`/`Failed` are
`authzOnce`; `TimePasses` ends a lease or a backoff. `Reconcile...` are the steps
of `reconcileOnce`, each of which is a separate query or call.

A row is never deleted in the code; the model lets the place of an applied row
that nobody holds be used again (`Reusable`), and the constant `Gen` bounds how many
rows of one operation and edge coexist.

### 2.2 Intake

| State | Code |
|---|---|
| `record`, `revisions`, `idem`, `outbox` | the ledger tables |
| `evidence` | the evidence store |
| `changes`, `index` | change feed and search index |
| `pc`, `req`, `rec`, `answer` | a call's position, request, the record it is about to write, and its response |

A call is `Begin`, `LookupKey` (`GetIdempotency`), `PutEvidence`, `ReadRecord`
(`GetRecordTx` and the source-of-truth checks), then `Commit`, `OutboxConflict` or
`KeyConflict`, then `Announce`, `AnnounceEdges`, `LoadRecord`, `IndexUpsert`. The
writes of the transaction are one step: from `PromotePlaceholder`'s row lock on,
conflicting transactions wait. `GetRecordTx` is a step of its own because it
locks nothing. `Refuse` stands for every refusal that leaves nothing behind
(authentication, quota, unknown source, signature, replay window) and for the
mapping's refusal after the evidence was stored. Every call mints its own
revision id, so a call stands for its revision and its evidence version.

One organisation is modelled; row level security separates organisations. Titles
and classifications are one `Fact`, since `wouldOverwriteSoT` treats them alike.

The placeholder that an edge to an unknown resource makes (`promoted`, `ensureEndpoint`) has no
labels, and on PostgreSQL the NOT NULL `tags` column refuses it (`ingest.go:547`,
`001_init.sql:48`), so that such a call fails there. The model stores it, as the memory ledger does;
PostgreSQL's behaviours are a part of the model's, and every property holds of them too.

### 2.3 Projection

`eventOutbox` (with `due` for "not leased"), `stream` (JetStream's messages and delivery
counts), `dedup` (its duplicate window), `inbox` (`consumer_receipts`), `searchIndex`.
`relaying`, `sent` and `job` are the loops' local variables.

`ClaimOutbox`, `Publish`, `RelayProjected`, `MarkOutboxPublished` are `relayOnce`;
`Fetch`, `Ack`, `Nak` are `consumeOnce`; `HasInbox`, `UpsertDocument`, `PutInbox` are
`projectPayload`, which both run. A row is `<<organisation, event id>>`, because ids may
come from clients while claiming, deduplication and marking use the id alone.
JetStream is external: it is modelled by the options and calls of
`adapters/nats/bus.go` (message id deduplication, explicit acknowledgement, redelivery,
`MaxDeliver`). A consumer fetches one message at a time in the model.

Two ways to lose an event are in the code and in the model, and the properties name both:
`DeliveriesSpent`, `MaxDeliver` deliveries that all failed, and `SharesId`, another
organisation's event of the same id. `NeverSilentlyLost` is what the documents promise instead (section 6).

### 2.4 Deletion

One resource: `record`, `revisions`, `evidence`, `index`, `held` (a legal hold). The
saga's position and its listed evidence are in `saga`, those of the intakes in `incoming`. `GetRecord`, `Tombstone`,
`enumerate`, `IndexDelete`, `HasLegalHold`, `DeleteVersion`, `Erased`, `Finish` are the
steps of `Run` in order. `EnumerateError` and the failing branch of `Finish` are errors the
code swallows, `DeleteVersionError` the one that turns the outcome to blocked, and
`SagaFails` covers those it returns, and a crash: nothing resumes a saga.
`SearchCandidates`/`Hydrate` are `retrieval.Search` for this resource.

Around the saga intakes commit, `IndexUpsert` writes the document of a committed
intake at any time and any number of times (that is what `Projection` shows the
relay and the consumers may do), holds come and go.

`EvidenceListed` tells the two ledgers apart: the memory ledger's `ListRevisions`
returns evidence references, the PostgreSQL one does not select the column. The
erase loop is checked with TRUE, since with FALSE it never runs; `Deletion_purge`
has FALSE.

### 2.5 Retrieval

| State | Code |
|---|---|
| `ledger`, `edges`, `readable` | `resources` (lifecycle, classification), active `graph_edges`, and OpenFGA's answer to `can_read` for the principal |
| `pc`, `req`, `seeds`, `cites` | where the request is, depth and cap after clamping, search hits, citations |
| `asking`, `allowed` | a `BatchCheck` under way |
| `level`, `frontier`, `hop` | `authzOK`, `discovery` and `frontier`: a node's level is the hop that found it |
| `toHydrate`, `nodes`, `links`, `truncated` | hydration and the answer |
| `known`, `quiet` | history: everything that was readable, retrievable or linked since the request began, and whether anything changed or failed |

`Search` (get and brief are searches by id) and `Graph` begin a request; `Deny` is any of
the gates. `CheckOne` is one answer of a batch: the native batch is one call to OpenFGA,
but its fallback is one call per resource, so the answers of one batch may
be of different moments. An entry with an error is denied, an error of the call ends
the request, the graph or the hop (`CallFails`, `SeedsFail`, `HopFails`). `ListHop` and
`AllowHop` are the two calls of a hop, `Fill` hydrates in discovery order, `FinalEdges` and
`Return` filter edges and cap nodes. `Grant`, `Revoke`, `Ingest`, `Connect`, `Delete`
happen between any two of these.

Ids are numbers because the code sorts by id. Predicates are folded: `edges` are
those the request asks for, at most one between two nodes in a direction. `VisibleGraph` is
the reference definition the traversal is compared with: readable nodes at the
end of a walk of at most `depth` steps over readable nodes. With the "minimize latency"
consistency OpenFGA may answer from a cache; "readable during the request" then reaches
back by the age of that cache.

### 2.6 ChangeFeed and Webhooks

An event is its place in the order `(occurred_at, id)`. `AppendChange` stamps it,
`CommitChange` makes it visible, so commit order and place order differ. `Poll` is a
client's `List` with the cursor it was given last. One clock stamps all events: with
clocks that disagree, an event could also be stamped behind a cursor, which is
the same gap reached another way.

`Webhooks` adds `stored` (subscriptions in the database), `subs` and `deliv` (the process's
maps), and the passes. `StartPass`, `ListPage`, `Walk` are `DeliverPending`;
`PushDuplicate`, `PushDeclined`, `PostOk`/`PostFails`, `RecordDelivery` are `pushOne`.
Two passes exist because `webhookLoop` and `Drain` may run at once. Restarts lose
`subs` and `deliv`, as in the code. `tried` is history: the pushes that failed since the
process started. What a dead letter means is stated with it and not with the log, because the
log is trimmed, and a dead entry then outlives those of the pushes before it.

### 2.7 Quota

A call of `enforceQuota` runs through `EnforceQuota` (is the cached limit fresh?), `GetQuotas`,
`CacheQuota`, `SetOrgLimits` and `Allow`; the first four are `refreshOrgQuota`, which takes its
two locks one after the other. An organisation's limits are one record, as the code stores and compares them: `own` is
the operation observed, `other` stands for the rest, so a change of another operation's limit resets this
one's bucket too. `EvictIdle` is the cleaning of the bucket map, `SetQuotas` an administrator. No relation between rate,
burst and idle time is assumed: an evicted or a dropped bucket comes back full.

`qWindow` is history: a window of observation begins with a token (`StartWindow` ends one, at any moment) and counts what
was `spent` and `earned` since, and how often the bucket was `evicted` or `reset`.

### 2.8 Credentials and KeyRing

`Credentials` has both stores. In PostgreSQL a rotation is a transaction whose UPDATE takes a
snapshot (`RotateBegin`), locks and rechecks rows one by one (`RotateLock`) and then inserts and commits
(`RotateCommit`) or is rolled back; in memory it copies the ids, revokes them one by
one and creates the new key, each under a lock of its own. `KeyRing` is what a caller
may rely on: a key is issued once, works until withdrawn, and a rotation replaces
keys of one agent in a single step. `ImplementsKeyRing` maps the active rows to the ring.

### 2.9 Identity

`AuthenticateHeader`, `AuthenticateOpaque`, `AuthenticateJWT` are the chain's three ways; a JWT then goes
through `ensureMeta` (`MetaFresh`, `MetaFetch`, `MetaFails`), `ensureJWKS` (`JwksFresh`,
`JwksFetch`, `JwksStore`, `JwksFails`), and `Verify`. Fetching and storing are two steps, so
answers of concurrent requests may be stored in either order. `fetchedAt` is one
variable, as in the code. The provider withdraws and publishes keys at any time. (`docs/threat-model/README.md:28` also
names an `azp` check; the code has none, and neither has the model.)

### 2.10 Gate, Sources, Mapping

`Gate` has one call at a time with any tuples of its principal; `CheckRelation` is one of the
three checks and `TupleChanges` happens between them. A check fails in two ways: the call fails and so does the single
check after it (`CheckFails`, the caller gets an error), or the answer's entry holds an error or is missing, which
`client.go:152` reads as "not allowed" (`CheckEntryFails`).

`Sources` numbers registrations and rotations; `srcRow` says whose columns, whose secret, whose `identity` (`system`,
`mapping_spec_id`) and whose `limits` (ceilings, replay window, allow-lists) `GetSource` returns, and `answered` what the
callers were told. `StoredSource` is what an upsert leaves: all of it in memory; in PostgreSQL there are no columns for the
limits, and a conflict updates neither `system` nor `mapping_spec_id` (`store.go:377`-`388`).

`Mapping` runs `Apply` once, for a source in either store. `registered` is the registration as it was answered, `given` the
ceilings that intake builds from the source it reads back (`SourceCeilings`, `ingest.go:176`-`194`): in
PostgreSQL the trust tier, `source_of_truth`, `internal`, any record type and an empty allow-list, so that no mapping
of a source stored there synchronises a parent. Claims, edge entries and visibility
references are chosen where the code evaluates its path expressions, and the
loop over entries is compared with a definition over the set of what was asked for.

### 2.11 Export and MemoryLedger

`Export` reads records, revisions of each and edges in separate steps while intakes and
deletions commit; `ImportExport` is the import's transaction. Exporting and importing deployment have a store each, `exStore`
and `exInto`. `ListedRecord` is what a listing returns: PostgreSQL's `ListRecords` selects neither `lifecycle_state`
nor `tags` (`store.go:160`-`163`). `KeysHold` are the constraints for which PostgreSQL rolls an import back: the revisions'
primary key, the edges' foreign keys, and the NOT NULL `tags`, for which a record without labels sends NULL. A
manifest is JSON, which leaves empty labels out, so one untagged record of a memory deployment has the same effect; memory checks none of these.
A behaviour has one manifest, imported any number of
times: `ImportedIsWhole` is about importing the same export again, not about mixing two
exports in one target.

`MemoryLedger` takes one step per method, since the
store locks per method and its transaction is a no-op. A deletion keeps the copies of the edges it listed: `TombstoneEdge` changes
the edge as it is now (the method looks it up by id, `memory/ledger.go:654`), and `EnqueueForEdge` goes by the flag of the copy
(`deletion.go:136`-`151`); `memRaced` is history: edges upserted in between. A tuple row's `late` is history too: some
worker marked a failure on it after its own lease had ended.

### 2.12 Pool, Migrate, Lifecycle

`Pool`: an intake uses one connection and locks its own row and perhaps its parent's; a deletion
locks its row and then needs a second connection. (`InsertParent` lets a placeholder wait for its row and succeed; on
PostgreSQL it fails at once, see 2.2, which only takes waits away.) PostgreSQL's deadlock detection
is external (`DeadlockDetected`).

`Migrate`: look up, execute and record are three steps of each
run. `Replaces` is the set of files that define one object, as `claim_outbox_batch` is defined by
005, 006 and 008. `roleExists` says whether the database has the role `context_gateway`, which no migration creates
(`RoleCreated` is the set-up outside the code); without it `grantPrivilegesSQL` grants nothing and
succeeds (`migrate.go:32`-`35`), and the run ends at `ungranted`, though it prints "privileges ensured" like any other. Grants inside
the migration files are not counted.

`Lifecycle`: the signal, the goroutine that shuts the server down, the main
goroutine, the loops and `RunWorker` side by side; `CleanupEnds` waits for connections in use
because pgxpool's `Close` does. `lifeStore` is the ledger, because the drain asks it for pending rows without a tenant
(`PendingListed`): the memory ledger lists them all, PostgreSQL's row level security, forced on the owner too, none
(`store.go:276`-`309`, `001_init.sql:360`), so that there the drain ends after one pass. `drainLeft` is history: what that
pass may have left behind.

## 3. What the runs check

| Run | Instance | Result |
|---|---|---|
| `Store_races` | the components of the next table, each on its own | all hold |
| `Workers_live` | tuples: one edge, 1 worker, reconciler, 2 faults; projection: 1 event, 2 relays, 1 consumer, `MaxDeliver` 2, 3 faults; webhooks: 2 events, 2 passes, limit 1, 2 attempts, a replay, 2 faults; fairness | `ActiveEdgeConverges`, `OutboxDrains`, `AcceptedIsProjected`, `EventIsPushed` hold |
| `Service_operations` | the components of the table after it, each on its own | all hold |
| `AuthzSync_revoke` | one edge, 1 worker, reconciler, 1 fault, fairness | `RevokedEdgeLosesTuple` is violated |
| `Projection_lost` | 1 event, 1 relay, 1 consumer, the code's `MaxDeliver` 5, 6 faults | `NeverSilentlyLost` is violated |
| `Deletion_purge` | 1 intake, 1 deletion, PostgreSQL listing | `CompletedMeansErased` is violated |
| `Deletion_resurrect` | 2 intakes, 1 deletion | `NoResurrection` is violated |
| `Webhooks_log` | 4 events, a log of 2 entries, limit 1, fairness | `EventIsPushed` is violated |
| `Intake_overwrite` | 2 calls, no faults | `NeverOverwritten` is violated |
| `Mapping_ceilings` | sources of both stores | `RegistrationFixesCeilings` is violated |
| `Export_roundtrip` | 2 resources with tags, 2 commits, 1 import, both stores | `EdgesRoundTrip` is violated |
| `Identity_rotation` | 1 request, a key that is withdrawn, a cache lifetime of 1 | `RotationHonoured` is violated |

`Store_races` in detail:

| Component | Instance | Properties |
|---|---|---|
| `AuthzSync` | one edge, 2 workers that claim a row at a time, reconciler, 1 intake, 1 deletion at a time, 2 attempts, 1 fault | `TupleRequested`, `OutboxCoversEdge`, `RemovedOnlyIfRevoked` |
| `Projection` | 2 organisations that use one event id, 1 relay, 1 consumer, `MaxDeliver` 2, 2 faults | `RecordedBeforeAck`, `PublishedIsNotLost` |
| `Deletion` | 2 intakes, 2 deletions, 1 search, 2 faults, holds | `VisibilityRevokedFirst`, `TombstoneDominates`, `ManifestIsHonest`, `HeldErasedOnlyByRace` |
| `Retrieval` | 4 resources in a row or a ring, 3 classes, depth up to 3, caps of 2 to 4 nodes and 3 edges, 2 changes, 1 fault | `OnlyVisibleDisclosed`, `NoDanglingEdge`, `FoundThroughReadable`, `CompleteUnlessTruncated`, `NearestKept` |
| `Webhooks` | 2 events, 1 subscription, 2 passes, limit 1, 2 attempts, a replay, 2 faults | `DeliveredOncePerPass`, `DeadMeansExhausted` |

`Service_operations` in detail:

| Component | Instance | Properties |
|---|---|---|
| `Intake` | 3 calls, each with any of 11 requests over 2 keys, 2 resources, 2 facts; 2 faults | `OneCommitPerKey`, `ReplaySameOutcome`, `LedgerIsWhole`, `AcceptedIsAnnounced`, `OverwriteOnlyByRace` |
| `ChangeFeed` | 4 events, 2 readers, pages of 2 | `MissedOnlyByRace` |
| `Quota` | 2 callers, rates unset, 1 and the default 2, of this operation or of another, no limit before the first refresh, a burst of 2, any idle bucket evictable after a tick, one tick | `WithinBudget` (`SpentIsEarned`, `EvictedRarely`, `ResetOnlyOnChange`), `LimiterFollowsCache` |
| `Credentials` | 2 agents, 4 keys, 2 administrators, both stores | `RotationIsSafe` (`RotationRetires`, `NeverLeftWithout`, `TwoKeysOnlyByOverlap`), `ImplementsKeyRing` |
| `Identity` | 2 requests, 2 signing keys, tokens that name a key or none, one forged, one for another audience | `AcceptedIsCurrent` (`AcceptedGenuine`, `StaleOnlyByDiscovery`) |
| `Gate` | 2 people, 2 organisations, 1 fault of a call or of an entry | `GateIsExact` (`AdminHeldRelation`, `RefusalNotSpurious`) |
| `Sources` | 2 concurrent calls, 4 writes, 2 mapping versions, both stores | `StoredAsAnswered` (`SourceAsAnswered`, `MappingAsRegistered`) |
| `Mapping` | sources of both stores, claims and ceilings of each grade, 2 edge entries out of 11, 2 references, 3 allowlists | `MappedWithinRegistration` (`MappedWithinCeilings`, `SyncOnlyWhereListed`), `EdgesAsMapped` |
| `Export` | 3 resources, 2 of them with tags, a cap of 2, 3 commits, 2 imports, either store on either side | `TransferIsSound` (`ClosedUnlessRaced`, `RolledBackOnlyFor`, `DeletionsTravel`, `ImportedIsWhole`) |
| `MemoryLedger` | 2 intakes of one event, with and without synchronisation, 1 deletion at a time, 2 workers, leases of 2 on a clock up to 3 | `MemoryStillHolds` (`TwiceOnlyByOverlap`, `PlaceholderNeverOverwrites`, `LeasesExclusive`, `PublishedWasSent`, `EdgeOpsRequested`) |
| `Pool` | 3 intakes, 1 deletion, 2 connections | `StuckOnlyByDeletion` |
| `Migrate` | 3 files, 2 of which define one object, 2 runs, 1 fault, with and without the role | `MigrationIsSound` (`MigratedIsServable`, `OlderOnlyByOverlap`) |
| `Lifecycle` | 1 request, 2 outbox rows, a batch of 1, 2 loops, all three roles, both ledgers | `ExitIsOrderly` (`WorkerLeavesLittle`, `CutOnlyBetweenCalls`) |

What each property says is in the comment above it. A property with names in brackets is the
conjunction of those parts, each defined and explained by itself. The runs leave the type
invariants to the proofs (section 4), which establish them for every instance.

`Store_races`, `Workers_live` and `Service_operations` put components that share no variable into one state
space without multiplying them: a variable (`part`, in `MCWorkers` `loops`), chosen at the start,
names the one that moves, and the others rest in one initial state. Every property speaks of
one component only, and holds of a resting component because it holds initially, so
the run decides exactly what one run per component would. The fairness of
`MCWorkers` is that of `AuthzSync`, `Projection` and `Webhooks`, conjunct by conjunct, for the
component that moves.

### Why the bounds are enough

*Actors.* Every race in these modules is between a step that read something and
one other step that changed it; two workers, two relays, two passes or two
deletions show every such pair, and a third call in `Intake` adds a retry after
a race. Actors may start over (workers, relays, passes, transactions of
`AuthzSync`), so sequences are not bounded by the number of actors.

*Faults.* The bound is at least the number of attempts where attempts matter: two
failures dead-letter a row (`MaxAuthzAttempts` 2) or a webhook (`MaxAttempts` 2), and as many as
`MaxDeliver` use up the deliveries of an event, in `Store_races` and, with one to spare, in `Workers_live`. So the exceptions that
`PublishedIsNotLost` and `AcceptedIsProjected` make are reached, not cut away; `Projection_lost` shows
the first with the code's own five deliveries.

*Bounds across counters.* Some pairs of bounds are not used up together. In `MCStores`: after a failure the outbox has one
row that deletes a tuple (`FaultOrSecondRow`), beside a search one deletion runs (`SearchOrSecondSaga`), changes and
failures of a request are two together (`FewDisturbances`). In `MCWorkers` no push fails and nothing is replayed while a second
pass runs (`CalmBesideDrain`), which `Store_races` has side by side; fairness owes none of these steps. In `MCService` a stored
row limits one operation at a time (`OneLimitSet`), sources vary in the fields their store keeps (`MapSources`),
and the in-memory workers have the rows of one kind (`MemInOrder`).

*Limits.* Where the code's limit is not reached by the instance (batch 10, 200
edges, 1000 edges, 100 revisions, a log of 1000) the run says what happens below it.
Limits that are reached are given a small value: a page of one event and a
limit of one in `Store_races` and `Workers_live` (so passes end in the middle of the
feed), three edges per listing and two nodes per answer for a ring of four in
`Store_races`, pages of two for four events, a burst of two tokens, a manifest of two records and a pool of two
connections in `Service_operations`, a log of two in `Webhooks_log`.

*Graphs.* A ring of four is the smallest graph in which a node is reached by two ways of
different length once one of its nodes may not be read, and in which a listing
exceeds a cap that a hop does not. Two changes are enough for each hazard of a read
(one to allow something, one to take it back).

*Time.* The clock of `Identity` runs past the cache lifetime, so a value is seen fresh, expired and renewed; that of `Quota`
does too, and past the idle limit, which is zero there: a bucket that is a tick old may go, full or not. A lease of two and a clock up to three in
`MemoryLedger` let a lease end while its row is worked on, be taken over, and
a late mark arrive while the second holder's lease still runs.

*Symmetry* is declared in the two `Deletion` runs that look for a violation. Elsewhere interchangeable workers, calls and
deletions are taken in their order instead: of two that are idle the first one moves (`FirstFreeClaims`, `InTurn`), and
requests are handed out in the order of a list (`InOrder`).

*Deadlock.* The composed runs do not check it: most components have a finite supply of calls, events or deletions, after which the
system may rest. Waiting of everyone on everyone is a property of its own in `Pool`, and the loops that must
not stop have the liveness properties of `Workers_live`.

### Fairness

Only what the code's scheduling gives. The worker loops are tickers that run until
shutdown: weak fairness of each loop's step (`WorkerStep`, `ReconcileStep`,
`RelayStep`, `ConsumeStep`, `StartPass(HookLoop)`, `PassStep`). A step of a loop includes
its failing outcome, so fairness never forbids an error: only `MaxFaults` does, which
says that failures stop eventually. Leases, backoffs and acknowledgement deadlines
elapse: weak fairness of `TimePasses`, `LeaseExpires`, `AckWaitExpires`,
`RetryDue`. A transaction that has begun commits or is rolled back: weak
fairness of `UpsertEdgeCommit` and `DeleteCommit`. Nothing obliges a client to
call, a deletion or a hold to happen, the duplicate window to close, `Drain` to
run or a process to die. The other modules claim no liveness: their actors are calls.

## 4. What is proved

TLAPS proves the following for every value of the constants that satisfies the
`ASSUME` of the module: any number of edges, calls, workers, organisations,
deletions, readers, any limits, any number of faults. The assumptions only type
the constants (sets of numbers, distinct markers, finite sets of edges,
events, consumers, passes); TLC evaluates them in every run. No theorem has hypotheses of its own.

Every safety invariant and every action property that a passing run checks is proved, and so is the refinement.

| Module | Theorem | States |
|---|---|---|
| `AuthzSyncProofs` | `TypeCorrect`, `OnlyRequestedTuples`, `OutboxLeavesNoGap`, `RemovalIsRevocation` | `TypeOK`, `TupleRequested`, `OutboxCoversEdge`, `RemovedOnlyIfRevoked` |
| `IntakeProofs` | `IntakeTypeCorrect`, `IdempotentCommit`, `ReplayIsFaithful`, `LedgerStaysWhole`, `AcceptedReachesFeed`, `SoTOverwriteNeedsRace` | `IntakeTypeOK`, `OneCommitPerKey`, `ReplaySameOutcome`, `LedgerIsWhole`, `AcceptedIsAnnounced`, `OverwriteOnlyByRace` |
| `ProjectionProofs` | `ProjectionTypeCorrect`, `AckAfterRecord`, `PublishedIsNotLostAlways` | `ProjectionTypeOK`, `RecordedBeforeAck`, `PublishedIsNotLost` |
| `DeletionProofs` | `DeletionTypeCorrect`, `CleanupFollowsRevocation`, `TombstonesDominate`, `ManifestsAreHonest`, `HoldsYieldOnlyToRaces` | `DeletionTypeOK`, `VisibilityRevokedFirst`, `TombstoneDominates`, `ManifestIsHonest`, `HeldErasedOnlyByRace` |
| `RetrievalProofs` | `RetrievalTypeCorrect`, `ReadsDiscloseVisible`, `EdgesHaveEnds`, `ReachedThroughReadable`, `UntruncatedIsComplete`, `TruncationKeepsNearest` | `RetrievalTypeOK`, `OnlyVisibleDisclosed`, `NoDanglingEdge`, `FoundThroughReadable`, `CompleteUnlessTruncated`, `NearestKept` |
| `ChangeFeedProofs` | `FeedTypeCorrect`, `MissesNeedARace`, `DeadMeansExhaustedAlways`, `DeliveredOncePerPassAlways` | `FeedTypeOK`, `MissedOnlyByRace`, `DeadMeansExhausted`, `DeliveredOncePerPass` |
| `AccessProofs` | `QuotaTypeCorrect`, `BudgetKept`, `LimiterIsFresh` | `QuotaTypeOK`, `WithinBudget`, `LimiterFollowsCache` |
| | `CredentialTypeCorrect`, `RotationRetiresAlways`, `NeverLeftWithoutAlways`, `TwoKeysAlways`, `RotationIsSafeAlways`, `KeyRingRefinement` | `CredentialTypeOK`, the parts of `RotationIsSafe` and the whole, `ImplementsKeyRing` |
| | `AcceptedIsCurrentAlways`, `GateIsExactAlways` | `AcceptedIsCurrent`, `GateIsExact` |
| `ServiceProofs` | `StoredAsAnsweredAlways`, `MappedWithinRegistrationAlways`, `EdgesAsMappedAlways`, `StuckOnlyByDeletionAlways`, `MigrationIsSoundAlways`, `ExitIsOrderlyAlways`, `MemoryStillHoldsAlways`, `TransferIsSoundAlways` | the property in each name |

The arguments:

*AuthzSync.* The three properties are not inductive: a tuple appears because of a
claimed copy of a row, a listed edge, or a stored sync flag, each possibly stale. The
invariant adds `InFlightJustified`: whatever is in flight goes back to a committed
request (writes) or a committed deletion (deletes), and a write reported as
done has its tuple unless the edge was revoked. The last clause is what
`MarkAuthzTupleApplied` needs to give up the row that covered the edge, and it
survives the other workers because only justified deletes remove tuples.

*Intake.* The invariant says what each position of a call has already done
(`Done(c)`: evidence stored, committed, announced) and that the ledger's tables agree
about each committed call (`Agrees(c)`: its outbox row, its evidence, its key).
`KeysKnown` (a key stands for a committed call with that key) turns the guard of
`Writes` into `OneCommitPerKey`, and `RecordsKnown` says where current revisions
come from.

*Projection.* `RecordedBeforeAck` needs `JobKnows`: a projection at "receipt" has
written its document, one at "ok" has its receipt, and neither index entries nor
receipts are ever withdrawn. `PublishedIsNotLost` needs an account, `TriesAccounted`: as long as a
row has no receipt, each of its deliveries is in the hands of a consumer or has cost a
failure. A row nobody is projecting therefore has a delivery left, or `MaxDeliver` failures
were spent on it. `Streamed` says that there is a message at all: whatever was sent, is in the duplicate window, in a
loop's hands or marked published is `Carried`, in the stream or under an id that another organisation's
accepted row has too; `Known` is what makes "accepted" last.

*Deletion.* `CommittedIsDone` ties revisions to intakes that are over; `SagaOK` says
what each position of the saga implies about its listed evidence and
its tombstone; `SearchOK` that a search's snapshot is a part of history;
`VisibleInv` adds that a live record is not among the intakes any tombstone has
seen, and that a committed intake without its evidence is among those some saga
listed: evidence is erased only out of `todo`, which is a part of `found`.

*Retrieval.* The three properties and four auxiliary facts form one invariant, `ReadInv`.
`Remembered` (whatever holds now is in the history) turns every check the code makes into
membership of the history; `Gathered` says what the request can hold at each
place, above all nothing when it begins, since the history starts over there; `Checking`
that only readable resources are ever allowed; `FrontierFound` and `NeighboursJoined` that
the frontier is the last level and a neighbour is new and joined to it, which
is what makes a found node's level right. Lemmas `CitableMayBeCited` and
`RetrievableMayBeShown` compare the code's rank table with the reference definitions.

`CompleteUnlessTruncated` compares a loop with all walks of a graph. Its invariant `CompleteInv` is about
requests during which nothing changed or failed: before hop *h* the found nodes are exactly the ends of
readable walks of *h* steps, and only the frontier can have neighbours that are not found (`GraphGathers`); at the
end the nodes are the retrievable ones among them (`Filled`). The loop and the walks meet in three lemmas
about `Reached`, the ends of walks of a given length: one step more adds the neighbours (`ReachedNext`); walks do not
leave a set that has its own neighbours, since there would be a first step outside (`ReachedStays`,
`LeastExists`); so a hop that finds nothing new has found all (`ReachedAll`). A listing of a hop misses a
neighbour only if it was cut (`HopListed`, `CappedIsAll`), and that marks the answer. `NearestKept` rests on
`Place`, the number of nodes before a node in discovery order: those with a place below the cap are kept
(`KeptIsNearest`), and the last one's place says how many they are (`KeptIsBounded`).

*ChangeFeed.* `Passed` (an event behind a cursor that is committed, or still in
flight, is already accounted for) with `AtStamped` (a cursor stands at an event that
has been stamped, so no event is stamped behind it) is inductive. Lemma `PageIsPrefix` carries it: a page is downward closed among the
committed events after the cursor.

*Webhooks.* `HookInv` has three parts. `LogInv`: below the number of a failed entry every attempt has been
tried and has failed, whatever the log has forgotten, and a dead entry has the last number. `SentInv` says the same of a
request that was sent and has no entry yet. `CountInv` counts: the successes in the log and those on their way to it
are at most one per pass, and one for a replay, because a pass pushes only what the
log does not have as delivered.

*Quota.* `QuotaBalance` strengthens the budget to an account: what was taken, plus what the
bucket would hold if it were refilled now, is at most a burst for the window and one for each eviction and reset, and what the
window earned; and evictions are spaced by more than the idle time, counted to the bucket's last use. Lemma `TickEarns` shows that
a tick adds the same on both sides or less. `QuotaSerial` describes the one refresh that may be
under way until two have overlapped, from which both `ResetOnlyOnChange` and `LimiterFollowsCache` follow.

*Credentials.* `RotationShape` says what a rotation under way holds (a new key nobody else
has, rows of its own agent, locks nobody shares), `RotationDebt` that a key which worked when it began is
revoked or still to be, `SerialRotation` that without overlap the keys to be retired are
all there are. `KeyRingRefinement` is the refinement: a commit is a `Replace` of the locked keys,
the memory store's steps are `Withdraw` and `Issue`, and every other step stutters.

*Identity and Gate.* `KeysAreSeen` bounds the age of a cached key by the time stamp until
discovery renews it, and `VerifiesFresh` says that a request at `Verify` found the cache fresh at this
time of the clock. `GateProgress` relates the relation the gate is asking about to those seen so far:
each one before it was absent at the moment it was asked for, so it was not held throughout, or its check erred.

*Sources.* `RevisionsNumbered` orders the stored mapping revisions without repetition, so that one is the
newest; `SerialCalls` says that until two calls have overlapped the only one under way has the row
to itself. `ColumnsKept` is about PostgreSQL and needs no such condition: the row has the identity of the
first registration and no limits, and a rotation writes back a row that exists.

*Mapping.* `Merged` is the loop invariant of `resolveEdges`: the list built so far is the set-builder
definition over the entries seen so far. `CeilingsPassed` and `SyncIsParent` carry the
checks made around it, against the ceilings `Apply` was `given`; that these are `SourceCeilings` of the
registration turns them into what the property says of each store.

*Pool.* `ConnectionsAccounted`: free connections, first ones and second ones add up to the pool. `LocksHeld` says
which rows each position has locked. If everyone waits and PostgreSQL has no circle to break, some transaction is
blocked at no row, because all the blocked ones together would be a circle (`BlockersEnd`): it is a deletion that
waits for a connection, nobody has a second one, and so all are someone's first.

*Migrate.* `RecordedInOrder`: a version is recorded after its file was executed and after every earlier one, so whoever
has come to a version knows the ones before it; one that ends at `done` has granted them all. `SerialRuns`: without overlap a run executes only
a file newer than all that are recorded.

*Lifecycle.* `DrainedBehind`: once the drain of the memory ledger has found nothing, what is unpublished came later; on PostgreSQL, or was left
by the last pass (`drainLeft`). A worker's main goroutine goes on only when the loops have ended. `RequestsOutlive`: a closed listener has no active request, and only the exit cuts
one off.

*MemoryLedger.* `MemInv` has a part for each promise. The leases are the hard one: `MemOutboxLeased` and
`MemTupleLeased` say that as long as a holder's lease runs, the ledger has one at least as long. That is false of a
tuple row on which a failure was marked late, hence `late` in `LeasesExclusive`: the attempt to prove it without showed the
gap in section 7, which the bounds the run had before (a lease of 1, one tick) could not reach. `MemEdgeInv` says which requests stand
behind an edge and its rows, `MemListedInv` that a listed copy has the edge's flag unless an intake came in between.

*Export.* `ExReadInv` says that what `Build` has read is what the ledger still holds unless a commit raced it,
`ExSealedInv` that the sealed manifest is then closed, `ExTargetInv` that nothing is imported before, and that what is active
in the target is as the manifest has it, with its tuples requested. `ExDeletedInv`: a manifest of the memory store has the
states of what was deleted when it was listed. An import fails for `KeysHold` only, whose three conjuncts are the reasons
`RolledBackOnlyFor` names, the closedness of the manifest excluding a fourth.

Only model-checked: the liveness properties `ActiveEdgeConverges`, `OutboxDrains`,
`AcceptedIsProjected` and `EventIsPushed`, since liveness under
fairness and ENABLED are outside what this version of TLAPS supports. Induction over data is outside it too:
where a proof needs one, over the steps of a walk or the entries of a log, it takes a least counterexample from a
set of numbers (`WFMin`) instead, and no theorem is about what a recursive definition computes; no module has a RECURSIVE
operator. The violations of the other nine runs are counterexamples that TLC shows.

## 5. Mutants

Every property of a passing run has a mutant in `PROJECT.json`: a variant of one
definition, written beside it, with a plausible bug (a dropped check, an
ignored error, an off-by-one, a wrong order). Substituting it makes TLC refute the
property under the same configuration, so each property depends on the code it is about.
A conjunction has a mutant for each of its parts.

## 6. Findings

1. **A revoked edge may keep its tuple** (`AuthzSync_revoke`, `worker.go:235`).
   ADR 0014 says that tombstoning a parent edge enqueues a delete so that inheritance is
   revoked. A write row claimed earlier may be applied after the delete; the delete
   may be dead-lettered; it is enqueued only if the edge was *listed* as synchronised;
   and the reconciler looks for missing tuples only.
2. **A completed deletion erases nothing on PostgreSQL** (`Deletion_purge`,
   `store.go:225`): `ListRevisions` does not select `evidence_ref`.
3. **An older upsert resurrects a tombstoned record** (`Deletion_resurrect`,
   `store.go:700`): the conflict clause of `PromotePlaceholder` ends in `OR TRUE`.
4. **A long delivery log starves webhooks** (`Webhooks_log`, `changes.go:385`): past
   1000 entries successes are forgotten and the beginning of the feed is pushed
   again on every pass.
5. **An export of PostgreSQL cannot be imported into PostgreSQL** (`Export_roundtrip`, `store.go:161`): `ListRecords` selects
   no `tags`, `UpsertRecord` sends the missing ones as NULL, the column is NOT NULL (`001_init.sql:48`), and the import rolls
   back; `docs/operations/backup-restore.md:14` says that manifests round-trip `graph_edges`. (The query leaves out `lifecycle_state`
   as well, from which `Build` derives tombstones: with the tags in place the import would bring deleted
   records back.)
6. **Withdrawn signing keys stay in use** (`Identity_rotation`, `oidc.go:280`): reading the discovery
   document renews the time stamp that the key set's age is measured by, so as long as discovery works the keys
   are never read again for their age, only for an unknown key id.
7. **An event can be lost without a trace** (`Projection_lost`, `bus.go:178`): JetStream stops after five deliveries, the relay has
   marked the row published although its own projection failed (`worker.go:160`), no code reads an exhausted message and
   nothing compares published rows with receipts; `worker.go:435` says "redelivered (at-least-once) instead of silently lost",
   `types.go:399` "redelivered or dead-lettered", ADR 0007 "bounded retries/DLQ, and reconciliation". Failures are not even needed
   where two organisations use one event id: rows are claimed, deduplicated and marked by the id alone
   (`006_fts_and_outbox_lease.sql:122`), while the primary key is (organisation, id) and clients may choose ids, so the second event
   is marked published with the first.
8. **A generated observation overwrites authoritative facts** (`Intake_overwrite`, `ingest.go:253`): the transaction reads the record
   without a lock, decides on that copy, and `PromotePlaceholder` writes unconditionally. ADR 0005 says "no overwrite of
   source-authoritative facts". `OverwriteOnlyByRace`, proved, says that this race is the only way.
9. **A source in PostgreSQL has no ceilings** (`Mapping_ceilings`, `store.go:379`): only the trust tier has a column, and intake falls
   back to `source_of_truth` and `internal`. ADR 0004 says that a registration fixes its ceilings and clients only narrow them.

## 7. Gaps the models make exact

What a model had to say more exactly than a reader of the code might expect. No run refutes a documented
promise with these; the ones that do contradict a document are in section 6.

- A retry while the first call is still running meets the outbox's primary key and gets
  a raw database error, not the duplicate answer (`ingest.go:281`, `OutboxConflict`). A
  later retry gets the duplicate answer.
- After a failed append to the feed the call answers 503; the retry answers duplicate and
  nothing is ever appended (`service.go:601`). `AcceptedIsAnnounced` is therefore about
  "accepted" answers only.
- A graph is traversed through nodes that are readable but hidden by policy or lifecycle
  (`retrieval.go:683`, `694`): `VisibleGraph` says so. A failed hop or final listing ends the graph early
  without marking it as truncated (`retrieval.go:650`, `680`, `734`), hence `quiet` in
  `CompleteUnlessTruncated`; and if no node survives, the final listing is not limited to any
  resource (`store.go:579`), so an empty answer may be marked as truncated.
- A batch of checks is not one moment: `OnlyVisibleDisclosed` therefore says "at some time during
  the request" for grants and lifecycle separately.
- `HeldErasedOnlyByRace`: a hold placed after `HasLegalHold` answered does not stop
  the erase loop (`deletion.go:184`, `205`).
- `VisibilityRevokedFirst`: an intake that commits between a saga's tombstone and its
  enumeration has its evidence erased, and the saga's final `UpsertRecord` purges the
  record whatever it has become (`deletion.go:220`).
- With more than 200 synchronised edges the reconciler never looks at the younger
  ones (`worker.go:311`); `ActiveEdgeConverges` then fails after one out-of-band loss
  or late delete.
- `MissedOnlyByRace`: a cursor may pass an event that is still being inserted
  (`store.go:1062`).
- After a restart the process pushes no webhook until a subscription is upserted again
  (`changes.go:476`); `EventIsPushed` speaks of subscriptions the process knows.
- `SpentIsEarned`, `EvictedRarely`: an evicted bucket comes back full. With a burst of 20 and eviction after 10 idle minutes
  (`quota.go:169`) a stored rate below 2 per minute can be exceeded by waiting, but by one burst in each such time only; a change of
  any operation's limit gives each of the organisation's buckets another burst (`service.go:162`).
- `RefusalNotSpurious`: a check that OpenFGA answers with an error in its entry is a refusal, not an error (`client.go:152`), so a
  principal who holds the relation may be told that it does not.
- `LimiterFollowsCache`: two refreshes around a change of a quota may leave the limiter with the old
  limit while the cache has the new one, until the quota changes again (`service.go:155`-`164`).
- `TwoKeysOnlyByOverlap`: two rotations of an agent at once leave two working keys (`credentials.go:103`).
- `SourceAsAnswered`: a secret rotation writes back the row it read before its transaction
  (`service.go:473`); a registration in between is undone.
- `MappingAsRegistered`: the error of storing a mapping is dropped (`service.go:371`), and putting an older
  version again does not bring it back into force (`store.go:877`).
- `SourceAsAnswered`: PostgreSQL stores neither ceilings nor replay window nor allow-lists of a source, and a second registration changes
  neither its `system` nor its `mapping_spec_id`, while the answer shows all of them as given (`store.go:377`-`388`).
- `SyncOnlyWhereListed`: the allow-list not being stored, no intake through a source in PostgreSQL synchronises a parent edge; and in
  either store `parent_resource_id` never does by itself, although ADR 0013:19 allows it to, only an edge entry that asks for it.
- The comment on `EdgeMapping` and `contracts/jsonschema/mapping-spec.json:153` call `parent` the default predicate;
  an entry without a predicate becomes a `parent` edge, but one that is never synchronised unless it says so.
- `ClosedUnlessRaced`, `RolledBackOnlyFor`: an export taken while intakes commit may name revisions or
  ends it does not contain, and PostgreSQL then refuses to import it (`export.go:127`). So it does if a single record has no tags.
- `TwiceOnlyByOverlap`: on the in-memory ledger a request sent twice at once is stored twice
  (`memory/ledger.go:103`).
- `LeasesExclusive`: the in-memory `MarkAuthzTupleFailed` finds its row by id alone and clears the lease
  (`memory/ledger.go:840`). A worker that marks a failure after its lease of 30 seconds ended ends the lease of the worker that
  claimed the row since; after the backoff of 2 to 64 seconds (`worker.go:247`) a third may claim
  it while the second still works.
- `StuckOnlyByDeletion`: deletions that wait for their second connection can block a pool whose other connections
  wait for their rows (`deletion.go:136`). Intakes that lock each other's rows are resolved by
  PostgreSQL, which aborts one (`ingest.go:530`).
- `MigratedIsServable`: a run on a database without the role `context_gateway` grants nothing, succeeds and prints "privileges ensured"
  (`migrate.go:32`, `123`); tables are granted by a later run or by `Bootstrap`, once the role exists.
- `OlderOnlyByOverlap`: two migration runs at once may execute an old file over a newer one (`migrate.go:100`).
- `CutOnlyBetweenCalls`: `runServe` returns at the signal and does not wait for `Shutdown` or, in role `all`, for
  `RunWorker` (`main.go:216`); a request between two database calls is cut off, and the drain of role `all` may not happen.
- `WorkerLeavesLittle`: a pass interrupted by the signal leaves rows under a lease. The drain of the memory ledger lists them but cannot
  claim them; it asks again and again until the lease or its 30 seconds are over (`worker.go:93`). On PostgreSQL it hears of no
  row and makes one pass of at most one batch, whatever is left.

## 8. Hazards

`PROJECT.json` lists 40, each at the line where it bites, with the properties that would catch it
(neighbouring hazards that one property covers share an entry). Two are without a
property: the text the projector writes for an older revision (`worker.go:385`; it needs `Intake` and
`Projection` in one state space) and orphaned evidence of refused calls (`ingest.go:162`; nothing says what should
become of it).

## 9. What is not modelled

- Cryptography, HMAC verification, token parsing, manifest signing and digests: pure functions
  of external libraries. The models say whose key signed, or treat a failure as `Refuse`.
- HTTP and MCP handlers, the `cf` client, configuration, wiring, SDK, deployment: translation without
  state of their own.
- Wording, logging, metrics, audit entries, diagnosis and support bundles: they only read or append.
- The fallback of `reconcileOnce` for an authoriser without `RelationshipInspector`, and the `NoopBus`
  of the memory profile.
- The in-memory index and evidence store: maps behind one lock.
- Path expressions and transforms of mapping specifications: functions of a payload
  whose results `Mapping` enumerates.
- Snippets, redaction profiles and the cursor of a truncated graph: layout of the answer.

## 10. Plan

1. More refinement: an atomic idempotent intake that `Intake` implements, and an at-least-once
   projection that `Projection` implements, with their proofs.
2. `Intake` and `Projection` composed, for the staleness of index content.
