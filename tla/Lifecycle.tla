----------------------------- MODULE Lifecycle -----------------------------
(***************************************************************************)
(* How a process ends.  The roles serve and all run an HTTP server, all    *)
(* and worker run the worker's loops.  A signal cancels one context that   *)
(* the main goroutine, the one that shuts the server down, the loops and   *)
(* RunWorker all watch, and each goes on at its own pace.  The process is  *)
(* gone when the main goroutine has returned and its deferred cleanup has  *)
(* closed the connection pool, whoever else is still at work.              *)
(*                                                                         *)
(* The outbox is modelled as far as draining it goes; a lease outlasts a   *)
(* pass here (Projection has slow passes).  With PostgreSQL, other         *)
(* processes add rows as well.                                             *)
(***************************************************************************)
EXTENDS Naturals, FiniteSets

CONSTANTS
  HttpReq,     \* requests
  DrainRow,    \* outbox rows
  DrainBatch,  \* rows claimed by a pass of the relay
  WorkerLoop   \* relay, consume, webhook, authz and reconcile, or some of them

ASSUME LifecycleAssumption ==
  /\ DrainBatch \in Nat \ {0}
  /\ "relay" \in WorkerLoop

VARIABLES
  role,       \* serve, all or worker
  lifeStore,  \* the ledger: memory or postgres
  cancelled,  \* the signal has come
  ready,      \* what the readiness probe reports
  listener,   \* the HTTP server: up, failed, closing, closed, or overdue
  httpReq,    \* each request: none, handling, tx, finishing, answered, cut or cutInTx
  loopAt,     \* each loop: waiting for its ticker, working, ended, or not started
  drainRow,   \* each row: absent, free, held by a pass, leased, published, or late
  drainAt,    \* RunWorker: serving, relay, look, rest, stop, returned
  drainLeft,  \* history: rows the drain's latest pass may have left behind
  gaveUp,     \* history: a call of the drain failed or its time ran out
  mainAt      \* the main goroutine: serving, closing the pool, exited

lifeVars ==
  <<role, lifeStore, cancelled, ready, listener, httpReq, loopAt, drainRow, drainAt,
    drainLeft, gaveUp, mainAt>>

Serves == role \in {"serve", "all"}
Works == role \in {"all", "worker"}
Alive == mainAt # "exited"
Active == {"handling", "tx", "finishing"}
Unpublished == {r \in DrainRow : drainRow[r] \notin {"absent", "published"}}

(* Mutant: rows under a lease are not listed. *)
PendingListedFree == {r \in DrainRow : lifeStore = "memory" /\ drainRow[r] = "free"}

(* ListOutboxPending of every organisation.  The query runs without a      *)
(* tenant: the row-level security of PostgreSQL, forced on the owner too,  *)
(* shows it no row.  (Claims and marks go through functions that define    *)
(* their own security and do see them.)                                    *)
PendingListed == IF lifeStore = "memory" THEN Unpublished ELSE {}
FreeRows == {r \in DrainRow : drainRow[r] = "free"}

(* ClaimOutbox: as many free rows as the batch has room for. *)
ClaimRows(rows) ==
  /\ rows \subseteq FreeRows
  /\ \/ Cardinality(rows) = DrainBatch
     \/ Cardinality(rows) < DrainBatch /\ rows = FreeRows

Become(rows, s) == [r \in DrainRow |-> IF r \in rows THEN s ELSE drainRow[r]]

-----------------------------------------------------------------------------
(* Requests *)

ReqStep(q, from, to) ==
  /\ Alive
  /\ httpReq[q] = from
  /\ httpReq' = [httpReq EXCEPT ![q] = to]
  /\ UNCHANGED <<role, lifeStore, cancelled, ready, listener, loopAt, drainRow, drainAt, drainLeft, gaveUp, mainAt>>

Arrive(q) == Serves /\ listener = "up" /\ ReqStep(q, "none", "handling")

(* A closed pool refuses a connection, and the request ends with an error. *)
Acquire(q) == ReqStep(q, "handling", IF mainAt = "closing" THEN "finishing" ELSE "tx")
Release(q) == ReqStep(q, "tx", "finishing")
AnswerReq(q) == ReqStep(q, "finishing", "answered")

-----------------------------------------------------------------------------
(* The worker's loops *)

(* The select of a loop takes a tick even if the context is done as well. *)
Tick(l) ==
  /\ Alive
  /\ loopAt[l] = "waiting"
  /\ loopAt' = [loopAt EXCEPT ![l] = "working"]
  /\ IF l = "relay"
     THEN \E rows \in SUBSET FreeRows : ClaimRows(rows) /\ drainRow' = Become(rows, "held")
     ELSE UNCHANGED drainRow
  /\ UNCHANGED <<role, lifeStore, cancelled, ready, listener, httpReq, drainAt, drainLeft, gaveUp, mainAt>>

(* A pass ends well, or with an error (a cancelled context among them) that *)
(* leaves the rows it claimed to their lease.                              *)
PassEnds(l) ==
  /\ Alive
  /\ loopAt[l] = "working"
  /\ loopAt' = [loopAt EXCEPT ![l] = "waiting"]
  /\ LET held == {r \in DrainRow : l = "relay" /\ drainRow[r] = "held"} IN
     drainRow' \in {Become(held, "published"), Become(held, "leased")}
  /\ UNCHANGED <<role, lifeStore, cancelled, ready, listener, httpReq, drainAt, drainLeft, gaveUp, mainAt>>

LoopEnds(l) ==
  /\ Alive
  /\ loopAt[l] = "waiting" /\ cancelled
  /\ loopAt' = [loopAt EXCEPT ![l] = "ended"]
  /\ UNCHANGED <<role, lifeStore, cancelled, ready, listener, httpReq, drainRow, drainAt, drainLeft, gaveUp, mainAt>>

(* A request of this process, or of any that shares PostgreSQL, commits a  *)
(* row; one that comes after the drain's last pass, or the look that could *)
(* have led to another one, is late.                                       *)
RowArrives(r) ==
  /\ drainRow[r] = "absent"
  /\ lifeStore = "postgres" \/ (Alive /\ Serves)
  /\ drainRow' = [drainRow EXCEPT ![r] =
       IF \/ drainAt \in {"serving", "relay"}
          \/ drainAt = "look" /\ lifeStore = "memory" THEN "free" ELSE "late"]
  /\ UNCHANGED <<role, lifeStore, cancelled, ready, listener, httpReq, loopAt, drainAt, drainLeft, gaveUp, mainAt>>

RowLeaseEnds(r) ==
  /\ drainRow[r] = "leased"
  /\ drainRow' = [drainRow EXCEPT ![r] = "free"]
  /\ UNCHANGED <<role, lifeStore, cancelled, ready, listener, httpReq, loopAt, drainAt, drainLeft, gaveUp, mainAt>>

-----------------------------------------------------------------------------
(* RunWorker: Drain, then Stop *)

DrainMoves(from, to) ==
  /\ Alive /\ Works
  /\ drainAt = from
  /\ drainAt' = to
  /\ UNCHANGED <<role, lifeStore, cancelled, ready, listener, httpReq, loopAt, mainAt>>

DrainBegins ==
  /\ cancelled
  /\ DrainMoves("serving", "relay")
  /\ UNCHANGED <<drainRow, drainLeft, gaveUp>>

(* A pass may leave what is leased to somebody else, and anything once its *)
(* batch is full.                                                          *)
DrainRelays ==
  /\ DrainMoves("relay", "look")
  /\ \E rows \in SUBSET FreeRows :
       /\ ClaimRows(rows)
       /\ drainRow' = Become(rows, "published")
       /\ drainLeft' = IF Cardinality(rows) = DrainBatch THEN DrainRow
                       ELSE {r \in DrainRow : drainRow[r] \in {"held", "leased"}}
  /\ UNCHANGED gaveUp

(* relayOnce or the listing fails, or the time for draining is over. *)
DrainGivesUp ==
  /\ \/ DrainMoves("relay", "rest") \/ DrainMoves("look", "rest")
  /\ \/ UNCHANGED drainRow
     \/ /\ drainAt = "relay"
        /\ \E rows \in SUBSET FreeRows : ClaimRows(rows) /\ drainRow' = Become(rows, "leased")
  /\ gaveUp' = TRUE
  /\ UNCHANGED drainLeft

(* The memory ledger lists the rows under a lease as well, so the drain    *)
(* goes on until the lease or its time runs out.  From PostgreSQL it hears *)
(* of no row, and one pass is all there is.                                *)
DrainLooks ==
  /\ DrainMoves("look", IF PendingListed = {} THEN "rest" ELSE "relay")
  /\ UNCHANGED <<drainRow, drainLeft, gaveUp>>

(* One consume pass and up to five of webhooks and of tuples. *)
DrainRests ==
  /\ DrainMoves("rest", "stop")
  /\ UNCHANGED <<drainRow, drainLeft, gaveUp>>

(* Stop waits for the loops. *)
StopReturns ==
  /\ \A l \in WorkerLoop : loopAt[l] = "ended"
  /\ DrainMoves("stop", "returned")
  /\ UNCHANGED <<drainRow, drainLeft, gaveUp>>

-----------------------------------------------------------------------------
(* The signal, the server and the main goroutine *)

Signal ==
  /\ Alive /\ ~cancelled
  /\ cancelled' = TRUE
  /\ UNCHANGED <<role, lifeStore, ready, listener, httpReq, loopAt, drainRow, drainAt, drainLeft, gaveUp, mainAt>>

ListenFails ==
  /\ Alive /\ Serves /\ listener = "up"
  /\ listener' = "failed"
  /\ UNCHANGED <<role, lifeStore, cancelled, ready, httpReq, loopAt, drainRow, drainAt, drainLeft, gaveUp, mainAt>>

NotReady ==
  /\ Alive /\ Serves /\ cancelled /\ ready
  /\ ready' = FALSE
  /\ UNCHANGED <<role, lifeStore, cancelled, listener, httpReq, loopAt, drainRow, drainAt, drainLeft, gaveUp, mainAt>>

ShutdownBegins ==
  /\ Alive /\ Serves /\ ~ready /\ listener = "up"
  /\ listener' = "closing"
  /\ UNCHANGED <<role, lifeStore, cancelled, ready, httpReq, loopAt, drainRow, drainAt, drainLeft, gaveUp, mainAt>>

(* Mutant: the listener is closed and no request is waited for. *)
ShutdownEndsAtOnce ==
  /\ Alive /\ listener = "closing"
  /\ listener' = "closed"
  /\ UNCHANGED <<role, lifeStore, cancelled, ready, httpReq, loopAt, drainRow, drainAt, drainLeft, gaveUp, mainAt>>

(* Shutdown returns when no request is left, or the grace period is over. *)
ShutdownEnds ==
  /\ Alive /\ listener = "closing"
  /\ \/ listener' = "closed" /\ \A q \in HttpReq : httpReq[q] \notin Active
     \/ listener' = "overdue"
  /\ UNCHANGED <<role, lifeStore, cancelled, ready, httpReq, loopAt, drainRow, drainAt, drainLeft, gaveUp, mainAt>>

(* runServe does not wait for Shutdown, nor for RunWorker; a worker's main *)
(* goroutine is RunWorker.                                                 *)
MainReturns ==
  /\ mainAt = "serving"
  /\ IF Serves THEN cancelled \/ listener = "failed" ELSE drainAt = "returned"
  /\ mainAt' = "closing"
  /\ UNCHANGED <<role, lifeStore, cancelled, ready, listener, httpReq, loopAt, drainRow, drainAt, drainLeft, gaveUp>>

(* What is at work when the process is gone is cut off. *)
Exits ==
  /\ mainAt' = "exited"
  /\ httpReq' = [q \in HttpReq |->
       IF httpReq[q] \notin Active THEN httpReq[q]
       ELSE IF httpReq[q] = "tx" THEN "cutInTx" ELSE "cut"]
  /\ UNCHANGED <<role, lifeStore, cancelled, ready, listener, loopAt, drainRow, drainAt, drainLeft, gaveUp>>

(* pgxpool's Close waits for every connection that is in use. *)
CleanupEnds ==
  /\ mainAt = "closing"
  /\ \A q \in HttpReq : httpReq[q] # "tx"
  /\ Exits

LifeInit ==
  /\ role \in {"serve", "all", "worker"}
  /\ lifeStore \in {"memory", "postgres"}
  /\ cancelled = FALSE
  /\ ready = TRUE
  /\ listener = "up"
  /\ httpReq = [q \in HttpReq |-> "none"]
  /\ loopAt = [l \in WorkerLoop |-> IF Works THEN "waiting" ELSE "ended"]
  /\ drainRow = [r \in DrainRow |-> "absent"]
  /\ drainAt = "serving"
  /\ drainLeft = {}
  /\ gaveUp = FALSE
  /\ mainAt = "serving"

LifeNext ==
  \/ \E q \in HttpReq : Arrive(q) \/ Acquire(q) \/ Release(q) \/ AnswerReq(q)
  \/ \E l \in WorkerLoop : Tick(l) \/ PassEnds(l) \/ LoopEnds(l)
  \/ \E r \in DrainRow : RowArrives(r) \/ RowLeaseEnds(r)
  \/ DrainBegins \/ DrainRelays \/ DrainGivesUp \/ DrainLooks \/ DrainRests \/ StopReturns
  \/ Signal \/ ListenFails \/ NotReady \/ ShutdownBegins \/ ShutdownEnds
  \/ MainReturns \/ CleanupEnds

LifeSpec == LifeInit /\ [][LifeNext]_lifeVars

-----------------------------------------------------------------------------
(* Properties *)

(* Unless it fails or runs out of time, the drain of the memory ledger     *)
(* leaves unpublished only rows that came after its last look: also the    *)
(* rows that a pass interrupted by the signal had claimed are waited for.  *)
(* On PostgreSQL it may also leave what its one pass could not take: rows  *)
(* under the lease of such a pass, and whatever a full batch had no room   *)
(* for.  A worker exits when its drain is over and its loops have ended.   *)
WorkerLeavesLittle ==
  /\ drainAt \in {"rest", "stop", "returned"} /\ ~gaveUp =>
       \A r \in Unpublished :
         drainRow[r] = "late" \/ (lifeStore = "postgres" /\ r \in drainLeft)
  /\ role = "worker" /\ mainAt = "exited" =>
       drainAt = "returned" /\ \A l \in WorkerLoop : loopAt[l] = "ended"

(* An exit never cuts a request off inside its transaction, and no request *)
(* at all once Shutdown has returned within its grace period.  (runServe   *)
(* does not wait for that: a request between two calls may be cut.)        *)
CutOnlyBetweenCalls ==
  \A q \in HttpReq :
    /\ httpReq[q] # "cutInTx"
    /\ httpReq[q] = "cut" => listener # "closed"

(* A process that is told to stop leaves no loop running, no transaction   *)
(* cut and, up to its time limits, only those rows unpublished.            *)
ExitIsOrderly == WorkerLeavesLittle /\ CutOnlyBetweenCalls
=============================================================================
