-------------------------------- MODULE Pool --------------------------------
(***************************************************************************)
(* The connection pool and the row locks of concurrent transactions.       *)
(*                                                                         *)
(* An intake holds one connection, locks its own row and, for a parent it  *)
(* did not find, waits for whoever is inserting that row.  A deletion      *)
(* holds one connection, locks its row, and then lists edges through the   *)
(* pool: it needs a second connection while it holds the first.  Nothing   *)
(* but its caller going away ends a wait for a connection.                 *)
(***************************************************************************)
EXTENDS Naturals, FiniteSets

CONSTANTS
  IntakeTx,  \* intakes
  SagaTx,    \* deletions
  Row,       \* resource rows
  RowOf,     \* the row each transaction writes
  ParentOf,  \* the row each intake's edge names
  PoolSize   \* MaxConns

ASSUME PoolAssumption ==
  /\ IntakeTx \cap SagaTx = {}
  /\ RowOf \in [IntakeTx \cup SagaTx -> Row]
  /\ ParentOf \in [IntakeTx -> Row]
  /\ PoolSize \in Nat \ {0}

VARIABLES
  poolFree,  \* connections nobody has
  rowLock,   \* transactions that hold each row, at most one
  txPc,      \* what each transaction does next
  rowKnown   \* rows that are committed

poolVars == <<poolFree, rowLock, txPc, rowKnown>>

Tx == IntakeTx \cup SagaTx
Unfinished == {t \in Tx : txPc[t] # "done"}
Moves(t, pc) == txPc' = [txPc EXCEPT ![t] = pc]

(* The row a transaction is about to lock. *)
Wanted(t) == CASE txPc[t] = "lock" -> {RowOf[t]}
               [] txPc[t] = "parent" -> {ParentOf[t]}
               [] OTHER -> {}

(* The transactions t waits for at a row. *)
BlockedBy(t) == UNION {rowLock[r] \ {t} : r \in Wanted(t)}

(* WithTenant begins a transaction on a connection of the pool. *)
BeginTx(t) ==
  /\ txPc[t] = "idle"
  /\ poolFree > 0
  /\ poolFree' = poolFree - 1
  /\ Moves(t, "lock")
  /\ UNCHANGED <<rowLock, rowKnown>>

(* PromotePlaceholder, or the deletion's UpsertRecord. *)
LockRow(t) ==
  /\ txPc[t] = "lock"
  /\ BlockedBy(t) = {}
  /\ rowLock' = [rowLock EXCEPT ![RowOf[t]] = {t}]
  /\ Moves(t, IF t \in SagaTx THEN "list" ELSE "ensure")
  /\ UNCHANGED <<poolFree, rowKnown>>

(* ensureEndpoint sees committed rows, and its own. *)
FindParent(t) ==
  /\ txPc[t] = "ensure"
  /\ Moves(t, IF ParentOf[t] \in rowKnown \cup {RowOf[t]} THEN "commit" ELSE "parent")
  /\ UNCHANGED <<poolFree, rowLock, rowKnown>>

(* InsertPlaceholder, once whoever was inserting the row is through.  (The *)
(* statement also sends nil labels, which a NOT NULL column refuses before *)
(* it waits: the model lets it wait and succeed, as it would with labels.) *)
InsertParent(t) ==
  /\ txPc[t] = "parent"
  /\ BlockedBy(t) = {}
  /\ rowLock' = [rowLock EXCEPT ![ParentOf[t]] =
       IF ParentOf[t] \in rowKnown THEN @ ELSE {t}]
  /\ Moves(t, "commit")
  /\ UNCHANGED <<poolFree, rowKnown>>

(* The deletion's ListEdges begins a transaction of its own ... *)
ListEdgesBegin(t) ==
  /\ txPc[t] = "list"
  /\ poolFree > 0
  /\ poolFree' = poolFree - 1
  /\ Moves(t, "listing")
  /\ UNCHANGED <<rowLock, rowKnown>>

(* ... and ends it. *)
ListEdgesEnd(t) ==
  /\ txPc[t] = "listing"
  /\ poolFree' = poolFree + 1
  /\ Moves(t, "commit")
  /\ UNCHANGED <<rowLock, rowKnown>>

Unlocked(t) == [r \in Row |-> rowLock[r] \ {t}]
Holds(t) == {r \in Row : t \in rowLock[r]}

CommitTx(t) ==
  /\ txPc[t] = "commit"
  /\ poolFree' = poolFree + 1
  /\ rowKnown' = rowKnown \cup Holds(t)
  /\ rowLock' = Unlocked(t)
  /\ Moves(t, "done")

(* Mutant: a transaction that failed is not rolled back. *)
AbortTxLeaks(t) ==
  /\ poolFree' = poolFree
  /\ rowLock' = Unlocked(t)
  /\ Moves(t, "done")
  /\ UNCHANGED rowKnown

(* WithTenant's deferred rollback gives everything back. *)
AbortTx(t) ==
  /\ poolFree' = poolFree + 1
  /\ rowLock' = Unlocked(t)
  /\ Moves(t, "done")
  /\ UNCHANGED rowKnown

(* Transactions that wait for each other's rows in a circle. *)
Circle(ts) == ts # {} /\ \A t \in ts : BlockedBy(t) \cap ts # {}

(* PostgreSQL breaks a circle by failing one of its transactions. *)
DeadlockDetected(t) ==
  /\ \E ts \in SUBSET Tx : t \in ts /\ Circle(ts)
  /\ AbortTx(t)

PoolInit ==
  /\ poolFree = PoolSize
  /\ rowLock = [r \in Row |-> {}]
  /\ txPc = [t \in Tx |-> "idle"]
  /\ rowKnown \in {known \in SUBSET Row : {RowOf[t] : t \in SagaTx} \subseteq known}

PoolNext ==
  \E t \in Tx :
    \/ BeginTx(t) \/ LockRow(t)
    \/ t \in IntakeTx /\ (FindParent(t) \/ InsertParent(t))
    \/ ListEdgesBegin(t) \/ ListEdgesEnd(t)
    \/ CommitTx(t) \/ DeadlockDetected(t)

PoolSpec == PoolInit /\ [][PoolNext]_poolVars

-----------------------------------------------------------------------------
(* Properties *)

(* A transaction cannot go on: it waits for a connection or for a row. *)
Waits(t) ==
  \/ txPc[t] \in {"idle", "list"} /\ poolFree = 0
  \/ BlockedBy(t) # {}

Stuck ==
  /\ Unfinished # {}
  /\ \A t \in Unfinished : Waits(t)
  /\ ~\E ts \in SUBSET Tx : Circle(ts)

(* Everyone waits for everyone in one way only: a deletion that has locked *)
(* its row waits for its second connection, and every connection is taken, *)
(* by other deletions or by intakes that wait for its row.  With more      *)
(* connections than transactions under way it cannot happen.               *)
StuckOnlyByDeletion ==
  Stuck => \E t \in SagaTx :
    /\ txPc[t] = "list" /\ t \in rowLock[RowOf[t]]
    /\ Cardinality({u \in Unfinished : txPc[u] # "idle"}) >= PoolSize
=============================================================================
