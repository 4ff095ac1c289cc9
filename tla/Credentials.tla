---------------------------- MODULE Credentials ----------------------------
(***************************************************************************)
(* Agent API keys: creation, revocation and rotation by concurrent calls   *)
(* of administrators, in PostgreSQL or in memory.                          *)
(*                                                                         *)
(* In PostgreSQL a rotation is one READ COMMITTED transaction: its UPDATE  *)
(* sees the rows committed when it starts, takes their locks one by one,   *)
(* and rechecks a row it had to wait for.  In memory it copies the agent's *)
(* key ids, revokes them one after the other and creates the new key, each *)
(* under a lock of its own.                                                *)
(***************************************************************************)
CONSTANTS
  Key,     \* credentials, each made for one agent
  Agent,
  AgentOf, \* the agent of a credential
  Admin    \* concurrent administrative calls

ASSUME CredentialAssumption == AgentOf \in [Key -> Agent]

VARIABLES
  keyStore,   \* "postgres" or "memory"
  keyRow,     \* agent_credentials: each row as committed
  rotation,   \* each call's rotation: the new key, the rows still to be
              \* visited and the rows updated and locked; no new key: none
  revokedBy,  \* history: keys an administrator revoked by name
  overlapped, \* history: agents given a key while another worked or a
              \* rotation was under way
  before      \* history: the active keys a call's last rotation had to retire

credentialVars ==
  <<keyStore, keyRow, rotation, revokedBy, overlapped, before>>

ActiveKeys(a) == {k \in Key : AgentOf[k] = a /\ keyRow[k] = "active"}

NoRotation == [new |-> {}, todo |-> {}, locked |-> {}]

(* The rotations of an agent that are under way. *)
Rotating(a) == {p \in Admin : \E k \in rotation[p].new : AgentOf[k] = a}

LockedKey(k) == \E p \in Admin : k \in rotation[p].locked

FreshKey(k) == keyRow[k] = "none" /\ \A p \in Admin : k \notin rotation[p].new

(* CreateAgent: one INSERT. *)
CreateAgent(k) ==
  /\ FreshKey(k)
  /\ keyRow' = [keyRow EXCEPT ![k] = "active"]
  /\ overlapped' = overlapped \cup
       {a \in {AgentOf[k]} : ActiveKeys(a) # {} \/ Rotating(a) # {}}
  /\ UNCHANGED <<keyStore, rotation, revokedBy, before>>

(* RevokeAgent: one UPDATE, which waits for a row a rotation has locked. *)
RevokeAgent(k) ==
  /\ keyRow[k] # "none"
  /\ ~LockedKey(k)
  /\ keyRow' = [keyRow EXCEPT ![k] = "revoked"]
  /\ revokedBy' = revokedBy \cup {k}
  /\ UNCHANGED <<keyStore, rotation, overlapped, before>>

(* Mutant: the rows of every agent are taken. *)
RotateBeginAllAgents(p, k) ==
  /\ rotation[p].new = {}
  /\ FreshKey(k)
  /\ rotation' = [rotation EXCEPT
       ![p] = [new |-> {k}, todo |-> {o \in Key : keyRow[o] = "active"}, locked |-> {}]]
  /\ before' = [before EXCEPT ![p] = ActiveKeys(AgentOf[k])]
  /\ overlapped' = overlapped \cup {a \in {AgentOf[k]} : Rotating(a) # {}}
  /\ UNCHANGED <<keyStore, keyRow, revokedBy>>

(* RotateAgent: the UPDATE's snapshot, or the copy of the agent's ids (of  *)
(* which the revoked ones make no difference).                             *)
RotateBegin(p, k) ==
  /\ rotation[p].new = {}
  /\ FreshKey(k)
  /\ rotation' = [rotation EXCEPT
       ![p] = [new |-> {k}, todo |-> ActiveKeys(AgentOf[k]), locked |-> {}]]
  /\ before' = [before EXCEPT ![p] = ActiveKeys(AgentOf[k])]
  /\ overlapped' = overlapped \cup {a \in {AgentOf[k]} : Rotating(a) # {}}
  /\ UNCHANGED <<keyStore, keyRow, revokedBy>>

(* The UPDATE reaches a row that no other transaction holds, and leaves it *)
(* alone if it was revoked in the meantime.                                *)
RotateLock(p, o) ==
  /\ keyStore = "postgres"
  /\ o \in rotation[p].todo
  /\ ~LockedKey(o)
  /\ rotation' = [rotation EXCEPT
       ![p].todo = @ \ {o},
       ![p].locked = @ \cup {x \in {o} : keyRow[x] = "active"}]
  /\ UNCHANGED <<keyStore, keyRow, revokedBy, overlapped, before>>

(* Mutant: the new key is left to a transaction of its own. *)
RotateCommitNoInsert(p) ==
  /\ keyStore = "postgres"
  /\ rotation[p].new # {}
  /\ rotation[p].todo = {}
  /\ keyRow' = [k \in Key |->
       IF k \in rotation[p].locked THEN "revoked" ELSE keyRow[k]]
  /\ rotation' = [rotation EXCEPT ![p] = NoRotation]
  /\ UNCHANGED <<keyStore, revokedBy, overlapped, before>>

(* Mutant: the transaction ends before its UPDATE is through. *)
RotateCommitEarly(p) ==
  /\ keyStore = "postgres"
  /\ rotation[p].new # {}
  /\ keyRow' = [k \in Key |->
       IF k \in rotation[p].new THEN "active"
       ELSE IF k \in rotation[p].locked THEN "revoked" ELSE keyRow[k]]
  /\ rotation' = [rotation EXCEPT ![p] = NoRotation]
  /\ UNCHANGED <<keyStore, revokedBy, overlapped, before>>

(* Mutant: the rows keep their old value. *)
RotateCommitKeepsOld(p) ==
  /\ keyStore = "postgres"
  /\ rotation[p].new # {}
  /\ rotation[p].todo = {}
  /\ keyRow' = [k \in Key |-> IF k \in rotation[p].new THEN "active" ELSE keyRow[k]]
  /\ rotation' = [rotation EXCEPT ![p] = NoRotation]
  /\ before' = [before EXCEPT ![p] = {}]
  /\ UNCHANGED <<keyStore, revokedBy, overlapped>>

(* The INSERT and the commit. *)
RotateCommit(p) ==
  /\ keyStore = "postgres"
  /\ rotation[p].new # {}
  /\ rotation[p].todo = {}
  /\ keyRow' = [k \in Key |->
       IF k \in rotation[p].new THEN "active"
       ELSE IF k \in rotation[p].locked THEN "revoked" ELSE keyRow[k]]
  /\ rotation' = [rotation EXCEPT ![p] = NoRotation]
  /\ UNCHANGED <<keyStore, revokedBy, overlapped, before>>

(* An error, a lost connection, the victim of a deadlock: rolled back. *)
RotateAbort(p) ==
  /\ keyStore = "postgres"
  /\ rotation[p].new # {}
  /\ rotation' = [rotation EXCEPT ![p] = NoRotation]
  /\ before' = [before EXCEPT ![p] = {}]
  /\ UNCHANGED <<keyStore, keyRow, revokedBy, overlapped>>

(* In memory: the next of the copied ids is revoked. *)
RotateRevoke(p, o) ==
  /\ keyStore = "memory"
  /\ o \in rotation[p].todo
  /\ rotation' = [rotation EXCEPT ![p].todo = @ \ {o}]
  /\ keyRow' = [keyRow EXCEPT ![o] = "revoked"]
  /\ UNCHANGED <<keyStore, revokedBy, overlapped, before>>

(* In memory: then the new key is created. *)
RotateCreate(p) ==
  /\ keyStore = "memory"
  /\ rotation[p].new # {}
  /\ rotation[p].todo = {}
  /\ keyRow' = [k \in Key |-> IF k \in rotation[p].new THEN "active" ELSE keyRow[k]]
  /\ rotation' = [rotation EXCEPT ![p] = NoRotation]
  /\ UNCHANGED <<keyStore, revokedBy, overlapped, before>>

CredentialInit ==
  /\ keyStore \in {"postgres", "memory"}
  /\ keyRow = [k \in Key |-> "none"]
  /\ rotation = [p \in Admin |-> NoRotation]
  /\ revokedBy = {}
  /\ overlapped = {}
  /\ before = [p \in Admin |-> {}]

CredentialNext ==
  \/ \E k \in Key : CreateAgent(k) \/ RevokeAgent(k)
  \/ \E p \in Admin : \E k \in Key :
       RotateBegin(p, k) \/ RotateLock(p, k) \/ RotateRevoke(p, k)
  \/ \E p \in Admin : RotateCommit(p) \/ RotateAbort(p) \/ RotateCreate(p)

CredentialSpec == CredentialInit /\ [][CredentialNext]_credentialVars

-----------------------------------------------------------------------------
(* Properties *)

(* The shape of the store and of the rotations under way. *)
CredentialTypeOK ==
  /\ keyStore \in {"postgres", "memory"}
  /\ keyRow \in [Key -> {"none", "active", "revoked"}]
  /\ rotation \in [Admin -> [new : SUBSET Key, todo : SUBSET Key, locked : SUBSET Key]]
  /\ revokedBy \in SUBSET Key
  /\ overlapped \in SUBSET Agent
  /\ before \in [Admin -> SUBSET Key]

(* RotateAgentCredential: "revokes existing credentials for the agent".    *)
(* Whatever runs beside it, once a rotation has succeeded every key that   *)
(* worked when it began has stopped working, and stays so.                 *)
RotationRetires ==
  \A p \in Admin : rotation[p].new = {} =>
    \A o \in before[p] : keyRow[o] = "revoked"

(* RotateAgentCredential on PostgreSQL: "if either step fails the agent    *)
(* keeps its previous credential instead of being left with none".  No     *)
(* interleaving of rotations, failures and creations leaves an agent that  *)
(* was given a key without one; only a revocation by name does.            *)
NeverLeftWithout ==
  keyStore = "postgres" =>
    \A a \in Agent :
      \/ ActiveKeys(a) # {}
      \/ \A k \in Key : AgentOf[k] = a => keyRow[k] = "none"
      \/ \E k \in revokedBy : AgentOf[k] = a

(* Nothing in the schema makes an agent's active key unique: what keeps it *)
(* so is that rotations run one at a time.  An agent with two working keys *)
(* was given a second one, or was rotated twice at once.                   *)
TwoKeysOnlyByOverlap ==
  \A a \in Agent : a \notin overlapped =>
    \A k, l \in ActiveKeys(a) : k = l

(* What a rotation promises however rotations, creations, revocations and  *)
(* failures interleave: the old keys are retired, the agent is never left  *)
(* without one, and it has a second one only after an overlap.             *)
RotationIsSafe == RotationRetires /\ NeverLeftWithout /\ TwoKeysOnlyByOverlap

(* The store is a key ring: between the steps of a rotation nothing shows, *)
(* in PostgreSQL, until its commit replaces the keys at once; in memory a  *)
(* rotation is a series of withdrawals and an issue.                       *)
Ring == INSTANCE KeyRing WITH
  ring <- {k \in Key : keyRow[k] = "active"},
  issued <- {k \in Key : keyRow[k] # "none"}

ImplementsKeyRing == Ring!KeyRingSpec
=============================================================================
