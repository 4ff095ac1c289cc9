----------------------------- MODULE MCService ------------------------------
(***************************************************************************)
(* The service's request-handling components in one model-checking run.    *)
(* They share no state in the model, and each property speaks of one of    *)
(* them, so the run explores each component on its own: the variable part  *)
(* names the one that moves, and the others rest in one initial state.     *)
(***************************************************************************)
EXTENDS MCIntake, Identity, ChangeFeed, Quota, Credentials, Gate, Sources,
        MCMapping, Export, MemoryLedger, Pool, Migrate, Lifecycle

(***************************************************************************)
(* Values of the constants.                                                *)
(***************************************************************************)

(* Three keys of one agent and one of another. *)
MCAgentOf == [k \in Key |-> IF k = "other" THEN "agent2" ELSE "agent1"]

(* One token that names its key and expires, one that names none, one of a *)
(* key never published and one for another audience.                       *)
MCToken ==
  { [signer |-> "old", kid |-> "old", exp |-> 2, sound |-> TRUE],
    [signer |-> "new", kid |-> NoKid, exp |-> 3, sound |-> TRUE],
    [signer |-> Rogue, kid |-> "old", exp |-> 3, sound |-> TRUE],
    [signer |-> "new", kid |-> "new", exp |-> 3, sound |-> FALSE] }

(* An administrator and a member of the same organisation; bob is also in  *)
(* the group of platform administrators.                                   *)
MCHomeOf == [p \in Person |-> "o1"]
MCScopes == [p \in Person |-> scopesForRole(IF p = "ann" THEN "admin" ELSE "member")]

(* A stored row limits one operation at a time. *)
OneLimitSet == qStored.own = 0 \/ qStored.other = 0

(* Deliveries of one event under two keys, with an edge to be synchronised *)
(* or not, and without one.                                                *)
MCMemRequest ==
  { [key |-> "k1", event |-> "e1", res |-> "x", to |-> "y", sync |-> TRUE],
    [key |-> "k2", event |-> "e1", res |-> "x", to |-> "y", sync |-> FALSE],
    [key |-> "k2", event |-> "e1", res |-> "y", to |-> "", sync |-> FALSE] }

(* The two calls are interchangeable.  Relays publish two events without   *)
(* edges; beside authorisation workers one edge makes a row to write and   *)
(* one to delete; two intakes of one edge race with its deletion alone.    *)
MemInOrder ==
  LET r1 == memCall["m1"].req  r2 == memCall["m2"].req IN
  /\ memLoop = "outbox" => r1.to = "" /\ r2.to = ""
  /\ memLoop = "tuple" => r1.sync /\ r2.to = ""
  /\ memLoop = "none" => r1.sync

(* Intakes i1 and i2 name each other's resource; i3 and the deletion d1    *)
(* work on the same one.                                                   *)
MCRowOf == [i1 |-> "x", i2 |-> "y", i3 |-> "z", d1 |-> "z"]
MCParentOf == [i1 |-> "y", i2 |-> "x", i3 |-> "x"]

(***************************************************************************)
(* The run.                                                                *)
(***************************************************************************)

VARIABLE part

Parts == {"intake", "feed", "quota", "credentials", "identity", "gate",
          "sources", "mapping", "export", "memory", "pool",
          "migrate", "lifecycle"}

(* A component that does not move has one initial state. *)
Rests(p, fixed) == part = p \/ fixed

ServiceInit ==
  /\ part \in Parts
  /\ IntakeInit /\ (InOrder(KeyRequests) \/ InOrder(FactRequests))
  /\ Rests("intake", req = [c \in Call |-> CHOOSE r \in Request : TRUE])
  /\ FeedInit
  /\ QuotaInit /\ IF part = "quota" THEN OneLimitSet ELSE qStored = NoLimits
  /\ CredentialInit /\ Rests("credentials", keyStore = "postgres")
  /\ IdentityInit
  /\ GateInit
  /\ SourcesInit /\ Rests("sources", srcStore = "postgres")
  /\ MappingInit
  /\ IF part = "mapping" THEN MapSources
     ELSE mapStore = "postgres" /\ registered = CHOOSE reg \in Registrations : TRUE
  /\ ExportInit /\ Rests("export", exStore = "postgres" /\ exInto = "postgres")
  /\ MemoryInit
  /\ IF part = "memory" THEN MemInOrder
     ELSE /\ memLoop = "outbox"
          /\ memCall = [c \in MemCall |->
                          [pc |-> "idle", req |-> CHOOSE r \in MemRequest : TRUE]]
  /\ PoolInit /\ Rests("pool", rowKnown = Row)
  /\ MigrateInit /\ Rests("migrate", roleExists)
  /\ LifeInit /\ Rests("lifecycle", role = "serve" /\ lifeStore = "postgres")

ServiceNext ==
  \/ /\ part = "intake" /\ IntakeNext
     /\ UNCHANGED <<feedVars, quotaVars, credentialVars, identityVars, gateVars,
                    sourceVars, mapVars, exVars, memVars, poolVars, migrateVars, lifeVars, part>>
  \/ /\ part = "feed" /\ FeedNext
     /\ UNCHANGED <<intakeVars, quotaVars, credentialVars, identityVars, gateVars,
                    sourceVars, mapVars, exVars, memVars, poolVars, migrateVars, lifeVars, part>>
  \/ /\ part = "quota" /\ QuotaNext /\ OneLimitSet'
     /\ UNCHANGED <<intakeVars, feedVars, credentialVars, identityVars, gateVars,
                    sourceVars, mapVars, exVars, memVars, poolVars, migrateVars, lifeVars, part>>
  \/ /\ part = "credentials" /\ CredentialNext
     /\ UNCHANGED <<intakeVars, feedVars, quotaVars, identityVars, gateVars,
                    sourceVars, mapVars, exVars, memVars, poolVars, migrateVars, lifeVars, part>>
  \/ /\ part = "identity" /\ IdentityNext
     /\ UNCHANGED <<intakeVars, feedVars, quotaVars, credentialVars, gateVars,
                    sourceVars, mapVars, exVars, memVars, poolVars, migrateVars, lifeVars, part>>
  \/ /\ part = "gate" /\ GateNext
     /\ UNCHANGED <<intakeVars, feedVars, quotaVars, credentialVars, identityVars,
                    sourceVars, mapVars, exVars, memVars, poolVars, migrateVars, lifeVars, part>>
  \/ /\ part = "sources" /\ SourcesNext
     /\ UNCHANGED <<intakeVars, feedVars, quotaVars, credentialVars, identityVars,
                    gateVars, mapVars, exVars, memVars, poolVars, migrateVars, lifeVars, part>>
  \/ /\ part = "mapping" /\ MappingNext
     /\ UNCHANGED <<intakeVars, feedVars, quotaVars, credentialVars, identityVars,
                    gateVars, sourceVars, exVars, memVars, poolVars, migrateVars, lifeVars, part>>
  \/ /\ part = "export" /\ ExportNext
     /\ UNCHANGED <<intakeVars, feedVars, quotaVars, credentialVars, identityVars,
                    gateVars, sourceVars, mapVars, memVars, poolVars, migrateVars, lifeVars, part>>
  \/ /\ part = "memory" /\ MemoryNext
     /\ UNCHANGED <<intakeVars, feedVars, quotaVars, credentialVars, identityVars,
                    gateVars, sourceVars, mapVars, exVars, poolVars, migrateVars, lifeVars, part>>
  \/ /\ part = "pool" /\ PoolNext
     /\ UNCHANGED <<intakeVars, feedVars, quotaVars, credentialVars, identityVars,
                    gateVars, sourceVars, mapVars, exVars, memVars, migrateVars, lifeVars, part>>
  \/ /\ part = "migrate" /\ MigrateNext
     /\ UNCHANGED <<intakeVars, feedVars, quotaVars, credentialVars, identityVars,
                    gateVars, sourceVars, mapVars, exVars, memVars, poolVars,
                    lifeVars, part>>
  \/ /\ part = "lifecycle" /\ LifeNext
     /\ UNCHANGED <<intakeVars, feedVars, quotaVars, credentialVars, identityVars,
                    gateVars, sourceVars, mapVars, exVars, memVars, poolVars,
                    migrateVars, part>>

serviceVars ==
  <<intakeVars, feedVars, quotaVars, credentialVars, identityVars, gateVars,
    sourceVars, mapVars, exVars, memVars, poolVars, migrateVars, lifeVars, part>>

ServiceSpec == ServiceInit /\ [][ServiceNext]_serviceVars
=============================================================================
