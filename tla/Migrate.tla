------------------------------ MODULE Migrate ------------------------------
(***************************************************************************)
(* The migration runner and the probe that looks for its work.  A run      *)
(* takes the files in order: it looks a version up, executes the file and  *)
(* then records the version, three statements that no transaction or lock  *)
(* joins.  Runs may overlap, fail and die; the next one starts again.      *)
(*                                                                         *)
(* A file is executed as a whole or not at all (one simple-protocol        *)
(* message) and may be executed again.  What a later file replaces, such   *)
(* as a function, is one object here.  The role that the tables are        *)
(* granted to is made by no migration but when the database is set up.     *)
(***************************************************************************)
EXTENDS Naturals

CONSTANTS
  LastVersion,      \* the files are 1..LastVersion, sorted by name
  Replaces,         \* the versions whose file writes the object
  MigrateRun,       \* concurrent runs
  MaxMigrateFaults  \* bound: failed statements and crashes

Version == 1..LastVersion

ASSUME MigrateAssumption ==
  /\ LastVersion \in Nat \ {0}
  /\ Replaces \subseteq Version
  /\ MaxMigrateFaults \in Nat

VARIABLES
  applied,       \* versions whose file was executed
  recorded,      \* schema_migrations
  inForce,       \* the version that last wrote the object, 0 if none did
  granted,       \* versions whose tables the gateway role was granted
  migRun,        \* each run: where it is, and at which version
  roleExists,    \* the database has the role context_gateway
  probe,         \* CheckApplied: the version it looks up next, or its answer
  migOverlap,    \* history: two runs were under way at once
  migrateFaults  \* history: failures so far

migrateVars ==
  <<applied, recorded, inForce, granted, migRun, probe, roleExists, migOverlap,
    migrateFaults>>

IdleRun == [pc |-> "idle", at |-> 0]

(* A run has not begun or has failed, has ended with its grants, or has    *)
(* ended without them.                                                     *)
AtRest == {"idle", "done", "ungranted"}
RunsUnderWay == {r \in MigrateRun : migRun[r].pc \notin AtRest}

RunMoves(r, pc, at) == migRun' = [migRun EXCEPT ![r] = [pc |-> pc, at |-> at]]

(* After a version comes the next one, or the grants. *)
NextFile(r, v) ==
  IF v = LastVersion THEN RunMoves(r, "grant", v) ELSE RunMoves(r, "check", v + 1)

(* Run: schema_migrations is created if it is not there. *)
RunStarts(r) ==
  /\ migRun[r].pc \in AtRest
  /\ RunMoves(r, "check", 1)
  /\ migOverlap' = (migOverlap \/ RunsUnderWay # {})
  /\ UNCHANGED <<applied, recorded, inForce, granted, probe, roleExists, migrateFaults>>

(* Mutant: every file is executed again. *)
CheckVersionNever(r) ==
  /\ migRun[r].pc = "check"
  /\ RunMoves(r, "exec", migRun[r].at)
  /\ UNCHANGED <<applied, recorded, inForce, granted, probe, roleExists, migOverlap, migrateFaults>>

(* A recorded version is skipped. *)
CheckVersion(r) ==
  /\ migRun[r].pc = "check"
  /\ LET v == migRun[r].at IN
     IF v \in recorded THEN NextFile(r, v) ELSE RunMoves(r, "exec", v)
  /\ UNCHANGED <<applied, recorded, inForce, granted, probe, roleExists, migOverlap, migrateFaults>>

ExecFile(r) ==
  /\ migRun[r].pc = "exec"
  /\ LET v == migRun[r].at IN
     /\ applied' = applied \cup {v}
     /\ inForce' = IF v \in Replaces THEN v ELSE inForce
     /\ RunMoves(r, "record", v)
  /\ UNCHANGED <<recorded, granted, probe, roleExists, migOverlap, migrateFaults>>

(* The primary key refuses a version that another run has recorded, and    *)
(* the run ends with that error.                                           *)
RecordVersion(r) ==
  /\ migRun[r].pc = "record"
  /\ LET v == migRun[r].at IN
     /\ recorded' = recorded \cup {v}
     /\ IF v \in recorded THEN migRun' = [migRun EXCEPT ![r] = IdleRun] ELSE NextFile(r, v)
  /\ UNCHANGED <<applied, inForce, granted, probe, roleExists, migOverlap, migrateFaults>>

(* Every table there is by now.  Without the role there is only a notice:  *)
(* the run ends well, and says that the privileges are ensured.            *)
GrantPrivileges(r) ==
  /\ migRun[r].pc = "grant"
  /\ IF roleExists
       THEN granted' = granted \cup applied /\ RunMoves(r, "done", migRun[r].at)
       ELSE granted' = granted /\ RunMoves(r, "ungranted", migRun[r].at)
  /\ UNCHANGED <<applied, recorded, inForce, probe, roleExists, migOverlap, migrateFaults>>

(* Bootstrap refuses without the core tables, which the first file makes,  *)
(* and grants again, if there is the role.                                 *)
BootstrapGrants ==
  /\ 1 \in applied
  /\ granted' = IF roleExists THEN granted \cup applied ELSE granted
  /\ UNCHANGED <<applied, recorded, inForce, migRun, probe, roleExists, migOverlap, migrateFaults>>

(* The set-up of the database makes the role. *)
RoleCreated ==
  /\ ~roleExists
  /\ roleExists' = TRUE
  /\ UNCHANGED <<applied, recorded, inForce, granted, migRun, probe, migOverlap, migrateFaults>>

(* A statement fails, or the process dies between two of them. *)
RunFails(r) ==
  /\ r \in RunsUnderWay
  /\ migrateFaults < MaxMigrateFaults
  /\ migrateFaults' = migrateFaults + 1
  /\ migRun' = [migRun EXCEPT ![r] = IdleRun]
  /\ UNCHANGED <<applied, recorded, inForce, granted, probe, roleExists, migOverlap>>

(* Mutant: the probe is content with the first version. *)
CheckAppliedAny ==
  /\ probe \in Version
  /\ probe' = IF probe \notin recorded THEN 0 ELSE LastVersion + 1
  /\ UNCHANGED <<applied, recorded, inForce, granted, migRun, roleExists, migOverlap, migrateFaults>>

(* CheckApplied looks the versions up one by one; 0 is its refusal. *)
CheckApplied ==
  /\ probe \in Version
  /\ probe' = IF probe \notin recorded THEN 0 ELSE probe + 1
  /\ UNCHANGED <<applied, recorded, inForce, granted, migRun, roleExists, migOverlap, migrateFaults>>

(* The readiness probe is asked again. *)
ProbeAgain ==
  /\ probe \notin Version
  /\ probe' = 1
  /\ UNCHANGED <<applied, recorded, inForce, granted, migRun, roleExists, migOverlap, migrateFaults>>

MigrateInit ==
  /\ applied = {}
  /\ recorded = {}
  /\ inForce = 0
  /\ granted = {}
  /\ migRun = [r \in MigrateRun |-> IdleRun]
  /\ probe = 1
  /\ roleExists \in BOOLEAN
  /\ migOverlap = FALSE
  /\ migrateFaults = 0

MigrateNext ==
  \/ \E r \in MigrateRun :
       \/ RunStarts(r) \/ CheckVersion(r) \/ ExecFile(r) \/ RecordVersion(r)
       \/ GrantPrivileges(r) \/ RunFails(r)
  \/ CheckApplied \/ ProbeAgain \/ BootstrapGrants \/ RoleCreated

MigrateSpec == MigrateInit /\ [][MigrateNext]_migrateVars

-----------------------------------------------------------------------------
(* Properties *)

(* However runs overlap and die, a readiness probe that finds every        *)
(* migration, and a run that ends well, mean that every file was executed; *)
(* if the run found the gateway role, every table is granted to it.        *)
MigratedIsServable ==
  /\ probe = LastVersion + 1 => applied = Version
  /\ \A r \in MigrateRun :
       /\ migRun[r].pc = "ungranted" => applied = Version
       /\ migRun[r].pc = "done" => applied = Version /\ granted = Version

(* An older file is executed over a newer one only if two runs overlapped: *)
(* crashes and repeated runs alone never put back what a recorded          *)
(* migration replaced.  (With an overlap they do: a slow run executes the  *)
(* file it looked up before the other run went on.)                        *)
OlderOnlyByOverlap ==
  ~migOverlap => \A v \in recorded \cap Replaces : inForce >= v

(* Migrations may die, be repeated and overlap: what is reported as        *)
(* migrated is, and only an overlap puts an old definition back.           *)
MigrationIsSound == MigratedIsServable /\ OlderOnlyByOverlap
=============================================================================
