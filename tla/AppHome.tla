------------------------------ MODULE AppHome ------------------------------
(***************************************************************************)
(* The app home across launches: bootstrap_home, the pending factory reset *)
(* it applies first, the backup and the migrations of the database, and    *)
(* the process that dies anywhere in between.  One process at a time runs  *)
(* on a home (the single-instance plugin).                                 *)
(***************************************************************************)
EXTENDS Naturals

CONSTANTS
  Builds,  \* schema versions of the builds a user installs, one at a time
  MaxData, \* bound: changes of user data
  Faults   \* what may go wrong: see HomeFaultKinds

HomeFaultKinds ==
  { "crash",   \* the process dies at any step
    "io",      \* a file operation fails
    "locked" } \* another program holds a file that is to be deleted

ASSUME BuildsAssumption == Builds \subseteq Nat \ {0} /\ Builds # {}
ASSUME DataAssumption == MaxData \in Nat
ASSUME HomeFaultsAssumption == Faults \subseteq HomeFaultKinds

\* What a reset deletes besides its own marker and the home itself.
Parts == {"database", "config", "bootMarker"}

VARIABLES
  pc,          \* the step of the process, "down" when there is none
  build,       \* schema version of the installed build
  home,        \* the home directory exists
  parts,       \* the parts of it that exist
  resetMarker, \* .factory-reset-requested exists
  version,     \* schema version of the database
  data,        \* user data in it: the number of changes made
  backups,     \* complete database backups: [version, data]
  existed,     \* this launch found a database
  before,      \* ... of this version
  recovered,   \* recovered_from_interrupt as this launch reports it
  \* history
  asked,       \* a reset was requested and is not complete
  prior        \* how the last launch on this home ended

vars == <<pc, build, home, parts, resetMarker, version, data, backups,
          existed, before, recovered, asked, prior>>

Booting == {"resetting", "erasing", "entering", "marking", "configuring",
            "opening", "backing", "migrating", "clearing"}

Init ==
  /\ pc = "down"
  /\ build \in Builds
  /\ home = FALSE /\ parts = {} /\ resetMarker = FALSE
  /\ version = 0 /\ data = 0 /\ backups = {}
  /\ existed = FALSE /\ before = 0 /\ recovered = FALSE
  /\ asked = FALSE /\ prior = "none"

\* The user installs another build, newer or older.
Install(b) ==
  /\ pc = "down"
  /\ build' = b
  /\ UNCHANGED <<pc, home, parts, resetMarker, version, data, backups,
                 existed, before, recovered, asked, prior>>

Launch ==
  /\ pc = "down"
  /\ pc' = "resetting"
  /\ UNCHANGED <<build, home, parts, resetMarker, version, data, backups,
                 existed, before, recovered, asked, prior>>

-----------------------------------------------------------------------------
(* The factory reset                                                       *)

ApplyReset ==
  /\ pc = "resetting"
  /\ pc' = IF resetMarker THEN "erasing" ELSE "entering"
  /\ UNCHANGED <<build, home, parts, resetMarker, version, data, backups,
                 existed, before, recovered, asked, prior>>

\* remove_dir_all deletes the entries of the home in an order of its own,
\* the marker among them, and the directory last.
Erase(p) ==
  /\ pc = "erasing"
  /\ p \in parts
  /\ parts' = parts \ {p}
  /\ version' = IF p = "database" THEN 0 ELSE version
  /\ data' = IF p = "database" THEN 0 ELSE data
  /\ UNCHANGED <<pc, build, home, resetMarker, backups, existed, before,
                 recovered, asked, prior>>

EraseMarker ==
  /\ pc = "erasing"
  /\ resetMarker
  /\ resetMarker' = FALSE
  /\ UNCHANGED <<pc, build, home, parts, version, data, backups, existed,
                 before, recovered, asked, prior>>

EraseBackups ==
  /\ pc = "erasing"
  /\ backups # {}
  /\ backups' = {}
  /\ UNCHANGED <<pc, build, home, parts, resetMarker, version, data, existed,
                 before, recovered, asked, prior>>

EraseHome ==
  /\ pc = "erasing"
  /\ parts = {} /\ backups = {} /\ ~resetMarker
  /\ home' = FALSE
  /\ asked' = FALSE /\ prior' = "none"
  /\ pc' = "entering"
  /\ UNCHANGED <<build, parts, resetMarker, version, data, backups, existed,
                 before, recovered>>

\* Something cannot be deleted: the marker is written again, errors of that
\* write ignored, and the launch fails.
EraseFails ==
  /\ "locked" \in Faults
  /\ pc = "erasing"
  /\ \/ resetMarker' = TRUE
     \/ "io" \in Faults /\ UNCHANGED resetMarker
  /\ pc' = "down"
  /\ UNCHANGED <<build, home, parts, version, data, backups, existed, before,
                 recovered, asked, prior>>

-----------------------------------------------------------------------------
(* bootstrap_home                                                          *)

\* Look for the marker of an interrupted bootstrap; create the home.
Enter ==
  /\ pc = "entering"
  /\ recovered' = ("bootMarker" \in parts)
  /\ home' = TRUE
  /\ pc' = "marking"
  /\ UNCHANGED <<build, parts, resetMarker, version, data, backups, existed,
                 before, asked, prior>>

Mark ==
  /\ pc = "marking"
  /\ parts' = parts \cup {"bootMarker"}
  /\ pc' = "configuring"
  /\ UNCHANGED <<build, home, resetMarker, version, data, backups, existed,
                 before, recovered, asked, prior>>

\* The directory tree and the configuration files, with defaults for those
\* that are missing.
Configure ==
  /\ pc = "configuring"
  /\ parts' = parts \cup {"config"}
  /\ pc' = "opening"
  /\ UNCHANGED <<build, home, resetMarker, version, data, backups, existed,
                 before, recovered, asked, prior>>

\* Mutant: a database is backed up before the last migration only.
OpenComparesWrong ==
  /\ pc = "opening"
  /\ existed' = ("database" \in parts)
  /\ parts' = parts \cup {"database"}
  /\ before' = version
  /\ pc' = IF existed' /\ version + 1 = build THEN "backing" ELSE "migrating"
  /\ UNCHANGED <<build, home, resetMarker, version, data, backups, recovered,
                 asked, prior>>

\* Opening creates the file; a database that was there and is older than
\* this build is backed up.
Open ==
  /\ pc = "opening"
  /\ existed' = ("database" \in parts)
  /\ parts' = parts \cup {"database"}
  /\ before' = version
  /\ pc' = IF existed' /\ version < build THEN "backing" ELSE "migrating"
  /\ UNCHANGED <<build, home, resetMarker, version, data, backups, recovered,
                 asked, prior>>

\* backup_to: complete and verified, or removed and the launch fails.
Backup ==
  /\ pc = "backing"
  /\ backups' = backups \cup {[version |-> version, data |-> data]}
  /\ pc' = "migrating"
  /\ UNCHANGED <<build, home, parts, resetMarker, version, data, existed,
                 before, recovered, asked, prior>>

\* One migration, in a transaction of its own.
Migrate ==
  /\ pc = "migrating"
  /\ version < build
  /\ version' = version + 1
  /\ UNCHANGED <<pc, build, home, parts, resetMarker, data, backups, existed,
                 before, recovered, asked, prior>>

\* Mutant: a newer database is used as it is.
MigratedUnchecked ==
  /\ pc = "migrating"
  /\ version >= build
  /\ pc' = "clearing"
  /\ UNCHANGED <<build, home, parts, resetMarker, version, data, backups,
                 existed, before, recovered, asked, prior>>

Migrated ==
  /\ pc = "migrating"
  /\ version = build
  /\ pc' = "clearing"
  /\ UNCHANGED <<build, home, parts, resetMarker, version, data, backups,
                 existed, before, recovered, asked, prior>>

\* Mutant: a database that cannot be used is replaced by an empty one.
ReplaceDatabase ==
  /\ pc = "migrating"
  /\ version > build
  /\ version' = 0 /\ data' = 0
  /\ UNCHANGED <<pc, build, home, parts, resetMarker, backups, existed, before,
                 recovered, asked, prior>>

\* Mutant: a launch that is refused removes its marker on the way out.
RefuseAndClear ==
  /\ pc = "migrating"
  /\ version > build
  /\ pc' = "down"
  /\ parts' = parts \ {"bootMarker"}
  /\ prior' = "unfinished"
  /\ UNCHANGED <<build, home, resetMarker, version, data, backups, existed,
                 before, recovered, asked>>

\* SchemaTooNew: an older build refuses the database.
RefuseDatabase ==
  /\ pc = "migrating"
  /\ version > build
  /\ pc' = "down"
  /\ prior' = "unfinished"
  /\ UNCHANGED <<build, home, parts, resetMarker, version, data, backups,
                 existed, before, recovered, asked>>

\* The bootstrap is finished; failing to remove the marker is ignored.
Clear ==
  /\ pc = "clearing"
  /\ \/ parts' = parts \ {"bootMarker"}
     \/ "io" \in Faults /\ UNCHANGED parts
  /\ pc' = "up"
  /\ UNCHANGED <<build, home, resetMarker, version, data, backups, existed,
                 before, recovered, asked, prior>>

\* Any step of the bootstrap fails, or the process dies in it.
Interrupted ==
  /\ pc \in Booting
  /\ {"crash", "io"} \cap Faults # {}
  /\ pc = "erasing" => "crash" \in Faults
  /\ pc' = "down"
  /\ prior' = IF pc \notin {"resetting", "erasing", "entering", "marking"}
                THEN "unfinished" ELSE prior
  /\ UNCHANGED <<build, home, parts, resetMarker, version, data, backups,
                 existed, before, recovered, asked>>

-----------------------------------------------------------------------------
(* The running application                                                 *)

Change ==
  /\ pc = "up"
  /\ data < MaxData
  /\ data' = data + 1
  /\ UNCHANGED <<pc, build, home, parts, resetMarker, version, backups, existed,
                 before, recovered, asked, prior>>

\* It quits, or dies.
Quit ==
  /\ pc = "up"
  /\ pc' = "down"
  /\ prior' = "finished"
  /\ UNCHANGED <<build, home, parts, resetMarker, version, data, backups,
                 existed, before, recovered, asked>>

\* request_factory_reset writes its marker and the application restarts.
RequestReset ==
  /\ pc = "up"
  /\ resetMarker' = TRUE /\ asked' = TRUE
  /\ pc' = "down"
  /\ prior' = "finished"
  /\ UNCHANGED <<build, home, parts, version, data, backups, existed, before,
                 recovered>>

Next ==
  \/ \E b \in Builds : Install(b)
  \/ \E p \in Parts : Erase(p)
  \/ Launch \/ ApplyReset \/ EraseMarker \/ EraseBackups \/ EraseHome \/ EraseFails
  \/ Enter \/ Mark \/ Configure \/ Open \/ Backup
  \/ Migrate \/ Migrated \/ RefuseDatabase \/ Clear \/ Interrupted
  \/ Change \/ Quit \/ RequestReset

Spec == Init /\ [][Next]_vars

-----------------------------------------------------------------------------
(* Properties                                                              *)

Versions == {0} \cup UNION {1 .. b : b \in Builds}

\* The shape of every variable.
HomeTypeOK ==
  /\ pc \in Booting \cup {"down", "up"}
  /\ build \in Builds
  /\ home \in BOOLEAN /\ resetMarker \in BOOLEAN
  /\ parts \subseteq Parts
  /\ version \in Versions /\ before \in Versions
  /\ data \in 0 .. MaxData
  /\ backups \subseteq [version : Versions, data : 0 .. MaxData]
  /\ existed \in BOOLEAN /\ recovered \in BOOLEAN /\ asked \in BOOLEAN
  /\ prior \in {"none", "finished", "unfinished"}

\* The application runs only on a complete home whose database has exactly
\* the schema of its build, whatever interrupted the launches before.
UpMeansReady ==
  pc = "up" =>
    home /\ {"database", "config"} \subseteq parts /\ version = build

\* No migration touches user data that has not been backed up as it was
\* before this launch's first migration, crashes between migrations
\* included (ADR 0004; bootstrap_home).
BackupBeforeMigration ==
  [][version' > version /\ data # 0 =>
       [version |-> before, data |-> data] \in backups]_vars

\* User data goes away by a reset that was asked for, never by installing
\* an older or newer build.
DataIsKept ==
  [][data' < data => asked]_vars

\* A launch reports a recovery whenever the one before it on this home got
\* as far as its marker and did not finish, however it ended and whatever a
\* reset had deleted (bootstrap_home, recovered_from_interrupt).
RecoveryIsReported ==
  /\ pc \in Booting \ {"resetting", "erasing", "entering"}
  /\ prior = "unfinished"
  => recovered

\* No launch runs on a home that a reset has half deleted (home.rs: "instead
\* of silently starting against a partially deleted app home").
NoPartialHome == pc = "up" => ~asked
=============================================================================
