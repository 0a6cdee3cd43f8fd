--------------------------- MODULE AppHomeProofs ---------------------------
(***************************************************************************)
(* What the app home promises, for any builds, any amount of data and any  *)
(* faults.  The invariant says how far a launch has come at each step, that *)
(* a deletion has been asked for, and what has been backed up while the    *)
(* migrations run.                                                         *)
(***************************************************************************)
EXTENDS AppHome, TLAPS

\* What each step of a launch finds done by the steps before it.
Progress ==
  /\ pc \in {"marking", "configuring", "opening", "backing", "migrating", "clearing", "up"}
       => home
  /\ pc \in {"opening", "backing", "migrating", "clearing", "up"} => "config" \in parts
  /\ pc \in {"backing", "migrating", "clearing", "up"} => "database" \in parts
  /\ pc \in {"clearing", "up"} => version = build

\* A reset that is being applied was asked for.
Requested ==
  /\ resetMarker => asked
  /\ pc = "erasing" => asked

\* No database, no data; and what the migrations of this launch start from
\* is in a backup if it holds data.
Saved ==
  /\ "database" \notin parts => data = 0 /\ version = 0
  /\ pc = "backing" => version = before
  /\ pc = "migrating" /\ version < build /\ data # 0
       => [version |-> before, data |-> data] \in backups

\* An unfinished launch leaves its marker, and no reset is pending after it.
Reported ==
  /\ prior = "unfinished" => ~resetMarker /\ pc # "erasing"
  /\ pc \in Booting \ {"resetting", "erasing"} => ~resetMarker
  /\ prior = "unfinished" /\ pc # "up" => "bootMarker" \in parts
  /\ pc \in {"configuring", "opening", "backing", "migrating", "clearing"}
       => "bootMarker" \in parts
  /\ RecoveryIsReported

Inv == HomeTypeOK /\ Progress /\ Requested /\ Saved /\ Reported

-----------------------------------------------------------------------------

\* The next version is a version as long as the build has it.
LEMMA NextVersion == ASSUME HomeTypeOK, version < build PROVE version + 1 \in Versions
<1>1. version \in Nat /\ build \in Nat \ {0}
  BY BuildsAssumption DEF HomeTypeOK, Versions
<1>2. version + 1 \in 1 .. build
  BY <1>1
<1>3. 1 .. build \in {1 .. b : b \in Builds}
  BY DEF HomeTypeOK
<1> QED
  BY <1>2, <1>3 DEF Versions

LEMMA VersionsAreNumbers == Versions \subseteq Nat
BY BuildsAssumption DEF Versions

\* The initial states satisfy the invariant.
LEMMA InitInv == Init => Inv
<1> SUFFICES ASSUME Init PROVE Inv
  OBVIOUS
<1>0. 0 \in Versions /\ 0 \in 0 .. MaxData
  BY DataAssumption DEF Versions
<1>1. HomeTypeOK
  BY <1>0 DEF Init, HomeTypeOK, Booting
<1>2. Progress /\ Requested /\ Saved /\ Reported
  BY DEF Init, Progress, Requested, Saved, Reported, RecoveryIsReported, Booting
<1> QED
  BY <1>1, <1>2 DEF Inv

\* Every step preserves the type invariant.
LEMMA TypeStep == HomeTypeOK /\ [Next]_vars => HomeTypeOK'
<1> SUFFICES ASSUME HomeTypeOK, [Next]_vars PROVE HomeTypeOK'
  OBVIOUS
<1> USE DEF HomeTypeOK, Booting
<1>1. ASSUME NEW b \in Builds, Install(b) PROVE HomeTypeOK'
  BY <1>1 DEF Install
<1>2. ASSUME NEW p \in Parts, Erase(p) PROVE HomeTypeOK'
  BY <1>2, DataAssumption DEF Erase, Versions
<1>3. CASE Launch \/ ApplyReset \/ EraseMarker \/ EraseBackups \/ EraseHome \/ EraseFails
  BY <1>3 DEF Launch, ApplyReset, EraseMarker, EraseBackups, EraseHome, EraseFails
<1>4. CASE Mark \/ Configure
  BY <1>4 DEF Mark, Configure, Parts
<1>12. CASE Enter
  <2>1. recovered' \in BOOLEAN
    BY <1>12 DEF Enter
  <2>2. /\ home' = TRUE /\ pc' = "marking"
        /\ UNCHANGED <<build, parts, resetMarker, version, data, backups, existed,
                        before, asked, prior>>
    BY <1>12, Zenon DEF Enter
  <2> QED
    BY <2>1, <2>2
<1>11. CASE Open
  BY <1>11 DEF Open, Parts
<1>5. CASE Backup
  BY <1>5 DEF Backup
<1>6. CASE Migrate
  <2>1. version' \in Versions
    BY <1>6, NextVersion DEF Migrate
  <2> QED
    BY <1>6, <2>1 DEF Migrate
<1>7. CASE Migrated \/ RefuseDatabase \/ Clear \/ Interrupted
  BY <1>7 DEF Migrated, RefuseDatabase, Clear, Interrupted
<1>8. CASE Change
  BY <1>8, DataAssumption DEF Change
<1>9. CASE Quit \/ RequestReset
  BY <1>9 DEF Quit, RequestReset
<1>10. CASE UNCHANGED vars
  BY <1>10 DEF vars
<1> QED
  BY <1>1, <1>2, <1>3, <1>4, <1>5, <1>6, <1>7, <1>8, <1>9, <1>10, <1>11, <1>12 DEF Next

\* Every step preserves the invariant.
LEMMA NextInv == Inv /\ [Next]_vars => Inv'
<1> SUFFICES ASSUME Inv, [Next]_vars PROVE Inv'
  OBVIOUS
<1>t. HomeTypeOK'
  BY TypeStep DEF Inv
<1>n. version \in Nat /\ build \in Nat /\ data \in Nat
  BY BuildsAssumption, DataAssumption, VersionsAreNumbers DEF Inv, HomeTypeOK
<1>p. Progress'
  <2> USE DEF Inv, Progress
  <2>1. ASSUME NEW b \in Builds, Install(b) PROVE Progress'
    BY <2>1 DEF Install
  <2>2. ASSUME NEW p \in Parts, Erase(p) PROVE Progress'
    BY <2>2 DEF Erase
  <2>3. CASE Launch \/ ApplyReset \/ EraseMarker \/ EraseBackups
    BY <2>3 DEF Launch, ApplyReset, EraseMarker, EraseBackups
  <2>8. CASE EraseHome
    BY <2>8 DEF EraseHome
  <2>9. CASE EraseFails
    BY <2>9 DEF EraseFails
  <2>4. CASE Enter \/ Mark \/ Configure \/ Open \/ Backup
    BY <2>4 DEF Enter, Mark, Configure, Open, Backup
  <2>5. CASE Migrate \/ Migrated \/ RefuseDatabase \/ Clear \/ Interrupted
    BY <2>5 DEF Migrate, Migrated, RefuseDatabase, Clear, Interrupted
  <2>6. CASE Change \/ Quit \/ RequestReset
    BY <2>6 DEF Change, Quit, RequestReset
  <2>7. CASE UNCHANGED vars
    BY <2>7 DEF vars
  <2> QED
    BY <2>1, <2>2, <2>3, <2>4, <2>5, <2>6, <2>7, <2>8, <2>9 DEF Next
<1>r. Requested'
  <2> USE DEF Inv, Requested
  <2>1. ASSUME NEW b \in Builds, Install(b) PROVE Requested'
    BY <2>1 DEF Install
  <2>2. ASSUME NEW p \in Parts, Erase(p) PROVE Requested'
    BY <2>2 DEF Erase
  <2>3. CASE Launch \/ ApplyReset \/ EraseMarker \/ EraseBackups \/ EraseHome \/ EraseFails
    BY <2>3 DEF Launch, ApplyReset, EraseMarker, EraseBackups, EraseHome, EraseFails
  <2>4. CASE Enter \/ Mark \/ Configure \/ Open \/ Backup
    BY <2>4 DEF Enter, Mark, Configure, Open, Backup
  <2>5. CASE Migrate \/ Migrated \/ RefuseDatabase \/ Clear \/ Interrupted
    BY <2>5 DEF Migrate, Migrated, RefuseDatabase, Clear, Interrupted
  <2>6. CASE Change \/ Quit \/ RequestReset
    BY <2>6 DEF Change, Quit, RequestReset
  <2>7. CASE UNCHANGED vars
    BY <2>7 DEF vars
  <2> QED
    BY <2>1, <2>2, <2>3, <2>4, <2>5, <2>6, <2>7 DEF Next
<1>s. Saved'
  <2> USE DEF Inv, Saved
  <2>1. ASSUME NEW b \in Builds, Install(b) PROVE Saved'
    BY <2>1 DEF Install
  <2>2. ASSUME NEW p \in Parts, Erase(p) PROVE Saved'
    BY <2>2 DEF Erase
  <2>3. CASE Launch \/ ApplyReset \/ EraseMarker \/ EraseBackups \/ EraseHome \/ EraseFails
    BY <2>3 DEF Launch, ApplyReset, EraseMarker, EraseBackups, EraseHome, EraseFails
  <2>4. CASE Enter \/ Mark \/ Configure
    BY <2>4 DEF Enter, Mark, Configure
  <2>5. CASE Open
    BY <2>5 DEF Open
  <2>6. CASE Backup
    BY <2>6 DEF Backup
  <2>7. CASE Migrate
    BY <2>7, <1>n DEF Migrate, Progress
  <2>8. CASE Migrated \/ RefuseDatabase \/ Clear \/ Interrupted
    BY <2>8 DEF Migrated, RefuseDatabase, Clear, Interrupted
  <2>9. CASE Change \/ Quit \/ RequestReset
    BY <2>9 DEF Change, Quit, RequestReset, Progress
  <2>10. CASE UNCHANGED vars
    BY <2>10 DEF vars
  <2> QED
    BY <2>1, <2>2, <2>3, <2>4, <2>5, <2>6, <2>7, <2>8, <2>9, <2>10 DEF Next
<1>m. Reported'
  <2> USE DEF Inv, Reported, RecoveryIsReported, Booting
  <2>1. ASSUME NEW b \in Builds, Install(b) PROVE Reported'
    BY <2>1 DEF Install
  <2>2. ASSUME NEW p \in Parts, Erase(p) PROVE Reported'
    BY <2>2 DEF Erase
  <2>3. CASE Launch \/ ApplyReset \/ EraseMarker \/ EraseBackups
    BY <2>3 DEF Launch, ApplyReset, EraseMarker, EraseBackups
  <2>4. CASE EraseHome
    BY <2>4 DEF EraseHome
  <2>5. CASE EraseFails
    BY <2>5 DEF EraseFails
  <2>6. CASE Enter
    BY <2>6 DEF Enter
  <2>7. CASE Mark \/ Configure \/ Open \/ Backup
    BY <2>7 DEF Mark, Configure, Open, Backup
  <2>8. CASE Migrate \/ Migrated \/ RefuseDatabase \/ Clear
    BY <2>8 DEF Migrate, Migrated, RefuseDatabase, Clear
  <2>9. CASE Interrupted
    BY <2>9 DEF Interrupted
  <2>10. CASE Change \/ Quit \/ RequestReset
    BY <2>10 DEF Change, Quit, RequestReset
  <2>11. CASE UNCHANGED vars
    BY <2>11 DEF vars
  <2> QED
    BY <2>1, <2>2, <2>3, <2>4, <2>5, <2>6, <2>7, <2>8, <2>9, <2>10, <2>11 DEF Next
<1> QED
  BY <1>t, <1>p, <1>r, <1>s, <1>m DEF Inv

\* A version grows in a migration only.
LEMMA MigrationStep ==
  ASSUME Inv, Next, version' > version, data # 0
  PROVE  [version |-> before, data |-> data] \in backups
<1>n. version \in Nat /\ build \in Nat
  BY BuildsAssumption, VersionsAreNumbers DEF Inv, HomeTypeOK
<1>1. \A p \in Parts : ~Erase(p)
  BY <1>n DEF Erase
<1>2. \A b \in Builds : ~Install(b)
  BY <1>n DEF Install
<1>3. ~(Launch \/ ApplyReset \/ EraseMarker \/ EraseBackups \/ EraseHome \/ EraseFails)
  BY <1>n DEF Launch, ApplyReset, EraseMarker, EraseBackups, EraseHome, EraseFails
<1>4. ~(Enter \/ Mark \/ Configure \/ Open \/ Backup)
  BY <1>n DEF Enter, Mark, Configure, Open, Backup
<1>5. ~(Migrated \/ RefuseDatabase \/ Clear \/ Interrupted \/ Change \/ Quit \/ RequestReset)
  BY <1>n DEF Migrated, RefuseDatabase, Clear, Interrupted, Change, Quit, RequestReset
<1>6. Migrate
  BY <1>1, <1>2, <1>3, <1>4, <1>5 DEF Next
<1> QED
  BY <1>6 DEF Inv, Saved, Migrate

\* Data shrinks in a deletion only.
LEMMA DeletionStep ==
  ASSUME Inv, Next, data' < data
  PROVE  asked
<1>n. data \in Nat
  BY DataAssumption DEF Inv, HomeTypeOK
<1>2. \A b \in Builds : ~Install(b)
  BY <1>n DEF Install
<1>3. ~(Launch \/ ApplyReset \/ EraseMarker \/ EraseBackups \/ EraseHome \/ EraseFails)
  BY <1>n DEF Launch, ApplyReset, EraseMarker, EraseBackups, EraseHome, EraseFails
<1>4. ~(Enter \/ Mark \/ Configure \/ Open \/ Backup \/ Migrate)
  BY <1>n DEF Enter, Mark, Configure, Open, Backup, Migrate
<1>5. ~(Migrated \/ RefuseDatabase \/ Clear \/ Interrupted \/ Change \/ Quit \/ RequestReset)
  BY <1>n DEF Migrated, RefuseDatabase, Clear, Interrupted, Change, Quit, RequestReset
<1>6. PICK p \in Parts : Erase(p)
  BY <1>2, <1>3, <1>4, <1>5 DEF Next
<1> QED
  BY <1>6 DEF Inv, Requested, Erase

-----------------------------------------------------------------------------

LEMMA SpecInv == Spec => []Inv
<1> QED
  BY InitInv, NextInv, PTL DEF Spec

\* Type correctness of the app home.
THEOREM HomeTypeCorrect == Spec => []HomeTypeOK
<1>1. Inv => HomeTypeOK
  BY DEF Inv
<1> QED
  BY <1>1, SpecInv, PTL

\* However the launches before were interrupted, the application runs on a
\* complete home with the schema of its build (bootstrap_home).
THEOREM UpMeansReadyAlways == Spec => []UpMeansReady
<1>1. Inv => UpMeansReady
  BY DEF Inv, Progress, UpMeansReady
<1> QED
  BY <1>1, SpecInv, PTL

\* A launch that got as far as its marker and did not finish is reported by
\* the next one on the same home (recovered_from_interrupt).
THEOREM RecoveryIsReportedAlways == Spec => []RecoveryIsReported
<1>1. Inv => RecoveryIsReported
  BY DEF Inv, Reported
<1> QED
  BY <1>1, SpecInv, PTL

\* No migration runs on user data that is not in a backup taken before the
\* first migration of the launch (ADR 0004).
THEOREM BackupBeforeMigrationAlways == Spec => BackupBeforeMigration
<1>1. Inv /\ [Next]_vars =>
        [version' > version /\ data # 0 =>
           [version |-> before, data |-> data] \in backups]_vars
  BY MigrationStep DEF vars
<1> QED
  BY <1>1, SpecInv, PTL DEF Spec, BackupBeforeMigration

\* User data goes away by a reset that was asked for only
\* (apply_pending_factory_reset, SchemaTooNew).
THEOREM DataIsKeptAlways == Spec => DataIsKept
<1>1. Inv /\ [Next]_vars => [data' < data => asked]_vars
  BY DeletionStep DEF vars
<1> QED
  BY <1>1, SpecInv, PTL DEF Spec, DataIsKept

-----------------------------------------------------------------------------
(* When no launch meets a half deleted home.                               *)

\* The faults that leave the marker of a reset on disk until the home is
\* gone: nothing dies in the deletion, and where something cannot be deleted
\* the marker can be written again.
Sheltered == "crash" \notin Faults /\ ~({"locked", "io"} \subseteq Faults)

\* A reset is pending only where the next step of a launch still sees it.
Pending ==
  asked =>
    /\ pc \in {"down", "resetting", "erasing"}
    /\ pc # "erasing" => resetMarker

LEMMA PendingStep ==
  ASSUME Sheltered, Inv, Pending, [Next]_vars
  PROVE  Pending'
<1> USE DEF Pending
<1>1. ASSUME NEW b \in Builds, Install(b)
      PROVE  Pending'
  BY <1>1 DEF Install
<1>2. ASSUME NEW p \in Parts, Erase(p)
      PROVE  Pending'
  BY <1>2 DEF Erase
<1>3. CASE Launch \/ ApplyReset
  BY <1>3 DEF Launch, ApplyReset
<1>4. CASE EraseMarker \/ EraseBackups \/ EraseHome
  BY <1>4 DEF EraseMarker, EraseBackups, EraseHome
<1>5. CASE EraseFails
  \* "io" is not among the faults where "locked" is: the marker is written.
  <2>1. resetMarker' = TRUE /\ pc' = "down"
    BY <1>5 DEF EraseFails, Sheltered
  <2>2. QED
    BY <2>1
<1>6. CASE Enter \/ Mark \/ Configure \/ Open \/ Backup
  BY <1>6 DEF Enter, Mark, Configure, Open, Backup
<1>7. CASE Migrate \/ Migrated \/ RefuseDatabase \/ Clear
  BY <1>7 DEF Migrate, Migrated, RefuseDatabase, Clear
<1>8. CASE Interrupted
  \* Only the death of the process ends a deletion here.
  <2>1. pc # "erasing" /\ pc' = "down" /\ UNCHANGED <<asked, resetMarker>>
    BY <1>8 DEF Interrupted, Sheltered
  <2>2. QED
    BY <2>1
<1>9. CASE Change \/ Quit \/ RequestReset
  BY <1>9 DEF Change, Quit, RequestReset
<1>10. CASE UNCHANGED vars
  BY <1>10 DEF vars
<1>11. QED
  BY <1>1, <1>2, <1>3, <1>4, <1>5, <1>6, <1>7, <1>8, <1>9, <1>10 DEF Next

\* A home is used half deleted for two reasons and no other: the process
\* dies in the deletion, or neither the deletion nor the write of the marker
\* succeeds (apply_pending_factory_reset).
THEOREM NoPartialHomeAlways ==
  ASSUME Sheltered
  PROVE  Spec => []NoPartialHome
<1>1. Init => Pending
  BY DEF Init, Pending
<1>2. Inv /\ Pending /\ [Next]_vars => Pending'
  BY PendingStep
<1>3. Pending => NoPartialHome
  BY DEF Pending, NoPartialHome
<1> QED
  BY <1>1, <1>2, <1>3, SpecInv, PTL DEF Spec
=============================================================================
