# OpenConKit: a TLA+ model

OpenConKit is a desktop application (Tauri, Rust, a React user interface) for
checking construction documents. A user imports a workbook into an immutable
vault, runs deterministic tools over it, exports reports, and may ask for a
grounded AI review that is carried out by a local `codex app-server` process.
Everything is kept in one directory, the app home.

This directory holds specifications of that program: of the parts where order,
failure and restart decide what the user ends up with, and of the engine that
turns a workbook into findings and findings into a report. With them come the
TLC configurations that check them on small instances, and theorems about them
checked by the TLA+ proof system. Paths below are relative to `src/`, and `*`
stands for `crates/openconkit-`.

    tlc -config RunUnique.cfg MCRunLifecycle.tla     # one run
    tlapm RunLifecycleProofs.tla                     # one module of proofs

`PROJECT.json` lists the runs, the source lines of every definition, a bug that
each property is known to catch (a mutant beside the definition it changes), the
hazards of the code and the theorems.


## 1. The system

### Components

| component | code | state it keeps | operations |
|---|---|---|---|
| tool runs | `*desktop/src/commands.rs` (`run_tool`, `execute_tool_run`, `cancel_tool_run`, `reset_openconkit`), `*storage/src/runs.rs` | `AppState.active_runs`; tables `analysis_runs`, `findings`, `analysis_run_outputs` | run, cancel, list, open |
| source vault and import | `quick_import_source`, `*application/src/use_cases.rs`, `*storage/src/{source_storage,sources}.rs` | files under `sources/`; `source_revisions` rows | import, discard (compensation) |
| AI reviews and the Codex runtime | `run_ai_review`, the account commands, `*desktop/src/codex.rs`, `*ai-codex/src/{service,transport}.rs` | `AppState.active_ai_runs`, `AppState.codex` (cached service, launch count), pending requests, `ai_analyses` rows, sandbox directories | review, cancel, account read, sign in and out, launch, discard |
| grounded review plan | `prepare_grounded_review`, `execute_grounded_plan`, `*tool-boq-inspector/src/ai.rs` | none (sequential) | chunk, validate, synthesize |
| spreadsheet reader | `*spreadsheet/src/{reader,limits,observer}.rs` | counters of one reading | read one file within limits |
| BOQ inspector | `*tool-boq-inspector/src/{lib,detection,normalization,formula,rules}.rs` | none; a cancellation flag | detect tables, classify rows, apply the checks |
| report rendering | `*tool-boq-inspector/src/reporting.rs`, `*reporting/src/{xlsx,pdf}.rs` | none | build a report, write a workbook or a PDF |
| exports | `export_analysis_run`, `generate_analysis_export`, `reveal_export`, `*storage/src/exports.rs` | directories under `exports/`, `exports` rows | export, record, compensate, reveal |
| app home | `*storage/src/{home,database,migrations}.rs` | the directory, its two markers, schema version, backups | bootstrap, reset, backup, migrate |
| settings and updater | `update_settings`, `updater.rs`, `*storage/src/settings_store.rs`, `*application/src/config.rs` | `settings.json`, `update-channel.json`, two mutexes, `updater_operation` | patch, check, install, load |
| application state | `*desktop/src/{state,main}.rs` | the maps and locks above | wiring |
| repositories, domain, ports, tool SDK | `*storage`, `*domain`, `*application`, `*tool-sdk` | one SQLite connection under a mutex | queries, saves |
| user interface | `apps/desktop-ui/src/state/workspace.ts` | one store of the open project and run | overlapping requests to the host |

### How they interact

Every command of the user interface is an async call. Work on files and the
database is moved to a blocking worker, so two commands interleave between any
two critical sections. Shared are: the SQLite connection (a mutex, held for one
repository call), the maps of active runs and reviews (mutexes, released between
uses), the Codex runtime (an async lock held across awaits, in particular across
a launch and a shutdown), the two configuration mutexes (always taken together
and held across the saves) and `updater_operation` (an async lock held across
the network). A tool run reads a revision of the vault, and inside it the
inspector drives the reader, which calls back for progress and polls for a
cancellation; a review and an export read the typed output of a completed run,
an export also the latest completed review of its language; a factory reset
looks at the active maps, stops Codex, writes a marker and restarts, and the
next launch erases the home.

### What is hard, and what correctness means

* **Tool runs.** Two calls with one id; a loser that removes a winner's map
  entry; a save that fails after the engine has finished; a cancellation at any
  moment; a crash between two rows. Correct means: one executor per id, a
  history entry that starts once and ends once, output exactly with completion,
  and an acknowledged result that stays.
* **Vault.** A file is renamed into place before its row exists, and is deleted
  again when the row cannot be written. Correct means: the bytes behind a row
  never change, and compensation deletes exactly what its import made.
* **AI reviews.** A child process that dies, falls silent or answers late; a
  connection shared by several callers and discarded by one of them; turns that
  cost money; a login that the browser or the user abandons. Correct means: one
  process, one paid turn per run, no analysis reported as complete that is not,
  and every command returns.
* **Grounded plan.** A greedy packing by estimated size, checked by real size;
  rounds of merging whose inputs are what a model said. Correct means: no fact
  is lost or repeated between two prompts, the rounds end, and the number of
  paid turns is tied to what the user was told.
* **Reader and inspector.** Limits counted while untrusted data streams in;
  cancellation polled between records; a dozen heuristics in one pass over rows,
  with running sums, maps of what was seen, and a formula evaluator with bounded
  arithmetic. Correct means: what is read is what is there, within the limits,
  and a finding says what a reader takes it to say.
* **Reports and exports.** Every text goes through a closed catalog; a
  directory, a file, a hash and a row must agree although every step can fail.
  Correct means: a completed run can be reported, the report says what was
  found, and a row has its file.
* **App home.** The process dies between any two file operations, and builds are
  up- and downgraded in between. Correct means: the application never runs on a
  half-made home, migrates nothing it has not backed up, and loses data only
  when asked to.
* **Configuration.** Two files and two copies in memory, three kinds of writers,
  one of which waits for the network, and files that people edit. Correct means:
  no acknowledged field is lost, the copies agree, a launch keeps every field
  that is valid and replaces nothing it has not copied.


## 2. The modules

    RunLedger        <-- refined by --  RunLifecycle  <-- MCRunLifecycle
    (what the history promises)              ^---------- RunLifecycleProofs
    SourceStore      <-- refined by --  SourceVault   <-- MCSourceVault
    (what importing promises)                ^---------- SourceVaultProofs
    AiReviews      <-- MCAiReviews,      AiReviewsProofs
    AppHome        <-- MCAppHome,        AppHomeProofs
    SettingsSchema <-- Configuration   <-- MCConfiguration, ConfigurationProofs
    GroundedPlan   <-- MCGroundedPlan,   GroundedPlanProofs
    Exports        <-- MCExports,        ExportsProofs

    BoqText <-- BoqDetection <--+-- BoqRules <-- Reports <--+-- Inspection <-- MCInspection
                BoqFormula   <--+              SheetReader <-+       ^-- InspectionProofs

Conventions shared by the machines: `pc` gives the step of each invocation of a
command; an action is one critical section (what happens under one lock, or
between two awaits); `Faults` is the set of faults that may strike, so that a
run says which of them it allows; `up` tells whether the process runs, and a
crash resets the volatile variables and keeps the durable ones. A definition
headed *Mutant* is a bug one could make in the definition that follows it; no
specification uses it, and `PROJECT.json` says which property it breaks.

**RunLifecycle** follows `execute_tool_run`: the id check (`CheckRunId`, which
is made *before* the map is locked), `Register` and `RejectActive`,
`SaveRunning`, the engine (`EngineLastCheck` is its last look at the
cancellation token), the terminal saves, and `Release`, the drop of the map
guard. `Cancel` is `cancel_tool_run`; `ResetCheck` and `ResetCommit` are the two
halves of `reset_openconkit` around its await. A repository save is one
transaction: rows, findings and output move together in one action.
`Submissions` says which ids callers may use. The user interface draws a fresh
UUID for each run (`UniqueIds`); the command accepts any.

**RunLedger** is the abstract specification: an entry is absent, running or
terminal, moves only forward, has output exactly when it completed, and nothing
is removed but by erasing everything. `LedgerSpec` in RunLifecycle maps the
status column and the output table to it.

**SourceStore** is the other abstract specification: contents under their
hashes, only ever added to; an import asks once, is answered once, and changes
what can be read only when its answer is a revision. `StoreSpec` in SourceVault
maps the revision rows, with the bytes behind them, and the replies to it.

**SourceVault** follows `quick_import_source` and `ImportSource`: the built-in
project, the temporary copy, `unique_dest` (`ChooseDest`: the first free name of
a bounded list), the rename, the read-only bit, the lookup of a row with the
same hash, the insert, and `Discard`, the compensation. Imports that run
together interleave between any two of these. `Candidates` gives the list of
names, so that two imports may or may not share one; `Collisions` says whether
two that do may overlap. That guard of `Submit` is not in the code: it is the
hypothesis under which the run and four of the theorems are stated, and
`VaultRace.cfg` shows what happens without it (section 5). A reply is the
revision or an error. The errors that may leave something behind are told apart:
`unplaced` (no name or directory for the copy, whose temporary file stays),
`uncleaned` (the compensation itself failed), and `temp_left` and `file_left`
(the removal after a failing copy, rename or change of permissions failed; the
code ignores that, so that the caller sees the first error only, and the two
names serve the properties).

**AiReviews** follows `run_ai_review` and, as one kind of call, the account
commands, through the runtime lock (`TakeService`, `Launch`, `LaunchRefused`,
`Spawned`, `SpawnFails`, `Invalidate`, `ShutDown`), a request and its answer
(`Ask`, `Send`, `Answered`, `Refused`, `RequestTimesOut`, `Exited`), the turn loop
(`BeginTurn`, `CheckCancelled`, `Arm`, `Wake`, `TurnCompleted`, `TurnRejected`,
`Lagged`, `TurnTimesOut`), the clean-up of the sandbox and the terminal row.
`CheckCancelled` and `Arm` are two actions because
`CodexCancellationToken::cancelled` looks at its flag before it registers its
waiter. A login opens a browser after its challenge (`OpenBrowser`) and, when
that fails (`BrowserFails`) or the challenge cannot be shown (`Unshowable`),
cancels at the server. `Disabled` is the second look at the AI switch of the
settings, when the service is taken. `ServerCompletes`, `ProcessDies` and
`ReaderStops` are the app-server and the reader task. A connection that is
*deaf* has lost its reader, which the code does not distinguish from a slow one.
A request is entered into the pending map (`Ask`) before it is written (`Send`),
and a process that is `stalled`, which has stopped reading its input, lets no
write return until it reads again or dies (`ServerStalls`, `ServerResumes`).

**AppHome** follows `bootstrap_home` operation by operation: the pending reset
(`Erase` deletes the parts in any order, as `remove_dir_all` may), the marker of
the launch, configuration, opening the database, one backup before the first
migration of a launch, the migrations one at a time, and the removal of the
marker. `Interrupted` is a crash at any of these steps; `Install` changes the
build, and with it the schema version, in either direction.

**SettingsSchema** is what the two files may hold and what the program makes of
it. A field of a document is `Value(v)`, `Invalid` (a wrong type or out of
range) or `Missing`, a group is an object of such fields, and a whole file may
be `Corrupt` (no JSON object) or `Garbled` (not UTF-8). The operators give the
settings a document is read as, the document that is written, and the typed
patches with the validation of their result. `theme` stands for the
plain fields, `absolute` for both tolerances, `ai` for both privacy switches.

**Configuration** extends it and follows `update_settings`, the update checks
and `install_update`: the compare-and-write under the two mutexes, with the
rollback of the first file when the second cannot be written, the automatic
check, which may find that it is not due (`SkipCheck`), and the launch, which
loads both files, copies a corrupt one to the backups and replaces it, and
repairs the channel file from the settings.

**SheetReader** follows `ingest_with_observer`: preflight of the file and of the
entries of the archive, the shells of the sheets, the merged regions, then the
records of each sheet, one action each, with the counters of rows, columns,
cells and retained bytes, progress, and the places where a cancellation is
polled (`CheckDue`, every `Interval` records and at each sheet). XLSX is
streamed; of an XLS sheet the ranges of values and formulas are walked in two
loops. What the parsers deliver is external: a file is its sheets, a sheet its
records in order. `ReaderSpec` is the reader in whatever is built around it:
besides its own steps, the token may be set (`CancelReading`), the engine
reports fractions of its own (`Report`), and a new run reads the file from its
beginning (`ReadAgain`).

**BoqText, BoqDetection, BoqFormula, BoqRules** are the inspector as operators.
BoqText has words, units, currencies, similarity and numbers: a text is a
sequence of words of a small vocabulary, each spelled out as coarsely as
`parse_number` tells its symbols apart. BoqDetection scores header rows, merges
split headers, assigns a role to each column, finds the table's end, classifies
the rows and rebuilds the sections. BoqFormula evaluates the formulas the
inspector verifies, in fractions, with a limit for what a decimal holds; the
recursive descent of its parser is one recursive function of the rule and the
position (`Parsed`).
BoqRules has one operator for each check, in the order the code runs them, with
the location each finding points at. Identity is what the code derives an
identifier from: the rule, the sheet and the subject.

**Reports** is `build_report` with its catalog of texts (a text is the set of
placeholders it leaves open), the counts, the evidence of detection, the
commentary of an AI review by sections, and what the two writers put on paper.

**Inspection** composes them: a run validates its request, reads the file with
the steps of SheetReader, detects, checks, and saves its findings in one
transaction whose primary keys are the finding identifiers. `AnalyzeAgain`
starts the next run of the same revision, and `Cancel` may come between any two
steps. Each of its actions takes one step of `ReaderSpec` or leaves the reader
alone, so that what is proved of `ReaderSpec` is a property of the reading here
(`RunsReadAsTheReader`).

**GroundedPlan** follows `prepare_grounded_review` and `execute_grounded_plan`:
`AddFact` and `CloseChunk` are the greedy packing, `EndPacking` measures the
prompts as they are sent and fixes the planned number of turns, `Turn` is a
source, merge or final turn with any answer and its validation (`Grounded`),
`StartRound` to `EndRound` are one round of synthesis. A fact is a finding or a
row with its size; an answer has a size and cites findings with their evidence.

**Exports** follows `generate_analysis_export`: the two-step creation of
confined directories, the provider that creates and fills the file, verification
of name and hash, the row, and the clean-up. Calls run at the same time, reviews
complete in between, another program may change a file, and the process may die.
`Reveal` is `reveal_export` with the hash check it makes.


## 3. What is checked

Deadlock is checked for AppHome, Inspection, GroundedPlan and Exports, which can
go on until they say that they are at rest. The other runs have a fixed set of
invocations, so they stop when these are done (`CHECK_DEADLOCK FALSE`); that no
invocation gets stuck before is the subject of `EveryCallLeaves` and
`EveryReviewReturns`.

| run | question | properties | instance |
|---|---|---|---|
| `run_unique_ids` | With fresh ids, every fault and fair workers: does the host implement the ledger, keep each acknowledged result, honour a cancellation in time, and does each call leave the active map? | `LedgerSpec`, `AckedRunIsDurable`, `CancelInTimeIsHonoured`, `EveryCallLeaves` | 2 calls, 2 ids, 2 revisions |
| `run_reused_ids` | When an id is submitted again: is there one executor, are results whole, and is what is stored under the id computed from the source its row names? | `OneExecutor`, `CompletedIsWhole`, `ResultsOfTheRecordedSource` | 3 calls of one id from two revisions; crashes, failing saves, panics |
| `vault_concurrent` | Is the vault, for callers and readers, a store that is only added to, does compensation remove the file of another import, and does it leave anything behind but where the process died, no place was found or a removal failed? | `StoreSpec`, `ImmutableVault`, `NoOrphans`, `NoLeftoverTemps` | 3 imports, 2 contents, 3 names, every fault; imports whose names share a candidate do not overlap |
| `ai_faulty` | Is there ever a second process or a lost one, an analysis completed without ground, a command that never returns although the server reads its input? | `AtMostOneProcess`, `NoProcessLeaked`, `CompletedIsGrounded`, `EveryReviewReturns` | 1 review of up to 2 turns, 1 login, 2 launches, every fault |
| `ai_nominal` | Is there one review and one paid turn per run, a turn that can be interrupted, and nothing left pending? | `OneTurnPerRun`, `NoAbandonedTurn`, `PendingMeansInFlight` | 2 reviews of one run, 1 account command; no late answers, no silent reader |
| `home_faulty` | Ready home, backed-up migrations, data lost to resets only, interruptions reported? | `UpMeansReady`, `BackupBeforeMigration`, `DataIsKept`, `RecoveryIsReported` | builds 1 and 3, every fault |
| `config_faulty` | Do the copies in memory agree, the files follow, does no writer undo another, does an older check ever replace a newer one; does a launch keep what is valid and replace only what it has copied? | `MemoryAgrees`, `FilesFollowMemory`, `NoLostUpdate`, `LatestCheckIsRecorded`, `LoadLosesOnlyDamage`, `CorruptIsBackedUp` | 1 patch out of 6 (3 of them refused), 1 check, 1 install, a clock that may be set back, every fault, two damages or edits |
| `inspection` | Does the reader keep what is there within its limits and notice a cancellation, do the checks mean what they say, is a first result always saved, does a report say what was found? | `RetainedWithinLimits`, `ReadIsFaithful`, `CancelIsNoticed`, `ChecksMeanWhatTheySay`, `FirstResultIsSaved`, `ReportsSayWhatWasFound` | some 330 workbooks, 2 runs, 2 requests, 3 reviews |
| `plan` | Is every fact in one prompt, does merging end, with how many turns, and is a plan that cannot end known before it costs anything? | `EveryFactOnce`, `TurnsAreBounded`, `TooLargeIsKnownEarly`, `ReviewEnds` | up to 5 facts and 5 prompts, 7 answers |
| `exports` | Does every row have its whole report, and does a failed export leave nothing? | `RecordsArePublished`, `FailureLeavesNothing` | 2 calls, 3 identifiers, 1 crash, 1 changed file, 1 review |
| `inspection_rerun`, `report_refused` | counterexamples, section 5 | `EveryResultIsSaved`, `EveryCompletedRunCanBeReported` | the workbooks of `inspection` or some of them |

`ai_nominal` leaves faults out because its properties cannot hold when answers
are late, an interrupt is refused, or the terminal save fails (section 5 and the
hazards of `PROJECT.json`). `NoOrphans`, `NoLeftoverTemps` and
`FailureLeavesNothing` hold with every fault because they name what the code
does not promise to clean up: what a crash cut short, what a reply reported and
what a failing removal leaves, which the code ignores on three paths.

The properties of the engine are checked against definitions of their own, not
against the operators they judge. `ReadIsFaithful` compares what was read with
the file; `ChecksMeanWhatTheySay` says of totals and subtotals, duplicates, the
Pareto summary and outliers, in terms of the rows, when a finding is due and
what it must hold; `ReportsSayWhatWasFound` compares the counts and entries of
both documents with the findings and with each other.

### Bounds

Each bound is a CONSTANT or the size of a constant set.

* Two or three invocations. The races of this code are between one call and one
  other (a check and an act, a winner and a loser), and the third call is there
  where a later victim is needed (a third import that finds every name taken, a
  repeat of a repeated id). The theorems hold for any number.
* `MaxLaunches` is `MAX_PROCESS_LAUNCHES` of the code, which is 3. Two suffice
  for a stale and a fresh connection.
* `MaxTurns` is 2, so that a later turn of a plan can fail after an earlier one.
* `Builds = {1, 3}`: a launch performs up to three migrations, so that a crash
  can fall between two of them and a downgrade skip more than one version.
* `MaxData` bounds the changes of user data, `MaxClock` the times the wall clock
  shows, `MaxDamage` the damages and edits of a settings file. Two of each give
  an older and a newer value, and a damage after a repair.
* Two contents whose hashes share the directory prefix, names `a` and `a-2`
  whose candidate lists overlap (the only way two imports can meet on a path),
  and a third name that meets neither.
* `MCLimits` are the limits of the reader scaled down until the workbooks of
  `Refused` exceed each of them by little, and `Interval` is 7 instead of 1,024,
  so that a small sheet is polled in its middle.
* The workbooks combine thirteen kinds of rows two at a time in one sheet, four
  kinds three at a time behind an item, two sheets for what is compared across
  sheets, and 6 to 8 peers for the statistics, which need 7. `MaxComparisons` 5
  makes the cap on similarity comparisons bite. `MaxDecimal` is small enough for
  a formula to overflow, and `CellLimit` 30 puts one review on the limit of a
  cell and one beyond it.
* A prompt of 20 with a reserve of 2, numerals of 2 and a frame of 4; answers of
  at most 7 (two of which fit a prompt) or 9 (two of which do not). One plan
  fits whole, one has no facts, one has a fact no prompt can hold, one a frame
  that is too large.
* Exports share one run, since different runs share no directory but their
  parent.

`exports` uses the symmetry of calls and identifiers; it checks no liveness. The
other state spaces are small enough without (the largest, that of
`config_faulty`, has 4.8 million states).

### Fairness

`RunLifecycle!FairSpec` assumes weak fairness of each call's next step, of the
launch after a crash and of the launch after a reset. A call runs on a blocking
worker of the Tokio runtime and waits for nothing but short mutexes; its engine
is a terminating computation. Nothing is assumed about cancellations, resets or
faults. `AiReviews!FairSpec` assumes weak fairness of each call's steps, which
include its own deadlines: the wait for an answer and every turn of the code run
under `tokio::time::timeout`. The write of a request does not
(`transport.rs:188`): it is fair while the process reads its input, and cannot
be taken while it does not. So `EveryReviewReturns` has a condition,
`<>[](stalled = {})`: from some time on no process leaves its input unread.
Nothing else is assumed of the app-server, which need never answer. The runtime
lock is held by a call whose steps are themselves fair under that condition, and
released. `GroundedPlan!Spec`
assumes weak fairness of its one step: a turn ends, if only by its time limit.


## 4. What is proved

All theorems hold for any values of the constants that satisfy the named
assumptions; the proofs are checked by tlapm to the last leaf.

| module | theorems | inductive invariant |
|---|---|---|
| RunLifecycleProofs | `TypeCorrect`, `OneExecutorAlways`, `CompletedIsWholeAlways`, `ResultsOfTheRecordedSourceAlways`; with `UniqueIds`: `StepMatchesRowAlways`, `AckedRunIsDurableAlways`, `ImplementsLedger`, `OutputOnlyWhenCompletedAlways`, and, with no fault but a reset, `RunningMeansExecutingAlways` | `TypeOK`, `OneExecutor`; `WriterInv`; then `StepMatchesRow`; then `Executed` |
| SourceVaultProofs | `VaultTypeCorrect`, `NoOrphansAlways`, `NoLeftoverTempsAlways`; with `NoRace`: `RevisionsIntactAlways`, `RepliesAreRecordedAlways`, `ImmutableVaultAlways`, `ImplementsStore` | `VaultInv`; `OrphanInv` and `TempInv` for what is left behind |
| AiReviewsProofs | `AiTypeCorrect`, `OneReviewPerRunAlways`, `AtMostOneProcessAlways`, `NoProcessLeakedAlways`, `CompletedIsGroundedAlways`; with `Recorded`: `PendingMeansInFlightAlways`; with `Stoppable`: `NoAbandonedTurnAlways`, `OneTurnPerRunAlways` | `Inv` = types, `Shape`, `Owner`, `Locked`, `Process`, `Outcome`, `Asked`; then `Durable`; then `Turns` = `Wired`, `Noted`, `Runs` |
| AppHomeProofs | `HomeTypeCorrect`, `UpMeansReadyAlways`, `BackupBeforeMigrationAlways`, `DataIsKeptAlways`, `RecoveryIsReportedAlways`; with `Sheltered`: `NoPartialHomeAlways` | types, `Progress`, `Requested`, `Saved`, `Reported`; then `Pending` |
| ConfigurationProofs | `ConfigTypeCorrect`, `MemoryAgreesAlways`, `NoLostUpdateAlways`, `LatestCheckIsRecordedAlways`, `FilesFollowMemoryAlways`, `LoadLosesOnlyDamageAlways`, `CorruptIsBackedUpAlways`; without crashes, failing saves and files that are not UTF-8: `LaunchSurvivesDamageAlways` | `Holding`, `Files`, `ChannelFile`, `Merging`, `Times`; then `Readable` |
| GroundedPlanProofs | `TurnsAreBoundedAlways`, `EveryFactOnceAlways`, `TooLargeIsKnownEarlyAlways` | `PlanInv`; `Placing`; `FittingInv` = `PlanInv`, `Fitting`, `Paired` |
| InspectionProofs | `RunsReadAsTheReader`; `ReadIsFaithfulAlways`, `RetainedWithinLimitsAlways`, `CancelIsNoticedAlways`, `ReportsSayWhatWasFoundAlways`; with `Addressed`: `FirstResultIsSavedAlways`; with `Named`: `ChecksMeanWhatTheySayAlways` | `Faithful` = `Base`, `Growing`, `Finished`; then the limits themselves and `Noticed`; `Working`, `Ledger` and `Ruled` for the findings |
| ExportsProofs | `RecordsArePublishedAlways`, `FailureLeavesNothingAlways` | `ExportsInv` = types, `OwnIds`, `AllOnDisk` and the two properties |

The arguments, in short:

* *Runs.* `OneExecutor` is inductive: the map entry is written under its mutex
  and removed by its owner's guard only. `CompletedIsWhole` is inductive because
  a save is one transaction. `WriterInv` says of each call that has written
  something under an id that it came with the source the row names: an upsert
  keeps the identity it finds, and the save of a call with another one is
  refused as a whole. That an acknowledged result is durable, and that
  the ledger is implemented, is *false* for reused ids (section 5). Under
  `UniqueIds` a row has one call, and `StepMatchesRow` says which statuses that
  call's step allows: with it each save is a step of the ledger, and every other
  step a stutter. `Executed` adds that a running row has a call at work and that
  a call at work has the identity of its row, so that no save of it is refused:
  nothing but a crash, a panic or a failing save leaves a row running. A reset
  leaves some too, but they are erased before anybody sees them.
* *Vault.* `NoRace == ~Collisions \/ OwnPaths`: imports that want one name do
  not overlap, or no two share a candidate path. Under it, the path between its
  choice and its row belongs to one import (`VaultInv`), so that a rename finds
  it free, and a discard removes a file that no row records. Without it the
  statement is false; that the paths are apart (`SeparatePaths`) is a part of
  the invariant and no result of its own. What readers see through the rows then changes in `Save`
  only, which with the reply is the one step of the store that adds to it; a
  `Discard` after a row was found answers with a revision that is already
  readable, every failing step is a refusal, and the rest are stutters. What is
  left behind needs no such assumption: a file without a row, and a temporary
  file, each have an import in flight, a crash, an import without a place or a
  removal that failed to account for them.
* *Reviews.* `Owner` ties the map to the guarded steps, `Locked` ties the
  runtime lock to the steps that launch or stop a process, and `Process` says
  that each connection not closed is the cached one, the one being launched or
  the one being stopped. From these `AtMostOneProcess` follows. `Outcome`
  carries what a review still owes (turns left, errors met) to its terminal row.
  `Asked` says that only a step that asks has an answer, and that a write which
  is going to fail belongs to a connection that is closed.
  Three results are false with every fault, and the hypotheses name what breaks
  them. `Recorded` (no crash, no failing save) is needed for a pending row to
  mean a review in flight, because nothing settles the row otherwise.
  `Stoppable` excludes besides late and malformed answers and refusals of the
  server, after which the code gives up on a turn that goes on. A connection may
  still be lost and a process may still die: a turn dies with its process. `Turns`
  says of each turn at the server that it runs on the open connection of its
  review, which has not heard of its end and awaits it, interrupts it or discards
  the connection (`Runs`); this rests on which reviews a completion can be waiting
  for (`Noted`), and on connections that were launched and have a reader
  (`Wired`).
* *Home.* `Progress` says what exists at each step of a launch; `Saved` says
  that between the first migration of a launch and its last there is a backup of
  the version and data it found, which is what a crash in between needs;
  `Reported` says that an unfinished launch leaves its marker. `Pending` says
  that a request for a reset is on disk except while the deletion runs; it holds
  under `Sheltered`: the process does not die in the deletion, and where
  something cannot be deleted the marker can be written again.
* *Configuration.* The two mutexes have one holder (`Holding`); what it is about
  to publish was merged from memory after it took them (`Merging`), although the
  network was asked before; hence nothing acknowledged is undone. Files and
  memory are related through the loader: `SettingsHold` and `ChannelHolds` say
  what a launch would read from a document, and a round-trip lemma says that it
  reads what was written. `Files` says what a writer has written so far,
  `ChannelFile` what the channel file holds until a rollback fails, and `Times`
  says that a stamp that waits under `updater_operation` is of the latest answer,
  whatever times the clock shows.
* *Plan.* Each round replaces n answers by fewer, in groups of which only those
  of two or more cost a turn. `PlanInv` bounds, at every step, the turns taken
  by twice the prompts less the answers that are still there, counted group by
  group with a prefix sum; from it follow the bound and the lower one that makes
  consent honest. `Placing` is what the packing keeps: the facts of the closed
  chunks, of the open one and of those to come are, in that order, the facts of
  the scope, a regrouping that neither drops nor repeats one. For
  `TooLargeIsKnownEarly`, `Fitting` says that the answers that are kept are within
  the bound the prompt states, and `Paired` that, when two answers of that bound
  fit a prompt, each group closed has two or more: a round then at least halves
  what it is given, and a plan that passed the check is never found too large
  after a turn was paid.
* *Reader.* `Base` places the step: which sheet, which record, how many sheets
  there are. `Growing` says that the sheet being read holds the records looked
  at so far that are to be kept, once each, in their order or, while formulas are
  added to values, each at a position of its own; that is why the final sort
  neither drops nor duplicates. `Finished` says that the sheets before it hold
  what the file has, in order and within the used range. The two counters
  (`cells`, `bytes`) are sums over nested sequences and are shown to be them at
  each record, each merge of a formula and the sort. `Noticed` counts the cells
  kept since the token was set against the records left until the next look at
  it. A sum is defined by choosing a function, and induction over data is out of
  the prover's reach; the lemmas argue with a smallest set, or a least number,
  for which the statement fails.
* *Findings.* A first result is saved when no two of its findings have one
  identifier. `Pushed` says so of a list of findings and names the rules they
  are of. Each check of `rules.rs` gives a pushed list, and since no two checks
  share a rule, the lists together are pushed too (`RulesPush`). A check speaks of
  a row by its sheet and number, so this needs that detection gives each row
  once: the candidate segments of a sheet are disjoint (`DetectionIs`). And the
  formula check speaks of a cell by its place, so the reader must keep apart
  what the file keeps apart (`KinAlways`, over the same steps as `Faithful`, the
  sort included). `Working` carries the list from the engine to the save,
  `Ledger` says that the store holds findings of runs that ended well and of
  no other, so that a first result meets none. The hypothesis `Addressed` is
  that the sheets of a file have names of their own and the records of a sheet
  positions of their own. Without it the property is false: see section 5.
* *What findings mean.* `ChecksMeanWhatTheySay` compares what one pass over the
  rows computes with what sets and sums define. That a finding of a rule is one
  of its check follows from `Pushed` (`FoundIs`), so each check can be argued by
  itself. Totals: a pass that keeps two sums and two counts, and takes them back
  at each subtotal, has at each row the sum and the count of the priced items
  since then (`CountingIs`, `TotalsHold`). Duplicates: the list of what was seen
  holds the first of each kind, so that every later row of the kind has one
  report (`DuplicatesHold`). Pareto: amounts in falling order sum to the most
  that as many items can (`FirstAreGreatest`), so fewer items than the reported
  ones never reach the share (`ParetosHold`). Outliers: half of a sorted list is
  on either side of its median, and of the distances from it half are within
  theirs; whichever of the two statistics is used, fewer than half of the peers
  are beyond it (`FewOutliers`, `OutliersHold`). Three things carry these to the
  runs. A finite set is listed by rank, each element once and in order
  (`RankedIs`), which gives the sorts. A sum of integers does not depend on the
  order, and is unchanged by a renaming of its places (`SumTakes`, `SumImage`).
  And what a row holds as a number is one: the texts are read digit by digit to
  a number of thousandths (`Sited` of the cells, `Reckoned` of the rows). `Ruled`
  says that the findings about to be saved are those of the rules for the rows
  that were detected. The hypothesis `Named` is that the sheets of a file have
  names of their own, as those of a workbook do: two rows are told apart in a
  finding by sheet and number.
* *Reports.* Both documents are made of one list. Their counts are kept per
  label in the order of the first finding with it; that each is the number of
  findings with its label (`CountsAreOf`), and that the two documents say the
  same (`DocumentsAgree`), holds for every file, request and commentary.
* *Exports.* An identifier is drawn once and has one owner until its call ends.
  The invariant says for each step of the owner what is on disk below the
  identifier, so that no clean-up reaches the files of another, although they
  share the directory of the run.

Only model-checked: the four liveness properties (`EveryCallLeaves`,
`EveryReviewReturns`, `CancelInTimeIsHonoured`, `ReviewEnds`), since reasoning
from fairness needs ENABLED, which the prover does not support. Every invariant
and every other action property of the runs is stated by a theorem, some under a
hypothesis that the table names.

That the algorithms of the Boq modules are within reach of the prover is due to
how they are written: lists are picked and sorted by rank (`Ascending`, `Select`,
`Each`, `Order`) instead of by `SelectSeq` and `SortSeq`, and a number is read by
a recursive function of its digits instead of by a fold, of which the prover
knows nothing. Induction over data has no theorem that could be cited, so a
lemma about a pass over a list or about a sum takes the least place, or a
smallest set, at which it fails.

### Assumptions of the models

* One process per home (the single-instance plugin, `main.rs`), and the
  app-server dies with the application (`kill_on_drop`).
* An SQLite transaction is atomic and durable; `atomic_write` (a temporary file,
  synced and renamed) is one step; so is a rename.
* A hash identifies a content.
* The parser of the old spreadsheet format delivers the cells of a range row by
  row (`FilesAssumption`). Of the new format, whose elements come as the file has
  them, nothing is assumed; `ReadIsFaithful` promises the order of the cells
  where the file keeps it.
* An answer of a turn has a size, whatever it says (`AnswersAssumption`); runs
  are numbered (`RunsAssumption`), and `MaxComparisons` and `CellLimit` are
  numbers.
* A cell of a file holds a whole number of thousandths, or a text of finitely
  many words (`ValuesAssumption`).
* Another program may hold a file of the home open, damage or edit a settings
  file while the application is down, change an exported report, and do nothing
  else to the home. File permissions are not modelled. A settings file that is
  not there is a first launch, which Configuration starts after.
* In Exports, `canonicalize` of a directory just made and `remove_dir_all` do
  not fail. What a crash leaves below `exports/` is never removed by any launch.
* Decimal arithmetic is exact in thousandths and overflows at `MaxDecimal` in
  the formula evaluator. Elsewhere a sum or a product is assumed to fit: the
  multiplications and additions of the checks and of the detection of columns
  (`rules.rs:515`, `rules.rs:726`, `detection.rs:468`) panic on amounts near the
  limit of 96 bits, which then ends the run as an engine that panics does.
* The wall clock shows any time at any moment: nothing is assumed of its order.


## 5. Where the code departs from what it says

Two of the departures are runs that end in a counterexample.

* `inspection_rerun` (`EveryResultIsSaved`): a finding is identified by
  revision, rule, sheet and subject (`rules.rs:61`), and the identifier is the
  primary key of a table shared by all runs. A second run of a revision that has
  findings cannot be saved, and its row stays running.
* `report_refused` (`EveryCompletedRunCanBeReported`): the catalog of texts
  lacks labels for two kinds of detection evidence and most findings fill fewer
  placeholders than the texts of the catalog open (`reporting.rs:520`,
  `reporting.rs:574`), so that a completed run with one of them can never be
  exported.

More are stated as properties in the modules, with a configuration that shows
the counterexample, and are not among the runs of the project.

| property | configuration | what happens |
|---|---|---|
| `ResetSparesActiveRuns` | `RunReset.cfg` | `commands.rs:121`: the reset refuses while an analysis is running, but decides so before it waits for Codex. A run submitted in between is killed and its home erased. |
| `RevisionsIntact` | `VaultRace.cfg` | `source_storage.rs:102`: the vault promises a race-safe immutable import. Two imports of one name at once find one path free; the second rename replaces the first file, or the second import, finding a duplicate, deletes it behind a recorded row. |
| `OneTurnPerRun` | `AiLateTurn.cfg` | `service.rs:222`: one paid turn per run at a time. When the answer to `turn/start` or `turn/interrupt` is late, the turn goes on at the server, its guard is dropped, and the next review starts a second one. |
| `NoPartialHome` | `HomeHalfDeleted.cfg` | `home.rs:166`: a launch is never to start on a partially deleted home. The reset deletes its own request with the rest; a crash after that and before the end leaves a partial home and no request. |
| `OutputOnlyWhenCompleted` | `RunStaleOutput.cfg` | `runs.rs:100`: typed output exists for completed runs only. The id check of `execute_tool_run` precedes the insertion into the map, so a second call with the id can pass it while the first runs and register after it has completed: the completed row returns to running and its output stays. Out of reach of the user interface, whose ids are fresh. |
| `RunningMeansExecuting` | `RunAbandoned.cfg` | `run.rs:19`: running is "Currently executing". No launch reconciles the rows an interrupted process left in that status. |
| `CancelWakes` | `AiLostWake.cfg` | `service.rs:46`: `cancel` wakes the turn's waiter. Between the look at the flag and the registration of the waiter nobody is woken, and a second `cancel` does nothing: the turn ends by itself or at its deadline. |
| `InvalidateSparesOthers` | `AiDiscard.cfg` | `codex.rs:117`: "Discard a failed connection". `invalidate` discards whichever is cached by then, which may be another caller's new one. |
| `InstallsSelectedChannel` | `ConfigInstall.cfg` | `updater.rs:84`: an installation is refused when the selected channel has changed. It is compared once, before the feed and the download. |
| `LaunchSurvivesDamage` | `ConfigGarbled.cfg` | `settings_store.rs:44`: a damaged settings file falls back to defaults. One that is not UTF-8 fails every launch. |

Section 4 has the other side of most of these rows: theorems that name the
hypothesis under which the property holds (`NoPartialHomeAlways`,
`OutputOnlyWhenCompletedAlways`, `RunningMeansExecutingAlways`,
`LaunchSurvivesDamageAlways`, `OneTurnPerRunAlways`, and for the vault
`RevisionsIntactAlways` and `ImplementsStore`), so that nothing but the case in
the row breaks it.

Others came up while the code was read and are part of what the models do, but
are stated by no property:

* Reports: a commentary longer than a cell (32,767 characters) makes the XLSX
  export of the run fail every time, while the PDF works (`xlsx.rs:341`). The
  PDF shows neither the rule, the cell nor the original values of a finding.
* AI: the write of a request is awaited before its deadline starts
  (`transport.rs:188`, and the deadline at 193). An app-server that lives and
  stops reading its input blocks the command for ever, a turn's interrupt
  included; during the handshake it blocks every caller behind the runtime lock.
  The model has the case (`ServerStalls`), and `EveryReviewReturns` the condition
  that excludes it.
* Vault: a failing removal after a failing copy, rename or change of permissions
  is ignored (`source_storage.rs:90`, 105 and 113), so that a file stays and the
  error does not say so.
* Inspector: the Pareto summary counts the items that cost nothing
  (`rules.rs:887` keeps what `is_sign_positive` says of, zero included), while
  its field is documented as "Total positive priced item count" (`lib.rs:99`).
  `ChecksMeanWhatTheySay` states what the code counts. "0.125" and "1.250" as text are read as 125 and 1250, and the
  confidence of 70 that says so is dropped. Of a header repeated within the
  first eight rows the last one is taken and the rows above it are lost. A
  heading "Block 2" and a plain "Total" row are classified as items. An item is
  compared across sheets with its first occurrence only. The sum of a formula
  that overflows panics, although `formula.rs:5` says unverifiable. The cap on
  similarity comparisons truncates silently.
* Reader: the loop over the formulas an XLS sheet has beyond its values does not
  look at the cancellation flag (`docs/threat-model.md:30`).
  An XLSX that repeats the reference of a cell with a formula, which nothing in
  the reader refuses, can give two findings one identifier (`rules.rs:61`): not
  even a first result is saved then (`FirstResultIsSavedAlways` needs `Addressed`).
* Plan: the last review may cite findings that no fragment cited, as it is
  validated against the whole context.
* Exports: of two first exports of a run at once one can fail although nothing
  is wrong, as `create_confined_directory` looks and creates in two steps.
* Login: one whose cancellation fails, or whose start times out, stays pending
  at the server (`commands.rs:199`).
* Settings: a field whose invalid text contains the wording of the loader's own
  warning makes it take the whole file for corrupt (`settings_store.rs:134`). A
  file damaged in part is not copied before the next save, and fields of a newer
  version are dropped by it.
* User interface: `exportRun` writes back the run it read before its awaits, so
  that exports of one run can be listed under another (`workspace.ts:308`). Not
  modelled.


## 6. What is not modelled

* The stores and components of the user interface, and the generator of its
  TypeScript types.
* The validated value types of the domain (the models use their valid values),
  the registry of tools, the repositories' read-only queries and
  single-statement saves beyond what their callers need, and the project use
  cases beside the import.
* Diagnostics, the protocol log and its rotation, file permissions and
  confinement, the profile written for the app-server.
* Portable builds and version comparison in the updater; `apply_patch` on
  untyped JSON, which tests alone call.
* The bytes of file formats, the layout of pages and sheets, and the wording of
  texts.
* In the modules that exist: the account commands share one request, the content
  of a plan is a number of turns in AiReviews (and the turns have no process in
  GroundedPlan), warnings of the reader are left out.


## 7. Plan

Done, in this order of importance, each machine with its proofs: RunLedger,
RunLifecycle, SourceVault, AiReviews, AppHome, Configuration, then
SettingsSchema, GroundedPlan, Exports, and the engine (SheetReader, Boq modules,
Reports, Inspection).

1. **Workspace**: the store of the user interface with overlapping requests
   whose answers arrive in any order (`openRun`, `exportRun`, `saveSettings`).
2. **Host**: RunLifecycle, AiReviews and the reset together: a review and an
   export of a run that is repeated, the reset against both maps.
3. **Protocol log**: its rotation against a failing disk.
4. **Abstract specifications** still worth stating: configuration as one atomic
   record, and a run as a request with one outcome.
5. **Proofs** to come: the refinements of item 4, and the composition of item 2
   with the invariants of its parts.
