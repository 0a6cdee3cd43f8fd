---------------------------- MODULE RunLifecycle ----------------------------
(***************************************************************************)
(* One tool run from the run_tool command to the rows it leaves behind.    *)
(*                                                                         *)
(* The desktop host executes every run_tool command on a blocking worker   *)
(* (commands.rs, execute_tool_run).  A call shares two things with the     *)
(* others: the active-run map, guarded by a mutex that is released between *)
(* uses, and the SQLite connection, locked for one repository call at a    *)
(* time.  Each action below is one critical section of that code.          *)
(***************************************************************************)

CONSTANTS
  Calls,        \* invocations of run_tool
  RunIds,       \* ids chosen by the caller (a UUID in the user interface)
  Revisions,    \* source revisions; a run's immutable identity tuple
  Submissions,  \* the <<call, run id, revision>> triples callers may submit
  Faults,       \* which faults may strike: see FaultKinds
  None

FaultKinds ==
  { "storage",  \* a repository call returns an error
    "panic",    \* the engine unwinds; the blocking task ends with a JoinError
    "crash",    \* the process dies
    "reset" }   \* the user confirms a factory reset

ASSUME SubmissionsAssumption == Submissions \subseteq Calls \X RunIds \X Revisions
ASSUME FaultsAssumption == Faults \subseteq FaultKinds
ASSUME NoneAssumption ==
  None \notin Calls \cup Revisions \cup [run : RunIds, revision : Revisions]

\* The user interface draws a fresh UUID for every run, so no two calls of
\* its own share a run id.  The command itself accepts any id.
UniqueIds ==
  \A s, t \in Submissions : s[2] = t[2] => s[1] = t[1]

VARIABLES
  \* volatile: dies with the process
  pc,         \* call -> the step of execute_tool_run it is at
  task,       \* call -> the run id and revision it was submitted with
  active,     \* AppState.active_runs: run id -> the call holding the entry
  cancelled,  \* calls whose CancellationToken is set
  reply,      \* call -> what it returned (about the present home)
  up,         \* the process runs
  resetting,  \* reset_openconkit found no active work and waits for Codex
  \* durable: the app home
  marker,     \* the factory-reset marker file exists
  identity,   \* analysis_runs: run id -> the revision recorded for it
  status,     \* analysis_runs: run id -> status column
  diagnostics,\* analysis_runs: run id -> the call whose diagnostics it holds
  findings,   \* findings: run id -> the call whose findings it holds
  output      \* analysis_run_outputs: run id -> the call that wrote it

callVars == <<pc, task, active, cancelled, reply>>
procVars == <<up, resetting, marker>>
rowVars  == <<identity, status, diagnostics>>
dbVars   == <<identity, status, diagnostics, findings, output>>
vars     == <<callVars, procVars, dbVars>>

Terminal == {"completed", "failed", "cancelled"}

\* Steps between the insertion into active_runs and the drop of its guard.
Guarded == {"starting", "engine", "finishing", "save_completed",
            "save_failed", "save_cancelled", "leaving"}
Steps   == {"idle", "checking", "registering", "done", "gone"} \cup Guarded

Run(c) == task[c].run
Revision(c) == task[c].revision

Init ==
  /\ pc = [c \in Calls |-> "idle"]
  /\ task = [c \in Calls |-> None]
  /\ active = [r \in RunIds |-> None]
  /\ cancelled = {}
  /\ reply = [c \in Calls |-> "none"]
  /\ up = TRUE
  /\ resetting = FALSE
  /\ marker = FALSE
  /\ identity = [r \in RunIds |-> None]
  /\ status = [r \in RunIds |-> "absent"]
  /\ diagnostics = [r \in RunIds |-> None]
  /\ findings = [r \in RunIds |-> None]
  /\ output = [r \in RunIds |-> None]

-----------------------------------------------------------------------------
(* Steps of a call                                                         *)

At(c, step) == up /\ pc[c] = step

Goto(c, step) == pc' = [pc EXCEPT ![c] = step]

\* The call will return r once its guard is dropped.
Answer(c, step, r) ==
  /\ Goto(c, step)
  /\ reply' = [reply EXCEPT ![c] = r]

\* The command arrives with a run id and a source revision.
Submit(c, r, v) ==
  /\ At(c, "idle")
  /\ <<c, r, v>> \in Submissions
  /\ task' = [task EXCEPT ![c] = [run |-> r, revision |-> v]]
  /\ Goto(c, "checking")
  /\ UNCHANGED <<active, cancelled, reply, procVars, dbVars>>

\* The id is free: no row has it, read under one lock of the connection.
CheckRunId(c) ==
  /\ At(c, "checking")
  /\ status[Run(c)] = "absent"
  /\ Goto(c, "registering")
  /\ UNCHANGED <<task, active, cancelled, reply, procVars, dbVars>>

\* A taken id, bad input, a missing source file or a storage error: the call
\* returns before it has touched anything.
RejectInput(c) ==
  /\ At(c, "checking")
  /\ Answer(c, "done", "error")
  /\ UNCHANGED <<task, active, cancelled, procVars, dbVars>>

\* Mutant: the active map is not consulted.
RegisterUnchecked(c) ==
  /\ At(c, "registering")
  /\ active' = [active EXCEPT ![Run(c)] = c]
  /\ Goto(c, "starting")
  /\ UNCHANGED <<task, cancelled, reply, procVars, dbVars>>

\* Insert the token under the active-run lock.
Register(c) ==
  /\ At(c, "registering")
  /\ active[Run(c)] = None
  /\ active' = [active EXCEPT ![Run(c)] = c]
  /\ Goto(c, "starting")
  /\ UNCHANGED <<task, cancelled, reply, procVars, dbVars>>

RejectActive(c) ==
  /\ At(c, "registering")
  /\ active[Run(c)] # None
  /\ Answer(c, "done", "error")
  /\ UNCHANGED <<task, active, cancelled, procVars, dbVars>>

-----------------------------------------------------------------------------
(* The run repository (storage/runs.rs)                                    *)

\* Mutant: the identity of an existing row is not compared.
AnyIdentity(c) == TRUE

\* validate_run_relationships: the identity of an existing row is immutable.
SameIdentity(c) == identity[Run(c)] \in {None, Revision(c)}

\* upsert_run: insert the row with its identity, or, where there is a row
\* already, overwrite its status and its diagnostics and nothing else.
UpsertRun(c, st, d) ==
  /\ identity' = [identity EXCEPT ![Run(c)] = IF @ = None THEN Revision(c) ELSE @]
  /\ status' = [status EXCEPT ![Run(c)] = st]
  /\ diagnostics' = [diagnostics EXCEPT ![Run(c)] = d]

\* Mutant: the error of the failing save is swallowed.
SaveFailsSilently(c) ==
  /\ ~SameIdentity(c) \/ "storage" \in Faults
  /\ Answer(c, "leaving", "ok")
  /\ UNCHANGED dbVars

\* A repository call that fails rolls back and leaves every table alone.
SaveFails(c) ==
  /\ ~SameIdentity(c) \/ "storage" \in Faults
  /\ Answer(c, "leaving", "error")
  /\ UNCHANGED dbVars

\* repository.save(&running).
SaveRunning(c) ==
  /\ At(c, "starting")
  /\ \/ /\ SameIdentity(c)
        /\ UpsertRun(c, "running", None)
        /\ Goto(c, "engine")
        /\ UNCHANGED <<reply, findings, output>>
     \/ SaveFails(c)
  /\ UNCHANGED <<task, active, cancelled, procVars>>

\* persist_terminal_run: the row alone, without findings or output.
SaveTerminal(c) ==
  /\ \E outcome \in {"failed", "cancelled"} :
       /\ At(c, IF outcome = "failed" THEN "save_failed" ELSE "save_cancelled")
       /\ \/ /\ SameIdentity(c)
             /\ UpsertRun(c, outcome, None)
             /\ Answer(c, "leaving", "error")
             /\ UNCHANGED <<findings, output>>
          \/ SaveFails(c)
  /\ UNCHANGED <<task, active, cancelled, procVars>>

\* Mutant: the findings are inserted beside those of an earlier save.
SaveCompletedKeepsFindings(c) ==
  /\ At(c, "save_completed")
  /\ \/ /\ SameIdentity(c)
        /\ UpsertRun(c, "completed", c)
        /\ findings' = [findings EXCEPT ![Run(c)] = IF @ = None THEN c ELSE @]
        /\ output' = [output EXCEPT ![Run(c)] = c]
        /\ Answer(c, "leaving", "ok")
     \/ SaveFails(c)
  /\ UNCHANGED <<task, active, cancelled, procVars>>

\* save_with_findings_and_output: the row, the findings and the typed output
\* in one transaction.
SaveCompleted(c) ==
  /\ At(c, "save_completed")
  /\ \/ /\ SameIdentity(c)
        /\ UpsertRun(c, "completed", c)
        /\ findings' = [findings EXCEPT ![Run(c)] = c]
        /\ output' = [output EXCEPT ![Run(c)] = c]
        /\ Answer(c, "leaving", "ok")
     \/ SaveFails(c)
  /\ UNCHANGED <<task, active, cancelled, procVars>>

-----------------------------------------------------------------------------
(* The engine                                                              *)

\* A cancellation check finds the token set.
EngineCancelled(c) ==
  /\ At(c, "engine")
  /\ c \in cancelled
  /\ Goto(c, "save_cancelled")
  /\ UNCHANGED <<task, active, cancelled, reply, procVars, dbVars>>

\* Mutant: the last check ignores the token.
EngineNeverChecks(c) ==
  /\ At(c, "engine")
  /\ Goto(c, "finishing")
  /\ UNCHANGED <<task, active, cancelled, reply, procVars, dbVars>>

\* The last cancellation check is passed: from here the engine only finishes.
EngineLastCheck(c) ==
  /\ At(c, "engine")
  /\ c \notin cancelled
  /\ Goto(c, "finishing")
  /\ UNCHANGED <<task, active, cancelled, reply, procVars, dbVars>>

\* The engine fails, or its output fails contract validation, or the rule-set
\* version is not the declared one.
EngineFailed(c) ==
  /\ At(c, "engine") \/ At(c, "finishing")
  /\ Goto(c, "save_failed")
  /\ UNCHANGED <<task, active, cancelled, reply, procVars, dbVars>>

EngineSucceeded(c) ==
  /\ At(c, "finishing")
  /\ Goto(c, "save_completed")
  /\ UNCHANGED <<task, active, cancelled, reply, procVars, dbVars>>

\* Unwinding drops the guard; no terminal status is saved.
EnginePanics(c) ==
  /\ "panic" \in Faults
  /\ At(c, "engine") \/ At(c, "finishing")
  /\ Answer(c, "leaving", "error")
  /\ UNCHANGED <<task, active, cancelled, procVars, dbVars>>

\* Mutant: the entry is removed at the end of a successful run only.
ReleaseOnSuccess(c) ==
  /\ At(c, "leaving")
  /\ reply[c] = "ok"
  /\ active' = [active EXCEPT ![Run(c)] = None]
  /\ Goto(c, "done")
  /\ UNCHANGED <<task, cancelled, reply, procVars, dbVars>>

\* ActiveRunGuard is dropped; it removes the entry by run id.
Release(c) ==
  /\ At(c, "leaving")
  /\ active' = [active EXCEPT ![Run(c)] = None]
  /\ Goto(c, "done")
  /\ UNCHANGED <<task, cancelled, reply, procVars, dbVars>>

-----------------------------------------------------------------------------
(* The user, the process, the reset                                        *)

\* cancel_tool_run: TRUE to the caller iff the id is active.
Cancel(r) ==
  /\ up
  /\ active[r] # None
  /\ cancelled' = cancelled \cup {active[r]}
  /\ UNCHANGED <<pc, task, active, reply, procVars, dbVars>>

\* Everything in memory is lost; calls in flight never answer.
ProcessEnds ==
  /\ up' = FALSE
  /\ resetting' = FALSE
  /\ pc' = [c \in Calls |-> IF pc[c] \in {"idle", "done"} THEN pc[c] ELSE "gone"]
  /\ reply' = [c \in Calls |-> IF pc[c] = "done" THEN reply[c] ELSE "none"]
  /\ active' = [r \in RunIds |-> None]
  /\ cancelled' = {}
  /\ UNCHANGED task

Crash ==
  /\ "crash" \in Faults
  /\ up
  /\ ProcessEnds
  /\ UNCHANGED <<marker, dbVars>>

\* reset_openconkit refuses while the active maps are not empty ...
ResetCheck ==
  /\ "reset" \in Faults
  /\ up /\ ~resetting
  /\ \A r \in RunIds : active[r] = None
  /\ resetting' = TRUE
  /\ UNCHANGED <<up, marker, callVars, dbVars>>

\* ... then awaits the Codex lock and its shutdown, writes the marker and
\* restarts the process.
ResetCommit ==
  /\ up /\ resetting
  /\ marker' = TRUE
  /\ ProcessEnds
  /\ UNCHANGED dbVars

\* Writing the marker fails: the command returns the error.
ResetFails ==
  /\ up /\ resetting
  /\ resetting' = FALSE
  /\ UNCHANGED <<up, marker, callVars, dbVars>>

\* The next launch.  No row of an interrupted run is touched.
Boot ==
  /\ ~up /\ ~marker
  /\ up' = TRUE
  /\ UNCHANGED <<resetting, marker, callVars, dbVars>>

\* Mutant: the typed outputs survive the reset.
BootAfterPartialReset ==
  /\ ~up /\ marker
  /\ up' = TRUE
  /\ marker' = FALSE
  /\ identity' = [r \in RunIds |-> None]
  /\ status' = [r \in RunIds |-> "absent"]
  /\ diagnostics' = [r \in RunIds |-> None]
  /\ findings' = [r \in RunIds |-> None]
  /\ reply' = [c \in Calls |-> "none"]
  /\ UNCHANGED <<pc, task, active, cancelled, resetting, output>>

\* The next launch with a reset pending: the whole home is deleted first.
BootAfterReset ==
  /\ ~up /\ marker
  /\ up' = TRUE
  /\ marker' = FALSE
  /\ identity' = [r \in RunIds |-> None]
  /\ status' = [r \in RunIds |-> "absent"]
  /\ diagnostics' = [r \in RunIds |-> None]
  /\ findings' = [r \in RunIds |-> None]
  /\ output' = [r \in RunIds |-> None]
  /\ reply' = [c \in Calls |-> "none"]
  /\ UNCHANGED <<pc, task, active, cancelled, resetting>>

CallStep(c) ==
  \/ CheckRunId(c) \/ RejectInput(c) \/ Register(c) \/ RejectActive(c)
  \/ SaveRunning(c) \/ EngineCancelled(c) \/ EngineLastCheck(c)
  \/ EngineFailed(c) \/ EngineSucceeded(c) \/ EnginePanics(c)
  \/ SaveTerminal(c) \/ SaveCompleted(c) \/ Release(c)

Next ==
  \/ \E c \in Calls, r \in RunIds, v \in Revisions : Submit(c, r, v)
  \/ \E c \in Calls : CallStep(c)
  \/ \E r \in RunIds : Cancel(r)
  \/ Crash \/ ResetCheck \/ ResetCommit \/ ResetFails \/ Boot \/ BootAfterReset

Spec == Init /\ [][Next]_vars

\* A worker thread that can take its next step eventually takes it, and a
\* process that is down is launched again.  Nothing obliges the user to
\* submit, cancel or reset.
FairSpec ==
  /\ Spec
  /\ \A c \in Calls : WF_vars(CallStep(c))
  /\ WF_vars(Boot) /\ WF_vars(BootAfterReset)

-----------------------------------------------------------------------------
(* Properties                                                              *)

\* The shape of every variable.
TypeOK ==
  /\ pc \in [Calls -> Steps]
  /\ task \in [Calls -> [run : RunIds, revision : Revisions] \cup {None}]
  /\ active \in [RunIds -> Calls \cup {None}]
  /\ cancelled \in SUBSET Calls
  /\ reply \in [Calls -> {"none", "ok", "error"}]
  /\ up \in BOOLEAN /\ resetting \in BOOLEAN /\ marker \in BOOLEAN
  /\ identity \in [RunIds -> Revisions \cup {None}]
  /\ status \in [RunIds -> {"absent", "running"} \cup Terminal]
  /\ diagnostics \in [RunIds -> Calls \cup {None}]
  /\ findings \in [RunIds -> Calls \cup {None}]
  /\ output \in [RunIds -> Calls \cup {None}]
  /\ \A c \in Calls : pc[c] \notin {"idle", "gone"} => task[c] # None

\* However run ids are reused, one run id has one executor: between the
\* insertion into active_runs and the drop of the guard no other call works
\* on the same run, and the map names exactly the calls at work, so cancel
\* reaches the engine that is running.
OneExecutor ==
  /\ \A c, d \in Calls :
       pc[c] \in Guarded /\ pc[d] \in Guarded /\ Run(c) = Run(d) => c = d
  /\ \A c \in Calls : pc[c] \in Guarded => active[Run(c)] = c
  /\ \A r \in RunIds : active[r] # None =>
       pc[active[r]] \in Guarded /\ Run(active[r]) = r

\* A completed run can be reopened and reported as one result: its
\* diagnostics, its findings and its typed output all come from one call,
\* whatever was saved under that id before.
CompletedIsWhole ==
  \A r \in RunIds : status[r] = "completed" =>
    /\ output[r] # None
    /\ findings[r] = output[r]
    /\ diagnostics[r] = output[r]

\* A result the caller has seen stays in the history as it was, through
\* later calls, failures and crashes, until a reset erases the home.
AckedRunIsDurable ==
  \A c \in Calls : reply[c] = "ok" =>
    /\ pc[c] \in {"leaving", "done"}
    /\ status[Run(c)] = "completed"
    /\ identity[Run(c)] = Revision(c)
    /\ output[Run(c)] = c

\* The step a call is at tells the status of its row, once ids are unique:
\* nothing is recorded before SaveRunning, the row reads running until the
\* call has saved the outcome, and a process that is down executes nothing.
\* This is what makes the promise of the ledger inductive.
StepMatchesRow ==
  /\ \A c \in Calls : pc[c] \notin {"idle", "gone"} =>
       <<c, Run(c), Revision(c)>> \in Submissions
  /\ ~up => \A c \in Calls : pc[c] \in {"idle", "done", "gone"}
  /\ \A c \in Calls : pc[c] \in {"registering", "starting"} =>
       status[Run(c)] = "absent"
  /\ \A c \in Calls : pc[c] \in Guarded \ {"starting", "leaving"} =>
       status[Run(c)] = "running"

\* What is stored under a run id was computed from the source the row names.
\* An upsert keeps the identity of the row it finds, so a call that came with
\* another revision must be refused before it writes
\* (validate_run_relationships); otherwise the history shows the findings and
\* the output of one workbook as those of another.
ResultsOfTheRecordedSource ==
  \A r \in RunIds :
    \A c \in {diagnostics[r], findings[r], output[r]} \ {None} :
      identity[r] = Revision(c)

\* Typed output is kept for completed runs only (runs.rs says so when it
\* refuses to write output for any other status).
OutputOnlyWhenCompleted ==
  \A r \in RunIds : output[r] # None => status[r] = "completed"

\* A run shown as running is being executed (domain/run.rs: "Currently
\* executing").
RunningMeansExecuting ==
  \A r \in RunIds : status[r] = "running" => active[r] # None

\* A reset goes ahead only while no analysis runs (reset_openconkit).
ResetSparesActiveRuns ==
  [][marker' /\ ~marker => \A r \in RunIds : active[r] = None]_vars

\* Every call that entered the active map leaves it again, whether the
\* engine finishes, fails or panics, a save fails or the process dies, so
\* no run id stays blocked and a reset is not refused for ever.
EveryCallLeaves ==
  \A c \in Calls : pc[c] \in Guarded ~> pc[c] \notin Guarded

\* A cancellation that arrives before the engine's last check ends the run
\* without a result, however late the worker notices it.
CancelInTimeIsHonoured ==
  \A c \in Calls :
    c \in cancelled /\ pc[c] \in {"starting", "engine"}
      ~> pc[c] \in {"done", "gone"} /\ reply[c] # "ok"

\* With its own ids the host keeps the promise of the run history.
Ledger == INSTANCE RunLedger WITH
  entry <- status,
  withOutput <- {r \in RunIds : output[r] # None}

LedgerSpec == Ledger!Spec
=============================================================================
