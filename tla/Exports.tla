------------------------------- MODULE Exports -------------------------------
(***************************************************************************)
(* Exports of completed runs (generate_analysis_export and its helpers in  *)
(* commands.rs, the exports table in storage/exports.rs). A report is      *)
(* written into a directory of its own below the directory of its run,     *)
(* which the first export of the run creates; a row is inserted when the   *)
(* file is whole and its hash agrees. Exports run concurrently, each on a  *)
(* thread of its own, and the process may die between any two steps.       *)
(***************************************************************************)
EXTENDS Naturals, Sequences, FiniteSets

CONSTANTS
  Runs,        \* analysis runs
  Completed,   \* those that are completed with a stored output
  Calls,       \* concurrent calls of the user interface
  Ids,         \* export identifiers, each drawn once
  Kinds, Languages,
  MaxReviews, MaxCrashes, MaxChanges, \* bounds of the environment
  None

ASSUME ExportsAssumption ==
  Completed \subseteq Runs /\ None \notin Ids \cup Runs /\ MaxReviews \in Nat

VARIABLES
  runDirs,   \* exports/<run> exists for these runs
  dirs,      \* exports/<run>/<id> exists for these identifiers
  files,     \* the report below each: "none", "partial", "whole" or "changed"
  rows,      \* exports: the rows of the table
  used,      \* identifiers drawn so far
  reviews,   \* ai_analyses: run -> sequence of <<language, usable>>
  call,      \* what each call does
  crashes, changes

vars == <<runDirs, dirs, files, rows, used, reviews, call, crashes, changes>>
disk == <<runDirs, dirs, files>>
faults == <<crashes, changes>>

Idle == [pc |-> "idle", id |-> None]
NoFile == [state |-> "none", of |-> None]
Reports == [run : Runs, kind : Kinds, language : Languages, commentary : 0 .. MaxReviews]
Busy == {"checkRun", "makeRun", "makeDir", "pick", "create", "fill", "verify", "record", "cleanup"}

Init ==
  /\ runDirs = {} /\ dirs = {}
  /\ files = [i \in Ids |-> NoFile]
  /\ rows = {} /\ used = {}
  /\ reviews = [r \in Runs |-> <<>>]
  /\ call = [c \in Calls |-> Idle]
  /\ crashes = 0 /\ changes = 0

-----------------------------------------------------------------------------
(* One export *)

At(c, pc) == call[c].pc = pc
Goto(c, pc) == call' = [call EXCEPT ![c].pc = pc]

\* export_analysis_run: the run must be completed and have its output.
Begin(c, r, k, l) ==
  /\ At(c, "idle")
  /\ IF r \notin Completed
     THEN /\ Goto(c, "failed")
          /\ UNCHANGED used
     ELSE \E i \in Ids \ used :
            /\ used' = used \cup {i}
            /\ call' = [call EXCEPT ![c] = [pc |-> "checkRun", id |-> i, run |-> r, kind |-> k,
                                            language |-> l, commentary |-> 0]]
  /\ UNCHANGED <<disk, rows, reviews, faults>>

\* create_confined_directory looks at each component and creates it in two
\* steps; the components above the run's exist since the project was created.
CheckRunDir(c) ==
  /\ At(c, "checkRun")
  /\ Goto(c, IF call[c].run \in runDirs THEN "makeDir" ELSE "makeRun")
  /\ UNCHANGED <<disk, rows, used, reviews, faults>>

\* create_dir fails if the directory has appeared meanwhile, or for want of
\* space; nothing has to be taken back then.
MakeRunDir(c) ==
  /\ At(c, "makeRun")
  /\ \/ /\ call[c].run \notin runDirs
        /\ runDirs' = runDirs \cup {call[c].run}
        /\ Goto(c, "makeDir")
     \/ Goto(c, "failed") /\ UNCHANGED runDirs
  /\ UNCHANGED <<dirs, files, rows, used, reviews, faults>>

MakeExportDir(c) ==
  /\ At(c, "makeDir")
  /\ \/ dirs' = dirs \cup {call[c].id} /\ Goto(c, "pick")
     \/ Goto(c, "failed") /\ UNCHANGED dirs
  /\ UNCHANGED <<runDirs, files, rows, used, reviews, faults>>

\* The commentary: the latest analysis of the run in the language that is
\* completed, validated and not rejected; if it does not validate against the
\* output again, there is none, and no earlier one is tried.
PickCommentary(c) ==
  /\ At(c, "pick")
  /\ LET of == reviews[call[c].run]
         fit == {n \in DOMAIN of : of[n][1] = call[c].language}
         Commented(n) == call' = [call EXCEPT ![c].pc = "create", ![c].commentary = n]
     IN \/ fit = {} /\ Commented(0)
        \/ \E last \in fit : /\ \A n \in fit : n <= last
                             /\ Commented(IF of[last][2] THEN last ELSE 0)
  /\ UNCHANGED <<disk, rows, used, reviews, faults>>

Content(c) == [run |-> call[c].run, kind |-> call[c].kind, language |-> call[c].language,
               commentary |-> call[c].commentary]

\* The provider: the report is built and laid out in memory, which may fail;
\* publish_new_file creates the file and writes it, and removes what it could
\* not write.
CreateFile(c) ==
  /\ At(c, "create")
  /\ \/ /\ files' = [files EXCEPT ![call[c].id] = [state |-> "partial", of |-> Content(c)]]
        /\ Goto(c, "fill")
     \/ Goto(c, "cleanup") /\ UNCHANGED files
  /\ UNCHANGED <<runDirs, dirs, rows, used, reviews, faults>>

FillFile(c) ==
  /\ At(c, "fill")
  /\ \/ /\ files' = [files EXCEPT ![call[c].id].state = "whole"]
        /\ Goto(c, "verify")
     \/ /\ files' = [files EXCEPT ![call[c].id] = NoFile]
        /\ Goto(c, "cleanup")
  /\ UNCHANGED <<runDirs, dirs, rows, used, reviews, faults>>

\* verify_export_artifact: a regular file in the directory of the export.
Artifact(i) == i \in dirs /\ files[i].state # "none"

\* hash_file; a hash stands for the content, and only a whole report has the
\* content somebody recorded.
Hash(i) == IF files[i].state = "whole" THEN files[i].of ELSE None

\* The host hashes the file itself and compares with what the provider says.
Verify(c) ==
  /\ At(c, "verify")
  /\ Goto(c, IF Artifact(call[c].id) /\ Hash(call[c].id) = Content(c) THEN "record" ELSE "cleanup")
  /\ UNCHANGED <<disk, rows, used, reviews, faults>>

\* The row: the path names the run, the export and the file.
RowOf(c) == [id |-> call[c].id, run |-> call[c].run, sha |-> Content(c)]

\* Mutant: what failed after the report was written is left as it is.
RecordAndLeave(c) ==
  /\ At(c, "record")
  /\ \/ /\ rows' = rows \cup {RowOf(c)}
        /\ Goto(c, "done")
     \/ Goto(c, "failed") /\ UNCHANGED rows
  /\ UNCHANGED <<disk, used, reviews, faults>>

\* SqliteExportRepository.save; an error of the database leaves no row.
Record(c) ==
  /\ At(c, "record")
  /\ \/ /\ rows' = rows \cup {RowOf(c)}
        /\ Goto(c, "done")
     \/ Goto(c, "cleanup") /\ UNCHANGED rows
  /\ UNCHANGED <<disk, used, reviews, faults>>

\* Mutant: the directory of the run is removed, not that of the export.
CleanupRun(c) ==
  LET gone == {i \in Ids : files[i].of # None /\ files[i].of.run = call[c].run} \cup {call[c].id}
  IN /\ At(c, "cleanup")
     /\ dirs' = dirs \ gone
     /\ runDirs' = runDirs \ {call[c].run}
     /\ files' = [i \in Ids |-> IF i \in gone THEN NoFile ELSE files[i]]
     /\ Goto(c, "failed")
     /\ UNCHANGED <<rows, used, reviews, faults>>

\* cleanup_export_destination: the directory of the export with all in it.
Cleanup(c) ==
  /\ At(c, "cleanup")
  /\ dirs' = dirs \ {call[c].id}
  /\ files' = [files EXCEPT ![call[c].id] = NoFile]
  /\ Goto(c, "failed")
  /\ UNCHANGED <<runDirs, rows, used, reviews, faults>>

\* list_by_run: what list_run_exports and open_analysis_run show.
RunExports(r) == {row \in rows : row.run = r}

\* resolve_recorded_export: the recorded file is there with the recorded hash.
Resolved(row) == Artifact(row.id) /\ Hash(row.id) = row.sha

\* reveal_path: the file manager is started, or cannot be.
RevealPath(c) == Goto(c, "done") \/ Goto(c, "failed")

\* reveal_export: only a row of the run is looked up.
Reveal(c, r, i) ==
  /\ At(c, "idle")
  /\ IF \E row \in RunExports(r) : row.id = i /\ Resolved(row)
     THEN RevealPath(c) ELSE Goto(c, "failed")
  /\ UNCHANGED <<disk, rows, used, reviews, faults>>

Return(c) ==
  /\ call[c].pc \in {"done", "failed"}
  /\ call' = [call EXCEPT ![c] = Idle]
  /\ UNCHANGED <<disk, rows, used, reviews, faults>>

-----------------------------------------------------------------------------
(* The environment *)

\* A review of the run completes; usable says whether its output would
\* validate again against the stored output.
ReviewCompletes(r, l, usable) ==
  /\ r \in Completed
  /\ Len(reviews[r]) < MaxReviews
  /\ reviews' = [reviews EXCEPT ![r] = Append(@, <<l, usable>>)]
  /\ UNCHANGED <<disk, rows, used, call, faults>>

\* The process dies; what is on the disk stays, and no launch looks at it.
Crash ==
  /\ crashes < MaxCrashes
  /\ crashes' = crashes + 1
  /\ call' = [c \in Calls |-> Idle]
  /\ UNCHANGED <<disk, rows, used, reviews, changes>>

\* Another program changes a report.
ChangeFile(i) ==
  /\ changes < MaxChanges
  /\ files[i].state = "whole"
  /\ changes' = changes + 1
  /\ files' = [files EXCEPT ![i].state = "changed"]
  /\ UNCHANGED <<runDirs, dirs, rows, used, reviews, call, crashes>>

Step(c) ==
  \/ CheckRunDir(c) \/ MakeRunDir(c) \/ MakeExportDir(c) \/ PickCommentary(c)
  \/ CreateFile(c) \/ FillFile(c) \/ Verify(c) \/ Record(c) \/ Cleanup(c) \/ Return(c)

\* Nothing is left to ask for: every identifier of the instance is drawn.
Rest == used = Ids /\ (\A c \in Calls : At(c, "idle")) /\ UNCHANGED vars

Next ==
  \/ \E c \in Calls, r \in Runs, k \in Kinds, l \in Languages : Begin(c, r, k, l)
  \/ \E c \in Calls : Step(c)
  \/ \E c \in Calls, r \in Runs, i \in Ids : Reveal(c, r, i)
  \/ \E r \in Runs, l \in Languages, usable \in BOOLEAN : ReviewCompletes(r, l, usable)
  \/ \E i \in Ids : ChangeFile(i)
  \/ Crash
  \/ Rest

Spec == Init /\ [][Next]_vars

-----------------------------------------------------------------------------
(* Properties *)

ExportsTypeOK ==
  /\ runDirs \subseteq Runs /\ dirs \subseteq Ids /\ used \subseteq Ids
  /\ files \in [Ids -> {NoFile} \cup [state : {"partial", "whole", "changed"}, of : Reports]]
  /\ rows \subseteq [id : Ids, run : Runs, sha : Reports]
  /\ \A c \in Calls : call[c].pc \in Busy \cup {"idle", "done", "failed"}

\* Every row has its report: in its place, whole, and the one that was
\* recorded, unless another program changed it; no crash, failure or clean-up
\* of another export of the run takes it away, before or after the row is
\* written.
RecordsArePublished ==
  \A row \in rows :
    /\ row.run \in runDirs /\ row.id \in dirs
    /\ files[row.id].state \in {"whole", "changed"}
    /\ files[row.id].of = row.sha
    /\ row.sha.run = row.run

\* Without a crash, a directory that no row names belongs to an export that is
\* still under way: whatever fails leaves nothing of its own behind.
FailureLeavesNothing ==
  crashes = 0 =>
    \A i \in dirs : \/ \E row \in rows : row.id = i
                    \/ \E c \in Calls : call[c].id = i /\ call[c].pc \in Busy
=============================================================================
