----------------------------- MODULE RunLedger -----------------------------
(***************************************************************************)
(* What the run history promises to its readers: a run is recorded once,   *)
(* starts, and ends in one terminal status that never changes again; the   *)
(* typed output of a run exists exactly when the run completed.  Nothing   *)
(* is ever removed except by a factory reset, which removes everything.    *)
(* RunLifecycle implements this ledger.                                    *)
(***************************************************************************)

CONSTANT RunIds

VARIABLES
  entry,      \* run id -> what the history shows for it
  withOutput  \* the run ids that can be reopened, exported and reviewed

ledgerVars == <<entry, withOutput>>

Terminal == {"completed", "failed", "cancelled"}

Init ==
  /\ entry = [r \in RunIds |-> "absent"]
  /\ withOutput = {}

Start(r) ==
  /\ entry[r] = "absent"
  /\ entry' = [entry EXCEPT ![r] = "running"]
  /\ UNCHANGED withOutput

Finish(r, outcome) ==
  /\ entry[r] = "running"
  /\ entry' = [entry EXCEPT ![r] = outcome]
  /\ withOutput' = IF outcome = "completed" THEN withOutput \cup {r} ELSE withOutput

Erase ==
  /\ entry' = [r \in RunIds |-> "absent"]
  /\ withOutput' = {}

Next ==
  \/ \E r \in RunIds : Start(r)
  \/ \E r \in RunIds, outcome \in Terminal : Finish(r, outcome)
  \/ Erase

Spec == Init /\ [][Next]_ledgerVars
=============================================================================
