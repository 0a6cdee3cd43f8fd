------------------------- MODULE RunLifecycleProofs -------------------------
(***************************************************************************)
(* Theorems about RunLifecycle for every set of calls, run ids, revisions  *)
(* and submissions, and every combination of faults.                       *)
(***************************************************************************)
EXTENDS RunLifecycle, TLAPS

-----------------------------------------------------------------------------
(* Every state has the declared shape.                                     *)

LEMMA TypeInit == Init => TypeOK
  <1> SUFFICES ASSUME Init PROVE TypeOK
    OBVIOUS
  <1>1. pc \in [Calls -> Steps] /\ reply \in [Calls -> {"none", "ok", "error"}]
    BY DEF Init, Steps
  <1>2. task \in [Calls -> [run : RunIds, revision : Revisions] \cup {None}]
    BY DEF Init
  <1>3. active \in [RunIds -> Calls \cup {None}] /\ cancelled \in SUBSET Calls
    BY DEF Init
  <1>4. up \in BOOLEAN /\ resetting \in BOOLEAN /\ marker \in BOOLEAN
    BY DEF Init
  <1>5. /\ identity \in [RunIds -> Revisions \cup {None}]
        /\ status \in [RunIds -> {"absent", "running"} \cup Terminal]
    BY DEF Init
  <1>6. /\ diagnostics \in [RunIds -> Calls \cup {None}]
        /\ findings \in [RunIds -> Calls \cup {None}]
        /\ output \in [RunIds -> Calls \cup {None}]
    BY DEF Init
  <1>7. \A c \in Calls : pc[c] \notin {"idle", "gone"} => task[c] # None
    BY DEF Init
  <1>8. QED
    BY <1>1, <1>2, <1>3, <1>4, <1>5, <1>6, <1>7 DEF TypeOK

\* A step of a call only ever concerns a call that was submitted.
LEMMA RunIsTyped ==
  ASSUME TypeOK, NEW c \in Calls, pc[c] \notin {"idle", "gone"}
  PROVE  Run(c) \in RunIds /\ Revision(c) \in Revisions
  BY DEF TypeOK, Run, Revision

LEMMA TypeCallStep ==
  ASSUME TypeOK, NEW c \in Calls, CallStep(c)
  PROVE  TypeOK'
  <1> USE DEF TypeOK, Steps, Guarded, Terminal, At, Goto, Answer, SaveFails,
              UpsertRun, callVars, procVars, dbVars, rowVars
  <1>1. CASE CheckRunId(c)
    BY <1>1 DEF CheckRunId
  <1>2. CASE RejectInput(c)
    BY <1>2 DEF RejectInput
  <1>3. CASE Register(c)
    BY <1>3 DEF Register
  <1>4. CASE RejectActive(c)
    BY <1>4 DEF RejectActive
  <1>5. CASE SaveRunning(c)
    BY <1>5, RunIsTyped DEF SaveRunning
  <1>6. CASE EngineCancelled(c)
    BY <1>6 DEF EngineCancelled
  <1>7. CASE EngineLastCheck(c)
    BY <1>7 DEF EngineLastCheck
  <1>8. CASE EngineFailed(c)
    BY <1>8 DEF EngineFailed
  <1>9. CASE EngineSucceeded(c)
    BY <1>9 DEF EngineSucceeded
  <1>10. CASE EnginePanics(c)
    BY <1>10 DEF EnginePanics
  <1>11. CASE SaveTerminal(c)
    BY <1>11, RunIsTyped DEF SaveTerminal
  <1>12. CASE SaveCompleted(c)
    BY <1>12, RunIsTyped, SMTT(30) DEF SaveCompleted
  <1>13. CASE Release(c)
    BY <1>13, RunIsTyped DEF Release
  <1>14. QED
    BY <1>1, <1>2, <1>3, <1>4, <1>5, <1>6, <1>7, <1>8, <1>9, <1>10, <1>11,
       <1>12, <1>13 DEF CallStep

LEMMA TypeNext == TypeOK /\ [Next]_vars => TypeOK'
  <1> SUFFICES ASSUME TypeOK, [Next]_vars PROVE TypeOK'
    OBVIOUS
  <1> USE DEF TypeOK, Steps, Guarded, At, Goto, callVars, procVars, dbVars, rowVars
  <1>1. ASSUME NEW c \in Calls, NEW r \in RunIds, NEW v \in Revisions, Submit(c, r, v)
        PROVE  TypeOK'
    BY <1>1, NoneAssumption DEF Submit
  <1>2. ASSUME NEW c \in Calls, CallStep(c)
        PROVE  TypeOK'
    BY <1>2, TypeCallStep
  <1>3. ASSUME NEW r \in RunIds, Cancel(r)
        PROVE  TypeOK'
    BY <1>3 DEF Cancel
  <1>4. CASE Crash
    BY <1>4 DEF Crash, ProcessEnds
  <1>5. CASE ResetCheck
    BY <1>5 DEF ResetCheck
  <1>6. CASE ResetCommit
    BY <1>6 DEF ResetCommit, ProcessEnds
  <1>7. CASE ResetFails
    BY <1>7 DEF ResetFails
  <1>8. CASE Boot
    BY <1>8 DEF Boot
  <1>9. CASE BootAfterReset
    BY <1>9 DEF BootAfterReset
  <1>10. CASE UNCHANGED vars
    BY <1>10 DEF vars
  <1>11. QED
    BY <1>1, <1>2, <1>3, <1>4, <1>5, <1>6, <1>7, <1>8, <1>9, <1>10 DEF Next

\* Every reachable state has the declared shape.
THEOREM TypeCorrect == Spec => []TypeOK
  BY TypeInit, TypeNext, PTL DEF Spec

-----------------------------------------------------------------------------
(* One executor per run id, whatever ids callers reuse.                    *)

LEMMA ExecutorInit == Init => OneExecutor
  BY DEF Init, OneExecutor, Guarded

\* A call that stays at work, or stays out of it, while the active map and
\* every task are left alone.
LEMMA ExecutorStays ==
  ASSUME TypeOK, OneExecutor, NEW c \in Calls, NEW s \in Steps,
         pc' = [pc EXCEPT ![c] = s], active' = active, task' = task,
         pc[c] \in Guarded <=> s \in Guarded
  PROVE  OneExecutor'
  <1>1. \A d \in Calls : pc'[d] \in Guarded <=> pc[d] \in Guarded
    BY DEF TypeOK
  <1>2. \A d \in Calls : Run(d)' = Run(d)
    BY DEF Run
  <1>3. \A r \in RunIds : active[r] # None => active[r] \in Calls
    BY DEF TypeOK
  <1>4. QED
    BY <1>1, <1>2, <1>3 DEF OneExecutor, Run

LEMMA ExecutorRegister ==
  ASSUME TypeOK, OneExecutor, NEW c \in Calls, Register(c)
  PROVE  OneExecutor'
  <1> DEFINE R == Run(c)
  <1>1. /\ R \in RunIds /\ active[R] = None
        /\ pc[c] = "registering" /\ pc[c] \notin Guarded
    BY RunIsTyped DEF Register, At, Guarded
  <1>2. /\ pc' = [pc EXCEPT ![c] = "starting"]
        /\ active' = [active EXCEPT ![R] = c]
        /\ task' = task
    BY DEF Register, Goto
  <1>3. /\ pc \in [Calls -> Steps]
        /\ active \in [RunIds -> Calls \cup {None}]
        /\ None \notin Calls
    BY NoneAssumption DEF TypeOK
  <1>4. \A d \in Calls : Run(d)' = Run(d)
    BY <1>2 DEF Run
  <1>5. \A d \in Calls : pc[d] \in Guarded => Run(d) \in RunIds /\ active[Run(d)] = d
    BY RunIsTyped DEF OneExecutor, Guarded
  <1>6. \A d \in Calls : d # c /\ pc'[d] \in Guarded =>
          pc[d] \in Guarded /\ Run(d) # R
    BY <1>1, <1>2, <1>3, <1>5
  <1>7. pc'[c] = "starting" /\ active'[R] = c /\ "starting" \in Guarded
    BY <1>1, <1>2, <1>3 DEF Guarded
  <1>8. \A d \in Calls : pc'[d] \in Guarded => active'[Run(d)'] = d
    BY <1>2, <1>3, <1>4, <1>5, <1>6, <1>7
  <1>9. ASSUME NEW r \in RunIds, active'[r] # None
        PROVE  (pc[active[r]] \in Guarded /\ Run(active[r]) = r)'
    <2>1. CASE r = R
      BY <1>4, <1>7, <2>1 DEF Run
    <2>2. CASE r # R
      <3>1. PICK d \in Calls : active'[r] = d /\ active[r] = d
        BY <1>2, <1>3, <1>9, <2>2
      <3>2. pc[d] \in Guarded /\ Run(d) = r /\ d # c
        BY <1>1, <1>3, <3>1 DEF OneExecutor
      <3>3. pc'[d] = pc[d] /\ Run(d)' = Run(d)
        BY <1>2, <1>3, <1>4, <3>2
      <3>4. QED
        BY <3>1, <3>2, <3>3 DEF Run
    <2>3. QED
      BY <2>1, <2>2
  <1>10. QED
    <2>1. \A d, e \in Calls :
            pc'[d] \in Guarded /\ pc'[e] \in Guarded /\ Run(d)' = Run(e)' => d = e
      BY <1>8
    <2>2. QED
      BY <1>8, <1>9, <2>1 DEF OneExecutor

LEMMA ExecutorRelease ==
  ASSUME TypeOK, OneExecutor, NEW c \in Calls, Release(c)
  PROVE  OneExecutor'
  <1> DEFINE R == Run(c)
  <1>1. /\ R \in RunIds /\ pc[c] \in Guarded /\ active[R] = c
    BY RunIsTyped DEF Release, At, Guarded, OneExecutor
  <1>2. /\ pc' = [pc EXCEPT ![c] = "done"]
        /\ active' = [active EXCEPT ![R] = None]
        /\ task' = task
    BY DEF Release, Goto
  <1>3. /\ pc \in [Calls -> Steps]
        /\ active \in [RunIds -> Calls \cup {None}]
    BY DEF TypeOK
  <1>4. \A d \in Calls : Run(d)' = Run(d)
    BY <1>2 DEF Run
  <1>5. \A d \in Calls : pc'[d] \in Guarded => d # c /\ pc[d] \in Guarded
    BY <1>2, <1>3 DEF Guarded
  <1>6. \A d \in Calls : pc'[d] \in Guarded => Run(d) \in RunIds /\ Run(d) # R
    BY <1>1, <1>5, RunIsTyped DEF OneExecutor, Guarded
  <1>7. \A d \in Calls : pc'[d] \in Guarded => active'[Run(d)'] = d
    BY <1>2, <1>3, <1>4, <1>5, <1>6 DEF OneExecutor
  <1>8. ASSUME NEW r \in RunIds, active'[r] # None
        PROVE  (pc[active[r]] \in Guarded /\ Run(active[r]) = r)'
    <2>1. r # R
      BY <1>2, <1>3, <1>8
    <2>2. PICK d \in Calls : active'[r] = d /\ active[r] = d
      BY <1>2, <1>3, <1>8, <2>1
    <2>3. pc[d] \in Guarded /\ Run(d) = r /\ d # c
      BY <1>1, <1>3, <2>1, <2>2, NoneAssumption DEF OneExecutor
    <2>4. pc'[d] = pc[d] /\ Run(d)' = Run(d)
      BY <1>2, <1>3, <1>4, <2>3
    <2>5. QED
      BY <2>2, <2>3, <2>4 DEF Run
  <1>9. QED
    <2>1. \A d, e \in Calls :
            pc'[d] \in Guarded /\ pc'[e] \in Guarded /\ Run(d)' = Run(e)' => d = e
      BY <1>7
    <2>2. QED
      BY <1>7, <1>8, <2>1 DEF OneExecutor

LEMMA ExecutorCallStep ==
  ASSUME TypeOK, OneExecutor, NEW c \in Calls, CallStep(c)
  PROVE  OneExecutor'
  <1> USE DEF At, Goto, Answer, SaveFails
  <1>1. CASE CheckRunId(c) \/ RejectInput(c) \/ RejectActive(c)
    <2>1. PICK s \in {"registering", "done"} : pc' = [pc EXCEPT ![c] = s]
      BY <1>1 DEF CheckRunId, RejectInput, RejectActive
    <2>2. pc[c] \in {"checking", "registering"} /\ active' = active /\ task' = task
      BY <1>1 DEF CheckRunId, RejectInput, RejectActive
    <2>3. s \in Steps /\ (pc[c] \in Guarded <=> s \in Guarded)
      BY <2>1, <2>2 DEF Steps, Guarded
    <2>4. QED
      BY <2>1, <2>2, <2>3, ExecutorStays
  <1>2. CASE \/ SaveRunning(c) \/ SaveTerminal(c) \/ SaveCompleted(c)
             \/ EngineCancelled(c) \/ EngineLastCheck(c) \/ EngineFailed(c)
             \/ EngineSucceeded(c) \/ EnginePanics(c)
    <2>1. PICK s \in Guarded : pc' = [pc EXCEPT ![c] = s]
      BY <1>2 DEF SaveRunning, SaveTerminal, SaveCompleted, EngineCancelled,
                  EngineLastCheck, EngineFailed, EngineSucceeded, EnginePanics,
                  Guarded
    <2>2. pc[c] \in Guarded /\ active' = active /\ task' = task
      BY <1>2 DEF SaveRunning, SaveTerminal, SaveCompleted, EngineCancelled,
                  EngineLastCheck, EngineFailed, EngineSucceeded, EnginePanics,
                  Guarded
    <2>3. s \in Steps /\ (pc[c] \in Guarded <=> s \in Guarded)
      BY <2>1, <2>2 DEF Steps
    <2>4. QED
      BY <2>1, <2>2, <2>3, ExecutorStays
  <1>3. QED
    BY <1>1, <1>2, ExecutorRegister, ExecutorRelease DEF CallStep

LEMMA ExecutorNext == TypeOK /\ OneExecutor /\ [Next]_vars => OneExecutor'
  <1> SUFFICES ASSUME TypeOK, OneExecutor, [Next]_vars PROVE OneExecutor'
    OBVIOUS
  <1> USE DEF OneExecutor, Guarded, Run, callVars, procVars, dbVars
  <1>1. ASSUME NEW c \in Calls, NEW r \in RunIds, NEW v \in Revisions, Submit(c, r, v)
        PROVE  OneExecutor'
    BY <1>1 DEF Submit, At, Goto, TypeOK
  <1>2. ASSUME NEW c \in Calls, CallStep(c)
        PROVE  OneExecutor'
    BY <1>2, ExecutorCallStep
  <1>3. ASSUME NEW r \in RunIds, Cancel(r)
        PROVE  OneExecutor'
    BY <1>3 DEF Cancel
  <1>4. CASE Crash
    BY <1>4 DEF Crash, ProcessEnds, TypeOK
  <1>5. CASE ResetCheck
    BY <1>5 DEF ResetCheck
  <1>6. CASE ResetCommit
    BY <1>6 DEF ResetCommit, ProcessEnds, TypeOK
  <1>7. CASE ResetFails
    BY <1>7 DEF ResetFails
  <1>8. CASE Boot
    BY <1>8 DEF Boot
  <1>9. CASE BootAfterReset
    BY <1>9 DEF BootAfterReset
  <1>10. CASE UNCHANGED vars
    BY <1>10 DEF vars
  <1>11. QED
    BY <1>1, <1>2, <1>3, <1>4, <1>5, <1>6, <1>7, <1>8, <1>9, <1>10 DEF Next

\* Two calls never execute the same run at once, and the active map names
\* exactly the calls at work, even when callers reuse run ids.
THEOREM OneExecutorAlways == Spec => []OneExecutor
  BY TypeCorrect, ExecutorInit, ExecutorNext, PTL DEF Spec

-----------------------------------------------------------------------------
(* A completed run is one whole result.                                    *)

\* Only the repository actions and the reset write the tables; every other
\* action leaves all five columns alone.
LEMMA WholeNext == TypeOK /\ CompletedIsWhole /\ [Next]_vars => CompletedIsWhole'
  <1> SUFFICES ASSUME TypeOK, CompletedIsWhole, [Next]_vars
               PROVE  CompletedIsWhole'
    OBVIOUS
  <1> USE DEF CompletedIsWhole, dbVars
  <1>1. ASSUME NEW c \in Calls, SaveRunning(c)
        PROVE  CompletedIsWhole'
    BY <1>1, RunIsTyped DEF SaveRunning, SaveFails, UpsertRun, At, TypeOK
  <1>2. ASSUME NEW c \in Calls, SaveTerminal(c)
        PROVE  CompletedIsWhole'
    BY <1>2, RunIsTyped DEF SaveTerminal, SaveFails, UpsertRun, At, TypeOK
  <1>3. ASSUME NEW c \in Calls, SaveCompleted(c)
        PROVE  CompletedIsWhole'
    BY <1>3, RunIsTyped, NoneAssumption
       DEF SaveCompleted, SaveFails, UpsertRun, At, TypeOK
  <1>4. CASE BootAfterReset
    BY <1>4 DEF BootAfterReset
  <1>5. CASE UNCHANGED dbVars
    BY <1>5
  <1>6. ASSUME NEW c \in Calls, CallStep(c)
        PROVE  CompletedIsWhole'
    BY <1>1, <1>2, <1>3, <1>5, <1>6
       DEF CallStep, CheckRunId, RejectInput, Register, RejectActive,
           EngineCancelled, EngineLastCheck, EngineFailed, EngineSucceeded,
           EnginePanics, Release
  <1>7. QED
    BY <1>4, <1>5, <1>6
       DEF Next, vars, Submit, Cancel, Crash, ResetCheck, ResetCommit,
           ResetFails, Boot

\* Whatever is saved under a run id, in whatever order, by whichever calls:
\* diagnostics, findings and output of a completed run have one author.
THEOREM CompletedIsWholeAlways == Spec => []CompletedIsWhole
  <1>1. Init => CompletedIsWhole
    BY DEF Init, CompletedIsWhole
  <1>2. QED
    BY <1>1, TypeCorrect, WholeNext, PTL DEF Spec

-----------------------------------------------------------------------------
(* What is stored was computed from the source the row names.              *)

\* Whoever has written under an id has left the idle state, so its task is
\* fixed: with that, the property is inductive.
Writers(r) == {diagnostics[r], findings[r], output[r]} \ {None}
WriterInv ==
  \A r \in RunIds :
    \A c \in Writers(r) :
      pc[c] # "idle" /\ identity[r] # None /\ identity[r] = Revision(c)

\* A save that is not refused leaves the identity it finds, which is the
\* call's own, and adds no writer but the call.
LEMMA WriterSave ==
  ASSUME TypeOK, WriterInv, NEW c \in Calls,
         SaveRunning(c) \/ SaveTerminal(c) \/ SaveCompleted(c)
  PROVE  WriterInv'
  <1> DEFINE R == Run(c)
  <1>1. /\ R \in RunIds /\ Revision(c) \in Revisions
        /\ pc[c] # "idle" /\ task' = task
        /\ \E s \in Steps \ {"idle"} : pc' = [pc EXCEPT ![c] = s]
    BY RunIsTyped
       DEF SaveRunning, SaveTerminal, SaveCompleted, SaveFails, At, Goto,
           Answer, Steps, Guarded
  <1>2. /\ pc \in [Calls -> Steps]
        /\ identity \in [RunIds -> Revisions \cup {None}]
        /\ \A r \in RunIds : Writers(r) \subseteq Calls
        /\ Revision(c) # None
    BY <1>1, NoneAssumption DEF TypeOK, Writers
  <1>3. \A d \in Calls : pc[d] # "idle" =>
          pc'[d] # "idle" /\ Revision(d)' = Revision(d)
    BY <1>1, <1>2 DEF Revision
  <1>4. ASSUME NEW x, SameIdentity(c), UpsertRun(c, "running", x) \/
                      UpsertRun(c, "failed", x) \/ UpsertRun(c, "cancelled", x) \/
                      UpsertRun(c, "completed", x)
        PROVE  /\ identity'[R] = Revision(c)
               /\ \A r \in RunIds \ {R} : identity'[r] = identity[r]
               /\ identity[R] # None => identity'[R] = identity[R]
               /\ diagnostics' = [diagnostics EXCEPT ![R] = x]
    BY <1>1, <1>2, <1>4 DEF UpsertRun, SameIdentity
  <1>5. \/ UNCHANGED dbVars
        \/ /\ \A r \in RunIds \ {R} : Writers(r)' = Writers(r) /\ identity'[r] = identity[r]
           /\ Writers(R)' \subseteq Writers(R) \cup {c}
           /\ identity'[R] = Revision(c)
           /\ identity[R] # None => identity'[R] = identity[R]
    <2>1. CASE UNCHANGED dbVars
      BY <2>1
    <2>2. CASE ~UNCHANGED dbVars
      <3>1. PICK x \in {None, c} :
              /\ SameIdentity(c)
              /\ \/ UpsertRun(c, "running", x) \/ UpsertRun(c, "failed", x)
                 \/ UpsertRun(c, "cancelled", x) \/ UpsertRun(c, "completed", x)
              /\ findings' = findings \/ findings' = [findings EXCEPT ![R] = c]
              /\ output' = output \/ output' = [output EXCEPT ![R] = c]
        BY <2>2, RunIsTyped DEF SaveRunning, SaveTerminal, SaveCompleted, SaveFails, dbVars
      <3>2. /\ diagnostics' = [diagnostics EXCEPT ![R] = x]
            /\ diagnostics \in [RunIds -> Calls \cup {None}]
            /\ findings \in [RunIds -> Calls \cup {None}]
            /\ output \in [RunIds -> Calls \cup {None}]
        BY <1>4, <3>1 DEF TypeOK
      <3>3. \A r \in RunIds \ {R} : Writers(r)' = Writers(r)
        BY <3>1, <3>2 DEF Writers
      <3>4. Writers(R)' \subseteq Writers(R) \cup {c}
        <4>1. /\ diagnostics'[R] \in {None, c}
              /\ findings'[R] \in {findings[R], c}
              /\ output'[R] \in {output[R], c}
          BY <1>1, <3>1, <3>2
        <4>2. /\ R' = R
              /\ diagnostics'[R] = None \/ diagnostics'[R] = c
              /\ findings'[R] = findings[R] \/ findings'[R] = c
              /\ output'[R] = output[R] \/ output'[R] = c
          BY <1>1, <4>1 DEF Run
        <4>3. QED
          BY <4>2, Zenon DEF Writers
      <3>5. QED
        BY <1>4, <3>1, <3>3, <3>4
    <2>3. QED
      BY <2>1, <2>2
  <1>6. CASE UNCHANGED dbVars
    <2>1. \A r \in RunIds : Writers(r)' = Writers(r) /\ identity'[r] = identity[r]
      BY <1>6 DEF Writers, dbVars
    <2>2. QED
      BY <1>2, <1>3, <2>1 DEF WriterInv
  <1>7. CASE ~UNCHANGED dbVars
    <2>1. ASSUME NEW d \in Writers(R)'
          PROVE  pc'[d] # "idle" /\ identity'[R] # None /\ identity'[R] = Revision(d)'
      <3>1. CASE d = c
        BY <1>1, <1>2, <1>3, <1>5, <1>7, <3>1
      <3>2. CASE d # c
        <4>1. d \in Writers(R) /\ d \in Calls
          BY <1>1, <1>2, <1>5, <1>7, <2>1, <3>2
        <4>2. pc[d] # "idle" /\ identity[R] # None /\ identity[R] = Revision(d)
          BY <1>1, <4>1 DEF WriterInv
        <4>3. QED
          BY <1>3, <1>5, <1>7, <4>1, <4>2
      <3>3. QED
        BY <3>1, <3>2
    <2>2. ASSUME NEW r \in RunIds \ {R}, NEW d \in Writers(r)'
          PROVE  pc'[d] # "idle" /\ identity'[r] # None /\ identity'[r] = Revision(d)'
      <3>1. d \in Writers(r) /\ d \in Calls /\ identity'[r] = identity[r]
        BY <1>2, <1>5, <1>7, <2>2
      <3>2. pc[d] # "idle" /\ identity[r] # None /\ identity[r] = Revision(d)
        BY <3>1 DEF WriterInv
      <3>3. QED
        BY <1>3, <3>1, <3>2
    <2>3. R' = R
      BY <1>1 DEF Run
    <2>4. ASSUME NEW r \in RunIds, NEW d \in Writers(r)'
          PROVE  pc'[d] # "idle" /\ identity'[r] # None /\ identity'[r] = Revision(d)'
      <3>1. CASE r = R
        BY <2>1, <2>3, <2>4, <3>1
      <3>2. CASE r # R
        BY <2>2, <2>4, <3>2
      <3>3. QED
        BY <3>1, <3>2
    <2>5. QED
      BY <2>4 DEF WriterInv
  <1>8. QED
    BY <1>6, <1>7

\* Every other step but the reset leaves the tables alone, and no call becomes
\* idle again; a call that is submitted has written nothing yet.
LEMMA WriterKept ==
  ASSUME TypeOK, WriterInv, UNCHANGED dbVars,
         \A c \in Calls : pc[c] # "idle" => pc'[c] # "idle" /\ task'[c] = task[c]
  PROVE  WriterInv'
  <1>1. ASSUME NEW r \in RunIds
        PROVE  /\ Writers(r)' = Writers(r) /\ Writers(r) \subseteq Calls
               /\ identity'[r] = identity[r]
    BY DEF Writers, dbVars, TypeOK
  <1>2. \A c \in Calls : pc[c] # "idle" => pc'[c] # "idle" /\ Revision(c)' = Revision(c)
    BY DEF Revision
  <1>3. ASSUME NEW r \in RunIds, NEW c \in Writers(r)'
        PROVE  pc'[c] # "idle" /\ identity'[r] # None /\ identity'[r] = Revision(c)'
    <2>1. c \in Writers(r) /\ c \in Calls
      BY <1>1, <1>3
    <2>2. pc[c] # "idle" /\ identity[r] # None /\ identity[r] = Revision(c)
      BY <2>1 DEF WriterInv
    <2>3. QED
      BY <1>1, <1>2, <2>1, <2>2
  <1>4. QED
    BY <1>3 DEF WriterInv

LEMMA WriterNext == TypeOK /\ WriterInv /\ [Next]_vars => WriterInv'
  <1> SUFFICES ASSUME TypeOK, WriterInv, [Next]_vars PROVE WriterInv'
    OBVIOUS
  <1> DEFINE Moves == \A c \in Calls : pc[c] # "idle" => pc'[c] # "idle" /\ task'[c] = task[c]
  <1>1. pc \in [Calls -> Steps] /\ task \in [Calls -> [run : RunIds, revision : Revisions] \cup {None}]
    BY DEF TypeOK
  <1>2. ASSUME NEW c \in Calls, CallStep(c), UNCHANGED dbVars
        PROVE  WriterInv'
    <2>1. Moves
      BY <1>1, <1>2
         DEF CallStep, CheckRunId, RejectInput, Register, RejectActive,
             SaveRunning, SaveTerminal, SaveCompleted, SaveFails,
             EngineCancelled, EngineLastCheck, EngineFailed, EngineSucceeded,
             EnginePanics, Release, Goto, Answer
    <2>2. QED
      BY <1>2, <2>1, WriterKept
  <1>3. ASSUME NEW c \in Calls, CallStep(c), ~UNCHANGED dbVars
        PROVE  WriterInv'
    <2>1. SaveRunning(c) \/ SaveTerminal(c) \/ SaveCompleted(c)
      BY <1>3
         DEF CallStep, CheckRunId, RejectInput, Register, RejectActive,
             EngineCancelled, EngineLastCheck, EngineFailed, EngineSucceeded,
             EnginePanics, Release
    <2>2. QED
      BY <2>1, WriterSave
  <1>4. ASSUME NEW c \in Calls, NEW r \in RunIds, NEW v \in Revisions, Submit(c, r, v)
        PROVE  WriterInv'
    <2>1. Moves
      BY <1>1, <1>4 DEF Submit, At, Goto
    <2>2. QED
      BY <1>4, <2>1, WriterKept DEF Submit
  <1>5. CASE (\E r \in RunIds : Cancel(r)) \/ ResetCheck \/ ResetFails \/ Boot
    <2>1. Moves /\ UNCHANGED dbVars
      BY <1>5 DEF Cancel, ResetCheck, ResetFails, Boot, callVars
    <2>2. QED
      BY <2>1, WriterKept
  <1>6. CASE Crash \/ ResetCommit
    <2>1. Moves /\ UNCHANGED dbVars
      BY <1>6 DEF Crash, ResetCommit, ProcessEnds
    <2>2. QED
      BY <2>1, WriterKept
  <1>7. CASE BootAfterReset
    <2>1. \A r \in RunIds : Writers(r)' = {}
      BY <1>7 DEF BootAfterReset, Writers
    <2>2. QED
      BY <2>1 DEF WriterInv
  <1>8. CASE UNCHANGED vars
    <2>1. Moves /\ UNCHANGED dbVars
      BY <1>8 DEF vars, callVars
    <2>2. QED
      BY <2>1, WriterKept
  <1>9. QED
    BY <1>2, <1>3, <1>4, <1>5, <1>6, <1>7, <1>8 DEF Next

\* However often an id is submitted again, from whichever revision and
\* whatever fails, the results stored under it were computed from the source
\* its row names (validate_run_relationships).
THEOREM ResultsOfTheRecordedSourceAlways == Spec => []ResultsOfTheRecordedSource
  <1>1. Init => WriterInv
    <2>1. ASSUME Init, NEW r \in RunIds PROVE Writers(r) = {}
      BY <2>1 DEF Init, Writers
    <2>2. QED
      BY <2>1 DEF WriterInv
  <1>2. WriterInv => ResultsOfTheRecordedSource
    BY DEF WriterInv, Writers, ResultsOfTheRecordedSource
  <1>3. QED
    BY <1>1, <1>2, TypeCorrect, WriterNext, PTL DEF Spec

-----------------------------------------------------------------------------
(* With run ids of their own, calls keep the promise of RunLedger.         *)

\* Two calls in flight work on two runs.
LEMMA OwnRun ==
  ASSUME UniqueIds, TypeOK, StepMatchesRow, NEW c \in Calls, NEW d \in Calls,
         c # d, pc[c] \notin {"idle", "gone"}, pc[d] \notin {"idle", "gone"}
  PROVE  Run(c) # Run(d)
  <1>1. /\ <<c, Run(c), Revision(c)>> \in Submissions
        /\ <<d, Run(d), Revision(d)>> \in Submissions
    BY DEF StepMatchesRow
  <1>2. SUFFICES ASSUME Run(c) = Run(d) PROVE FALSE
    OBVIOUS
  <1>3. <<c, Run(c), Revision(c)>>[1] = <<d, Run(d), Revision(d)>>[1]
    BY <1>1, <1>2 DEF UniqueIds
  <1>4. QED
    BY <1>3

\* A call moves on and touches no row but its own: enough for every step of a
\* call that its new step agrees with the status of that row.
LEMMA StepOfCall ==
  ASSUME UniqueIds, TypeOK, StepMatchesRow, NEW c \in Calls,
         pc[c] \notin {"idle", "gone"}, up, up' = up, task' = task,
         \A d \in Calls : d # c => pc'[d] = pc[d],
         \A r \in RunIds : r # Run(c) => status'[r] = status[r],
         pc'[c] \in {"registering", "starting"} => status'[Run(c)] = "absent",
         pc'[c] \in Guarded \ {"starting", "leaving"} => status'[Run(c)] = "running"
  PROVE  StepMatchesRow'
  <1>1. \A d \in Calls : Run(d)' = Run(d) /\ Revision(d)' = Revision(d)
    BY DEF Run, Revision
  <1>2. ASSUME NEW d \in Calls, d # c, pc[d] \notin {"idle", "gone"}
        PROVE  status'[Run(d)] = status[Run(d)]
    BY <1>2, OwnRun, RunIsTyped
  <1>3. ASSUME NEW d \in Calls
        PROVE  /\ pc'[d] \notin {"idle", "gone"} =>
                    <<d, Run(d)', Revision(d)'>> \in Submissions
               /\ pc'[d] \in {"registering", "starting"} => status'[Run(d)'] = "absent"
               /\ pc'[d] \in Guarded \ {"starting", "leaving"} =>
                    status'[Run(d)'] = "running"
    <2>1. CASE d = c
      BY <1>1, <2>1 DEF StepMatchesRow
    <2>2. CASE d # c
      BY <1>1, <1>2, <2>2 DEF StepMatchesRow, Guarded
    <2>3. QED
      BY <2>1, <2>2
  <1>4. QED
    BY <1>3 DEF StepMatchesRow

\* A call writes its own row and no other.
LEMMA OnlyOwnRow ==
  ASSUME TypeOK, NEW c \in Calls, CallStep(c)
  PROVE  /\ up /\ up' = up /\ task' = task
         /\ pc[c] \notin {"idle", "gone"}
         /\ \A d \in Calls : d # c => pc'[d] = pc[d] /\ reply'[d] = reply[d]
         /\ \A r \in RunIds : r # Run(c) =>
              /\ status'[r] = status[r]
              /\ identity'[r] = identity[r]
              /\ output'[r] = output[r]
  <1> USE DEF At, Goto, Answer, SaveFails, UpsertRun, procVars, dbVars
  <1>1. up /\ up' = up /\ task' = task /\ pc[c] \notin {"idle", "gone"}
    BY DEF CallStep, CheckRunId, RejectInput, Register, RejectActive,
           SaveRunning, SaveTerminal, SaveCompleted, EngineCancelled,
           EngineLastCheck, EngineFailed, EngineSucceeded, EnginePanics, Release
  <1>2. PICK s \in Steps : pc' = [pc EXCEPT ![c] = s]
    BY DEF CallStep, CheckRunId, RejectInput, Register, RejectActive,
           SaveRunning, SaveTerminal, SaveCompleted, EngineCancelled,
           EngineLastCheck, EngineFailed, EngineSucceeded, EnginePanics, Release,
           Steps, Guarded
  <1>3. \A d \in Calls : d # c => pc'[d] = pc[d] /\ reply'[d] = reply[d]
    <2>1. reply' = reply \/ \E x : reply' = [reply EXCEPT ![c] = x]
      BY DEF CallStep, CheckRunId, RejectInput, Register, RejectActive,
             SaveRunning, SaveTerminal, SaveCompleted, EngineCancelled,
             EngineLastCheck, EngineFailed, EngineSucceeded, EnginePanics, Release
    <2>2. QED
      BY <1>2, <2>1 DEF TypeOK
  <1>4. \/ /\ \E x : status' = [status EXCEPT ![Run(c)] = x]
           /\ \E x : identity' = [identity EXCEPT ![Run(c)] = x]
           /\ output' = output \/ output' = [output EXCEPT ![Run(c)] = c]
        \/ status' = status /\ identity' = identity /\ output' = output
    BY DEF CallStep, CheckRunId, RejectInput, Register, RejectActive,
           SaveRunning, SaveTerminal, SaveCompleted, EngineCancelled,
           EngineLastCheck, EngineFailed, EngineSucceeded, EnginePanics, Release
  <1>5. \A r \in RunIds : r # Run(c) =>
          status'[r] = status[r] /\ identity'[r] = identity[r] /\ output'[r] = output[r]
    BY <1>4 DEF TypeOK
  <1>6. QED
    BY <1>1, <1>3, <1>5

LEMMA StepCallStep ==
  ASSUME UniqueIds, TypeOK, StepMatchesRow, NEW c \in Calls, CallStep(c)
  PROVE  StepMatchesRow'
  <1> DEFINE R == Run(c)
             Agrees ==
               /\ pc'[c] \in {"registering", "starting"} => status'[R] = "absent"
               /\ pc'[c] \in Guarded \ {"starting", "leaving"} =>
                    status'[R] = "running"
  <1>1. SUFFICES Agrees
    BY OnlyOwnRow, StepOfCall
  <1> USE DEF At, Goto, Answer, SaveFails, UpsertRun, dbVars, Guarded
  <1>2. /\ R \in RunIds
        /\ status \in [RunIds -> {"absent", "running"} \cup Terminal]
        /\ pc \in [Calls -> Steps]
    BY OnlyOwnRow, RunIsTyped DEF TypeOK
  <1>3. CASE CheckRunId(c)
    BY <1>2, <1>3 DEF CheckRunId
  <1>4. CASE RejectInput(c) \/ RejectActive(c) \/ Release(c)
    BY <1>2, <1>4 DEF RejectInput, RejectActive, Release
  <1>5. CASE Register(c)
    BY <1>2, <1>5 DEF Register, StepMatchesRow
  <1>6. CASE SaveRunning(c)
    BY <1>2, <1>6 DEF SaveRunning
  <1>7. CASE SaveTerminal(c) \/ SaveCompleted(c) \/ EnginePanics(c)
    BY <1>2, <1>7 DEF SaveTerminal, SaveCompleted, EnginePanics
  <1>8. CASE \/ EngineCancelled(c) \/ EngineLastCheck(c) \/ EngineFailed(c)
             \/ EngineSucceeded(c)
    <2>1. status' = status /\ pc[c] \in {"engine", "finishing"}
      BY <1>8 DEF EngineCancelled, EngineLastCheck, EngineFailed, EngineSucceeded
    <2>2. status[R] = "running"
      BY <2>1 DEF StepMatchesRow
    <2>3. pc'[c] \notin {"registering", "starting"}
      BY <1>2, <1>8
         DEF EngineCancelled, EngineLastCheck, EngineFailed, EngineSucceeded
    <2>4. QED
      BY <2>1, <2>2, <2>3
  <1>9. QED
    BY <1>3, <1>4, <1>5, <1>6, <1>7, <1>8 DEF CallStep

LEMMA StepNext ==
  ASSUME UniqueIds, TypeOK, StepMatchesRow, [Next]_vars
  PROVE  StepMatchesRow'
  <1> USE DEF StepMatchesRow, Run, Revision, Guarded, callVars, procVars, dbVars
  <1>1. ASSUME NEW c \in Calls, NEW r \in RunIds, NEW v \in Revisions, Submit(c, r, v)
        PROVE  StepMatchesRow'
    <2>1. /\ pc' = [pc EXCEPT ![c] = "checking"]
          /\ task' = [task EXCEPT ![c] = [run |-> r, revision |-> v]]
          /\ <<c, r, v>> \in Submissions /\ up /\ up' = up /\ status' = status
      BY <1>1 DEF Submit, At, Goto
    <2>2. /\ pc \in [Calls -> Steps]
          /\ task \in [Calls -> [run : RunIds, revision : Revisions] \cup {None}]
      BY DEF TypeOK
    <2>3. \A d \in Calls : d # c => pc'[d] = pc[d] /\ task'[d] = task[d]
      BY <2>1, <2>2
    <2>4. pc'[c] = "checking" /\ task'[c] = [run |-> r, revision |-> v]
      BY <2>1, <2>2
    <2>5. \A d \in Calls : pc'[d] \notin {"idle", "gone"} =>
            <<d, task'[d].run, task'[d].revision>> \in Submissions
      BY <2>1, <2>3, <2>4
    <2>6. QED
      BY <2>1, <2>3, <2>4, <2>5
  <1>2. ASSUME NEW c \in Calls, CallStep(c)
        PROVE  StepMatchesRow'
    BY <1>2, StepCallStep
  <1>3. ASSUME NEW r \in RunIds, Cancel(r)
        PROVE  StepMatchesRow'
    BY <1>3 DEF Cancel
  <1>4. CASE Crash \/ ResetCommit
    BY <1>4 DEF Crash, ResetCommit, ProcessEnds, TypeOK
  <1>5. CASE ResetCheck \/ ResetFails
    BY <1>5 DEF ResetCheck, ResetFails
  <1>6. CASE Boot
    BY <1>6 DEF Boot
  <1>7. CASE BootAfterReset
    BY <1>7 DEF BootAfterReset
  <1>8. CASE UNCHANGED vars
    BY <1>8 DEF vars
  <1>9. QED
    BY <1>1, <1>2, <1>3, <1>4, <1>5, <1>6, <1>7, <1>8 DEF Next

\* With unique ids, the step of every call agrees with the row it works on.
THEOREM StepMatchesRowAlways ==
  ASSUME UniqueIds
  PROVE  Spec => []StepMatchesRow
  <1>1. Init => StepMatchesRow
    BY DEF Init, StepMatchesRow, Guarded
  <1>2. TypeOK /\ StepMatchesRow /\ [Next]_vars => StepMatchesRow'
    BY StepNext
  <1>3. QED
    BY <1>1, <1>2, TypeCorrect, PTL DEF Spec

-----------------------------------------------------------------------------
(* What a caller was told stays true.                                      *)

LEMMA AckedCallStep ==
  ASSUME UniqueIds, TypeOK, StepMatchesRow, AckedRunIsDurable,
         NEW c \in Calls, CallStep(c)
  PROVE  AckedRunIsDurable'
  <1> DEFINE Acked(d) ==
               /\ pc[d] \in {"leaving", "done"}
               /\ status[Run(d)] = "completed"
               /\ identity[Run(d)] = Revision(d)
               /\ output[Run(d)] = d
  <1>1. SUFFICES ASSUME NEW d \in Calls, reply'[d] = "ok"
                 PROVE  Acked(d)'
    BY DEF AckedRunIsDurable
  <1>2. Run(d)' = Run(d) /\ Revision(d)' = Revision(d)
    BY OnlyOwnRow DEF Run, Revision
  <1>3. CASE d # c
    <2>1. pc'[d] = pc[d] /\ reply[d] = "ok" /\ Acked(d)
      BY <1>1, <1>3, OnlyOwnRow DEF AckedRunIsDurable
    <2>2. Run(d) # Run(c) /\ Run(d) \in RunIds
      BY <1>3, <2>1, OwnRun, OnlyOwnRow, RunIsTyped
    <2>3. QED
      BY <1>2, <2>1, <2>2, OnlyOwnRow
  <1>4. CASE d = c
    <2> USE DEF At, Goto, Answer, SaveFails, UpsertRun, dbVars
    <2>1. Run(c) \in RunIds
      BY OnlyOwnRow, RunIsTyped
    <2>2. CASE Release(c)
      <3>1. reply[c] = "ok" /\ pc'[c] = "done"
        BY <1>1, <1>4, <2>2 DEF Release, TypeOK
      <3>2. /\ status' = status /\ identity' = identity /\ output' = output
            /\ Acked(c)
        BY <2>2, <3>1 DEF Release, AckedRunIsDurable
      <3>3. QED
        BY <1>2, <1>4, <3>1, <3>2
    <2>3. CASE SaveCompleted(c)
      <3>1. /\ pc' = [pc EXCEPT ![c] = "leaving"]
            /\ SameIdentity(c) /\ UpsertRun(c, "completed", c)
            /\ output' = [output EXCEPT ![Run(c)] = c]
        BY <1>1, <1>4, <2>3 DEF SaveCompleted, TypeOK
      <3>2. identity'[Run(c)] = Revision(c) /\ status'[Run(c)] = "completed"
        BY <2>1, <3>1 DEF SameIdentity, TypeOK
      <3>3. QED
        BY <1>2, <1>4, <2>1, <3>1, <3>2 DEF TypeOK
    <2>4. CASE ~Release(c) /\ ~SaveCompleted(c)
      <3>1. pc[c] \notin {"leaving", "done"}
        BY <2>4 DEF CallStep, CheckRunId, RejectInput, Register, RejectActive,
             SaveRunning, SaveTerminal, EngineCancelled,
             EngineLastCheck, EngineFailed, EngineSucceeded, EnginePanics
      <3>2. reply[c] # "ok"
        BY <3>1 DEF AckedRunIsDurable
      <3>3. reply' = reply \/ reply' = [reply EXCEPT ![c] = "error"]
        BY <2>4 DEF CallStep, CheckRunId, RejectInput, Register, RejectActive,
             SaveRunning, SaveTerminal, EngineCancelled,
             EngineLastCheck, EngineFailed, EngineSucceeded, EnginePanics
      <3>4. reply'[c] # "ok"
        BY <3>2, <3>3 DEF TypeOK
      <3>5. QED
        BY <1>1, <1>4, <3>4
    <2>5. QED
      BY <2>2, <2>3, <2>4
  <1>5. QED
    BY <1>3, <1>4

LEMMA AckedNext ==
  ASSUME UniqueIds, TypeOK, StepMatchesRow, AckedRunIsDurable, [Next]_vars
  PROVE  AckedRunIsDurable'
  <1> USE DEF AckedRunIsDurable, Run, Revision, callVars, procVars, dbVars
  <1>1. ASSUME NEW c \in Calls, NEW r \in RunIds, NEW v \in Revisions, Submit(c, r, v)
        PROVE  AckedRunIsDurable'
    <2>1. /\ reply[c] # "ok" /\ reply' = reply
          /\ \A d \in Calls : d # c => pc'[d] = pc[d] /\ task'[d] = task[d]
          /\ UNCHANGED dbVars
      BY <1>1 DEF Submit, At, Goto, TypeOK
    <2>2. QED
      BY <2>1
  <1>2. ASSUME NEW c \in Calls, CallStep(c)
        PROVE  AckedRunIsDurable'
    BY <1>2, AckedCallStep
  <1>3. ASSUME NEW r \in RunIds, Cancel(r)
        PROVE  AckedRunIsDurable'
    BY <1>3 DEF Cancel
  <1>4. CASE Crash \/ ResetCommit
    BY <1>4 DEF Crash, ResetCommit, ProcessEnds, TypeOK
  <1>5. CASE ResetCheck \/ ResetFails
    BY <1>5 DEF ResetCheck, ResetFails
  <1>6. CASE Boot
    BY <1>6 DEF Boot
  <1>7. CASE BootAfterReset
    BY <1>7 DEF BootAfterReset
  <1>8. CASE UNCHANGED vars
    BY <1>8 DEF vars
  <1>9. QED
    BY <1>1, <1>2, <1>3, <1>4, <1>5, <1>6, <1>7, <1>8 DEF Next

\* A completed result that was returned to its caller survives failures,
\* panics and crashes of every other call and of the process; only a factory
\* reset removes it.
THEOREM AckedRunIsDurableAlways ==
  ASSUME UniqueIds
  PROVE  Spec => []AckedRunIsDurable
  <1>1. Init => AckedRunIsDurable
    BY DEF Init, AckedRunIsDurable
  <1>2. TypeOK /\ StepMatchesRow /\ AckedRunIsDurable /\ [Next]_vars
          => AckedRunIsDurable'
    BY AckedNext
  <1>3. QED
    BY <1>1, <1>2, TypeCorrect, StepMatchesRowAlways, PTL DEF Spec

-----------------------------------------------------------------------------
(* The refinement.                                                         *)

LEMMA LedgerCallStep ==
  ASSUME UniqueIds, TypeOK, StepMatchesRow, NEW c \in Calls, CallStep(c)
  PROVE  [Ledger!Next]_(Ledger!ledgerVars)
  <1> DEFINE R == Run(c)
  <1> USE DEF At, Goto, Answer, SaveFails, UpsertRun, dbVars, Ledger!ledgerVars
  <1>1. R \in RunIds /\ status \in [RunIds -> {"absent", "running"} \cup Terminal]
    BY OnlyOwnRow, RunIsTyped DEF TypeOK
  <1>2. CASE status' = status /\ output' = output
    BY <1>2
  <1>3. CASE SaveRunning(c)
    <2>1. CASE status' = [status EXCEPT ![R] = "running"] /\ output' = output
      <3>1. status[R] = "absent"
        BY <1>3 DEF SaveRunning, StepMatchesRow
      <3>2. Ledger!Start(R)
        BY <2>1, <3>1 DEF Ledger!Start
      <3>3. QED
        BY <1>1, <3>2 DEF Ledger!Next
    <2>2. QED
      BY <1>2, <1>3, <2>1 DEF SaveRunning
  <1>4. CASE SaveTerminal(c)
    <2>1. CASE output' = output /\ status' # status
      <3>1. PICK x \in {"failed", "cancelled"} : status' = [status EXCEPT ![R] = x]
        BY <1>4, <2>1 DEF SaveTerminal
      <3>2. status[R] = "running"
        BY <1>4 DEF SaveTerminal, StepMatchesRow, Guarded
      <3>3. Ledger!Finish(R, x)
        BY <2>1, <3>1, <3>2 DEF Ledger!Finish
      <3>4. QED
        BY <1>1, <3>3 DEF Ledger!Next, Ledger!Terminal
    <2>2. QED
      BY <1>2, <1>4, <2>1 DEF SaveTerminal
  <1>5. CASE SaveCompleted(c)
    <2>1. CASE /\ status' = [status EXCEPT ![R] = "completed"]
               /\ output' = [output EXCEPT ![R] = c]
      <3>1. status[R] = "running"
        BY <1>5 DEF SaveCompleted, StepMatchesRow, Guarded
      <3>2. {r \in RunIds : output'[r] # None} = {r \in RunIds : output[r] # None} \cup {R}
        BY <1>1, <2>1, NoneAssumption DEF TypeOK
      <3>3. Ledger!Finish(R, "completed")
        BY <2>1, <3>1, <3>2 DEF Ledger!Finish
      <3>4. QED
        BY <1>1, <3>3 DEF Ledger!Next, Ledger!Terminal
    <2>2. QED
      BY <1>2, <1>5, <2>1 DEF SaveCompleted
  <1>6. QED
    BY <1>2, <1>3, <1>4, <1>5
       DEF CallStep, CheckRunId, RejectInput, Register, RejectActive,
           EngineCancelled, EngineLastCheck, EngineFailed, EngineSucceeded,
           EnginePanics, Release

LEMMA LedgerNext ==
  ASSUME UniqueIds, TypeOK, StepMatchesRow, [Next]_vars
  PROVE  [Ledger!Next]_(Ledger!ledgerVars)
  <1>1. CASE \E c \in Calls : CallStep(c)
    BY <1>1, LedgerCallStep
  <1>2. CASE BootAfterReset
    <2>1. Ledger!Erase
      BY <1>2 DEF BootAfterReset, Ledger!Erase
    <2>2. QED
      BY <2>1 DEF Ledger!Next
  <1>3. CASE UNCHANGED dbVars
    BY <1>3 DEF dbVars, Ledger!ledgerVars
  <1>4. QED
    BY <1>1, <1>2, <1>3
       DEF Next, vars, Submit, Cancel, Crash, ResetCheck, ResetCommit,
           ResetFails, Boot

\* The run history is a ledger: every row starts once, ends in one terminal
\* status for good, and has output exactly from its completion on.
THEOREM ImplementsLedger ==
  ASSUME UniqueIds
  PROVE  Spec => LedgerSpec
  <1>1. Init => Ledger!Init
    BY DEF Init, Ledger!Init
  <1>2. TypeOK /\ StepMatchesRow /\ [Next]_vars => [Ledger!Next]_(Ledger!ledgerVars)
    BY LedgerNext
  <1>3. QED
    BY <1>1, <1>2, TypeCorrect, StepMatchesRowAlways, PTL
       DEF Spec, LedgerSpec, Ledger!Spec

-----------------------------------------------------------------------------
(* What reused ids, and nothing else, do to the output of a run.           *)

LEMMA OutputCallStep ==
  ASSUME UniqueIds, TypeOK, StepMatchesRow, OutputOnlyWhenCompleted,
         NEW c \in Calls, CallStep(c)
  PROVE  OutputOnlyWhenCompleted'
  <1> DEFINE R == Run(c)
  <1> USE DEF OutputOnlyWhenCompleted, At, Goto, Answer, SaveFails, UpsertRun, dbVars
  <1>1. /\ R \in RunIds
        /\ status \in [RunIds -> {"absent", "running"} \cup Terminal]
        /\ output \in [RunIds -> Calls \cup {None}]
    BY OnlyOwnRow, RunIsTyped DEF TypeOK
  <1>2. SUFFICES output'[R] # None => status'[R] = "completed"
    BY OnlyOwnRow
  <1>3. CASE status' = status /\ output' = output
    BY <1>1, <1>3
  <1>4. CASE SaveRunning(c) \/ SaveTerminal(c)
    \* The row was absent or running, so it has no output.
    <2>1. status[R] \in {"absent", "running"} /\ output' = output
      BY <1>4 DEF SaveRunning, SaveTerminal, StepMatchesRow, Guarded
    <2>2. output[R] = None
      BY <1>1, <2>1
    <2>3. QED
      BY <2>1, <2>2
  <1>5. CASE SaveCompleted(c)
    BY <1>1, <1>3, <1>5 DEF SaveCompleted
  <1>6. QED
    BY <1>3, <1>4, <1>5
       DEF CallStep, CheckRunId, RejectInput, Register, RejectActive,
           EngineCancelled, EngineLastCheck, EngineFailed, EngineSucceeded,
           EnginePanics, Release

LEMMA OutputNext ==
  ASSUME UniqueIds, TypeOK, StepMatchesRow, OutputOnlyWhenCompleted, [Next]_vars
  PROVE  OutputOnlyWhenCompleted'
  <1>1. CASE \E c \in Calls : CallStep(c)
    BY <1>1, OutputCallStep
  <1>2. CASE BootAfterReset
    BY <1>2 DEF BootAfterReset, OutputOnlyWhenCompleted
  <1>3. CASE UNCHANGED dbVars
    BY <1>3 DEF dbVars, OutputOnlyWhenCompleted
  <1>4. QED
    BY <1>1, <1>2, <1>3
       DEF Next, vars, Submit, Cancel, Crash, ResetCheck, ResetCommit,
           ResetFails, Boot

\* With ids of their own, whatever fails, a run that is not completed has no
\* typed output (runs.rs refuses to write any for another status).
THEOREM OutputOnlyWhenCompletedAlways ==
  ASSUME UniqueIds
  PROVE  Spec => []OutputOnlyWhenCompleted
  <1>1. Init => OutputOnlyWhenCompleted
    BY DEF Init, OutputOnlyWhenCompleted
  <1>2. TypeOK /\ StepMatchesRow /\ OutputOnlyWhenCompleted /\ [Next]_vars
          => OutputOnlyWhenCompleted'
    BY OutputNext
  <1>3. QED
    BY <1>1, <1>2, TypeCorrect, StepMatchesRowAlways, PTL DEF Spec

-----------------------------------------------------------------------------
(* What abandons a running row.                                            *)

\* The steps at which a call has a running row.
Working == Guarded \ {"starting", "leaving"}

\* The row of a call at work has the identity of the call, a running row has
\* a call at work, until a reset has been committed.
Executed ==
  /\ \A r \in RunIds : status[r] = "absent" => identity[r] = None
  /\ \A c \in Calls : pc[c] \in Working => identity[Run(c)] = Revision(c)
  /\ marker \/ \A r \in RunIds : status[r] = "running" =>
                 \E c \in Calls : pc[c] \in Working /\ Run(c) = r

\* What is enough for a step of a call: its own row.
LEMMA ExecutedOfCall ==
  ASSUME UniqueIds, TypeOK, StepMatchesRow, Executed, NEW c \in Calls, CallStep(c),
         status'[Run(c)] = "absent" => identity'[Run(c)] = None,
         pc'[c] \in Working => identity'[Run(c)] = Revision(c),
         ~marker /\ status'[Run(c)] = "running" => pc'[c] \in Working
  PROVE  Executed'
  <1>1. \A d \in Calls : Run(d)' = Run(d) /\ Revision(d)' = Revision(d)
    BY OnlyOwnRow DEF Run, Revision
  <1>2. \A d \in Calls : d # c /\ pc'[d] \in Working =>
          /\ pc[d] \in Working /\ Run(d) \in RunIds /\ Run(d) # Run(c)
          /\ identity'[Run(d)] = identity[Run(d)]
    BY OnlyOwnRow, OwnRun, RunIsTyped DEF Working, Guarded
  <1>3. \A r \in RunIds : status'[r] = "absent" => identity'[r] = None
    BY OnlyOwnRow DEF Executed
  <1>4. \A d \in Calls : pc'[d] \in Working => identity'[Run(d)'] = Revision(d)'
    BY <1>1, <1>2 DEF Executed
  <1>5. marker' = marker
    BY DEF CallStep, CheckRunId, RejectInput, Register, RejectActive,
           SaveRunning, SaveTerminal, SaveCompleted, EngineCancelled,
           EngineLastCheck, EngineFailed, EngineSucceeded, EnginePanics, Release,
           procVars
  <1>6. ASSUME ~marker, NEW r \in RunIds, status'[r] = "running"
        PROVE  \E d \in Calls : pc'[d] \in Working /\ Run(d)' = r
    <2>1. CASE r = Run(c)
      BY <1>1, <1>6, <2>1
    <2>2. CASE r # Run(c)
      <3>1. status[r] = "running"
        BY <1>6, <2>2, OnlyOwnRow
      <3>2. PICK d \in Calls : pc[d] \in Working /\ Run(d) = r
        BY <1>6, <3>1 DEF Executed
      <3>3. QED
        BY <1>1, <2>2, <3>2, OnlyOwnRow
    <2>3. QED
      BY <2>1, <2>2
  <1>7. QED
    BY <1>3, <1>4, <1>5, <1>6 DEF Executed

LEMMA ExecutedCallStep ==
  ASSUME UniqueIds, Faults \subseteq {"reset"},
         TypeOK, StepMatchesRow, Executed, NEW c \in Calls, CallStep(c)
  PROVE  Executed'
  <1> DEFINE R == Run(c)
  <1> SUFFICES /\ status'[R] = "absent" => identity'[R] = None
               /\ pc'[c] \in Working => identity'[R] = Revision(c)
               /\ ~marker /\ status'[R] = "running" => pc'[c] \in Working
    BY ExecutedOfCall
  <1>1. /\ R \in RunIds /\ Revision(c) \in Revisions
        /\ status \in [RunIds -> {"absent", "running"} \cup Terminal]
        /\ identity \in [RunIds -> Revisions \cup {None}]
        /\ pc \in [Calls -> Steps] /\ pc[c] \notin {"idle", "gone"}
    BY OnlyOwnRow, RunIsTyped DEF TypeOK
  \* No save is refused: the row has no identity yet, or the call's own.
  <1>2. pc[c] \in Guarded \ {"leaving"} => ~SaveFails(c)
    <2>1. pc[c] = "starting" => identity[R] = None
      BY <1>1 DEF Executed, StepMatchesRow
    <2>2. pc[c] \in Working => identity[R] = Revision(c)
      BY DEF Executed
    <2>3. QED
      BY <2>1, <2>2 DEF Working, SaveFails, SameIdentity
  \* A call that is not at work has no running row.
  <1>3. pc[c] \notin Working /\ ~marker => status[R] # "running"
    <2>1. SUFFICES ASSUME pc[c] \notin Working, ~marker, status[R] = "running"
                   PROVE  FALSE
      OBVIOUS
    <2>2. PICK d \in Calls : pc[d] \in Working /\ Run(d) = R
      BY <1>1, <2>1 DEF Executed
    <2>3. d # c /\ pc[d] \notin {"idle", "gone"}
      BY <2>1, <2>2 DEF Working, Guarded
    <2>4. QED
      BY <1>1, <2>2, <2>3, OwnRun
  <1> USE DEF At, Goto, Answer, dbVars
  <1>4. CASE CheckRunId(c) \/ RejectInput(c) \/ RejectActive(c) \/ Register(c) \/ Release(c)
    <2>1. /\ pc[c] \notin Working /\ pc'[c] \notin Working
          /\ status' = status /\ identity' = identity
      BY <1>1, <1>4 DEF CheckRunId, RejectInput, RejectActive, Register, Release,
                        Working, Guarded
    <2>2. QED
      BY <1>1, <1>3, <2>1 DEF Executed
  <1>5. CASE \/ EngineCancelled(c) \/ EngineLastCheck(c) \/ EngineFailed(c)
             \/ EngineSucceeded(c)
    <2>1. /\ pc[c] \in Working /\ pc'[c] \in Working
          /\ status' = status /\ identity' = identity
      BY <1>1, <1>5 DEF EngineCancelled, EngineLastCheck, EngineFailed,
                        EngineSucceeded, Working, Guarded
    <2>2. QED
      BY <1>1, <2>1 DEF Executed
  <1>6. CASE EnginePanics(c)
    BY <1>6 DEF EnginePanics
  <1>7. CASE SaveRunning(c)
    <2>1. /\ UpsertRun(c, "running", None) /\ pc'[c] = "engine"
      BY <1>1, <1>2, <1>7 DEF SaveRunning, Guarded
    <2>2. identity[R] = None
      BY <1>1, <1>7 DEF SaveRunning, At, Executed, StepMatchesRow
    <2>3. status'[R] = "running" /\ identity'[R] = Revision(c)
      BY <1>1, <2>1, <2>2 DEF UpsertRun
    <2>4. QED
      BY <2>1, <2>3 DEF Working, Guarded
  <1>8. CASE SaveTerminal(c)
    <2>1. PICK x \in {"failed", "cancelled"} :
            UpsertRun(c, x, None) /\ pc'[c] = "leaving"
      BY <1>1, <1>2, <1>8 DEF SaveTerminal, Guarded
    <2>2. status'[R] = x /\ x \notin {"absent", "running"}
      BY <1>1, <2>1 DEF UpsertRun
    <2>3. QED
      BY <2>1, <2>2 DEF Working
  <1>9. CASE SaveCompleted(c)
    <2>1. UpsertRun(c, "completed", c) /\ pc'[c] = "leaving"
      BY <1>1, <1>2, <1>9 DEF SaveCompleted, Guarded
    <2>2. status'[R] = "completed"
      BY <1>1, <2>1 DEF UpsertRun
    <2>3. QED
      BY <2>1, <2>2 DEF Working
  <1>10. QED
    BY <1>4, <1>5, <1>6, <1>7, <1>8, <1>9 DEF CallStep

LEMMA ExecutedNext ==
  ASSUME UniqueIds, Faults \subseteq {"reset"},
         TypeOK, StepMatchesRow, Executed, [Next]_vars
  PROVE  Executed'
  <1> USE DEF Executed, Run, Revision, Working, Guarded, callVars, procVars, dbVars
  <1>1. ASSUME NEW c \in Calls, NEW r \in RunIds, NEW v \in Revisions, Submit(c, r, v)
        PROVE  Executed'
    <2>1. /\ pc[c] = "idle" /\ pc'[c] = "checking"
          /\ \A d \in Calls : d # c => pc'[d] = pc[d] /\ task'[d] = task[d]
          /\ UNCHANGED <<marker, dbVars>>
      BY <1>1 DEF Submit, At, Goto, TypeOK
    <2>2. QED
      BY <2>1
  <1>2. ASSUME NEW c \in Calls, CallStep(c)
        PROVE  Executed'
    BY <1>2, ExecutedCallStep
  <1>3. ASSUME NEW r \in RunIds, Cancel(r)
        PROVE  Executed'
    BY <1>3 DEF Cancel
  <1>4. CASE Crash
    BY <1>4 DEF Crash
  <1>5. CASE ResetCommit
    <2>1. /\ marker' = TRUE /\ status' = status /\ identity' = identity
          /\ task' = task
          /\ \A c \in Calls : pc'[c] \in Working => FALSE
      BY <1>5 DEF ResetCommit, ProcessEnds
    <2>2. QED
      BY <2>1
  <1>6. CASE ResetCheck \/ ResetFails
    BY <1>6 DEF ResetCheck, ResetFails
  <1>7. CASE Boot
    BY <1>7 DEF Boot
  <1>8. CASE BootAfterReset
    <2>1. /\ \A c \in Calls : pc'[c] \notin Working
          /\ \A r \in RunIds : status'[r] = "absent" /\ identity'[r] = None
      BY <1>8 DEF BootAfterReset, StepMatchesRow
    <2>2. QED
      BY <2>1
  <1>9. CASE UNCHANGED vars
    BY <1>9 DEF vars
  <1>10. QED
    BY <1>1, <1>2, <1>3, <1>4, <1>5, <1>6, <1>7, <1>8, <1>9 DEF Next

\* A row that says running without a call at work is left by a crash, a
\* panic or a failing save and by nothing else; a reset leaves some too, but
\* no launch shows them, it erases the home first (domain/run.rs:
\* "Currently executing").
THEOREM RunningMeansExecutingAlways ==
  ASSUME UniqueIds, Faults \subseteq {"reset"}
  PROVE  Spec => [](marker \/ RunningMeansExecuting)
  <1>1. Init => Executed
    BY DEF Init, Executed, Working, Guarded
  <1>2. TypeOK /\ StepMatchesRow /\ Executed /\ [Next]_vars => Executed'
    BY ExecutedNext
  <1>3. TypeOK /\ OneExecutor /\ Executed => marker \/ RunningMeansExecuting
    BY NoneAssumption DEF Executed, OneExecutor, RunningMeansExecuting, Working
  <1>4. QED
    BY <1>1, <1>2, <1>3, TypeCorrect, StepMatchesRowAlways, OneExecutorAlways,
       PTL DEF Spec
=============================================================================
