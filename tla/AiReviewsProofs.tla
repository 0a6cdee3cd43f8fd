-------------------------- MODULE AiReviewsProofs --------------------------
(***************************************************************************)
(* What the AI reviews promise, for any calls, runs, launch budget, plans  *)
(* and faults.  The invariant says which calls have a connection and a     *)
(* plan, who holds the runtime lock, and where the one process that may be *)
(* alive is accounted for at each step.  What a row and a turn promise is  *)
(* said of choices of faults that leave the program a way to keep it.      *)
(***************************************************************************)
EXTENDS AiReviews, TLAPS

AccountSteps == {"idle", "locking", "spawning", "account", "opening", "abandoning",
                 "invalidating", "shutting", "leaving", "done", "gone"}

\* Which steps have a connection, a plan, and are taken by whom.
Shape ==
  /\ \A a \in Accounts : pc[a] \in AccountSteps
  /\ \A c \in Calls : pc[c] \in Asking \cup Subscribed \cup {"opening", "recording", "sandboxing",
                                                     "turning"}
       => using[c] \in Connections
  /\ \A r \in Reviews : pc[r] \in Subscribed \cup {"turning"} => turns[r] > 0

\* The active map names the review at work on a run.
Owner == \A r \in Reviews : pc[r] \in Guarded => active[RunOf[r]] = r

\* The lock is held across the two awaits of the runtime.
Locked ==
  /\ \A c \in Calls : pc[c] \in {"spawning", "shutting"} => lock = c
  /\ lock # None => lock \in Calls /\ pc[lock] \in {"spawning", "shutting"}
  /\ lock # None => service = 0
  /\ \A c \in Calls : pc[c] = "spawning" => launches \in Connections
  /\ \A c \in Calls : pc[c] = "shutting" => closing \in Connections

Alive(p) == conn[p] \in {"open", "deaf"}

\* Where a process that is alive is accounted for.
Process ==
  \A p \in Connections : Alive(p) =>
    /\ lock = None => p = service
    /\ \A c \in Calls : pc[c] = "spawning" => p = launches
    /\ \A c \in Calls : pc[c] = "shutting" => p = closing

\* The error of a review, its plan and its row.
Outcome ==
  /\ \A r \in Reviews :
       pc[r] \in Subscribed \cup {"idle", "locking", "spawning", "account",
                                  "recording", "sandboxing", "turning"} => err[r] = "none"
  /\ \A r \in Reviews : pc[r] = "interrupting" => err[r] # "none"
  /\ \A r \in Reviews : pc[r] \in {"cleaning", "ending"} /\ err[r] = "none" => turns[r] = 0
  /\ \A r \in Reviews : row[r] = "completed" =>
       /\ pc[r] \in {"leaving", "done", "gone"}
       /\ err[r] = "none" /\ turns[r] = 0 /\ grounding[r] = "validated"

Inv == AiTypeOK /\ Shape /\ Owner /\ Locked /\ Process /\ Outcome

-----------------------------------------------------------------------------

\* Connections are numbered from one.
LEMMA Connected == \A p \in Connections : p \in Nat /\ p # 0
BY LaunchesAssumption DEF Connections

\* The initial states satisfy the invariant.
LEMMA InitInv == Init => Inv
<1> SUFFICES ASSUME Init PROVE Inv
  OBVIOUS
<1> USE CallsAssumption, LaunchesAssumption DEF Init
<1>1. AiTypeOK
  BY DEF AiTypeOK, Steps, Errors, Calls
<1>2. Shape
  BY DEF Shape, AccountSteps, Asking, Subscribed, Calls
<1>3. Owner
  BY DEF Owner, Guarded, Asking, Subscribed, Calls
<1>4. Locked /\ Process
  BY DEF Locked, Process, Alive, Calls
<1>5. Outcome
  BY DEF Outcome, Subscribed, Calls
<1> QED
  BY <1>1, <1>2, <1>3, <1>4, <1>5 DEF Inv

\* A call that goes on at a step, with an error or not, keeps its types.
LEMMA GotoTypes ==
  ASSUME AiTypeOK, NEW c \in Calls, NEW s \in Steps, Goto(c, s)
  PROVE  pc' \in [Calls -> Steps]
BY DEF AiTypeOK, Goto

\* What an error leaves of a call is typed.
LEMMA FailTypes ==
  ASSUME AiTypeOK, NEW c \in Calls, NEW e \in Errors, NEW s \in Steps, Fail(c, e, s)
  PROVE  pc' \in [Calls -> Steps] /\ err' \in [Calls -> Errors]
<1>1. pc' \in [Calls -> Steps]
  BY GotoTypes DEF Fail
<1>2. err' \in [Calls -> Errors]
  BY DEF Fail, Put, AiTypeOK
<1> QED
  BY <1>1, <1>2

\* The steps and errors that are named are among the types.
LEMMA StepNames ==
  /\ {"done", "leaving", "invalidating", "cleaning", "sandboxing", "thread",
      "interrupting", "abandoning", "arming"} \subseteq Steps
  /\ {"none", "other", "cancelled", "timeout", "exited", "protocol"} \subseteq Errors
BY DEF Steps, Guarded, Asking, Subscribed, Ended, Errors, Fatal, Rejecting

\* So is what a failed request leaves.
LEMMA FailRequestTypes ==
  ASSUME AiTypeOK, NEW c \in Calls, NEW e \in Errors, FailRequest(c, e)
  PROVE  pc' \in [Calls -> Steps] /\ err' \in [Calls -> Errors]
<1>1. CASE Fail(c, e, IF e \in Fatal THEN "invalidating" ELSE "leaving")
  BY <1>1, StepNames, FailTypes
<1>2. CASE Goto(c, "cleaning") /\ UNCHANGED err
  BY <1>2, StepNames, GotoTypes DEF AiTypeOK
<1>3. CASE Goto(c, "leaving") /\ UNCHANGED err
  BY <1>3, StepNames, GotoTypes DEF AiTypeOK
<1>4. CASE Fail(c, e, "cleaning")
  BY <1>4, StepNames, FailTypes
<1> QED
  BY <1>1, <1>2, <1>3, <1>4 DEF FailRequest

\* Send keeps the types.
LEMMA SendTypes ==
  ASSUME Inv, NEW c \in Calls, Send(c)
  PROVE  AiTypeOK'
<1>1. answer' \in [Calls -> {"none", "writing", "failing", "awaited", "silent", "exited"}]
  <2>1. \E a \in {"awaited", "silent", "exited"} : answer' = Put(answer, c, a)
    BY DEF Send
  <2> QED
    BY <2>1 DEF Put, Inv, AiTypeOK
<1>2. paid' \subseteq Connections \X Reviews
  <2>1. CASE pc[c] = "turn" /\ conn[using[c]] # "closed"
    <3>1. c \in Reviews
      BY <2>1 DEF Inv, Shape, AccountSteps, Calls
    <3>2. using[c] \in Connections
      BY <2>1 DEF Inv, Shape, Subscribed
    <3> QED
      BY <2>1, <3>1, <3>2 DEF Send, Inv, AiTypeOK
  <2>2. CASE ~ (pc[c] = "turn" /\ conn[using[c]] # "closed")
    BY <2>2 DEF Send, Inv, AiTypeOK
  <2> QED
    BY <2>1, <2>2
<1>3. UNCHANGED <<pc, err, using, turns, note, active, cancelled, woken, lock, service, closing,
      launches, conn, stalled, up, row, grounding, sandbox>>
  BY DEF Send, callVars, tokenVars, runtimeVars, diskVars
<1> QED
  BY <1>1, <1>2, <1>3 DEF Inv, AiTypeOK

\* Exited keeps the types.
LEMMA ExitedTypes ==
  ASSUME AiTypeOK, NEW c \in Calls, Exited(c)
  PROVE  AiTypeOK'
<1>1. pc' \in [Calls -> Steps] /\ err' \in [Calls -> Errors]
  BY StepNames, FailRequestTypes DEF Exited
<1>2. answer' \in [Calls -> {"none", "writing", "failing", "awaited", "silent", "exited"}]
  BY DEF Exited, Put, AiTypeOK
<1>3. UNCHANGED <<using, turns, note, active, cancelled, woken, lock, service, closing, launches,
      conn, stalled, paid, up, row, grounding, sandbox>>
  BY DEF Exited, callVars, tokenVars, runtimeVars, diskVars
<1> QED
  BY <1>1, <1>2, <1>3 DEF AiTypeOK

\* RequestTimesOut keeps the types.
LEMMA RequestTimesOutTypes ==
  ASSUME AiTypeOK, NEW c \in Calls, RequestTimesOut(c)
  PROVE  AiTypeOK'
<1>1. pc' \in [Calls -> Steps] /\ err' \in [Calls -> Errors]
  BY StepNames, FailRequestTypes DEF RequestTimesOut
<1>2. answer' \in [Calls -> {"none", "writing", "failing", "awaited", "silent", "exited"}]
  BY DEF RequestTimesOut, Put, AiTypeOK
<1>3. UNCHANGED <<using, turns, note, active, cancelled, woken, lock, service, closing, launches,
      conn, stalled, paid, up, row, grounding, sandbox>>
  BY DEF RequestTimesOut, callVars, tokenVars, runtimeVars, diskVars
<1> QED
  BY <1>1, <1>2, <1>3 DEF AiTypeOK

\* Refused keeps the types.
LEMMA RefusedTypes ==
  ASSUME AiTypeOK, NEW c \in Calls, Refused(c)
  PROVE  AiTypeOK'
<1>1. pc' \in [Calls -> Steps] /\ err' \in [Calls -> Errors]
  BY StepNames, FailRequestTypes DEF Refused, Refusals
<1>2. answer' \in [Calls -> {"none", "writing", "failing", "awaited", "silent", "exited"}]
  BY DEF Refused, Put, AiTypeOK
<1>3. paid' \subseteq Connections \X Reviews
  BY DEF Refused, AiTypeOK
<1>4. UNCHANGED <<using, turns, note, active, cancelled, woken, lock, service, closing, launches,
      conn, stalled, up, row, grounding, sandbox>>
  BY DEF Refused, callVars, tokenVars, runtimeVars, diskVars
<1> QED
  BY <1>1, <1>2, <1>3, <1>4 DEF AiTypeOK

\* BrowserFails keeps the types.
LEMMA BrowserFailsTypes ==
  ASSUME AiTypeOK, NEW c \in Calls, BrowserFails(c)
  PROVE  AiTypeOK'
<1>1. pc' \in [Calls -> Steps] /\ err' \in [Calls -> Errors]
  BY StepNames, FailTypes DEF BrowserFails
<1>2. UNCHANGED <<using, answer, turns, note, active, cancelled, woken, lock, service, closing,
      launches, conn, stalled, paid, up, row, grounding, sandbox>>
  BY DEF BrowserFails, tokenVars, runtimeVars, diskVars
<1> QED
  BY <1>1, <1>2 DEF AiTypeOK

\* SavePending keeps the types.
LEMMA SavePendingTypes ==
  ASSUME AiTypeOK, NEW r \in Reviews, SavePending(r)
  PROVE  AiTypeOK'
<1>1. pc' \in [Calls -> Steps] /\ err' \in [Calls -> Errors]
  BY StepNames, GotoTypes, FailTypes DEF SavePending, Calls, AiTypeOK
<1>2. row' \in [Reviews -> {"absent", "pending", "completed", "failed"}]
  BY DEF SavePending, Put, AiTypeOK
<1>3. UNCHANGED <<using, answer, turns, note, active, cancelled, woken, lock, service, closing,
      launches, conn, stalled, paid, up, grounding, sandbox>>
  BY DEF SavePending, callVars, tokenVars, runtimeVars, diskVars
<1> QED
  BY <1>1, <1>2, <1>3 DEF AiTypeOK

\* BeginTurn keeps the types.
LEMMA BeginTurnTypes ==
  ASSUME AiTypeOK, NEW r \in Reviews, BeginTurn(r)
  PROVE  AiTypeOK'
<1>1. pc' \in [Calls -> Steps] /\ err' \in [Calls -> Errors]
  BY StepNames, GotoTypes, FailTypes DEF BeginTurn, Calls, AiTypeOK
<1>2. UNCHANGED <<using, answer, turns, note, active, cancelled, woken, lock, service, closing,
      launches, conn, stalled, paid, up, row, grounding, sandbox>>
  BY DEF BeginTurn, callVars, tokenVars, runtimeVars, diskVars
<1> QED
  BY <1>1, <1>2 DEF AiTypeOK

\* CheckCancelled keeps the types.
LEMMA CheckCancelledTypes ==
  ASSUME AiTypeOK, NEW r \in Reviews, CheckCancelled(r)
  PROVE  AiTypeOK'
<1>1. pc' \in [Calls -> Steps] /\ err' \in [Calls -> Errors]
  BY StepNames, GotoTypes, FailTypes DEF CheckCancelled, Calls, AiTypeOK
<1>2. UNCHANGED <<using, answer, turns, note, active, cancelled, woken, lock, service, closing,
      launches, conn, stalled, paid, up, row, grounding, sandbox>>
  BY DEF CheckCancelled, callVars, tokenVars, runtimeVars, diskVars
<1> QED
  BY <1>1, <1>2 DEF AiTypeOK

\* SaveOutcome keeps the types.
LEMMA SaveOutcomeTypes ==
  ASSUME AiTypeOK, NEW r \in Reviews, SaveOutcome(r)
  PROVE  AiTypeOK'
<1>1. pc' \in [Calls -> Steps]
  BY StepNames, GotoTypes DEF SaveOutcome, Calls
<1>2. row' \in [Reviews -> {"absent", "pending", "completed", "failed"}]
  BY DEF SaveOutcome, Put, AiTypeOK
<1>3. grounding' \in [Reviews -> {"pending", "validated", "rejected"}]
  BY DEF SaveOutcome, Put, AiTypeOK
<1>4. UNCHANGED <<err, using, answer, turns, note, active, cancelled, woken, lock, service,
      closing, launches, conn, stalled, paid, up, sandbox>>
  BY DEF SaveOutcome, callVars, tokenVars, runtimeVars, diskVars
<1> QED
  BY <1>1, <1>2, <1>3, <1>4 DEF AiTypeOK

\* Every step preserves AiTypeOK.
LEMMA TypeStep == Inv /\ [Next]_vars => AiTypeOK'
<1> SUFFICES ASSUME Inv, [Next]_vars PROVE AiTypeOK'
  OBVIOUS
<1> USE CallsAssumption, RunOfAssumption, LaunchesAssumption, Connected
    DEF Inv, AiTypeOK, Shape, Locked, Steps, Errors, Rejecting, Fatal, Guarded, Asking, Subscribed,
        Ended, AccountSteps, Connections, Calls, At, Goto, Put, Fail
<1>1. ASSUME NEW c \in Calls, Refuse(c) PROVE AiTypeOK'
  BY <1>1 DEF Refuse, tokenVars, runtimeVars, diskVars, callVars
<1>2. ASSUME NEW c \in Calls, TakeService(c) PROVE AiTypeOK'
  BY <1>2 DEF TakeService, tokenVars, runtimeVars, diskVars, callVars
<1>3. ASSUME NEW c \in Calls, NoService(c) PROVE AiTypeOK'
  BY <1>3 DEF NoService, tokenVars, runtimeVars, diskVars, callVars
<1>4. ASSUME NEW c \in Calls, Launch(c) PROVE AiTypeOK'
  BY <1>4 DEF Launch, tokenVars, runtimeVars, diskVars, callVars
<1>5. ASSUME NEW c \in Calls, Spawned(c) PROVE AiTypeOK'
  BY <1>5 DEF Spawned, tokenVars, runtimeVars, diskVars, callVars
<1>6. ASSUME NEW c \in Calls, SpawnFails(c) PROVE AiTypeOK'
  BY <1>6 DEF SpawnFails, tokenVars, runtimeVars, diskVars, callVars
<1>7. ASSUME NEW c \in Calls, Invalidate(c) PROVE AiTypeOK'
  BY <1>7, ZenonT(40) DEF Invalidate, tokenVars, runtimeVars, diskVars, callVars
<1>8. ASSUME NEW c \in Calls, ShutDown(c) PROVE AiTypeOK'
  BY <1>8 DEF ShutDown, FailPending, tokenVars, runtimeVars, diskVars, callVars
<1>9. ASSUME NEW c \in Calls, Send(c) PROVE AiTypeOK'
  BY <1>9, SendTypes DEF Inv
<1>10. ASSUME NEW c \in Calls, Exited(c) PROVE AiTypeOK'
  BY <1>10, ExitedTypes DEF Inv
<1>11. ASSUME NEW c \in Calls, RequestTimesOut(c) PROVE AiTypeOK'
  BY <1>11, RequestTimesOutTypes DEF Inv
<1>12. ASSUME NEW c \in Calls, Release(c) PROVE AiTypeOK'
  BY <1>12 DEF Release, tokenVars, runtimeVars, diskVars, callVars
<1>13. ASSUME NEW c \in Calls, Answered(c) PROVE AiTypeOK'
  BY <1>13 DEF Answered, NextStep, tokenVars, runtimeVars, diskVars, callVars
<1>14. ASSUME NEW c \in Calls, Refused(c) PROVE AiTypeOK'
  BY <1>14, RefusedTypes DEF Inv
<1>15. ASSUME NEW r \in Reviews, Register(r) PROVE AiTypeOK'
  BY <1>15 DEF Register, tokenVars, runtimeVars, diskVars, callVars
<1>16. ASSUME NEW r \in Reviews, SavePending(r) PROVE AiTypeOK'
  BY <1>16, SavePendingTypes DEF Inv
<1>17. ASSUME NEW r \in Reviews, MakeSandbox(r) PROVE AiTypeOK'
  BY <1>17 DEF MakeSandbox, tokenVars, runtimeVars, diskVars, callVars
<1>18. ASSUME NEW r \in Reviews, SandboxFails(r) PROVE AiTypeOK'
  BY <1>18 DEF SandboxFails, tokenVars, runtimeVars, diskVars, callVars
<1>19. ASSUME NEW r \in Reviews, BeginTurn(r) PROVE AiTypeOK'
  BY <1>19, BeginTurnTypes DEF Inv
<1>20. ASSUME NEW r \in Reviews, CheckCancelled(r) PROVE AiTypeOK'
  BY <1>20, CheckCancelledTypes DEF Inv
<1>21. ASSUME NEW r \in Reviews, Arm(r) PROVE AiTypeOK'
  BY <1>21 DEF Arm, tokenVars, runtimeVars, diskVars, callVars
<1>22. ASSUME NEW r \in Reviews, Wake(r) PROVE AiTypeOK'
  BY <1>22 DEF Wake, tokenVars, runtimeVars, diskVars, callVars
<1>23. ASSUME NEW r \in Reviews, TurnCompleted(r) PROVE AiTypeOK'
  BY <1>23 DEF TurnCompleted, tokenVars, runtimeVars, diskVars, callVars
<1>24. ASSUME NEW r \in Reviews, TurnRejected(r) PROVE AiTypeOK'
  BY <1>24 DEF TurnRejected, tokenVars, runtimeVars, diskVars, callVars
<1>25. ASSUME NEW r \in Reviews, Lagged(r) PROVE AiTypeOK'
  BY <1>25 DEF Lagged, tokenVars, runtimeVars, diskVars, callVars
<1>26. ASSUME NEW r \in Reviews, TurnTimesOut(r) PROVE AiTypeOK'
  BY <1>26 DEF TurnTimesOut, tokenVars, runtimeVars, diskVars, callVars
<1>27. ASSUME NEW r \in Reviews, Clean(r) PROVE AiTypeOK'
  BY <1>27 DEF Clean, tokenVars, runtimeVars, diskVars, callVars
<1>28. ASSUME NEW r \in Reviews, SaveOutcome(r) PROVE AiTypeOK'
  BY <1>28, SaveOutcomeTypes DEF Inv
<1>29. ASSUME NEW r \in Reviews, OutcomeFails(r) PROVE AiTypeOK'
  BY <1>29 DEF OutcomeFails, tokenVars, runtimeVars, diskVars, callVars
<1>30. ASSUME NEW c \in Accounts, Begin(c) PROVE AiTypeOK'
  BY <1>30 DEF Begin, tokenVars, runtimeVars, diskVars, callVars
<1>31. ASSUME NEW i \in RunIds, Cancel(i) PROVE AiTypeOK'
  BY <1>31 DEF Cancel, tokenVars, runtimeVars, diskVars, callVars
<1>32. ASSUME NEW t \in paid, ServerCompletes(t) PROVE AiTypeOK'
  BY <1>32 DEF ServerCompletes, tokenVars, runtimeVars, diskVars, callVars
<1>33. ASSUME NEW p \in Connections, ProcessDies(p) PROVE AiTypeOK'
  BY <1>33 DEF ProcessDies, FailPending, tokenVars, runtimeVars, diskVars, callVars
<1>34. ASSUME NEW p \in Connections, ReaderStops(p) PROVE AiTypeOK'
  BY <1>34 DEF ReaderStops, FailPending, tokenVars, runtimeVars, diskVars, callVars
<1>35. CASE Crash
  BY <1>35 DEF Crash, callVars, tokenVars, diskVars
<1>36. CASE Boot
  BY <1>36 DEF Boot, callVars, tokenVars, diskVars
<1>37. CASE UNCHANGED vars
  BY <1>37 DEF vars, callVars, tokenVars, runtimeVars, diskVars
<1>38. ASSUME NEW c \in Calls, LaunchRefused(c) PROVE AiTypeOK'
  BY <1>38 DEF LaunchRefused, tokenVars, runtimeVars, diskVars, callVars
<1>38d. ASSUME NEW c \in Calls, Disabled(c) PROVE AiTypeOK'
  BY <1>38d DEF Disabled, tokenVars, runtimeVars, diskVars, callVars
<1>39. ASSUME NEW c \in Calls, OpenBrowser(c) PROVE AiTypeOK'
  BY <1>39 DEF OpenBrowser, tokenVars, runtimeVars, diskVars, callVars
<1>40. ASSUME NEW c \in Calls, BrowserFails(c) PROVE AiTypeOK'
  BY <1>40, BrowserFailsTypes DEF Inv
<1>41. ASSUME NEW c \in Calls, Unshowable(c) PROVE AiTypeOK'
  BY <1>41 DEF Unshowable, tokenVars, runtimeVars, diskVars, callVars
<1>50. ASSUME NEW c \in Calls, Ask(c) PROVE AiTypeOK'
  BY <1>50 DEF Ask, tokenVars, runtimeVars, diskVars, callVars
<1>51. ASSUME NEW p \in Connections, ServerStalls(p) PROVE AiTypeOK'
  BY <1>51 DEF ServerStalls, tokenVars, runtimeVars, diskVars, callVars
<1>52. ASSUME NEW p \in Connections, ServerResumes(p) PROVE AiTypeOK'
  BY <1>52 DEF ServerResumes, tokenVars, runtimeVars, diskVars, callVars
<1> QED
  BY <1>1, <1>2, <1>3, <1>4, <1>5, <1>6, <1>7, <1>8, <1>9, <1>10, <1>11, <1>12, <1>13,
    <1>14, <1>15, <1>16, <1>17, <1>18, <1>19, <1>20, <1>21, <1>22, <1>23, <1>24, <1>25,
    <1>26, <1>27, <1>28, <1>29, <1>30, <1>31, <1>32, <1>33, <1>34, <1>35, <1>36, <1>37,
    <1>38, <1>38d, <1>39, <1>40, <1>41, <1>50, <1>51, <1>52 DEF Next, CallStep, ReviewStep

\* Every step preserves Shape.
LEMMA ShapeStep == Inv /\ [Next]_vars => Shape'
<1> SUFFICES ASSUME Inv, [Next]_vars PROVE Shape'
  OBVIOUS
<1> USE CallsAssumption, RunOfAssumption, LaunchesAssumption, Connected
    DEF Inv, AiTypeOK, Shape, Locked, Guarded, Asking, Subscribed, AccountSteps, Fatal, Calls, At,
        Goto, Put, Fail
<1>1. ASSUME NEW c \in Calls, Refuse(c) PROVE Shape'
  BY <1>1 DEF Refuse, tokenVars, runtimeVars, diskVars, callVars
<1>2. ASSUME NEW c \in Calls, TakeService(c) PROVE Shape'
  BY <1>2 DEF TakeService, tokenVars, runtimeVars, diskVars, callVars
<1>3. ASSUME NEW c \in Calls, NoService(c) PROVE Shape'
  BY <1>3 DEF NoService, tokenVars, runtimeVars, diskVars, callVars
<1>4. ASSUME NEW c \in Calls, Launch(c) PROVE Shape'
  BY <1>4 DEF Launch, tokenVars, runtimeVars, diskVars, callVars
<1>5. ASSUME NEW c \in Calls, Spawned(c) PROVE Shape'
  BY <1>5 DEF Spawned, tokenVars, runtimeVars, diskVars, callVars
<1>6. ASSUME NEW c \in Calls, SpawnFails(c) PROVE Shape'
  BY <1>6 DEF SpawnFails, tokenVars, runtimeVars, diskVars, callVars
<1>7. ASSUME NEW c \in Calls, Invalidate(c) PROVE Shape'
  BY <1>7 DEF Invalidate, tokenVars, runtimeVars, diskVars, callVars
<1>8. ASSUME NEW c \in Calls, ShutDown(c) PROVE Shape'
  BY <1>8 DEF ShutDown, FailPending, tokenVars, runtimeVars, diskVars, callVars
<1>9. ASSUME NEW c \in Calls, Send(c) PROVE Shape'
  BY <1>9 DEF Send, tokenVars, runtimeVars, diskVars, callVars
<1>10. ASSUME NEW c \in Calls, Exited(c) PROVE Shape'
  BY <1>10 DEF Exited, FailRequest, tokenVars, runtimeVars, diskVars, callVars
<1>11. ASSUME NEW c \in Calls, RequestTimesOut(c) PROVE Shape'
  BY <1>11 DEF RequestTimesOut, FailRequest, tokenVars, runtimeVars, diskVars, callVars
<1>12. ASSUME NEW c \in Calls, Release(c) PROVE Shape'
  BY <1>12 DEF Release, tokenVars, runtimeVars, diskVars, callVars
<1>13. ASSUME NEW c \in Calls, Answered(c) PROVE Shape'
  BY <1>13 DEF Answered, NextStep, tokenVars, runtimeVars, diskVars, callVars
<1>14. ASSUME NEW c \in Calls, Refused(c) PROVE Shape'
  BY <1>14 DEF Refused, Refusals, FailRequest, tokenVars, runtimeVars, diskVars, callVars
<1>15. ASSUME NEW r \in Reviews, Register(r) PROVE Shape'
  BY <1>15 DEF Register, tokenVars, runtimeVars, diskVars, callVars
<1>16. ASSUME NEW r \in Reviews, SavePending(r) PROVE Shape'
  BY <1>16 DEF SavePending, tokenVars, runtimeVars, diskVars, callVars
<1>17. ASSUME NEW r \in Reviews, MakeSandbox(r) PROVE Shape'
  BY <1>17 DEF MakeSandbox, tokenVars, runtimeVars, diskVars, callVars
<1>18. ASSUME NEW r \in Reviews, SandboxFails(r) PROVE Shape'
  BY <1>18 DEF SandboxFails, tokenVars, runtimeVars, diskVars, callVars
<1>19. ASSUME NEW r \in Reviews, BeginTurn(r) PROVE Shape'
  BY <1>19 DEF BeginTurn, tokenVars, runtimeVars, diskVars, callVars
<1>20. ASSUME NEW r \in Reviews, CheckCancelled(r) PROVE Shape'
  BY <1>20 DEF CheckCancelled, tokenVars, runtimeVars, diskVars, callVars
<1>21. ASSUME NEW r \in Reviews, Arm(r) PROVE Shape'
  BY <1>21 DEF Arm, tokenVars, runtimeVars, diskVars, callVars
<1>22. ASSUME NEW r \in Reviews, Wake(r) PROVE Shape'
  BY <1>22 DEF Wake, tokenVars, runtimeVars, diskVars, callVars
<1>23. ASSUME NEW r \in Reviews, TurnCompleted(r) PROVE Shape'
  BY <1>23 DEF TurnCompleted, tokenVars, runtimeVars, diskVars, callVars
<1>24. ASSUME NEW r \in Reviews, TurnRejected(r) PROVE Shape'
  BY <1>24 DEF TurnRejected, tokenVars, runtimeVars, diskVars, callVars
<1>25. ASSUME NEW r \in Reviews, Lagged(r) PROVE Shape'
  BY <1>25 DEF Lagged, tokenVars, runtimeVars, diskVars, callVars
<1>26. ASSUME NEW r \in Reviews, TurnTimesOut(r) PROVE Shape'
  BY <1>26 DEF TurnTimesOut, tokenVars, runtimeVars, diskVars, callVars
<1>27. ASSUME NEW r \in Reviews, Clean(r) PROVE Shape'
  BY <1>27 DEF Clean, tokenVars, runtimeVars, diskVars, callVars
<1>28. ASSUME NEW r \in Reviews, SaveOutcome(r) PROVE Shape'
  BY <1>28 DEF SaveOutcome, tokenVars, runtimeVars, diskVars, callVars
<1>29. ASSUME NEW r \in Reviews, OutcomeFails(r) PROVE Shape'
  BY <1>29 DEF OutcomeFails, tokenVars, runtimeVars, diskVars, callVars
<1>30. ASSUME NEW c \in Accounts, Begin(c) PROVE Shape'
  BY <1>30 DEF Begin, tokenVars, runtimeVars, diskVars, callVars
<1>31. ASSUME NEW i \in RunIds, Cancel(i) PROVE Shape'
  BY <1>31 DEF Cancel, tokenVars, runtimeVars, diskVars, callVars
<1>32. ASSUME NEW t \in paid, ServerCompletes(t) PROVE Shape'
  BY <1>32 DEF ServerCompletes, tokenVars, runtimeVars, diskVars, callVars
<1>33. ASSUME NEW p \in Connections, ProcessDies(p) PROVE Shape'
  BY <1>33 DEF ProcessDies, FailPending, tokenVars, runtimeVars, diskVars, callVars
<1>34. ASSUME NEW p \in Connections, ReaderStops(p) PROVE Shape'
  BY <1>34 DEF ReaderStops, FailPending, tokenVars, runtimeVars, diskVars, callVars
<1>35. CASE Crash
  BY <1>35 DEF Crash, callVars, tokenVars, diskVars
<1>36. CASE Boot
  BY <1>36 DEF Boot, callVars, tokenVars, diskVars
<1>37. CASE UNCHANGED vars
  BY <1>37 DEF vars, callVars, tokenVars, runtimeVars, diskVars
<1>38. ASSUME NEW c \in Calls, LaunchRefused(c) PROVE Shape'
  BY <1>38 DEF LaunchRefused, tokenVars, runtimeVars, diskVars, callVars
<1>38d. ASSUME NEW c \in Calls, Disabled(c) PROVE Shape'
  BY <1>38d DEF Disabled, tokenVars, runtimeVars, diskVars, callVars
<1>39. ASSUME NEW c \in Calls, OpenBrowser(c) PROVE Shape'
  BY <1>39 DEF OpenBrowser, tokenVars, runtimeVars, diskVars, callVars
<1>40. ASSUME NEW c \in Calls, BrowserFails(c) PROVE Shape'
  BY <1>40 DEF BrowserFails, tokenVars, runtimeVars, diskVars, callVars
<1>41. ASSUME NEW c \in Calls, Unshowable(c) PROVE Shape'
  BY <1>41 DEF Unshowable, tokenVars, runtimeVars, diskVars, callVars
<1>50. ASSUME NEW c \in Calls, Ask(c) PROVE Shape'
  BY <1>50 DEF Ask, tokenVars, runtimeVars, diskVars, callVars
<1>51. ASSUME NEW p \in Connections, ServerStalls(p) PROVE Shape'
  BY <1>51 DEF ServerStalls, tokenVars, runtimeVars, diskVars, callVars
<1>52. ASSUME NEW p \in Connections, ServerResumes(p) PROVE Shape'
  BY <1>52 DEF ServerResumes, tokenVars, runtimeVars, diskVars, callVars
<1> QED
  BY <1>1, <1>2, <1>3, <1>4, <1>5, <1>6, <1>7, <1>8, <1>9, <1>10, <1>11, <1>12, <1>13,
    <1>14, <1>15, <1>16, <1>17, <1>18, <1>19, <1>20, <1>21, <1>22, <1>23, <1>24, <1>25,
    <1>26, <1>27, <1>28, <1>29, <1>30, <1>31, <1>32, <1>33, <1>34, <1>35, <1>36, <1>37,
    <1>38, <1>38d, <1>39, <1>40, <1>41, <1>50, <1>51, <1>52 DEF Next, CallStep, ReviewStep

\* Every step preserves Owner.
LEMMA OwnerStep == Inv /\ [Next]_vars => Owner'
<1> SUFFICES ASSUME Inv, [Next]_vars PROVE Owner'
  OBVIOUS
<1> USE CallsAssumption, RunOfAssumption, LaunchesAssumption, Connected
    DEF Inv, AiTypeOK, Owner, Guarded, Asking, Subscribed, Calls, At, Goto, Put, Fail
<1>1. ASSUME NEW c \in Calls, Refuse(c) PROVE Owner'
  BY <1>1 DEF Refuse, tokenVars, runtimeVars, diskVars, callVars
<1>2. ASSUME NEW c \in Calls, TakeService(c) PROVE Owner'
  BY <1>2 DEF TakeService, tokenVars, runtimeVars, diskVars, callVars
<1>3. ASSUME NEW c \in Calls, NoService(c) PROVE Owner'
  BY <1>3 DEF NoService, tokenVars, runtimeVars, diskVars, callVars
<1>4. ASSUME NEW c \in Calls, Launch(c) PROVE Owner'
  BY <1>4 DEF Launch, tokenVars, runtimeVars, diskVars, callVars
<1>5. ASSUME NEW c \in Calls, Spawned(c) PROVE Owner'
  BY <1>5 DEF Spawned, tokenVars, runtimeVars, diskVars, callVars
<1>6. ASSUME NEW c \in Calls, SpawnFails(c) PROVE Owner'
  BY <1>6 DEF SpawnFails, tokenVars, runtimeVars, diskVars, callVars
<1>7. ASSUME NEW c \in Calls, Invalidate(c) PROVE Owner'
  BY <1>7 DEF Invalidate, tokenVars, runtimeVars, diskVars, callVars
<1>8. ASSUME NEW c \in Calls, ShutDown(c) PROVE Owner'
  BY <1>8 DEF ShutDown, FailPending, tokenVars, runtimeVars, diskVars, callVars
<1>9. ASSUME NEW c \in Calls, Send(c) PROVE Owner'
  BY <1>9 DEF Send, tokenVars, runtimeVars, diskVars, callVars
<1>10. ASSUME NEW c \in Calls, Exited(c) PROVE Owner'
  BY <1>10 DEF Exited, FailRequest, tokenVars, runtimeVars, diskVars, callVars
<1>11. ASSUME NEW c \in Calls, RequestTimesOut(c) PROVE Owner'
  BY <1>11 DEF RequestTimesOut, FailRequest, tokenVars, runtimeVars, diskVars, callVars
<1>12. ASSUME NEW c \in Calls, Release(c) PROVE Owner'
  BY <1>12 DEF Release, tokenVars, runtimeVars, diskVars, callVars
<1>13. ASSUME NEW c \in Calls, Answered(c) PROVE Owner'
  BY <1>13 DEF Answered, NextStep, tokenVars, runtimeVars, diskVars, callVars
<1>14. ASSUME NEW c \in Calls, Refused(c) PROVE Owner'
  BY <1>14 DEF Refused, Refusals, FailRequest, tokenVars, runtimeVars, diskVars, callVars
<1>15. ASSUME NEW r \in Reviews, Register(r) PROVE Owner'
  BY <1>15 DEF Register, tokenVars, runtimeVars, diskVars, callVars
<1>16. ASSUME NEW r \in Reviews, SavePending(r) PROVE Owner'
  BY <1>16 DEF SavePending, tokenVars, runtimeVars, diskVars, callVars
<1>17. ASSUME NEW r \in Reviews, MakeSandbox(r) PROVE Owner'
  BY <1>17 DEF MakeSandbox, tokenVars, runtimeVars, diskVars, callVars
<1>18. ASSUME NEW r \in Reviews, SandboxFails(r) PROVE Owner'
  BY <1>18 DEF SandboxFails, tokenVars, runtimeVars, diskVars, callVars
<1>19. ASSUME NEW r \in Reviews, BeginTurn(r) PROVE Owner'
  BY <1>19 DEF BeginTurn, tokenVars, runtimeVars, diskVars, callVars
<1>20. ASSUME NEW r \in Reviews, CheckCancelled(r) PROVE Owner'
  BY <1>20 DEF CheckCancelled, tokenVars, runtimeVars, diskVars, callVars
<1>21. ASSUME NEW r \in Reviews, Arm(r) PROVE Owner'
  BY <1>21 DEF Arm, tokenVars, runtimeVars, diskVars, callVars
<1>22. ASSUME NEW r \in Reviews, Wake(r) PROVE Owner'
  BY <1>22 DEF Wake, tokenVars, runtimeVars, diskVars, callVars
<1>23. ASSUME NEW r \in Reviews, TurnCompleted(r) PROVE Owner'
  BY <1>23 DEF TurnCompleted, tokenVars, runtimeVars, diskVars, callVars
<1>24. ASSUME NEW r \in Reviews, TurnRejected(r) PROVE Owner'
  BY <1>24 DEF TurnRejected, tokenVars, runtimeVars, diskVars, callVars
<1>25. ASSUME NEW r \in Reviews, Lagged(r) PROVE Owner'
  BY <1>25 DEF Lagged, tokenVars, runtimeVars, diskVars, callVars
<1>26. ASSUME NEW r \in Reviews, TurnTimesOut(r) PROVE Owner'
  BY <1>26 DEF TurnTimesOut, tokenVars, runtimeVars, diskVars, callVars
<1>27. ASSUME NEW r \in Reviews, Clean(r) PROVE Owner'
  BY <1>27 DEF Clean, tokenVars, runtimeVars, diskVars, callVars
<1>28. ASSUME NEW r \in Reviews, SaveOutcome(r) PROVE Owner'
  BY <1>28 DEF SaveOutcome, tokenVars, runtimeVars, diskVars, callVars
<1>29. ASSUME NEW r \in Reviews, OutcomeFails(r) PROVE Owner'
  BY <1>29 DEF OutcomeFails, tokenVars, runtimeVars, diskVars, callVars
<1>30. ASSUME NEW c \in Accounts, Begin(c) PROVE Owner'
  BY <1>30 DEF Begin, tokenVars, runtimeVars, diskVars, callVars
<1>31. ASSUME NEW i \in RunIds, Cancel(i) PROVE Owner'
  BY <1>31 DEF Cancel, tokenVars, runtimeVars, diskVars, callVars
<1>32. ASSUME NEW t \in paid, ServerCompletes(t) PROVE Owner'
  BY <1>32 DEF ServerCompletes, tokenVars, runtimeVars, diskVars, callVars
<1>33. ASSUME NEW p \in Connections, ProcessDies(p) PROVE Owner'
  BY <1>33 DEF ProcessDies, FailPending, tokenVars, runtimeVars, diskVars, callVars
<1>34. ASSUME NEW p \in Connections, ReaderStops(p) PROVE Owner'
  BY <1>34 DEF ReaderStops, FailPending, tokenVars, runtimeVars, diskVars, callVars
<1>35. CASE Crash
  BY <1>35 DEF Crash, callVars, tokenVars, diskVars
<1>36. CASE Boot
  BY <1>36 DEF Boot, callVars, tokenVars, diskVars
<1>37. CASE UNCHANGED vars
  BY <1>37 DEF vars, callVars, tokenVars, runtimeVars, diskVars
<1>38. ASSUME NEW c \in Calls, LaunchRefused(c) PROVE Owner'
  BY <1>38 DEF LaunchRefused, tokenVars, runtimeVars, diskVars, callVars
<1>38d. ASSUME NEW c \in Calls, Disabled(c) PROVE Owner'
  BY <1>38d DEF Disabled, tokenVars, runtimeVars, diskVars, callVars
<1>39. ASSUME NEW c \in Calls, OpenBrowser(c) PROVE Owner'
  BY <1>39 DEF OpenBrowser, tokenVars, runtimeVars, diskVars, callVars
<1>40. ASSUME NEW c \in Calls, BrowserFails(c) PROVE Owner'
  BY <1>40 DEF BrowserFails, tokenVars, runtimeVars, diskVars, callVars
<1>41. ASSUME NEW c \in Calls, Unshowable(c) PROVE Owner'
  BY <1>41 DEF Unshowable, tokenVars, runtimeVars, diskVars, callVars
<1>50. ASSUME NEW c \in Calls, Ask(c) PROVE Owner'
  BY <1>50 DEF Ask, tokenVars, runtimeVars, diskVars, callVars
<1>51. ASSUME NEW p \in Connections, ServerStalls(p) PROVE Owner'
  BY <1>51 DEF ServerStalls, tokenVars, runtimeVars, diskVars, callVars
<1>52. ASSUME NEW p \in Connections, ServerResumes(p) PROVE Owner'
  BY <1>52 DEF ServerResumes, tokenVars, runtimeVars, diskVars, callVars
<1> QED
  BY <1>1, <1>2, <1>3, <1>4, <1>5, <1>6, <1>7, <1>8, <1>9, <1>10, <1>11, <1>12, <1>13,
    <1>14, <1>15, <1>16, <1>17, <1>18, <1>19, <1>20, <1>21, <1>22, <1>23, <1>24, <1>25,
    <1>26, <1>27, <1>28, <1>29, <1>30, <1>31, <1>32, <1>33, <1>34, <1>35, <1>36, <1>37,
    <1>38, <1>38d, <1>39, <1>40, <1>41, <1>50, <1>51, <1>52 DEF Next, CallStep, ReviewStep

\* Every step preserves Locked.
LEMMA LockedStep == Inv /\ [Next]_vars => Locked'
<1> SUFFICES ASSUME Inv, [Next]_vars PROVE Locked'
  OBVIOUS
<1> USE CallsAssumption, RunOfAssumption, LaunchesAssumption, Connected
    DEF Inv, AiTypeOK, Locked, Guarded, Asking, Subscribed, Calls, At, Goto, Put, Fail
<1>1. ASSUME NEW c \in Calls, Refuse(c) PROVE Locked'
  BY <1>1 DEF Refuse, tokenVars, runtimeVars, diskVars, callVars
<1>2. ASSUME NEW c \in Calls, TakeService(c) PROVE Locked'
  BY <1>2 DEF TakeService, tokenVars, runtimeVars, diskVars, callVars
<1>3. ASSUME NEW c \in Calls, NoService(c) PROVE Locked'
  BY <1>3 DEF NoService, tokenVars, runtimeVars, diskVars, callVars
<1>4. ASSUME NEW c \in Calls, Launch(c) PROVE Locked'
  <2>1. launches' \in Connections
    BY <1>4 DEF Launch, Connections
  <2>2. pc' = [pc EXCEPT ![c] = "spawning"] /\ lock' = c /\ service' = 0 /\ lock = None
    BY <1>4 DEF Launch
  <2>3. \A d \in Calls : pc[d] \notin {"spawning", "shutting"}
    BY <2>2
  <2> QED
    BY <2>1, <2>2, <2>3
<1>5. ASSUME NEW c \in Calls, Spawned(c) PROVE Locked'
  BY <1>5 DEF Spawned, tokenVars, runtimeVars, diskVars, callVars
<1>6. ASSUME NEW c \in Calls, SpawnFails(c) PROVE Locked'
  BY <1>6 DEF SpawnFails, tokenVars, runtimeVars, diskVars, callVars
<1>7. ASSUME NEW c \in Calls, Invalidate(c) PROVE Locked'
  BY <1>7 DEF Invalidate, tokenVars, runtimeVars, diskVars, callVars
<1>8. ASSUME NEW c \in Calls, ShutDown(c) PROVE Locked'
  BY <1>8 DEF ShutDown, FailPending, tokenVars, runtimeVars, diskVars, callVars
<1>9. ASSUME NEW c \in Calls, Send(c) PROVE Locked'
  BY <1>9 DEF Send, tokenVars, runtimeVars, diskVars, callVars
<1>10. ASSUME NEW c \in Calls, Exited(c) PROVE Locked'
  BY <1>10 DEF Exited, FailRequest, tokenVars, runtimeVars, diskVars, callVars
<1>11. ASSUME NEW c \in Calls, RequestTimesOut(c) PROVE Locked'
  BY <1>11 DEF RequestTimesOut, FailRequest, tokenVars, runtimeVars, diskVars, callVars
<1>12. ASSUME NEW c \in Calls, Release(c) PROVE Locked'
  BY <1>12 DEF Release, tokenVars, runtimeVars, diskVars, callVars
<1>13. ASSUME NEW c \in Calls, Answered(c) PROVE Locked'
  BY <1>13 DEF Answered, NextStep, tokenVars, runtimeVars, diskVars, callVars
<1>14. ASSUME NEW c \in Calls, Refused(c) PROVE Locked'
  BY <1>14 DEF Refused, Refusals, FailRequest, tokenVars, runtimeVars, diskVars, callVars
<1>15. ASSUME NEW r \in Reviews, Register(r) PROVE Locked'
  BY <1>15 DEF Register, tokenVars, runtimeVars, diskVars, callVars
<1>16. ASSUME NEW r \in Reviews, SavePending(r) PROVE Locked'
  BY <1>16 DEF SavePending, tokenVars, runtimeVars, diskVars, callVars
<1>17. ASSUME NEW r \in Reviews, MakeSandbox(r) PROVE Locked'
  BY <1>17 DEF MakeSandbox, tokenVars, runtimeVars, diskVars, callVars
<1>18. ASSUME NEW r \in Reviews, SandboxFails(r) PROVE Locked'
  BY <1>18 DEF SandboxFails, tokenVars, runtimeVars, diskVars, callVars
<1>19. ASSUME NEW r \in Reviews, BeginTurn(r) PROVE Locked'
  BY <1>19 DEF BeginTurn, tokenVars, runtimeVars, diskVars, callVars
<1>20. ASSUME NEW r \in Reviews, CheckCancelled(r) PROVE Locked'
  BY <1>20 DEF CheckCancelled, tokenVars, runtimeVars, diskVars, callVars
<1>21. ASSUME NEW r \in Reviews, Arm(r) PROVE Locked'
  BY <1>21 DEF Arm, tokenVars, runtimeVars, diskVars, callVars
<1>22. ASSUME NEW r \in Reviews, Wake(r) PROVE Locked'
  BY <1>22 DEF Wake, tokenVars, runtimeVars, diskVars, callVars
<1>23. ASSUME NEW r \in Reviews, TurnCompleted(r) PROVE Locked'
  BY <1>23 DEF TurnCompleted, tokenVars, runtimeVars, diskVars, callVars
<1>24. ASSUME NEW r \in Reviews, TurnRejected(r) PROVE Locked'
  BY <1>24 DEF TurnRejected, tokenVars, runtimeVars, diskVars, callVars
<1>25. ASSUME NEW r \in Reviews, Lagged(r) PROVE Locked'
  BY <1>25 DEF Lagged, tokenVars, runtimeVars, diskVars, callVars
<1>26. ASSUME NEW r \in Reviews, TurnTimesOut(r) PROVE Locked'
  BY <1>26 DEF TurnTimesOut, tokenVars, runtimeVars, diskVars, callVars
<1>27. ASSUME NEW r \in Reviews, Clean(r) PROVE Locked'
  BY <1>27 DEF Clean, tokenVars, runtimeVars, diskVars, callVars
<1>28. ASSUME NEW r \in Reviews, SaveOutcome(r) PROVE Locked'
  BY <1>28 DEF SaveOutcome, tokenVars, runtimeVars, diskVars, callVars
<1>29. ASSUME NEW r \in Reviews, OutcomeFails(r) PROVE Locked'
  BY <1>29 DEF OutcomeFails, tokenVars, runtimeVars, diskVars, callVars
<1>30. ASSUME NEW c \in Accounts, Begin(c) PROVE Locked'
  BY <1>30 DEF Begin, tokenVars, runtimeVars, diskVars, callVars
<1>31. ASSUME NEW i \in RunIds, Cancel(i) PROVE Locked'
  BY <1>31 DEF Cancel, tokenVars, runtimeVars, diskVars, callVars
<1>32. ASSUME NEW t \in paid, ServerCompletes(t) PROVE Locked'
  BY <1>32 DEF ServerCompletes, tokenVars, runtimeVars, diskVars, callVars
<1>33. ASSUME NEW p \in Connections, ProcessDies(p) PROVE Locked'
  BY <1>33 DEF ProcessDies, FailPending, tokenVars, runtimeVars, diskVars, callVars
<1>34. ASSUME NEW p \in Connections, ReaderStops(p) PROVE Locked'
  BY <1>34 DEF ReaderStops, FailPending, tokenVars, runtimeVars, diskVars, callVars
<1>35. CASE Crash
  BY <1>35 DEF Crash, callVars, tokenVars, diskVars
<1>36. CASE Boot
  BY <1>36 DEF Boot, callVars, tokenVars, diskVars
<1>37. CASE UNCHANGED vars
  BY <1>37 DEF vars, callVars, tokenVars, runtimeVars, diskVars
<1>38. ASSUME NEW c \in Calls, LaunchRefused(c) PROVE Locked'
  BY <1>38 DEF LaunchRefused, tokenVars, runtimeVars, diskVars, callVars
<1>38d. ASSUME NEW c \in Calls, Disabled(c) PROVE Locked'
  BY <1>38d DEF Disabled, tokenVars, runtimeVars, diskVars, callVars
<1>39. ASSUME NEW c \in Calls, OpenBrowser(c) PROVE Locked'
  BY <1>39 DEF OpenBrowser, tokenVars, runtimeVars, diskVars, callVars
<1>40. ASSUME NEW c \in Calls, BrowserFails(c) PROVE Locked'
  BY <1>40 DEF BrowserFails, tokenVars, runtimeVars, diskVars, callVars
<1>41. ASSUME NEW c \in Calls, Unshowable(c) PROVE Locked'
  BY <1>41 DEF Unshowable, tokenVars, runtimeVars, diskVars, callVars
<1>50. ASSUME NEW c \in Calls, Ask(c) PROVE Locked'
  BY <1>50 DEF Ask, tokenVars, runtimeVars, diskVars, callVars
<1>51. ASSUME NEW p \in Connections, ServerStalls(p) PROVE Locked'
  BY <1>51 DEF ServerStalls, tokenVars, runtimeVars, diskVars, callVars
<1>52. ASSUME NEW p \in Connections, ServerResumes(p) PROVE Locked'
  BY <1>52 DEF ServerResumes, tokenVars, runtimeVars, diskVars, callVars
<1> QED
  BY <1>1, <1>2, <1>3, <1>4, <1>5, <1>6, <1>7, <1>8, <1>9, <1>10, <1>11, <1>12, <1>13,
    <1>14, <1>15, <1>16, <1>17, <1>18, <1>19, <1>20, <1>21, <1>22, <1>23, <1>24, <1>25,
    <1>26, <1>27, <1>28, <1>29, <1>30, <1>31, <1>32, <1>33, <1>34, <1>35, <1>36, <1>37,
    <1>38, <1>38d, <1>39, <1>40, <1>41, <1>50, <1>51, <1>52 DEF Next, CallStep, ReviewStep

\* Every step preserves Process.
LEMMA ProcessStep == Inv /\ [Next]_vars => Process'
<1> SUFFICES ASSUME Inv, [Next]_vars PROVE Process'
  OBVIOUS
<1> USE CallsAssumption, RunOfAssumption, LaunchesAssumption, Connected
    DEF Inv, AiTypeOK, Locked, Process, Alive, Guarded, Asking, Subscribed, Calls, At, Goto, Put, Fail
<1>1. ASSUME NEW c \in Calls, Refuse(c) PROVE Process'
  BY <1>1 DEF Refuse, tokenVars, runtimeVars, diskVars, callVars
<1>2. ASSUME NEW c \in Calls, TakeService(c) PROVE Process'
  BY <1>2 DEF TakeService, tokenVars, runtimeVars, diskVars, callVars
<1>3. ASSUME NEW c \in Calls, NoService(c) PROVE Process'
  BY <1>3 DEF NoService, tokenVars, runtimeVars, diskVars, callVars
<1>4. ASSUME NEW c \in Calls, Launch(c) PROVE Process'
  BY <1>4 DEF Launch, tokenVars, runtimeVars, diskVars, callVars
<1>5. ASSUME NEW c \in Calls, Spawned(c) PROVE Process'
  BY <1>5 DEF Spawned, tokenVars, runtimeVars, diskVars, callVars
<1>6. ASSUME NEW c \in Calls, SpawnFails(c) PROVE Process'
  BY <1>6 DEF SpawnFails, tokenVars, runtimeVars, diskVars, callVars
<1>7. ASSUME NEW c \in Calls, Invalidate(c) PROVE Process'
  BY <1>7 DEF Invalidate, tokenVars, runtimeVars, diskVars, callVars
<1>8. ASSUME NEW c \in Calls, ShutDown(c) PROVE Process'
  BY <1>8 DEF ShutDown, FailPending, tokenVars, runtimeVars, diskVars, callVars
<1>9. ASSUME NEW c \in Calls, Send(c) PROVE Process'
  BY <1>9 DEF Send, tokenVars, runtimeVars, diskVars, callVars
<1>10. ASSUME NEW c \in Calls, Exited(c) PROVE Process'
  BY <1>10 DEF Exited, FailRequest, tokenVars, runtimeVars, diskVars, callVars
<1>11. ASSUME NEW c \in Calls, RequestTimesOut(c) PROVE Process'
  BY <1>11 DEF RequestTimesOut, FailRequest, tokenVars, runtimeVars, diskVars, callVars
<1>12. ASSUME NEW c \in Calls, Release(c) PROVE Process'
  BY <1>12 DEF Release, tokenVars, runtimeVars, diskVars, callVars
<1>13. ASSUME NEW c \in Calls, Answered(c) PROVE Process'
  BY <1>13 DEF Answered, NextStep, tokenVars, runtimeVars, diskVars, callVars
<1>14. ASSUME NEW c \in Calls, Refused(c) PROVE Process'
  BY <1>14 DEF Refused, Refusals, FailRequest, tokenVars, runtimeVars, diskVars, callVars
<1>15. ASSUME NEW r \in Reviews, Register(r) PROVE Process'
  BY <1>15 DEF Register, tokenVars, runtimeVars, diskVars, callVars
<1>16. ASSUME NEW r \in Reviews, SavePending(r) PROVE Process'
  BY <1>16 DEF SavePending, tokenVars, runtimeVars, diskVars, callVars
<1>17. ASSUME NEW r \in Reviews, MakeSandbox(r) PROVE Process'
  BY <1>17 DEF MakeSandbox, tokenVars, runtimeVars, diskVars, callVars
<1>18. ASSUME NEW r \in Reviews, SandboxFails(r) PROVE Process'
  BY <1>18 DEF SandboxFails, tokenVars, runtimeVars, diskVars, callVars
<1>19. ASSUME NEW r \in Reviews, BeginTurn(r) PROVE Process'
  BY <1>19 DEF BeginTurn, tokenVars, runtimeVars, diskVars, callVars
<1>20. ASSUME NEW r \in Reviews, CheckCancelled(r) PROVE Process'
  BY <1>20 DEF CheckCancelled, tokenVars, runtimeVars, diskVars, callVars
<1>21. ASSUME NEW r \in Reviews, Arm(r) PROVE Process'
  BY <1>21 DEF Arm, tokenVars, runtimeVars, diskVars, callVars
<1>22. ASSUME NEW r \in Reviews, Wake(r) PROVE Process'
  BY <1>22 DEF Wake, tokenVars, runtimeVars, diskVars, callVars
<1>23. ASSUME NEW r \in Reviews, TurnCompleted(r) PROVE Process'
  BY <1>23 DEF TurnCompleted, tokenVars, runtimeVars, diskVars, callVars
<1>24. ASSUME NEW r \in Reviews, TurnRejected(r) PROVE Process'
  BY <1>24 DEF TurnRejected, tokenVars, runtimeVars, diskVars, callVars
<1>25. ASSUME NEW r \in Reviews, Lagged(r) PROVE Process'
  BY <1>25 DEF Lagged, tokenVars, runtimeVars, diskVars, callVars
<1>26. ASSUME NEW r \in Reviews, TurnTimesOut(r) PROVE Process'
  BY <1>26 DEF TurnTimesOut, tokenVars, runtimeVars, diskVars, callVars
<1>27. ASSUME NEW r \in Reviews, Clean(r) PROVE Process'
  BY <1>27 DEF Clean, tokenVars, runtimeVars, diskVars, callVars
<1>28. ASSUME NEW r \in Reviews, SaveOutcome(r) PROVE Process'
  BY <1>28 DEF SaveOutcome, tokenVars, runtimeVars, diskVars, callVars
<1>29. ASSUME NEW r \in Reviews, OutcomeFails(r) PROVE Process'
  BY <1>29 DEF OutcomeFails, tokenVars, runtimeVars, diskVars, callVars
<1>30. ASSUME NEW c \in Accounts, Begin(c) PROVE Process'
  BY <1>30 DEF Begin, tokenVars, runtimeVars, diskVars, callVars
<1>31. ASSUME NEW i \in RunIds, Cancel(i) PROVE Process'
  BY <1>31 DEF Cancel, tokenVars, runtimeVars, diskVars, callVars
<1>32. ASSUME NEW t \in paid, ServerCompletes(t) PROVE Process'
  BY <1>32 DEF ServerCompletes, tokenVars, runtimeVars, diskVars, callVars
<1>33. ASSUME NEW p \in Connections, ProcessDies(p) PROVE Process'
  BY <1>33 DEF ProcessDies, FailPending, tokenVars, runtimeVars, diskVars, callVars
<1>34. ASSUME NEW p \in Connections, ReaderStops(p) PROVE Process'
  BY <1>34 DEF ReaderStops, FailPending, tokenVars, runtimeVars, diskVars, callVars
<1>35. CASE Crash
  BY <1>35 DEF Crash, callVars, tokenVars, diskVars
<1>36. CASE Boot
  BY <1>36 DEF Boot, callVars, tokenVars, diskVars
<1>37. CASE UNCHANGED vars
  BY <1>37 DEF vars, callVars, tokenVars, runtimeVars, diskVars
<1>38. ASSUME NEW c \in Calls, LaunchRefused(c) PROVE Process'
  BY <1>38 DEF LaunchRefused, tokenVars, runtimeVars, diskVars, callVars
<1>38d. ASSUME NEW c \in Calls, Disabled(c) PROVE Process'
  BY <1>38d DEF Disabled, tokenVars, runtimeVars, diskVars, callVars
<1>39. ASSUME NEW c \in Calls, OpenBrowser(c) PROVE Process'
  BY <1>39 DEF OpenBrowser, tokenVars, runtimeVars, diskVars, callVars
<1>40. ASSUME NEW c \in Calls, BrowserFails(c) PROVE Process'
  BY <1>40 DEF BrowserFails, tokenVars, runtimeVars, diskVars, callVars
<1>41. ASSUME NEW c \in Calls, Unshowable(c) PROVE Process'
  BY <1>41 DEF Unshowable, tokenVars, runtimeVars, diskVars, callVars
<1>50. ASSUME NEW c \in Calls, Ask(c) PROVE Process'
  BY <1>50 DEF Ask, tokenVars, runtimeVars, diskVars, callVars
<1>51. ASSUME NEW p \in Connections, ServerStalls(p) PROVE Process'
  BY <1>51 DEF ServerStalls, tokenVars, runtimeVars, diskVars, callVars
<1>52. ASSUME NEW p \in Connections, ServerResumes(p) PROVE Process'
  BY <1>52 DEF ServerResumes, tokenVars, runtimeVars, diskVars, callVars
<1> QED
  BY <1>1, <1>2, <1>3, <1>4, <1>5, <1>6, <1>7, <1>8, <1>9, <1>10, <1>11, <1>12, <1>13,
    <1>14, <1>15, <1>16, <1>17, <1>18, <1>19, <1>20, <1>21, <1>22, <1>23, <1>24, <1>25,
    <1>26, <1>27, <1>28, <1>29, <1>30, <1>31, <1>32, <1>33, <1>34, <1>35, <1>36, <1>37,
    <1>38, <1>38d, <1>39, <1>40, <1>41, <1>50, <1>51, <1>52 DEF Next, CallStep, ReviewStep

\* Every step preserves Outcome.
LEMMA OutcomeStep == Inv /\ [Next]_vars => Outcome'
<1> SUFFICES ASSUME Inv, [Next]_vars PROVE Outcome'
  OBVIOUS
<1> USE CallsAssumption, RunOfAssumption, LaunchesAssumption, Connected
    DEF Inv, AiTypeOK, Shape, Outcome, Guarded, Asking, Subscribed, Rejecting, Fatal, Calls, At,
        Goto, Put, Fail
<1>1. ASSUME NEW c \in Calls, Refuse(c) PROVE Outcome'
  BY <1>1 DEF Refuse, tokenVars, runtimeVars, diskVars, callVars
<1>2. ASSUME NEW c \in Calls, TakeService(c) PROVE Outcome'
  BY <1>2 DEF TakeService, tokenVars, runtimeVars, diskVars, callVars
<1>3. ASSUME NEW c \in Calls, NoService(c) PROVE Outcome'
  BY <1>3 DEF NoService, tokenVars, runtimeVars, diskVars, callVars
<1>4. ASSUME NEW c \in Calls, Launch(c) PROVE Outcome'
  BY <1>4 DEF Launch, tokenVars, runtimeVars, diskVars, callVars
<1>5. ASSUME NEW c \in Calls, Spawned(c) PROVE Outcome'
  BY <1>5 DEF Spawned, tokenVars, runtimeVars, diskVars, callVars
<1>6. ASSUME NEW c \in Calls, SpawnFails(c) PROVE Outcome'
  BY <1>6 DEF SpawnFails, tokenVars, runtimeVars, diskVars, callVars
<1>7. ASSUME NEW c \in Calls, Invalidate(c) PROVE Outcome'
  BY <1>7 DEF Invalidate, tokenVars, runtimeVars, diskVars, callVars
<1>8. ASSUME NEW c \in Calls, ShutDown(c) PROVE Outcome'
  BY <1>8 DEF ShutDown, FailPending, tokenVars, runtimeVars, diskVars, callVars
<1>9. ASSUME NEW c \in Calls, Send(c) PROVE Outcome'
  BY <1>9 DEF Send, tokenVars, runtimeVars, diskVars, callVars
<1>10. ASSUME NEW c \in Calls, Exited(c) PROVE Outcome'
  BY <1>10 DEF Exited, FailRequest, tokenVars, runtimeVars, diskVars, callVars
<1>11. ASSUME NEW c \in Calls, RequestTimesOut(c) PROVE Outcome'
  BY <1>11 DEF RequestTimesOut, FailRequest, tokenVars, runtimeVars, diskVars, callVars
<1>12. ASSUME NEW c \in Calls, Release(c) PROVE Outcome'
  BY <1>12 DEF Release, tokenVars, runtimeVars, diskVars, callVars
<1>13. ASSUME NEW c \in Calls, Answered(c) PROVE Outcome'
  BY <1>13 DEF Answered, NextStep, tokenVars, runtimeVars, diskVars, callVars
<1>14. ASSUME NEW c \in Calls, Refused(c) PROVE Outcome'
  BY <1>14 DEF Refused, Refusals, FailRequest, tokenVars, runtimeVars, diskVars, callVars
<1>15. ASSUME NEW r \in Reviews, Register(r) PROVE Outcome'
  BY <1>15 DEF Register, tokenVars, runtimeVars, diskVars, callVars
<1>16. ASSUME NEW r \in Reviews, SavePending(r) PROVE Outcome'
  BY <1>16 DEF SavePending, tokenVars, runtimeVars, diskVars, callVars
<1>17. ASSUME NEW r \in Reviews, MakeSandbox(r) PROVE Outcome'
  BY <1>17 DEF MakeSandbox, tokenVars, runtimeVars, diskVars, callVars
<1>18. ASSUME NEW r \in Reviews, SandboxFails(r) PROVE Outcome'
  BY <1>18 DEF SandboxFails, tokenVars, runtimeVars, diskVars, callVars
<1>19. ASSUME NEW r \in Reviews, BeginTurn(r) PROVE Outcome'
  BY <1>19 DEF BeginTurn, tokenVars, runtimeVars, diskVars, callVars
<1>20. ASSUME NEW r \in Reviews, CheckCancelled(r) PROVE Outcome'
  BY <1>20 DEF CheckCancelled, tokenVars, runtimeVars, diskVars, callVars
<1>21. ASSUME NEW r \in Reviews, Arm(r) PROVE Outcome'
  BY <1>21 DEF Arm, tokenVars, runtimeVars, diskVars, callVars
<1>22. ASSUME NEW r \in Reviews, Wake(r) PROVE Outcome'
  BY <1>22 DEF Wake, tokenVars, runtimeVars, diskVars, callVars
<1>23. ASSUME NEW r \in Reviews, TurnCompleted(r) PROVE Outcome'
  BY <1>23 DEF TurnCompleted, tokenVars, runtimeVars, diskVars, callVars
<1>24. ASSUME NEW r \in Reviews, TurnRejected(r) PROVE Outcome'
  BY <1>24 DEF TurnRejected, tokenVars, runtimeVars, diskVars, callVars
<1>25. ASSUME NEW r \in Reviews, Lagged(r) PROVE Outcome'
  BY <1>25 DEF Lagged, tokenVars, runtimeVars, diskVars, callVars
<1>26. ASSUME NEW r \in Reviews, TurnTimesOut(r) PROVE Outcome'
  BY <1>26 DEF TurnTimesOut, tokenVars, runtimeVars, diskVars, callVars
<1>27. ASSUME NEW r \in Reviews, Clean(r) PROVE Outcome'
  BY <1>27 DEF Clean, tokenVars, runtimeVars, diskVars, callVars
<1>28. ASSUME NEW r \in Reviews, SaveOutcome(r) PROVE Outcome'
  BY <1>28 DEF SaveOutcome, tokenVars, runtimeVars, diskVars, callVars
<1>29. ASSUME NEW r \in Reviews, OutcomeFails(r) PROVE Outcome'
  BY <1>29 DEF OutcomeFails, tokenVars, runtimeVars, diskVars, callVars
<1>30. ASSUME NEW c \in Accounts, Begin(c) PROVE Outcome'
  BY <1>30 DEF Begin, tokenVars, runtimeVars, diskVars, callVars
<1>31. ASSUME NEW i \in RunIds, Cancel(i) PROVE Outcome'
  BY <1>31 DEF Cancel, tokenVars, runtimeVars, diskVars, callVars
<1>32. ASSUME NEW t \in paid, ServerCompletes(t) PROVE Outcome'
  BY <1>32 DEF ServerCompletes, tokenVars, runtimeVars, diskVars, callVars
<1>33. ASSUME NEW p \in Connections, ProcessDies(p) PROVE Outcome'
  BY <1>33 DEF ProcessDies, FailPending, tokenVars, runtimeVars, diskVars, callVars
<1>34. ASSUME NEW p \in Connections, ReaderStops(p) PROVE Outcome'
  BY <1>34 DEF ReaderStops, FailPending, tokenVars, runtimeVars, diskVars, callVars
<1>35. CASE Crash
  BY <1>35 DEF Crash, callVars, tokenVars, diskVars
<1>36. CASE Boot
  BY <1>36 DEF Boot, callVars, tokenVars, diskVars
<1>37. CASE UNCHANGED vars
  BY <1>37 DEF vars, callVars, tokenVars, runtimeVars, diskVars
<1>38. ASSUME NEW c \in Calls, LaunchRefused(c) PROVE Outcome'
  BY <1>38 DEF LaunchRefused, tokenVars, runtimeVars, diskVars, callVars
<1>38d. ASSUME NEW c \in Calls, Disabled(c) PROVE Outcome'
  BY <1>38d DEF Disabled, tokenVars, runtimeVars, diskVars, callVars
<1>39. ASSUME NEW c \in Calls, OpenBrowser(c) PROVE Outcome'
  BY <1>39 DEF OpenBrowser, tokenVars, runtimeVars, diskVars, callVars
<1>40. ASSUME NEW c \in Calls, BrowserFails(c) PROVE Outcome'
  BY <1>40 DEF BrowserFails, tokenVars, runtimeVars, diskVars, callVars
<1>41. ASSUME NEW c \in Calls, Unshowable(c) PROVE Outcome'
  BY <1>41 DEF Unshowable, tokenVars, runtimeVars, diskVars, callVars
<1>50. ASSUME NEW c \in Calls, Ask(c) PROVE Outcome'
  BY <1>50 DEF Ask, tokenVars, runtimeVars, diskVars, callVars
<1>51. ASSUME NEW p \in Connections, ServerStalls(p) PROVE Outcome'
  BY <1>51 DEF ServerStalls, tokenVars, runtimeVars, diskVars, callVars
<1>52. ASSUME NEW p \in Connections, ServerResumes(p) PROVE Outcome'
  BY <1>52 DEF ServerResumes, tokenVars, runtimeVars, diskVars, callVars
<1> QED
  BY <1>1, <1>2, <1>3, <1>4, <1>5, <1>6, <1>7, <1>8, <1>9, <1>10, <1>11, <1>12, <1>13,
    <1>14, <1>15, <1>16, <1>17, <1>18, <1>19, <1>20, <1>21, <1>22, <1>23, <1>24, <1>25,
    <1>26, <1>27, <1>28, <1>29, <1>30, <1>31, <1>32, <1>33, <1>34, <1>35, <1>36, <1>37,
    <1>38, <1>38d, <1>39, <1>40, <1>41, <1>50, <1>51, <1>52 DEF Next, CallStep, ReviewStep

\* Every step keeps the invariant.
LEMMA NextInv == Inv /\ [Next]_vars => Inv'
BY TypeStep, ShapeStep, OwnerStep, LockedStep, ProcessStep, OutcomeStep DEF Inv

-----------------------------------------------------------------------------

\* The invariant always holds.
LEMMA SpecInv == Spec => []Inv
<1> QED
  BY InitInv, NextInv, PTL DEF Spec

\* Type correctness of the reviews and their runtime.
THEOREM AiTypeCorrect == Spec => []AiTypeOK
<1>1. Inv => AiTypeOK
  BY DEF Inv
<1> QED
  BY <1>1, SpecInv, PTL

\* One review of a run at a time, named by the active map (run_ai_review).
THEOREM OneReviewPerRunAlways == Spec => []OneReviewPerRun
<1>1. Inv => OneReviewPerRun
  BY DEF Inv, Owner, OneReviewPerRun
<1> QED
  BY <1>1, SpecInv, PTL

\* No app-server process is alive but the cached one or the one that the
\* holder of the lock launches or stops (CodexRuntime).
THEOREM NoProcessLeakedAlways == Spec => []NoProcessLeaked
<1>1. Inv => NoProcessLeaked
  BY DEF Inv, Process, Alive, NoProcessLeaked
<1> QED
  BY <1>1, SpecInv, PTL

\* At most one app-server process is alive (CodexRuntime).
THEOREM AtMostOneProcessAlways == Spec => []AtMostOneProcess
<1>1. ASSUME Inv PROVE AtMostOneProcess
  <2> USE <1>1 DEF Inv, Process, Alive, AtMostOneProcess
  <2>1. CASE lock = None
    BY <2>1
  <2>2. CASE lock # None
    BY <2>2 DEF Locked
  <2> QED
    BY <2>1, <2>2
<1> QED
  BY <1>1, SpecInv, PTL

\* A completed review had every turn accepted and no error (run_ai_review,
\* execute_grounded_plan).
THEOREM CompletedIsGroundedAlways == Spec => []CompletedIsGrounded
<1>1. Inv => CompletedIsGrounded
  BY DEF Inv, Outcome, CompletedIsGrounded
<1> QED
  BY <1>1, SpecInv, PTL

-----------------------------------------------------------------------------
(* What a choice of faults adds                                            *)

\* Nothing but the program writes, or fails to write, its durable state.
Recorded == Faults \cap {"storage", "crash"} = {}

\* Besides, a request is answered or its connection is lost: a turn that was
\* asked for is never left running unheard of.
Stoppable == Faults \cap {"storage", "crash", "malformed", "timeout", "server"} = {}

\* Between the save of the pending row and that of the outcome.
Reviewing == Subscribed \cup {"sandboxing", "turning", "interrupting", "cleaning", "ending"}

\* A pending row and a sandbox are those of a review that will settle them.
Durable ==
  /\ \A r \in Reviews : row[r] = "pending" => pc[r] \in Reviewing
  /\ \A r \in sandbox : pc[r] \in Reviewing \ {"sandboxing", "ending"}

\* Connections in use were launched, nobody uses the one being launched, and
\* somebody reads each that is open.
Wired ==
  /\ \A p \in Connections : conn[p] # "deaf"
  /\ service # 0 => conn[service] # "none"
  /\ \A c \in Calls : pc[c] = "spawning" => conn[launches] # "none"
  /\ \A c \in Calls : pc[c] = "shutting" => conn[closing] # "none"
  /\ \A c \in Calls : using[c] # 0 => conn[using[c]] # "none"
  /\ \A p \in Connections : p > launches => conn[p] = "none"
  /\ \A c, d \in Calls : pc[c] = "spawning" => using[d] # launches

\* Only a request has an answer, and only the end of its process fails one that
\* is still being written.
Asked ==
  \A c \in Calls :
    /\ answer[c] # "none" => pc[c] \in Asking
    /\ answer[c] = "failing" => conn[using[c]] = "closed"

\* Steps at which no turn of a review can be running.
BetweenTurns == {"idle", "locking", "spawning", "account", "opening", "abandoning",
                 "recording", "sandboxing", "turning", "thread"}

\* A completion waits only for a review whose turn was asked for.
Noted ==
  \A r \in note : pc[r] \notin BetweenTurns /\ (pc[r] = "turn" => answer[r] \in {"awaited", "exited"})

\* A review that goes on to discard the connection its turn runs on.
Discarding(r) ==
  pc[r] \in {"cleaning", "ending", "invalidating", "shutting"} /\ err[r] \in Fatal

\* A turn runs on the open connection of its review, which has not heard of
\* its end and awaits it, stops it or discards the connection.
Running(p, r) ==
  /\ conn[p] = "open" /\ using[r] = p /\ r \notin note
  /\ answer[r] \in {"none", "writing", "awaited"}
  /\ \/ pc[r] = "turn" /\ answer[r] = "awaited"
     \/ pc[r] \in {"checking", "arming", "waiting", "interrupting"}
     \/ Discarding(r)

Runs == \A t \in paid : Running(t[1], t[2])

Turns == Wired /\ Asked /\ Noted /\ Runs

\* The initial states satisfy both.
LEMMA InitTurns == Init => Durable /\ Turns
BY CallsAssumption DEF Init, Durable, Turns, Wired, Asked, Noted, Runs, Calls

\* Every step preserves Durable.
LEMMA DurableStep == Recorded /\ Inv /\ Durable /\ [Next]_vars => Durable'
<1> SUFFICES ASSUME Recorded, Inv, Durable, [Next]_vars PROVE Durable'
  OBVIOUS
<1> USE CallsAssumption, RunOfAssumption, LaunchesAssumption, Connected
    DEF Recorded, Inv, AiTypeOK, Shape, Durable, Reviewing, Subscribed, Asking, Calls, At, Goto,
        Put, Fail
<1>1. ASSUME NEW c \in Calls, Refuse(c) PROVE Durable'
  BY <1>1 DEF Refuse, tokenVars, runtimeVars, diskVars, callVars
<1>2. ASSUME NEW c \in Calls, TakeService(c) PROVE Durable'
  BY <1>2 DEF TakeService, tokenVars, runtimeVars, diskVars, callVars
<1>3. ASSUME NEW c \in Calls, NoService(c) PROVE Durable'
  BY <1>3 DEF NoService, tokenVars, runtimeVars, diskVars, callVars
<1>4. ASSUME NEW c \in Calls, Launch(c) PROVE Durable'
  BY <1>4 DEF Launch, tokenVars, runtimeVars, diskVars, callVars
<1>5. ASSUME NEW c \in Calls, Spawned(c) PROVE Durable'
  BY <1>5 DEF Spawned, tokenVars, runtimeVars, diskVars, callVars
<1>6. ASSUME NEW c \in Calls, SpawnFails(c) PROVE Durable'
  BY <1>6 DEF SpawnFails, tokenVars, runtimeVars, diskVars, callVars
<1>7. ASSUME NEW c \in Calls, Invalidate(c) PROVE Durable'
  BY <1>7 DEF Invalidate, tokenVars, runtimeVars, diskVars, callVars
<1>8. ASSUME NEW c \in Calls, ShutDown(c) PROVE Durable'
  BY <1>8 DEF ShutDown, FailPending, tokenVars, runtimeVars, diskVars, callVars
<1>9. ASSUME NEW c \in Calls, Send(c) PROVE Durable'
  BY <1>9 DEF Send, tokenVars, runtimeVars, diskVars, callVars
<1>10. ASSUME NEW c \in Calls, Exited(c) PROVE Durable'
  BY <1>10 DEF Exited, FailRequest, tokenVars, runtimeVars, diskVars, callVars
<1>11. ASSUME NEW c \in Calls, RequestTimesOut(c) PROVE Durable'
  BY <1>11 DEF RequestTimesOut, FailRequest, tokenVars, runtimeVars, diskVars, callVars
<1>12. ASSUME NEW c \in Calls, Release(c) PROVE Durable'
  BY <1>12 DEF Release, tokenVars, runtimeVars, diskVars, callVars
<1>13. ASSUME NEW c \in Calls, Answered(c) PROVE Durable'
  BY <1>13 DEF Answered, NextStep, tokenVars, runtimeVars, diskVars, callVars
<1>14. ASSUME NEW c \in Calls, Refused(c) PROVE Durable'
  BY <1>14 DEF Refused, Refusals, FailRequest, tokenVars, runtimeVars, diskVars, callVars
<1>15. ASSUME NEW r \in Reviews, Register(r) PROVE Durable'
  BY <1>15 DEF Register, tokenVars, runtimeVars, diskVars, callVars
<1>16. ASSUME NEW r \in Reviews, SavePending(r) PROVE Durable'
  BY <1>16 DEF SavePending, tokenVars, runtimeVars, diskVars, callVars
<1>17. ASSUME NEW r \in Reviews, MakeSandbox(r) PROVE Durable'
  BY <1>17 DEF MakeSandbox, tokenVars, runtimeVars, diskVars, callVars
<1>18. ASSUME NEW r \in Reviews, SandboxFails(r) PROVE Durable'
  BY <1>18 DEF SandboxFails, tokenVars, runtimeVars, diskVars, callVars
<1>19. ASSUME NEW r \in Reviews, BeginTurn(r) PROVE Durable'
  BY <1>19 DEF BeginTurn, tokenVars, runtimeVars, diskVars, callVars
<1>20. ASSUME NEW r \in Reviews, CheckCancelled(r) PROVE Durable'
  BY <1>20 DEF CheckCancelled, tokenVars, runtimeVars, diskVars, callVars
<1>21. ASSUME NEW r \in Reviews, Arm(r) PROVE Durable'
  BY <1>21 DEF Arm, tokenVars, runtimeVars, diskVars, callVars
<1>22. ASSUME NEW r \in Reviews, Wake(r) PROVE Durable'
  BY <1>22 DEF Wake, tokenVars, runtimeVars, diskVars, callVars
<1>23. ASSUME NEW r \in Reviews, TurnCompleted(r) PROVE Durable'
  BY <1>23 DEF TurnCompleted, tokenVars, runtimeVars, diskVars, callVars
<1>24. ASSUME NEW r \in Reviews, TurnRejected(r) PROVE Durable'
  BY <1>24 DEF TurnRejected, tokenVars, runtimeVars, diskVars, callVars
<1>25. ASSUME NEW r \in Reviews, Lagged(r) PROVE Durable'
  BY <1>25 DEF Lagged, tokenVars, runtimeVars, diskVars, callVars
<1>26. ASSUME NEW r \in Reviews, TurnTimesOut(r) PROVE Durable'
  BY <1>26 DEF TurnTimesOut, tokenVars, runtimeVars, diskVars, callVars
<1>27. ASSUME NEW r \in Reviews, Clean(r) PROVE Durable'
  BY <1>27 DEF Clean, tokenVars, runtimeVars, diskVars, callVars
<1>28. ASSUME NEW r \in Reviews, SaveOutcome(r) PROVE Durable'
  BY <1>28 DEF SaveOutcome, tokenVars, runtimeVars, diskVars, callVars
<1>29. ASSUME NEW r \in Reviews, OutcomeFails(r) PROVE Durable'
  BY <1>29 DEF OutcomeFails, tokenVars, runtimeVars, diskVars, callVars
<1>30. ASSUME NEW c \in Accounts, Begin(c) PROVE Durable'
  BY <1>30 DEF Begin, tokenVars, runtimeVars, diskVars, callVars
<1>31. ASSUME NEW i \in RunIds, Cancel(i) PROVE Durable'
  BY <1>31 DEF Cancel, tokenVars, runtimeVars, diskVars, callVars
<1>32. ASSUME NEW t \in paid, ServerCompletes(t) PROVE Durable'
  BY <1>32 DEF ServerCompletes, tokenVars, runtimeVars, diskVars, callVars
<1>33. ASSUME NEW p \in Connections, ProcessDies(p) PROVE Durable'
  BY <1>33 DEF ProcessDies, FailPending, tokenVars, runtimeVars, diskVars, callVars
<1>34. ASSUME NEW p \in Connections, ReaderStops(p) PROVE Durable'
  BY <1>34 DEF ReaderStops, FailPending, tokenVars, runtimeVars, diskVars, callVars
<1>35. CASE Crash
  BY <1>35 DEF Crash, tokenVars, runtimeVars, diskVars, callVars
<1>36. CASE Boot
  BY <1>36 DEF Boot, tokenVars, runtimeVars, diskVars, callVars
<1>37. CASE UNCHANGED vars
  BY <1>37 DEF vars, tokenVars, runtimeVars, diskVars, callVars
<1>38. ASSUME NEW c \in Calls, LaunchRefused(c) PROVE Durable'
  BY <1>38 DEF LaunchRefused, tokenVars, runtimeVars, diskVars, callVars
<1>39. ASSUME NEW c \in Calls, Disabled(c) PROVE Durable'
  BY <1>39 DEF Disabled, tokenVars, runtimeVars, diskVars, callVars
<1>40. ASSUME NEW c \in Calls, OpenBrowser(c) PROVE Durable'
  BY <1>40 DEF OpenBrowser, tokenVars, runtimeVars, diskVars, callVars
<1>41. ASSUME NEW c \in Calls, BrowserFails(c) PROVE Durable'
  BY <1>41 DEF BrowserFails, tokenVars, runtimeVars, diskVars, callVars
<1>42. ASSUME NEW c \in Calls, Unshowable(c) PROVE Durable'
  BY <1>42 DEF Unshowable, tokenVars, runtimeVars, diskVars, callVars
<1>50. ASSUME NEW c \in Calls, Ask(c) PROVE Durable'
  BY <1>50 DEF Ask, tokenVars, runtimeVars, diskVars, callVars
<1>51. ASSUME NEW p \in Connections, ServerStalls(p) PROVE Durable'
  BY <1>51 DEF ServerStalls, tokenVars, runtimeVars, diskVars, callVars
<1>52. ASSUME NEW p \in Connections, ServerResumes(p) PROVE Durable'
  BY <1>52 DEF ServerResumes, tokenVars, runtimeVars, diskVars, callVars
<1> QED
  BY <1>1, <1>2, <1>3, <1>4, <1>5, <1>6, <1>7, <1>8, <1>9, <1>10, <1>11, <1>12, <1>13,
    <1>14, <1>15, <1>16, <1>17, <1>18, <1>19, <1>20, <1>21, <1>22, <1>23, <1>24, <1>25,
    <1>26, <1>27, <1>28, <1>29, <1>30, <1>31, <1>32, <1>33, <1>34, <1>35, <1>36, <1>37,
    <1>38, <1>39, <1>40, <1>41, <1>42, <1>50, <1>51, <1>52
  DEF Next, CallStep, ReviewStep

\* Every step preserves Wired.
LEMMA WiredStep == Stoppable /\ Inv /\ Wired /\ [Next]_vars => Wired'
<1> SUFFICES ASSUME Stoppable, Inv, Wired, [Next]_vars PROVE Wired'
  OBVIOUS
<1> USE CallsAssumption, RunOfAssumption, LaunchesAssumption, Connected
    DEF Stoppable, Inv, AiTypeOK, Locked, Wired, Asking, Calls, Connections, At, Goto, Put, Fail
<1>1. ASSUME NEW c \in Calls, Refuse(c) PROVE Wired'
  BY <1>1 DEF Refuse, tokenVars, runtimeVars, diskVars, callVars
<1>2. ASSUME NEW c \in Calls, TakeService(c) PROVE Wired'
  BY <1>2 DEF TakeService, tokenVars, runtimeVars, diskVars, callVars
<1>3. ASSUME NEW c \in Calls, NoService(c) PROVE Wired'
  BY <1>3 DEF NoService, tokenVars, runtimeVars, diskVars, callVars
<1>4. ASSUME NEW c \in Calls, Launch(c) PROVE Wired'
  <2>1. launches \in Nat /\ launches' = launches + 1 /\ launches' \in Connections /\ launches' # 0
    BY <1>4 DEF Launch
  <2>2. conn[launches'] = "none" /\ service # launches' /\ \A d \in Calls : using[d] # launches'
    BY <2>1
  <2>3. /\ conn' = [conn EXCEPT ![launches'] = "open"]
        /\ pc' = [pc EXCEPT ![c] = "spawning"]
        /\ lock = None
        /\ UNCHANGED <<service, using>>
    BY <1>4 DEF Launch
  <2>4. \A d \in Calls : (pc'[d] = "spawning" => d = c) /\ pc'[d] # "shutting"
    BY <2>3
  <2>5. \A p \in Connections : p > launches' => conn'[p] = "none"
    BY <2>1, <2>3
  <2> HIDE DEF Connections
  <2> QED
    BY <2>1, <2>2, <2>3, <2>4, <2>5
<1>5. ASSUME NEW c \in Calls, Spawned(c) PROVE Wired'
  BY <1>5 DEF Spawned, tokenVars, runtimeVars, diskVars, callVars
<1>6. ASSUME NEW c \in Calls, SpawnFails(c) PROVE Wired'
  <2>1. launches \in Connections /\ \A d \in Calls : (pc[d] = "spawning" => d = c) /\ pc[d] # "shutting"
    BY <1>6 DEF SpawnFails
  <2>2. /\ conn' = [conn EXCEPT ![launches] = "closed"]
        /\ pc' = [pc EXCEPT ![c] = "leaving"]
        /\ UNCHANGED <<service, using, launches>>
    BY <1>6 DEF SpawnFails, runtimeVars
  <2>3. \A p \in Connections : p > launches => conn'[p] = "none"
    BY <2>1, <2>2
  <2> HIDE DEF Connections
  <2> QED
    BY <2>1, <2>2, <2>3
<1>7. ASSUME NEW c \in Calls, Invalidate(c) PROVE Wired'
  BY <1>7 DEF Invalidate, tokenVars, runtimeVars, diskVars, callVars
<1>8. ASSUME NEW c \in Calls, ShutDown(c) PROVE Wired'
  <2>1. closing \in Connections
    BY <1>8 DEF ShutDown
  <2>2. /\ conn' = [conn EXCEPT ![closing] = "closed"]
        /\ pc' = [pc EXCEPT ![c] = "leaving"]
        /\ UNCHANGED <<service, using, launches>>
    BY <1>8 DEF ShutDown
  <2>3. \A d \in Calls : pc[d] # "spawning" /\ pc'[d] # "shutting"
    BY <1>8 DEF ShutDown
  <2>4. conn[closing] # "none"
    BY <1>8 DEF ShutDown
  <2>5. \A p \in Connections : p > launches => conn'[p] = "none"
    BY <2>1, <2>2, <2>4
  <2> HIDE DEF Connections
  <2> QED
    BY <2>1, <2>2, <2>3, <2>5
<1>9. ASSUME NEW c \in Calls, Send(c) PROVE Wired'
  BY <1>9 DEF Send, tokenVars, runtimeVars, diskVars, callVars
<1>10. ASSUME NEW c \in Calls, Exited(c) PROVE Wired'
  BY <1>10 DEF Exited, FailRequest, tokenVars, runtimeVars, diskVars, callVars
<1>11. ASSUME NEW c \in Calls, RequestTimesOut(c) PROVE Wired'
  BY <1>11 DEF RequestTimesOut, FailRequest, tokenVars, runtimeVars, diskVars, callVars
<1>12. ASSUME NEW c \in Calls, Release(c) PROVE Wired'
  BY <1>12 DEF Release, tokenVars, runtimeVars, diskVars, callVars
<1>13. ASSUME NEW c \in Calls, Answered(c) PROVE Wired'
  BY <1>13 DEF Answered, NextStep, tokenVars, runtimeVars, diskVars, callVars
<1>14. ASSUME NEW c \in Calls, Refused(c) PROVE Wired'
  BY <1>14 DEF Refused, Refusals, FailRequest, tokenVars, runtimeVars, diskVars, callVars
<1>15. ASSUME NEW r \in Reviews, Register(r) PROVE Wired'
  BY <1>15 DEF Register, tokenVars, runtimeVars, diskVars, callVars
<1>16. ASSUME NEW r \in Reviews, SavePending(r) PROVE Wired'
  BY <1>16 DEF SavePending, tokenVars, runtimeVars, diskVars, callVars
<1>17. ASSUME NEW r \in Reviews, MakeSandbox(r) PROVE Wired'
  BY <1>17 DEF MakeSandbox, tokenVars, runtimeVars, diskVars, callVars
<1>18. ASSUME NEW r \in Reviews, SandboxFails(r) PROVE Wired'
  BY <1>18 DEF SandboxFails, tokenVars, runtimeVars, diskVars, callVars
<1>19. ASSUME NEW r \in Reviews, BeginTurn(r) PROVE Wired'
  BY <1>19 DEF BeginTurn, tokenVars, runtimeVars, diskVars, callVars
<1>20. ASSUME NEW r \in Reviews, CheckCancelled(r) PROVE Wired'
  BY <1>20 DEF CheckCancelled, tokenVars, runtimeVars, diskVars, callVars
<1>21. ASSUME NEW r \in Reviews, Arm(r) PROVE Wired'
  BY <1>21 DEF Arm, tokenVars, runtimeVars, diskVars, callVars
<1>22. ASSUME NEW r \in Reviews, Wake(r) PROVE Wired'
  BY <1>22 DEF Wake, tokenVars, runtimeVars, diskVars, callVars
<1>23. ASSUME NEW r \in Reviews, TurnCompleted(r) PROVE Wired'
  BY <1>23 DEF TurnCompleted, tokenVars, runtimeVars, diskVars, callVars
<1>24. ASSUME NEW r \in Reviews, TurnRejected(r) PROVE Wired'
  BY <1>24 DEF TurnRejected, tokenVars, runtimeVars, diskVars, callVars
<1>25. ASSUME NEW r \in Reviews, Lagged(r) PROVE Wired'
  BY <1>25 DEF Lagged, tokenVars, runtimeVars, diskVars, callVars
<1>26. ASSUME NEW r \in Reviews, TurnTimesOut(r) PROVE Wired'
  BY <1>26 DEF TurnTimesOut, tokenVars, runtimeVars, diskVars, callVars
<1>27. ASSUME NEW r \in Reviews, Clean(r) PROVE Wired'
  BY <1>27 DEF Clean, tokenVars, runtimeVars, diskVars, callVars
<1>28. ASSUME NEW r \in Reviews, SaveOutcome(r) PROVE Wired'
  BY <1>28 DEF SaveOutcome, tokenVars, runtimeVars, diskVars, callVars
<1>29. ASSUME NEW r \in Reviews, OutcomeFails(r) PROVE Wired'
  BY <1>29 DEF OutcomeFails, tokenVars, runtimeVars, diskVars, callVars
<1>30. ASSUME NEW c \in Accounts, Begin(c) PROVE Wired'
  BY <1>30 DEF Begin, tokenVars, runtimeVars, diskVars, callVars
<1>31. ASSUME NEW i \in RunIds, Cancel(i) PROVE Wired'
  BY <1>31 DEF Cancel, tokenVars, runtimeVars, diskVars, callVars
<1>32. ASSUME NEW t \in paid, ServerCompletes(t) PROVE Wired'
  BY <1>32 DEF ServerCompletes, tokenVars, runtimeVars, diskVars, callVars
<1>33. ASSUME NEW p \in Connections, ProcessDies(p) PROVE Wired'
  BY <1>33 DEF ProcessDies, FailPending, tokenVars, runtimeVars, diskVars, callVars
<1>34. ASSUME NEW p \in Connections, ReaderStops(p) PROVE Wired'
  BY <1>34 DEF ReaderStops, FailPending, tokenVars, runtimeVars, diskVars, callVars
<1>35. CASE Crash
  BY <1>35 DEF Crash, tokenVars, runtimeVars, diskVars, callVars
<1>36. CASE Boot
  BY <1>36 DEF Boot, tokenVars, runtimeVars, diskVars, callVars
<1>37. CASE UNCHANGED vars
  BY <1>37 DEF vars, tokenVars, runtimeVars, diskVars, callVars
<1>38. ASSUME NEW c \in Calls, LaunchRefused(c) PROVE Wired'
  BY <1>38 DEF LaunchRefused, tokenVars, runtimeVars, diskVars, callVars
<1>39. ASSUME NEW c \in Calls, Disabled(c) PROVE Wired'
  BY <1>39 DEF Disabled, tokenVars, runtimeVars, diskVars, callVars
<1>40. ASSUME NEW c \in Calls, OpenBrowser(c) PROVE Wired'
  BY <1>40 DEF OpenBrowser, tokenVars, runtimeVars, diskVars, callVars
<1>41. ASSUME NEW c \in Calls, BrowserFails(c) PROVE Wired'
  BY <1>41 DEF BrowserFails, tokenVars, runtimeVars, diskVars, callVars
<1>42. ASSUME NEW c \in Calls, Unshowable(c) PROVE Wired'
  BY <1>42 DEF Unshowable, tokenVars, runtimeVars, diskVars, callVars
<1>50. ASSUME NEW c \in Calls, Ask(c) PROVE Wired'
  BY <1>50 DEF Ask, tokenVars, runtimeVars, diskVars, callVars
<1>51. ASSUME NEW p \in Connections, ServerStalls(p) PROVE Wired'
  BY <1>51 DEF ServerStalls, tokenVars, runtimeVars, diskVars, callVars
<1>52. ASSUME NEW p \in Connections, ServerResumes(p) PROVE Wired'
  BY <1>52 DEF ServerResumes, tokenVars, runtimeVars, diskVars, callVars
<1> QED
  BY <1>1, <1>2, <1>3, <1>4, <1>5, <1>6, <1>7, <1>8, <1>9, <1>10, <1>11, <1>12, <1>13,
    <1>14, <1>15, <1>16, <1>17, <1>18, <1>19, <1>20, <1>21, <1>22, <1>23, <1>24, <1>25,
    <1>26, <1>27, <1>28, <1>29, <1>30, <1>31, <1>32, <1>33, <1>34, <1>35, <1>36, <1>37,
    <1>38, <1>39, <1>40, <1>41, <1>42, <1>50, <1>51, <1>52
  DEF Next, CallStep, ReviewStep

\* Every step preserves Asked.
LEMMA AskedStep == Stoppable /\ Inv /\ Wired /\ Asked /\ [Next]_vars => Asked'
<1> SUFFICES ASSUME Stoppable, Inv, Wired, Asked, [Next]_vars PROVE Asked'
  OBVIOUS
<1> USE CallsAssumption, RunOfAssumption, LaunchesAssumption, Connected
    DEF Stoppable, Inv, AiTypeOK, Shape, Asked, Wired, Subscribed, Asking, Calls, At, Goto,
        Put, Fail
<1>1. ASSUME NEW c \in Calls, Refuse(c) PROVE Asked'
  BY <1>1 DEF Refuse, tokenVars, runtimeVars, diskVars, callVars
<1>2. ASSUME NEW c \in Calls, TakeService(c) PROVE Asked'
  BY <1>2 DEF TakeService, tokenVars, runtimeVars, diskVars, callVars
<1>3. ASSUME NEW c \in Calls, NoService(c) PROVE Asked'
  BY <1>3 DEF NoService, tokenVars, runtimeVars, diskVars, callVars
<1>4. ASSUME NEW c \in Calls, Launch(c) PROVE Asked'
  BY <1>4 DEF Launch, tokenVars, runtimeVars, diskVars, callVars
<1>5. ASSUME NEW c \in Calls, Spawned(c) PROVE Asked'
  BY <1>5 DEF Spawned, tokenVars, runtimeVars, diskVars, callVars
<1>6. ASSUME NEW c \in Calls, SpawnFails(c) PROVE Asked'
  BY <1>6 DEF SpawnFails, tokenVars, runtimeVars, diskVars, callVars
<1>7. ASSUME NEW c \in Calls, Invalidate(c) PROVE Asked'
  BY <1>7 DEF Invalidate, tokenVars, runtimeVars, diskVars, callVars
<1>8. ASSUME NEW c \in Calls, ShutDown(c) PROVE Asked'
  BY <1>8 DEF ShutDown, FailPending, tokenVars, runtimeVars, diskVars, callVars
<1>9. ASSUME NEW c \in Calls, Send(c) PROVE Asked'
  BY <1>9 DEF Send, tokenVars, runtimeVars, diskVars, callVars
<1>10. ASSUME NEW c \in Calls, Exited(c) PROVE Asked'
  BY <1>10 DEF Exited, FailRequest, tokenVars, runtimeVars, diskVars, callVars
<1>11. ASSUME NEW c \in Calls, RequestTimesOut(c) PROVE Asked'
  BY <1>11 DEF RequestTimesOut, FailRequest, tokenVars, runtimeVars, diskVars, callVars
<1>12. ASSUME NEW c \in Calls, Release(c) PROVE Asked'
  BY <1>12 DEF Release, tokenVars, runtimeVars, diskVars, callVars
<1>13. ASSUME NEW c \in Calls, Answered(c) PROVE Asked'
  BY <1>13 DEF Answered, NextStep, tokenVars, runtimeVars, diskVars, callVars
<1>14. ASSUME NEW c \in Calls, Refused(c) PROVE Asked'
  BY <1>14 DEF Refused, Refusals, FailRequest, tokenVars, runtimeVars, diskVars, callVars
<1>15. ASSUME NEW r \in Reviews, Register(r) PROVE Asked'
  BY <1>15 DEF Register, tokenVars, runtimeVars, diskVars, callVars
<1>16. ASSUME NEW r \in Reviews, SavePending(r) PROVE Asked'
  BY <1>16 DEF SavePending, tokenVars, runtimeVars, diskVars, callVars
<1>17. ASSUME NEW r \in Reviews, MakeSandbox(r) PROVE Asked'
  BY <1>17 DEF MakeSandbox, tokenVars, runtimeVars, diskVars, callVars
<1>18. ASSUME NEW r \in Reviews, SandboxFails(r) PROVE Asked'
  BY <1>18 DEF SandboxFails, tokenVars, runtimeVars, diskVars, callVars
<1>19. ASSUME NEW r \in Reviews, BeginTurn(r) PROVE Asked'
  BY <1>19 DEF BeginTurn, tokenVars, runtimeVars, diskVars, callVars
<1>20. ASSUME NEW r \in Reviews, CheckCancelled(r) PROVE Asked'
  BY <1>20 DEF CheckCancelled, tokenVars, runtimeVars, diskVars, callVars
<1>21. ASSUME NEW r \in Reviews, Arm(r) PROVE Asked'
  BY <1>21 DEF Arm, tokenVars, runtimeVars, diskVars, callVars
<1>22. ASSUME NEW r \in Reviews, Wake(r) PROVE Asked'
  BY <1>22 DEF Wake, tokenVars, runtimeVars, diskVars, callVars
<1>23. ASSUME NEW r \in Reviews, TurnCompleted(r) PROVE Asked'
  BY <1>23 DEF TurnCompleted, tokenVars, runtimeVars, diskVars, callVars
<1>24. ASSUME NEW r \in Reviews, TurnRejected(r) PROVE Asked'
  BY <1>24 DEF TurnRejected, tokenVars, runtimeVars, diskVars, callVars
<1>25. ASSUME NEW r \in Reviews, Lagged(r) PROVE Asked'
  BY <1>25 DEF Lagged, tokenVars, runtimeVars, diskVars, callVars
<1>26. ASSUME NEW r \in Reviews, TurnTimesOut(r) PROVE Asked'
  BY <1>26 DEF TurnTimesOut, tokenVars, runtimeVars, diskVars, callVars
<1>27. ASSUME NEW r \in Reviews, Clean(r) PROVE Asked'
  BY <1>27 DEF Clean, tokenVars, runtimeVars, diskVars, callVars
<1>28. ASSUME NEW r \in Reviews, SaveOutcome(r) PROVE Asked'
  BY <1>28 DEF SaveOutcome, tokenVars, runtimeVars, diskVars, callVars
<1>29. ASSUME NEW r \in Reviews, OutcomeFails(r) PROVE Asked'
  BY <1>29 DEF OutcomeFails, tokenVars, runtimeVars, diskVars, callVars
<1>30. ASSUME NEW c \in Accounts, Begin(c) PROVE Asked'
  BY <1>30 DEF Begin, tokenVars, runtimeVars, diskVars, callVars
<1>31. ASSUME NEW i \in RunIds, Cancel(i) PROVE Asked'
  BY <1>31 DEF Cancel, tokenVars, runtimeVars, diskVars, callVars
<1>32. ASSUME NEW t \in paid, ServerCompletes(t) PROVE Asked'
  BY <1>32 DEF ServerCompletes, tokenVars, runtimeVars, diskVars, callVars
<1>33. ASSUME NEW p \in Connections, ProcessDies(p) PROVE Asked'
  BY <1>33 DEF ProcessDies, FailPending, tokenVars, runtimeVars, diskVars, callVars
<1>34. ASSUME NEW p \in Connections, ReaderStops(p) PROVE Asked'
  BY <1>34 DEF ReaderStops, FailPending, tokenVars, runtimeVars, diskVars, callVars
<1>35. CASE Crash
  BY <1>35 DEF Crash, tokenVars, runtimeVars, diskVars, callVars
<1>36. CASE Boot
  BY <1>36 DEF Boot, tokenVars, runtimeVars, diskVars, callVars
<1>37. CASE UNCHANGED vars
  BY <1>37 DEF vars, tokenVars, runtimeVars, diskVars, callVars
<1>38. ASSUME NEW c \in Calls, LaunchRefused(c) PROVE Asked'
  BY <1>38 DEF LaunchRefused, tokenVars, runtimeVars, diskVars, callVars
<1>39. ASSUME NEW c \in Calls, Disabled(c) PROVE Asked'
  BY <1>39 DEF Disabled, tokenVars, runtimeVars, diskVars, callVars
<1>40. ASSUME NEW c \in Calls, OpenBrowser(c) PROVE Asked'
  BY <1>40 DEF OpenBrowser, tokenVars, runtimeVars, diskVars, callVars
<1>41. ASSUME NEW c \in Calls, BrowserFails(c) PROVE Asked'
  BY <1>41 DEF BrowserFails, tokenVars, runtimeVars, diskVars, callVars
<1>42. ASSUME NEW c \in Calls, Unshowable(c) PROVE Asked'
  BY <1>42 DEF Unshowable, tokenVars, runtimeVars, diskVars, callVars
<1>50. ASSUME NEW c \in Calls, Ask(c) PROVE Asked'
  BY <1>50 DEF Ask, tokenVars, runtimeVars, diskVars, callVars
<1>51. ASSUME NEW p \in Connections, ServerStalls(p) PROVE Asked'
  BY <1>51 DEF ServerStalls, tokenVars, runtimeVars, diskVars, callVars
<1>52. ASSUME NEW p \in Connections, ServerResumes(p) PROVE Asked'
  BY <1>52 DEF ServerResumes, tokenVars, runtimeVars, diskVars, callVars
<1> QED
  BY <1>1, <1>2, <1>3, <1>4, <1>5, <1>6, <1>7, <1>8, <1>9, <1>10, <1>11, <1>12, <1>13,
    <1>14, <1>15, <1>16, <1>17, <1>18, <1>19, <1>20, <1>21, <1>22, <1>23, <1>24, <1>25,
    <1>26, <1>27, <1>28, <1>29, <1>30, <1>31, <1>32, <1>33, <1>34, <1>35, <1>36, <1>37,
    <1>38, <1>39, <1>40, <1>41, <1>42, <1>50, <1>51, <1>52
  DEF Next, CallStep, ReviewStep

\* Every step preserves Noted.
LEMMA NotedStep == Stoppable /\ Inv /\ Turns /\ [Next]_vars => Noted'
<1> SUFFICES ASSUME Stoppable, Inv, Turns, [Next]_vars PROVE Noted'
  OBVIOUS
<1> USE CallsAssumption, RunOfAssumption, LaunchesAssumption, Connected
    DEF Stoppable, Inv, AiTypeOK, Shape, Turns, Noted, Runs, Running, BetweenTurns, Discarding,
        Asking, Subscribed, Calls, At, Goto, Put, Fail
<1>1. ASSUME NEW c \in Calls, Refuse(c) PROVE Noted'
  BY <1>1 DEF Refuse, tokenVars, runtimeVars, diskVars, callVars
<1>2. ASSUME NEW c \in Calls, TakeService(c) PROVE Noted'
  BY <1>2 DEF TakeService, tokenVars, runtimeVars, diskVars, callVars
<1>3. ASSUME NEW c \in Calls, NoService(c) PROVE Noted'
  BY <1>3 DEF NoService, tokenVars, runtimeVars, diskVars, callVars
<1>4. ASSUME NEW c \in Calls, Launch(c) PROVE Noted'
  BY <1>4 DEF Launch, tokenVars, runtimeVars, diskVars, callVars
<1>5. ASSUME NEW c \in Calls, Spawned(c) PROVE Noted'
  BY <1>5 DEF Spawned, tokenVars, runtimeVars, diskVars, callVars
<1>6. ASSUME NEW c \in Calls, SpawnFails(c) PROVE Noted'
  BY <1>6 DEF SpawnFails, tokenVars, runtimeVars, diskVars, callVars
<1>7. ASSUME NEW c \in Calls, Invalidate(c) PROVE Noted'
  BY <1>7 DEF Invalidate, tokenVars, runtimeVars, diskVars, callVars
<1>8. ASSUME NEW c \in Calls, ShutDown(c) PROVE Noted'
  BY <1>8 DEF ShutDown, FailPending, tokenVars, runtimeVars, diskVars, callVars
<1>9. ASSUME NEW c \in Calls, Send(c) PROVE Noted'
  BY <1>9 DEF Send, tokenVars, runtimeVars, diskVars, callVars
<1>10. ASSUME NEW c \in Calls, Exited(c) PROVE Noted'
  BY <1>10 DEF Exited, FailRequest, tokenVars, runtimeVars, diskVars, callVars
<1>11. ASSUME NEW c \in Calls, RequestTimesOut(c) PROVE Noted'
  BY <1>11 DEF RequestTimesOut, FailRequest, tokenVars, runtimeVars, diskVars, callVars
<1>12. ASSUME NEW c \in Calls, Release(c) PROVE Noted'
  BY <1>12 DEF Release, tokenVars, runtimeVars, diskVars, callVars
<1>13. ASSUME NEW c \in Calls, Answered(c) PROVE Noted'
  BY <1>13 DEF Answered, NextStep, tokenVars, runtimeVars, diskVars, callVars
<1>14. ASSUME NEW c \in Calls, Refused(c) PROVE Noted'
  BY <1>14 DEF Refused, Refusals, FailRequest, tokenVars, runtimeVars, diskVars, callVars
<1>15. ASSUME NEW r \in Reviews, Register(r) PROVE Noted'
  BY <1>15 DEF Register, tokenVars, runtimeVars, diskVars, callVars
<1>16. ASSUME NEW r \in Reviews, SavePending(r) PROVE Noted'
  BY <1>16 DEF SavePending, tokenVars, runtimeVars, diskVars, callVars
<1>17. ASSUME NEW r \in Reviews, MakeSandbox(r) PROVE Noted'
  BY <1>17 DEF MakeSandbox, tokenVars, runtimeVars, diskVars, callVars
<1>18. ASSUME NEW r \in Reviews, SandboxFails(r) PROVE Noted'
  BY <1>18 DEF SandboxFails, tokenVars, runtimeVars, diskVars, callVars
<1>19. ASSUME NEW r \in Reviews, BeginTurn(r) PROVE Noted'
  BY <1>19 DEF BeginTurn, tokenVars, runtimeVars, diskVars, callVars
<1>20. ASSUME NEW r \in Reviews, CheckCancelled(r) PROVE Noted'
  BY <1>20 DEF CheckCancelled, tokenVars, runtimeVars, diskVars, callVars
<1>21. ASSUME NEW r \in Reviews, Arm(r) PROVE Noted'
  BY <1>21 DEF Arm, tokenVars, runtimeVars, diskVars, callVars
<1>22. ASSUME NEW r \in Reviews, Wake(r) PROVE Noted'
  BY <1>22 DEF Wake, tokenVars, runtimeVars, diskVars, callVars
<1>23. ASSUME NEW r \in Reviews, TurnCompleted(r) PROVE Noted'
  BY <1>23 DEF TurnCompleted, tokenVars, runtimeVars, diskVars, callVars
<1>24. ASSUME NEW r \in Reviews, TurnRejected(r) PROVE Noted'
  BY <1>24 DEF TurnRejected, tokenVars, runtimeVars, diskVars, callVars
<1>25. ASSUME NEW r \in Reviews, Lagged(r) PROVE Noted'
  BY <1>25 DEF Lagged, tokenVars, runtimeVars, diskVars, callVars
<1>26. ASSUME NEW r \in Reviews, TurnTimesOut(r) PROVE Noted'
  BY <1>26 DEF TurnTimesOut, tokenVars, runtimeVars, diskVars, callVars
<1>27. ASSUME NEW r \in Reviews, Clean(r) PROVE Noted'
  BY <1>27 DEF Clean, tokenVars, runtimeVars, diskVars, callVars
<1>28. ASSUME NEW r \in Reviews, SaveOutcome(r) PROVE Noted'
  BY <1>28 DEF SaveOutcome, tokenVars, runtimeVars, diskVars, callVars
<1>29. ASSUME NEW r \in Reviews, OutcomeFails(r) PROVE Noted'
  BY <1>29 DEF OutcomeFails, tokenVars, runtimeVars, diskVars, callVars
<1>30. ASSUME NEW c \in Accounts, Begin(c) PROVE Noted'
  BY <1>30 DEF Begin, tokenVars, runtimeVars, diskVars, callVars
<1>31. ASSUME NEW i \in RunIds, Cancel(i) PROVE Noted'
  BY <1>31 DEF Cancel, tokenVars, runtimeVars, diskVars, callVars
<1>32. ASSUME NEW t \in paid, ServerCompletes(t) PROVE Noted'
  BY <1>32 DEF ServerCompletes, tokenVars, runtimeVars, diskVars, callVars
<1>33. ASSUME NEW p \in Connections, ProcessDies(p) PROVE Noted'
  BY <1>33 DEF ProcessDies, FailPending, tokenVars, runtimeVars, diskVars, callVars
<1>34. ASSUME NEW p \in Connections, ReaderStops(p) PROVE Noted'
  BY <1>34 DEF ReaderStops, FailPending, tokenVars, runtimeVars, diskVars, callVars
<1>35. CASE Crash
  BY <1>35 DEF Crash, tokenVars, runtimeVars, diskVars, callVars
<1>36. CASE Boot
  BY <1>36 DEF Boot, tokenVars, runtimeVars, diskVars, callVars
<1>37. CASE UNCHANGED vars
  BY <1>37 DEF vars, tokenVars, runtimeVars, diskVars, callVars
<1>38. ASSUME NEW c \in Calls, LaunchRefused(c) PROVE Noted'
  BY <1>38 DEF LaunchRefused, tokenVars, runtimeVars, diskVars, callVars
<1>39. ASSUME NEW c \in Calls, Disabled(c) PROVE Noted'
  BY <1>39 DEF Disabled, tokenVars, runtimeVars, diskVars, callVars
<1>40. ASSUME NEW c \in Calls, OpenBrowser(c) PROVE Noted'
  BY <1>40 DEF OpenBrowser, tokenVars, runtimeVars, diskVars, callVars
<1>41. ASSUME NEW c \in Calls, BrowserFails(c) PROVE Noted'
  BY <1>41 DEF BrowserFails, tokenVars, runtimeVars, diskVars, callVars
<1>42. ASSUME NEW c \in Calls, Unshowable(c) PROVE Noted'
  BY <1>42 DEF Unshowable, tokenVars, runtimeVars, diskVars, callVars
<1>50. ASSUME NEW c \in Calls, Ask(c) PROVE Noted'
  BY <1>50 DEF Ask, tokenVars, runtimeVars, diskVars, callVars
<1>51. ASSUME NEW p \in Connections, ServerStalls(p) PROVE Noted'
  BY <1>51 DEF ServerStalls, tokenVars, runtimeVars, diskVars, callVars
<1>52. ASSUME NEW p \in Connections, ServerResumes(p) PROVE Noted'
  BY <1>52 DEF ServerResumes, tokenVars, runtimeVars, diskVars, callVars
<1> QED
  BY <1>1, <1>2, <1>3, <1>4, <1>5, <1>6, <1>7, <1>8, <1>9, <1>10, <1>11, <1>12, <1>13,
    <1>14, <1>15, <1>16, <1>17, <1>18, <1>19, <1>20, <1>21, <1>22, <1>23, <1>24, <1>25,
    <1>26, <1>27, <1>28, <1>29, <1>30, <1>31, <1>32, <1>33, <1>34, <1>35, <1>36, <1>37,
    <1>38, <1>39, <1>40, <1>41, <1>42, <1>50, <1>51, <1>52
  DEF Next, CallStep, ReviewStep

\* Every step preserves Runs.
LEMMA RunsStep == Stoppable /\ Inv /\ Turns /\ [Next]_vars => Runs'
<1> SUFFICES ASSUME Stoppable, Inv, Turns, [Next]_vars PROVE Runs'
  OBVIOUS
<1> USE CallsAssumption, RunOfAssumption, LaunchesAssumption, Connected
    DEF Stoppable, Inv, AiTypeOK, Shape, Locked, Process, Alive, Turns, Wired, Noted, Runs,
        Running, BetweenTurns, Discarding, Fatal, Asking, Subscribed, Calls, At, Goto, Put, Fail
<1>1. ASSUME NEW c \in Calls, Refuse(c) PROVE Runs'
  BY <1>1 DEF Refuse, tokenVars, runtimeVars, diskVars, callVars
<1>2. ASSUME NEW c \in Calls, TakeService(c) PROVE Runs'
  BY <1>2 DEF TakeService, tokenVars, runtimeVars, diskVars, callVars
<1>3. ASSUME NEW c \in Calls, NoService(c) PROVE Runs'
  BY <1>3 DEF NoService, tokenVars, runtimeVars, diskVars, callVars
<1>4. ASSUME NEW c \in Calls, Launch(c) PROVE Runs'
  BY <1>4 DEF Launch, tokenVars, runtimeVars, diskVars, callVars
<1>5. ASSUME NEW c \in Calls, Spawned(c) PROVE Runs'
  BY <1>5 DEF Spawned, tokenVars, runtimeVars, diskVars, callVars
<1>6. ASSUME NEW c \in Calls, SpawnFails(c) PROVE Runs'
  BY <1>6 DEF SpawnFails, tokenVars, runtimeVars, diskVars, callVars
<1>7. ASSUME NEW c \in Calls, Invalidate(c) PROVE Runs'
  BY <1>7 DEF Invalidate, tokenVars, runtimeVars, diskVars, callVars
<1>8. ASSUME NEW c \in Calls, ShutDown(c) PROVE Runs'
  BY <1>8 DEF ShutDown, FailPending, tokenVars, runtimeVars, diskVars, callVars
<1>9. ASSUME NEW c \in Calls, Send(c) PROVE Runs'
  <2>1. /\ pc[c] \in Asking /\ answer[c] \in {"writing", "failing"}
        /\ UNCHANGED <<pc, err, using, note, conn>>
        /\ answer[c] = "failing" => conn[using[c]] = "closed"
    BY <1>9 DEF Send, callVars, Asked
  <2>2. \A d \in Calls \ {c} : answer'[d] = answer[d]
    BY <1>9 DEF Send
  <2>3. conn[using[c]] = "open" => answer'[c] = "awaited"
    BY <1>9, <2>1 DEF Send
  <2>4. ASSUME NEW t \in paid PROVE Running(t[1], t[2])'
    BY <2>1, <2>2, <2>3, <2>4
  <2>5. CASE pc[c] = "turn" /\ conn[using[c]] # "closed"
    <3>1. c \in Reviews /\ using[c] \in Connections
      BY <2>5 DEF AccountSteps
    <3>2. conn[using[c]] = "open" /\ c \notin note
      BY <2>1, <2>5, <3>1
    <3>3. Running(using[c], c)'
      BY <2>1, <2>3, <2>5, <3>2
    <3>4. paid' = paid \cup {<<using[c], c>>}
      BY <1>9, <2>5 DEF Send
    <3>5. \A t \in paid' : t \in paid \/ t = <<using[c], c>>
      BY <3>4
    <3>6. ASSUME NEW t \in paid' PROVE Running(t[1], t[2])'
      <4>1. CASE t \in paid
        BY <2>4, <4>1
      <4>2. CASE t = <<using[c], c>>
        <5>1. t[1] = using'[c] /\ t[2] = c
          BY <2>1, <4>2
        <5> QED
          BY <2>1, <2>3, <2>5, <3>2, <5>1
      <4> QED
        BY <3>5, <4>1, <4>2
    <3> QED
      BY <3>6, Zenon DEF Runs
  <2>6. CASE ~(pc[c] = "turn" /\ conn[using[c]] # "closed")
    <3>1. paid' = paid
      BY <1>9, <2>6 DEF Send
    <3> QED
      BY <2>4, <3>1
  <2> QED
    BY <2>5, <2>6
<1>10. ASSUME NEW c \in Calls, Exited(c) PROVE Runs'
  BY <1>10 DEF Exited, FailRequest, tokenVars, runtimeVars, diskVars, callVars
<1>11. ASSUME NEW c \in Calls, RequestTimesOut(c) PROVE Runs'
  BY <1>11 DEF RequestTimesOut, FailRequest, tokenVars, runtimeVars, diskVars, callVars
<1>12. ASSUME NEW c \in Calls, Release(c) PROVE Runs'
  BY <1>12 DEF Release, tokenVars, runtimeVars, diskVars, callVars
<1>13. ASSUME NEW c \in Calls, Answered(c) PROVE Runs'
  BY <1>13 DEF Answered, NextStep, tokenVars, runtimeVars, diskVars, callVars
<1>14. ASSUME NEW c \in Calls, Refused(c) PROVE Runs'
  BY <1>14 DEF Refused, Refusals, FailRequest, tokenVars, runtimeVars, diskVars, callVars
<1>15. ASSUME NEW r \in Reviews, Register(r) PROVE Runs'
  BY <1>15 DEF Register, tokenVars, runtimeVars, diskVars, callVars
<1>16. ASSUME NEW r \in Reviews, SavePending(r) PROVE Runs'
  BY <1>16 DEF SavePending, tokenVars, runtimeVars, diskVars, callVars
<1>17. ASSUME NEW r \in Reviews, MakeSandbox(r) PROVE Runs'
  BY <1>17 DEF MakeSandbox, tokenVars, runtimeVars, diskVars, callVars
<1>18. ASSUME NEW r \in Reviews, SandboxFails(r) PROVE Runs'
  BY <1>18 DEF SandboxFails, tokenVars, runtimeVars, diskVars, callVars
<1>19. ASSUME NEW r \in Reviews, BeginTurn(r) PROVE Runs'
  BY <1>19 DEF BeginTurn, tokenVars, runtimeVars, diskVars, callVars
<1>20. ASSUME NEW r \in Reviews, CheckCancelled(r) PROVE Runs'
  BY <1>20 DEF CheckCancelled, tokenVars, runtimeVars, diskVars, callVars
<1>21. ASSUME NEW r \in Reviews, Arm(r) PROVE Runs'
  BY <1>21 DEF Arm, tokenVars, runtimeVars, diskVars, callVars
<1>22. ASSUME NEW r \in Reviews, Wake(r) PROVE Runs'
  BY <1>22 DEF Wake, tokenVars, runtimeVars, diskVars, callVars
<1>23. ASSUME NEW r \in Reviews, TurnCompleted(r) PROVE Runs'
  BY <1>23 DEF TurnCompleted, tokenVars, runtimeVars, diskVars, callVars
<1>24. ASSUME NEW r \in Reviews, TurnRejected(r) PROVE Runs'
  BY <1>24 DEF TurnRejected, tokenVars, runtimeVars, diskVars, callVars
<1>25. ASSUME NEW r \in Reviews, Lagged(r) PROVE Runs'
  BY <1>25 DEF Lagged, tokenVars, runtimeVars, diskVars, callVars
<1>26. ASSUME NEW r \in Reviews, TurnTimesOut(r) PROVE Runs'
  BY <1>26 DEF TurnTimesOut, tokenVars, runtimeVars, diskVars, callVars
<1>27. ASSUME NEW r \in Reviews, Clean(r) PROVE Runs'
  BY <1>27 DEF Clean, tokenVars, runtimeVars, diskVars, callVars
<1>28. ASSUME NEW r \in Reviews, SaveOutcome(r) PROVE Runs'
  BY <1>28 DEF SaveOutcome, tokenVars, runtimeVars, diskVars, callVars
<1>29. ASSUME NEW r \in Reviews, OutcomeFails(r) PROVE Runs'
  BY <1>29 DEF OutcomeFails, tokenVars, runtimeVars, diskVars, callVars
<1>30. ASSUME NEW c \in Accounts, Begin(c) PROVE Runs'
  BY <1>30 DEF Begin, tokenVars, runtimeVars, diskVars, callVars
<1>31. ASSUME NEW i \in RunIds, Cancel(i) PROVE Runs'
  BY <1>31 DEF Cancel, tokenVars, runtimeVars, diskVars, callVars
<1>32. ASSUME NEW t \in paid, ServerCompletes(t) PROVE Runs'
  BY <1>32 DEF ServerCompletes, tokenVars, runtimeVars, diskVars, callVars
<1>33. ASSUME NEW p \in Connections, ProcessDies(p) PROVE Runs'
  BY <1>33 DEF ProcessDies, FailPending, tokenVars, runtimeVars, diskVars, callVars
<1>34. ASSUME NEW p \in Connections, ReaderStops(p) PROVE Runs'
  BY <1>34 DEF ReaderStops, FailPending, tokenVars, runtimeVars, diskVars, callVars
<1>35. CASE Crash
  BY <1>35 DEF Crash, tokenVars, runtimeVars, diskVars, callVars
<1>36. CASE Boot
  BY <1>36 DEF Boot, tokenVars, runtimeVars, diskVars, callVars
<1>37. CASE UNCHANGED vars
  BY <1>37 DEF vars, tokenVars, runtimeVars, diskVars, callVars
<1>38. ASSUME NEW c \in Calls, LaunchRefused(c) PROVE Runs'
  BY <1>38 DEF LaunchRefused, tokenVars, runtimeVars, diskVars, callVars
<1>39. ASSUME NEW c \in Calls, Disabled(c) PROVE Runs'
  BY <1>39 DEF Disabled, tokenVars, runtimeVars, diskVars, callVars
<1>40. ASSUME NEW c \in Calls, OpenBrowser(c) PROVE Runs'
  BY <1>40 DEF OpenBrowser, tokenVars, runtimeVars, diskVars, callVars
<1>41. ASSUME NEW c \in Calls, BrowserFails(c) PROVE Runs'
  BY <1>41 DEF BrowserFails, tokenVars, runtimeVars, diskVars, callVars
<1>42. ASSUME NEW c \in Calls, Unshowable(c) PROVE Runs'
  BY <1>42 DEF Unshowable, tokenVars, runtimeVars, diskVars, callVars
<1>50. ASSUME NEW c \in Calls, Ask(c) PROVE Runs'
  BY <1>50 DEF Ask, tokenVars, runtimeVars, diskVars, callVars
<1>51. ASSUME NEW p \in Connections, ServerStalls(p) PROVE Runs'
  BY <1>51 DEF ServerStalls, tokenVars, runtimeVars, diskVars, callVars
<1>52. ASSUME NEW p \in Connections, ServerResumes(p) PROVE Runs'
  BY <1>52 DEF ServerResumes, tokenVars, runtimeVars, diskVars, callVars
<1> QED
  BY <1>1, <1>2, <1>3, <1>4, <1>5, <1>6, <1>7, <1>8, <1>9, <1>10, <1>11, <1>12, <1>13,
    <1>14, <1>15, <1>16, <1>17, <1>18, <1>19, <1>20, <1>21, <1>22, <1>23, <1>24, <1>25,
    <1>26, <1>27, <1>28, <1>29, <1>30, <1>31, <1>32, <1>33, <1>34, <1>35, <1>36, <1>37,
    <1>38, <1>39, <1>40, <1>41, <1>42, <1>50, <1>51, <1>52
  DEF Next, CallStep, ReviewStep

\* Under Recorded and Stoppable both are invariants.
LEMMA DurableAlways == ASSUME Recorded PROVE Spec => []Durable
<1>1. Init => Durable
  BY InitTurns
<1>2. Inv /\ Durable /\ [Next]_vars => Durable'
  BY DurableStep
<1> QED
  BY <1>1, <1>2, SpecInv, PTL DEF Spec

\* Every turn the server works on is accounted for, when it can be stopped.
LEMMA TurnsAlways == ASSUME Stoppable PROVE Spec => []Turns
<1>1. Init => Turns
  BY InitTurns
<1>2. Inv /\ Turns /\ [Next]_vars => Turns'
  BY WiredStep, AskedStep, NotedStep, RunsStep DEF Turns
<1> QED
  BY <1>1, <1>2, SpecInv, PTL DEF Spec

\* Without a crash or a storage fault no review leaves a pending row or a
\* sandbox behind (run_ai_review, cleanup_ai_sandbox).
THEOREM PendingMeansInFlightAlways == ASSUME Recorded PROVE Spec => []PendingMeansInFlight
<1>1. Durable => PendingMeansInFlight
  BY DEF Durable, Reviewing, PendingMeansInFlight, Guarded, Asking, Subscribed
<1> QED
  BY <1>1, DurableAlways, PTL

\* When requests are answered or their connection is lost, the turns the
\* server works on are those of reviews in flight (cancelled(), Drop of the
\* active guard).
THEOREM NoAbandonedTurnAlways == ASSUME Stoppable PROVE Spec => []NoAbandonedTurn
<1>1. ASSUME Inv, Turns PROVE NoAbandonedTurn
  BY <1>1 DEF Inv, AiTypeOK, Turns, Runs, Running, Discarding, Owner, NoAbandonedTurn, Guarded,
              Asking, Subscribed
<1> QED
  BY <1>1, SpecInv, TurnsAlways, PTL

\* ... and there is one for a run (state.rs: one paid AI turn per
\* deterministic run at a time).
THEOREM OneTurnPerRunAlways == ASSUME Stoppable PROVE Spec => []OneTurnPerRun
<1>1. ASSUME Inv, Turns PROVE OneTurnPerRun
  <2> SUFFICES ASSUME NEW t \in paid, NEW u \in paid, RunOf[t[2]] = RunOf[u[2]]
               PROVE  t = u
    BY DEF OneTurnPerRun
  <2>1. t \in Connections \X Reviews /\ u \in Connections \X Reviews
    BY <1>1 DEF Inv, AiTypeOK
  <2>2. pc[t[2]] \in Guarded /\ pc[u[2]] \in Guarded
    BY <1>1, <2>1 DEF Turns, Runs, Running, Discarding, Guarded, Asking, Subscribed
  <2>3. t[2] = u[2]
    BY <1>1, <2>1, <2>2 DEF Inv, Owner
  <2>4. t[1] = using[t[2]] /\ u[1] = using[u[2]]
    BY <1>1 DEF Turns, Runs, Running
  <2> QED
    BY <2>1, <2>3, <2>4
<1> QED
  BY <1>1, SpecInv, TurnsAlways, PTL
=============================================================================
