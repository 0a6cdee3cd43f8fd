----------------------------- MODULE AiReviews -----------------------------
(***************************************************************************)
(* Grounded AI reviews and account commands over one supervised Codex      *)
(* app-server: the commands (run_ai_review, get_ai_account and the other   *)
(* one-request commands), the runtime that launches and discards the       *)
(* process under an async lock, and the requests, turns, cancellations and *)
(* timeouts that run over its connection.                                  *)
(*                                                                         *)
(* A connection stands for one launched process with its reader task.  A   *)
(* request awaits the answer its reader delivers; a turn, once started,    *)
(* awaits a notification.                                                  *)
(***************************************************************************)
EXTENDS Naturals, FiniteSets

CONSTANTS
  Reviews,      \* invocations of run_ai_review
  Accounts,     \* invocations of the account commands, which send a request
  Logins,       \* those among them of start_ai_login
  RunIds,       \* analysis runs
  RunOf,        \* review -> the run it is about
  MaxLaunches,  \* MAX_PROCESS_LAUNCHES
  MaxTurns,     \* bound: turns of one review
  Faults,       \* what may go wrong: see FaultKinds
  None

FaultKinds ==
  { "exit",      \* the app-server process exits
    "malformed", \* its reader stops at a malformed or oversized line
    "stall",     \* it stops reading, and the pipe to it fills up
    "timeout",   \* an answer or a completion is late
    "server",    \* a request is refused, the user is not signed in
    "output",    \* a turn fails, is unsafe or is not grounded
    "storage",   \* a repository call, or making or reading the sandbox, fails
    "spawn",     \* a launch fails
    "browser",   \* no browser opens for a login
    "switch",    \* AI is switched off between two looks at the settings
    "crash" }    \* the application dies

Calls == Reviews \cup Accounts
Connections == 1 .. MaxLaunches

ASSUME CallsAssumption == Reviews \cap Accounts = {} /\ None \notin Calls
ASSUME LoginsAssumption == Logins \subseteq Accounts
ASSUME RunOfAssumption == RunOf \in [Reviews -> RunIds]
ASSUME LaunchesAssumption == MaxLaunches \in Nat /\ MaxTurns \in Nat \ {0}
ASSUME ReviewFaultsAssumption == Faults \subseteq FaultKinds

VARIABLES
  \* calls
  pc,         \* call -> its step
  err,        \* call -> the kind of error it met
  using,      \* call -> the connection its CodexService clone wraps, or 0
  answer,     \* call -> state of its pending request
  turns,      \* review -> turns of its plan left
  note,       \* reviews whose turn/completed notification is in their queue
  active,     \* AppState.active_ai_runs: run -> review
  cancelled,  \* reviews whose CodexCancellationToken is set
  woken,      \* reviews whose registered waiter was notified
  \* the runtime and its processes
  lock,       \* holder of AppState.codex across an await
  service,    \* connection of the cached CodexService, or 0
  closing,    \* connection being shut down, or 0
  launches,   \* launch_count
  conn,       \* connection -> "none", "open", "deaf" (no reader) or "closed"
  stalled,    \* connections whose pipe to the process is full: writing waits
  paid,       \* <<connection, review>>: turns the server is working on
  up,         \* the application runs
  \* durable
  row,        \* ai_analyses: review -> status
  grounding,  \* ai_analyses: review -> grounding_status
  sandbox     \* reviews whose sandbox directory exists

callVars == <<pc, err, using, answer, turns, note>>
tokenVars == <<active, cancelled, woken>>
runtimeVars == <<lock, service, closing, launches, conn, stalled, paid, up>>
diskVars == <<row, grounding, sandbox>>
vars == <<callVars, tokenVars, runtimeVars, diskVars>>

\* Steps that send a request and await its answer.
Asking == {"account", "thread", "turn", "interrupting", "abandoning"}
\* A receiver is subscribed to the notifications.
Subscribed == {"thread", "turn", "checking", "arming", "waiting"}
\* Between the insertion into the active map and the drop of the guard.
Guarded == Asking \cup Subscribed \cup
  {"locking", "spawning", "opening", "recording", "sandboxing", "turning",
   "cleaning", "ending", "invalidating", "shutting", "leaving"}
Ended == {"done", "gone"}

\* invalidate_codex_on_failure: the errors that discard the connection.
Fatal == {"exited", "protocol", "unsafe"}
\* The errors recorded as a rejected response.
Rejecting == {"analysis", "unsafe", "protocol", "grounding"}
Errors == Fatal \cup Rejecting \cup {"none", "cancelled", "timeout", "other"}

At(c, step) == up /\ pc[c] = step
Goto(c, step) == pc' = [pc EXCEPT ![c] = step]
Put(f, x, v) == [f EXCEPT ![x] = v]

\* The call fails with e and goes on at step.
Fail(c, e, step) == Goto(c, step) /\ err' = Put(err, c, e)

Init ==
  /\ pc = [c \in Calls |-> "idle"]
  /\ err = [c \in Calls |-> "none"]
  /\ using = [c \in Calls |-> 0]
  /\ answer = [c \in Calls |-> "none"]
  /\ turns = [r \in Reviews |-> 0]
  /\ note = {}
  /\ active = [i \in RunIds |-> None]
  /\ cancelled = {} /\ woken = {}
  /\ lock = None /\ service = 0 /\ closing = 0 /\ launches = 0
  /\ conn = [p \in Connections |-> "none"]
  /\ stalled = {} /\ paid = {}
  /\ up = TRUE
  /\ row = [r \in Reviews |-> "absent"]
  /\ grounding = [r \in Reviews |-> "pending"]
  /\ sandbox = {}

-----------------------------------------------------------------------------
(* Submitting                                                              *)

\* AI is disabled, consent is missing, or the scope differs from the one
\* consented to.
Refuse(c) ==
  /\ At(c, "idle")
  /\ Fail(c, "other", "done")
  /\ UNCHANGED <<using, answer, turns, note, tokenVars, runtimeVars, diskVars>>

\* Mutant: the map of active reviews is not consulted.
RegisterUnchecked(r) ==
  /\ At(r, "idle")
  /\ active' = Put(active, RunOf[r], r)
  /\ Goto(r, "locking")
  /\ UNCHANGED <<err, using, answer, turns, note, cancelled, woken, runtimeVars, diskVars>>

\* One review per run: insert the token under the active-map lock.
Register(r) ==
  /\ At(r, "idle")
  /\ active[RunOf[r]] = None
  /\ active' = Put(active, RunOf[r], r)
  /\ Goto(r, "locking")
  /\ UNCHANGED <<err, using, answer, turns, note, cancelled, woken, runtimeVars, diskVars>>

\* get_ai_account and its kind start with the service.
Begin(c) ==
  /\ At(c, "idle")
  /\ Goto(c, "locking")
  /\ UNCHANGED <<err, using, answer, turns, note, tokenVars, runtimeVars, diskVars>>

-----------------------------------------------------------------------------
(* CodexRuntime                                                            *)

\* service(): the cached service is returned as it is.
TakeService(c) ==
  /\ At(c, "locking")
  /\ lock = None /\ service # 0
  /\ using' = Put(using, c, service)
  /\ Goto(c, "account")
  /\ UNCHANGED <<err, answer, turns, note, tokenVars, runtimeVars, diskVars>>

\* The restart limit is reached, or the binary is missing.
NoService(c) ==
  /\ At(c, "locking")
  /\ lock = None /\ service = 0
  /\ launches = MaxLaunches \/ "spawn" \in Faults
  /\ Fail(c, "other", "leaving")
  /\ UNCHANGED <<using, answer, turns, note, tokenVars, runtimeVars, diskVars>>

\* require_ai_enabled() again: the switch was turned off in the settings after
\* the command had found it on.  Nobody looks at it after this.
Disabled(c) ==
  /\ "switch" \in Faults
  /\ At(c, "locking")
  /\ Fail(c, "other", "leaving")
  /\ UNCHANGED <<using, answer, turns, note, tokenVars, runtimeVars, diskVars>>

\* spawn() finds the working directory in use or another version than the
\* pinned one before it starts the process: the launch is counted all the same.
LaunchRefused(c) ==
  /\ "spawn" \in Faults
  /\ At(c, "locking")
  /\ lock = None /\ service = 0 /\ launches < MaxLaunches
  /\ launches' = launches + 1
  /\ Fail(c, "other", "leaving")
  /\ UNCHANGED <<using, answer, turns, note, tokenVars, lock, service, closing, conn, stalled, paid, up, diskVars>>

\* A process is launched; the lock is held while it initializes.
Launch(c) ==
  /\ At(c, "locking")
  /\ lock = None /\ service = 0 /\ launches < MaxLaunches
  /\ launches' = launches + 1
  /\ conn' = Put(conn, launches', "open")
  /\ lock' = c
  /\ Goto(c, "spawning")
  /\ UNCHANGED <<err, using, answer, turns, note, tokenVars, service, closing, stalled, paid, up, diskVars>>

\* The handshake writes to the process, and no deadline covers a write.
CanWrite(p) == p \notin stalled \/ conn[p] \notin {"open", "deaf"}

Spawned(c) ==
  /\ At(c, "spawning")
  /\ conn[launches] = "open" /\ CanWrite(launches)
  /\ service' = launches
  /\ using' = Put(using, c, launches)
  /\ lock' = None
  /\ Goto(c, "account")
  /\ UNCHANGED <<err, answer, turns, note, tokenVars, closing, launches, conn, stalled, paid, up, diskVars>>

\* Mutant: the child is left alone.
SpawnFailsUnkilled(c) ==
  /\ At(c, "spawning") /\ CanWrite(launches)
  /\ "spawn" \in Faults \/ conn[launches] # "open"
  /\ lock' = None
  /\ Fail(c, "other", "leaving")
  /\ UNCHANGED <<using, answer, turns, note, tokenVars, service, closing, launches, conn, stalled, paid, up, diskVars>>

\* The handshake fails; the child is shut down and its launch stays counted.
SpawnFails(c) ==
  /\ At(c, "spawning") /\ CanWrite(launches)
  /\ "spawn" \in Faults \/ conn[launches] # "open"
  /\ conn' = Put(conn, launches, "closed")
  /\ stalled' = stalled \ {launches}
  /\ lock' = None
  /\ Fail(c, "other", "leaving")
  /\ UNCHANGED <<using, answer, turns, note, tokenVars, service, closing, launches, paid, up, diskVars>>

\* Mutant: the service is dropped without stopping the process.
InvalidateOnlyForgets(c) ==
  /\ At(c, "invalidating")
  /\ lock = None
  /\ service' = 0
  /\ Goto(c, "leaving")
  /\ UNCHANGED <<err, using, answer, turns, note, tokenVars, lock, closing, launches, conn, stalled, paid, up, diskVars>>

\* invalidate(): whatever service is cached now is taken ...
Invalidate(c) ==
  /\ At(c, "invalidating")
  /\ lock = None
  /\ service' = 0
  /\ IF service = 0
       THEN Goto(c, "leaving") /\ UNCHANGED <<lock, closing>>
       ELSE Goto(c, "shutting") /\ lock' = c /\ closing' = service
  /\ UNCHANGED <<err, using, answer, turns, note, tokenVars, launches, conn, stalled, paid, up, diskVars>>

\* The requests in the pending map of p are answered with ProcessExited; one
\* that is still being written finds the answer when its write has ended.
FailPending(p, states) ==
  answer' = [c \in Calls |->
    IF using[c] # p \/ answer[c] \notin states THEN answer[c]
    ELSE IF answer[c] = "writing" THEN "failing" ELSE "exited"]

\* ... and its process is killed, its pending requests failed.
ShutDown(c) ==
  /\ At(c, "shutting")
  /\ conn' = Put(conn, closing, "closed")
  /\ stalled' = stalled \ {closing}
  /\ FailPending(closing, {"writing", "awaited", "silent"})
  /\ paid' = {t \in paid : t[1] # closing}
  /\ closing' = 0 /\ lock' = None
  /\ Goto(c, "leaving")
  /\ UNCHANGED <<err, using, turns, note, tokenVars, service, launches, up, diskVars>>

-----------------------------------------------------------------------------
(* Requests                                                                *)

\* request_value: the sender is inserted into the pending map, and the message
\* is written.
Ask(c) ==
  /\ up /\ pc[c] \in Asking /\ answer[c] = "none"
  /\ answer' = Put(answer, c, "writing")
  /\ UNCHANGED <<pc, err, using, turns, note, tokenVars, runtimeVars, diskVars>>

\* write_message returns: not while the pipe is full, however long that lasts.
\* Writing to a dead process fails; writing to one nobody reads from succeeds.
\* The server starts working on a turn when it has read turn/start.
Send(c) ==
  /\ up /\ pc[c] \in Asking /\ answer[c] \in {"writing", "failing"}
  /\ CanWrite(using[c])
  /\ answer' = Put(answer, c,
       IF answer[c] = "failing" THEN "exited"
       ELSE CASE conn[using[c]] = "open" -> "awaited"
              [] conn[using[c]] = "deaf" -> "silent"
              [] OTHER -> "exited")
  /\ paid' = IF pc[c] = "turn" /\ conn[using[c]] # "closed"
               THEN paid \cup {<<using[c], c>>} ELSE paid
  /\ UNCHANGED <<pc, err, using, turns, note, tokenVars, lock, service, closing,
                 launches, conn, stalled, up, diskVars>>

\* Where a call goes on after a good answer.
NextStep(c) ==
  CASE pc[c] = "account" /\ c \in Reviews -> "recording"
    [] pc[c] = "account" /\ c \in Logins -> "opening"
    [] pc[c] = "account" -> "done"
    [] pc[c] = "abandoning" -> "leaving"
    [] pc[c] = "thread" -> "turn"
    [] pc[c] = "turn" -> "checking"
    [] OTHER -> "cleaning"

\* Where it goes on after the error e: an interrupt and the cancellation of a
\* login ignore their own.
FailRequest(c, e) ==
  \/ pc[c] = "account" /\ Fail(c, e, IF e \in Fatal THEN "invalidating" ELSE "leaving")
  \/ pc[c] = "interrupting" /\ Goto(c, "cleaning") /\ UNCHANGED err
  \/ pc[c] = "abandoning" /\ Goto(c, "leaving") /\ UNCHANGED err
  \/ pc[c] \in {"thread", "turn"} /\ Fail(c, e, "cleaning")

\* The answer arrives; an interrupted turn has stopped.
Answered(c) ==
  /\ up /\ pc[c] \in Asking /\ answer[c] = "awaited"
  /\ conn[using[c]] = "open"
  /\ answer' = Put(answer, c, "none")
  /\ Goto(c, NextStep(c))
  /\ paid' = IF pc[c] = "interrupting" THEN paid \ {<<using[c], c>>} ELSE paid
  /\ UNCHANGED <<err, using, turns, note, tokenVars, lock, service, closing, launches, conn, stalled, up, diskVars>>

\* The errors of a request that was answered: the server refuses it or the
\* account is not a ChatGPT one, or the answer is not what was asked for (no
\* such challenge, a login address off the list, fields that do not parse).  A
\* turn whose answer is not understood may run on.
Refusals == {"other", "protocol"}

Refused(c) ==
  /\ "server" \in Faults
  /\ up /\ pc[c] \in Asking /\ answer[c] = "awaited"
  /\ conn[using[c]] = "open"
  /\ answer' = Put(answer, c, "none")
  /\ \E e \in Refusals :
       /\ FailRequest(c, e)
       /\ \/ pc[c] = "turn" /\ paid' = paid \ {<<using[c], c>>}
          \/ (pc[c] # "turn" \/ e = "protocol") /\ paid' = paid
  /\ UNCHANGED <<using, turns, note, tokenVars, lock, service, closing, launches, conn, stalled, up, diskVars>>

\* The answer parses but holds nothing that can be shown (a percentage above
\* 100, a negative duration, another challenge): the command fails and the
\* connection is kept.
Unshowable(c) ==
  /\ "server" \in Faults
  /\ At(c, "account") /\ c \in Accounts /\ answer[c] = "awaited"
  /\ conn[using[c]] = "open"
  /\ answer' = Put(answer, c, "none")
  /\ Fail(c, "other", "leaving")
  /\ UNCHANGED <<using, turns, note, tokenVars, runtimeVars, diskVars>>

Exited(c) ==
  /\ up /\ pc[c] \in Asking /\ answer[c] = "exited"
  /\ answer' = Put(answer, c, "none")
  /\ FailRequest(c, "exited")
  /\ UNCHANGED <<using, turns, note, tokenVars, runtimeVars, diskVars>>

\* Mutant: a request that was written has no deadline either.
RequestTimesOutNever(c) == FALSE

\* The deadline of the request passes; the turn it started goes on.
RequestTimesOut(c) ==
  /\ up /\ pc[c] \in Asking
  /\ answer[c] = "silent" \/ (answer[c] = "awaited" /\ "timeout" \in Faults)
  /\ answer' = Put(answer, c, "none")
  /\ FailRequest(c, "timeout")
  /\ UNCHANGED <<using, turns, note, tokenVars, runtimeVars, diskVars>>

\* start_ai_login: the address of the challenge is opened; the user completes
\* the login there.
OpenBrowser(c) ==
  /\ At(c, "opening")
  /\ Goto(c, "done")
  /\ UNCHANGED <<err, using, answer, turns, note, tokenVars, runtimeVars, diskVars>>

\* No browser opens: the login is cancelled at the server, unless its
\* identifier is not one to send back.
BrowserFails(c) ==
  /\ "browser" \in Faults
  /\ At(c, "opening")
  /\ \/ Fail(c, "other", "abandoning")
     \/ "server" \in Faults /\ Fail(c, "other", "leaving")
  /\ UNCHANGED <<using, answer, turns, note, tokenVars, runtimeVars, diskVars>>

-----------------------------------------------------------------------------
(* The review                                                              *)

\* The analysis is saved as pending before anything is sent.
SavePending(r) ==
  /\ At(r, "recording")
  /\ \/ /\ row' = Put(row, r, "pending")
        /\ Goto(r, "sandboxing") /\ UNCHANGED err
     \/ /\ "storage" \in Faults
        /\ Fail(r, "other", "leaving") /\ UNCHANGED row
  /\ UNCHANGED <<using, answer, turns, note, tokenVars, runtimeVars, grounding, sandbox>>

\* The plan of the review has some number of turns.
MakeSandbox(r) ==
  /\ At(r, "sandboxing")
  /\ sandbox' = sandbox \cup {r}
  /\ \E n \in 1 .. MaxTurns : turns' = Put(turns, r, n)
  /\ Goto(r, "turning")
  /\ UNCHANGED <<err, using, answer, note, tokenVars, runtimeVars, row, grounding>>

\* No directory: the row is saved as failed, or that save fails too.
SandboxFails(r) ==
  /\ "storage" \in Faults
  /\ At(r, "sandboxing")
  /\ row' \in {Put(row, r, "failed"), row}
  /\ Fail(r, "other", "leaving")
  /\ UNCHANGED <<using, answer, turns, note, tokenVars, runtimeVars, grounding, sandbox>>

\* analyze(): the one look at the token, a look into the sandbox, which must be
\* there and empty, then subscribe.  An I/O error discards the connection, as
\* the exit of its process does.
BeginTurn(r) ==
  /\ At(r, "turning")
  /\ \/ r \in cancelled /\ Fail(r, "cancelled", "cleaning")
     \/ r \notin cancelled /\ Goto(r, "thread") /\ UNCHANGED err
     \/ /\ r \notin cancelled /\ "storage" \in Faults
        /\ \E e \in {"other", "exited"} : Fail(r, e, "cleaning")
  /\ UNCHANGED <<using, answer, turns, note, tokenVars, runtimeVars, diskVars>>

\* cancelled(): first look at the flag ...
CheckCancelled(r) ==
  /\ At(r, "checking")
  /\ IF r \in cancelled
       THEN Fail(r, "cancelled", "interrupting")
       ELSE Goto(r, "arming") /\ UNCHANGED err
  /\ UNCHANGED <<using, answer, turns, note, tokenVars, runtimeVars, diskVars>>

\* ... then register the waiter.
Arm(r) ==
  /\ At(r, "arming")
  /\ Goto(r, "waiting")
  /\ UNCHANGED <<err, using, answer, turns, note, tokenVars, runtimeVars, diskVars>>

\* Mutant: a cancelled turn is left running at the server.
WakeWithoutInterrupt(r) ==
  /\ At(r, "waiting") /\ r \in woken
  /\ Fail(r, "cancelled", "cleaning")
  /\ UNCHANGED <<using, answer, turns, note, tokenVars, runtimeVars, diskVars>>

Wake(r) ==
  /\ At(r, "waiting") /\ r \in woken
  /\ Fail(r, "cancelled", "interrupting")
  /\ UNCHANGED <<using, answer, turns, note, tokenVars, runtimeVars, diskVars>>

\* The completion of the turn is read and its output accepted ...
TurnCompleted(r) ==
  /\ At(r, "waiting") /\ r \in note
  /\ note' = note \ {r}
  /\ turns' = Put(turns, r, turns[r] - 1)
  /\ Goto(r, IF turns'[r] = 0 THEN "cleaning" ELSE "turning")
  /\ UNCHANGED <<err, using, answer, tokenVars, runtimeVars, diskVars>>

\* Mutant: the error of a turn ends the plan like a success.
TurnRejectedUnnoticed(r) ==
  /\ "output" \in Faults
  /\ At(r, "waiting") /\ r \in note
  /\ note' = note \ {r}
  /\ Goto(r, "cleaning")
  /\ UNCHANGED <<err, using, answer, turns, tokenVars, runtimeVars, diskVars>>

\* ... or it failed, or its output is unsafe, malformed or not grounded.
TurnRejected(r) ==
  /\ "output" \in Faults
  /\ At(r, "waiting") /\ r \in note
  /\ note' = note \ {r}
  /\ \E e \in Rejecting : Fail(r, e, "cleaning")
  /\ UNCHANGED <<using, answer, turns, tokenVars, runtimeVars, diskVars>>

\* The receiver lagged behind the notifications: a protocol error.
Lagged(r) ==
  /\ "output" \in Faults
  /\ At(r, "waiting") /\ conn[using[r]] = "open"
  /\ Fail(r, "protocol", "cleaning")
  /\ UNCHANGED <<using, answer, turns, note, tokenVars, runtimeVars, diskVars>>

\* Ten minutes pass.  A connection that is lost while a turn is awaited is
\* noticed here only: the notification channel outlives the reader.
TurnTimesOut(r) ==
  /\ At(r, "waiting")
  /\ "timeout" \in Faults \/ conn[using[r]] # "open"
  /\ Fail(r, "timeout", "interrupting")
  /\ UNCHANGED <<using, answer, turns, note, tokenVars, runtimeVars, diskVars>>

\* cleanup_ai_sandbox; its errors are ignored.
Clean(r) ==
  /\ At(r, "cleaning")
  /\ \/ sandbox' = sandbox \ {r}
     \/ "storage" \in Faults /\ UNCHANGED sandbox
  /\ Goto(r, "ending")
  /\ UNCHANGED <<err, using, answer, turns, note, tokenVars, runtimeVars, row, grounding>>

\* Mutant: a cancelled review is left as it was.
SaveOutcomeUnlessCancelled(r) ==
  /\ At(r, "ending")
  /\ row' = CASE err[r] = "none" -> Put(row, r, "completed")
              [] err[r] = "cancelled" -> row
              [] OTHER -> Put(row, r, "failed")
  /\ Goto(r, "leaving")
  /\ UNCHANGED <<err, using, answer, turns, note, tokenVars, runtimeVars, grounding, sandbox>>

\* The terminal row, then the connection is discarded if it failed.
SaveOutcome(r) ==
  /\ At(r, "ending")
  /\ IF err[r] = "none"
       THEN /\ row' = Put(row, r, "completed")
            /\ grounding' = Put(grounding, r, "validated")
       ELSE /\ row' = Put(row, r, "failed")
            /\ grounding' = IF err[r] \in Rejecting
                              THEN Put(grounding, r, "rejected") ELSE grounding
  /\ Goto(r, IF err[r] \in Fatal THEN "invalidating" ELSE "leaving")
  /\ UNCHANGED <<err, using, answer, turns, note, tokenVars, runtimeVars, sandbox>>

\* The save fails: the row stays pending and the connection is kept.
OutcomeFails(r) ==
  /\ "storage" \in Faults
  /\ At(r, "ending")
  /\ Goto(r, "leaving")
  /\ UNCHANGED <<err, using, answer, turns, note, tokenVars, runtimeVars, diskVars>>

\* The command returns and the guard of a review is dropped.
Release(c) ==
  /\ At(c, "leaving")
  /\ active' = IF c \in Reviews THEN Put(active, RunOf[c], None) ELSE active
  /\ Goto(c, "done")
  /\ UNCHANGED <<err, using, answer, turns, note, cancelled, woken, runtimeVars, diskVars>>

-----------------------------------------------------------------------------
(* The user, the app-server and the machine                                *)

\* cancel_ai_review: set the flag once and wake the waiters there are.
Cancel(i) ==
  /\ up /\ active[i] # None /\ active[i] \notin cancelled
  /\ cancelled' = cancelled \cup {active[i]}
  /\ woken' = IF pc[active[i]] = "waiting" THEN woken \cup {active[i]} ELSE woken
  /\ UNCHANGED <<callVars, active, runtimeVars, diskVars>>

\* The server finishes a turn; a reader delivers the notification to the
\* review that is subscribed on its connection.
ServerCompletes(t) ==
  /\ up /\ t \in paid
  /\ paid' = paid \ {t}
  /\ note' = IF conn[t[1]] = "open" /\ using[t[2]] = t[1] /\ pc[t[2]] \in Subscribed
               THEN note \cup {t[2]} ELSE note
  /\ UNCHANGED <<pc, err, using, answer, turns, tokenVars, lock, service, closing,
                 launches, conn, stalled, up, diskVars>>

\* The process exits; its reader sees the end of its output.
ProcessDies(p) ==
  /\ "exit" \in Faults
  /\ up /\ conn[p] \in {"open", "deaf"}
  /\ conn' = Put(conn, p, "closed")
  /\ stalled' = stalled \ {p}
  /\ IF conn[p] = "open" THEN FailPending(p, {"writing", "awaited"}) ELSE UNCHANGED answer
  /\ paid' = {t \in paid : t[1] # p}
  /\ UNCHANGED <<pc, err, using, turns, note, tokenVars, lock, service, closing,
                 launches, up, diskVars>>

\* The reader meets a line it cannot read and stops; the process goes on.
ReaderStops(p) ==
  /\ "malformed" \in Faults
  /\ up /\ conn[p] = "open"
  /\ conn' = Put(conn, p, "deaf")
  /\ FailPending(p, {"writing", "awaited"})
  /\ UNCHANGED <<pc, err, using, turns, note, tokenVars, lock, service, closing,
                 launches, stalled, paid, up, diskVars>>

\* The process stops reading its input, and the pipe fills up ...
ServerStalls(p) ==
  /\ "stall" \in Faults
  /\ up /\ conn[p] \in {"open", "deaf"} /\ p \notin stalled
  /\ stalled' = stalled \cup {p}
  /\ UNCHANGED <<callVars, tokenVars, lock, service, closing, launches, conn, paid, up, diskVars>>

\* ... until it reads again, if it ever does.
ServerResumes(p) ==
  /\ up /\ p \in stalled
  /\ stalled' = stalled \ {p}
  /\ UNCHANGED <<callVars, tokenVars, lock, service, closing, launches, conn, paid, up, diskVars>>

\* The application dies, and its app-server with it.
Crash ==
  /\ "crash" \in Faults
  /\ up
  /\ up' = FALSE
  /\ pc' = [c \in Calls |-> IF pc[c] \in Guarded THEN "gone" ELSE pc[c]]
  /\ using' = [c \in Calls |-> 0]
  /\ answer' = [c \in Calls |-> "none"]
  /\ note' = {} /\ woken' = {} /\ cancelled' = {}
  /\ active' = [i \in RunIds |-> None]
  /\ lock' = None /\ service' = 0 /\ closing' = 0 /\ launches' = 0
  /\ conn' = [p \in Connections |-> "none"]
  /\ stalled' = {} /\ paid' = {}
  /\ UNCHANGED <<err, turns, diskVars>>

\* The next launch touches neither pending rows nor sandboxes.
Boot ==
  /\ ~up
  /\ up' = TRUE
  /\ UNCHANGED <<callVars, tokenVars, lock, service, closing, launches, conn, stalled, paid, diskVars>>

\* The application takes its next step.
CallStep(c) ==
  \/ TakeService(c) \/ NoService(c) \/ LaunchRefused(c) \/ Launch(c)
  \/ Spawned(c) \/ SpawnFails(c) \/ OpenBrowser(c) \/ BrowserFails(c)
  \/ Invalidate(c) \/ ShutDown(c) \/ Ask(c) \/ Send(c) \/ Exited(c) \/ RequestTimesOut(c)
  \/ Release(c)

ReviewStep(r) ==
  \/ SavePending(r) \/ MakeSandbox(r) \/ SandboxFails(r) \/ BeginTurn(r)
  \/ CheckCancelled(r) \/ Arm(r) \/ Wake(r)
  \/ TurnCompleted(r) \/ TurnRejected(r) \/ Lagged(r) \/ TurnTimesOut(r)
  \/ Clean(r) \/ SaveOutcome(r) \/ OutcomeFails(r)

Next ==
  \/ \E c \in Calls : Refuse(c) \/ Disabled(c) \/ CallStep(c) \/ Answered(c) \/ Refused(c) \/ Unshowable(c)
  \/ \E r \in Reviews : Register(r) \/ ReviewStep(r)
  \/ \E c \in Accounts : Begin(c)
  \/ \E i \in RunIds : Cancel(i)
  \/ \E t \in paid : ServerCompletes(t)
  \/ \E p \in Connections :
       ProcessDies(p) \/ ReaderStops(p) \/ ServerStalls(p) \/ ServerResumes(p)
  \/ Crash \/ Boot

Spec == Init /\ [][Next]_vars

\* Tasks that can go on do, deadlines included.  The server owes nothing: no
\* answer and no completion is assumed, nor that it reads what is written.
FairSpec ==
  /\ Spec
  /\ \A c \in Calls : WF_vars(CallStep(c))
  /\ \A r \in Reviews : WF_vars(ReviewStep(r))

-----------------------------------------------------------------------------
(* Properties                                                              *)

Steps == {"idle"} \cup Guarded \cup Ended

\* The shape of every variable.
AiTypeOK ==
  /\ pc \in [Calls -> Steps] /\ err \in [Calls -> Errors]
  /\ using \in [Calls -> {0} \cup Connections]
  /\ answer \in [Calls -> {"none", "writing", "failing", "awaited", "silent", "exited"}]
  /\ turns \in [Reviews -> 0 .. MaxTurns]
  /\ note \subseteq Reviews /\ cancelled \subseteq Reviews /\ woken \subseteq cancelled
  /\ active \in [RunIds -> Reviews \cup {None}]
  /\ lock \in Calls \cup {None}
  /\ service \in {0} \cup Connections /\ closing \in {0} \cup Connections
  /\ launches \in {0} \cup Connections
  /\ conn \in [Connections -> {"none", "open", "deaf", "closed"}]
  /\ stalled \subseteq Connections /\ paid \subseteq Connections \X Reviews
  /\ up \in BOOLEAN
  /\ row \in [Reviews -> {"absent", "pending", "completed", "failed"}]
  /\ grounding \in [Reviews -> {"pending", "validated", "rejected"}]
  /\ sandbox \subseteq Reviews

\* One review of a run at a time, and the active map names it, so that
\* cancel_ai_review reaches the turn that is being paid for.
OneReviewPerRun ==
  /\ \A r, s \in Reviews :
       pc[r] \in Guarded /\ pc[s] \in Guarded /\ RunOf[r] = RunOf[s] => r = s
  /\ \A r \in Reviews : pc[r] \in Guarded => active[RunOf[r]] = r

\* At most one app-server process is alive, however launches, failures and
\* discards interleave.
AtMostOneProcess ==
  \A p, q \in Connections :
    conn[p] \in {"open", "deaf"} /\ conn[q] \in {"open", "deaf"} => p = q

\* A process is alive only while it is cached or someone holds the lock to
\* launch or stop it: none is leaked.
NoProcessLeaked ==
  \A p \in Connections :
    conn[p] \in {"open", "deaf"} => p = service \/ lock # None

\* Without a crash or a storage fault, a pending row belongs to a review in
\* flight, and a sandbox to one that may be using it.
PendingMeansInFlight ==
  /\ \A r \in Reviews : row[r] = "pending" => pc[r] \in Guarded
  /\ \A r \in sandbox : pc[r] \in Guarded

\* The server works on one turn of a run at a time (state.rs: "One paid AI
\* turn per deterministic run at a time").
OneTurnPerRun ==
  \A t, u \in paid : RunOf[t[2]] = RunOf[u[2]] => t = u

\* A turn the server works on has a review in flight that can interrupt it.
NoAbandonedTurn ==
  \A t \in paid : pc[t[2]] \in Guarded /\ active[RunOf[t[2]]] = t[2]

\* A review that awaits a turn and was cancelled has been woken
\* (CodexCancellationToken::cancel).
CancelWakes ==
  \A r \in Reviews : pc[r] = "waiting" /\ r \in cancelled => r \in woken

\* The connection that invalidate() discards is the one that failed
\* (codex.rs: "Discard a failed connection").
InvalidateSparesOthers ==
  [][\A c \in Calls :
       pc[c] = "invalidating" /\ pc'[c] = "shutting" => service = using[c]]_vars

\* A rejected or failed answer never becomes a completed review, and a
\* completed one had all its turns accepted.
CompletedIsGrounded ==
  \A r \in Reviews : row[r] = "completed" =>
    err[r] = "none" /\ turns[r] = 0 /\ grounding[r] = "validated"

\* Whatever the server does or fails to do, every command returns, on one
\* condition: from some time on its input is read.  The write of a request is
\* awaited before its deadline starts, so a server that stops reading holds
\* the command for ever, and while it is launched all of them.
EveryReviewReturns ==
  <>[](stalled = {}) =>
    \A c \in Calls : pc[c] \in Guarded ~> pc[c] \in Ended
=============================================================================
