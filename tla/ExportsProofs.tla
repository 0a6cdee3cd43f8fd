---------------------------- MODULE ExportsProofs ----------------------------
(***************************************************************************)
(* Exports for any number of runs, calls, identifiers, crashes and changed *)
(* files: every row keeps its report, and failures leave no directory.     *)
(***************************************************************************)
EXTENDS Exports, TLAPS

\* A call that holds an export, and one that holds none.
Full == [pc : Busy \cup {"done", "failed"}, id : Ids, run : Runs, kind : Kinds,
         language : Languages, commentary : 0 .. MaxReviews]
Light == [pc : {"idle", "done", "failed"}, id : {None}]

CallsOK == call \in [Calls -> Full \cup Light]

Working(c) == call[c].pc \in Busy

FilesOK == files \in [Ids -> {NoFile} \cup [state : {"partial", "whole", "changed"}, of : Reports]]

Typed ==
  /\ CallsOK /\ FilesOK
  /\ runDirs \subseteq Runs /\ dirs \subseteq Ids /\ used \subseteq Ids
  /\ rows \subseteq [id : Ids, run : Runs, sha : Reports]
  /\ reviews \in [Runs -> Seq(Languages \X BOOLEAN)]
  /\ \A r \in Runs : Len(reviews[r]) <= MaxReviews
  /\ crashes \in Nat

\* Identifiers are drawn once: a call at work shares its own with no row and
\* with no other call at work.
OwnIds ==
  /\ dirs \subseteq used
  /\ \A row \in rows : row.id \in used
  /\ \A c \in Calls : Working(c) => call[c].id \in used /\ \A row \in rows : row.id # call[c].id
  /\ \A c, d \in Calls : Working(c) /\ Working(d) /\ c # d => call[c].id # call[d].id

\* What is on the disk at each step of a call.
OnDisk(c) ==
  /\ call[c].pc \in {"checkRun", "makeRun", "makeDir"} => call[c].id \notin dirs
  /\ Working(c) /\ call[c].pc \notin {"checkRun", "makeRun"} => call[c].run \in runDirs
  /\ call[c].pc \in {"pick", "create", "fill", "verify", "record", "cleanup"} => call[c].id \in dirs
  /\ call[c].pc = "fill" => files[call[c].id] = [state |-> "partial", of |-> Content(c)]
  /\ call[c].pc \in {"verify", "record"} =>
       /\ files[call[c].id].state \in {"whole", "changed"}
       /\ files[call[c].id].of = Content(c)

AllOnDisk == \A c \in Calls : OnDisk(c)

ExportsInv == Typed /\ OwnIds /\ AllOnDisk /\ RecordsArePublished /\ FailureLeavesNothing

-----------------------------------------------------------------------------
\* A call at work that goes on keeps what it works on.
LEMMA MovesOn ==
  ASSUME CallsOK, NEW c \in Calls, Working(c),
         NEW to \in Busy \cup {"done", "failed"}, Goto(c, to)
  PROVE  /\ CallsOK'
         /\ call'[c].pc = to /\ call'[c].id = call[c].id /\ call'[c].run = call[c].run
         /\ Content(c)' = Content(c)
         /\ \A d \in Calls \ {c} : call'[d] = call[d]
<1>1. call[c] \in Full
  BY DEF CallsOK, Working, Light, Busy
<1>2. call' = [call EXCEPT ![c] = [call[c] EXCEPT !.pc = to]]
  BY DEF Goto
<1>3. [call[c] EXCEPT !.pc = to] \in Full
  BY <1>1 DEF Full
<1>4. call'[c] = [call[c] EXCEPT !.pc = to] /\ \A d \in Calls \ {c} : call'[d] = call[d]
  BY <1>2 DEF CallsOK
<1>5. CallsOK'
  BY <1>2, <1>3 DEF CallsOK
<1>6. /\ call'[c].pc = to /\ call'[c].id = call[c].id /\ call'[c].run = call[c].run
      /\ call'[c].kind = call[c].kind /\ call'[c].language = call[c].language
      /\ call'[c].commentary = call[c].commentary
  BY <1>1, <1>4 DEF Full
<1> QED BY <1>4, <1>5, <1>6 DEF Content

\* The report of a call at work is one.
LEMMA ContentIsReport ==
  ASSUME CallsOK, NEW c \in Calls, Working(c)
  PROVE  /\ call[c].id \in Ids /\ call[c].run \in Runs
         /\ Content(c) \in Reports /\ Content(c).run = call[c].run
<1>1. call[c] \in Full
  BY DEF CallsOK, Working, Light, Busy
<1> QED BY <1>1 DEF Full, Content, Reports

\* A call that holds no export leaves the others, and the disk, alone.
LEMMA LightStep ==
  ASSUME ExportsInv, NEW c \in Calls, call' = [call EXCEPT ![c] = call'[c]],
         call'[c] \in Full \cup Light, ~Working(c), ~Working(c)',
         UNCHANGED <<disk, rows, used, reviews, faults>>
  PROVE  ExportsInv'
<1>1. \A d \in Calls \ {c} : call'[d] = call[d]
  BY DEF ExportsInv, Typed, CallsOK
<1>2. Typed'
  BY DEF ExportsInv, Typed, CallsOK, FilesOK, disk, faults
<1>3. UNCHANGED <<runDirs, dirs, files, rows, used, crashes>>
  BY DEF disk, faults
<1>4. OwnIds'
  BY <1>1, <1>3 DEF ExportsInv, OwnIds, Working
<1>5. AllOnDisk'
  BY <1>1, <1>3 DEF ExportsInv, AllOnDisk, OnDisk, Working, Content, Busy
<1>6. RecordsArePublished'
  BY <1>3 DEF ExportsInv, RecordsArePublished
<1>7. FailureLeavesNothing'
  BY <1>1, <1>3 DEF ExportsInv, FailureLeavesNothing, Working
<1> QED BY <1>2, <1>4, <1>5, <1>6, <1>7 DEF ExportsInv

-----------------------------------------------------------------------------
\* A step of a call at work that touches nothing of the other calls and writes
\* no row keeps the invariant, when it finds on the disk what its next step
\* needs, and its directory is gone if it has none.
LEMMA WorkStep ==
  ASSUME ExportsInv, Typed', NEW c \in Calls, Working(c),
         call'[c].id = call[c].id, call'[c].pc # "idle",
         \A d \in Calls \ {c} : call'[d] = call[d],
         UNCHANGED <<rows, used, crashes>>,
         runDirs \subseteq runDirs',
         \A j \in Ids : j # call[c].id => (j \in dirs' <=> j \in dirs) /\ files'[j] = files[j],
         OnDisk(c)',
         ~Working(c)' => call[c].id \notin dirs'
  PROVE  ExportsInv'
<1>1. call[c].id \in Ids /\ call[c].id \in used /\ \A row \in rows : row.id # call[c].id
  BY ContentIsReport DEF ExportsInv, Typed, OwnIds
<1>2. \A d \in Calls \ {c} : Working(d) => call[d].id \in Ids /\ call[d].id # call[c].id
  BY ContentIsReport DEF ExportsInv, Typed, OwnIds
<1>3. OwnIds'
  <2>1. dirs' \subseteq used'
    BY <1>1 DEF ExportsInv, Typed, OwnIds
  <2> QED BY <1>1, <2>1 DEF ExportsInv, OwnIds, Working
<1>4. AllOnDisk'
  <2>1. ASSUME NEW d \in Calls \ {c} PROVE OnDisk(d)'
    <3>1. OnDisk(d) /\ call'[d] = call[d]
      BY DEF ExportsInv, AllOnDisk
    <3>2. Content(d)' = Content(d) /\ Working(d)' = Working(d)
      BY <3>1 DEF Content, Working
    <3>3. CASE Working(d)
      BY <1>2, <3>1, <3>2, <3>3 DEF OnDisk
    <3>4. CASE ~Working(d)
      BY <3>1, <3>2, <3>4 DEF OnDisk, Working, Busy
    <3> QED BY <3>3, <3>4
  <2> QED BY <2>1 DEF AllOnDisk
<1>5. RecordsArePublished'
  BY <1>1 DEF ExportsInv, Typed, RecordsArePublished
<1>6. FailureLeavesNothing'
  <2> SUFFICES ASSUME crashes = 0, NEW j \in dirs', \A row \in rows : row.id # j
               PROVE  \E d \in Calls : call'[d].id = j /\ call'[d].pc \in Busy
    BY DEF FailureLeavesNothing
  <2>1. CASE j = call[c].id
    BY <2>1 DEF Working
  <2>2. CASE j # call[c].id
    <3>1. j \in dirs
      BY <2>2 DEF Typed
    <3>2. PICK d \in Calls : call[d].id = j /\ call[d].pc \in Busy
      BY <3>1 DEF ExportsInv, FailureLeavesNothing
    <3> QED BY <2>2, <3>2
  <2> QED BY <2>1, <2>2
<1> QED BY <1>3, <1>4, <1>5, <1>6 DEF ExportsInv

\* Steps that make directories, or find them made.
LEMMA DirectoryStep ==
  ASSUME ExportsInv, NEW c \in Calls, CheckRunDir(c) \/ MakeRunDir(c) \/ MakeExportDir(c)
  PROVE  ExportsInv'
<1> USE DEF Busy
<1>1. Working(c) /\ UNCHANGED <<files, rows, used, reviews, crashes>>
  BY DEF CheckRunDir, MakeRunDir, MakeExportDir, At, Working, disk, faults
<1>2. call[c].id \in Ids /\ call[c].run \in Runs
  BY <1>1, ContentIsReport DEF ExportsInv, Typed
<1>3. OnDisk(c) /\ call[c].pc \in {"checkRun", "makeRun", "makeDir"}
  BY DEF ExportsInv, AllOnDisk, CheckRunDir, MakeRunDir, MakeExportDir, At
<1>4. ASSUME NEW to \in {"makeRun", "makeDir", "pick", "failed"}, Goto(c, to),
             runDirs \subseteq runDirs', runDirs' \subseteq Runs,
             to # "makeRun" /\ to # "failed" => call[c].run \in runDirs',
             dirs' = IF to = "pick" THEN dirs \cup {call[c].id} ELSE dirs
      PROVE  ExportsInv'
  <2>1. /\ CallsOK' /\ call'[c].pc = to /\ call'[c].id = call[c].id
        /\ call'[c].run = call[c].run /\ Content(c)' = Content(c)
        /\ \A d \in Calls \ {c} : call'[d] = call[d]
    BY <1>1, <1>4, MovesOn DEF ExportsInv, Typed
  <2>2. Typed'
    BY <1>1, <1>2, <1>4, <2>1 DEF ExportsInv, Typed, FilesOK
  <2>3. OnDisk(c)'
    BY <1>3, <1>4, <2>1 DEF OnDisk, Working
  <2>4. call[c].id \notin dirs
    BY <1>3 DEF OnDisk
  <2> QED BY <1>1, <1>4, <2>1, <2>2, <2>3, <2>4, WorkStep DEF Working
<1>5. CASE CheckRunDir(c)
  BY <1>4, <1>5 DEF CheckRunDir, disk, ExportsInv, Typed
<1>6. CASE MakeRunDir(c)
  BY <1>2, <1>4, <1>6 DEF MakeRunDir, ExportsInv, Typed
<1>7. CASE MakeExportDir(c)
  <2>1. call[c].run \in runDirs
    BY <1>1, <1>3, <1>7 DEF OnDisk, MakeExportDir, At
  <2> QED BY <1>4, <1>7, <2>1 DEF MakeExportDir, ExportsInv, Typed
<1> QED BY <1>5, <1>6, <1>7

\* Steps that write the report, look at it or take it back.
LEMMA FileStep ==
  ASSUME ExportsInv, NEW c \in Calls, CreateFile(c) \/ FillFile(c) \/ Verify(c) \/ Cleanup(c)
  PROVE  ExportsInv'
<1> USE DEF Busy
<1>1. Working(c) /\ UNCHANGED <<runDirs, rows, used, reviews, crashes>>
  BY DEF CreateFile, FillFile, Verify, Cleanup, At, Working, disk, faults
<1>2. call[c].id \in Ids /\ Content(c) \in Reports
  BY <1>1, ContentIsReport DEF ExportsInv, Typed
<1>3. /\ OnDisk(c) /\ call[c].id \in dirs /\ call[c].run \in runDirs
      /\ call[c].pc \in {"create", "fill", "verify", "cleanup"}
  BY <1>1 DEF ExportsInv, AllOnDisk, OnDisk, CreateFile, FillFile, Verify, Cleanup, At, Working
<1>4. ASSUME NEW to \in {"fill", "verify", "record", "cleanup", "failed"}, Goto(c, to),
             dirs' = IF to = "failed" THEN dirs \ {call[c].id} ELSE dirs,
             NEW file \in {NoFile} \cup [state : {"partial", "whole", "changed"}, of : Reports],
             files' = [files EXCEPT ![call[c].id] = file],
             to = "fill" => file = [state |-> "partial", of |-> Content(c)],
             to \in {"verify", "record"} => file.state \in {"whole", "changed"} /\ file.of = Content(c)
      PROVE  ExportsInv'
  <2>1. /\ CallsOK' /\ call'[c].pc = to /\ call'[c].id = call[c].id
        /\ call'[c].run = call[c].run /\ Content(c)' = Content(c)
        /\ \A d \in Calls \ {c} : call'[d] = call[d]
    BY <1>1, <1>4, MovesOn DEF ExportsInv, Typed
  <2>2. FilesOK' /\ files'[call[c].id] = file /\ \A j \in Ids : j # call[c].id => files'[j] = files[j]
    BY <1>2, <1>4 DEF ExportsInv, Typed, FilesOK
  <2>3. Typed'
    BY <1>1, <1>4, <2>1, <2>2 DEF ExportsInv, Typed
  <2>4. OnDisk(c)'
    BY <1>1, <1>3, <1>4, <2>1, <2>2 DEF OnDisk, Working
  <2> QED BY <1>1, <1>4, <2>1, <2>2, <2>3, <2>4, WorkStep DEF Working
<1>5. CASE CreateFile(c)
  <2>1. CASE Goto(c, "cleanup") /\ UNCHANGED files
    <3>1. files' = [files EXCEPT ![call[c].id] = files[call[c].id]]
      BY <1>2, <2>1 DEF ExportsInv, Typed, FilesOK
    <3>2. files[call[c].id] \in {NoFile} \cup [state : {"partial", "whole", "changed"}, of : Reports]
      BY <1>2 DEF ExportsInv, Typed, FilesOK
    <3>3. dirs' = dirs
      BY <1>5 DEF CreateFile
    <3> QED BY <1>4, <2>1, <3>1, <3>2, <3>3
  <2>2. CASE Goto(c, "fill") /\ files' = [files EXCEPT ![call[c].id] = [state |-> "partial", of |-> Content(c)]]
    BY <1>2, <1>4, <1>5, <2>2 DEF CreateFile
  <2> QED BY <1>5, <2>1, <2>2 DEF CreateFile
<1>6. CASE FillFile(c)
  <2>1. CASE Goto(c, "cleanup") /\ files' = [files EXCEPT ![call[c].id] = NoFile]
    BY <1>4, <1>6, <2>1 DEF FillFile
  <2>2. CASE Goto(c, "verify") /\ files' = [files EXCEPT ![call[c].id].state = "whole"]
    <3>1. files[call[c].id] = [state |-> "partial", of |-> Content(c)]
      BY <1>3, <1>6 DEF OnDisk, FillFile, At
    <3>2. files' = [files EXCEPT ![call[c].id] = [state |-> "whole", of |-> Content(c)]]
      <4>1. files' = [files EXCEPT ![call[c].id] = [files[call[c].id] EXCEPT !.state = "whole"]]
        BY <2>2
      <4>2. [[state |-> "partial", of |-> Content(c)] EXCEPT !.state = "whole"]
              = [state |-> "whole", of |-> Content(c)]
        OBVIOUS
      <4> QED BY <3>1, <4>1, <4>2
    <3> QED BY <1>2, <1>4, <1>6, <2>2, <3>2 DEF FillFile
  <2> QED BY <1>6, <2>1, <2>2 DEF FillFile
<1>7. CASE Verify(c)
  <2> DEFINE file == files[call[c].id]
  <2>1. files' = [files EXCEPT ![call[c].id] = file] /\ dirs' = dirs
    BY <1>2, <1>7 DEF Verify, disk, ExportsInv, Typed, FilesOK
  <2>2. file \in {NoFile} \cup [state : {"partial", "whole", "changed"}, of : Reports]
    BY <1>2 DEF ExportsInv, Typed, FilesOK
  <2>3. file.state \in {"whole", "changed"} /\ file.of = Content(c)
    BY <1>3, <1>7 DEF OnDisk, Verify, At
  <2>4. Goto(c, "record") \/ Goto(c, "cleanup")
    BY <1>7 DEF Verify
  <2> QED BY <1>4, <2>1, <2>2, <2>3, <2>4
<1>8. CASE Cleanup(c)
  BY <1>4, <1>8 DEF Cleanup
<1> QED BY <1>5, <1>6, <1>7, <1>8

\* The commentary is one of the analyses of the run, or none.
LEMMA PickStep ==
  ASSUME ExportsInv, NEW c \in Calls, PickCommentary(c) PROVE ExportsInv'
<1> USE DEF Busy
<1>1. Working(c) /\ UNCHANGED <<runDirs, dirs, files, rows, used, reviews, crashes>>
  BY DEF PickCommentary, At, Working, disk, faults
<1>2. call[c] \in Full
  BY <1>1 DEF ExportsInv, Typed, CallsOK, Working, Light
<1>3. PICK n \in 0 .. MaxReviews : call' = [call EXCEPT ![c].pc = "create", ![c].commentary = n]
  <2>1. call[c].run \in Runs
    BY <1>2 DEF Full
  <2>2. /\ reviews[call[c].run] \in Seq(Languages \X BOOLEAN)
        /\ Len(reviews[call[c].run]) <= MaxReviews
    BY <2>1 DEF ExportsInv, Typed
  <2>3. DOMAIN reviews[call[c].run] \subseteq 0 .. MaxReviews /\ 0 \in 0 .. MaxReviews
    BY <2>2, ExportsAssumption
  <2> QED BY <2>3 DEF PickCommentary
<1>4. call' = [call EXCEPT ![c] = [call[c] EXCEPT !.pc = "create", !.commentary = n]]
  BY <1>2, <1>3 DEF ExportsInv, Typed, CallsOK, Full
<1>5. [call[c] EXCEPT !.pc = "create", !.commentary = n] \in Full
  BY <1>2, <1>3 DEF Full
<1>6. /\ call'[c] = [call[c] EXCEPT !.pc = "create", !.commentary = n]
      /\ \A d \in Calls \ {c} : call'[d] = call[d]
  BY <1>4 DEF ExportsInv, Typed, CallsOK
<1>7. call'[c].pc = "create" /\ call'[c].id = call[c].id /\ call'[c].run = call[c].run
  BY <1>2, <1>6 DEF Full
<1>8. Typed'
  BY <1>1, <1>4, <1>5 DEF ExportsInv, Typed, CallsOK, FilesOK
<1>9. OnDisk(c)'
  BY <1>1, <1>7 DEF ExportsInv, AllOnDisk, OnDisk, Working, PickCommentary, At
<1> QED BY <1>1, <1>6, <1>7, <1>8, <1>9, WorkStep DEF Working

\* The row names a report that is whole, or was when it was looked at.
LEMMA RecordStep ==
  ASSUME ExportsInv, NEW c \in Calls, Record(c) PROVE ExportsInv'
<1> USE DEF Busy
<1>1. Working(c) /\ UNCHANGED <<runDirs, dirs, files, used, reviews, crashes>>
  BY DEF Record, At, Working, disk, faults
<1>2. /\ call[c].id \in Ids /\ call[c].run \in Runs
      /\ Content(c) \in Reports /\ Content(c).run = call[c].run
  BY <1>1, ContentIsReport DEF ExportsInv, Typed
<1>3. OnDisk(c) /\ call[c].pc = "record"
  BY DEF ExportsInv, AllOnDisk, Record, At
<1>4. CASE Goto(c, "cleanup") /\ UNCHANGED rows
  <2>1. /\ CallsOK' /\ call'[c].pc = "cleanup" /\ call'[c].id = call[c].id
        /\ call'[c].run = call[c].run /\ \A d \in Calls \ {c} : call'[d] = call[d]
    BY <1>1, <1>4, MovesOn DEF ExportsInv, Typed
  <2>2. Typed'
    BY <1>1, <1>4, <2>1 DEF ExportsInv, Typed, FilesOK
  <2>3. OnDisk(c)'
    BY <1>1, <1>3, <2>1 DEF OnDisk, Working
  <2> QED BY <1>1, <1>4, <2>1, <2>2, <2>3, WorkStep DEF Working
<1>5. CASE /\ Goto(c, "done")
           /\ rows' = rows \cup {[id |-> call[c].id, run |-> call[c].run, sha |-> Content(c)]}
  <2> DEFINE row == [id |-> call[c].id, run |-> call[c].run, sha |-> Content(c)]
  <2>1. /\ CallsOK' /\ call'[c].pc = "done" /\ call'[c].id = call[c].id
        /\ \A d \in Calls \ {c} : call'[d] = call[d]
    BY <1>1, <1>5, MovesOn DEF ExportsInv, Typed
  <2>2. rows' = rows \cup {row} /\ row \in [id : Ids, run : Runs, sha : Reports]
    BY <1>2, <1>5
  <2>3. Typed'
    BY <1>1, <2>1, <2>2 DEF ExportsInv, Typed, FilesOK
  <2>4. OwnIds'
    <3>1. call[c].id \in used /\ \A d \in Calls \ {c} : Working(d) => call[d].id # call[c].id
      BY <1>1 DEF ExportsInv, OwnIds
    <3> QED BY <1>1, <2>1, <2>2, <3>1 DEF ExportsInv, OwnIds, Working
  <2>5. AllOnDisk'
    <3>1. ASSUME NEW d \in Calls \ {c} PROVE OnDisk(d)'
      BY <1>1, <2>1 DEF ExportsInv, AllOnDisk, OnDisk, Working, Content
    <3>2. OnDisk(c)'
      BY <2>1 DEF OnDisk, Working
    <3> QED BY <3>1, <3>2 DEF AllOnDisk
  <2>6. RecordsArePublished'
    <3>1. /\ row.run \in runDirs /\ row.id \in dirs
          /\ files[row.id].state \in {"whole", "changed"} /\ files[row.id].of = row.sha
          /\ row.sha.run = row.run
      BY <1>1, <1>2, <1>3 DEF OnDisk
    <3> QED BY <1>1, <2>2, <3>1 DEF ExportsInv, RecordsArePublished
  <2>7. FailureLeavesNothing'
    <3> SUFFICES ASSUME crashes = 0, NEW j \in dirs
                 PROVE  \/ \E w \in rows' : w.id = j
                        \/ \E d \in Calls : call'[d].id = j /\ call'[d].pc \in Busy
      BY <1>1 DEF FailureLeavesNothing
    <3>1. CASE j = call[c].id
      <4>1. row \in rows' /\ row.id = j
        BY <2>2, <3>1
      <4> QED BY <4>1
    <3>2. CASE j # call[c].id
      BY <2>1, <2>2, <3>2 DEF ExportsInv, FailureLeavesNothing
    <3> QED BY <3>1, <3>2
  <2> QED BY <2>3, <2>4, <2>5, <2>6, <2>7 DEF ExportsInv
<1> QED BY <1>4, <1>5 DEF Record, RowOf

\* An export begins with an identifier that nothing has.
LEMMA BeginStep ==
  ASSUME ExportsInv, NEW c \in Calls, NEW r \in Runs, NEW k \in Kinds, NEW l \in Languages,
         Begin(c, r, k, l)
  PROVE  ExportsInv'
<1> USE DEF Busy
<1>1. call[c] \in Light /\ call[c].pc = "idle" /\ ~Working(c)
  BY DEF Begin, At, ExportsInv, Typed, CallsOK, Full, Working
<1>2. UNCHANGED <<runDirs, dirs, files, rows, reviews, crashes, changes>>
  BY DEF Begin, disk, faults
<1>3. CASE Goto(c, "failed") /\ UNCHANGED used
  <2>1. call' = [call EXCEPT ![c] = [call[c] EXCEPT !.pc = "failed"]]
    BY <1>3 DEF Goto
  <2>2. call'[c] = [call[c] EXCEPT !.pc = "failed"]
    BY <2>1 DEF ExportsInv, Typed, CallsOK
  <2>3. call'[c] \in Light /\ call'[c].pc = "failed"
    BY <1>1, <2>2 DEF Light
  <2> QED BY <1>1, <1>2, <1>3, <2>1, <2>2, <2>3, LightStep DEF Working, disk, faults
<1>4. ASSUME NEW i \in Ids \ used, used' = used \cup {i},
             call' = [call EXCEPT ![c] = [pc |-> "checkRun", id |-> i, run |-> r, kind |-> k,
                                          language |-> l, commentary |-> 0]]
      PROVE  ExportsInv'
  <2> DEFINE new == [pc |-> "checkRun", id |-> i, run |-> r, kind |-> k,
                     language |-> l, commentary |-> 0]
  <2>1. new \in Full
    BY ExportsAssumption DEF Full
  <2>2. CallsOK' /\ call'[c] = new /\ \A d \in Calls \ {c} : call'[d] = call[d]
    BY <1>4, <2>1 DEF ExportsInv, Typed, CallsOK
  <2>3. call'[c].pc = "checkRun" /\ call'[c].id = i
    BY <2>2
  <2>4. Typed'
    BY <1>2, <1>4, <2>2 DEF ExportsInv, Typed, FilesOK
  <2>5. OwnIds'
    <3>1. i \notin dirs /\ \A row \in rows : row.id # i
      BY <1>4 DEF ExportsInv, OwnIds
    <3>2. \A d \in Calls \ {c} : Working(d) => call[d].id # i
      BY <1>4 DEF ExportsInv, OwnIds
    <3> QED BY <1>2, <1>4, <2>2, <2>3, <3>1, <3>2 DEF ExportsInv, OwnIds, Working
  <2>6. AllOnDisk'
    <3>1. ASSUME NEW d \in Calls \ {c} PROVE OnDisk(d)'
      BY <1>2, <2>2 DEF ExportsInv, AllOnDisk, OnDisk, Working, Content
    <3>2. OnDisk(c)'
      BY <1>2, <1>4, <2>3 DEF ExportsInv, OwnIds, OnDisk, Working
    <3> QED BY <3>1, <3>2 DEF AllOnDisk
  <2>7. RecordsArePublished'
    BY <1>2 DEF ExportsInv, RecordsArePublished
  <2>8. FailureLeavesNothing'
    BY <1>1, <1>2, <2>2 DEF ExportsInv, FailureLeavesNothing, Working
  <2> QED BY <2>4, <2>5, <2>6, <2>7, <2>8 DEF ExportsInv
<1> QED BY <1>3, <1>4 DEF Begin

\* A call that holds nothing looks at a report, or returns.
LEMMA RestingStep ==
  ASSUME ExportsInv, NEW c \in Calls, Return(c) \/ \E r \in Runs, i \in Ids : Reveal(c, r, i)
  PROVE  ExportsInv'
<1> USE DEF Busy
<1>1. ~Working(c) /\ UNCHANGED <<disk, rows, used, reviews, faults>>
  BY DEF Return, Reveal, At, Working
<1>2. CASE Return(c)
  <2>1. call'[c] = Idle
    BY <1>2 DEF Return, ExportsInv, Typed, CallsOK
  <2>2. Idle \in Light /\ Idle.pc = "idle"
    BY DEF Idle, Light
  <2>3. call' = [call EXCEPT ![c] = call'[c]]
    BY <1>2, <2>1 DEF Return
  <2> QED BY <1>1, <2>1, <2>2, <2>3, LightStep DEF Working
<1>3. ASSUME NEW to \in {"done", "failed"}, At(c, "idle"), Goto(c, to) PROVE ExportsInv'
  <2>1. call[c] \in Light
    BY <1>3 DEF At, ExportsInv, Typed, CallsOK, Full
  <2>2. call' = [call EXCEPT ![c] = [call[c] EXCEPT !.pc = to]]
    BY <1>3 DEF Goto
  <2>3. call'[c] = [call[c] EXCEPT !.pc = to]
    BY <2>2 DEF ExportsInv, Typed, CallsOK
  <2>4. call'[c] \in Light /\ call'[c].pc = to
    BY <2>1, <2>3 DEF Light
  <2> QED BY <1>1, <2>2, <2>3, <2>4, LightStep DEF Working
<1> QED BY <1>2, <1>3 DEF Reveal, RevealPath

\* What the environment does.
LEMMA EnvironmentStep ==
  ASSUME ExportsInv,
         \/ \E r \in Runs, l \in Languages, usable \in BOOLEAN : ReviewCompletes(r, l, usable)
         \/ \E i \in Ids : ChangeFile(i)
         \/ Crash
         \/ UNCHANGED vars
  PROVE  ExportsInv'
<1> USE DEF Busy
<1>1. ASSUME NEW r \in Runs, NEW l \in Languages, NEW usable \in BOOLEAN, ReviewCompletes(r, l, usable)
      PROVE  ExportsInv'
  <2>1. UNCHANGED <<runDirs, dirs, files, rows, used, call, crashes>>
    BY <1>1 DEF ReviewCompletes, disk, faults
  <2>2. /\ reviews[r] \in Seq(Languages \X BOOLEAN) /\ <<l, usable>> \in Languages \X BOOLEAN
        /\ Len(reviews[r]) < MaxReviews
    BY <1>1 DEF ReviewCompletes, ExportsInv, Typed
  <2>3. /\ Append(reviews[r], <<l, usable>>) \in Seq(Languages \X BOOLEAN)
        /\ Len(Append(reviews[r], <<l, usable>>)) <= MaxReviews
    BY <2>2, ExportsAssumption
  <2>4. Typed'
    BY <1>1, <2>1, <2>3 DEF ReviewCompletes, ExportsInv, Typed, CallsOK, FilesOK
  <2> QED BY <2>1, <2>4
       DEF ExportsInv, OwnIds, AllOnDisk, OnDisk, Working, Content, RecordsArePublished,
           FailureLeavesNothing
<1>2. ASSUME NEW i \in Ids, ChangeFile(i) PROVE ExportsInv'
  <2>1. UNCHANGED <<runDirs, dirs, rows, used, reviews, call, crashes>>
    BY <1>2 DEF ChangeFile
  <2>2. files[i] \in [state : {"partial", "whole", "changed"}, of : Reports] /\ files[i].state = "whole"
    BY <1>2 DEF ChangeFile, ExportsInv, Typed, FilesOK, NoFile
  <2>3. files' = [files EXCEPT ![i] = [files[i] EXCEPT !.state = "changed"]]
    BY <1>2 DEF ChangeFile
  <2>4. /\ files'[i] \in [state : {"partial", "whole", "changed"}, of : Reports]
        /\ files'[i].state = "changed" /\ files'[i].of = files[i].of
        /\ \A j \in Ids : j # i => files'[j] = files[j]
    BY <2>2, <2>3 DEF ExportsInv, Typed, FilesOK
  <2>5. Typed'
    BY <2>1, <2>3, <2>4 DEF ExportsInv, Typed, CallsOK, FilesOK
  <2>6. OwnIds' /\ FailureLeavesNothing'
    BY <2>1 DEF ExportsInv, OwnIds, Working, FailureLeavesNothing
  <2>7. AllOnDisk'
    <3> SUFFICES ASSUME NEW d \in Calls PROVE OnDisk(d)'
      BY DEF AllOnDisk
    <3>1. OnDisk(d) /\ Content(d)' = Content(d)
      BY <2>1 DEF ExportsInv, AllOnDisk, Content
    <3>2. Working(d) => call[d].id \in Ids
      BY ContentIsReport DEF ExportsInv, Typed
    <3>3. call[d].pc = "fill" => call[d].id # i
      BY <2>2, <3>1 DEF OnDisk
    <3> QED BY <2>1, <2>2, <2>4, <3>1, <3>2, <3>3 DEF OnDisk, Working
  <2>8. RecordsArePublished'
    BY <2>1, <2>2, <2>4 DEF ExportsInv, Typed, RecordsArePublished
  <2> QED BY <2>5, <2>6, <2>7, <2>8 DEF ExportsInv
<1>3. CASE Crash
  <2>1. UNCHANGED <<runDirs, dirs, files, rows, used, reviews>> /\ crashes' = crashes + 1
    BY <1>3 DEF Crash, disk
  <2>2. Idle \in Light /\ Idle.pc = "idle"
    BY DEF Idle, Light
  <2>3. \A c \in Calls : call'[c] = Idle
    BY <1>3 DEF Crash
  <2>4. CallsOK'
    BY <1>3, <2>2 DEF Crash, CallsOK
  <2>5. Typed'
    BY <2>1, <2>4 DEF ExportsInv, Typed, FilesOK
  <2>6. OwnIds'
    BY <2>1, <2>2, <2>3 DEF ExportsInv, OwnIds, Working
  <2>7. AllOnDisk'
    BY <2>2, <2>3 DEF AllOnDisk, OnDisk, Working
  <2>8. RecordsArePublished' /\ FailureLeavesNothing'
    BY <2>1 DEF ExportsInv, Typed, RecordsArePublished, FailureLeavesNothing
  <2> QED BY <2>5, <2>6, <2>7, <2>8 DEF ExportsInv
<1>4. CASE UNCHANGED vars
  BY <1>4
  DEF vars, disk, faults, ExportsInv, Typed, CallsOK, FilesOK, OwnIds, AllOnDisk, OnDisk,
      Working, Content, RecordsArePublished, FailureLeavesNothing
<1> QED BY <1>1, <1>2, <1>3, <1>4

-----------------------------------------------------------------------------
\* The invariant holds in every execution.
LEMMA ExportsInvAlways == Spec => []ExportsInv
<1>1. Init => ExportsInv
  <2> SUFFICES ASSUME Init PROVE ExportsInv
    OBVIOUS
  <2>1. Idle \in Light /\ Idle.pc = "idle" /\ \A c \in Calls : call[c] = Idle
    BY DEF Init, Idle, Light
  <2>2. Typed
    BY <2>1, ExportsAssumption DEF Init, Typed, CallsOK, FilesOK
  <2>3. OwnIds /\ AllOnDisk
    BY <2>1 DEF Init, OwnIds, AllOnDisk, OnDisk, Working, Busy
  <2>4. RecordsArePublished /\ FailureLeavesNothing
    BY DEF Init, RecordsArePublished, FailureLeavesNothing
  <2> QED BY <2>2, <2>3, <2>4 DEF ExportsInv
<1>2. ExportsInv /\ [Next]_vars => ExportsInv'
  <2> SUFFICES ASSUME ExportsInv, [Next]_vars PROVE ExportsInv'
    OBVIOUS
  <2> QED BY DirectoryStep, FileStep, PickStep, RecordStep, BeginStep, RestingStep, EnvironmentStep
       DEF Next, Step, Rest
<1> QED BY <1>1, <1>2, PTL DEF Spec

\* Every row of the exports table has its report, in its place and with the
\* recorded content, for any number of concurrent exports, crashes, failures
\* and clean-ups.
THEOREM RecordsArePublishedAlways == Spec => []RecordsArePublished
<1>1. ExportsInv => RecordsArePublished
  BY DEF ExportsInv
<1> QED BY <1>1, ExportsInvAlways, PTL

\* As long as the process lives, a directory without a row belongs to an
\* export under way.
THEOREM FailureLeavesNothingAlways == Spec => []FailureLeavesNothing
<1>1. ExportsInv => FailureLeavesNothing
  BY DEF ExportsInv
<1> QED BY <1>1, ExportsInvAlways, PTL

=============================================================================
