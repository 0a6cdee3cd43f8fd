----------------------------- MODULE Inspection -----------------------------
(***************************************************************************)
(* Runs of the BOQ inspector over one source revision, one after the other:*)
(* the request is validated, the file is read (SheetReader), its tables    *)
(* are detected and the rules applied (BoqDetection, BoqRules), and the    *)
(* host saves the findings in one transaction whose table has the finding  *)
(* identifiers as primary keys.  A run may be cancelled at any time.       *)
(***************************************************************************)
EXTENDS SheetReader, Reports

CONSTANTS
  Runs,      \* the runs started on the revision, numbered from 1
  Requests   \* the inputs and settings they may be started with

ASSUME RunsAssumption == Runs \subseteq Nat /\ 1 \in Runs

\* A cell holds a number in thousandths, or a text of finitely many words.
ASSUME ValuesAssumption ==
  \A r \in Records :
    /\ r.v.k = "num" => r.v.n \in Int
    /\ r.v.k = "text" => r.v.t \in Seq(ToSet(r.v.t))

VARIABLES
  run,       \* the number of the current run
  request,   \* its request
  phase,     \* what the run does: "idle", then the steps of run_typed
  found,     \* DetectionOutput: the tables and their rows
  findings,  \* RuleOutput.findings
  status,    \* analysis_runs: run -> status column
  stored     \* findings: <<finding id, run>>; the id is the primary key

engineVars == <<run, request, phase, found, findings, status, stored>>
vars == <<readerVars, engineVars>>

Nothing == [tables |-> <<>>, rows |-> <<>>]

InspectionInit ==
  /\ Init
  /\ run = 1
  /\ request = None
  /\ phase = "idle"
  /\ found = Nothing /\ findings = <<>>
  /\ status = [r \in Runs |-> "absent"]
  /\ stored = {}

-----------------------------------------------------------------------------
(* validate_input and validate_settings *)
ValidRequest(q) ==
  /\ q.sameRevision /\ q.wellFormedRules
  /\ q.settings.absolute >= 0 /\ q.settings.relative >= 0
  /\ q.settings.precision \in 0 .. 6
  /\ q.settings.similarity \in 50 .. 100
  /\ q.settings.lowConfidence \in 1 .. 100

\* The row is written before the engine starts; the engine of the run starts
\* from nothing.
StartRun(q) ==
  /\ phase = "idle"
  /\ request' = q
  /\ status' = [status EXCEPT ![run] = IF ValidRequest(q) THEN "running" ELSE "failed"]
  /\ phase' = IF ValidRequest(q) THEN "ingest" ELSE "over"
  /\ UNCHANGED <<readerVars, run, found, findings, stored>>

Ingest ==
  /\ phase = "ingest" /\ pc # "end"
  /\ ReaderStep
  /\ UNCHANGED engineVars

\* map_spreadsheet_error, and the terminal row the host writes.
IngestionEnds ==
  /\ phase = "ingest" /\ pc = "end"
  /\ phase' = IF outcome = "ok" THEN "detect" ELSE "over"
  /\ status' = IF outcome = "ok" THEN status ELSE [status EXCEPT ![run] = outcome]
  /\ UNCHANGED <<readerVars, run, request, found, findings, stored>>

DetectTables ==
  /\ phase = "detect" /\ ~cancelled
  /\ Report(450)
  /\ found' = Detect(sheets)
  /\ phase' = "rules"
  /\ UNCHANGED <<run, request, findings, status, stored>>

Panicked(fs) == \E i \in DOMAIN fs : fs[i].rule = <<"boq", "panic">>

\* A panic of the evaluator ends the worker; nobody writes the row.
ApplyRules ==
  /\ phase = "rules" /\ ~cancelled
  /\ findings' = RunRules(sheets, found, request.settings, request.selected)
  /\ Report(IF Panicked(findings') THEN 620 ELSE 1000)
  /\ phase' = IF Panicked(findings') THEN "over" ELSE "save"
  /\ UNCHANGED <<run, request, found, status, stored>>

EngineCancelled ==
  /\ phase \in {"detect", "rules"} /\ cancelled
  /\ phase' = "over"
  /\ status' = [status EXCEPT ![run] = "cancelled"]
  /\ UNCHANGED <<readerVars, run, request, found, findings, stored>>

\* Mutant: the sheet is left out of the name that is hashed.
FindingIdOfSubject(f) == <<f.rule, f.subject>>

\* RuleRunner.push: the identifier of a finding is derived from the revision
\* (there is one here), the rule, the sheet and the subject.
FindingId(f) == <<f.rule, f.sheet, f.subject>>
Ids == {FindingId(findings[i]) : i \in DOMAIN findings}

\* save_with_findings_and_output: one transaction; an identifier that is
\* taken rolls it back, and the row stays as it was.
Fits == /\ Cardinality(Ids) = Len(findings)
        /\ \A s \in stored : s[2] # run => s[1] \notin Ids

Save ==
  /\ phase = "save"
  /\ IF Fits THEN /\ status' = [status EXCEPT ![run] = "completed"]
                  /\ stored' = stored \cup (Ids \X {run})
             ELSE UNCHANGED <<status, stored>>
  /\ phase' = "over"
  /\ UNCHANGED <<readerVars, run, request, found, findings>>

\* The user starts over with the same revision.
AnalyzeAgain ==
  /\ phase = "over" /\ run + 1 \in Runs
  /\ run' = run + 1
  /\ request' = None /\ phase' = "idle" /\ found' = Nothing /\ findings' = <<>>
  /\ ReadAgain
  /\ UNCHANGED <<status, stored>>

\* cancel_tool_run, while the run is active.
Cancel ==
  /\ phase \in {"ingest", "detect", "rules", "save"}
  /\ CancelReading
  /\ UNCHANGED engineVars

\* All runs are over; any other state without a step would be a deadlock.
Rest == phase = "over" /\ run + 1 \notin Runs /\ UNCHANGED vars

RunStep == Ingest \/ IngestionEnds \/ DetectTables \/ ApplyRules \/ EngineCancelled \/ Save

Next ==
  \/ \E q \in Requests : StartRun(q)
  \/ RunStep
  \/ AnalyzeAgain
  \/ Cancel
  \/ Rest

Spec == InspectionInit /\ [][Next]_vars

-----------------------------------------------------------------------------
(* Properties of runs *)

\* A run that the engine brings to its findings is saved, unless an earlier
\* run of the revision was: no two findings of one run share an identifier,
\* and failed and cancelled runs leave no findings behind that block it.
FirstResultIsSaved ==
  phase = "over" /\ progress = 1000 =>
    status[run] = "completed" \/ \E r \in Runs : r < run /\ status[r] = "completed"

\* What the documentation promises of every run: completed outputs are stored,
\* and every analysis run is a new artifact.
EveryResultIsSaved == phase = "over" /\ progress = 1000 => status[run] = "completed"

-----------------------------------------------------------------------------
(* What is reported of a run *)

\* BoqInspectorOutput, as it is stored with the run.
Output == [findings |-> findings, count |-> Len(findings), tables |-> found.tables,
           pareto |-> Pareto(found.rows)]

\* Each finding of a report is counted under the label it is shown with, and
\* the counts of a table are those of its labels.
CountsAgree(counts, labels) ==
  \A i \in DOMAIN labels :
    \E c \in ToSet(counts) :
      c.label = labels[i] /\ c.count = Cardinality({j \in DOMAIN labels : labels[j] = labels[i]})

\* A report that is written, in either format and with no review or one whose
\* commentary a cell can hold, has an entry for every finding and every table,
\* and both tables of counts agree with the entries; the formats are written
\* together and do not differ in what both show.
ReportsSayWhatWasFound ==
  phase = "save" =>
    \A review \in {None} \cup {r \in Reviews : CommentaryLength(r) <= CellLimit} :
      LET xlsx == Exported("xlsx", Output, review)
          pdf == Exported("pdf", Output, review)
          shown(doc) == [i \in DOMAIN doc.findings |-> <<doc.findings[i].severity, doc.findings[i].category, doc.findings[i].sheet>>]
      IN /\ xlsx = NoDocument <=> pdf = NoDocument
         /\ pdf # NoDocument =>
              /\ shown(xlsx) = shown(pdf)
              /\ xlsx.summary = pdf.summary /\ xlsx.detection = pdf.detection
              /\ xlsx.pareto = pdf.pareto /\ xlsx.ai = pdf.ai
              /\ Len(pdf.findings) = Len(findings) /\ pdf.summary.count = Len(findings)
              /\ CountsAgree(pdf.summary.severities, [i \in DOMAIN pdf.findings |-> pdf.findings[i].severity])
              /\ CountsAgree(pdf.summary.categories, [i \in DOMAIN pdf.findings |-> pdf.findings[i].category])
              /\ Len(pdf.detection) >= Len(found.tables)

\* What the documentation says of reports: the tool provides them, in both
\* formats, from the exact stored output of a completed run.
EveryCompletedRunCanBeReported ==
  phase = "over" /\ status[run] = "completed" =>
    \A kind \in {"xlsx", "pdf"} : Exported(kind, Output, None) # NoDocument

-----------------------------------------------------------------------------
(* The findings against what they are said to mean *)

Items == {i \in DOMAIN found.rows : found.rows[i].class = "item"}
Row(i) == found.rows[i]
Found(rule) == {findings[i] : i \in {j \in DOMAIN findings : findings[j].rule = <<"boq", rule>>}}
Judged == phase = "save" /\ request.selected = {}

SumOf(S) == Total([i \in S |-> Row(i).amount.value])

\* A total is reported exactly when it differs, beyond both tolerances, from
\* the sum of all amounts above it in its table, a subtotal from the sum since
\* the subtotal before it.
TotalsMeanSums ==
  LET priced(i, from) == {j \in Items : /\ from < j /\ j < i /\ Row(j).table = Row(i).table
                                        /\ Row(j).amount # None}
      closed(i) == {j \in DOMAIN found.rows : /\ j < i /\ Row(j).table = Row(i).table
                                              /\ Row(j).class = "subtotal"}
      wrong(i, S) == S # {} /\ Mismatch(1000 * SumOf(S), 1, Row(i).amount.value, request.settings)
  IN \A i \in DOMAIN found.rows : Row(i).amount # None =>
       /\ Row(i).class = "total" =>
            (wrong(i, priced(i, 0)) <=> \E f \in Found("total_mismatch") : f.subject = <<RowId(Row(i))>>)
       /\ Row(i).class = "subtotal" =>
            (wrong(i, priced(i, Max(closed(i) \cup {0})))
               <=> \E f \in Found("subtotal_mismatch") : f.subject = <<RowId(Row(i))>>)

\* Of n rows that say the same, n - 1 are reported as duplicates, each of one
\* original; a report is cross-sheet exactly when the sheets differ.
DuplicatesAreCounted ==
  LET described == {i \in Items : Row(i).description # None}
      same(i, j) == /\ DescriptionKey(Row(i)) = DescriptionKey(Row(j))
                    /\ RowSignature(Row(i)) = RowSignature(Row(j))
      reports == Found("exact_duplicate") \cup Found("cross_sheet_duplicate")
      about(i) == {f \in reports : f.subject[2] = RowId(Row(i))}
  IN /\ \A i \in described :
          Cardinality({j \in described : same(i, j)}) - 1
            = Cardinality(UNION {about(j) : j \in {k \in described : same(i, k)}})
     /\ \A f \in reports :
          (f.subject[1][1] # f.subject[2][1]) <=> f.rule = <<"boq", "cross_sheet_duplicate">>

\* No smaller choice of items than the reported one reaches four fifths of
\* the amounts of its context that are not negative.  The items it is reported
\* out of are all of these, the ones that cost nothing included: that is what
\* is_sign_positive keeps, though lib.rs:99 calls them "positive priced".
ParetoIsLeast ==
  \A p \in ToSet(Pareto(found.rows)) :
    LET group == {i \in Items : /\ Row(i).amount # None /\ ParetoKey(Row(i)) = p.context
                                /\ Row(i).amount.value >= 0}
    IN /\ p.count = Cardinality(group) /\ p.total = SumOf(group)
       /\ \A S \in SUBSET group : Cardinality(S) < p.top => 5 * SumOf(S) < 4 * p.total
       /\ \E S \in SUBSET group : Cardinality(S) = p.top /\ 5 * SumOf(S) >= 4 * p.total

\* Among the peers that an outlier is judged against, at least seven, most are
\* no outliers: neither branch of the statistic can turn the majority into the
\* exception.
OutliersAreFew ==
  \A f \in Found("value_outlier") :
    LET field(row) == (CHOOSE a \in ToSet(Amounts(row)) : a.field = f.subject[2]).of
        context(row) == <<row.table, UnitKey(row), CurrencyKey(row), SectionKey(row)>>
        self == CHOOSE i \in Items : RowId(Row(i)) = f.subject[1]
        peers == {i \in Items : field(Row(i)) # None /\ context(Row(i)) = context(Row(self))}
        far == {i \in peers : \E g \in Found("value_outlier") : g.subject = <<RowId(Row(i)), f.subject[2]>>}
    IN Cardinality(peers) >= 7 /\ 2 * Cardinality(far) < Cardinality(peers)

\* The findings of a run that checks everything against the rows it detected:
\* one pass, one map of what was seen or one sorted list each computes what a
\* reader takes the finding to say.
ChecksMeanWhatTheySay ==
  Judged => TotalsMeanSums /\ DuplicatesAreCounted /\ ParetoIsLeast /\ OutliersAreFew
=============================================================================
