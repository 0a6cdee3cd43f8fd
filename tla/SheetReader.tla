---------------------------- MODULE SheetReader ----------------------------
(***************************************************************************)
(* Bounded, cancellable reading of one workbook file (reader.rs), observed *)
(* by the engine of the BOQ inspector.  The file is an input and never     *)
(* changes; what is known of it grows record by record.  A cancellation    *)
(* may arrive between any two steps and is seen where the code looks.      *)
(*                                                                         *)
(* What the parsers of the two formats deliver (calamine, zip) is external:*)
(* a file is the sequence of its sheets, a sheet the sequence of its       *)
(* records; a record has a position, a value, a formula and the bytes of   *)
(* both, none for a formula that is not there.  The ranges of the old      *)
(* format list their cells row by row; the new one is read as it is.       *)
(* The errors that end a reading are one outcome, as for the engine.       *)
(***************************************************************************)
EXTENDS Integers, Sequences, FiniteSets, FiniteSetsExt

CONSTANTS
  Files,     \* the files that may be selected
  Limits,    \* WorkbookLimits
  Interval   \* CANCELLATION_INTERVAL

LimitFields == {"fileSize", "entries", "entrySize", "archiveSize", "ratio", "sheets", "rows",
                "columns", "cells", "merged", "cellText", "formula", "totalText"}

ASSUME IntervalAssumption == Interval \in Nat \ {0}
ASSUME LimitsAssumption == Limits \in [LimitFields -> Nat]

FileSheets == UNION {{f.sheets[i] : i \in DOMAIN f.sheets} : f \in Files}
Records == UNION {{s.records[i] : i \in DOMAIN s.records} : s \in FileSheets}

Above(a, b) == a.row < b.row \/ (a.row = b.row /\ a.col < b.col)

\* The records of a sheet are in the order of rows, one for a position.
InRows(s) == \A i, j \in DOMAIN s.records : i < j => Above(s.records[i], s.records[j])

ASSUME FilesAssumption ==
  /\ \A f \in Files : f.sheets \in Seq(FileSheets)
  /\ \A f \in Files : \A i \in DOMAIN f.sheets : f.ext = "xls" => InRows(f.sheets[i])
  /\ \A s \in FileSheets : s.records \in Seq(Records)
  /\ \A r \in Records : r.row \in Nat /\ r.col \in Nat /\ r.text \in Nat /\ r.formula \in Nat

VARIABLES
  file,       \* the file that is read
  pc,         \* the step ingest_with_observer is at
  sheets,     \* the sheets read so far, the last one growing
  next,       \* the record of that sheet to look at next
  cells,      \* Accumulator.total_cells
  bytes,      \* Accumulator.total_text_bytes
  progress,   \* the fraction last reported, in thousandths
  cancelled,  \* the token of the run
  late,       \* cells retained since it was set (no variable of the code)
  outcome     \* "none", then "ok", "cancelled" or "failed"

read == <<sheets, next, cells, bytes, late>>
readerVars == <<file, pc, read, progress, cancelled, outcome>>

-----------------------------------------------------------------------------
(* What the limits accept                                                  *)

FileAccepted ==
  /\ \A field \in LimitFields : Limits[field] > 0
  /\ file.ext \in {"xls", "xlsx"}
  /\ file.regular
  /\ file.size <= Limits.fileSize

ArchiveAccepted ==
  LET entry(i) == file.entries[i]
  IN /\ Len(file.entries) <= Limits.entries
     /\ \A i \in DOMAIN file.entries :
          /\ entry(i).safe /\ ~entry(i).encrypted
          /\ entry(i).size <= Limits.entrySize
          /\ entry(i).size > 0 => /\ entry(i).packed > 0
                                  /\ entry(i).size <= entry(i).packed * Limits.ratio
     /\ MapThenSumSet(LAMBDA i : entry(i).size, DOMAIN file.entries) <= Limits.archiveSize

InBounds(p) == p.row + 1 <= Limits.rows /\ p.col + 1 <= Limits.columns

HasValue(r) == r.v.k # "empty"
HasFormula(r) == r.formula > 0

\* validate_sheet_count.
SheetsAccepted == Len(file.sheets) <= Limits.sheets

\* The declared range of the old format ends with the last row and column of
\* a value; its formulas are collected before any cell is kept.
XlsRangesAccepted(s) ==
  LET values == {i \in DOMAIN s.records : HasValue(s.records[i])}
      formulas == {i \in DOMAIN s.records : HasFormula(s.records[i])}
  IN /\ \A i \in values \cup formulas : InBounds(s.records[i])
     /\ \A i \in formulas : s.records[i].formula <= Limits.formula
     /\ Cardinality(formulas) <= Limits.cells

\* The merged regions and the declared range end within the limits.
SheetAccepted(s) ==
  /\ Len(s.merged) <= Limits.merged
  /\ \A i \in DOMAIN s.merged : InBounds(s.merged[i])
  /\ IF file.ext = "xlsx" THEN InBounds(s.declared) ELSE XlsRangesAccepted(s)

CellAccepted(r) ==
  /\ InBounds(r)
  /\ r.text <= Limits.cellText
  /\ HasFormula(r) => r.formula <= Limits.formula
  /\ cells + 1 <= Limits.cells
  /\ bytes + r.text + r.formula <= Limits.totalText

\* extend_used_range: top, left, bottom and right, or nothing at first.
Extended(region, r) ==
  IF region = <<>> THEN <<r.row, r.col, r.row, r.col>>
  ELSE <<IF r.row < region[1] THEN r.row ELSE region[1],
         IF r.col < region[2] THEN r.col ELSE region[2],
         IF r.row > region[3] THEN r.row ELSE region[3],
         IF r.col > region[4] THEN r.col ELSE region[4]>>

-----------------------------------------------------------------------------
(* Steps                                                                   *)

Init ==
  /\ file \in Files
  /\ pc = "file"
  /\ sheets = <<>>
  /\ next = 1
  /\ cells = 0 /\ bytes = 0 /\ late = 0
  /\ progress = 0
  /\ cancelled = FALSE
  /\ outcome = "none"

End(o) == pc' = "end" /\ outcome' = o
Goto(step) == pc' = step /\ outcome' = outcome

\* The source of the sheet that is being read, and its current record.
Source == file.sheets[Len(sheets)]
Record == Source.records[next]

ValidateFile ==
  /\ pc = "file" /\ ~cancelled
  /\ progress' = 20
  /\ IF ~FileAccepted THEN End("failed")
     ELSE Goto(IF file.ext = "xlsx" THEN "archive" ELSE "workbook")
  /\ UNCHANGED <<file, read, cancelled>>

PreflightArchive ==
  /\ pc = "archive" /\ ~cancelled
  /\ progress' = 50
  /\ IF ArchiveAccepted THEN Goto("workbook") ELSE End("failed")
  /\ UNCHANGED <<file, read, cancelled>>

OpenWorkbook ==
  /\ pc = "workbook"
  /\ IF SheetsAccepted THEN ~cancelled /\ Goto("sheet") /\ progress' = 100
     ELSE End("failed") /\ UNCHANGED progress
  /\ UNCHANGED <<file, read, cancelled>>

SheetFraction(index) == 150 + (250 * index) \div Len(file.sheets)

\* sheet_shell: nothing is kept of a sheet yet; every kind is listed, those
\* without cells and hidden ones too.
SheetShell(s) == [name |-> s.name, kind |-> s.kind, used |-> <<>>, cells |-> <<>>, merged |-> <<>>]

OpenSheet ==
  LET s == file.sheets[Len(sheets) + 1]
  IN /\ pc = "sheet" /\ ~cancelled
     /\ Len(sheets) < Len(file.sheets)
     /\ progress' = SheetFraction(Len(sheets))
     /\ sheets' = Append(sheets, [SheetShell(s) EXCEPT !.merged =
                                    IF s.kind = "worksheet" THEN s.merged ELSE <<>>])
     /\ next' = 1
     /\ IF s.kind # "worksheet" THEN Goto("sheet")
        ELSE IF SheetAccepted(s) THEN Goto("records") ELSE End("failed")
     /\ UNCHANGED <<file, cells, bytes, late, cancelled>>

\* Mutant: the text of the formula is checked, not counted.
RetainWithoutFormula(r, step) ==
  IF CellAccepted(r)
  THEN /\ cells' = cells + 1
       /\ bytes' = bytes + r.text
       /\ sheets' = [sheets EXCEPT ![Len(sheets)].cells = Append(@, r),
                                   ![Len(sheets)].used = Extended(@, r)]
       /\ late' = IF cancelled THEN late + 1 ELSE late
       /\ next' = next + 1
       /\ Goto(step)
  ELSE End("failed") /\ UNCHANGED read

\* Accumulator.retain and the growth of the sheet; what follows is the step
\* the code goes to.
Retain(r, step) ==
  IF CellAccepted(r)
  THEN /\ cells' = cells + 1
       /\ bytes' = bytes + r.text + r.formula
       /\ sheets' = [sheets EXCEPT ![Len(sheets)].cells = Append(@, r),
                                   ![Len(sheets)].used = Extended(@, r)]
       /\ late' = IF cancelled THEN late + 1 ELSE late
       /\ next' = next + 1
       /\ Goto(step)
  ELSE End("failed") /\ UNCHANGED read

\* A checked record reports the same fraction again.
ReadXlsxRecord ==
  /\ pc = "records" /\ file.ext = "xlsx"
  /\ next <= Len(Source.records)
  /\ next % Interval = 0 => ~cancelled
  /\ IF HasValue(Record) \/ HasFormula(Record) THEN Retain(Record, "records")
     ELSE next' = next + 1 /\ UNCHANGED <<sheets, cells, bytes, late, pc, outcome>>
  /\ UNCHANGED <<file, progress, cancelled>>

ReadXlsValue ==
  /\ pc = "records" /\ file.ext = "xls"
  /\ next <= Len(Source.records)
  /\ IF HasValue(Record) THEN Retain(Record, IF (cells + 1) % Interval = 0 THEN "check" ELSE "records")
     ELSE next' = next + 1 /\ UNCHANGED <<sheets, cells, bytes, late, pc, outcome>>
  /\ UNCHANGED <<file, progress, cancelled>>

\* Mutant: the fraction is reported without a look at the token.
CheckXlsBlindly ==
  /\ pc = "check"
  /\ Goto("records")
  /\ UNCHANGED <<file, read, progress, cancelled>>

CheckXls ==
  /\ pc = "check" /\ ~cancelled
  /\ Goto("records")
  /\ UNCHANGED <<file, read, progress, cancelled>>

EndRecords ==
  /\ pc = "records" /\ next > Len(Source.records)
  /\ IF file.ext = "xlsx" THEN Goto("sheet") /\ UNCHANGED next
     ELSE Goto("formulas") /\ next' = 1
  /\ UNCHANGED <<file, sheets, cells, bytes, late, progress, cancelled>>

\* The formulas of the old format that have no cached value: kept without a
\* look at the token.
ReadXlsFormula ==
  /\ pc = "formulas"
  /\ next <= Len(Source.records)
  /\ IF HasFormula(Record) /\ ~HasValue(Record) THEN Retain(Record, "formulas")
     ELSE next' = next + 1 /\ UNCHANGED <<sheets, cells, bytes, late, pc, outcome>>
  /\ UNCHANGED <<file, progress, cancelled>>

\* sort_unstable_by_key: a cell goes behind those that are above it; no two
\* have one position.
InOrder(s) ==
  LET rank == [j \in DOMAIN s |-> Cardinality({k \in DOMAIN s : Above(s[k], s[j])})]
  IN [i \in DOMAIN s |-> s[CHOOSE j \in DOMAIN s : rank[j] = i - 1]]

\* Mutant: the cells stay in the order of the two passes.
LeaveXlsSheet ==
  /\ pc = "formulas" /\ next > Len(Source.records)
  /\ Goto("sheet")
  /\ UNCHANGED <<file, read, progress, cancelled>>

SortXlsSheet ==
  /\ pc = "formulas" /\ next > Len(Source.records)
  /\ sheets' = [sheets EXCEPT ![Len(sheets)].cells = InOrder(@)]
  /\ Goto("sheet")
  /\ UNCHANGED <<file, next, cells, bytes, late, progress, cancelled>>

Complete ==
  /\ pc = "sheet" /\ ~cancelled
  /\ Len(sheets) = Len(file.sheets)
  /\ progress' = 400
  /\ End("ok")
  /\ UNCHANGED <<file, read, cancelled>>

\* notify: the token is looked at before a stage is reported.
CheckDue ==
  \/ pc \in {"file", "archive", "sheet", "check"}
  \/ pc = "workbook" /\ SheetsAccepted
  \/ pc = "records" /\ file.ext = "xlsx" /\ next <= Len(Source.records) /\ next % Interval = 0

NoticeCancel ==
  /\ cancelled /\ CheckDue
  /\ End("cancelled")
  /\ UNCHANGED <<file, read, progress, cancelled>>

ReaderStep ==
  \/ ValidateFile \/ PreflightArchive \/ OpenWorkbook
  \/ OpenSheet \/ ReadXlsxRecord \/ ReadXlsValue \/ CheckXls \/ EndRecords
  \/ ReadXlsFormula \/ SortXlsSheet \/ Complete
  \/ NoticeCancel

-----------------------------------------------------------------------------
(* What the engine and the host do to a reading                            *)

\* cancel_tool_run sets the token, at any time.
CancelReading ==
  /\ ~cancelled
  /\ cancelled' = TRUE
  /\ UNCHANGED <<file, pc, read, progress, outcome>>

\* The fractions after the reading are the engine's.
Report(fraction) ==
  /\ progress' = fraction
  /\ UNCHANGED <<file, pc, read, cancelled, outcome>>

\* A new run reads the file from its beginning, with a token of its own.
ReadAgain ==
  /\ pc' = "file" /\ sheets' = <<>> /\ next' = 1 /\ cells' = 0 /\ bytes' = 0 /\ late' = 0
  /\ progress' = 0 /\ cancelled' = FALSE /\ outcome' = "none"
  /\ UNCHANGED file

ReaderNext == ReaderStep \/ CancelReading \/ ReadAgain \/ \E fraction \in 0 .. 1000 : Report(fraction)

\* The reader in whatever is built around it.
ReaderSpec == Init /\ [][ReaderNext]_readerVars

-----------------------------------------------------------------------------
(* Properties                                                              *)

Total(f) == MapThenSumSet(LAMBDA i : f[i], DOMAIN f)

Kept(i) == {sheets[i].cells[j] : j \in DOMAIN sheets[i].cells}

\* What is kept never exceeds the limits, and the two counters that decide
\* it are the sums over what is kept: no path adds a cell without counting.
RetainedWithinLimits ==
  LET weights(s) == [j \in DOMAIN s.cells |-> s.cells[j].text + s.cells[j].formula]
      counts == [i \in DOMAIN sheets |-> Len(sheets[i].cells)]
      sizes == [i \in DOMAIN sheets |-> Total(weights(sheets[i]))]
  IN /\ cells = Total(counts) /\ cells <= Limits.cells
     /\ bytes = Total(sizes) /\ bytes <= Limits.totalText
     /\ \A i \in DOMAIN sheets : \A r \in Kept(i) :
          InBounds(r) /\ r.text <= Limits.cellText /\ r.formula <= Limits.formula

\* A workbook that was read holds, sheet by sheet, exactly the records with a
\* value or a formula, in the order of rows when the file has it, whichever of
\* the two passes of the old format found them, and its used range is the
\* least rectangle around them.
ReadIsFaithful ==
  outcome = "ok" =>
    /\ Len(sheets) = Len(file.sheets)
    /\ \A i \in DOMAIN sheets :
         LET s == file.sheets[i]
             wanted == {r \in {s.records[j] : j \in DOMAIN s.records} : HasValue(r) \/ HasFormula(r)}
         IN IF s.kind # "worksheet" THEN sheets[i].cells = <<>>
            ELSE /\ Kept(i) = wanted
                 /\ InRows(s) => \A j \in 1 .. Len(sheets[i].cells) - 1 :
                                  Above(sheets[i].cells[j], sheets[i].cells[j + 1])
                 /\ IF wanted = {} THEN sheets[i].used = <<>>
                    ELSE sheets[i].used =
                           <<Min({r.row : r \in wanted}), Min({r.col : r \in wanted}),
                             Max({r.row : r \in wanted}), Max({r.col : r \in wanted})>>

\* After a cancellation no more cells than the interval are still kept, except
\* for the formulas without a value of one sheet of the old format.
CancelIsNoticed ==
  LET unchecked == IF file.ext = "xls" /\ sheets # <<>>
                   THEN Cardinality({j \in DOMAIN Source.records :
                          HasFormula(Source.records[j]) /\ ~HasValue(Source.records[j])})
                   ELSE 0
  IN late <= Interval + unchecked
=============================================================================
