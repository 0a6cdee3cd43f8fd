------------------------------- MODULE Reports -------------------------------
(* The report of a saved run (reporting.rs of the BOQ inspector) and what   *)
(* the two writers make of it (xlsx.rs and pdf.rs of the reporting crate).  *)
(* Of a text only the placeholders it leaves open are kept: a text with one *)
(* left is an error and ends the export; there is no document then.         *)
EXTENDS BoqRules

CONSTANTS
  CellLimit,  \* the characters a cell of a workbook can hold
  Reviews     \* validated reviews: the lengths of their summary and entries

ASSUME CellLimitAssumption == CellLimit \in Nat

NoDocument == <<>>

(* The placeholders of the catalog, locales/<language>/common.json; the     *)
(* English and the Arabic texts have the same. A key is the rule's name.    *)
TitleTemplate(key) ==
  CASE key \in {"missing_column", "missing", "zero_value", "negative_value", "value_outlier"} -> {"field"}
    [] key = "unmapped_column" -> {"column"}
    [] key = "spreadsheet_error" -> {"error"}
    [] key = "pareto_summary" -> {"topItemCount", "totalItemCount"}
    [] OTHER -> {}

ExplanationTemplate(key) ==
  CASE key = "low_confidence_structure" -> {"confidence"}
    [] key \in {"missing_column", "missing", "zero_value", "negative_value"} -> {"field"}
    [] key = "formula_result_mismatch" -> {"expected", "actual"}
    [] key = "amount_mismatch" -> {"expected", "actual", "difference"}
    [] key \in {"cross_sheet_duplicate", "cross_sheet_inconsistency"} -> {"sheet"}
    [] key \in {"fuzzy_duplicate", "inconsistent_unit"} -> {"similarity"}
    [] key \in {"subtotal_mismatch", "total_mismatch"} -> {"expected", "actual", "itemCount"}
    [] key = "value_outlier" -> {"value", "median", "peerCount"}
    [] key = "pareto_summary" -> {"total", "currency"}
    [] OTHER -> {}

ActionTemplate(key) == IF key \in {"missing_column", "missing"} THEN {"field"} ELSE {}

(* The parameters that the checks of rules.rs give a title and an           *)
(* explanation; push gives an action none.                                  *)
TitleParams(f) ==
  CASE f.rule[2] = "low_confidence_structure" -> IF f.subject = <<"workbook">> THEN {} ELSE {"sheet"}
    [] f.rule[2] = "unmapped_column" -> {"column"}
    [] f.rule[2] \in {"missing_column", "missing", "zero_value", "negative_value"} -> {"field"}
    [] f.rule[2] = "spreadsheet_error" -> {"error"}
    [] f.rule[2] \in {"exact_duplicate", "cross_sheet_duplicate", "cross_sheet_inconsistency"} -> {"sheet"}
    [] f.rule[2] \in {"fuzzy_duplicate", "inconsistent_unit"} -> {"similarity"}
    [] f.rule[2] \in {"formula_result_mismatch", "amount_mismatch", "subtotal_mismatch", "total_mismatch"} ->
         {"expected", "actual"}
    [] f.rule[2] = "value_outlier" -> {"field", "value", "median"}
    [] f.rule[2] = "pareto_summary" -> {"topItemCount", "totalItemCount"}
    [] OTHER -> {}

ExplanationParams(f) ==
  CASE f.rule[2] = "low_confidence_structure" -> {"confidence"}
    [] f.rule[2] = "amount_mismatch" -> {"difference"}
    [] f.rule[2] \in {"subtotal_mismatch", "total_mismatch"} -> {"itemCount"}
    [] f.rule[2] = "value_outlier" -> {"peerCount"}
    [] f.rule[2] = "pareto_summary" -> {"total", "currency"}
    [] OTHER -> {}

(* Localizer::text for the three texts of report_finding. *)
TextsResolve(f) ==
  /\ TitleTemplate(f.rule[2]) \subseteq TitleParams(f)
  /\ ExplanationTemplate(f.rule[2]) \subseteq ExplanationParams(f)
  /\ ActionTemplate(f.rule[2]) = {}

Severity(f) ==
  CASE \/ f.rule[2] \in {"broken_formula", "formula_result_mismatch", "spreadsheet_error", "amount_mismatch",
                         "cross_sheet_duplicate", "cross_sheet_inconsistency", "subtotal_mismatch",
                         "total_mismatch"}
       \/ f.rule[2] = "low_confidence_structure" /\ f.subject = <<"workbook">>
       \/ f.rule[2] = "missing_column" /\ f.subject[4] = "description"
       \/ f.rule = <<"boq", "missing", "amount">> -> "high"
    [] f.rule[2] \in {"unmapped_column", "zero_value", "fuzzy_duplicate"} -> "low"
    [] f.rule[2] \in {"formula_unverifiable", "pareto_summary"} -> "info"
    [] OTHER -> "medium"

Category(f) ==
  CASE f.rule[2] \in {"broken_formula", "formula_result_mismatch", "spreadsheet_error", "amount_mismatch",
                      "subtotal_mismatch", "total_mismatch"} -> "arithmetic"
    [] f.rule[2] \in {"low_confidence_structure", "unmapped_column", "missing_column"} -> "structure"
    [] f.rule[2] = "missing" -> "omission"
    [] f.rule[2] \in {"exact_duplicate", "cross_sheet_duplicate", "fuzzy_duplicate"} -> "duplication"
    [] f.rule[2] \in {"formula_unverifiable", "pareto_summary"} -> "other"
    [] OTHER -> "inconsistency"

(* diagnostic_label: the codes that have a text. *)
LabelledCodes ==
  {"headerless_distribution_inference", "merged_header_region", "bilingual_header_aliases",
   "no_tables_detected", "low_confidence_structure", "row_column_visibility_unavailable"}

(* The warnings of build_diagnostics; neither reader knows hidden rows. *)
Warnings(tables) ==
  (IF tables = <<>> THEN <<"no_tables_detected">> ELSE <<>>)
  \o (IF \E i \in DOMAIN tables : tables[i].confidence < 3900 THEN <<"low_confidence_structure">> ELSE <<>>)
  \o <<"row_column_visibility_unavailable">>
-----------------------------------------------------------------------------
(* severity_counts and category_counts: what occurs, in a fixed order. *)
Severities == <<"critical", "high", "medium", "low", "info">>
Categories == <<"arithmetic", "duplication", "omission", "inconsistency", "structure", "compliance", "other">>

CountsOf(order, labels) ==
  LET count(label) == Cardinality({i \in DOMAIN labels : labels[i] = label})
  IN Select([i \in DOMAIN order |-> [label |-> order[i], count |-> count(order[i])]],
            LAMBDA c : c.count > 0)

\* Mutant: the counts end with the findings that ask for something.
CountsWithoutInfo(findings) ==
  CountsOf(SubSeq(Severities, 1, 4), [i \in DOMAIN findings |-> Severity(findings[i])])

SeverityCounts(findings) == CountsOf(Severities, [i \in DOMAIN findings |-> Severity(findings[i])])
CategoryCounts(findings) == CountsOf(Categories, [i \in DOMAIN findings |-> Category(findings[i])])

(* report_detections: the tables, then the warnings of the workbook. *)
Detections(tables) ==
  [i \in DOMAIN tables |-> tables[i].evidence] \o [i \in DOMAIN Warnings(tables) |-> {Warnings(tables)[i]}]

(* report_finding, but for the texts and the evidence. *)
ReportFinding(f) ==
  [severity |-> Severity(f), category |-> Category(f), rule |-> f.rule, sheet |-> f.sheet, cell |-> f.cell]

(* format_ai_commentary: the summary, then the lists of the review that are *)
(* not empty, each under its title.                                         *)
ReviewLists == <<"prioritizedRisks", "recommendations", "rfiSuggestions", "limitations", "assumptions">>

Commentary(review) ==
  <<[title |-> "summary", entries |-> <<review.summary>>]>>
  \o SelectSeq([i \in DOMAIN ReviewLists |-> [title |-> ReviewLists[i], entries |-> review[ReviewLists[i]]]],
               LAMBDA s : s.entries # <<>>)

(* Its characters, with an average title, the bullets and the line ends. *)
CommentaryLength(review) ==
  LET sumOf(seq) == FoldLeft(LAMBDA n, x : n + x, 0, seq)
      lengthOf(s) == IF s.title = "summary" THEN sumOf(s.entries)
                     ELSE 2 + 4 + sumOf([i \in DOMAIN s.entries |-> 3 + s.entries[i]])
  IN sumOf([i \in DOMAIN Commentary(review) |-> lengthOf(Commentary(review)[i])])

(* validate_export_context and build_report: an output whose count is not   *)
(* that of its findings, a text with an open placeholder or a code without  *)
(* a text gives no report. The review is None if there is none.             *)
BuildReport(output, review) ==
  IF \/ output.count # Len(output.findings)
     \/ \E i \in DOMAIN output.findings : ~TextsResolve(output.findings[i])
     \/ \E i \in DOMAIN Detections(output.tables) : ~Detections(output.tables)[i] \subseteq LabelledCodes
  THEN NoDocument
  ELSE [count |-> output.count, severities |-> SeverityCounts(output.findings),
        categories |-> CategoryCounts(output.findings),
        findings |-> [i \in DOMAIN output.findings |-> ReportFinding(output.findings[i])],
        detections |-> Detections(output.tables), pareto |-> output.pareto,
        commentary |-> IF review = None THEN None ELSE Commentary(review),
        length |-> IF review = None THEN 0 ELSE CommentaryLength(review)]

(* The sheets of the workbook: a row for each finding, table, warning and   *)
(* context, the commentary in one merged cell.                              *)
SummarySheet(report) == [count |-> report.count, severities |-> report.severities, categories |-> report.categories]
FindingsSheet(report) ==
  LET row(f) == [f EXCEPT !.cell = IF @ = None THEN "not_available" ELSE @]
  IN [i \in DOMAIN report.findings |-> row(report.findings[i])]
DetectionSheet(report) == report.detections
ParetoSheet(report) ==
  [i \in DOMAIN report.pareto |-> <<report.pareto[i].total, report.pareto[i].top, report.pareto[i].count>>]

(* The commentary is written whole, however long it is: the second is FALSE *)
(* if the cell cannot hold it.                                              *)
AiReviewSheet(report) == <<report.commentary, report.length <= CellLimit>>

(* write_xlsx_report: one sheet after the other; a text that no cell can    *)
(* hold fails the workbook.                                                 *)
Sheets(report) ==
  IF ~AiReviewSheet(report)[2] THEN NoDocument
  ELSE [summary |-> SummarySheet(report), findings |-> FindingsSheet(report),
        detection |-> DetectionSheet(report), pareto |-> ParetoSheet(report), ai |-> AiReviewSheet(report)[1]]

(* PDF_TEMPLATE: the same data, section by section; of a finding it shows   *)
(* neither the rule nor the cell.                                           *)
Sections(report) ==
  LET entry(f) == [severity |-> f.severity, category |-> f.category, sheet |-> f.sheet]
  IN [summary |-> [count |-> report.count, severities |-> report.severities, categories |-> report.categories],
      findings |-> [i \in DOMAIN report.findings |-> entry(report.findings[i])],
      detection |-> report.detections,
      pareto |-> [i \in DOMAIN report.pareto |-> <<report.pareto[i].total, report.pareto[i].top, report.pareto[i].count>>],
      ai |-> report.commentary]

(* BoqExportProvider::export: what the file of a kind holds, if there is    *)
(* one.                                                                     *)
Exported(kind, output, review) ==
  LET write(report) == IF report = NoDocument THEN NoDocument
                       ELSE IF kind = "xlsx" THEN Sheets(report) ELSE Sections(report)
  IN write(BuildReport(output, review))
=============================================================================
