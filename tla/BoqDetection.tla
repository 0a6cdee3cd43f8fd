---------------------------- MODULE BoqDetection ----------------------------
(* Finding the tables of a workbook, the role of each column and the class  *)
(* of each row (detection.rs). A sheet is a record with its cells, a cell   *)
(* has a row, a column, a value and a formula; confidences are integers in  *)
(* units of 1/6000, exact for the ratios of up to six cells.                *)
EXTENDS BoqText

Full == 6000
Capped(x, cap) == IF x < cap THEN x ELSE cap

IsText(c) == c.v.k = "text"
NumberOf(c) == CASE c.v.k = "num" -> [value |-> c.v.n]
                 [] c.v.k = "text" -> NumberInText(c.v.t)
                 [] OTHER -> None
HasNumber(c) == NumberOf(c) # None

(* cells_by_row: the cells of every row that has any, from left to right. *)
CellsByRow(sheet) ==
  LET at(r, col) == Select(sheet.cells, LAMBDA c : c.row = r /\ c.col = col)
      columns(r) == Ascending({c.col : c \in {d \in ToSet(sheet.cells) : d.row = r}})
  IN [r \in {c.row : c \in ToSet(sheet.cells)} |-> Each(columns(r), LAMBDA col : at(r, col))]

(* candidate_segments: runs of rows with at most one blank row in between. *)
CandidateSegments(rows) ==
  LET starts == {r \in DOMAIN rows : \A q \in DOMAIN rows : q < r => r - q >= 3}
      lastFrom(r) == LastOf({q \in DOMAIN rows : q >= r /\ ~\E s \in starts : r < s /\ s <= q})
      segment(r) == <<r, lastFrom(r)>>
      segments(order) == [i \in DOMAIN order |-> segment(order[i])]
  IN segments(Ascending(starts))

RowsIn(rows, from, to) ==
  Ascending({r \in DOMAIN rows : from <= r /\ r <= to})

(* header_role: one alias of every role and the two-word ones. *)
HeaderAliases ==
  <<"item">> :> "item" @@ <<"no">> :> "item" @@ <<"description">> :> "description" @@
  <<"unit">> :> "unit" @@ <<"qty">> :> "quantity" @@ <<"rate">> :> "rate" @@
  <<"unit", "rate">> :> "rate" @@ <<"amount">> :> "amount" @@
  <<"currency">> :> "currency" @@ <<"notes">> :> "notes"

HeaderRole(c) ==
  IF IsText(c) /\ NormalizeText(c.v.t) \in DOMAIN HeaderAliases
  THEN HeaderAliases[NormalizeText(c.v.t)] ELSE None

(* The roles a row names, by column, and how much it looks like a header. *)
HeaderRoles(cells) ==
  LET named == {i \in DOMAIN cells : HeaderRole(cells[i]) # None}
  IN [col \in {cells[i].col : i \in named} |->
        HeaderRole(cells[CHOOSE i \in named : cells[i].col = col])]

HeaderOf(row, cells, roles) ==
  LET texts == Cardinality({i \in DOMAIN cells : IsText(cells[i])})
      ratio(count, weight) == (weight * count) \div Len(cells)
  IN [row |-> row, roles |-> roles,
      score |-> Capped(3300 + ratio(texts, 1500) + ratio(Cardinality(DOMAIN roles), 1200), Full)]

(* detect_header: the best of the first eight rows of a segment; max_by     *)
(* keeps the last of equals.                                                *)
BestHeader(headers) ==
  LET distinct(h) == {h.roles[col] : col \in DOMAIN h.roles}
      better(h, g) == g.score < h.score \/ (g.score = h.score /\ g.row <= h.row)
      best(candidates) == IF candidates = {} THEN None
                          ELSE CHOOSE h \in candidates : \A g \in candidates : better(h, g)
  IN best({h \in headers : Cardinality(distinct(h)) >= 2})

DetectHeader(rows, segment) ==
  BestHeader({HeaderOf(segment[i], rows[segment[i]], HeaderRoles(rows[segment[i]])) :
                i \in DOMAIN segment \intersect 1 .. 8})

(* The cells a column holds in the data rows, for the statistics of         *)
(* infer_columns; a column that only the header names has none.             *)
ColumnCells(rows, data, col) == {c \in UNION {ToSet(rows[r]) : r \in data} : c.col = col}

LongWords == {"reinforced", "earthworks"}
IsLong(c) == IsText(c) /\ ToSet(NormalizeText(c.v.t)) \intersect LongWords # {}
IsUnit(c) == IsText(c) /\ NormalizeUnit(c.v.t) # None
IsCurrency(c) == IsText(c) /\ DetectCurrency(c.v.t) # None
Count(S, P(_)) == Cardinality({c \in S : P(c)})

(* assign_best_ratio: the role goes to the free column where the sign is    *)
(* most frequent, the last of equals, if it is frequent enough; signed are  *)
(* the cells that have the sign.                                            *)
AssignBest(stats, roles, role, signed, minimum, base) ==
  LET free == {col \in DOMAIN stats \ DOMAIN roles : stats[col] # {}}
      signs(cols) == {[col |-> col, num |-> Cardinality(stats[col] \intersect signed), den |-> Cardinality(stats[col])] : col \in cols}
      better(a, b) == \/ b.num * a.den < a.num * b.den
                      \/ b.num * a.den = a.num * b.den /\ b.col <= a.col
      assign(best) ==
        IF 100 * best.num < minimum * best.den THEN roles
        ELSE roles @@ best.col :> [role |-> role,
               score |-> Capped(60 * base + (1200 * best.num) \div best.den, 5700)]
      choose(S) == CHOOSE a \in S : \A b \in S : better(a, b)
  IN IF free = {} \/ \E col \in DOMAIN roles : roles[col].role = role THEN roles
     ELSE assign(choose(signs(free)))

NumberAt(cells, col) ==
  LET at == {c \in ToSet(cells) : c.col = col}
  IN IF at = {} THEN None ELSE NumberOf(CHOOSE c \in at : TRUE)

Abs(x) == IF x < 0 THEN -x ELSE x

(* infer_arithmetic_columns: the first three free numeric columns, from     *)
(* left to right, whose product relation holds most often.                  *)
InferArithmetic(rows, data, numeric) ==
  LET before(t, u) == \/ t[1] < u[1]
                      \/ t[1] = u[1] /\ (t[2] < u[2] \/ (t[2] = u[2] /\ t[3] < u[3]))
      values(t) == {v \in {<<r, NumberAt(rows[r], t[1]), NumberAt(rows[r], t[2]), NumberAt(rows[r], t[3])>> :
                              r \in data} : None \notin {v[2], v[3], v[4]}}
      close(expected, actual) ==
        Abs(expected - 1000 * actual)
          <= (IF Abs(expected) \div 1000 > 10000 THEN Abs(expected) \div 1000 ELSE 10000)
      score(t, vs) ==
        [columns |-> t, size |-> Cardinality(vs),
         matching |-> Cardinality({v \in vs : close(v[2].value * v[3].value, v[4].value)})]
      better(a, b) == b.matching * a.size < a.matching * b.size
      usable == {c \in {score(t, values(t)) : t \in {u \in numeric \X numeric \X numeric : u[1] < u[2] /\ u[2] < u[3]}} :
                   c.size >= 2}
      best(S) == IF S = {} THEN [size |-> 1, matching |-> 0]
                 ELSE CHOOSE a \in S : \A b \in S \ {a} :
                        better(a, b) \/ (~better(b, a) /\ before(a.columns, b.columns))
      enough(a) == IF 100 * a.matching < 35 * a.size THEN None
                   ELSE [columns |-> a.columns, score |-> (2400 * a.matching) \div a.size]
  IN enough(best(usable))

(* infer_columns: what the header names, then descriptions, units and       *)
(* currencies by their signs, then the three columns of the product         *)
(* relation, then an item number; what is left is unknown.                  *)
WithArithmetic(rows, data, stats, roles) ==
  LET order == <<"quantity", "rate", "amount">>
      numeric == {col \in DOMAIN stats \ DOMAIN roles :
                    /\ Cardinality(stats[col]) >= 2
                    /\ 2 * Count(stats[col], HasNumber) >= Cardinality(stats[col])}
      with(relation) ==
        IF relation = None THEN roles
        ELSE roles @@ [col \in ToSet(relation.columns) |->
               [role |-> order[CHOOSE i \in 1 .. 3 : relation.columns[i] = col],
                score |-> Capped(3300 + relation.score, 5700)]]
  IN with(InferArithmetic(rows, data, numeric))

WithItemNumber(stats, roles) ==
  LET free == {col \in DOMAIN stats \ DOMAIN roles :
                 /\ stats[col] # {}
                 /\ (100 * (Count(stats[col], HasNumber) + Count(stats[col], IsText)))
                      \div Cardinality(stats[col]) >= 80}
      hasItem == \E col \in DOMAIN roles : roles[col].role = "item"
  IN IF hasItem \/ free = {} THEN roles
     ELSE roles @@ (CHOOSE col \in free : \A d \in free : col <= d)
                     :> [role |-> "item", score |-> 3120]

InferColumns(rows, data, header) ==
  LET named == IF header = None THEN {} ELSE DOMAIN header.roles
      cells == UNION {ToSet(rows[r]) : r \in data}
      used == {c.col : c \in cells}
      every(stats, known) ==
        [col \in DOMAIN stats |-> IF col \in DOMAIN known THEN known[col]
                                  ELSE [role |-> "unknown", score |-> 1500]]
      infer(stats) ==
        every(stats, WithItemNumber(stats, WithArithmetic(rows, data, stats,
          AssignBest(stats,
            AssignBest(stats,
              AssignBest(stats, [col \in named |-> [role |-> header.roles[col], score |-> 5820]],
                "description", {c \in cells : IsLong(c)}, 45, 58),
              "unit", {c \in cells : IsUnit(c)}, 45, 70),
            "currency", {c \in cells : IsCurrency(c)}, 45, 75))))
  IN infer([col \in used \union named |-> ColumnCells(rows, data, col)])

Recognized(columns) == {col \in DOMAIN columns : columns[col].role # "unknown"}

(* DetectedBoqTable::column: the leftmost column of a role. *)
ColumnOf(table, role) ==
  LET S == {col \in DOMAIN table.columns : table.columns[col].role = role}
  IN IF S = {} THEN None ELSE [col |-> CHOOSE c \in S : \A d \in S : c <= d]

TableConfidence(columns, header) ==
  LET r == Cardinality(Recognized(columns))
      sum == FoldSet(LAMBDA col, n : n + columns[col].score, 0, Recognized(columns))
  IN IF r = 0 THEN 0
     ELSE Capped(((55 * sum) \div r + (25 * Full * Capped(r, 6)) \div 6
                  + 20 * (IF header = None THEN 3000 ELSE header.score)) \div 100, Full)
-----------------------------------------------------------------------------
(* The words of a row are the needles of classify_row as they are matched   *)
(* in the normalized text of all its text cells.                            *)
HasPhrase(words, phrase) ==
  \E i \in 1 .. Len(words) + 1 - Len(phrase) : SubSeq(words, i, i + Len(phrase) - 1) = phrase

RowWords(cells) ==
  FlattenSeq([i \in DOMAIN cells |-> IF IsText(cells[i]) THEN NormalizeText(cells[i].v.t) ELSE <<>>])

(* row_text: the texts of a row as they stand. *)
RowText(cells) == FlattenSeq([i \in DOMAIN cells |-> IF IsText(cells[i]) THEN cells[i].v.t ELSE <<>>])

CellAt(cells, column) ==
  LET at == IF column = None THEN {} ELSE {c \in ToSet(cells) : c.col = column.col}
  IN IF at = {} THEN None ELSE CHOOSE c \in at : TRUE

ClassifyRow(table, cells) ==
  LET words == RowWords(cells)
      any(S) == \E phrase \in S : HasPhrase(words, phrase)
      numbers == Count(ToSet(cells), HasNumber)
      texts == Count(ToSet(cells), IsText)
      d == CellAt(cells, ColumnOf(table, "description"))
      described == d # None /\ IsText(d) /\ d.v.t # <<>>
  IN CASE any({<<"grand", "total">>, <<"final", "total">>}) -> "total"
       [] any({<<"subtotal">>, <<"sub", "total">>}) -> "subtotal"
       [] any({<<"note">>, <<"notes">>, <<"remark">>}) /\ numbers = 0 -> "note"
       [] described /\ numbers > 0 -> "item"
       [] numbers >= 2 -> "item"
       [] texts = 1 /\ numbers = 0 -> "heading"
       [] texts > 0 /\ numbers = 0 -> "subheading"
       [] OTHER -> "unknown"

(* text_source and number_source: the value of a cell with its origin. *)
TextSource(cells, column) ==
  LET c == CellAt(cells, column)
  IN IF c = None THEN None
     ELSE IF ~IsText(c) \/ c.v.t = <<>> THEN None ELSE [col |-> c.col, value |-> c.v.t]

NumberSource(cells, column) ==
  LET c == CellAt(cells, column)
  IN IF c = None THEN None
     ELSE IF ~HasNumber(c) THEN None ELSE [col |-> c.col, value |-> NumberOf(c).value]

(* The currency of a row: its currency cell, else the first cell that       *)
(* states one.                                                              *)
CurrencySource(cells, column) ==
  LET stated(c) == IsText(c) /\ DetectCurrency(c.v.t) # None
      own == CellAt(cells, column)
      others == {i \in DOMAIN cells : stated(cells[i])}
      source(c) == [col |-> c.col, value |-> DetectCurrency(c.v.t)]
  IN IF own # None /\ stated(own) THEN source(own)
     ELSE IF others = {} THEN None
     ELSE source(cells[CHOOSE i \in others : \A j \in others : i <= j])

NormalizeRow(table, row, cells) ==
  LET at(role) == ColumnOf(table, role)
      unitText == TextSource(cells, at("unit"))
      isError(c) == c.v.k = "error" \/ (c.v.k = "empty" /\ c.f # None)
  IN [sheet |-> table.sheet, row |-> row, table |-> 0,
      class |-> ClassifyRow(table, cells), text |-> RowText(cells), path |-> <<>>,
      description |-> TextSource(cells, at("description")), unitText |-> unitText,
      unit |-> IF unitText = None THEN None
               ELSE IF NormalizeUnit(unitText.value) = None THEN None
               ELSE [col |-> unitText.col, value |-> NormalizeUnit(unitText.value)],
      quantity |-> NumberSource(cells, at("quantity")),
      rateText |-> TextSource(cells, at("rate")), rate |-> NumberSource(cells, at("rate")),
      amount |-> NumberSource(cells, at("amount")),
      currency |-> CurrencySource(cells, at("currency")),
      errors |-> {c.col : c \in {d \in ToSet(cells) : isError(d)}}]

(* reconstruct_section_paths: headings and subheadings above a row. *)
SectionPath(rows, i) ==
  LET above(class, from) == {j \in from .. i - 1 : rows[j].class = class}
      lastOr(S, default) == IF S = {} THEN default ELSE LastOf(S)
      textOf(j) == IF j = 0 \/ rows[j].text = <<>> THEN <<>> ELSE <<rows[j].text>>
      path(h) == textOf(h) \o textOf(lastOr(above("subheading", h + 1), 0))
  IN path(lastOr(above("heading", 1), 0))

SectionPaths(rows) ==
  [i \in DOMAIN rows |->
     IF rows[i].class \in {"item", "subtotal", "total"}
     THEN [rows[i] EXCEPT !.path = SectionPath(rows, i)] ELSE rows[i]]

(* What one candidate segment of a sheet adds: a table and its rows, or     *)
(* nothing if it is too short, has no data below its header or names fewer  *)
(* than two columns.                                                        *)
WithRows(table, new) ==
  [table |-> [table EXCEPT !.evidence = @ \cup IF \E i \in DOMAIN new : new[i].path # <<>>
                                                THEN {"section_hierarchy_reconstructed"} ELSE {}],
   rows |-> new]

WithTable(table, rows, data) ==
  LET normalized(order) == [k \in DOMAIN order |-> NormalizeRow(table, order[k], rows[order[k]])]
  IN IF Cardinality(Recognized(table.columns)) < 2 THEN <<>>
     ELSE <<WithRows(table, SectionPaths(normalized(Ascending(data))))>>

(* What speaks for a table. Only the product relation gives a quantity less *)
(* confidence than a header does.                                           *)
TableEvidence(sheet, header, columns) ==
  {code \in {"quantity_rate_amount_relationship", "bilingual_header_aliases",
             "headerless_distribution_inference", "merged_header_region"} :
     CASE code = "quantity_rate_amount_relationship" ->
            \E col \in DOMAIN columns : columns[col].role = "quantity" /\ columns[col].score < 5820
       [] code = "bilingual_header_aliases" -> header # None
       [] code = "headerless_distribution_inference" -> header = None
       [] OTHER -> header # None /\ \E i \in DOMAIN sheet.merged :
                      sheet.merged[i].top <= header.row /\ header.row <= sheet.merged[i].row}

TableWith(sheet, header, start, end, columns) ==
  [sheet |-> sheet.name, header |-> header, start |-> start, end |-> end,
   columns |-> columns, confidence |-> TableConfidence(columns, header),
   evidence |-> TableEvidence(sheet, header, columns)]

BelowHeader(sheet, segment, rows, header, start) ==
  LET data == {r \in DOMAIN rows : start <= r /\ r <= segment[2]}
  IN IF start > segment[2] THEN <<>>
     ELSE WithTable(TableWith(sheet, header, start, segment[2], InferColumns(rows, data, header)),
                    rows, data)

AddSegment(sheet, rows, segment) ==
  LET inside == RowsIn(rows, segment[1], segment[2])
      add(header) == BelowHeader(sheet, segment, rows, header,
                                 IF header = None THEN segment[1] ELSE header.row + 1)
  IN IF Len(inside) < 2 THEN <<>> ELSE add(DetectHeader(rows, inside))

AddSheet(sheet, rows) ==
  Each(CandidateSegments(rows), LAMBDA segment : AddSegment(sheet, rows, segment))

(* The rows of all tables follow each other, each with the place of its     *)
(* table.                                                                   *)
Numbered(detected) ==
  LET ofTable(i) == [r \in DOMAIN detected[i].rows |-> [detected[i].rows[r] EXCEPT !.table = i]]
  IN [tables |-> [i \in DOMAIN detected |-> detected[i].table],
      rows |-> Each([i \in DOMAIN detected |-> i], ofTable)]

Detect(workbook) ==
  LET ofSheet(sheet) == IF sheet.kind # "worksheet" \/ sheet.cells = <<>> THEN <<>>
                        ELSE AddSheet(sheet, CellsByRow(sheet))
  IN Numbered(Each(workbook, ofSheet))
=============================================================================
