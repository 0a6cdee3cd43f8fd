------------------------------ MODULE BoqRules ------------------------------
(* The deterministic checks of the BOQ inspector over the detected rows     *)
(* (rules.rs). Every check returns the findings it pushes, in order; a      *)
(* finding is named by its rule, sheet and subject, as its identifier is    *)
(* derived from them. Amounts are in thousandths, products in millionths.   *)
EXTENDS BoqDetection, BoqFormula

CONSTANT MaxComparisons  \* pairs that check_similar_rows compares at most

ASSUME MaxComparisonsAssumption == MaxComparisons \in Nat

Finding(rule, sheet, subject, cell) ==
  [rule |-> rule, sheet |-> sheet, subject |-> subject, cell |-> cell]

(* A rule is enabled if nothing is selected, or it or a group that holds it *)
(* is; a rule id is the sequence of its parts.                              *)
Enabled(selected, rule) == selected = {} \/ \E s \in selected : IsPrefix(s, rule)

RowId(row) == <<row.sheet, row.row>>

(* Where a finding points: at the cell a value was read from, at the cell   *)
(* of a formula, at a column of a row, at the table (its header, or its     *)
(* first row without one) or at nothing in particular.                      *)
SourceLocation(row, source) == <<source.col, row.row>>
FormulaLocation(cell) == <<cell.col, cell.row>>
RowLocation(row, col) == <<col, row.row>>
TableLocation(t, col) ==
  IF col = None THEN None ELSE <<col, IF t.header = None THEN t.start ELSE t.header.row>>
WorkbookLocation == None

If(condition, finding) == IF condition THEN <<finding>> ELSE <<>>
ItemRows(rows) == Select(rows, LAMBDA r : r.class = "item")

(* Decimal::round_dp of n/d millionths, half to even. *)
RoundDp(n, d, precision) ==
  LET unit == d * 10 ^ (6 - precision)
      rest == n % unit
      up == 2 * rest > unit \/ (2 * rest = unit /\ (n \div unit) % 2 = 1)
  IN ((n \div unit) + (IF up THEN 1 ELSE 0)) * 10 ^ (6 - precision)

(* Two amounts in millionths disagree by more than both tolerances. *)
Differs(expected, actual, settings) ==
  LET base == IF Abs(expected) > 1000000 THEN Abs(expected) ELSE 1000000
      difference == Abs(expected - actual)
  IN /\ difference > 1000 * settings.absolute
     /\ difference > (settings.relative * base) \div 1000

Mismatch(expected, d, actual, settings) ==
  Differs(RoundDp(expected, d, settings.precision), RoundDp(1000 * actual, 1, settings.precision),
          settings)
-----------------------------------------------------------------------------
RequiredRoles == <<"description", "unit", "quantity", "rate", "amount">>

CheckStructure(found, settings) ==
  LET ofTable(i) ==
        LET t == found.tables[i]
            unmapped == Ascending({c \in DOMAIN t.columns : t.columns[c].role = "unknown"})
        IN If(t.confidence < 60 * settings.lowConfidence,
              Finding(<<"boq", "low_confidence_structure">>, t.sheet, <<"table", i>>,
                      TableLocation(t, None)))
           \o Each(unmapped, LAMBDA c : <<Finding(<<"boq", "unmapped_column">>, t.sheet,
                     <<"table", i, "column", c>>, TableLocation(t, c))>>)
           \o Each(RequiredRoles, LAMBDA role : If(ColumnOf(t, role) = None,
                     Finding(<<"boq", "missing_column">>, t.sheet, <<"table", i, "role", role>>,
                             TableLocation(t, None))))
  IN IF found.tables = <<>>
     THEN <<Finding(<<"boq", "low_confidence_structure">>, "", <<"workbook">>, WorkbookLocation)>>
     ELSE Each([i \in DOMAIN found.tables |-> i], ofTable)

(* A rate that says the price is included needs neither rate nor amount, a  *)
(* lump sum or percentage neither quantity nor rate.                        *)
CheckMissingValues(found) ==
  LET ofRow(row) ==
        LET t == found.tables[row.table]
            lump == row.unit # None /\ row.unit.value \in {"ls", "%"}
            included == /\ row.rateText # None
                        /\ NormalizeText(row.rateText.value) \in {<<"included">>, <<"incl">>}
            missing(role) ==
              CASE role = "description" -> row.description = None
                [] role = "unit" -> row.unitText = None
                [] role = "quantity" -> ~lump /\ row.quantity = None
                [] role = "rate" -> ~lump /\ ~included /\ row.rate = None
                [] role = "amount" -> ~included /\ row.amount = None
        IN Each(RequiredRoles, LAMBDA role :
             If(ColumnOf(t, role) # None /\ missing(role),
                Finding(<<"boq", "missing", role>>, row.sheet, <<RowId(row), role>>,
                        RowLocation(row, ColumnOf(t, role).col))))
  IN Each(ItemRows(found.rows), ofRow)

Amounts(row) ==
  <<[field |-> "quantity", of |-> row.quantity], [field |-> "rate", of |-> row.rate],
    [field |-> "amount", of |-> row.amount]>>

CheckNumericValues(rows) ==
  LET ofField(row, a) ==
        IF a.of = None \/ a.of.value > 0 THEN <<>>
        ELSE <<Finding(<<"boq", IF a.of.value = 0 THEN "zero_value" ELSE "negative_value">>, row.sheet,
                       <<RowId(row), a.field>>, SourceLocation(row, a.of))>>
  IN Each(ItemRows(rows), LAMBDA row : Each(Amounts(row), LAMBDA a : ofField(row, a)))

(* Every formula of the workbook: without a cached number it is broken,     *)
(* with one it must agree with what the evaluator finds, if it finds a      *)
(* value. A panic of the evaluator is the finding "panic" here.             *)
CheckFormulas(workbook, settings) ==
  LET numeric(sheet) ==
        [p \in {<<c.row, c.col>> : c \in {d \in ToSet(sheet.cells) : d.v.k = "num"}} |->
           (CHOOSE c \in ToSet(sheet.cells) : <<c.row, c.col>> = p).v.n]
      ofCell(sheet, c) ==
        LET at(rule) == Finding(<<"boq", rule>>, sheet.name, <<c.col, c.row>>, FormulaLocation(c))
            x == Evaluate(numeric(sheet), c.f, <<c.row, c.col>>)
        IN IF c.f = None THEN <<>>
           ELSE IF c.v.k # "num" THEN <<at("broken_formula")>>
           ELSE IF x.k = "panic" THEN <<at("panic")>>
           ELSE IF ~IsValue(x) THEN <<at("formula_unverifiable")>>
           ELSE If(Mismatch(1000 * x.n, x.d, c.v.n, settings), at("formula_result_mismatch"))
  IN Each(workbook, LAMBDA sheet : Each(sheet.cells, LAMBDA c : ofCell(sheet, c)))

CheckSpreadsheetErrors(rows) ==
  Each(rows, LAMBDA row : Each(Ascending(row.errors), LAMBDA col :
    <<Finding(<<"boq", "spreadsheet_error">>, row.sheet, <<RowId(row), col>>,
             SourceLocation(row, [col |-> col]))>>))

CheckAmounts(rows, settings) ==
  Each(ItemRows(rows), LAMBDA row :
    IF None \in {row.quantity, row.rate, row.amount} THEN <<>>
    ELSE If(Mismatch(row.quantity.value * row.rate.value, 1, row.amount.value, settings),
            Finding(<<"boq", "amount_mismatch">>, row.sheet, <<RowId(row)>>, SourceLocation(row, row.amount))))
-----------------------------------------------------------------------------
UnitKey(row) == IF row.unit # None THEN <<row.unit.value>>
                ELSE IF row.unitText = None THEN <<"unknown">>
                ELSE NormalizeText(row.unitText.value)
ValueKey(source) == IF source = None THEN <<>> ELSE <<source.value>>
CurrencyKey(row) == IF row.currency = None THEN "unknown" ELSE row.currency.value
DescriptionKey(row) == NormalizeText(row.description.value)
SectionKey(row) == [i \in DOMAIN row.path |-> NormalizeText(row.path[i])]

(* row_signature: what two rows of one description are compared by. *)
RowSignature(row) ==
  <<UnitKey(row), ValueKey(row.quantity), ValueKey(row.rate), ValueKey(row.amount)>>

Described(rows) == Select(ItemRows(rows), LAMBDA r : r.description # None)

(* Each row against the first with the same key, and against the first      *)
(* with the same description if that is on another sheet.                   *)
CheckExactDuplicates(rows) ==
  LET items == Described(rows)
      key(i) == <<DescriptionKey(items[i]), RowSignature(items[i])>>
      least(S) == CHOOSE i \in S : \A j \in S : i <= j
      finding(rule, i, j) == Finding(<<"boq", rule>>, items[j].sheet,
        <<RowId(items[i]), RowId(items[j])>>, SourceLocation(items[j], items[j].description))
      ofRow(j) ==
        LET i == least({k \in 1 .. j : key(k) = key(j)})
            d == least({k \in 1 .. j : DescriptionKey(items[k]) = DescriptionKey(items[j])})
        IN If(i # j, finding(IF items[i].sheet = items[j].sheet THEN "exact_duplicate"
                             ELSE "cross_sheet_duplicate", i, j))
           \o If(items[d].sheet # items[j].sheet /\ RowSignature(items[d]) # RowSignature(items[j]),
                 finding("cross_sheet_inconsistency", d, j))
  IN Each([i \in DOMAIN items |-> i], ofRow)

(* Every two described items in order, as long as the limit of comparisons  *)
(* is not reached; what comes after it is not compared, and nothing says so.*)
CheckSimilarRows(rows, settings) ==
  LET items == Described(rows)
      n == Len(items)
      pairs == Each([i \in 1 .. n |-> i], LAMBDA i : [k \in 1 .. n - i |-> <<i, i + k>>])
      compared == SubSeq(pairs, 1, Capped(Len(pairs), MaxComparisons))
      ofPair(left, right) ==
        If(/\ DescriptionKey(left) # DescriptionKey(right)
           /\ SimilarAtLeast(left.description.value, right.description.value, settings.similarity),
           Finding(<<"boq", IF /\ left.unit # None /\ right.unit # None
                               /\ left.unit.value # right.unit.value
                            THEN "inconsistent_unit" ELSE "fuzzy_duplicate">>,
                   right.sheet, <<RowId(left), RowId(right)>>, SourceLocation(right, right.description)))
  IN Each(compared, LAMBDA p : ofPair(items[p[1]], items[p[2]]))

\* Mutant: a subtotal without an amount is passed over.
ClosesWithAmount(row) == row.class = "subtotal" /\ row.amount # None

(* check_subtotals: one pass over the rows of a table. A subtotal closes a  *)
(* running sum, with an amount or without; a total does not.                *)
Closes(row) == row.class = "subtotal"

\* The sums after the first k of the rows.
Sums(rows) ==
  LET sums[k \in 0 .. Len(rows)] ==
        IF k = 0 THEN [running |-> 0, items |-> 0, total |-> 0, all |-> 0]
        ELSE CASE rows[k].class = "item" /\ rows[k].amount # None ->
                    [sums[k - 1] EXCEPT !.running = @ + rows[k].amount.value, !.items = @ + 1,
                                        !.total = @ + rows[k].amount.value, !.all = @ + 1]
               [] Closes(rows[k]) -> [sums[k - 1] EXCEPT !.running = 0, !.items = 0]
               [] OTHER -> sums[k - 1]
  IN sums

CheckSubtotals(found, settings) ==
  LET wrong(sum, count, row) == /\ row.amount # None /\ count > 0
                                /\ Mismatch(1000 * sum, 1, row.amount.value, settings)
      finding(rule, row) == Finding(<<"boq", rule>>, row.sheet, <<RowId(row)>>, SourceLocation(row, row.amount))
      ofRow(row, before) ==
        CASE Closes(row) -> If(wrong(before.running, before.items, row), finding("subtotal_mismatch", row))
          [] row.class = "total" -> If(wrong(before.total, before.all, row), finding("total_mismatch", row))
          [] OTHER -> <<>>
      ofRows(rows) == Each([k \in DOMAIN rows |-> k], LAMBDA k : ofRow(rows[k], Sums(rows)[k - 1]))
      ofTable(i) == ofRows(Select(found.rows, LAMBDA row : row.table = i))
  IN Each([i \in DOMAIN found.tables |-> i], ofTable)
-----------------------------------------------------------------------------
(* median, times two, so that the mean of two middle values is whole. *)
DoubleMedian(values) ==
  LET sorted == Order(values)
      n == Len(values)
  IN IF n = 0 THEN 0
     ELSE values[sorted[(n + 1) \div 2]] + values[sorted[(n \div 2) + 1]]

(* The items of each key, in the order of the first; the code has the       *)
(* groups in the order of their keys.                                       *)
GroupsBy(items, keys) ==
  LET first == Ascending({i \in DOMAIN items : \A j \in 1 .. i - 1 : keys[j] # keys[i]})
      of(i) == Ascending({j \in DOMAIN items : keys[j] = keys[i]})
  IN [g \in DOMAIN first |-> [r \in DOMAIN of(first[g]) |-> items[of(first[g])[r]]]]

(* check_value_outliers: at least seven peers of one table, unit, currency  *)
(* and section; far is six deviations and half the median, or, when half of *)
(* the peers agree, a factor of ten.                                        *)
IsOutlier(value, values) ==
  LET m == DoubleMedian(values)
      mad == DoubleMedian([i \in DOMAIN values |-> Abs(2 * values[i] - m)])  \* four times the MAD
  IN /\ Len(values) >= 7 /\ m # 0
     /\ IF mad = 0
        THEN 2 * Abs(value) >= 10 * Abs(m) \/ 20 * Abs(value) <= Abs(m)
        ELSE /\ 2 * Abs(2 * value - m) > 6 * mad
             /\ 2 * Abs(2 * value - m) > Abs(m)

CheckValueOutliers(rows) ==
  LET field(f, row) == Amounts(row)[f].of
      key(row) == <<row.table, UnitKey(row), CurrencyKey(row), SectionKey(row)>>
      ofGroup(f, group) ==
        LET values == [i \in DOMAIN group |-> field(f, group[i]).value]
        IN Each(group, LAMBDA row :
             If(IsOutlier(field(f, row).value, values),
                Finding(<<"boq", "value_outlier">>, row.sheet, <<RowId(row), Amounts(row)[f].field>>,
                        SourceLocation(row, field(f, row)))))
      grouped(peers) == GroupsBy(peers, [i \in DOMAIN peers |-> key(peers[i])])
      groups(f) == grouped(Select(ItemRows(rows), LAMBDA r : field(f, r) # None))
  IN Each(<<1, 2, 3>>, LAMBDA f : Each(groups(f), LAMBDA g : ofGroup(f, g)))

(* check_pareto: in each table, currency and section the leading amounts    *)
(* that reach four fifths of the total; zeros are counted with the rest.    *)
ParetoKey(row) == <<row.table, CurrencyKey(row), SectionKey(row)>>

ParetoOf(group) ==
  LET amount(i) == group[i].amount.value
      leading == Order([i \in DOMAIN group |-> -amount(i)])
      sum[k \in 0 .. Len(group)] == IF k = 0 THEN 0 ELSE sum[k - 1] + amount(leading[k])
      total == sum[Len(group)]
      top == CHOOSE k \in 1 .. Len(group) :
               5 * sum[k] >= 4 * total /\ \A l \in 1 .. k - 1 : 5 * sum[l] < 4 * total
  IN [context |-> ParetoKey(group[1]), total |-> total, top |-> top,
      count |-> Len(group), share |-> sum[top], highest |-> group[leading[1]]]

Pareto(rows) ==
  LET positive == Select(ItemRows(rows), LAMBDA r : r.amount # None /\ r.amount.value >= 0)
      groups == Select(GroupsBy(positive, [i \in DOMAIN positive |-> ParetoKey(positive[i])]),
                       LAMBDA group : \E i \in DOMAIN group : group[i].amount.value # 0)
  IN [g \in DOMAIN groups |-> ParetoOf(groups[g])]

CheckPareto(rows) ==
  Each(Pareto(rows), LAMBDA p :
    <<Finding(<<"boq", "pareto_summary">>, p.highest.sheet, p.context, SourceLocation(p.highest, p.highest.amount))>>)
-----------------------------------------------------------------------------
(* run_rules: all checks in their order; push keeps what is enabled. The    *)
(* sort that follows puts the findings of one cell side by side; the        *)
(* findings are kept in the order of the checks here.                       *)
RunRules(workbook, found, settings, selected) ==
  Select(CheckStructure(found, settings) \o CheckMissingValues(found)
            \o CheckNumericValues(found.rows) \o CheckFormulas(workbook, settings)
            \o CheckSpreadsheetErrors(found.rows) \o CheckAmounts(found.rows, settings)
            \o CheckExactDuplicates(found.rows) \o CheckSimilarRows(found.rows, settings)
            \o CheckSubtotals(found, settings) \o CheckValueOutliers(found.rows)
            \o CheckPareto(found.rows),
            LAMBDA f : Enabled(selected, f.rule))
=============================================================================
