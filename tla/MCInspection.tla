---------------------------- MODULE MCInspection ----------------------------
(* Instances of Inspection: small bills of quantities, sheet by sheet.      *)
EXTENDS Inspection

Words(w) == [k |-> "text", t |-> w]
Num(n) == [k |-> "num", n |-> n]
Blank == [k |-> "empty"]
Cell(r, c, v) == [row |-> r, col |-> c, v |-> v, f |-> None, text |-> 2, formula |-> 0]
Computed(r, c, v, f) == [row |-> r, col |-> c, v |-> v, f |-> f, text |-> 1, formula |-> 3]

Op(o) == [t |-> o]
Ref(r, c) == [t |-> "cell", at |-> <<r, c>>]
Expr(tokens) == [k |-> "expr", tokens |-> tokens]
SumOver(from, to) == [k |-> "sum", from |-> from, to |-> to]

Header == << Cell(0, 0, Words(<<"description">>)), Cell(0, 1, Words(<<"unit">>)),
             Cell(0, 2, Words(<<"Qty">>)), Cell(0, 3, Words(<<"rate">>)), Cell(0, 4, Words(<<"amount">>)) >>

Item(r, words, unit, q, p, a) ==
  << Cell(r, 0, Words(words)), Cell(r, 1, unit), Cell(r, 2, q), Cell(r, 3, p), a >>

\* The rows a bill is made of, at row r.
Line(r, kind) ==
  LET amount(n) == Cell(r, 4, Num(n))
      m2 == Words(<<"m2">>)
  IN CASE kind = "item"     -> Item(r, <<"reinforced", "Wall">>, m2, Num(2000), Num(3000), amount(6000))
       [] kind = "wrong"    -> Item(r, <<"reinforced", "Wall">>, Words(<<"M2">>), Num(2000), Num(3000), amount(7000))
       [] kind = "similar"  -> Item(r, <<"Wall", "reinforced", "no">>, Words(<<"no">>), Num(2000), Words(<<"incl">>), Cell(r, 4, Blank))
       [] kind = "lump"     -> Item(r, <<"earthworks">>, Words(<<"lump", "sum">>), Cell(r, 2, Blank).v, Blank, Cell(r, 4, Words(<<"$", "1,5">>)))
       [] kind = "negative" -> Item(r, <<"earthworks">>, Words(<<"wall">>), Num(0), Num(3000), Cell(r, 4, Words(<<"(4)">>)))
       [] kind = "free"     -> Item(r, <<"earthworks">>, m2, Num(2000), Num(0), amount(0))
       [] kind = "product"  -> Item(r, <<"earthworks">>, m2, Num(2000), Num(1000),
                                    Computed(r, 4, Num(2000), Expr(<<Ref(r, 2), Op("*"), Ref(r, 3)>>)))
       [] kind = "broken"   -> Item(r, <<"earthworks">>, m2, Num(2000), [k |-> "error"],
                                    Computed(r, 4, Blank, Expr(<<Ref(r, 2), Op("*"), Ref(r, 3)>>)))
       [] kind = "huge"     -> Item(r, <<"earthworks">>, m2, Num(1000), Num(1000),
                                    Computed(r, 4, Num(1000), Expr(<<[t |-> "number", n |-> 900000], Op("+"),
                                                                     [t |-> "number", n |-> 900000]>>)))
       [] kind = "subtotal" -> << Cell(r, 0, Words(<<"subtotal">>)),
                                  Computed(r, 4, Num(12000), SumOver(<<1, 4>>, <<r - 1, 4>>)) >>
       [] kind = "open"     -> << Cell(r, 0, Words(<<"sub", "total">>)) >>
       [] kind = "total"    -> << Cell(r, 0, Words(<<"grand", "total">>)), amount(13000) >>
       [] kind = "heading"  -> << Cell(r, 0, Words(<<"Block", "2">>)) >>
       [] kind = "title"    -> << Cell(r, 0, Words(<<"works">>)) >>
       [] kind = "blank"    -> << >>

Bill(name, lines) ==
  [name |-> name, kind |-> "worksheet", merged |-> <<>>, declared |-> [row |-> Len(lines), col |-> 4],
   records |-> Header \o FlattenSeq([i \in DOMAIN lines |-> Line(i, lines[i])])]

Entry == [safe |-> TRUE, encrypted |-> FALSE, size |-> 20, packed |-> 10]
File(ext, pages) == [ext |-> ext, regular |-> TRUE, size |-> 9, entries |-> <<Entry>>, sheets |-> pages]

Kinds == {"item", "wrong", "similar", "lump", "negative", "product", "broken", "subtotal", "open",
          "total", "heading", "title", "free"}
OneSheet == {File("xlsx", <<Bill("S1", <<a, b, "total">>)>>) : a, b \in Kinds}
\* Sections, duplicates and closed sums need more rows of fewer kinds.
LongBills == {File("xls", <<Bill("S1", <<"item", a, b, c>>)>>) : a, b, c \in {"item", "subtotal", "open", "title"}}
TwoSheets == {File("xls", <<Bill("S1", <<a, "item">>), Bill("S2", <<b>>)>>) : a, b \in {"item", "wrong", "similar", "broken"}}

\* Seven and eight peers, for the statistics.
Peers(n, q) ==
  FlattenSeq([i \in 1 .. n |-> << Cell(i, 0, Words(<<"earthworks">>)), Cell(i, 2, Num(1000 * q[i])) >>])
Statistics ==
  {File("xlsx", << [name |-> "S1", kind |-> "worksheet", merged |-> <<>>, declared |-> [row |-> n, col |-> 4],
                    records |-> << Cell(0, 0, Words(<<"description">>)), Cell(0, 2, Words(<<"Qty">>)) >>
                                \o Peers(n, [i \in 1 .. n |-> IF i <= far THEN high ELSE IF i % 2 = 0 THEN 2 ELSE low])] >>) :
     n \in {6, 7, 8}, far \in 0 .. 4, high \in {20, 50}, low \in {1, 2}}

\* Files that the limits refuse, and sheets that hold no cells of a table.
Small == Bill("S1", <<"item">>)
Refused ==
  { [File("xlsx", <<Small>>) EXCEPT !.regular = FALSE], File("csv", <<Small>>),
    [File("xlsx", <<Small>>) EXCEPT !.size = 11],
    [File("xlsx", <<Small>>) EXCEPT !.entries = <<Entry, Entry, Entry>>],
    [File("xlsx", <<Small>>) EXCEPT !.entries[1].packed = 1],
    [File("xlsx", <<Small>>) EXCEPT !.entries[1].encrypted = TRUE],
    File("xlsx", <<Small, [Small EXCEPT !.name = "S2"], [Small EXCEPT !.name = "S3"]>>),
    File("xlsx", <<[Small EXCEPT !.declared.row = 40]>>),
    File("xlsx", <<[Small EXCEPT !.records[7].row = 40]>>),
    File("xls", <<[Small EXCEPT !.records[7].text = 9]>>),
    File("xls", <<[Small EXCEPT !.merged = <<[top |-> 1, row |-> 2, col |-> 60]>>]>>),
    File("xlsx", <<[Small EXCEPT !.kind = "chart_sheet"], [Small EXCEPT !.name = "S2"]>>),
    File("xls", <<[Small EXCEPT !.kind = "chart_sheet"]>>),
    File("xlsx", <<Bill("S1", <<"item", "item", "item", "item", "item", "item">>)>>),
    File("xlsx", <<Bill("S1", <<"item", "huge">>)>>),
    File("xls", <<Bill("S1", <<"item", "wrong", "negative", "product", "subtotal">>)>>) }

\* A title cell merged across the header.
Titled == {File("xlsx", <<[Small EXCEPT !.merged = <<[top |-> 0, row |-> 0, col |-> 4]>>]>>)}

MCFiles == Titled \cup OneSheet \cup LongBills \cup TwoSheets \cup Statistics \cup Refused
FewFiles == TwoSheets \cup Refused

MCLimits == [fileSize |-> 10, entries |-> 2, entrySize |-> 30, archiveSize |-> 45, ratio |-> 3, sheets |-> 2,
             rows |-> 20, columns |-> 20, cells |-> 30, merged |-> 1, cellText |-> 4, formula |-> 4,
             totalText |-> 64]

\* A summary only, one of the lists (30 characters), all of them (too long).
Short == [summary |-> 5, prioritizedRisks |-> <<>>, recommendations |-> <<>>, rfiSuggestions |-> <<>>,
          limitations |-> <<>>, assumptions |-> <<>>]
MCReviews ==
  { Short, [Short EXCEPT !.summary = 10, !.recommendations = <<4, 4>>],
    [[i \in DOMAIN Short |-> <<4>>] EXCEPT !.summary = 1] }

Defaults == [absolute |-> 10, relative |-> 1, precision |-> 2, similarity |-> 60, lowConfidence |-> 65]
MCRequests ==
  { [sameRevision |-> TRUE, wellFormedRules |-> TRUE, selected |-> {}, settings |-> Defaults],
    [sameRevision |-> TRUE, wellFormedRules |-> TRUE, selected |-> {<<"boq", "missing">>},
     settings |-> [Defaults EXCEPT !.similarity = 40]] }
OneRequest == {[sameRevision |-> TRUE, wellFormedRules |-> TRUE, selected |-> {}, settings |-> Defaults]}
=============================================================================
