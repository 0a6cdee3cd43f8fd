------------------------------ MODULE BoqText ------------------------------
(* What the BOQ inspector reads out of the text of a cell: normalized       *)
(* words, units, currencies, similarity and numbers (normalization.rs).     *)
(* A text is a sequence of words, each a value of the small vocabulary      *)
(* below; Spelling gives the symbols of a word, as coarse as parse_number   *)
(* tells symbols apart: "x" is any letter but e, "e" the letter e.          *)
EXTENDS Integers, Sequences, SequencesExt, FiniteSets, TLC

CONSTANT None  \* what is absent: a unit, a currency, a number

(* The elements of a set of naturals in their order, those of a sequence    *)
(* that pass a test, and what each of them gives. The prover knows nothing  *)
(* of SelectSeq or SortSeq, so the place of an element is counted instead.  *)
Ascending(S) ==
  [k \in 1 .. Cardinality(S) |-> CHOOSE n \in S : Cardinality({m \in S : m < n}) = k - 1]

Select(seq, Test(_)) ==
  LET at == Ascending({i \in DOMAIN seq : Test(seq[i])})
  IN [k \in DOMAIN at |-> seq[at[k]]]

Each(seq, F(_)) == FlattenSeq([i \in DOMAIN seq |-> F(seq[i])])

(* The places of a list of numbers in the order of the numbers, of equals   *)
(* the earlier first: a stable sort.                                        *)
Order(numbers) ==
  LET before(j, i) == numbers[j] < numbers[i] \/ (numbers[j] = numbers[i] /\ j < i)
  IN [k \in DOMAIN numbers |->
        CHOOSE i \in DOMAIN numbers : Cardinality({j \in DOMAIN numbers : before(j, i)}) = k - 1]

(* What normalize_text makes of a word: letter case, marks and variants of  *)
(* letters go, and a word of punctuation only disappears.                   *)
Folded == "Qty" :> "qty" @@ "M2" :> "m2" @@ "Wall" :> "wall" @@ "-" :> ""

NormalizeText(t) ==
  LET fold(w) == IF w \in DOMAIN Folded THEN Folded[w] ELSE w
  IN Select([i \in DOMAIN t |-> fold(t[i])], LAMBDA w : w # "")

(* The aliases of a unit as they read once the blanks are gone. *)
UnitAliases ==
  <<"m2">> :> "m2" @@ <<"sq", "m">> :> "m2" @@ <<"m">> :> "m" @@
  <<"no">> :> "no" @@ <<"ls">> :> "ls" @@ <<"lump", "sum">> :> "ls" @@
  <<"percent">> :> "%"

NormalizeUnit(t) ==
  LET n == NormalizeText(t)
  IN IF n \in DOMAIN UnitAliases THEN UnitAliases[n] ELSE None

(* Codes and names come before symbols, and among the codes the order of    *)
(* the table decides; a code counts wherever it occurs in the text.         *)
CodeOrder == <<"EGP", "USD", "EUR">>
CodesIn == "EGP" :> "EGP" @@ "pound" :> "EGP" @@ "USD" :> "USD" @@ "euro" :> "EUR"
SymbolOrder == <<"EUR", "GBP", "USD">>
SymbolsIn == "$" :> "USD"

DetectCurrency(t) ==
  LET found(table) == {table[t[i]] : i \in {j \in DOMAIN t : t[j] \in DOMAIN table}}
      first(order, S) == order[CHOOSE i \in DOMAIN order :
                           order[i] \in S /\ \A j \in 1 .. i - 1 : order[j] \notin S]
  IN IF found(CodesIn) # {} THEN first(CodeOrder, found(CodesIn))
     ELSE IF found(SymbolsIn) # {} THEN first(SymbolOrder, found(SymbolsIn))
     ELSE None

(* text_similarity of two texts is at least percent: the words they share   *)
(* over all their words.                                                    *)
SimilarAtLeast(t, u, percent) ==
  LET a == ToSet(NormalizeText(t))
      b == ToSet(NormalizeText(u))
  IN /\ a # {} /\ b # {}
     /\ 100 * Cardinality(a \intersect b) >= percent * Cardinality(a \union b)

-----------------------------------------------------------------------------
(* parse_number. A numeral is a sequence of symbols; its value is an        *)
(* integer in thousandths, which is exact for the at most three decimals    *)
(* that the instances use.                                                  *)
DigitOf == [i \in 0 .. 9 |-> ToString(i)]
Digits == {DigitOf[i] : i \in 0 .. 9}
ValueOf(d) == CHOOSE i \in 0 .. 9 : d \in Digits => DigitOf[i] = d
Separators == {".", ","}
Numeric == Digits \union Separators \union {"+", "-", "e"}

Places(s, c) == {i \in DOMAIN s : s[i] = c}
Before(s, i) == SubSeq(s, 1, i - 1)
After(s, i) == SubSeq(s, i + 1, Len(s))
LastOf(S) == CHOOSE i \in S : \A j \in S : j <= i

(* trim_numeric_affixes: what is left between the outermost symbols that    *)
(* may belong to a number, the letter e among them.                         *)
TrimAffixes(s) ==
  LET keep == {i \in DOMAIN s : s[i] \in Numeric}
  IN IF keep = {} THEN <<>>
     ELSE SubSeq(s, CHOOSE i \in keep : \A j \in keep : i <= j, LastOf(keep))

(* rewrite_with_decimal: the last occurrence of the decimal separator       *)
(* becomes the point, every other separator goes.                           *)
WithDecimal(s, sep) ==
  LET last == LastOf(Places(s, sep))
      strip(u) == Select(u, LAMBDA c : c \notin Separators)
  IN strip(Before(s, last)) \o <<".">> \o strip(After(s, last))

Without(s, sep) == Select(s, LAMBDA c : c # sep)

(* The group after the i-th separator of positions ps is three digits. *)
IsThousandsGroup(s, ps, p) ==
  LET later == {q \in ps : q > p}
      end == IF later = {} THEN Len(s)
             ELSE (CHOOSE q \in later : \A r \in later : q <= r) - 1
  IN end - p = 3 /\ \A i \in p + 1 .. end : s[i] \in Digits

(* normalize_separators: the numeral with a point at most, and the          *)
(* confidence of the reading in percent.                                    *)
NormalizeSeparators(s) ==
  LET dots == Places(s, ".")
      commas == Places(s, ",")
      sep == IF dots # {} THEN "." ELSE ","
      ps == Places(s, sep)
      lead == Cardinality({i \in DOMAIN s : i < LastOf(ps) /\ s[i] \in Digits})
  IN IF dots # {} /\ commas # {}
     THEN <<WithDecimal(s, IF LastOf(dots) > LastOf(commas) THEN "." ELSE ","), 95>>
     ELSE IF ps = {} THEN <<s, 100>>
     ELSE IF Cardinality(ps) > 1
     THEN IF \A p \in ps : IsThousandsGroup(s, ps, p)
          THEN <<Without(s, sep), 90>> ELSE <<WithDecimal(s, sep), 70>>
     ELSE IF Len(s) - LastOf(ps) = 3 /\ lead \in 1 .. 3
     THEN <<Without(s, sep), 70>> ELSE <<WithDecimal(s, sep), 90>>

(* Decimal::from_str of an optional sign, digits and at most one point, in  *)
(* thousandths; exponents are not used by the instances.                    *)
DecimalOf(s) ==
  LET signed == s # <<>> /\ s[1] \in {"+", "-"}
      body == IF signed THEN Tail(s) ELSE s
      dots == Places(body, ".")
      whole == IF dots = {} THEN body ELSE Before(body, LastOf(dots))
      part == IF dots = {} THEN <<>> ELSE After(body, LastOf(dots))
      thousandths == whole \o [i \in 1 .. 3 |-> IF i <= Len(part) THEN part[i] ELSE "0"]
      read[k \in 0 .. Len(thousandths)] ==
        IF k = 0 THEN 0 ELSE 10 * read[k - 1] + ValueOf(thousandths[k])
      size == read[Len(thousandths)]
  IN IF \/ \E i \in DOMAIN body : body[i] \notin Digits \union {"."}
        \/ Cardinality(dots) > 1
        \/ whole \o part = <<>>
     THEN None ELSE [value |-> IF signed /\ s[1] = "-" THEN -size ELSE size]

EndsWith(s, c) == s # <<>> /\ Last(s) = c

NumberOrNone(number, negative, percent, confidence) ==
  IF number = None THEN None
  ELSE [value |-> (IF ~negative THEN number.value
                   ELSE IF number.value < 0 THEN number.value ELSE -number.value)
                  \div (IF percent THEN 100 ELSE 1),
        confidence |-> confidence]

Reading(read, negative, percent) == NumberOrNone(DecimalOf(read[1]), negative, percent, read[2])

Numeral(text, negative, percent) ==
  IF text = <<>> \/ \E i \in DOMAIN text : text[i] \notin Numeric THEN None
  ELSE Reading(NormalizeSeparators(text), negative, percent)

WithoutPercent(s, negative) ==
  Numeral(TrimAffixes(IF EndsWith(s, "%") THEN Front(s) ELSE s), negative, EndsWith(s, "%"))

WithoutMinus(s, negative) ==
  WithoutPercent(IF EndsWith(s, "-") THEN Front(s) ELSE s, negative \/ EndsWith(s, "-"))

Parenthesized(s) == s # <<>> /\ s[1] = "(" /\ Last(s) = ")"
WithoutParentheses(s) ==
  WithoutMinus(IF Parenthesized(s) THEN SubSeq(s, 2, Len(s) - 1) ELSE s, Parenthesized(s))

ParseNumber(raw) == WithoutParentheses(Select(raw, LAMBDA c : c # " "))

(* The spelling of a word; most of them are only letters. *)
Lettered == {"no", "qty", "Qty", "m", "sum", "ls", "wall", "Wall", "Block", "works", "USD", "Total",
             "total", "subtotal", "grand"}
SpellingOf(w) == CASE w \in {"m2", "M2"} -> <<"x", "2">>
                   [] w = "-" -> <<"-">>
                   [] w = "2" -> <<"2">>
                   [] w = "1,5" -> <<"1", ",", "5">>
                   [] w = "(4)" -> <<"(", "4", ")">>
                   [] w \in Lettered \cup {"$"} -> <<"x">>
                   [] OTHER -> <<"x", "e", "x">>

NumberInText(t) == ParseNumber(FlattenSeq([i \in DOMAIN t |-> SpellingOf(t[i])]))
=============================================================================
