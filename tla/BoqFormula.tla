----------------------------- MODULE BoqFormula -----------------------------
(* The formula evaluator of the BOQ inspector (formula.rs): arithmetic over *)
(* numbers and cells of one sheet, and one SUM of a range. A formula is     *)
(* either a SUM with its range or a sequence of tokens; an argument of SUM  *)
(* that is no range and what tokenize refuses are "bad". Values are         *)
(* fractions of thousandths; Decimal's limit is the parameter MaxDecimal.   *)
EXTENDS Integers, Sequences, FiniteSets, FiniteSetsExt, SequencesExt

CONSTANT MaxDecimal  \* the largest number of thousandths a decimal holds

Unverifiable(reason) == [k |-> "unverifiable", reason |-> reason]
Panic == [k |-> "panic"]
Value(n, d) == [k |-> "value", n |-> n, d |-> d]
IsValue(x) == x.k = "value"

Overflows(n, d) == n > MaxDecimal * d \/ -n > MaxDecimal * d

(* checked_mul, checked_div and checked_sub report an overflow; the         *)
(* operators += and -= of expression() panic.                               *)
Checked(n, d) == IF Overflows(n, d) THEN Unverifiable("arithmetic_overflow") ELSE Value(n, d)
Unchecked(n, d) == IF Overflows(n, d) THEN Panic ELSE Value(n, d)

Plus(x, y) == Unchecked(x.n * y.d + y.n * x.d, x.d * y.d)
Minus(x, y) == Unchecked(x.n * y.d - y.n * x.d, x.d * y.d)
Times(x, y) == Checked(x.n * y.n, 1000 * x.d * y.d)
Negate(x) == Checked(-x.n, x.d)
Over(x, y) ==
  IF y.n = 0 THEN Unverifiable("division_by_zero")
  ELSE IF y.n < 0 THEN Checked(-1000 * x.n * y.d, -x.d * y.n)
  ELSE Checked(1000 * x.n * y.d, x.d * y.n)

(* The parser, by recursive descent. parse is the function of the whole     *)
(* grammar, from a rule, what stands left of the position and the position  *)
(* in the tokens ts to a value or a refusal with the position behind it;    *)
(* each operator says what it is for one rule.                              *)
Rules == {"expression", "terms", "term", "factors", "factor"}
Operands == [k : {"value"}, n : Int, d : Int] \cup [k : {"unverifiable"}, reason : STRING] \cup {Panic}
Start == Value(0, 1)

At(ts, i) == IF i <= Len(ts) THEN ts[i].t ELSE "end"
Result(x, i) == [x |-> x, next |-> i]

ExpressionTail(parse, left, ts, i) ==
  IF ~IsValue(left) \/ At(ts, i) \notin {"+", "-"} THEN Result(left, i)
  ELSE LET right == parse["term", Start, i + 1]
           x == IF ~IsValue(right.x) THEN right.x
                ELSE IF At(ts, i) = "+" THEN Plus(left, right.x) ELSE Minus(left, right.x)
       IN parse["terms", x, right.next]

Expression(parse, ts, i) ==
  LET first == parse["term", Start, i]
  IN IF \E j \in DOMAIN ts : ts[j].t = "bad" THEN Result(Unverifiable("unsupported_formula_syntax"), i)
     ELSE parse["terms", first.x, first.next]

TermTail(parse, left, ts, i) ==
  IF ~IsValue(left) \/ At(ts, i) \notin {"*", "/"} THEN Result(left, i)
  ELSE LET right == parse["factor", Start, i + 1]
           x == IF ~IsValue(right.x) THEN right.x
                ELSE IF At(ts, i) = "*" THEN Times(left, right.x) ELSE Over(left, right.x)
       IN parse["factors", x, right.next]

Term(parse, i) ==
  LET first == parse["factor", Start, i] IN parse["factors", first.x, first.next]

Factor(parse, ts, i, cells) ==
  CASE At(ts, i) = "number" -> Result(Value(ts[i].n, 1), i + 1)
    [] At(ts, i) = "cell" ->
         Result(IF ts[i].at \in DOMAIN cells THEN Value(cells[ts[i].at], 1)
                ELSE Unverifiable("referenced_cell_not_numeric"), i + 1)
    [] At(ts, i) = "-" ->
         LET f == parse["factor", Start, i + 1]
         IN Result(IF IsValue(f.x) THEN Negate(f.x) ELSE f.x, f.next)
    [] At(ts, i) = "+" -> parse["factor", Start, i + 1]
    [] At(ts, i) = "(" ->
         LET e == parse["expression", Start, i + 1]
         IN IF ~IsValue(e.x) THEN e
            ELSE IF At(ts, e.next) # ")" THEN Result(Unverifiable("unclosed_parenthesis"), e.next)
            ELSE Result(e.x, e.next + 1)
    [] OTHER -> Result(Unverifiable("expected_operand"), i)

Parsed(ts, cells) ==
  LET parse[rule \in Rules, left \in Operands, i \in Nat] ==
        CASE rule = "expression" -> Expression(parse, ts, i)
          [] rule = "terms" -> ExpressionTail(parse, left, ts, i)
          [] rule = "term" -> Term(parse, i)
          [] rule = "factors" -> TermTail(parse, left, ts, i)
          [] rule = "factor" -> Factor(parse, ts, i, cells)
  IN parse["expression", Start, 1]

(* evaluate_sum: one range of the sheet that does not hold the formula;     *)
(* cells without a number count as nothing.                                 *)
EvaluateSum(cells, from, to, self) ==
  LET inside(p) == /\ from[1] <= p[1] /\ p[1] <= to[1]
                   /\ from[2] <= p[2] /\ p[2] <= to[2]
      add(p, x) == IF IsValue(x) THEN Plus(x, Value(cells[p], 1)) ELSE x
  IN IF from[1] > to[1] \/ from[2] > to[2] THEN Unverifiable("reversed_sum_range")
     ELSE IF inside(self) THEN Unverifiable("self_reference")
     ELSE FoldSet(add, Value(0, 1), {p \in DOMAIN cells : inside(p)})

(* evaluate: numeric is the function from the positions of the sheet's      *)
(* numbers to them; the formula's own cached value is not among them.       *)
Evaluate(numeric, formula, self) ==
  LET cells == [p \in DOMAIN numeric \ {self} |-> numeric[p]]
      parsed == Parsed(formula.tokens, cells)
  IN IF formula.k = "sum" THEN EvaluateSum(cells, formula.from, formula.to, self)
     ELSE IF formula.k = "bad" THEN Unverifiable("sum_requires_range")
     ELSE IF formula.tokens = <<>> THEN Unverifiable("empty_formula")
     ELSE IF IsValue(parsed.x) /\ parsed.next <= Len(formula.tokens)
          THEN Unverifiable("unsupported_trailing_syntax")
     ELSE parsed.x
=============================================================================
