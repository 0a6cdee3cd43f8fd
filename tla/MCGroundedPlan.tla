--------------------------- MODULE MCGroundedPlan ---------------------------
(* Instances of GroundedPlan: up to five prompts of a few facts.            *)
EXTENDS GroundedPlan

CONSTANTS f1, f2, f3

F(id, size) == [finding |-> id, size |-> size, evidence |-> {id}]
R(size) == [finding |-> None, size |-> size, evidence |-> {}]
Scope(whole, facts) == [whole |-> whole, base |-> 6, facts |-> facts]

MCScopes ==
  { Scope(20, <<F(f1, 5), R(3)>>),
    Scope(40, <<>>),
    Scope(40, <<F(f1, 5), R(20)>>),
    [Scope(40, <<F(f1, 5)>>) EXCEPT !.base = 19] }
  \cup {Scope(40, <<F(f1, a), F(f2, b), F(f3, 7), R(c), R(d)>>) : a, b \in {2, 7}, c, d \in {2, 7}}

Says(size, risks) == [size |-> size, wellFormed |-> TRUE, risks |-> risks]
Risk(ids, refs) == [ids |-> ids, refs |-> refs]
MCAnswers ==
  { Says(2, <<>>), Says(7, <<>>), Says(9, <<>>),
    Says(7, <<Risk(<<f1>>, <<f1>>), Risk(<<f2>>, <<>>)>>), Says(3, <<Risk(<<f1>>, <<f2>>)>>),
    Says(3, <<Risk(<<f1>>, <<>>), Risk(<<f1>>, <<>>)>>), Says(3, <<Risk(<<f3>>, <<f3>>)>>) }
=============================================================================
