------------------------- MODULE GroundedPlanProofs -------------------------
(***************************************************************************)
(* The plan of a review, for any stored output, any answers and any limits: *)
(* no fact is lost, merging costs at most as many turns as there were      *)
(* prompts, and it never gets stuck when two answers fit into one prompt.  *)
(*                                                                         *)
(* The model folds over sequences (the size of a prompt, the facts of all  *)
(* prompts).  What the folds give is proved first, by the least place      *)
(* where a statement about a sequence fails.                               *)
(***************************************************************************)
EXTENDS GroundedPlan, SequenceTheorems, WellFoundedInduction, TLAPS

-----------------------------------------------------------------------------
(* Sums over sequences and concatenations: what the folds of the model give  *)

\* The numbers are well-founded: every set of them has a least element.  Facts
\* about all the elements of a sequence are proved by the least place where they fail.
LEMMA LeastElement ==
  ASSUME NEW T, T \subseteq Nat, T # {}
  PROVE  \E n \in T : \A m \in T : n <= m
<1>1. PICK n \in T : \A m \in T : ~ (<<m, n>> \in OpToRel(<, Nat))
  BY NatLessThanWellFounded, WFMin
<1>2. ASSUME NEW m \in T PROVE n <= m
  <2>1. \A i, j \in Nat : i < j => <<i, j>> \in OpToRel(<, Nat)
    BY DEF OpToRel
  <2>2. m \in Nat /\ n \in Nat
    OBVIOUS
  <2>3. ~ (m < n)
    BY <1>1, <2>1, <2>2, Zenon
  <2> QED BY <2>2, <2>3
<1> QED BY <1>2

\* The greatest element of a set of numbers.
LEMMA MaxIs ==
  ASSUME NEW S, NEW n, S \subseteq Int, n \in S, \A m \in S : m <= n
  PROVE  Max(S) = n
<1>1. \A y \in S : n >= y
  OBVIOUS
<1>2. Max(S) \in S /\ \A y \in S : Max(S) >= y
  BY <1>1 DEF Max
<1>3. PICK m : m = Max(S)
  OBVIOUS
<1>4. m \in Int /\ n \in Int /\ m >= n /\ n >= m
  BY <1>1, <1>2, <1>3
<1>5. m = n
  BY <1>4
<1> QED BY <1>3, <1>5

-----------------------------------------------------------------------------
(* A fold over a sequence, and the concatenation of its elements            *)

Total(s) == FoldLeft(LAMBDA n, x : n + x.size, 0, s)

\* The function a fold is defined with.
FoldsTo(g, s, D) ==
  g = [S \in SUBSET D |-> IF S = {} THEN 0 ELSE g[S \ {Max(S)}] + s[Max(S)].size]

\* The total of the sizes is the value of that function.
LEMMA TotalIs ==
  ASSUME NEW s
  PROVE  Total(s) = (CHOOSE g : FoldsTo(g, s, DOMAIN s))[DOMAIN s]
BY DEF Total, FoldLeft, MapThenFoldSet, FoldsTo

\* There is such a function, for any number of elements.
LEMMA FoldExists ==
  ASSUME NEW s, NEW n \in Nat
  PROVE  \E g : FoldsTo(g, s, 1 .. n)
<1> DEFINE Bad == {k \in Nat : ~ \E g : FoldsTo(g, s, 1 .. k)}
<1> SUFFICES ASSUME Bad # {} PROVE FALSE
  OBVIOUS
<1>1. PICK k \in Bad : \A m \in Bad : k <= m
  BY LeastElement
<1>2. k # 0
  <2> SUFFICES ASSUME k = 0 PROVE FALSE
    OBVIOUS
  <2>1. 1 .. k = {}
    OBVIOUS
  <2> DEFINE g == [S \in SUBSET {} |-> 0]
  <2>2. \A S \in SUBSET {} : S = {}
    OBVIOUS
  <2>3. FoldsTo(g, s, {})
    BY <2>2 DEF FoldsTo
  <2> QED BY <2>1, <2>3
<1>3. k - 1 \in Nat /\ k - 1 \notin Bad
  BY <1>1, <1>2
<1>4. PICK g : FoldsTo(g, s, 1 .. k - 1)
  BY <1>3
<1> DEFINE h == [S \in SUBSET (1 .. k) |-> IF k \in S THEN g[S \ {k}] + s[k].size ELSE g[S]]
<1>5. ASSUME NEW S \in SUBSET (1 .. k), S # {} PROVE h[S] = h[S \ {Max(S)}] + s[Max(S)].size
  <2>1. CASE k \in S
    <3>1. Max(S) = k
      <4>1. S \subseteq Int /\ \A m \in S : m <= k
        OBVIOUS
      <4> QED BY <2>1, <4>1, MaxIs
    <3>2. S \ {k} \in SUBSET (1 .. k - 1) /\ S \ {k} \in SUBSET (1 .. k)
      OBVIOUS
    <3>3. h[S \ {k}] = g[S \ {k}]
      BY <3>2
    <3> QED BY <2>1, <3>1, <3>3
  <2>2. CASE k \notin S
    <3>1. S \in SUBSET (1 .. k - 1)
      BY <2>2
    <3>2. g[S] = g[S \ {Max(S)}] + s[Max(S)].size
      BY <1>4, <1>5, <3>1 DEF FoldsTo
    <3>3. S \ {Max(S)} \in SUBSET (1 .. k) /\ k \notin S \ {Max(S)}
      BY <2>2
    <3>4. h[S \ {Max(S)}] = g[S \ {Max(S)}] /\ h[S] = g[S]
      BY <2>2, <3>3
    <3> QED BY <3>2, <3>4
  <2> QED BY <2>1, <2>2
<1>6. h[{}] = 0
  <2>1. g[{}] = 0
    BY <1>4 DEF FoldsTo
  <2>2. {} \in SUBSET (1 .. k) /\ k \notin {}
    OBVIOUS
  <2> QED BY <2>1, <2>2
<1>7. h = [S \in SUBSET (1 .. k) |-> IF S = {} THEN 0 ELSE h[S \ {Max(S)}] + s[Max(S)].size]
  <2>1. \A S \in SUBSET (1 .. k) : h[S] = IF S = {} THEN 0 ELSE h[S \ {Max(S)}] + s[Max(S)].size
    BY <1>5, <1>6
  <2>2. h = [S \in SUBSET (1 .. k) |-> h[S]]
    OBVIOUS
  <2> HIDE DEF h
  <2> QED BY <2>1, <2>2
<1>8. FoldsTo(h, s, 1 .. k)
  BY <1>7 DEF FoldsTo
<1> QED BY <1>8

\* p[k] is the total of the first k elements.
Partial(p, s) ==
  /\ p \in [0 .. Len(s) -> Nat] /\ p[0] = 0
  /\ \A k \in 1 .. Len(s) : p[k] = p[k - 1] + s[k].size

\* The total of the sizes is the last of the partial totals.
LEMMA TotalPartial ==
  ASSUME NEW T, \A x \in T : x.size \in Nat, NEW s \in Seq(T)
  PROVE  \E p : Partial(p, s) /\ Total(s) = p[Len(s)]
<1> DEFINE n == Len(s)
<1>1. n \in Nat /\ DOMAIN s = 1 .. n
  OBVIOUS
<1>2. PICK g : FoldsTo(g, s, 1 .. n) /\ Total(s) = g[1 .. n]
  <2>1. \E g : FoldsTo(g, s, 1 .. n)
    BY <1>1, FoldExists
  <2> DEFINE g == CHOOSE g : FoldsTo(g, s, 1 .. n)
  <2>2. FoldsTo(g, s, 1 .. n)
    BY <2>1
  <2>3. Total(s) = g[1 .. n]
    BY <1>1, TotalIs
  <2> QED BY <2>2, <2>3
<1> DEFINE p == [k \in 0 .. n |-> g[1 .. k]]
<1>3. p[0] = 0
  <2>1. 1 .. 0 = {} /\ {} \in SUBSET (1 .. n)
    BY <1>1
  <2> QED BY <1>1, <1>2, <2>1 DEF FoldsTo
<1>4. ASSUME NEW k \in 1 .. n PROVE p[k] = p[k - 1] + s[k].size
  <2>0. k \in Nat /\ k \in 1 .. k
    BY <1>1
  <2>1. /\ 1 .. k \in SUBSET (1 .. n) /\ 1 .. k # {} /\ (1 .. k) \ {k} = 1 .. k - 1
        /\ 1 .. k \subseteq Int /\ k \in 1 .. k /\ \A m \in 1 .. k : m <= k
    <3>0. \A j \in 1 .. k : j \in 1 .. n
      BY <1>1, <2>0
    <3>1. 1 .. k \in SUBSET (1 .. n) /\ 1 .. k # {}
      BY <2>0, <3>0
    <3>2. (1 .. k) \ {k} = 1 .. k - 1
      BY <2>0
    <3>3. 1 .. k \subseteq Int /\ \A m \in 1 .. k : m <= k
      BY <2>0
    <3> QED BY <2>0, <3>1, <3>2, <3>3
  <2>2. Max(1 .. k) = k
    BY <2>1, MaxIs
  <2>3. g[1 .. k] = g[1 .. k - 1] + s[k].size
    BY <1>2, <2>1, <2>2 DEF FoldsTo
  <2> QED BY <1>1, <2>3
<1>5. \A k \in 1 .. n : s[k].size \in Nat
  OBVIOUS
<1> HIDE DEF p
<1>6. \A k \in 0 .. n : p[k] \in Nat
  <2> DEFINE Bad == {k \in 0 .. n : p[k] \notin Nat}
  <2> SUFFICES ASSUME Bad # {} PROVE FALSE
    OBVIOUS
  <2>1. PICK k \in Bad : \A m \in Bad : k <= m
    <3>1. Bad \subseteq Nat
      BY <1>1
    <3> QED BY <3>1, LeastElement
  <2>2. k \in 1 .. n
    BY <1>1, <1>3, <2>1
  <2>3. k - 1 \in 0 .. n /\ k - 1 \notin Bad
    BY <1>1, <2>1, <2>2
  <2> QED BY <1>4, <1>5, <2>1, <2>2, <2>3
<1>7. p \in [0 .. n -> Nat]
  BY <1>6 DEF p
<1>8. p[n] = g[1 .. n]
  BY <1>1 DEF p
<1> QED BY <1>2, <1>3, <1>4, <1>7, <1>8 DEF Partial

\* One element more adds its size.
LEMMA TotalAppend ==
  ASSUME NEW T, \A x \in T : x.size \in Nat, NEW s \in Seq(T), NEW a \in T
  PROVE  Total(Append(s, a)) = Total(s) + a.size /\ Total(s) \in Nat
<1> DEFINE n == Len(s)
           t == Append(s, a)
<1>1. /\ n \in Nat /\ t \in Seq(T) /\ Len(t) = n + 1 /\ t[n + 1] = a
      /\ \A k \in 1 .. n : t[k] = s[k]
  OBVIOUS
<1>2. PICK p : Partial(p, s) /\ Total(s) = p[n]
  BY TotalPartial
<1>3. PICK q : Partial(q, t) /\ Total(t) = q[n + 1]
  BY <1>1, TotalPartial
<1>4. \A k \in 0 .. n : p[k] = q[k]
  <2> DEFINE Bad == {k \in 0 .. n : p[k] # q[k]}
  <2> SUFFICES ASSUME Bad # {} PROVE FALSE
    OBVIOUS
  <2>1. PICK k \in Bad : \A m \in Bad : k <= m
    <3>1. Bad \subseteq Nat
      BY <1>1
    <3> QED BY <3>1, LeastElement
  <2>2. k \in 1 .. n
    BY <1>1, <1>2, <1>3, <2>1 DEF Partial
  <2>3. k - 1 \in 0 .. n /\ k - 1 \notin Bad
    BY <1>1, <2>1, <2>2
  <2>4. p[k] = p[k - 1] + s[k].size /\ q[k] = q[k - 1] + s[k].size
    BY <1>1, <1>2, <1>3, <2>2 DEF Partial
  <2> QED BY <2>1, <2>2, <2>3, <2>4
<1>5. q[n + 1] = q[n] + a.size
  BY <1>1, <1>3 DEF Partial
<1>6. p[n] = q[n] /\ p[n] \in Nat
  BY <1>1, <1>2, <1>4 DEF Partial
<1> QED BY <1>2, <1>3, <1>5, <1>6

\* Nothing has no size.
LEMMA TotalEmpty == Total(<<>>) = 0
<1>1. <<>> \in Seq({}) /\ Len(<<>>) = 0
  OBVIOUS
<1>2. PICK p : Partial(p, <<>>) /\ Total(<<>>) = p[Len(<<>>)]
  BY <1>1, TotalPartial
<1> QED BY <1>1, <1>2 DEF Partial

-----------------------------------------------------------------------------
(* FlattenSeq                                                               *)

\* Concatenation, hidden from the provers where only equality matters.
Then(a, b) == a \o b

\* The function FlattenSeq is defined with.
FlattensTo(f, s, n) ==
  f = [i \in 1 .. n |-> IF i = 1 THEN s[i] ELSE Then(f[i - 1], s[i])]

\* FlattenSeq is the last value of that function.
LEMMA FlattenIs ==
  ASSUME NEW s
  PROVE  FlattenSeq(s) = IF Len(s) = 0 THEN s ELSE (CHOOSE f : FlattensTo(f, s, Len(s)))[Len(s)]
BY DEF FlattenSeq, FlattensTo, Then

\* There is such a function, for any number of sequences.
LEMMA FlattenExists ==
  ASSUME NEW s, NEW n \in Nat
  PROVE  \E f : FlattensTo(f, s, n)
<1> DEFINE Bad == {k \in Nat : ~ \E f : FlattensTo(f, s, k)}
<1> SUFFICES ASSUME Bad # {} PROVE FALSE
  OBVIOUS
<1>1. PICK k \in Bad : \A m \in Bad : k <= m
  BY LeastElement
<1>2. k # 0
  <2> DEFINE f == [i \in 1 .. 0 |-> <<>>]
  <2>1. FlattensTo(f, s, 0)
    BY DEF FlattensTo
  <2> QED BY <2>1
<1>3. k - 1 \in Nat /\ k - 1 \notin Bad
  BY <1>1, <1>2
<1>4. PICK f : FlattensTo(f, s, k - 1)
  BY <1>3
<1> DEFINE h == [i \in 1 .. k |-> IF i = 1 THEN s[1] ELSE IF i = k THEN Then(f[k - 1], s[k]) ELSE f[i]]
<1>5. ASSUME NEW i \in 1 .. k - 1 PROVE h[i] = f[i]
  <2>1. i \in 1 .. k /\ i # k
    BY <1>3
  <2>2. i = 1 => f[i] = s[1]
    BY <1>4 DEF FlattensTo
  <2> QED BY <2>1, <2>2
<1>6. ASSUME NEW i \in 1 .. k PROVE h[i] = IF i = 1 THEN s[i] ELSE Then(h[i - 1], s[i])
  <2>1. CASE i = 1
    BY <2>1
  <2>2. CASE i = k /\ i # 1
    <3>1. k - 1 \in 1 .. k - 1
      BY <1>3, <2>2
    <3>2. h[k - 1] = f[k - 1]
      BY <1>5, <3>1
    <3>3. h[k] = Then(f[k - 1], s[k])
      BY <1>3, <2>2
    <3> QED BY <2>2, <3>2, <3>3
  <2>3. CASE i # k /\ i # 1
    <3>1. i \in 1 .. k - 1 /\ i - 1 \in 1 .. k - 1
      BY <1>3, <2>3
    <3>2. f[i] = Then(f[i - 1], s[i])
      BY <1>4, <2>3, <3>1 DEF FlattensTo
    <3> QED BY <1>5, <2>3, <3>1, <3>2
  <2> QED BY <2>1, <2>2, <2>3
<1>7. h = [i \in 1 .. k |-> h[i]]
  OBVIOUS
<1> HIDE DEF h
<1>8. FlattensTo(h, s, k)
  BY <1>6, <1>7 DEF FlattensTo
<1> QED BY <1>8

\* p[k] is the concatenation of the first k elements.
Joined(p, s) ==
  /\ p[0] = <<>>
  /\ \A k \in 1 .. Len(s) : p[k] = Then(p[k - 1], s[k])

\* FlattenSeq is the last of the partial concatenations.
LEMMA FlattenJoined ==
  ASSUME NEW T, NEW s \in Seq(Seq(T))
  PROVE  \E p : Joined(p, s) /\ p \in [0 .. Len(s) -> Seq(T)] /\ FlattenSeq(s) = p[Len(s)]
<1> DEFINE n == Len(s)
<1>1. n \in Nat /\ \A k \in 1 .. n : s[k] \in Seq(T)
  OBVIOUS
<1>2. PICK f : FlattensTo(f, s, n) /\ (n # 0 => FlattenSeq(s) = f[n])
  <2>1. \E f : FlattensTo(f, s, n)
    BY <1>1, FlattenExists
  <2> DEFINE f == CHOOSE f : FlattensTo(f, s, n)
  <2>2. FlattensTo(f, s, n)
    BY <2>1
  <2>3. n # 0 => FlattenSeq(s) = f[n]
    BY FlattenIs
  <2> QED BY <2>2, <2>3
<1> DEFINE p == [k \in 0 .. n |-> IF k = 0 THEN <<>> ELSE f[k]]
<1>3. ASSUME NEW k \in 1 .. n PROVE p[k] = Then(p[k - 1], s[k])
  <2>1. CASE k = 1
    <3>1. f[1] = s[1] /\ p[0] = <<>> /\ p[1] = f[1] /\ s[1] \in Seq(T)
      BY <1>1, <1>2, <2>1 DEF FlattensTo
    <3>2. Then(<<>>, s[1]) = s[1]
      BY <3>1 DEF Then
    <3> QED BY <2>1, <3>1, <3>2
  <2>2. CASE k # 1
    <3>1. f[k] = Then(f[k - 1], s[k])
      BY <1>2, <2>2 DEF FlattensTo
    <3> QED BY <1>1, <2>2, <3>1
  <2> QED BY <2>1, <2>2
<1>4. p[0] = <<>>
  BY <1>1
<1>5. FlattenSeq(s) = p[n]
  <2>1. CASE n = 0
    <3>1. s = <<>>
      BY <2>1
    <3>2. FlattenSeq(s) = s
      BY <2>1, FlattenIs
    <3> QED BY <1>4, <2>1, <3>1, <3>2
  <2>2. CASE n # 0
    BY <1>1, <1>2, <2>2
  <2> QED BY <2>1, <2>2
<1>6. DOMAIN p = 0 .. n /\ p = [k \in 0 .. n |-> p[k]]
  OBVIOUS
<1> HIDE DEF p
<1>7. \A k \in 0 .. n : p[k] \in Seq(T)
  <2> DEFINE Bad == {k \in 0 .. n : p[k] \notin Seq(T)}
  <2> SUFFICES ASSUME Bad # {} PROVE FALSE
    OBVIOUS
  <2>1. PICK k \in Bad : \A m \in Bad : k <= m
    <3>1. Bad \subseteq Nat
      BY <1>1
    <3> QED BY <3>1, LeastElement
  <2>2. k \in 1 .. n
    <3>1. <<>> \in Seq(T)
      OBVIOUS
    <3>2. k # 0
      BY <1>4, <2>1, <3>1
    <3> QED BY <1>1, <2>1, <3>2
  <2>3. k - 1 \in 0 .. n /\ k - 1 \notin Bad
    BY <1>1, <2>1, <2>2
  <2>4. p[k - 1] \in Seq(T) /\ s[k] \in Seq(T)
    BY <1>1, <2>2, <2>3
  <2>5. Then(p[k - 1], s[k]) \in Seq(T)
    BY <2>4 DEF Then
  <2> QED BY <1>3, <2>1, <2>2, <2>5
<1>8. p \in [0 .. n -> Seq(T)]
  BY <1>6, <1>7
<1> QED BY <1>3, <1>4, <1>5, <1>8 DEF Joined

\* One sequence more is appended to the concatenation.
LEMMA FlattenAppend ==
  ASSUME NEW T, NEW s \in Seq(Seq(T)), NEW x \in Seq(T)
  PROVE  FlattenSeq(Append(s, x)) = FlattenSeq(s) \o x /\ FlattenSeq(s) \in Seq(T)
<1> DEFINE n == Len(s)
           t == Append(s, x)
<1>1. /\ n \in Nat /\ t \in Seq(Seq(T)) /\ Len(t) = n + 1 /\ t[n + 1] = x
      /\ \A k \in 1 .. n : t[k] = s[k]
  OBVIOUS
<1>2. PICK p : Joined(p, s) /\ p \in [0 .. n -> Seq(T)] /\ FlattenSeq(s) = p[n]
  BY FlattenJoined
<1>3. PICK q : Joined(q, t) /\ FlattenSeq(t) = q[n + 1]
  BY <1>1, FlattenJoined
<1>4. \A k \in 0 .. n : p[k] = q[k]
  <2> DEFINE Bad == {k \in 0 .. n : p[k] # q[k]}
  <2> SUFFICES ASSUME Bad # {} PROVE FALSE
    OBVIOUS
  <2>1. PICK k \in Bad : \A m \in Bad : k <= m
    <3>1. Bad \subseteq Nat
      BY <1>1
    <3> QED BY <3>1, LeastElement
  <2>2. k \in 1 .. n
    BY <1>1, <1>2, <1>3, <2>1 DEF Joined
  <2>3. k - 1 \in 0 .. n /\ k - 1 \notin Bad
    BY <1>1, <2>1, <2>2
  <2>4. p[k] = Then(p[k - 1], s[k]) /\ q[k] = Then(q[k - 1], s[k])
    BY <1>1, <1>2, <1>3, <2>2 DEF Joined
  <2> QED BY <2>1, <2>2, <2>3, <2>4
<1>5. q[n + 1] = Then(q[n], x)
  BY <1>1, <1>3 DEF Joined
<1>6. p[n] = q[n] /\ p[n] \in Seq(T)
  BY <1>1, <1>2, <1>4
<1> QED BY <1>2, <1>3, <1>5, <1>6 DEF Then

\* Nothing concatenated.
LEMMA FlattenEmpty == FlattenSeq(<<>>) = <<>>
<1>1. Len(<<>>) = 0
  OBVIOUS
<1> QED BY <1>1, FlattenIs

-----------------------------------------------------------------------------
(* The number of turns                                                      *)

\* p[k] counts the answers in the groups before the k-th; no group is empty.
Sums(p, gs) ==
  /\ p \in [1 .. Len(gs) + 1 -> Nat]
  /\ p[1] = 0
  /\ \A k \in 1 .. Len(gs) : Len(gs[k]) >= 1 /\ p[k + 1] = p[k] + Len(gs[k])
  /\ \A k \in 1 .. Len(gs) + 1 : p[k] <= p[Len(gs) + 1]

Typed ==
  /\ pc \in {"prepare", "pack", "source", "synthesis", "partition", "reduce", "done"}
  /\ scope \in Scopes
  /\ chunks \in Seq(Seq(Facts)) /\ answers \in Seq(Answers)
  /\ groups \in Seq(Seq(Answers)) /\ reduced \in Seq(Answers)
  /\ turns \in Nat /\ next \in Nat
  /\ pc = "prepare" => current = <<>>
  /\ pc = "pack" => todo \in Seq(Facts) /\ current \in Seq(Facts)
  /\ pc = "partition" => todo \in Seq(Answers) /\ current \in Seq(Answers)

\* No turn is taken before the plan is made, and no review ends well.
BeforeTurns == pc \in {"prepare", "pack"} => turns = 0 /\ answers = <<>>

Planned ==
  pc \in {"source", "synthesis", "partition", "reduce"} =>
    /\ Len(chunks) >= 1
    /\ planned = IF Len(chunks) > 1 THEN Len(chunks) + 1 ELSE 1

\* Each prompt is one turn and brings one answer.
Asking == pc = "source" => turns = Len(answers) /\ Len(answers) < Len(chunks)

\* A turn that merges answers makes them fewer by at least one, so that both
\* together never are more than the prompts and their answers were.
Budget ==
  /\ pc \in {"synthesis", "partition", "reduce"} =>
       Len(chunks) > 1 /\ turns >= Len(chunks) /\ Len(answers) >= 1
  /\ pc \in {"synthesis", "partition"} => turns + Len(answers) <= 2 * Len(chunks)
  /\ pc = "partition" =>
       \E p : /\ Sums(p, groups)
              /\ p[Len(groups) + 1] + Len(current) + Len(todo) = Len(answers)
  /\ pc = "reduce" =>
       /\ next \in 1 .. Len(groups) + 1 /\ Len(groups) >= 1 /\ Len(reduced) = next - 1
       /\ \E p : /\ Sums(p, groups) /\ p[Len(groups) + 1] = Len(answers)
                 /\ turns + Len(reduced) + Len(answers) - p[next] <= 2 * Len(chunks)

PlanInv ==
  /\ Typed /\ BeforeTurns /\ Planned /\ Asking /\ Budget
  /\ TurnsAreBounded
  /\ pc # "done" => result = "none"

-----------------------------------------------------------------------------
\* The sums of one more group.
LEMMA OneMoreGroup ==
  ASSUME NEW gs \in Seq(Seq(Answers)), NEW g \in Seq(Answers), g # <<>>,
         NEW p, Sums(p, gs)
  PROVE  \E q : /\ Sums(q, Append(gs, g))
                /\ q[Len(Append(gs, g)) + 1] = p[Len(gs) + 1] + Len(g)
<1> DEFINE n == Len(gs)
           hs == Append(gs, g)
           q == [k \in 1 .. n + 2 |-> IF k = n + 2 THEN p[n + 1] + Len(g) ELSE p[k]]
<1>1. /\ n \in Nat /\ Len(hs) = n + 1 /\ Len(g) \in Nat /\ Len(g) >= 1
      /\ hs[n + 1] = g /\ \A k \in 1 .. n : hs[k] = gs[k]
  OBVIOUS
<1>2. p[n + 1] \in Nat
  BY <1>1 DEF Sums
<1>3. q \in [1 .. Len(hs) + 1 -> Nat]
  BY <1>1, <1>2 DEF Sums
<1>4. q[1] = 0
  BY <1>1 DEF Sums
<1>5. ASSUME NEW k \in 1 .. Len(hs) PROVE Len(hs[k]) >= 1 /\ q[k + 1] = q[k] + Len(hs[k])
  <2>1. CASE k = n + 1
    BY <1>1, <2>1
  <2>2. CASE k # n + 1
    <3>1. k \in 1 .. n
      BY <1>1, <2>2
    <3> QED BY <1>1, <3>1 DEF Sums
  <2> QED BY <2>1, <2>2
<1>6. ASSUME NEW k \in 1 .. Len(hs) + 1 PROVE q[k] <= q[Len(hs) + 1]
  <2>1. q[Len(hs) + 1] = p[n + 1] + Len(g)
    BY <1>1
  <2>2. CASE k = n + 2
    BY <1>1, <1>2, <2>1, <2>2
  <2>3. CASE k # n + 2
    <3>1. k \in 1 .. n + 1
      BY <1>1, <2>3
    <3>2. p[k] <= p[n + 1] /\ p[k] \in Nat
      BY <1>1, <3>1 DEF Sums
    <3>3. q[k] = p[k]
      BY <1>1, <2>3
    <3> QED BY <1>1, <1>2, <2>1, <3>2, <3>3
  <2> QED BY <2>2, <2>3
<1>7. q[Len(hs) + 1] = p[n + 1] + Len(g)
  BY <1>1
<1> HIDE DEF q
<1>8. Sums(q, hs)
  BY <1>3, <1>4, <1>5, <1>6 DEF Sums
<1> QED BY <1>7, <1>8

\* Where the last group ends.
LEMMA SumOfAll ==
  ASSUME NEW gs \in Seq(Seq(Answers)), NEW p, Sums(p, gs)
  PROVE  p[Len(gs) + 1] \in Nat
<1>1. Len(gs) \in Nat
  OBVIOUS
<1>2. Len(gs) + 1 \in 1 .. Len(gs) + 1
  BY <1>1
<1> QED BY <1>2 DEF Sums

\* One group is merged: turns t, answers r so far of a, of which s are used up,
\* a group of g, and the new number of turns u.
LEMMA MergeCosts ==
  ASSUME NEW t \in Nat, NEW r \in Nat, NEW a \in Nat, NEW s \in Nat, NEW g \in Nat, NEW m \in Nat,
         NEW u, g >= 1, s + g <= a, t + r + a - s <= m, u = t + (IF g = 1 THEN 0 ELSE 1)
  PROVE  /\ u \in {t, t + 1} /\ u \in Nat /\ u >= t /\ u <= m
         /\ u + (r + 1) + a - (s + g) <= m
  OBVIOUS

\* One answer more is left to place, or opens a new group.
LEMMA OneMoves ==
  ASSUME NEW s \in Nat, NEW c \in Nat, NEW t \in Nat, NEW a, s + c + t = a
  PROVE  (s + c) + 1 + (t - 1) = a
  OBVIOUS

\* No group: nothing is placed.
LEMMA NoGroup == \E p : Sums(p, <<>>) /\ p[Len(<<>>) + 1] = 0
<1> DEFINE p == [k \in 1 .. 1 |-> 0]
<1>1. Len(<<>>) = 0 /\ p[1] = 0
  OBVIOUS
<1>2. Sums(p, <<>>)
  BY <1>1 DEF Sums
<1> QED BY <1>1, <1>2

\* Steps before the first turn.
LEMMA PackingStep ==
  ASSUME PlanInv, Prepare \/ AddFact \/ CloseChunk \/ EndPacking
  PROVE  PlanInv'
<1> USE DEF PlanInv, Typed, BeforeTurns, Planned, Asking, Budget, TurnsAreBounded, End, Goto,
        packing, round, input
<1>1. CASE Prepare
  <2>1. scope.facts \in Seq(Facts)
    BY ScopesAssumption
  <2>2. Len(<<scope.facts>>) = 1 /\ <<scope.facts>> \in Seq(Seq(Facts))
    BY <2>1
  <2>3. turns = 0 /\ answers = <<>> /\ Len(chunks) \in Nat /\ UNCHANGED <<scope, answers, groups, next, reduced, turns>>
    BY <1>1 DEF Prepare
  <2>4. CASE /\ chunks' = <<scope.facts>> /\ planned' = 1 /\ pc' = "source" /\ UNCHANGED result
    BY <1>1, <2>2, <2>3, <2>4 DEF Prepare
  <2>5. CASE pc' = "done" /\ result' = "refused" /\ UNCHANGED chunks
    BY <2>3, <2>5
  <2>6. CASE /\ pc' = "pack" /\ todo' = scope.facts /\ UNCHANGED <<current, chunks, result>>
    BY <1>1, <2>1, <2>3, <2>6 DEF Prepare
  <2> QED BY <1>1, <2>4, <2>5, <2>6 DEF Prepare
<1>2. CASE AddFact
  BY <1>2 DEF AddFact
<1>3. CASE CloseChunk
  <2>1. Head(todo) \in Facts /\ Tail(todo) \in Seq(Facts) /\ <<Head(todo)>> \in Seq(Facts)
    BY <1>3 DEF CloseChunk
  <2>2. Append(chunks, current) \in Seq(Seq(Facts)) /\ Len(Append(chunks, current)) >= 0
    BY <1>3 DEF CloseChunk
  <2>3. turns = 0 /\ answers = <<>> /\ Len(chunks) \in Nat /\ UNCHANGED <<scope, answers, groups, next, reduced, turns>>
    BY <1>3 DEF CloseChunk
  <2>4. CASE pc' = "done" /\ result' = "refused" /\ UNCHANGED chunks
    BY <2>3, <2>4
  <2>5. CASE /\ chunks' = Append(chunks, current) /\ current' = <<Head(todo)>> /\ todo' = Tail(todo)
             /\ UNCHANGED <<pc, result>>
    BY <1>3, <2>1, <2>2, <2>3, <2>5 DEF CloseChunk
  <2> QED BY <1>3, <2>4, <2>5 DEF CloseChunk
<1>4. CASE EndPacking
  <2>1. Packed \in Seq(Seq(Facts)) /\ Len(Packed) >= 1
    BY <1>4 DEF EndPacking, Packed
  <2>2. CASE chunks' = Packed /\ planned' = (IF Len(Packed) > 1 THEN Len(Packed) + 1 ELSE 1) /\ pc' = "source"
             /\ UNCHANGED result
    BY <1>4, <2>1, <2>2 DEF EndPacking
  <2>3. CASE pc' = "done" /\ result' = "refused" /\ UNCHANGED <<chunks, planned>>
    BY <1>4, <2>3 DEF EndPacking
  <2> QED BY <1>4, <2>2, <2>3 DEF EndPacking
<1> QED BY <1>1, <1>2, <1>3, <1>4

\* Turns on the prompts of the output, and failing turns.
LEMMA SourceStep ==
  ASSUME PlanInv, TurnFails \/ \E answer \in Answers : SourceTurn(answer)
  PROVE  PlanInv'
<1> USE DEF PlanInv, Typed, BeforeTurns, Planned, Asking, Budget, TurnsAreBounded, End, Goto,
        packing, round, input
<1>1. CASE TurnFails
  <2>1. turns <= 2 * Len(chunks) /\ Len(chunks) \in Nat
    OBVIOUS
  <2> QED BY <1>1, <2>1 DEF TurnFails
<1>2. ASSUME NEW answer \in Answers, SourceTurn(answer) PROVE PlanInv'
  <2>1. /\ turns = Len(answers) /\ Len(answers) < Len(chunks) /\ turns' = turns + 1
        /\ UNCHANGED <<scope, chunks, planned, todo, current, groups, next, reduced>>
    BY <1>2 DEF SourceTurn
  <2>2. turns' <= Len(chunks) /\ turns' \in Nat /\ Len(chunks) \in Nat
    BY <2>1
  <2>3. CASE pc' = "done" /\ UNCHANGED answers /\ (result' = "ok" => ~Chunked)
    BY <1>2, <2>1, <2>2, <2>3 DEF SourceTurn, Chunked
  <2>4. CASE /\ answers' = Append(answers, answer) /\ Chunked /\ result' = result
             /\ pc' = IF Len(answers) + 1 = Len(chunks) THEN "synthesis" ELSE "source"
    <3>1. answers' \in Seq(Answers) /\ Len(answers') = Len(answers) + 1
      BY <2>4
    <3> QED BY <1>2, <2>1, <2>2, <2>4, <3>1 DEF SourceTurn, Chunked
  <2> QED BY <1>2, <2>3, <2>4 DEF SourceTurn
<1> QED BY <1>1, <1>2

\* The answers of a round are placed in groups.
LEMMA PartitionStep ==
  ASSUME PlanInv, StartRound \/ AddAnswer \/ CloseGroup \/ EndPartition
  PROVE  PlanInv'
<1> USE DEF PlanInv, End, Goto, packing, round, input
<1>1. /\ pc \in {"synthesis", "partition"} /\ result = "none"
      /\ Len(chunks) > 1 /\ turns >= Len(chunks) /\ Len(answers) >= 1
      /\ turns + Len(answers) <= 2 * Len(chunks)
      /\ planned = Len(chunks) + 1
      /\ turns \in Nat /\ Len(chunks) \in Nat /\ Len(answers) \in Nat
  <2>1. pc \in {"synthesis", "partition"}
    BY DEF StartRound, AddAnswer, CloseGroup, EndPartition
  <2>2. /\ Len(chunks) > 1 /\ turns >= Len(chunks) /\ Len(answers) >= 1
        /\ turns + Len(answers) <= 2 * Len(chunks)
    BY <2>1 DEF Budget
  <2>3. turns \in Nat /\ Len(chunks) \in Nat /\ Len(answers) \in Nat
    BY DEF Typed
  <2>4. planned = Len(chunks) + 1
    BY <2>1, <2>2 DEF Planned
  <2> QED BY <2>1, <2>2, <2>3, <2>4
<1>2. UNCHANGED <<scope, chunks, planned, answers, turns>>
  BY DEF StartRound, AddAnswer, CloseGroup, EndPartition
<1>3. ASSUME pc' \in {"partition", "reduce", "done"}, result' # "ok", pc' # "done" => result' = "none"
      PROVE  BeforeTurns' /\ Planned' /\ Asking' /\ TurnsAreBounded' /\ (pc' # "done" => result' = "none")
  BY <1>1, <1>2, <1>3 DEF BeforeTurns, Planned, Asking, TurnsAreBounded
<1>4. CASE StartRound
  <2>1. /\ groups' = <<>> /\ current' = <<>> /\ todo' = answers /\ pc' = "partition"
        /\ result' = "none" /\ UNCHANGED <<next, reduced>>
    BY <1>1, <1>4 DEF StartRound
  <2>2. PICK p : Sums(p, <<>>) /\ p[Len(<<>>) + 1] = 0
    BY NoGroup
  <2>3. p[Len(<<>>) + 1] + Len(<<>>) + Len(answers) = Len(answers)
    BY <1>1, <2>2
  <2>4. \E q : Sums(q, groups') /\ q[Len(groups') + 1] + Len(current') + Len(todo') = Len(answers')
    BY <1>2, <2>1, <2>2, <2>3
  <2>5. Budget'
    BY <1>1, <1>2, <2>1, <2>4 DEF Budget
  <2>6. groups' \in Seq(Seq(Answers)) /\ current' \in Seq(Answers) /\ todo' \in Seq(Answers)
    BY <2>1 DEF Typed
  <2>7. Typed'
    BY <1>2, <2>1, <2>6 DEF Typed
  <2> QED BY <1>3, <2>1, <2>5, <2>7
<1>5. CASE AddAnswer
  <2>1. /\ todo \in Seq(Answers) /\ todo # <<>> /\ current \in Seq(Answers)
        /\ current' = Append(current, Head(todo)) /\ todo' = Tail(todo)
        /\ pc = "partition" /\ pc' = "partition" /\ result' = "none"
        /\ UNCHANGED <<groups, next, reduced>>
    BY <1>1, <1>5 DEF AddAnswer, Typed
  <2>2. /\ Len(current') = Len(current) + 1 /\ Len(todo') = Len(todo) - 1
        /\ current' \in Seq(Answers) /\ todo' \in Seq(Answers)
        /\ Len(current) \in Nat /\ Len(todo) \in Nat
    BY <2>1
  <2>3. PICK p : Sums(p, groups) /\ p[Len(groups) + 1] + Len(current) + Len(todo) = Len(answers)
    BY <2>1 DEF Budget
  <2>4. p[Len(groups) + 1] \in Nat
    BY <2>3, SumOfAll DEF Typed
  <2>5. p[Len(groups') + 1] + Len(current') + Len(todo') = Len(answers')
    <3>1. groups' = groups /\ answers' = answers
      BY <1>2, <2>1
    <3>2. PICK s \in Nat, c \in Nat, t \in Nat :
            s = p[Len(groups) + 1] /\ c = Len(current) /\ t = Len(todo)
      BY ONLY <2>2, <2>4
    <3>3. s + (c + 1) + (t - 1) = s + c + t
      BY ONLY s \in Nat, c \in Nat, t \in Nat
    <3> QED BY ONLY <2>2, <2>3, <3>1, <3>2, <3>3
  <2>6. \E q : Sums(q, groups') /\ q[Len(groups') + 1] + Len(current') + Len(todo') = Len(answers')
    BY <2>1, <2>3, <2>5
  <2>7. Budget'
    BY <1>1, <1>2, <2>1, <2>6 DEF Budget
  <2>8. Typed'
    BY <1>2, <2>1, <2>2 DEF Typed
  <2> QED BY <1>3, <2>1, <2>7, <2>8
<1>6. ASSUME pc' = "done", result' = "too_large", UNCHANGED <<groups, next, reduced>> PROVE PlanInv'
  <2>1. Budget'
    BY <1>6 DEF Budget
  <2>2. Typed'
    BY <1>2, <1>6 DEF Typed
  <2> QED BY <1>3, <1>6, <2>1, <2>2
<1>7. CASE CloseGroup
  <2>1. CASE pc' = "done" /\ result' = "too_large" /\ UNCHANGED groups
    BY <1>6, <1>7, <2>1 DEF CloseGroup
  <2>2. CASE /\ current # <<>> /\ groups' = Append(groups, current)
             /\ current' = <<Head(todo)>> /\ todo' = Tail(todo) /\ UNCHANGED <<pc, result>>
    <3>1. /\ todo \in Seq(Answers) /\ todo # <<>> /\ current \in Seq(Answers)
          /\ groups \in Seq(Seq(Answers)) /\ pc = "partition" /\ pc' = "partition"
          /\ result' = "none" /\ UNCHANGED <<next, reduced>>
      BY <1>1, <1>7, <2>2 DEF CloseGroup, Typed
    <3>2. /\ Len(current') = 1 /\ Len(todo') = Len(todo) - 1
          /\ current' \in Seq(Answers) /\ todo' \in Seq(Answers)
          /\ groups' \in Seq(Seq(Answers)) /\ Len(groups) \in Nat
          /\ Len(current) \in Nat /\ Len(todo) \in Nat
      BY <2>2, <3>1
    <3>3. PICK p : Sums(p, groups) /\ p[Len(groups) + 1] + Len(current) + Len(todo) = Len(answers)
      BY <3>1 DEF Budget
    <3>4. PICK q : Sums(q, groups') /\ q[Len(groups') + 1] = p[Len(groups) + 1] + Len(current)
      BY <2>2, <3>1, <3>3, OneMoreGroup
    <3>5. p[Len(groups) + 1] \in Nat
      BY <3>1, <3>3, SumOfAll
    <3>6. q[Len(groups') + 1] + Len(current') + Len(todo') = Len(answers')
      <4>1. /\ q[Len(groups') + 1] = p[Len(groups) + 1] + Len(current)
            /\ Len(current') = 1 /\ Len(todo') = Len(todo) - 1 /\ Len(answers') = Len(answers)
        BY <1>2, <3>2, <3>4
      <4>2. (p[Len(groups) + 1] + Len(current)) + 1 + (Len(todo) - 1) = Len(answers)
        <5>1. PICK u, c, t : u = p[Len(groups) + 1] /\ c = Len(current) /\ t = Len(todo)
          OBVIOUS
        <5>2. u \in Nat /\ c \in Nat /\ t \in Nat /\ u + c + t = Len(answers)
          BY <3>2, <3>3, <3>5, <5>1
        <5>3. (u + c) + 1 + (t - 1) = Len(answers)
          BY ONLY <5>2, OneMoves
        <5> QED BY <5>1, <5>3
      <4> QED BY <4>1, <4>2
    <3>7. \E r : Sums(r, groups') /\ r[Len(groups') + 1] + Len(current') + Len(todo') = Len(answers')
      BY <3>4, <3>6
    <3>8. Budget'
      BY <1>1, <1>2, <3>1, <3>7 DEF Budget
    <3>9. Typed'
      BY <1>2, <3>1, <3>2 DEF Typed
    <3> QED BY <1>3, <3>1, <3>8, <3>9
  <2> QED BY <1>7, <2>1, <2>2 DEF CloseGroup
<1>8. CASE EndPartition
  <2>1. CASE pc' = "done" /\ result' = "too_large" /\ UNCHANGED round
    BY <1>6, <2>1
  <2>2. CASE groups' = AllGroups /\ next' = 1 /\ reduced' = <<>> /\ pc' = "reduce" /\ UNCHANGED result
    <3>1. /\ pc = "partition" /\ todo = <<>> /\ current \in Seq(Answers)
          /\ groups \in Seq(Seq(Answers)) /\ Len(groups) \in Nat /\ Len(todo) = 0
          /\ Len(current) \in Nat
      BY <1>8 DEF EndPartition, Typed
    <3>2. PICK p : Sums(p, groups) /\ p[Len(groups) + 1] + Len(current) + Len(todo) = Len(answers)
      BY <3>1 DEF Budget
    <3>3. p[Len(groups) + 1] \in Nat
      BY <3>1, <3>2, SumOfAll
    <3>4. p[Len(groups) + 1] + Len(current) = Len(answers)
      BY <3>1, <3>2, <3>3
    <3>5. AllGroups \in Seq(Seq(Answers)) /\ Len(AllGroups) \in Nat
      BY <3>1 DEF AllGroups
    <3>6. PICK q : Sums(q, AllGroups) /\ q[Len(AllGroups) + 1] = Len(answers)
      <4>1. CASE current = <<>>
        <5>1. p[Len(groups) + 1] = Len(answers)
          BY <3>3, <3>4, <4>1
        <5> QED BY <3>2, <4>1, <5>1 DEF AllGroups
      <4>2. CASE current # <<>>
        <5>1. PICK q : /\ Sums(q, Append(groups, current))
                       /\ q[Len(Append(groups, current)) + 1] = p[Len(groups) + 1] + Len(current)
          BY <3>1, <3>2, <4>2, OneMoreGroup
        <5> QED BY <3>4, <4>2, <5>1 DEF AllGroups
      <4> QED BY <4>1, <4>2
    <3>7. q[1] = 0
      BY <3>6 DEF Sums
    <3>8. Len(AllGroups) >= 1
      BY <1>1, <3>5, <3>6, <3>7
    <3>9. Len(reduced') = 0 /\ q[next'] = 0
      BY <2>2, <3>7
    <3>10. turns' + Len(reduced') + Len(answers') - q[next'] <= 2 * Len(chunks')
      BY <1>1, <1>2, <3>9
    <3>11. Sums(q, groups') /\ q[Len(groups') + 1] = Len(answers')
      BY <1>2, <2>2, <3>6
    <3>12. next' \in 1 .. Len(groups') + 1 /\ Len(groups') >= 1 /\ Len(reduced') = next' - 1
      BY <2>2, <3>5, <3>8, <3>9
    <3>13. \E r : /\ Sums(r, groups') /\ r[Len(groups') + 1] = Len(answers')
                  /\ turns' + Len(reduced') + Len(answers') - r[next'] <= 2 * Len(chunks')
      BY <3>10, <3>11
    <3>14. Budget'
      BY <1>1, <1>2, <2>2, <3>12, <3>13 DEF Budget
    <3>15. groups' \in Seq(Seq(Answers)) /\ reduced' \in Seq(Answers) /\ next' \in Nat
      BY <2>2, <3>5
    <3>16. Typed'
      BY <1>2, <2>2, <3>15 DEF Typed
    <3> QED BY <1>1, <1>3, <2>2, <3>14, <3>16
  <2> QED BY <1>8, <2>1, <2>2 DEF EndPartition
<1> QED BY <1>4, <1>5, <1>7, <1>8

\* The groups of a round are merged.
LEMMA MergeStep ==
  ASSUME PlanInv, KeepAnswer \/ EndRound \/ \E answer \in Answers : MergeTurn(answer) \/ LastTurn(answer)
  PROVE  PlanInv'
<1> USE DEF PlanInv, End, Goto, packing, round, input
<1>1. /\ pc \in {"synthesis", "reduce"} /\ result = "none"
      /\ Len(chunks) > 1 /\ turns >= Len(chunks) /\ Len(answers) >= 1
      /\ planned = Len(chunks) + 1
      /\ turns \in Nat /\ Len(chunks) \in Nat /\ Len(answers) \in Nat
  <2>1. pc \in {"synthesis", "reduce"}
    BY DEF KeepAnswer, EndRound, MergeTurn, LastTurn
  <2>2. Len(chunks) > 1 /\ turns >= Len(chunks) /\ Len(answers) >= 1
    BY <2>1 DEF Budget
  <2>3. turns \in Nat /\ Len(chunks) \in Nat /\ Len(answers) \in Nat
    BY DEF Typed
  <2>4. planned = Len(chunks) + 1
    BY <2>1, <2>2 DEF Planned
  <2> QED BY <2>1, <2>2, <2>3, <2>4
<1>2. UNCHANGED <<scope, chunks, planned, groups>>
  BY DEF KeepAnswer, EndRound, MergeTurn, LastTurn
<1>3. ASSUME pc' \in {"synthesis", "reduce", "done"}, pc' # "done" => result' = "none",
             turns' \in {turns, turns + 1}, turns' <= 2 * Len(chunks),
             result' = "ok" => turns' = turns + 1
      PROVE  BeforeTurns' /\ Planned' /\ Asking' /\ TurnsAreBounded' /\ (pc' # "done" => result' = "none")
  BY <1>1, <1>2, <1>3 DEF BeforeTurns, Planned, Asking, TurnsAreBounded
<1>4. CASE EndRound
  <2>1. /\ pc = "reduce" /\ pc' = "synthesis" /\ next > Len(groups) /\ answers' = reduced
        /\ result' = "none" /\ UNCHANGED <<next, reduced, turns>>
    BY <1>1, <1>4 DEF EndRound
  <2>2. PICK p : /\ Sums(p, groups) /\ p[Len(groups) + 1] = Len(answers)
                 /\ turns + Len(reduced) + Len(answers) - p[next] <= 2 * Len(chunks)
    BY <2>1 DEF Budget
  <2>3. /\ next \in 1 .. Len(groups) + 1 /\ Len(groups) >= 1 /\ Len(reduced) = next - 1
        /\ Len(groups) \in Nat /\ reduced \in Seq(Answers)
    BY <2>1 DEF Budget, Typed
  <2>4. next = Len(groups) + 1 /\ Len(reduced) >= 1 /\ Len(reduced) \in Nat
    BY <2>1, <2>3
  <2>5. turns' + Len(answers') <= 2 * Len(chunks')
    BY <1>1, <1>2, <2>1, <2>2, <2>4
  <2>6. Budget'
    BY <1>1, <1>2, <2>1, <2>4, <2>5 DEF Budget
  <2>7. Typed'
    BY <1>2, <2>1, <2>3 DEF Typed
  <2>8. turns' <= 2 * Len(chunks)
    BY <2>1 DEF TurnsAreBounded
  <2> QED BY <1>3, <2>1, <2>6, <2>7, <2>8
<1>5. ASSUME NEW answer \in Answers, LastTurn(answer) PROVE PlanInv'
  <2>1. /\ turns' = turns + 1 /\ pc' = "done" /\ turns + Len(answers) <= 2 * Len(chunks)
        /\ UNCHANGED <<answers, next, reduced>>
    BY <1>5 DEF LastTurn, Budget
  <2>2. turns' <= 2 * Len(chunks) /\ turns' \in Nat
    BY <1>1, <2>1
  <2>3. Typed'
    BY <1>2, <2>1, <2>2 DEF Typed
  <2>4. Budget'
    BY <2>1 DEF Budget
  <2> QED BY <1>3, <2>1, <2>2, <2>3, <2>4
<1>6. ASSUME pc = "reduce", next <= Len(groups)
      PROVE  /\ next \in 1 .. Len(groups) /\ Len(reduced) = next - 1 /\ Len(groups) \in Nat
             /\ groups[next] \in Seq(Answers) /\ Len(groups[next]) \in Nat /\ Len(groups[next]) >= 1
             /\ \E p : /\ Sums(p, groups) /\ p[Len(groups) + 1] = Len(answers)
                       /\ p[next] \in Nat /\ p[next + 1] = p[next] + Len(groups[next])
                       /\ p[next] + Len(groups[next]) <= Len(answers)
                       /\ turns + Len(reduced) + Len(answers) - p[next] <= 2 * Len(chunks)
  <2>1. PICK p : /\ Sums(p, groups) /\ p[Len(groups) + 1] = Len(answers)
                 /\ turns + Len(reduced) + Len(answers) - p[next] <= 2 * Len(chunks)
    BY <1>6 DEF Budget
  <2>2. next \in 1 .. Len(groups) + 1 /\ Len(reduced) = next - 1 /\ Len(groups) \in Nat
    BY <1>6 DEF Budget, Typed
  <2>3. next \in 1 .. Len(groups) /\ next + 1 \in 1 .. Len(groups) + 1
    BY <1>6, <2>2
  <2>4. groups[next] \in Seq(Answers) /\ Len(groups[next]) \in Nat
    BY <2>3 DEF Typed
  <2>5. p[next] \in Nat /\ p[next + 1] = p[next] + Len(groups[next]) /\ Len(groups[next]) >= 1
    BY <2>1, <2>2, <2>3 DEF Sums
  <2>6. p[next + 1] <= p[Len(groups) + 1]
    BY <2>1, <2>3 DEF Sums
  <2>7. p[next] + Len(groups[next]) <= Len(answers)
    BY <2>1, <2>5, <2>6
  <2> QED BY <2>1, <2>2, <2>3, <2>4, <2>5, <2>7
<1>7. ASSUME NEW answer \in Answers, pc = "reduce", next <= Len(groups),
             reduced' = Append(reduced, answer), next' = next + 1,
             turns' = turns + (IF Len(groups[next]) = 1 THEN 0 ELSE 1),
             UNCHANGED <<pc, result, answers>>
      PROVE  PlanInv'
  <2>1. PICK p : /\ Sums(p, groups) /\ p[Len(groups) + 1] = Len(answers)
                 /\ p[next] \in Nat /\ p[next + 1] = p[next] + Len(groups[next])
                 /\ p[next] + Len(groups[next]) <= Len(answers)
                 /\ turns + Len(reduced) + Len(answers) - p[next] <= 2 * Len(chunks)
    BY <1>6, <1>7
  <2>2. /\ next \in 1 .. Len(groups) /\ Len(reduced) = next - 1 /\ Len(groups) \in Nat
        /\ Len(groups[next]) \in Nat /\ Len(groups[next]) >= 1
    BY <1>6, <1>7
  <2>3. reduced' \in Seq(Answers) /\ Len(reduced') = Len(reduced) + 1
    BY <1>7 DEF Typed
  <2>4. Len(reduced) \in Nat
    BY <2>2
  <2>5. /\ turns' \in {turns, turns + 1} /\ turns' \in Nat
        /\ turns' >= turns /\ turns' <= 2 * Len(chunks)
        /\ turns' + (Len(reduced) + 1) + Len(answers) - (p[next] + Len(groups[next])) <= 2 * Len(chunks)
    <3>1. 2 * Len(chunks) \in Nat
      BY <1>1
    <3>2. /\ p[next] \in Nat /\ p[next] + Len(groups[next]) <= Len(answers)
          /\ turns + Len(reduced) + Len(answers) - p[next] <= 2 * Len(chunks)
      BY <2>1
    <3>3. turns' = turns + (IF Len(groups[next]) = 1 THEN 0 ELSE 1)
      BY <1>7
    <3>4. Len(groups[next]) \in Nat /\ Len(groups[next]) >= 1
      BY <2>2
    <3>5. turns \in Nat /\ Len(answers) \in Nat
      BY <1>1
    <3>6. PICK t, r, a, u, g, m : /\ t = turns /\ r = Len(reduced) /\ a = Len(answers)
                                  /\ u = p[next] /\ g = Len(groups[next]) /\ m = 2 * Len(chunks)
      OBVIOUS
    <3>7. /\ t \in Nat /\ r \in Nat /\ a \in Nat /\ u \in Nat /\ g \in Nat /\ m \in Nat
          /\ g >= 1 /\ u + g <= a /\ t + r + a - u <= m
          /\ turns' = t + (IF g = 1 THEN 0 ELSE 1)
      BY ONLY <2>4, <3>1, <3>2, <3>3, <3>4, <3>5, <3>6
    <3>8. /\ turns' \in {t, t + 1} /\ turns' \in Nat /\ turns' >= t /\ turns' <= m
          /\ turns' + (r + 1) + a - (u + g) <= m
      BY ONLY <3>7, MergeCosts
    <3> QED BY ONLY <3>6, <3>8
  <2>6. turns' + Len(reduced') + Len(answers') - p[next'] <= 2 * Len(chunks')
    <3>1. /\ Len(reduced') = Len(reduced) + 1 /\ Len(answers') = Len(answers)
          /\ Len(chunks') = Len(chunks) /\ p[next'] = p[next] + Len(groups[next])
      BY <1>2, <1>7, <2>1, <2>3
    <3> QED BY <2>5, <3>1
  <2>7. turns' <= 2 * Len(chunks)
    BY <2>5
  <2>8. \E r : /\ Sums(r, groups') /\ r[Len(groups') + 1] = Len(answers')
               /\ turns' + Len(reduced') + Len(answers') - r[next'] <= 2 * Len(chunks')
    BY <1>2, <1>7, <2>1, <2>6
  <2>9. next' \in 1 .. Len(groups') + 1 /\ Len(groups') >= 1 /\ Len(reduced') = next' - 1
    BY <1>2, <1>7, <2>2, <2>3
  <2>10. Len(chunks') > 1 /\ turns' >= Len(chunks') /\ Len(answers') >= 1
    BY <1>1, <1>2, <1>7, <2>5
  <2>11. Budget'
    BY <1>7, <2>8, <2>9, <2>10 DEF Budget
  <2>12. Typed'
    BY <1>2, <1>7, <2>2, <2>3, <2>5 DEF Typed
  <2> QED BY <1>1, <1>3, <1>7, <2>5, <2>7, <2>11, <2>12
<1>8. CASE KeepAnswer
  <2>1. /\ pc = "reduce" /\ next <= Len(groups) /\ Len(groups[next]) = 1
        /\ reduced' = Append(reduced, groups[next][1]) /\ next' = next + 1
        /\ turns' = turns /\ UNCHANGED <<pc, result, answers>>
    BY <1>8 DEF KeepAnswer
  <2>2. groups[next][1] \in Answers
    BY <1>6, <2>1
  <2>3. turns' = turns + (IF Len(groups[next]) = 1 THEN 0 ELSE 1)
    BY <1>1, <2>1
  <2> QED BY <1>7, <2>1, <2>2, <2>3
<1>9. ASSUME NEW answer \in Answers, MergeTurn(answer) PROVE PlanInv'
  <2>1. /\ pc = "reduce" /\ next <= Len(groups) /\ Len(groups[next]) # 1
        /\ turns' = turns + 1 /\ UNCHANGED answers
    BY <1>9 DEF MergeTurn
  <2>2. CASE reduced' = Append(reduced, answer) /\ next' = next + 1 /\ UNCHANGED <<pc, result>>
    BY <1>7, <2>1, <2>2
  <2>3. CASE pc' = "done" /\ result' = "grounding" /\ UNCHANGED <<reduced, next>>
    <3>1. PICK p : /\ p[next] \in Nat /\ p[next] + Len(groups[next]) <= Len(answers)
                   /\ turns + Len(reduced) + Len(answers) - p[next] <= 2 * Len(chunks)
      BY <1>6, <2>1
    <3>2. /\ Len(groups[next]) \in Nat /\ Len(groups[next]) >= 1 /\ Len(reduced) = next - 1
          /\ next \in 1 .. Len(groups) /\ Len(groups) \in Nat
      BY <1>6, <2>1
    <3>3. turns' <= 2 * Len(chunks) /\ turns' \in Nat
      BY <1>1, <2>1, <3>1, <3>2
    <3>4. Typed'
      BY <1>2, <2>1, <2>3, <3>3 DEF Typed
    <3>5. Budget'
      BY <2>3 DEF Budget
    <3> QED BY <1>3, <2>1, <2>3, <3>3, <3>4, <3>5
  <2> QED BY <1>9, <2>2, <2>3 DEF MergeTurn
<1> QED BY <1>4, <1>5, <1>8, <1>9

-----------------------------------------------------------------------------
\* The invariant holds in every execution.
LEMMA PlanInvAlways == Spec => []PlanInv
<1>1. Init => PlanInv
  BY DEF Init, PlanInv, Typed, BeforeTurns, Planned, Asking, Budget, TurnsAreBounded
<1>2. PlanInv /\ [Next]_vars => PlanInv'
  <2> SUFFICES ASSUME PlanInv, [Next]_vars PROVE PlanInv'
    OBVIOUS
  <2>1. CASE UNCHANGED vars
    BY <2>1
    DEF vars, input, packing, round, PlanInv, Typed, BeforeTurns, Planned, Asking, Budget,
        TurnsAreBounded
  <2> QED BY <2>1, PackingStep, SourceStep, PartitionStep, MergeStep DEF Next, Step, Turn, Rest
<1> QED BY <1>1, <1>2, PTL DEF Spec

\* A review of n prompts takes at most 2n turns, however often and in which
\* groups its answers are merged, and one that ends well takes at least the
\* number that was announced when the user was asked.
THEOREM TurnsAreBoundedAlways == Spec => []TurnsAreBounded
<1>1. PlanInv => TurnsAreBounded
  BY DEF PlanInv
<1> QED BY <1>1, PlanInvAlways, PTL

-----------------------------------------------------------------------------
(* No fact is lost or placed twice                                          *)

Placing ==
  /\ pc = "prepare" => chunks = <<>> /\ current = <<>>
  /\ EveryFactOnce

\* The first fact that waits goes to the end of what is placed.
LEMMA OneFactOn ==
  ASSUME NEW T, NEW s \in Seq(T), NEW t \in Seq(T), t # <<>>
  PROVE  /\ Append(s, Head(t)) \o Tail(t) = s \o t
         /\ Head(t) \in T /\ Tail(t) \in Seq(T)
<1>1. Head(t) \in T /\ Tail(t) \in Seq(T) /\ t = <<Head(t)>> \o Tail(t) /\ <<Head(t)>> \in Seq(T)
  OBVIOUS
<1>2. Append(s, Head(t)) = s \o <<Head(t)>>
  BY <1>1, AppendIsConcat
<1>3. (s \o <<Head(t)>>) \o Tail(t) = s \o (<<Head(t)>> \o Tail(t))
  BY <1>1, ConcatAssociative
<1> QED BY <1>1, <1>2, <1>3

\* One more fact after all that is placed.
LEMMA PlacedThenOne ==
  ASSUME NEW T, NEW s \in Seq(T), NEW c \in Seq(T), NEW x \in T
  PROVE  s \o Append(c, x) = Append(s \o c, x)
<1>1. Append(c, x) = c \o <<x>> /\ <<x>> \in Seq(T)
  BY AppendIsConcat
<1>2. (s \o c) \o <<x>> = s \o (c \o <<x>>)
  BY <1>1, ConcatAssociative
<1>3. s \o c \in Seq(T)
  BY ConcatProperties
<1>4. Append(s \o c, x) = (s \o c) \o <<x>>
  BY <1>3, AppendIsConcat
<1> QED BY <1>1, <1>2, <1>4

\* Every action moves facts from one place to the next one.
LEMMA PlacingStep ==
  ASSUME PlanInv, Placing, [Next]_vars
  PROVE  Placing'
<1>1. scope' = scope
  BY DEF Next, Step, Turn, Rest, vars, input, Prepare, AddFact, CloseChunk, EndPacking,
     SourceTurn, LastTurn, MergeTurn, TurnFails, StartRound, AddAnswer, CloseGroup,
     EndPartition, KeepAnswer, EndRound
<1>2. chunks \in Seq(Seq(Facts)) /\ FlattenSeq(chunks) \in Seq(Facts) /\ scope.facts \in Seq(Facts)
  <2>1. chunks \in Seq(Seq(Facts)) /\ scope \in Scopes
    BY DEF PlanInv, Typed
  <2>2. <<>> \in Seq(Facts)
    OBVIOUS
  <2> QED BY <2>1, <2>2, FlattenAppend, ScopesAssumption
<1> USE DEF End, Goto, packing, round, input
<1>3. CASE UNCHANGED vars
  BY <1>3 DEF vars, Placing, EveryFactOnce
<1>4. CASE Prepare
  <2>1. pc = "prepare" /\ chunks = <<>> /\ current = <<>>
    BY <1>4 DEF Prepare, Placing
  <2>2. CASE chunks' = <<scope.facts>> /\ pc' = "source"
    <3>1. FlattenSeq(<<scope.facts>>) = scope.facts
      <4>1. <<>> \in Seq(Seq(Facts)) /\ <<scope.facts>> = Append(<<>>, scope.facts)
        OBVIOUS
      <4>2. FlattenSeq(Append(<<>>, scope.facts)) = <<>> \o scope.facts
        BY <1>2, <4>1, FlattenAppend, FlattenEmpty
      <4>3. <<>> \o scope.facts = scope.facts
        BY <1>2, ConcatEmptySeq
      <4> QED BY <4>1, <4>2, <4>3
    <3> QED BY <1>1, <2>2, <3>1 DEF Placing, EveryFactOnce
  <2>3. CASE pc' = "done"
    BY <2>3 DEF Placing, EveryFactOnce
  <2>4. CASE pc' = "pack" /\ todo' = scope.facts /\ UNCHANGED <<current, chunks>>
    <3>1. (FlattenSeq(chunks) \o current) \o todo' = scope.facts
      <4>1. FlattenSeq(chunks) = <<>> /\ <<>> \in Seq(Facts)
        BY <2>1, FlattenEmpty
      <4>2. <<>> \o <<>> = <<>> /\ <<>> \o scope.facts = scope.facts
        BY <1>2, <4>1, ConcatEmptySeq
      <4> QED BY <2>1, <2>4, <4>1, <4>2
    <3> QED BY <1>1, <2>4, <3>1 DEF Placing, EveryFactOnce
  <2> QED BY <1>4, <2>2, <2>3, <2>4 DEF Prepare
<1>5. ASSUME pc = "pack"
      PROVE  /\ todo \in Seq(Facts) /\ current \in Seq(Facts)
             /\ FlattenSeq(chunks) \o current \in Seq(Facts)
             /\ (FlattenSeq(chunks) \o current) \o todo = scope.facts
  <2>1. todo \in Seq(Facts) /\ current \in Seq(Facts)
    BY <1>5 DEF PlanInv, Typed
  <2>2. FlattenSeq(chunks) \o current \in Seq(Facts)
    BY <1>2, <2>1, ConcatProperties
  <2> QED BY <1>5, <2>1, <2>2 DEF Placing, EveryFactOnce
<1>6. CASE AddFact
  <2>1. /\ pc = "pack" /\ pc' = "pack" /\ todo # <<>> /\ chunks' = chunks
        /\ current' = Append(current, Head(todo)) /\ todo' = Tail(todo)
    BY <1>6 DEF AddFact
  <2> DEFINE placed == FlattenSeq(chunks)
             f == Head(todo)
  <2>2. /\ Append(placed \o current, f) \o Tail(todo) = scope.facts
        /\ f \in Facts
    BY <1>5, <2>1, OneFactOn
  <2>3. placed \o Append(current, f) = Append(placed \o current, f)
    <3>1. placed \in Seq(Facts) /\ current \in Seq(Facts) /\ f \in Facts
      <4>1. todo \in Seq(Facts) /\ current \in Seq(Facts) /\ todo # <<>>
        BY <1>5, <2>1
      <4> QED BY <1>2, <2>2, <4>1
    <3>2. \A s, c \in Seq(Facts) : \A x \in Facts : s \o Append(c, x) = Append(s \o c, x)
      BY PlacedThenOne
    <3> HIDE DEF placed, f
    <3> QED BY ONLY <3>1, <3>2, Zenon
  <2>4. (FlattenSeq(chunks') \o current') \o todo' = scope'.facts
    BY <1>1, <2>1, <2>2, <2>3
  <2> QED BY <2>1, <2>4 DEF Placing, EveryFactOnce
<1>7. CASE CloseChunk
  <2>1. CASE pc' = "done"
    BY <2>1 DEF Placing, EveryFactOnce
  <2>2. CASE /\ chunks' = Append(chunks, current) /\ current' = <<Head(todo)>>
             /\ todo' = Tail(todo) /\ UNCHANGED pc
    <3>1. pc = "pack" /\ pc' = "pack" /\ todo # <<>>
      BY <1>7, <2>2 DEF CloseChunk
    <3> DEFINE placed == FlattenSeq(chunks)
               f == Head(todo)
    <3>2. FlattenSeq(chunks') = placed \o current
      BY <1>2, <1>5, <2>2, <3>1, FlattenAppend
    <3>3. Append(placed \o current, f) \o Tail(todo) = scope.facts /\ f \in Facts
      BY <1>5, <3>1, OneFactOn
    <3>4. (placed \o current) \o <<f>> = Append(placed \o current, f)
      BY <1>5, <3>1, <3>3, AppendIsConcat
    <3>5. (FlattenSeq(chunks') \o current') \o todo' = scope'.facts
      BY <1>1, <2>2, <3>2, <3>3, <3>4
    <3> QED BY <3>1, <3>5 DEF Placing, EveryFactOnce
  <2> QED BY <1>7, <2>1, <2>2 DEF CloseChunk
<1>8. CASE EndPacking
  <2>1. CASE pc' = "done"
    BY <2>1 DEF Placing, EveryFactOnce
  <2>2. CASE chunks' = Packed /\ pc' = "source"
    <3>1. pc = "pack" /\ todo = <<>>
      BY <1>8 DEF EndPacking
    <3>2. FlattenSeq(chunks) \o current = scope.facts
      <4>1. (FlattenSeq(chunks) \o current) \o <<>> = FlattenSeq(chunks) \o current
        BY <1>5, <3>1, ConcatEmptySeq
      <4> QED BY <1>5, <3>1, <4>1
    <3>3. FlattenSeq(Packed) = FlattenSeq(chunks) \o current
      <4>1. CASE current # <<>> \/ chunks = <<>>
        BY <1>2, <1>5, <3>1, <4>1, FlattenAppend DEF Packed
      <4>2. CASE ~(current # <<>> \/ chunks = <<>>)
        <5>1. FlattenSeq(chunks) \o <<>> = FlattenSeq(chunks)
          BY <1>2, ConcatEmptySeq
        <5> QED BY <4>2, <5>1 DEF Packed
      <4> QED BY <4>1, <4>2
    <3> QED BY <1>1, <2>2, <3>2, <3>3 DEF Placing, EveryFactOnce
  <2> QED BY <1>8, <2>1, <2>2 DEF EndPacking
<1>9. CASE \/ TurnFails \/ StartRound \/ AddAnswer \/ CloseGroup \/ EndPartition \/ KeepAnswer \/ EndRound
           \/ \E a \in Answers : SourceTurn(a) \/ LastTurn(a) \/ MergeTurn(a)
  <2>1. /\ chunks' = chunks /\ pc \in {"source", "synthesis", "partition", "reduce"}
        /\ pc' \in {"source", "synthesis", "partition", "reduce", "done"}
    BY <1>9
    DEF TurnFails, StartRound, AddAnswer, CloseGroup, EndPartition, KeepAnswer, EndRound,
        SourceTurn, LastTurn, MergeTurn
  <2>2. FlattenSeq(chunks) = scope.facts
    BY <2>1 DEF Placing, EveryFactOnce
  <2> QED BY <1>1, <2>1, <2>2 DEF Placing, EveryFactOnce
<1> QED BY <1>3, <1>4, <1>6, <1>7, <1>8, <1>9 DEF Next, Step, Turn, Rest

\* Whatever the sizes and the limits are, the prompts hold the facts of the
\* stored output, each once and in order, and keep holding them while their
\* answers are merged.
THEOREM EveryFactOnceAlways == Spec => []EveryFactOnce
<1>1. Init => Placing
  BY DEF Init, Placing, EveryFactOnce
<1>2. PlanInv /\ Placing /\ [Next]_vars => Placing'
  BY PlacingStep
<1>3. Placing => EveryFactOnce
  BY DEF Placing
<1> QED BY <1>1, <1>2, <1>3, PlanInvAlways, PTL DEF Spec

-----------------------------------------------------------------------------
(* Merging never gets stuck when two answers fit into a prompt              *)

Roomy == Frame + 2 * maxAnswer + 2 <= MaxPrompt

\* The answers that are kept: require_bounded_intermediate has let them pass.
Kept == {a \in Answers : a.size <= maxAnswer}

Fitting ==
  /\ maxAnswer \in MaxAnswers
  /\ answers \in Seq(Kept) /\ reduced \in Seq(Kept) /\ groups \in Seq(Seq(Kept))
  /\ pc = "partition" => todo \in Seq(Kept) /\ current \in Seq(Kept)

\* A group is closed only when a third answer does not fit.
Paired ==
  Roomy =>
    /\ pc = "partition" =>
         Len(answers) >= 2 /\ \A k \in 1 .. Len(groups) : Len(groups[k]) >= 2
    /\ result # "too_large"

FittingInv == PlanInv /\ Fitting /\ Paired

\* Groups of two or more: there are at most half as many as answers.
LEMMA PairsHalve ==
  ASSUME NEW gs \in Seq(Seq(Answers)), NEW p, Sums(p, gs), \A k \in 1 .. Len(gs) : Len(gs[k]) >= 2
  PROVE  p[Len(gs) + 1] >= 2 * Len(gs)
<1> DEFINE n == Len(gs)
           Bad == {k \in 1 .. n + 1 : ~(p[k] >= 2 * (k - 1))}
<1>1. n \in Nat /\ \A k \in 1 .. n : Len(gs[k]) \in Nat
  OBVIOUS
<1> SUFFICES ASSUME Bad # {} PROVE FALSE
  <2>1. n + 1 \in 1 .. n + 1 /\ 2 * ((n + 1) - 1) = 2 * n
    BY <1>1
  <2> QED BY <2>1
<1>2. PICK k \in Bad : \A m \in Bad : k <= m
  <2>1. Bad \subseteq Nat
    BY <1>1
  <2> QED BY <2>1, LeastElement
<1>3. k # 1
  BY <1>1, <1>2 DEF Sums
<1>4. k - 1 \in 1 .. n /\ k - 1 \in 1 .. n + 1 /\ k - 1 \notin Bad /\ (k - 1) + 1 = k
  BY <1>1, <1>2, <1>3
<1>5. PICK u, v, g : u = p[k - 1] /\ v = p[k] /\ g = Len(gs[k - 1])
  OBVIOUS
<1>6. u \in Nat /\ g \in Nat /\ g >= 2 /\ v = u + g /\ u >= 2 * ((k - 1) - 1) /\ k \in Nat
  <2>1. p[(k - 1) + 1] = p[k - 1] + Len(gs[k - 1]) /\ p[k - 1] \in Nat
    BY <1>1, <1>4 DEF Sums
  <2>2. Len(gs[k - 1]) \in Nat /\ Len(gs[k - 1]) >= 2 /\ k \in Nat
    BY <1>1, <1>2, <1>4
  <2>3. p[k - 1] >= 2 * ((k - 1) - 1)
    BY <1>4
  <2> QED BY <1>4, <1>5, <2>1, <2>2, <2>3
<1>7. v >= 2 * (k - 1)
  BY ONLY <1>6
<1> QED BY <1>2, <1>5, <1>7

\* The prompts for none, one and two of the answers that are kept.
LEMMA TwoFit ==
  ASSUME Fitting, Roomy
  PROVE  /\ OnePrompt(<<>>)
         /\ \A a \in Kept : OnePrompt(<<a>>)
         /\ \A a, b \in Kept : OnePrompt(Append(<<a>>, b))
<1>1. maxAnswer \in Nat /\ Frame \in Nat /\ MaxPrompt \in Nat
  BY LimitsAssumption DEF Fitting
<1>2. \A a \in Kept : a.size \in Nat /\ a.size <= maxAnswer
  BY AnswersAssumption DEF Kept
<1>3. \A s : SynthesisSize(s) = Frame + Len(s) + Total(s)
  BY DEF SynthesisSize, Total
<1>4. Len(<<>>) = 0 /\ <<>> \in Seq(Kept)
  OBVIOUS
<1>5. OnePrompt(<<>>)
  BY <1>1, <1>3, <1>4, TotalEmpty DEF OnePrompt, Roomy
<1>6. ASSUME NEW a \in Kept PROVE Total(<<a>>) = a.size /\ Len(<<a>>) = 1 /\ <<a>> \in Seq(Kept)
  <2>1. Append(<<>>, a) = <<a>> /\ Len(<<a>>) = 1 /\ <<a>> \in Seq(Kept)
    OBVIOUS
  <2>2. Total(Append(<<>>, a)) = Total(<<>>) + a.size
    BY <1>2, <1>4, TotalAppend
  <2> QED BY <1>2, <2>1, <2>2, TotalEmpty
<1>7. ASSUME NEW a \in Kept PROVE OnePrompt(<<a>>)
  <2>1. PICK x : x = a.size
    OBVIOUS
  <2>2. SynthesisSize(<<a>>) = Frame + 1 + x /\ x \in Nat /\ x <= maxAnswer
    BY <1>2, <1>3, <1>6, <2>1
  <2>3. Frame + 1 + x <= MaxPrompt
    BY <1>1, <2>2 DEF Roomy
  <2> QED BY <2>2, <2>3 DEF OnePrompt
<1>8. ASSUME NEW a \in Kept, NEW b \in Kept PROVE OnePrompt(Append(<<a>>, b))
  <2>1. Len(Append(<<a>>, b)) = 2
    BY <1>6
  <2>2. Total(Append(<<a>>, b)) = a.size + b.size
    BY <1>2, <1>6, TotalAppend
  <2>3. PICK x, y : x = a.size /\ y = b.size
    OBVIOUS
  <2>4. /\ SynthesisSize(Append(<<a>>, b)) = Frame + 2 + (x + y)
        /\ x \in Nat /\ x <= maxAnswer /\ y \in Nat /\ y <= maxAnswer
    BY <1>2, <1>3, <2>1, <2>2, <2>3
  <2>5. Frame + 2 + (x + y) <= MaxPrompt
    BY <1>1, <2>4 DEF Roomy
  <2> QED BY <2>4, <2>5 DEF OnePrompt
<1> QED BY <1>5, <1>7, <1>8

\* Only bounded answers are kept.
LEMMA FittingStep ==
  ASSUME PlanInv, Fitting, [Next]_vars
  PROVE  Fitting'
<1>1. Kept' = Kept /\ maxAnswer' = maxAnswer
  BY DEF Kept, Next, Step, Turn, Rest, vars, input, Prepare, AddFact, CloseChunk, EndPacking,
     SourceTurn, LastTurn, MergeTurn, TurnFails, StartRound, AddAnswer, CloseGroup,
     EndPartition, KeepAnswer, EndRound
<1>2. \A a \in Answers : Bounded(a) => a \in Kept
  BY DEF Bounded, Kept
<1>0. answers \in Seq(Kept) /\ reduced \in Seq(Kept) /\ groups \in Seq(Seq(Kept))
  BY DEF Fitting
<1> USE DEF Fitting, End, Goto, packing, round, input
<1>3. CASE UNCHANGED vars
  BY <1>1, <1>3 DEF vars
<1>4. CASE Prepare \/ AddFact \/ CloseChunk \/ EndPacking \/ TurnFails
  <2>1. UNCHANGED <<answers, reduced, groups>> /\ pc' # "partition"
    BY <1>4 DEF Prepare, AddFact, CloseChunk, EndPacking, TurnFails
  <2> QED BY <1>1, <2>1
<1>5. ASSUME NEW a \in Answers, SourceTurn(a) PROVE Fitting'
  <2>1. UNCHANGED <<reduced, groups>> /\ pc' # "partition"
    BY <1>5 DEF SourceTurn
  <2>2. answers' = answers \/ (a \in Kept /\ answers' = Append(answers, a))
    BY <1>2, <1>5 DEF SourceTurn
  <2>3. Append(answers, a) \in Seq(Kept) \/ a \notin Kept
    BY <1>0
  <2>4. answers' \in Seq(Kept)
    BY <1>0, <2>2, <2>3
  <2> QED BY <1>1, <2>1, <2>4
<1>6. ASSUME NEW a \in Answers, LastTurn(a) PROVE Fitting'
  BY <1>1, <1>6 DEF LastTurn
<1>7. ASSUME NEW a \in Answers, MergeTurn(a) PROVE Fitting'
  <2>1. UNCHANGED <<answers, groups>> /\ pc' # "partition"
    BY <1>7 DEF MergeTurn
  <2>2. reduced' = reduced \/ (a \in Kept /\ reduced' = Append(reduced, a))
    BY <1>2, <1>7 DEF MergeTurn
  <2>3. Append(reduced, a) \in Seq(Kept) \/ a \notin Kept
    BY <1>0
  <2>4. reduced' \in Seq(Kept)
    BY <1>0, <2>2, <2>3
  <2> QED BY <1>1, <2>1, <2>4
<1>8. CASE StartRound
  <2>1. <<>> \in Seq(Kept) /\ <<>> \in Seq(Seq(Kept))
    OBVIOUS
  <2> QED BY <1>1, <1>8, <2>1 DEF StartRound
<1>9. CASE AddAnswer
  <2>1. todo \in Seq(Kept) /\ current \in Seq(Kept) /\ todo # <<>>
    BY <1>9 DEF AddAnswer
  <2>2. Append(current, Head(todo)) \in Seq(Kept) /\ Tail(todo) \in Seq(Kept)
    BY <2>1
  <2> QED BY <1>1, <1>9, <2>2 DEF AddAnswer
<1>10. CASE CloseGroup
  <2>1. todo \in Seq(Kept) /\ current \in Seq(Kept) /\ todo # <<>>
    BY <1>10 DEF CloseGroup
  <2>2. /\ <<Head(todo)>> \in Seq(Kept) /\ Tail(todo) \in Seq(Kept)
        /\ Append(groups, current) \in Seq(Seq(Kept))
    BY <2>1
  <2> QED BY <1>1, <1>10, <2>1, <2>2 DEF CloseGroup
<1>11. CASE EndPartition
  <2>1. current \in Seq(Kept) /\ AllGroups \in Seq(Seq(Kept)) /\ <<>> \in Seq(Kept)
    BY <1>11 DEF EndPartition, AllGroups
  <2>2. UNCHANGED <<answers, todo, current>>
    BY <1>11 DEF EndPartition
  <2>3. UNCHANGED <<groups, reduced>> \/ (groups' = AllGroups /\ reduced' = <<>>)
    BY <1>11 DEF EndPartition
  <2>4. groups' \in Seq(Seq(Kept)) /\ reduced' \in Seq(Kept) /\ pc' # "partition"
    BY <1>11, <2>1, <2>3 DEF EndPartition
  <2> QED BY <1>1, <2>2, <2>4
<1>12. CASE KeepAnswer
  <2>1. next \in 1 .. Len(groups) /\ Len(groups[next]) = 1
    <3>1. next \in 1 .. Len(groups) + 1 /\ next <= Len(groups) /\ Len(groups) \in Nat
      BY <1>12 DEF KeepAnswer, PlanInv, Typed, Budget
    <3> QED BY <1>12, <3>1 DEF KeepAnswer
  <2>2. groups[next] \in Seq(Kept)
    BY <2>1
  <2>3. groups[next][1] \in Kept
    BY <2>1, <2>2
  <2>4. Append(reduced, groups[next][1]) \in Seq(Kept)
    BY <2>3
  <2> QED BY <1>1, <1>12, <2>4 DEF KeepAnswer
<1>13. CASE EndRound
  BY <1>1, <1>13 DEF EndRound
<1> QED
  BY <1>3, <1>4, <1>5, <1>6, <1>7, <1>8, <1>9, <1>10, <1>11, <1>12, <1>13 DEF Next, Step, Turn, Rest

\* A sequence of length one is its element.
LEMMA OneElement ==
  ASSUME NEW T, NEW s \in Seq(T), Len(s) = 1
  PROVE  \E a \in T : s = <<a>>
<1>1. s[1] \in T /\ s = <<s[1]>>
  OBVIOUS
<1> QED BY <1>1

\* The groups of a round hold two answers or more, so that each round leaves
\* fewer of them.
LEMMA PairedStep ==
  ASSUME FittingInv, [Next]_vars
  PROVE  Paired'
<1>1. maxAnswer' = maxAnswer
  BY DEF Next, Step, Turn, Rest, vars, input, Prepare, AddFact, CloseChunk, EndPacking,
     SourceTurn, LastTurn, MergeTurn, TurnFails, StartRound, AddAnswer, CloseGroup,
     EndPartition, KeepAnswer, EndRound
<1> SUFFICES ASSUME Roomy
             PROVE  /\ pc' = "partition" =>
                         Len(answers') >= 2 /\ \A k \in 1 .. Len(groups') : Len(groups'[k]) >= 2
                    /\ result' # "too_large"
  BY <1>1 DEF Paired, Roomy
<1>2. /\ PlanInv /\ Fitting /\ result # "too_large"
      /\ pc = "partition" =>
           Len(answers) >= 2 /\ \A k \in 1 .. Len(groups) : Len(groups[k]) >= 2
  BY DEF FittingInv, Paired
<1>3. /\ OnePrompt(<<>>)
      /\ \A a \in Kept : OnePrompt(<<a>>)
      /\ \A a, b \in Kept : OnePrompt(Append(<<a>>, b))
  BY <1>2, TwoFit
<1> USE DEF End, Goto, packing, round, input
<1>4. CASE UNCHANGED vars
  BY <1>2, <1>4 DEF vars
<1>5. CASE \/ Prepare \/ AddFact \/ CloseChunk \/ EndPacking \/ TurnFails \/ KeepAnswer \/ EndRound
           \/ \E a \in Answers : SourceTurn(a) \/ LastTurn(a) \/ MergeTurn(a)
  <2>1. pc' # "partition" /\ result' # "too_large"
    BY <1>2, <1>5
    DEF Prepare, AddFact, CloseChunk, EndPacking, TurnFails, KeepAnswer, EndRound, SourceTurn,
        LastTurn, MergeTurn
  <2> QED BY <2>1
<1>6. CASE StartRound
  <2>1. answers \in Seq(Kept) /\ ~OnePrompt(answers) /\ answers' = answers /\ groups' = <<>>
    BY <1>2, <1>6 DEF StartRound, Fitting
  <2>2. Len(answers) >= 2
    <3>1. Len(answers) # 0
      BY <1>3, <2>1
    <3>2. Len(answers) # 1
      <4> SUFFICES ASSUME Len(answers) = 1 PROVE FALSE
        OBVIOUS
      <4>1. PICK a \in Kept : answers = <<a>>
        BY <2>1, OneElement
      <4>2. OnePrompt(<<a>>)
        BY <1>3
      <4>3. OnePrompt(answers)
        BY ONLY <4>1, <4>2, Zenon
      <4> QED BY <2>1, <4>3
    <3>3. PICK n : n = Len(answers)
      OBVIOUS
    <3>4. n \in Nat /\ n # 0 /\ n # 1
      BY <2>1, <3>1, <3>2, <3>3
    <3>5. n >= 2
      BY ONLY <3>4
    <3> QED BY <3>3, <3>5
  <2>3. \A k \in 1 .. Len(groups') : Len(groups'[k]) >= 2
    BY <2>1
  <2> QED BY <1>2, <1>6, <2>1, <2>2, <2>3 DEF StartRound
<1>7. CASE AddAnswer
  BY <1>2, <1>7 DEF AddAnswer
<1>8. CASE CloseGroup
  <2>1. /\ todo \in Seq(Kept) /\ current \in Seq(Kept) /\ todo # <<>>
        /\ ~OnePrompt(Append(current, Head(todo))) /\ groups \in Seq(Seq(Kept))
        /\ pc = "partition"
    BY <1>2, <1>8 DEF CloseGroup, Fitting
  <2>2. Head(todo) \in Kept
    BY <2>1
  <2>3. Len(current) >= 2
    <3>1. Len(current) # 0
      <4> SUFFICES ASSUME Len(current) = 0 PROVE FALSE
        OBVIOUS
      <4>1. Append(current, Head(todo)) = <<Head(todo)>>
        BY <2>1
      <4> QED BY <1>3, <2>1, <2>2, <4>1, Zenon
    <3>2. Len(current) # 1
      <4> SUFFICES ASSUME Len(current) = 1 PROVE FALSE
        OBVIOUS
      <4>1. PICK a \in Kept : current = <<a>>
        BY <2>1, OneElement
      <4>2. OnePrompt(Append(<<a>>, Head(todo)))
        BY <1>3, <2>2
      <4>3. OnePrompt(Append(current, Head(todo)))
        BY ONLY <4>1, <4>2, Zenon
      <4> QED BY <2>1, <4>3
    <3>3. PICK n : n = Len(current)
      OBVIOUS
    <3>4. n \in Nat /\ n # 0 /\ n # 1
      BY <2>1, <3>1, <3>2, <3>3
    <3>5. n >= 2
      BY ONLY <3>4
    <3> QED BY <3>3, <3>5
  <2>4. current # <<>> /\ OnePrompt(<<Head(todo)>>)
    BY <1>3, <2>2, <2>3
  <2>5. groups' = Append(groups, current) /\ result' = result /\ answers' = answers
    BY <1>8, <2>4 DEF CloseGroup
  <2>6. ASSUME NEW k \in 1 .. Len(groups') PROVE Len(groups'[k]) >= 2
    <3>1. /\ Len(groups') = Len(groups) + 1 /\ Len(groups) \in Nat
          /\ groups'[Len(groups) + 1] = current /\ \A i \in 1 .. Len(groups) : groups'[i] = groups[i]
      BY <2>1, <2>5
    <3>2. CASE k = Len(groups) + 1
      BY <2>3, <3>1, <3>2
    <3>3. CASE k # Len(groups) + 1
      <4>1. k \in 1 .. Len(groups)
        BY <3>1, <3>3
      <4>2. groups'[k] = groups[k] /\ Len(groups[k]) >= 2
        BY <1>2, <2>1, <3>1, <4>1
      <4> QED BY <4>2
    <3> QED BY <3>2, <3>3
  <2> QED BY <1>2, <2>1, <2>5, <2>6
<1>9. CASE EndPartition
  <2>1. /\ pc = "partition" /\ todo = <<>> /\ Len(todo) = 0 /\ current \in Seq(Answers)
        /\ groups \in Seq(Seq(Answers)) /\ Len(groups) \in Nat /\ Len(current) \in Nat
        /\ Len(answers) >= 2 /\ answers \in Seq(Answers) /\ Len(answers) \in Nat
    BY <1>2, <1>9 DEF EndPartition, PlanInv, Typed
  <2>2. PICK p : Sums(p, groups) /\ p[Len(groups) + 1] + Len(current) + Len(todo) = Len(answers)
    BY <1>2, <2>1 DEF PlanInv, Budget
  <2>3. p[Len(groups) + 1] \in Nat /\ p[Len(groups) + 1] >= 2 * Len(groups)
    BY <1>2, <2>1, <2>2, SumOfAll, PairsHalve
  <2>4. PICK u, n, c, a : u = p[Len(groups) + 1] /\ n = Len(groups) /\ c = Len(current) /\ a = Len(answers)
    OBVIOUS
  <2>5. u \in Nat /\ n \in Nat /\ c \in Nat /\ a \in Nat /\ u >= 2 * n /\ u + c = a /\ a >= 2
    BY <2>1, <2>2, <2>3, <2>4
  <2>6. n + (IF c = 0 THEN 0 ELSE 1) < a
    BY ONLY <2>5
  <2>7. Len(AllGroups) = n + (IF c = 0 THEN 0 ELSE 1)
    <3>1. CASE current = <<>>
      BY <2>4, <3>1 DEF AllGroups
    <3>2. CASE current # <<>>
      <4>1. c # 0 /\ Len(Append(groups, current)) = n + 1
        BY <2>1, <2>4, <3>2
      <4> QED BY <3>2, <4>1 DEF AllGroups
    <3> QED BY <3>1, <3>2
  <2>8. ~(Len(AllGroups) >= Len(answers))
    <3>1. PICK m : m = Len(AllGroups)
      OBVIOUS
    <3>2. m = n + (IF c = 0 THEN 0 ELSE 1)
      BY <2>7, <3>1
    <3>3. ~(m >= a)
      BY ONLY <2>5, <2>6, <3>2
    <3> QED BY <2>4, <3>1, <3>3
  <2>9. pc' = "reduce" /\ result' = result
    BY <1>9, <2>8 DEF EndPartition
  <2> QED BY <1>2, <2>9
<1> QED BY <1>4, <1>5, <1>6, <1>7, <1>8, <1>9 DEF Next, Step, Turn, Rest

\* The invariant of merging holds in every execution.
LEMMA FittingInvAlways == Spec => []FittingInv
<1>1. Init => Fitting /\ Paired
  BY DEF Init, Fitting, Paired
<1>2. PlanInv /\ Fitting /\ Paired /\ PlanInv' /\ [Next]_vars => Fitting' /\ Paired'
  BY FittingStep, PairedStep DEF FittingInv
<1> QED BY <1>1, <1>2, PlanInvAlways, PTL DEF Spec, FittingInv

\* When half of a prompt holds any answer the plan keeps, no review ends as too
\* large to be merged, whatever the output and the answers: a group is closed
\* with two answers or more, and so every round leaves fewer of them.
THEOREM TooLargeIsKnownEarlyAlways == Spec => []TooLargeIsKnownEarly
<1>1. FittingInv => TooLargeIsKnownEarly
  BY DEF FittingInv, Paired, Roomy, TooLargeIsKnownEarly
<1> QED BY <1>1, FittingInvAlways, PTL
=============================================================================
