-------------------------- MODULE InspectionProofs --------------------------
(***************************************************************************)
(* For every file and all limits: what the runs of Inspection say of the   *)
(* reading, of the findings and of the reports.  What is said of reading   *)
(* is proved of ReaderSpec, the reader in whatever is built around it, of  *)
(* which every run is one.                                                 *)
(*                                                                         *)
(* The invariant is Faithful: Base says what the variables hold at each    *)
(* step, Growing what is kept of the sheet that is read, Finished that the *)
(* sheets before it are whole.  Noticed adds how many cells were kept      *)
(* since a cancellation, and the limits are inductive with Faithful: the   *)
(* sort is one of cells at different positions, which Growing says.        *)
(*                                                                         *)
(* A sum over a sequence is defined by choosing a function; that there is  *)
(* one, and what it does when a place is added, changed or moved, is       *)
(* proved first, by a smallest counterexample in place of an induction.    *)
(*                                                                         *)
(* That no two findings of a run share an identifier goes bottom up:       *)
(* lists and what picking and flattening make of them; Pushed, a list of   *)
(* findings of some rules without two of one identifier; each check of     *)
(* rules.rs, then all; detection, whose rows are distinct because segments *)
(* are disjoint; the reader, which keeps positions apart.  Working and     *)
(* Ledger then carry it to the store.                                      *)
(*                                                                         *)
(* That the findings mean what they say is proved of each check: the one   *)
(* pass over the rows of a table, the leading amounts and the medians of   *)
(* the groups are what sets and counts define, once a finite set is known  *)
(* to be listed by rank and a sum not to depend on its order.  It needs    *)
(* the numbers that ValuesAssumption gives the texts, which Sited and      *)
(* Reckoned carry from the cells to the rows, and sheets of different      *)
(* names.  Ruled says on top of Working what the last checks worked on.    *)
(***************************************************************************)
EXTENDS Inspection, FiniteSetTheorems, SequenceTheorems, WellFoundedInduction, TLAPS

\* The numbers are well-founded: every set of them has a least element.
LEMMA LeastElement ==
  ASSUME NEW T, T \subseteq Nat, T # {}
  PROVE  \E n \in T : \A m \in T : n <= m
<1>1. PICK n \in T : \A m \in T : ~ (<<m, n>> \in OpToRel(<, Nat))
  BY NatLessThanWellFounded, WFMin
<1>2. ASSUME NEW m \in T PROVE n <= m
  <2>1. \A i, j \in Nat : i < j => <<i, j>> \in OpToRel(<, Nat)
    BY DEF OpToRel
  <2>2. m \in Nat /\ n \in Nat
    OBVIOUS
  <2>3. ~ (m < n)
    BY <1>1, <2>1, <2>2, Zenon
  <2> QED BY <2>2, <2>3
<1> QED BY <1>2

\* Of finite sets, some are smallest.
LEMMA SmallestSet ==
  ASSUME NEW B, B # {}, \A E \in B : IsFiniteSet(E)
  PROVE  \E E \in B : \A F \in B : Cardinality(E) <= Cardinality(F)
<1> DEFINE T == {Cardinality(E) : E \in B}
<1>1. T \subseteq Nat /\ T # {}
  BY FS_CardinalityType
<1>2. PICK n \in T : \A m \in T : n <= m
  BY <1>1, LeastElement
<1>3. PICK E \in B : n = Cardinality(E)
  BY <1>2
<1> QED BY <1>2, <1>3

Pick(s) == CHOOSE x \in s : TRUE

\* The function a sum is defined with.
SumsTo(h, f, D) ==
  h = [s \in SUBSET D |-> IF s = {} THEN 0 ELSE f[Pick(s)] + h[s \ {Pick(s)}]]
Sum(f, D) == (CHOOSE h : SumsTo(h, f, D))[D]

\* The total of a function is the sum over its domain.
LEMMA TotalIs ==
  ASSUME NEW f
  PROVE  Total(f) = Sum(f, DOMAIN f)
BY DEF Total, MapThenSumSet, MapThenFoldSet, SumsTo, Sum, Pick

\* Two such functions agree where both are defined.
LEMMA SumsToAgree ==
  ASSUME NEW f, NEW D, NEW E, NEW g, SumsTo(g, f, D), NEW h, SumsTo(h, f, E), NEW S,
         IsFiniteSet(S), S \subseteq D, S \subseteq E
  PROVE  g[S] = h[S]
<1> DEFINE Bad == {s \in SUBSET S : g[s] # h[s]}
<1> SUFFICES ASSUME Bad # {} PROVE FALSE
  OBVIOUS
<1>1. \A s \in SUBSET S : IsFiniteSet(s)
  BY FS_Subset
<1>2. PICK s \in Bad : \A t \in Bad : Cardinality(s) <= Cardinality(t)
  BY <1>1, SmallestSet
<1>3. s # {}
  BY <1>2 DEF SumsTo
<1> DEFINE t == s \ {Pick(s)}
<1>4. Pick(s) \in s /\ t \in SUBSET S
  BY <1>2, <1>3 DEF Pick
<1>5. Cardinality(t) = Cardinality(s) - 1 /\ Cardinality(s) \in Nat
  BY <1>1, <1>4, FS_RemoveElement, FS_CardinalityType
<1>6. t \notin Bad
  BY <1>2, <1>5
<1>7. g[t] = h[t]
  BY <1>4, <1>6
<1>8. g[s] = f[Pick(s)] + g[t] /\ h[s] = f[Pick(s)] + h[t]
  BY <1>3 DEF SumsTo
<1> QED BY <1>2, <1>7, <1>8

\* A part of such a function is one.
LEMMA SumsToPart ==
  ASSUME NEW f, NEW D, NEW h, SumsTo(h, f, D), NEW E, E \subseteq D
  PROVE  SumsTo([s \in SUBSET E |-> h[s]], f, E)
<1> DEFINE g == [s \in SUBSET E |-> h[s]]
<1>1. ASSUME NEW s \in SUBSET E
      PROVE  g[s] = IF s = {} THEN 0 ELSE f[Pick(s)] + g[s \ {Pick(s)}]
  <2>1. s \ {Pick(s)} \in SUBSET E /\ s \in SUBSET D
    OBVIOUS
  <2>2. h[s] = IF s = {} THEN 0 ELSE f[Pick(s)] + h[s \ {Pick(s)}]
    BY <2>1 DEF SumsTo
  <2>3. g[s] = h[s] /\ g[s \ {Pick(s)}] = h[s \ {Pick(s)}]
    BY <2>1
  <2> QED BY <2>2, <2>3
<1>2. g = [s \in SUBSET E |-> g[s]]
  OBVIOUS
<1> HIDE DEF g
<1>3. SumsTo(g, f, E)
  BY <1>1, <1>2 DEF SumsTo
<1> QED BY <1>3 DEF g

\* One step of a sum whose function is there.
LEMMA SumUnfolds ==
  ASSUME NEW f, NEW D, IsFiniteSet(D), D # {}, \E h : SumsTo(h, f, D)
  PROVE  Sum(f, D) = f[Pick(D)] + Sum(f, D \ {Pick(D)})
<1> DEFINE E == D \ {Pick(D)}
           h == CHOOSE h : SumsTo(h, f, D)
           g == CHOOSE g : SumsTo(g, f, E)
<1>1. SumsTo(h, f, D)
  OBVIOUS
<1>2. SumsTo(g, f, E)
  <2>1. \E q : SumsTo(q, f, E)
    <3> HIDE DEF h
    <3> QED BY <1>1, SumsToPart
  <2> QED BY <2>1
<1>3. Sum(f, D) = h[D] /\ Sum(f, E) = g[E]
  BY DEF Sum
<1> HIDE DEF h, g
<1>4. IsFiniteSet(E) /\ E \subseteq D /\ E \subseteq E
  BY FS_RemoveElement
<1>5. h[E] = g[E]
  BY <1>1, <1>2, <1>4, SumsToAgree
<1>6. h[D] = f[Pick(D)] + h[E]
  BY <1>1 DEF SumsTo
<1> QED BY <1>3, <1>5, <1>6

\* There is such a function for every finite set.
LEMMA SumsToExists ==
  ASSUME NEW f, NEW D, IsFiniteSet(D)
  PROVE  \E h : SumsTo(h, f, D)
<1> DEFINE Bad == {s \in SUBSET D : ~ \E h : SumsTo(h, f, s)}
<1> SUFFICES ASSUME Bad # {} PROVE FALSE
  OBVIOUS
<1>1. \A s \in SUBSET D : IsFiniteSet(s)
  BY FS_Subset
<1>2. PICK S \in Bad : \A t \in Bad : Cardinality(S) <= Cardinality(t)
  BY <1>1, SmallestSet
<1>3. ASSUME NEW s \in SUBSET S, s # S PROVE \E h : SumsTo(h, f, s)
  <2>1. IsFiniteSet(S) /\ s \in SUBSET D
    BY <1>1
  <2>2. Cardinality(s) <= Cardinality(S) /\ Cardinality(S) # Cardinality(s)
    BY <2>1, <1>3, FS_Subset
  <2>3. Cardinality(s) \in Nat /\ Cardinality(S) \in Nat
    BY <1>1, <2>1, FS_CardinalityType
  <2>4. s \notin Bad
    BY <1>2, <2>2, <2>3
  <2> QED BY <2>1, <2>4
<1> DEFINE h == [s \in SUBSET S |-> IF s = {} THEN 0
                                    ELSE IF s = S THEN f[Pick(s)] + Sum(f, s \ {Pick(s)})
                                    ELSE Sum(f, s)]
<1>4. ASSUME NEW s \in SUBSET S, s # S PROVE h[s] = Sum(f, s)
  <2>1. CASE s = {}
    <3>1. PICK g : SumsTo(g, f, {}) /\ Sum(f, {}) = g[{}]
      <4>1. \E g : SumsTo(g, f, {})
        BY <1>3, <1>4, <2>1
      <4> DEFINE g == CHOOSE g : SumsTo(g, f, {})
      <4>2. SumsTo(g, f, {})
        BY <4>1
      <4>3. Sum(f, {}) = g[{}]
        BY DEF Sum
      <4> QED BY <4>2, <4>3
    <3>2. g[{}] = 0
      BY <3>1 DEF SumsTo
    <3> QED BY <2>1, <3>1, <3>2
  <2>2. CASE s # {}
    BY <1>4, <2>2
  <2> QED BY <2>1, <2>2
<1>5. ASSUME NEW s \in SUBSET S
      PROVE  h[s] = IF s = {} THEN 0 ELSE f[Pick(s)] + h[s \ {Pick(s)}]
  <2>1. CASE s = {}
    BY <2>1
  <2>2. CASE s # {}
    <3> DEFINE t == s \ {Pick(s)}
    <3>1. Pick(s) \in s /\ t \in SUBSET S /\ t # S
      BY <2>2 DEF Pick
    <3>2. h[t] = Sum(f, t)
      BY <1>4, <3>1
    <3>3. CASE s = S
      BY <2>2, <3>2, <3>3
    <3>4. CASE s # S
      <4>1. IsFiniteSet(s)
        BY <1>1
      <4>2. Sum(f, s) = f[Pick(s)] + Sum(f, t)
        BY <1>3, <2>2, <3>4, <4>1, SumUnfolds
      <4>3. h[s] = Sum(f, s)
        BY <1>4, <3>4
      <4> QED BY <2>2, <3>2, <4>2, <4>3
    <3> QED BY <3>3, <3>4
  <2> QED BY <2>1, <2>2
<1>6. h = [s \in SUBSET S |-> h[s]]
  OBVIOUS
<1> HIDE DEF h
<1>7. SumsTo(h, f, S)
  BY <1>5, <1>6 DEF SumsTo
<1> QED BY <1>2, <1>7

\* Nothing sums to zero.
LEMMA SumEmpty ==
  ASSUME NEW f
  PROVE  Sum(f, {}) = 0
<1> DEFINE h == CHOOSE h : SumsTo(h, f, {})
<1>1. SumsTo(h, f, {})
  <2>1. \E q : SumsTo(q, f, {})
    BY SumsToExists, FS_EmptySet
  <2> QED BY <2>1
<1>2. Sum(f, {}) = h[{}]
  BY DEF Sum
<1> HIDE DEF h
<1> QED BY <1>1, <1>2 DEF SumsTo

\* A sum is its chosen element and the rest.
LEMMA SumStep ==
  ASSUME NEW f, NEW D, IsFiniteSet(D), D # {}
  PROVE  Sum(f, D) = f[Pick(D)] + Sum(f, D \ {Pick(D)}) /\ Pick(D) \in D
<1>1. \E h : SumsTo(h, f, D)
  BY SumsToExists
<1>2. Pick(D) \in D
  BY DEF Pick
<1> QED BY <1>1, <1>2, SumUnfolds

\* A sum of values of a set that adding does not leave is one of them.
LEMMA SumIn ==
  ASSUME NEW M, 0 \in M, \A a, b \in M : a + b \in M,
         NEW f, NEW D, IsFiniteSet(D), \A x \in D : f[x] \in M
  PROVE  Sum(f, D) \in M
<1> DEFINE Bad == {s \in SUBSET D : Sum(f, s) \notin M}
<1> SUFFICES ASSUME Bad # {} PROVE FALSE
  OBVIOUS
<1>1. \A s \in SUBSET D : IsFiniteSet(s)
  BY FS_Subset
<1>2. PICK s \in Bad : \A t \in Bad : Cardinality(s) <= Cardinality(t)
  BY <1>1, SmallestSet
<1>3. s # {}
  BY <1>2, SumEmpty
<1> DEFINE t == s \ {Pick(s)}
<1>4. Sum(f, s) = f[Pick(s)] + Sum(f, t) /\ Pick(s) \in s
  BY <1>1, <1>3, SumStep
<1>5. t \in SUBSET D /\ Cardinality(t) = Cardinality(s) - 1 /\ Cardinality(s) \in Nat
  BY <1>1, <1>4, FS_RemoveElement, FS_CardinalityType
<1>6. t \notin Bad
  BY <1>2, <1>5
<1>7. Sum(f, t) \in M /\ f[Pick(s)] \in M
  BY <1>4, <1>5, <1>6
<1> QED BY <1>2, <1>4, <1>7

\* A sum of numbers is one, and so is one of integers.
LEMMA SumType ==
  ASSUME NEW f, NEW D, IsFiniteSet(D), \A x \in D : f[x] \in Nat
  PROVE  Sum(f, D) \in Nat
<1>1. 0 \in Nat /\ \A a, b \in Nat : a + b \in Nat
  OBVIOUS
<1> QED BY <1>1, SumIn, Zenon

LEMMA SumIsInt ==
  ASSUME NEW f, NEW D, IsFiniteSet(D), \A x \in D : f[x] \in Int
  PROVE  Sum(f, D) \in Int
<1>1. 0 \in Int /\ \A a, b \in Int : a + b \in Int
  OBVIOUS
<1> QED BY <1>1, SumIn, Zenon

\* Any integer may be taken out first.
LEMMA SumTakes ==
  ASSUME NEW f, NEW D, IsFiniteSet(D), \A x \in D : f[x] \in Int, NEW x \in D
  PROVE  Sum(f, D) = f[x] + Sum(f, D \ {x}) /\ Sum(f, D \ {x}) \in Int
<1> DEFINE Bad == {s \in SUBSET D : \E y \in s : Sum(f, s) # f[y] + Sum(f, s \ {y})}
<1>1. \A s \in SUBSET D : IsFiniteSet(s)
  BY FS_Subset
<1>0. ASSUME Bad # {} PROVE FALSE
  <2>2. PICK s \in Bad : \A t \in Bad : Cardinality(s) <= Cardinality(t)
    BY <1>0, <1>1, SmallestSet
  <2>3. PICK y \in s : Sum(f, s) # f[y] + Sum(f, s \ {y})
    BY <2>2
  <2> DEFINE p == Pick(s)
  <2>4. Sum(f, s) = f[p] + Sum(f, s \ {p}) /\ p \in s
    BY <1>1, <2>3, SumStep
  <2>5. y # p
    BY <2>3, <2>4
  <2>6. ASSUME NEW z \in s PROVE s \ {z} \in SUBSET D /\ s \ {z} \notin Bad
    <3>1. Cardinality(s \ {z}) = Cardinality(s) - 1 /\ Cardinality(s) \in Nat
      BY <1>1, FS_RemoveElement, FS_CardinalityType
    <3>2. s \ {z} \in SUBSET D
      BY <2>2
    <3>3. ~(Cardinality(s) <= Cardinality(s \ {z}))
      BY ONLY <3>1
    <3> HIDE DEF Bad
    <3> QED BY ONLY <2>2, <3>2, <3>3, Zenon
  <2>7. Sum(f, s \ {p}) = f[y] + Sum(f, (s \ {p}) \ {y})
    BY <2>4, <2>5, <2>6
  <2>8. Sum(f, s \ {y}) = f[p] + Sum(f, (s \ {y}) \ {p})
    BY <2>4, <2>5, <2>6
  <2>9. (s \ {p}) \ {y} = (s \ {y}) \ {p} /\ (s \ {p}) \ {y} \in SUBSET D
    OBVIOUS
  <2>10. PICK a, b, c : a = f[p] /\ b = f[y] /\ c = Sum(f, (s \ {p}) \ {y})
    OBVIOUS
  <2>11. a \in Int /\ b \in Int
    BY <2>3, <2>4, <2>10
  <2>12. c \in Int
    <3>1. \A z \in (s \ {p}) \ {y} : f[z] \in Int
      OBVIOUS
    <3> QED BY <1>1, <2>9, <2>10, <3>1, SumIsInt
  <2>13. Sum(f, s) = a + (b + c) /\ f[y] + Sum(f, s \ {y}) = b + (a + c)
    BY <2>4, <2>7, <2>8, <2>9, <2>10
  <2>14. a + (b + c) = b + (a + c)
    BY <2>11, <2>12
  <2> QED BY <2>3, <2>13, <2>14
<1>2. Sum(f, D) = f[x] + Sum(f, D \ {x})
  BY <1>0
<1>3. Sum(f, D \ {x}) \in Int
  <2>1. \A z \in D \ {x} : f[z] \in Int
    OBVIOUS
  <2>2. IsFiniteSet(D \ {x})
    BY FS_RemoveElement
  <2> QED BY <2>1, <2>2, SumIsInt
<1> QED BY <1>2, <1>3

\* So with numbers.
LEMMA SumWithout ==
  ASSUME NEW f, NEW D, IsFiniteSet(D), \A x \in D : f[x] \in Nat, NEW x \in D
  PROVE  Sum(f, D) = f[x] + Sum(f, D \ {x})
<1>1. \A y \in D : f[y] \in Int
  OBVIOUS
<1> QED BY <1>1, SumTakes

\* A sum depends on the values alone.
LEMMA SumSame ==
  ASSUME NEW f, NEW g, NEW D, IsFiniteSet(D), \A x \in D : f[x] = g[x]
  PROVE  Sum(f, D) = Sum(g, D)
<1> DEFINE Bad == {s \in SUBSET D : Sum(f, s) # Sum(g, s)}
<1> SUFFICES ASSUME Bad # {} PROVE FALSE
  OBVIOUS
<1>1. \A s \in SUBSET D : IsFiniteSet(s)
  BY FS_Subset
<1>2. PICK s \in Bad : \A t \in Bad : Cardinality(s) <= Cardinality(t)
  BY <1>1, SmallestSet
<1>3. s # {}
  BY <1>2, SumEmpty
<1> DEFINE t == s \ {Pick(s)}
<1>4. /\ Sum(f, s) = f[Pick(s)] + Sum(f, t) /\ Pick(s) \in s
      /\ Sum(g, s) = g[Pick(s)] + Sum(g, t)
  BY <1>1, <1>3, SumStep
<1>5. t \in SUBSET D /\ Cardinality(t) = Cardinality(s) - 1 /\ Cardinality(s) \in Nat
  BY <1>1, <1>4, FS_RemoveElement, FS_CardinalityType
<1>6. t \notin Bad
  BY <1>2, <1>5
<1>7. Sum(f, t) = Sum(g, t) /\ f[Pick(s)] = g[Pick(s)]
  BY <1>4, <1>5, <1>6
<1> QED BY <1>2, <1>4, <1>7

\* One place more.
LEMMA TotalMore ==
  ASSUME NEW n \in Nat, NEW f \in [1 .. n -> Nat], NEW g \in [1 .. n + 1 -> Nat],
         \A i \in 1 .. n : g[i] = f[i]
  PROVE  Total(g) = Total(f) + g[n + 1] /\ Total(f) \in Nat
<1>1. IsFiniteSet(1 .. n) /\ IsFiniteSet(1 .. n + 1)
  BY FS_Interval
<1>2. (1 .. n + 1) \ {n + 1} = 1 .. n /\ n + 1 \in 1 .. n + 1
  OBVIOUS
<1>3. \A x \in 1 .. n + 1 : g[x] \in Nat
  OBVIOUS
<1>4. Sum(g, 1 .. n + 1) = g[n + 1] + Sum(g, (1 .. n + 1) \ {n + 1})
  BY <1>1, <1>2, <1>3, SumWithout
<1>5. Sum(g, 1 .. n) = Sum(f, 1 .. n)
  BY <1>1, SumSame
<1>6. Total(f) = Sum(f, 1 .. n) /\ Total(g) = Sum(g, 1 .. n + 1)
  BY TotalIs
<1>7. Sum(f, 1 .. n) \in Nat
  <2>1. \A x \in 1 .. n : f[x] \in Nat
    OBVIOUS
  <2> QED BY <1>1, <2>1, SumType
<1>8. g[n + 1] \in Nat
  BY <1>2
<1>9. PICK a, b : a = g[n + 1] /\ b = Sum(f, 1 .. n)
  OBVIOUS
<1>10. a + b = b + a
  BY <1>7, <1>8, <1>9
<1> QED BY <1>2, <1>4, <1>5, <1>6, <1>7, <1>9, <1>10

\* SumWithout and SumSame for functions and sets to be named later.
LEMMA SumsWithout ==
  \A h, D : IsFiniteSet(D) /\ (\A x \in D : h[x] \in Nat)
            => \A x \in D : Sum(h, D) = h[x] + Sum(h, D \ {x})
<1> SUFFICES ASSUME NEW h, NEW D, IsFiniteSet(D), \A x \in D : h[x] \in Nat, NEW x \in D
             PROVE  Sum(h, D) = h[x] + Sum(h, D \ {x})
  OBVIOUS
<1> QED BY SumWithout

LEMMA SumsSame ==
  \A h, g, D : IsFiniteSet(D) /\ (\A x \in D : h[x] = g[x]) => Sum(h, D) = Sum(g, D)
BY SumSame

\* One value changes.
LEMMA TotalChange ==
  ASSUME NEW n \in Nat, NEW f \in [1 .. n -> Nat], NEW g \in [1 .. n -> Nat], NEW k \in 1 .. n,
         \A i \in 1 .. n : i # k => g[i] = f[i]
  PROVE  \E r \in Nat : Total(f) = f[k] + r /\ Total(g) = g[k] + r
<1> DEFINE S == 1 .. n
           D == S \ {k}
<1>0. IsFiniteSet(S)
  BY FS_Interval
<1>1. IsFiniteSet(S) /\ IsFiniteSet(D)
  BY <1>0, FS_RemoveElement
<1>2. /\ \A x \in S : f[x] \in Nat
      /\ \A x \in S : g[x] \in Nat
      /\ \A x \in D : f[x] \in Nat
      /\ \A x \in D : f[x] = g[x]
      /\ k \in S
  OBVIOUS
<1>3. Sum(f, S) = f[k] + Sum(f, D) /\ Sum(g, S) = g[k] + Sum(g, D)
  <2> HIDE DEF S
  <2>1. \A x \in S : Sum(f, S) = f[x] + Sum(f, S \ {x})
    BY ONLY <1>1, <1>2, SumsWithout, Zenon
  <2>2. \A x \in S : Sum(g, S) = g[x] + Sum(g, S \ {x})
    BY ONLY <1>1, <1>2, SumsWithout, Zenon
  <2> QED BY ONLY <1>2, <2>1, <2>2, Zenon
<1>4. Sum(f, D) = Sum(g, D)
  <2> HIDE DEF D
  <2> QED BY ONLY <1>1, <1>2, SumsSame, Zenon
<1>5. Sum(f, D) \in Nat
  BY <1>1, <1>2, SumType
<1>6. Total(f) = Sum(f, S) /\ Total(g) = Sum(g, S)
  BY TotalIs
<1> QED BY <1>3, <1>4, <1>5, <1>6

\* No place.
LEMMA TotalEmpty ==
  ASSUME NEW f, DOMAIN f = {}
  PROVE  Total(f) = 0
BY TotalIs, SumEmpty

\* p lists the places 1 .. n in another order.
Reorders(p, n) ==
  /\ p \in [1 .. n -> 1 .. n]
  /\ \A i, j \in 1 .. n : i # j => p[i] # p[j]
  /\ \A j \in 1 .. n : \E i \in 1 .. n : p[i] = j

\* Another integer is added.
LEMMA SumAdds ==
  ASSUME NEW f, NEW D, IsFiniteSet(D), NEW y, y \notin D, \A x \in D \cup {y} : f[x] \in Int
  PROVE  /\ Sum(f, D \cup {y}) = Sum(f, D) + f[y]
         /\ Sum(f, D) \in Int /\ Sum(f, D \cup {y}) \in Int /\ f[y] \in Int
<1> DEFINE E == D \cup {y}
<1>1. IsFiniteSet(E) /\ y \in E /\ E \ {y} = D /\ \A x \in E : f[x] \in Int
  BY FS_AddElement
<1> HIDE DEF E
<1>2. Sum(f, E) = f[y] + Sum(f, D) /\ Sum(f, D) \in Int /\ Sum(f, E) \in Int
  <2>1. Sum(f, E) = f[y] + Sum(f, E \ {y}) /\ Sum(f, E \ {y}) \in Int
    BY ONLY <1>1, SumTakes
  <2>2. Sum(f, E) \in Int
    BY ONLY <1>1, SumIsInt
  <2> QED BY <1>1, <2>1, <2>2
<1>3. PICK a, b : a = f[y] /\ b = Sum(f, D)
  OBVIOUS
<1>4. a \in Int /\ b \in Int
  BY <1>1, <1>2, <1>3
<1>5. a + b = b + a
  BY <1>4
<1> QED BY <1>1, <1>2, <1>3, <1>5 DEF E

\* The image of a finite set is finite.
LEMMA ImageIsFinite ==
  ASSUME NEW S, IsFiniteSet(S), NEW f
  PROVE  IsFiniteSet({f[x] : x \in S})
<1> DEFINE T == {f[x] : x \in S}
           g == [x \in S |-> f[x]]
<1>1. g \in Surjection(S, T)
  BY DEF Surjection
<1> HIDE DEF T, g
<1>2. IsFiniteSet(T)
  BY <1>1, FS_Surjection
<1> QED BY <1>2 DEF T

\* A sum over places is one over what they are places of.
LEMMA SumImage ==
  ASSUME NEW f, NEW g, NEW D, IsFiniteSet(D), NEW p, \A x, y \in D : p[x] = p[y] => x = y,
         \A x \in D : g[p[x]] \in Int /\ f[x] = g[p[x]]
  PROVE  Sum(f, D) = Sum(g, {p[x] : x \in D})
<1> DEFINE Image(s) == {p[x] : x \in s}
           Bad == {s \in SUBSET D : Sum(f, s) # Sum(g, Image(s))}
<1>1. \A s \in SUBSET D : IsFiniteSet(s) /\ IsFiniteSet(Image(s))
  BY FS_Subset, ImageIsFinite
<1>3. ASSUME Bad # {} PROVE FALSE
  <2>1. PICK s \in Bad : \A t \in Bad : Cardinality(s) <= Cardinality(t)
    BY <1>1, <1>3, SmallestSet
  <2>2. s # {}
    <3>1. Image({}) = {}
      OBVIOUS
    <3> QED BY <2>1, <3>1, SumEmpty
  <2> DEFINE first == Pick(s)
             t == s \ {first}
  <2>3. Sum(f, s) = f[first] + Sum(f, t) /\ first \in s
    BY <1>1, <2>2, SumStep
  <2>4. t \in SUBSET D /\ Cardinality(t) = Cardinality(s) - 1 /\ Cardinality(s) \in Nat
    BY <1>1, <2>3, FS_RemoveElement, FS_CardinalityType
  <2>5. t \notin Bad
    BY <2>1, <2>4
  <2>6. Sum(f, t) = Sum(g, Image(t))
    BY <2>4, <2>5
  <2>7. Image(s) \ {p[first]} = Image(t) /\ p[first] \in Image(s) /\ f[first] = g[p[first]]
    BY <2>3
  <2>8. \A y \in Image(s) : g[y] \in Int
    OBVIOUS
  <2>9. IsFiniteSet(Image(s))
    BY <1>1
  <2> HIDE DEF Image, first
  <2>10. Sum(g, Image(s)) = g[p[first]] + Sum(g, Image(s) \ {p[first]})
    <3>1. PICK E, z : E = Image(s) /\ z = p[first]
      OBVIOUS
    <3>2. IsFiniteSet(E) /\ (\A y \in E : g[y] \in Int) /\ z \in E
      BY <2>7, <2>8, <2>9, <3>1
    <3>3. Sum(g, E) = g[z] + Sum(g, E \ {z})
      BY ONLY <3>2, SumTakes
    <3> QED BY <3>1, <3>3
  <2>11. Sum(f, s) = Sum(g, Image(s))
    BY <2>3, <2>6, <2>7, <2>10
  <2> QED BY <2>1, <2>11
<1>4. Sum(f, D) = Sum(g, Image(D))
  BY <1>3
<1> QED BY <1>4

\* The order of the places does not matter.
LEMMA TotalReordered ==
  ASSUME NEW n \in Nat, NEW f \in [1 .. n -> Nat], NEW g \in [1 .. n -> Nat], NEW p, Reorders(p, n),
         \A i \in 1 .. n : g[i] = f[p[i]]
  PROVE  Total(g) = Total(f)
<1> DEFINE S == 1 .. n
           T == {p[i] : i \in S}
<1>1. IsFiniteSet(S)
  BY FS_Interval
<1>2. T = S
  BY DEF Reorders
<1>3. Sum(g, S) = Sum(f, T)
  <2>1. \A i \in S : p[i] \in S /\ f[p[i]] \in Nat /\ g[i] = f[p[i]]
    BY DEF Reorders
  <2>2. \A i \in S : f[p[i]] \in Int /\ g[i] = f[p[i]]
    <3> HIDE DEF S
    <3> QED BY <2>1
  <2>3. \A i, j \in S : p[i] = p[j] => i = j
    BY DEF Reorders
  <2> HIDE DEF S
  <2>4. PICK a, b, D : a = f /\ b = g /\ D = S
    OBVIOUS
  <2>5. /\ IsFiniteSet(D) /\ \A i, j \in D : p[i] = p[j] => i = j
        /\ \A i \in D : a[p[i]] \in Int /\ b[i] = a[p[i]]
    BY <1>1, <2>2, <2>3, <2>4
  <2>6. Sum(b, D) = Sum(a, {p[i] : i \in D})
    BY ONLY <2>5, SumImage
  <2> QED BY <2>4, <2>6
<1>4. Total(f) = Sum(f, S) /\ Total(g) = Sum(g, S)
  BY TotalIs DEF S
<1> QED BY <1>2, <1>3, <1>4

-----------------------------------------------------------------------------
(* Lists in an order                                                       *)

Members(c) == {c[j] : j \in DOMAIN c}

List(s) == s \in Seq(Members(s))

\* What is listed place by place up to a number is a list.
LEMMA ListIs ==
  ASSUME NEW n \in Nat, NEW s, DOMAIN s = 1 .. n, s = [i \in DOMAIN s |-> s[i]]
  PROVE  List(s) /\ Len(s) = n
<1>1. \A i \in 1 .. n : s[i] \in Members(s)
  BY DEF Members
<1>2. s \in [1 .. n -> Members(s)]
  BY <1>1
<1>3. s \in Seq(Members(s))
  BY <1>2, SeqDef
<1> QED BY <1>2, <1>3 DEF List

\* The places of a list are the numbers up to its length.
LEMMA ListPlaces ==
  ASSUME NEW s, List(s)
  PROVE  /\ Len(s) \in Nat /\ DOMAIN s = 1 .. Len(s) /\ IsFiniteSet(DOMAIN s)
         /\ s = [i \in DOMAIN s |-> s[i]]
<1>1. Len(s) \in Nat /\ DOMAIN s = 1 .. Len(s) /\ s = [i \in DOMAIN s |-> s[i]]
  BY DEF List
<1> QED BY <1>1, FS_Interval

\* A sequence of any set is a list.
LEMMA SequenceIsList ==
  ASSUME NEW S, NEW s \in Seq(S)
  PROVE  List(s)
BY ListIs

\* R is a strict order of all of S.
Orders(R, S) ==
  /\ \A x \in S : <<x, x>> \notin R
  /\ \A x, y, z \in S : <<x, y>> \in R /\ <<y, z>> \in R => <<x, z>> \in R
  /\ \A x, y \in S : x # y => <<x, y>> \in R \/ <<y, x>> \in R

\* b counts the elements of S that come before each.
Ranks(b, R, S) == \A n \in S : b[n] = Cardinality({m \in S : <<m, n>> \in R})

\* The ranks of a finite set are the numbers below its cardinality, each once.
LEMMA RanksAre ==
  ASSUME NEW S, IsFiniteSet(S), NEW R, Orders(R, S), NEW b, Ranks(b, R, S)
  PROVE  /\ \A n \in S : b[n] \in Nat /\ b[n] + 1 \in 1 .. Cardinality(S)
         /\ \A m, n \in S : <<m, n>> \in R => b[m] < b[n]
         /\ \A m, n \in S : b[m] = b[n] => m = n
         /\ \A k \in 1 .. Cardinality(S) : \E n \in S : b[n] = k - 1
<1> DEFINE c == Cardinality(S)
           Lower(n) == {m \in S : <<m, n>> \in R}
           place == [n \in S |-> b[n] + 1]
<1>1. c \in Nat
  BY FS_CardinalityType
<1>2. \A n \in S : b[n] = Cardinality(Lower(n))
  BY DEF Ranks
<1>3. \A n \in S : IsFiniteSet(Lower(n)) /\ Cardinality(Lower(n)) \in Nat
  <2>1. \A n \in S : Lower(n) \in SUBSET S
    OBVIOUS
  <2> HIDE DEF Lower
  <2> QED BY <2>1, FS_Subset, FS_CardinalityType
<1>4. ASSUME NEW n \in S PROVE Cardinality(Lower(n)) + 1 \in 1 .. c
  <2>1. Lower(n) \in SUBSET (S \ {n})
    BY DEF Orders
  <2>2. IsFiniteSet(S \ {n}) /\ Cardinality(S \ {n}) = c - 1
    BY FS_RemoveElement
  <2> HIDE DEF Lower
  <2>3. Cardinality(Lower(n)) <= c - 1
    BY <2>1, <2>2, FS_Subset
  <2> QED BY <1>1, <1>3, <2>3
<1>5. ASSUME NEW m \in S, NEW n \in S, <<m, n>> \in R
      PROVE  Cardinality(Lower(m)) < Cardinality(Lower(n))
  <2>1. Lower(m) \cup {m} \in SUBSET Lower(n) /\ m \notin Lower(m)
    BY <1>5 DEF Orders
  <2> HIDE DEF Lower
  <2>2. Cardinality(Lower(m) \cup {m}) = Cardinality(Lower(m)) + 1
    BY <1>3, <2>1, FS_AddElement
  <2>3. Cardinality(Lower(m) \cup {m}) <= Cardinality(Lower(n))
    BY <1>3, <2>1, FS_Subset
  <2> QED BY <1>3, <2>2, <2>3
<1> HIDE DEF Lower
<1>6. /\ \A n \in S : b[n] \in Nat /\ b[n] + 1 \in 1 .. c
      /\ \A m, n \in S : <<m, n>> \in R => b[m] < b[n]
  BY <1>2, <1>3, <1>4, <1>5
<1>7. ASSUME NEW m \in S, NEW n \in S, b[m] = b[n] PROVE m = n
  <2>1. <<m, n>> \notin R /\ <<n, m>> \notin R
    BY <1>6, <1>7
  <2> QED BY <2>1 DEF Orders
<1>8. place \in Injection(S, 1 .. c)
  <2>1. place \in [S -> 1 .. c]
    BY <1>6
  <2>2. ASSUME NEW m \in S, NEW n \in S, place[m] = place[n] PROVE m = n
    BY <1>6, <1>7, <2>2
  <2> HIDE DEF place
  <2> QED BY <2>1, <2>2 DEF Injection, IsInjective
<1>9. IsFiniteSet(1 .. c) /\ Cardinality(1 .. c) = c
  BY <1>1, FS_Interval
<1>10. place \in Surjection(S, 1 .. c)
  <2> HIDE DEF place
  <2> QED BY <1>8, <1>9, FS_Injection
<1>11. ASSUME NEW k \in 1 .. c PROVE \E n \in S : b[n] = k - 1
  <2>1. PICK n \in S : place[n] = k
    BY <1>10 DEF Surjection
  <2>2. b[n] + 1 = k /\ b[n] \in Nat
    BY <1>6, <2>1
  <2> QED BY <2>2
<1> QED BY <1>6, <1>7, <1>11

\* a has at each place the element of that rank.
ByRank(a, b, S) ==
  /\ DOMAIN a = 1 .. Cardinality(S) /\ a = [k \in DOMAIN a |-> a[k]]
  /\ \A k \in DOMAIN a : (\E n \in S : b[n] = k - 1) => a[k] \in S /\ b[a[k]] = k - 1

\* a lists the elements of S, each at one place, in the order R.
Lists(a, S, R) ==
  /\ List(a) /\ Len(a) = Cardinality(S)
  /\ \A k \in DOMAIN a : a[k] \in S
  /\ \A k, l \in DOMAIN a : a[k] = a[l] => k = l
  /\ \A n \in S : \E k \in DOMAIN a : a[k] = n
  /\ \A k, l \in DOMAIN a : k < l => <<a[k], a[l]>> \in R

\* A finite set listed by rank: each element at one place, in the order.
LEMMA RankedIs ==
  ASSUME NEW S, IsFiniteSet(S), NEW R, Orders(R, S), NEW b, Ranks(b, R, S),
         NEW a, ByRank(a, b, S)
  PROVE  Lists(a, S, R)
<1> DEFINE c == Cardinality(S)
<1>1. c \in Nat
  BY FS_CardinalityType
<1>2. /\ \A n \in S : b[n] \in Nat /\ b[n] + 1 \in 1 .. c
      /\ \A m, n \in S : <<m, n>> \in R => b[m] < b[n]
      /\ \A m, n \in S : b[m] = b[n] => m = n
      /\ \A k \in 1 .. c : \E n \in S : b[n] = k - 1
  BY RanksAre
<1>3. \A k \in 1 .. c : a[k] \in S /\ b[a[k]] = k - 1
  BY <1>2 DEF ByRank
<1>4. DOMAIN a = 1 .. c /\ a = [k \in DOMAIN a |-> a[k]]
  BY DEF ByRank
<1>5. List(a) /\ Len(a) = c
  BY <1>1, <1>4, ListIs
<1>6. ASSUME NEW k \in 1 .. c, NEW l \in 1 .. c, a[k] = a[l] PROVE k = l
  <2>1. k - 1 = l - 1
    BY <1>3, <1>6, Zenon
  <2> QED BY <1>1, <2>1
<1>7. ASSUME NEW k \in 1 .. c, NEW l \in 1 .. c, k < l PROVE <<a[k], a[l]>> \in R
  <2>1. a[k] \in S /\ a[l] \in S /\ b[a[k]] = k - 1 /\ b[a[l]] = l - 1
    BY <1>3
  <2>2. a[k] # a[l] /\ ~(b[a[l]] < b[a[k]])
    BY <1>1, <1>7, <2>1
  <2>3. <<a[l], a[k]>> \notin R
    BY <1>2, <2>1, <2>2
  <2> QED BY <2>1, <2>2, <2>3 DEF Orders
<1>8. ASSUME NEW n \in S PROVE \E k \in 1 .. c : a[k] = n
  <2>1. PICK k : k = b[n] + 1
    OBVIOUS
  <2>2. k \in 1 .. c /\ b[n] = k - 1
    BY <1>1, <1>2, <2>1
  <2>3. a[k] = n
    BY <1>2, <1>3, <2>2
  <2> QED BY <2>2, <2>3
<1> QED BY <1>3, <1>4, <1>5, <1>6, <1>7, <1>8 DEF Lists

Placed(r) == r.row \in Nat /\ r.col \in Nat

Sorted(c) == \A j, k \in DOMAIN c : j < k => Above(c[j], c[k])

\* No two have one position.
Apart(c) == \A j, k \in DOMAIN c : j # k => Above(c[j], c[k]) \/ Above(c[k], c[j])

\* Positions are ordered.
LEMMA AboveOrders ==
  /\ \A a : Placed(a) => ~Above(a, a)
  /\ \A a, b : Placed(a) /\ Placed(b) /\ Above(a, b) => ~Above(b, a)
  /\ \A a, b, c : Placed(a) /\ Placed(b) /\ Placed(c) /\ Above(a, b) /\ Above(b, c) => Above(a, c)
BY DEF Above, Placed

\* Sorting lists the cells in another order, and in that of their positions.
LEMMA InOrderSorts ==
  ASSUME NEW T, \A r \in T : Placed(r), NEW s \in Seq(T), Apart(s)
  PROVE  /\ InOrder(s) \in Seq(T) /\ Len(InOrder(s)) = Len(s)
         /\ Sorted(InOrder(s))
         /\ \E p : Reorders(p, Len(s)) /\ \A i \in 1 .. Len(s) : InOrder(s)[i] = s[p[i]]
<1> DEFINE n == Len(s)
           S == 1 .. n
           R == {q \in S \X S : Above(s[q[1]], s[q[2]])}
           B(j) == Cardinality({k \in S : Above(s[k], s[j])})
           b == [j \in S |-> B(j)]
           p == [i \in S |-> CHOOSE j \in S : b[j] = i - 1]
           t == [i \in S |-> s[p[i]]]
<1>1. n \in Nat /\ DOMAIN s = S /\ \A j \in S : Placed(s[j]) /\ s[j] \in T
  OBVIOUS
<1>2. InOrder(s) = t
  BY <1>1 DEF InOrder
<1>3. IsFiniteSet(S) /\ Cardinality(S) = n
  BY <1>1, FS_Interval
<1>4. \A j, k \in S : <<j, k>> \in R <=> Above(s[j], s[k])
  OBVIOUS
<1>5. Orders(R, S)
  <2> HIDE DEF R, S
  <2>1. \A j \in S : <<j, j>> \notin R
    BY <1>1, <1>4, AboveOrders
  <2>2. \A j, k, l \in S : <<j, k>> \in R /\ <<k, l>> \in R => <<j, l>> \in R
    BY <1>1, <1>4, AboveOrders
  <2>3. \A j, k \in S : j # k => <<j, k>> \in R \/ <<k, j>> \in R
    BY <1>1, <1>4 DEF Apart
  <2> QED BY <2>1, <2>2, <2>3 DEF Orders
<1>6. Ranks(b, R, S)
  <2>1. \A j \in S : {k \in S : Above(s[k], s[j])} = {k \in S : <<k, j>> \in R}
    BY <1>4
  <2> HIDE DEF R, S
  <2> QED BY <2>1 DEF Ranks
<1>7. DOMAIN p = S /\ p = [k \in DOMAIN p |-> p[k]]
  <2> HIDE DEF b, S
  <2> QED OBVIOUS
<1>8. \A k \in S : (\E j \in S : b[j] = k - 1) => p[k] \in S /\ b[p[k]] = k - 1
  <2> HIDE DEF b, S
  <2> QED OBVIOUS
<1>9. \A i \in S : t[i] = s[p[i]]
  OBVIOUS
<1>10. t = [i \in S |-> t[i]]
  OBVIOUS
<1> HIDE DEF b, p, R, t
<1>11. ByRank(p, b, S)
  <2>1. DOMAIN p = 1 .. Cardinality(S)
    BY <1>3, <1>7
  <2> HIDE DEF S
  <2> QED BY <1>7, <1>8, <2>1 DEF ByRank
<1>12. Lists(p, S, R)
  <2> HIDE DEF S
  <2> QED BY <1>3, <1>5, <1>6, <1>11, RankedIs
<1>13. Reorders(p, n)
  <2>1. p \in [S -> S]
    <3> HIDE DEF S
    <3> QED BY <1>7, <1>12 DEF Lists
  <2>2. (\A i, j \in S : i # j => p[i] # p[j]) /\ \A j \in S : \E i \in S : p[i] = j
    <3> HIDE DEF S
    <3> QED BY <1>7, <1>12 DEF Lists
  <2> QED BY <2>1, <2>2 DEF Reorders
<1>14. t \in [S -> T]
  <2> HIDE DEF S
  <2>1. \A i \in S : p[i] \in S
    BY <1>7, <1>12 DEF Lists
  <2> QED BY <1>1, <1>9, <1>10, <2>1
<1>15. t \in Seq(T) /\ Len(t) = n /\ DOMAIN t = S
  BY <1>1, <1>14
<1>16. Sorted(t)
  <2> HIDE DEF S
  <2>1. \A i, k \in S : i < k => Above(s[p[i]], s[p[k]])
    BY <1>4, <1>7, <1>12 DEF Lists
  <2> QED BY <1>9, <1>15, <2>1 DEF Sorted
<1> QED BY <1>2, <1>9, <1>13, <1>15, <1>16
-----------------------------------------------------------------------------
(* What the variables of the reader hold, and what belongs to each step    *)

Holds(r) == HasValue(r) \/ HasFormula(r)
Bare(r) == HasFormula(r) /\ ~HasValue(r)

Regions == {<<>>} \cup (Nat \X Nat \X Nat \X Nat)
ReadSheets == [name : {s.name : s \in FileSheets}, kind : {s.kind : s \in FileSheets},
               used : Regions, cells : Seq(Records),
               merged : {s.merged : s \in FileSheets} \cup {<<>>}]
InSheet == {"records", "check", "formulas"}

Typed ==
  /\ file \in Files
  /\ pc \in {"file", "archive", "workbook", "sheet", "end"} \cup InSheet
  /\ sheets \in Seq(ReadSheets)
  /\ next \in Nat \ {0} /\ cells \in Nat /\ bytes \in Nat /\ late \in Nat
  /\ cancelled \in BOOLEAN
  /\ pc # "end" => outcome = "none"

Positioned ==
  /\ pc \in {"file", "archive", "workbook"} => sheets = <<>> /\ cells = 0 /\ bytes = 0 /\ late = 0
  /\ Len(sheets) <= Len(file.sheets)
  /\ pc \notin {"file", "end"} => file.ext \in {"xls", "xlsx"}
  /\ pc \in InSheet => /\ sheets # <<>> /\ Source.kind = "worksheet"
                       /\ next <= Len(Source.records) + 1
                       /\ pc # "records" => file.ext = "xls"

Base == Typed /\ Positioned

\* The records of the sheet that is being read, row by row in the old format.
LEMMA SourceIs ==
  ASSUME NEW f \in Files, NEW n \in 1 .. Len(f.sheets)
  PROVE  /\ f.sheets[n] \in FileSheets
         /\ f.sheets[n].records \in Seq(Records)
         /\ f.ext = "xls" => InRows(f.sheets[n])
<1>1. f.sheets \in Seq(FileSheets)
  BY FilesAssumption
<1>2. f.sheets[n] \in FileSheets
  BY <1>1
<1>3. n \in DOMAIN f.sheets
  BY <1>1
<1> QED BY <1>2, <1>3, FilesAssumption

\* The used range stays a range.
LEMMA ExtendedType ==
  ASSUME NEW region \in Regions, NEW r \in Records
  PROVE  Extended(region, r) \in Regions
<1>1. r.row \in Nat /\ r.col \in Nat
  BY FilesAssumption
<1> QED BY <1>1 DEF Extended, Regions

\* One sheet takes a cell; the others stay.
Grown(s, n, r) == [s EXCEPT ![n].cells = Append(@, r), ![n].used = Extended(@, r)]

\* What a sheet that takes a cell looks like.
LEMMA GrownIs ==
  ASSUME NEW s \in Seq(ReadSheets), NEW n \in 1 .. Len(s), NEW r \in Records
  PROVE  /\ Grown(s, n, r) \in Seq(ReadSheets) /\ Len(Grown(s, n, r)) = Len(s)
         /\ \A i \in 1 .. Len(s) : i # n => Grown(s, n, r)[i] = s[i]
         /\ Grown(s, n, r)[n].cells = Append(s[n].cells, r)
         /\ Grown(s, n, r)[n].used = Extended(s[n].used, r) /\ Grown(s, n, r)[n].name = s[n].name
<1> DEFINE t == [[s[n] EXCEPT !.cells = Append(@, r)] EXCEPT !.used = Extended(@, r)]
<1>1. s[n] \in ReadSheets
  OBVIOUS
<1>2. s[n].cells \in Seq(Records) /\ s[n].used \in Regions
  BY <1>1 DEF ReadSheets
<1>3. Append(s[n].cells, r) \in Seq(Records) /\ Extended(s[n].used, r) \in Regions
  BY <1>2, ExtendedType
<1>4. t \in ReadSheets /\ t.cells = Append(s[n].cells, r) /\ t.used = Extended(s[n].used, r) /\ t.name = s[n].name
  BY <1>1, <1>3 DEF ReadSheets
<1>5. Grown(s, n, r) = [s EXCEPT ![n] = t]
  BY <1>1 DEF Grown, ReadSheets
<1> HIDE DEF t
<1> QED BY <1>4, <1>5

\* The source and the record a step looks at.
LEMMA RecordIs ==
  ASSUME Base, pc \in InSheet
  PROVE  /\ Len(sheets) \in 1 .. Len(file.sheets)
         /\ Source \in FileSheets /\ Source.records \in Seq(Records)
         /\ file.ext = "xls" => InRows(Source)
         /\ next <= Len(Source.records) => Record \in Records /\ next \in DOMAIN Source.records
<1>1. file \in Files /\ sheets \in Seq(ReadSheets) /\ sheets # <<>> /\ Len(sheets) <= Len(file.sheets)
      /\ next \in Nat \ {0}
  BY DEF Base, Typed, Positioned
<1>2. file.sheets \in Seq(FileSheets)
  BY <1>1, FilesAssumption
<1>3. Len(sheets) \in 1 .. Len(file.sheets)
  BY <1>1, <1>2
<1>4. /\ Source \in FileSheets
      /\ Source.records \in Seq(Records)
      /\ file.ext = "xls" => InRows(Source)
  BY <1>1, <1>3, SourceIs DEF Source
<1>5. next <= Len(Source.records) => Record \in Records /\ next \in DOMAIN Source.records
  BY <1>1, <1>4 DEF Record
<1> QED BY <1>3, <1>4, <1>5

\* The two ways a record is kept, or refused.
LEMMA RetainIs ==
  ASSUME Base, pc \in InSheet, next <= Len(Source.records), NEW step, Retain(Record, step)
  PROVE  \/ /\ CellAccepted(Record)
            /\ sheets' = Grown(sheets, Len(sheets), Record)
            /\ sheets' \in Seq(ReadSheets) /\ Len(sheets') = Len(sheets)
            /\ cells' = cells + 1 /\ bytes' = bytes + Record.text + Record.formula
            /\ late' = IF cancelled THEN late + 1 ELSE late
            /\ next' = next + 1 /\ Goto(step)
         \/ End("failed") /\ UNCHANGED read
<1>1. CASE CellAccepted(Record)
  <2>1. /\ sheets' = Grown(sheets, Len(sheets), Record)
        /\ cells' = cells + 1 /\ bytes' = bytes + Record.text + Record.formula
        /\ late' = IF cancelled THEN late + 1 ELSE late
        /\ next' = next + 1 /\ Goto(step)
    BY <1>1 DEF Retain, Grown
  <2>2. sheets \in Seq(ReadSheets) /\ Record \in Records /\ Len(sheets) \in 1 .. Len(sheets)
    BY RecordIs DEF Base, Typed
  <2>3. sheets' \in Seq(ReadSheets) /\ Len(sheets') = Len(sheets)
    BY <2>1, <2>2, GrownIs
  <2> QED BY <1>1, <2>1, <2>3
<1>2. CASE ~CellAccepted(Record)
  BY <1>2 DEF Retain
<1> QED BY <1>1, <1>2

\* A step that keeps or refuses the record it is at.
LEMMA RetainKeepsBase ==
  ASSUME Base, pc \in InSheet, next <= Len(Source.records), NEW step \in InSheet, Retain(Record, step),
         file' = file, cancelled' = cancelled, step # "records" => file.ext = "xls"
  PROVE  Base'
<1>1. Record \in Records /\ Len(sheets) \in 1 .. Len(file.sheets) /\ Source.records \in Seq(Records)
  BY RecordIs
<1>2. Record.text \in Nat /\ Record.formula \in Nat
  BY <1>1, FilesAssumption
<1>3. CASE End("failed") /\ UNCHANGED read
  BY <1>3 DEF Base, Typed, Positioned, End, read, InSheet
<1>4. CASE /\ sheets' \in Seq(ReadSheets) /\ Len(sheets') = Len(sheets)
           /\ cells' = cells + 1 /\ bytes' = bytes + Record.text + Record.formula
           /\ late' = IF cancelled THEN late + 1 ELSE late
           /\ next' = next + 1 /\ Goto(step)
  <2>1. Typed'
    BY <1>2, <1>4 DEF Base, Typed, Goto, InSheet
  <2>2. Source' = Source
    BY <1>4 DEF Source
  <2>3. Positioned'
    <3>1. sheets # <<>> /\ Source.kind = "worksheet" /\ file.ext \in {"xls", "xlsx"}
          /\ Len(sheets) <= Len(file.sheets) /\ sheets \in Seq(ReadSheets) /\ next \in Nat
      BY DEF Base, Typed, Positioned, InSheet
    <3>2. sheets' # <<>>
      BY <1>4, <3>1
    <3>3. next' <= Len(Source.records) + 1
      BY <1>1, <1>4, <3>1
    <3> QED BY <1>4, <2>2, <3>1, <3>2, <3>3 DEF Positioned, Goto, InSheet
  <2> QED BY <2>1, <2>3 DEF Base
<1> QED BY <1>3, <1>4, RetainIs

\* A record that is passed over.
LEMMA PassKeepsBase ==
  ASSUME Base, pc \in InSheet, next <= Len(Source.records), next' = next + 1,
         UNCHANGED <<file, sheets, cells, bytes, late, pc, outcome, cancelled>>
  PROVE  Base'
<1>1. Source' = Source /\ Source.records \in Seq(Records)
  BY RecordIs DEF Source
<1>2. Len(Source.records) \in Nat /\ next \in Nat
  BY <1>1 DEF Base, Typed
<1>3. Typed'
  BY DEF Base, Typed, InSheet
<1>4. Positioned'
  BY <1>1, <1>2 DEF Base, Typed, Positioned, InSheet
<1> QED BY <1>3, <1>4 DEF Base

\* Of a sheet that is opened, nothing is kept yet.
LEMMA OpenedIs ==
  ASSUME Base, OpenSheet
  PROVE  LET s == file.sheets[Len(sheets) + 1]
             n == Len(sheets) + 1
         IN /\ s \in FileSheets /\ s.records \in Seq(Records)
            /\ sheets' \in Seq(ReadSheets) /\ Len(sheets') = n /\ n <= Len(file.sheets) /\ n \in Nat
            /\ \A i \in 1 .. Len(sheets) : sheets'[i] = sheets[i]
            /\ sheets'[n].cells = <<>> /\ sheets'[n].used = <<>> /\ sheets'[n].name = s.name
<1> DEFINE s == file.sheets[Len(sheets) + 1]
           n == Len(sheets) + 1
           shell == [SheetShell(s) EXCEPT !.merged = IF s.kind = "worksheet" THEN s.merged ELSE <<>>]
<1>1. file \in Files /\ sheets \in Seq(ReadSheets) /\ Len(sheets) < Len(file.sheets)
      /\ sheets' = Append(sheets, shell)
  BY DEF Base, Typed, OpenSheet
<1>2. file.sheets \in Seq(FileSheets)
  BY <1>1, FilesAssumption
<1>3. n \in 1 .. Len(file.sheets) /\ n <= Len(file.sheets) /\ n \in Nat
  BY <1>1, <1>2
<1>4. s \in FileSheets /\ s.records \in Seq(Records)
  BY <1>1, <1>3, SourceIs
<1> HIDE DEF s
<1>5. shell \in ReadSheets /\ shell.cells = <<>> /\ shell.used = <<>> /\ shell.name = s.name
  <2>1. /\ s.name \in {t.name : t \in FileSheets} /\ s.kind \in {t.kind : t \in FileSheets}
        /\ s.merged \in {t.merged : t \in FileSheets}
    BY <1>4
  <2> DEFINE merged == IF s.kind = "worksheet" THEN s.merged ELSE <<>>
  <2>2. shell = [name |-> s.name, kind |-> s.kind, used |-> <<>>, cells |-> <<>>, merged |-> merged]
    BY DEF SheetShell
  <2>3. merged \in {t.merged : t \in FileSheets} \cup {<<>>}
    BY <2>1
  <2>4. <<>> \in Regions /\ <<>> \in Seq(Records)
    BY DEF Regions
  <2> HIDE DEF merged, shell
  <2> QED BY ONLY <2>1, <2>2, <2>3, <2>4 DEF ReadSheets
<1> HIDE DEF shell
<1>6. /\ sheets' \in Seq(ReadSheets) /\ Len(sheets') = n
      /\ \A i \in 1 .. Len(sheets) : sheets'[i] = sheets[i]
      /\ sheets'[n] = shell
  BY <1>1, <1>5
<1> QED BY <1>3, <1>4, <1>5, <1>6 DEF s

\* What the sort leaves of a sheet.
LEMMA SortedIs ==
  ASSUME Base, SortXlsSheet, Apart(sheets[Len(sheets)].cells)
  PROVE  LET n == Len(sheets)
         IN /\ n \in 1 .. Len(file.sheets)
            /\ sheets' \in Seq(ReadSheets) /\ Len(sheets') = n
            /\ \A i \in 1 .. n : i # n => sheets'[i] = sheets[i]
            /\ sheets'[n].cells \in Seq(Records) /\ Len(sheets'[n].cells) = Len(sheets[n].cells)
            /\ Sorted(sheets'[n].cells) /\ sheets'[n].used = sheets[n].used /\ sheets'[n].name = sheets[n].name
            /\ \E p : /\ Reorders(p, Len(sheets[n].cells))
                     /\ \A i \in 1 .. Len(sheets[n].cells) : sheets'[n].cells[i] = sheets[n].cells[p[i]]
<1> DEFINE n == Len(sheets)
           old == sheets[n]
           c == sheets[n].cells
           new == [old EXCEPT !.cells = InOrder(@)]
<1>1. n \in 1 .. Len(file.sheets) /\ n \in 1 .. Len(sheets) /\ sheets \in Seq(ReadSheets)
  BY RecordIs DEF SortXlsSheet, InSheet, Base, Typed
<1>2. old \in ReadSheets
  BY <1>1
<1>3. c \in Seq(Records)
  BY <1>2 DEF ReadSheets
<1>4. \A r \in Records : Placed(r)
  BY FilesAssumption DEF Placed
<1>5. /\ InOrder(c) \in Seq(Records) /\ Len(InOrder(c)) = Len(c)
      /\ Sorted(InOrder(c))
      /\ \E p : Reorders(p, Len(c)) /\ \A i \in 1 .. Len(c) : InOrder(c)[i] = c[p[i]]
  BY <1>3, <1>4, InOrderSorts
<1>6. new \in ReadSheets /\ new.cells = InOrder(c) /\ new.used = old.used /\ new.name = old.name
  BY <1>2, <1>5 DEF ReadSheets
<1>7. sheets' = [sheets EXCEPT ![n] = new]
  BY <1>1, <1>2 DEF SortXlsSheet, ReadSheets
<1> HIDE DEF new
<1>8. sheets' \in Seq(ReadSheets) /\ Len(sheets') = n /\ sheets'[n] = new
      /\ \A i \in 1 .. n : i # n => sheets'[i] = sheets[i]
  BY <1>1, <1>6, <1>7
<1>9. sheets'[n].cells = InOrder(c) /\ sheets'[n].used = old.used /\ sheets'[n].name = old.name
  BY <1>6, <1>8
<1> HIDE DEF c
<1>10. /\ sheets'[n].cells \in Seq(Records) /\ Len(sheets'[n].cells) = Len(c)
       /\ Sorted(sheets'[n].cells)
       /\ \E p : Reorders(p, Len(c)) /\ \A i \in 1 .. Len(c) : sheets'[n].cells[i] = c[p[i]]
  BY ONLY <1>5, <1>9
<1> QED BY ONLY <1>1, <1>8, <1>9, <1>10 DEF c

\* The variables are typed and in place when a reading begins.
LEMMA BaseHolds ==
  ASSUME Init
  PROVE  Base
<1>1. file \in Files
  BY DEF Init
<1>2. file.sheets \in Seq(FileSheets)
  BY <1>1, FilesAssumption
<1>3. sheets = <<>> /\ Len(sheets) = 0 /\ sheets \in Seq(ReadSheets)
  BY DEF Init
<1>4. Len(file.sheets) >= 0
  BY <1>2
<1>5. Typed
  <2>1. cancelled \in BOOLEAN
    BY DEF Init, Zenon
  <2>2. pc = "file" /\ next = 1 /\ cells = 0 /\ bytes = 0 /\ late = 0 /\ outcome = "none"
    BY DEF Init
  <2> QED BY ONLY <1>1, <1>3, <2>1, <2>2 DEF Typed, InSheet
<1>6. Positioned
  BY <1>3, <1>4 DEF Init, Positioned, InSheet
<1> QED BY <1>5, <1>6 DEF Base

\* Every step leaves them so; the sort needs cells at different positions.
LEMMA BaseStep ==
  ASSUME Base, [ReaderNext]_readerVars, pc = "formulas" => Apart(sheets[Len(sheets)].cells)
  PROVE  Base'
<1>1. CASE ValidateFile
  BY <1>1 DEF ValidateFile, FileAccepted, End, Goto, read, Base, Typed, Positioned, InSheet
<1>2. CASE PreflightArchive
  BY <1>2 DEF PreflightArchive, End, Goto, read, Base, Typed, Positioned, InSheet
<1>3. CASE OpenWorkbook
  BY <1>3 DEF OpenWorkbook, End, Goto, read, Base, Typed, Positioned, InSheet
<1>4. CASE OpenSheet
  <2>1. PICK s, n : s = file.sheets[Len(sheets) + 1] /\ n = Len(sheets) + 1
    OBVIOUS
  <2>2. /\ s.records \in Seq(Records)
        /\ sheets' \in Seq(ReadSheets) /\ Len(sheets') = n /\ n <= Len(file.sheets) /\ n \in Nat
    BY <1>4, <2>1, OpenedIs
  <2>3. /\ next' = 1 /\ file' = file /\ UNCHANGED <<cells, bytes, late, cancelled>>
        /\ IF s.kind # "worksheet" THEN Goto("sheet")
           ELSE IF SheetAccepted(s) THEN Goto("records") ELSE End("failed")
        /\ pc = "sheet" /\ n > 0
    BY <1>4, <2>1 DEF OpenSheet, Base, Typed
  <2>4. Typed'
    BY <2>2, <2>3 DEF Base, Typed, Goto, End, InSheet
  <2>5. Source' = s /\ sheets' # <<>> /\ Len(s.records) >= 0
    BY <2>1, <2>2, <2>3 DEF Source
  <2>6. Positioned'
    BY <2>2, <2>3, <2>5 DEF Base, Positioned, Goto, End, InSheet
  <2> QED BY <2>4, <2>6 DEF Base
<1>5. CASE ReadXlsxRecord
  <2>1. pc \in InSheet /\ next <= Len(Source.records) /\ UNCHANGED <<file, cancelled>>
    BY <1>5 DEF ReadXlsxRecord, InSheet
  <2>2. CASE Retain(Record, "records")
    BY <2>1, <2>2, RetainKeepsBase DEF InSheet
  <2>3. CASE next' = next + 1 /\ UNCHANGED <<sheets, cells, bytes, late, pc, outcome>>
    BY <2>1, <2>3, PassKeepsBase
  <2> QED BY <1>5, <2>2, <2>3 DEF ReadXlsxRecord
<1>6. CASE ReadXlsValue
  <2>1. pc \in InSheet /\ next <= Len(Source.records) /\ UNCHANGED <<file, cancelled>> /\ file.ext = "xls"
    BY <1>6 DEF ReadXlsValue, InSheet
  <2>2. CASE Retain(Record, IF (cells + 1) % Interval = 0 THEN "check" ELSE "records")
    BY <2>1, <2>2, RetainKeepsBase DEF InSheet
  <2>3. CASE next' = next + 1 /\ UNCHANGED <<sheets, cells, bytes, late, pc, outcome>>
    BY <2>1, <2>3, PassKeepsBase
  <2> QED BY <1>6, <2>2, <2>3 DEF ReadXlsValue
<1>7. CASE CheckXls
  BY <1>7 DEF CheckXls, Goto, read, Base, Typed, Positioned, InSheet, Source
<1>8. CASE EndRecords
  <2>0. /\ UNCHANGED <<file, sheets, cells, bytes, late, cancelled>>
        /\ \/ Goto("sheet") /\ next' = next
           \/ Goto("formulas") /\ next' = 1 /\ file.ext # "xlsx"
        /\ pc = "records" /\ pc \in InSheet
    BY <1>8 DEF EndRecords, InSheet
  <2>1. Source' = Source /\ Source.records \in Seq(Records)
    BY <2>0, RecordIs DEF Source
  <2>2. Typed'
    BY <2>0 DEF Base, Typed, Goto, InSheet
  <2>3. Len(Source.records) >= 0
    BY <2>1
  <2>4. Positioned'
    BY <2>0, <2>1, <2>3 DEF Base, Typed, Positioned, Goto, InSheet
  <2> QED BY <2>2, <2>4 DEF Base
<1>9. CASE ReadXlsFormula
  <2>1. pc \in InSheet /\ next <= Len(Source.records) /\ UNCHANGED <<file, cancelled>> /\ file.ext = "xls"
    BY <1>9 DEF ReadXlsFormula, Base, Positioned, InSheet
  <2>2. CASE Retain(Record, "formulas")
    BY <2>1, <2>2, RetainKeepsBase DEF InSheet
  <2>3. CASE next' = next + 1 /\ UNCHANGED <<sheets, cells, bytes, late, pc, outcome>>
    BY <2>1, <2>3, PassKeepsBase
  <2> QED BY <1>9, <2>2, <2>3 DEF ReadXlsFormula
<1>10. CASE SortXlsSheet
  <2>1. pc = "formulas" /\ next > Len(Source.records) /\ Goto("sheet")
        /\ UNCHANGED <<file, next, cells, bytes, late, cancelled>>
    BY <1>10 DEF SortXlsSheet
  <2>2. sheets' \in Seq(ReadSheets) /\ Len(sheets') = Len(sheets)
    BY <1>10, <2>1, SortedIs
  <2> QED BY <2>1, <2>2 DEF Base, Typed, Positioned, Goto, InSheet
<1>11. CASE Complete \/ NoticeCancel
  BY <1>11 DEF Complete, NoticeCancel, End, read, Base, Typed, Positioned, InSheet
<1>12. CASE ReadAgain
  <2>1. file.sheets \in Seq(FileSheets)
    BY FilesAssumption DEF Base, Typed
  <2>2. sheets' = <<>> /\ Len(sheets') = 0 /\ sheets' \in Seq(ReadSheets) /\ Len(file.sheets) >= 0
    BY <1>12, <2>1 DEF ReadAgain
  <2>3. Typed'
    <3>1. cancelled' \in BOOLEAN
      BY <1>12 DEF ReadAgain, Zenon
    <3>2. /\ pc' = "file" /\ next' = 1 /\ cells' = 0 /\ bytes' = 0 /\ late' = 0
          /\ outcome' = "none" /\ file' = file
      BY <1>12 DEF ReadAgain
    <3>3. file \in Files
      BY DEF Base, Typed
    <3> QED BY ONLY <2>2, <3>1, <3>2, <3>3 DEF Typed, InSheet
  <2>4. Positioned'
    BY <1>12, <2>2 DEF ReadAgain, Positioned, InSheet
  <2> QED BY <2>3, <2>4 DEF Base
<1>13. CASE CancelReading
  BY <1>13 DEF CancelReading, read, Base, Typed, Positioned, InSheet, Source
<1>14. CASE \E fraction \in 0 .. 1000 : Report(fraction)
  BY <1>14 DEF Report, read, Base, Typed, Positioned, InSheet, Source
<1>15. CASE UNCHANGED readerVars
  BY <1>15 DEF readerVars, read, Base, Typed, Positioned, InSheet, Source
<1> QED BY <1>1, <1>2, <1>3, <1>4, <1>5, <1>6, <1>7, <1>8, <1>9, <1>10, <1>11, <1>12, <1>13, <1>14,
           <1>15 DEF ReaderNext, ReaderStep

-----------------------------------------------------------------------------
(* The cells of a sheet while it is read                                   *)

\* The region reaches from the rows and columns of two records to those of
\* two others, and all are within.
Spanned(region, R, p, q, a, b) ==
  /\ region = <<p.row, q.col, a.row, b.col>>
  /\ \A r \in R : p.row <= r.row /\ q.col <= r.col /\ r.row <= a.row /\ r.col <= b.col

\* The region is the least rectangle around some records.
Around(region, R) ==
  IF R = {} THEN region = <<>> ELSE \E p, q, a, b \in R : Spanned(region, R, p, q, a, b)

\* The places of the records that are kept when a step is at place k.
HeldAt(s, ext, step, k) ==
  {j \in DOMAIN s.records :
     IF step = "formulas" THEN HasValue(s.records[j]) \/ (j < k /\ HasFormula(s.records[j]))
     ELSE j < k /\ IF ext = "xlsx" THEN Holds(s.records[j]) ELSE HasValue(s.records[j])}

RecordsAt(s, held) == {s.records[j] : j \in held}

\* A sheet that grows holds the records seen so far that are kept, in their
\* order, or each at a position of its own once the formulas are added.
Growing ==
  pc \in InSheet =>
    LET cs == sheets[Len(sheets)].cells
    IN /\ Members(cs) = RecordsAt(Source, HeldAt(Source, file.ext, pc, next))
       /\ Around(sheets[Len(sheets)].used, Members(cs))
       /\ IF pc = "formulas" THEN Apart(cs) ELSE InRows(Source) => Sorted(cs)

\* One record more is in a rectangle that reaches to it.
LEMMA AroundMore ==
  ASSUME NEW R \in SUBSET Records, NEW region, Around(region, R), NEW r \in Records
  PROVE  Around(Extended(region, r), R \cup {r})
<1>1. \A x \in Records : x.row \in Nat /\ x.col \in Nat
  BY FilesAssumption
<1>2. CASE R = {}
  <2>1. Extended(region, r) = <<r.row, r.col, r.row, r.col>>
    BY <1>2 DEF Around, Extended
  <2>2. \A x \in R \cup {r} : r.row <= x.row /\ r.col <= x.col /\ x.row <= r.row /\ x.col <= r.col
    BY <1>1, <1>2
  <2>3. Spanned(Extended(region, r), R \cup {r}, r, r, r, r)
    BY <2>1, <2>2 DEF Spanned
  <2>4. r \in R \cup {r} /\ R \cup {r} # {}
    OBVIOUS
  <2> QED BY <2>3, <2>4 DEF Around
<1>3. CASE R # {}
  <2>0. PICK p \in R, q \in R, a \in R, b \in R : Spanned(region, R, p, q, a, b)
    BY <1>3 DEF Around
  <2>1. /\ region = <<p.row, q.col, a.row, b.col>>
        /\ \A x \in R : p.row <= x.row /\ q.col <= x.col /\ x.row <= a.row /\ x.col <= b.col
    BY <2>0 DEF Spanned
  <2> DEFINE p1 == IF r.row < p.row THEN r ELSE p
             q1 == IF r.col < q.col THEN r ELSE q
             a1 == IF r.row > a.row THEN r ELSE a
             b1 == IF r.col > b.col THEN r ELSE b
  <2>2. Extended(region, r) = <<p1.row, q1.col, a1.row, b1.col>>
    BY <2>1 DEF Extended
  <2>3. p1 \in R \cup {r} /\ q1 \in R \cup {r} /\ a1 \in R \cup {r} /\ b1 \in R \cup {r}
    OBVIOUS
  <2>4. ASSUME NEW x \in R \cup {r}
        PROVE  p1.row <= x.row /\ q1.col <= x.col /\ x.row <= a1.row /\ x.col <= b1.col
    <3>1. /\ p.row \in Nat /\ q.col \in Nat /\ a.row \in Nat /\ b.col \in Nat
          /\ r.row \in Nat /\ r.col \in Nat /\ x.row \in Nat /\ x.col \in Nat
      BY <1>1
    <3> QED BY <2>1, <3>1
  <2> HIDE DEF p1, q1, a1, b1
  <2>5. Spanned(Extended(region, r), R \cup {r}, p1, q1, a1, b1)
    BY <2>2, <2>4 DEF Spanned
  <2>6. R \cup {r} # {}
    OBVIOUS
  <2> QED BY <2>3, <2>5, <2>6 DEF Around
<1> QED BY <1>2, <1>3

\* One cell more in a sequence.
LEMMA OneMore ==
  ASSUME NEW c \in Seq(Records), NEW r \in Records
  PROVE  /\ Members(Append(c, r)) = Members(c) \cup {r}
         /\ Sorted(c) /\ (\A x \in Members(c) : Above(x, r)) => Sorted(Append(c, r))
         /\ Apart(c) /\ (\A x \in Members(c) : Above(x, r) \/ Above(r, x)) => Apart(Append(c, r))
<1>1. PICK n \in Nat : n = Len(c) /\ DOMAIN c = 1 .. n
  OBVIOUS
<1>2. /\ DOMAIN Append(c, r) = 1 .. n + 1
      /\ \A i \in 1 .. n : Append(c, r)[i] = c[i]
      /\ Append(c, r)[n + 1] = r
  BY <1>1
<1>3. \A i \in 1 .. n + 1 : i \in 1 .. n \/ i = n + 1
  OBVIOUS
<1>4. Members(Append(c, r)) = Members(c) \cup {r}
  BY <1>1, <1>2, <1>3 DEF Members
<1>5. \A i \in 1 .. n : c[i] \in Members(c)
  BY <1>1 DEF Members
<1>6. ASSUME Sorted(c), \A x \in Members(c) : Above(x, r) PROVE Sorted(Append(c, r))
  <2> SUFFICES ASSUME NEW j \in 1 .. n + 1, NEW k \in 1 .. n + 1, j < k
               PROVE  Above(Append(c, r)[j], Append(c, r)[k])
    BY <1>2 DEF Sorted
  <2>1. CASE k = n + 1
    BY <1>2, <1>3, <1>5, <1>6, <2>1
  <2>2. CASE k # n + 1
    BY <1>1, <1>2, <1>3, <1>6, <2>2 DEF Sorted
  <2> QED BY <2>1, <2>2
<1>7. ASSUME Apart(c), \A x \in Members(c) : Above(x, r) \/ Above(r, x) PROVE Apart(Append(c, r))
  <2> SUFFICES ASSUME NEW j \in 1 .. n + 1, NEW k \in 1 .. n + 1, j # k
               PROVE  \/ Above(Append(c, r)[j], Append(c, r)[k])
                      \/ Above(Append(c, r)[k], Append(c, r)[j])
    BY <1>2 DEF Apart
  <2>1. CASE j \in 1 .. n /\ k \in 1 .. n
    BY <1>1, <1>2, <1>7, <2>1 DEF Apart
  <2>2. CASE j = n + 1 \/ k = n + 1
    BY <1>2, <1>3, <1>5, <1>7, <2>2
  <2> QED BY <1>3, <2>1, <2>2
<1> QED BY <1>4, <1>6, <1>7

\* Two places of a sheet have positions in their order.
LEMMA SortedApart ==
  ASSUME NEW c \in Seq(Records), Sorted(c)
  PROVE  Apart(c)
<1> SUFFICES ASSUME NEW j \in DOMAIN c, NEW k \in DOMAIN c, j # k
             PROVE  Above(c[j], c[k]) \/ Above(c[k], c[j])
  BY DEF Apart
<1>1. j \in Nat /\ k \in Nat
  OBVIOUS
<1>2. j < k \/ k < j
  BY <1>1
<1> QED BY <1>2 DEF Sorted

\* A record that is kept joins those of its sheet.
LEMMA RetainGrows ==
  ASSUME Base, Growing, pc \in InSheet, next <= Len(Source.records), NEW step \in InSheet,
         sheets' = Grown(sheets, Len(sheets), Record), next' = next + 1, pc' = step, file' = file,
         pc = "formulas" <=> step = "formulas",
         HeldAt(Source, file.ext, step, next + 1) = HeldAt(Source, file.ext, pc, next) \cup {next},
         pc = "formulas" => next \notin HeldAt(Source, file.ext, pc, next)
  PROVE  Growing'
<1> DEFINE n == Len(sheets)
           cs == sheets[n].cells
           H == HeldAt(Source, file.ext, pc, next)
<1>1. /\ n \in 1 .. Len(sheets) /\ Source.records \in Seq(Records) /\ next \in DOMAIN Source.records
      /\ Record \in Records /\ sheets \in Seq(ReadSheets)
      /\ pc = "formulas" => InRows(Source)
      /\ next \in Nat /\ DOMAIN Source.records \subseteq Nat
  BY RecordIs DEF Base, Typed, Positioned
<1>2. /\ Len(sheets') = n /\ sheets'[n].cells = Append(cs, Record)
      /\ sheets'[n].used = Extended(sheets[n].used, Record)
  BY <1>1, GrownIs
<1>3. cs \in Seq(Records)
  <2>1. sheets[n] \in ReadSheets
    BY <1>1
  <2> QED BY <2>1 DEF ReadSheets
<1>4. /\ Members(cs) = RecordsAt(Source, H)
      /\ Around(sheets[n].used, Members(cs))
      /\ IF pc = "formulas" THEN Apart(cs) ELSE InRows(Source) => Sorted(cs)
  BY DEF Growing
<1>5. Source' = Source
  BY <1>2 DEF Source
<1>6. Members(Append(cs, Record)) = RecordsAt(Source, H \cup {next})
  <2>1. RecordsAt(Source, H \cup {next}) = RecordsAt(Source, H) \cup {Record}
    BY DEF RecordsAt, Record
  <2>2. Members(Append(cs, Record)) = Members(cs) \cup {Record}
    BY <1>1, <1>3, OneMore
  <2> QED BY <1>4, <2>1, <2>2
<1>7. Around(Extended(sheets[n].used, Record), Members(Append(cs, Record)))
  <2>1. Members(cs) \in SUBSET Records
    BY <1>3 DEF Members
  <2>2. Members(Append(cs, Record)) = Members(cs) \cup {Record}
    BY <1>1, <1>3, OneMore
  <2> QED BY <1>1, <1>4, <2>1, <2>2, AroundMore
<1>8. IF step = "formulas" THEN Apart(Append(cs, Record)) ELSE InRows(Source) => Sorted(Append(cs, Record))
  <2>1. H \in SUBSET DOMAIN Source.records /\ next \in Nat /\ \A j \in H : j \in Nat
    BY <1>1 DEF HeldAt
  <2>2. ASSUME NEW x \in Members(cs) PROVE \E j \in H : x = Source.records[j]
    BY <1>4 DEF RecordsAt
  <2>3. CASE step = "formulas"
    <3>1. ASSUME NEW x \in Members(cs) PROVE Above(x, Record) \/ Above(Record, x)
      <4>1. PICK j \in H : x = Source.records[j]
        BY <2>2
      <4>2. j # next /\ j \in DOMAIN Source.records
        BY <2>1, <2>3
      <4>3. j < next \/ next < j
        BY <2>1, <4>2
      <4> QED BY <1>1, <2>3, <4>1, <4>2, <4>3 DEF Record, InRows
    <3> QED BY <1>1, <1>3, <1>4, <2>3, <3>1, OneMore
  <2>4. CASE step # "formulas" /\ InRows(Source)
    <3>1. ASSUME NEW x \in Members(cs) PROVE Above(x, Record)
      <4>1. PICK j \in H : x = Source.records[j]
        BY <2>2
      <4>2. j < next /\ j \in DOMAIN Source.records
        BY <2>4 DEF HeldAt
      <4> QED BY <1>1, <2>4, <4>1, <4>2 DEF Record, InRows
    <3> QED BY <1>1, <1>3, <1>4, <2>4, <3>1, OneMore
  <2> QED BY <2>3, <2>4
<1> HIDE DEF cs, H
<1>9. HeldAt(Source, file.ext, pc, next)' = H \cup {next}
  BY <1>5 DEF H
<1> QED BY <1>2, <1>5, <1>6, <1>7, <1>8, <1>9 DEF Growing

\* A record that is passed over changes nothing of what is held.
LEMMA PassGrows ==
  ASSUME Base, Growing, pc \in InSheet, next' = next + 1, UNCHANGED <<file, sheets, pc>>,
         HeldAt(Source, file.ext, pc, next + 1) = HeldAt(Source, file.ext, pc, next)
  PROVE  Growing'
<1>1. Source' = Source
  BY DEF Source
<1>2. HeldAt(Source, file.ext, pc, next)' = HeldAt(Source, file.ext, pc, next)
  BY <1>1
<1> QED BY <1>1, <1>2 DEF Growing

\* What is held one place further on.
LEMMA HeldNext ==
  ASSUME NEW s \in FileSheets, NEW ext, NEW k \in DOMAIN s.records
  PROVE  /\ ext = "xlsx" /\ Holds(s.records[k])
              => HeldAt(s, ext, "records", k + 1) = HeldAt(s, ext, "records", k) \cup {k}
         /\ ext = "xlsx" /\ ~Holds(s.records[k])
              => HeldAt(s, ext, "records", k + 1) = HeldAt(s, ext, "records", k)
         /\ ext # "xlsx" /\ HasValue(s.records[k])
              => \A step \in {"records", "check"} :
                   HeldAt(s, ext, step, k + 1) = HeldAt(s, ext, "records", k) \cup {k}
         /\ ext # "xlsx" /\ ~HasValue(s.records[k])
              => HeldAt(s, ext, "records", k + 1) = HeldAt(s, ext, "records", k)
         /\ Bare(s.records[k])
              => /\ HeldAt(s, ext, "formulas", k + 1) = HeldAt(s, ext, "formulas", k) \cup {k}
                 /\ k \notin HeldAt(s, ext, "formulas", k)
         /\ ~Bare(s.records[k])
              => HeldAt(s, ext, "formulas", k + 1) = HeldAt(s, ext, "formulas", k)
<1>1. s.records \in Seq(Records)
  BY FilesAssumption
<1>2. k \in Nat /\ \A j \in DOMAIN s.records : j \in Nat /\ (j < k + 1 <=> j < k \/ j = k) /\ ~(k < k)
  BY <1>1
<1>3. \A j \in DOMAIN s.records : j < k + 1 <=> j < k \/ j = k
  BY <1>2
<1> QED BY <1>2, <1>3 DEF HeldAt, Holds, Bare

\* Every step leaves a growing sheet with the records it has passed.
LEMMA GrowingStep ==
  ASSUME Base, Growing, [ReaderNext]_readerVars
  PROVE  Growing'
<1>0. file.ext \in {"xls", "xlsx"} \/ pc \in {"file", "end"}
  BY DEF Base, Typed, Positioned
<1>1. CASE ValidateFile \/ PreflightArchive \/ OpenWorkbook
  BY <1>1 DEF ValidateFile, PreflightArchive, OpenWorkbook, End, Goto, Growing, InSheet
<1>2. CASE Complete \/ NoticeCancel \/ SortXlsSheet \/ ReadAgain
  BY <1>2 DEF Complete, NoticeCancel, SortXlsSheet, ReadAgain, End, Goto, Growing, InSheet
<1>3. CASE OpenSheet
  <2>1. PICK s, n : s = file.sheets[Len(sheets) + 1] /\ n = Len(sheets) + 1
    OBVIOUS
  <2>2. /\ s \in FileSheets /\ s.records \in Seq(Records)
        /\ Len(sheets') = n /\ n \in Nat /\ sheets'[n].cells = <<>> /\ sheets'[n].used = <<>>
    BY <1>3, <2>1, OpenedIs
  <2>3. next' = 1 /\ file' = file /\ (pc' = "sheet" \/ pc' = "records" \/ pc' = "end")
    BY <1>3 DEF OpenSheet, Goto, End
  <2>4. Source' = s
    BY <2>1, <2>2, <2>3 DEF Source
  <2>5. HeldAt(s, file.ext, "records", 1) = {}
    BY <2>2 DEF HeldAt
  <2>6. Members(<<>>) = {} /\ Around(<<>>, {}) /\ Sorted(<<>>) /\ RecordsAt(s, {}) = {}
    BY DEF Members, Around, Sorted, RecordsAt
  <2> QED BY <2>2, <2>3, <2>4, <2>5, <2>6 DEF Growing, InSheet
<1>4. CASE ReadXlsxRecord
  <2>1. pc = "records" /\ pc \in InSheet /\ next <= Len(Source.records) /\ file' = file /\ file.ext = "xlsx"
    BY <1>4 DEF ReadXlsxRecord, InSheet
  <2>2. Source \in FileSheets /\ next \in DOMAIN Source.records
    BY <2>1, RecordIs
  <2>3. CASE Holds(Record) /\ Retain(Record, "records")
    <3>1. HeldAt(Source, file.ext, "records", next + 1) = HeldAt(Source, file.ext, pc, next) \cup {next}
      BY <2>1, <2>2, <2>3, HeldNext DEF Record
    <3> QED BY <2>1, <2>3, <3>1, RetainIs, RetainGrows DEF End, Goto, Growing, InSheet
  <2>4. CASE ~Holds(Record) /\ next' = next + 1 /\ UNCHANGED <<sheets, cells, bytes, late, pc, outcome>>
    <3>1. HeldAt(Source, file.ext, pc, next + 1) = HeldAt(Source, file.ext, pc, next)
      BY <2>1, <2>2, <2>4, HeldNext DEF Record
    <3> QED BY <2>1, <2>4, <3>1, PassGrows
  <2> QED BY <1>4, <2>3, <2>4 DEF ReadXlsxRecord, Holds
<1>5. CASE ReadXlsValue
  <2>1. pc = "records" /\ pc \in InSheet /\ next <= Len(Source.records) /\ file' = file /\ file.ext # "xlsx"
    BY <1>5 DEF ReadXlsValue, InSheet
  <2>2. Source \in FileSheets /\ next \in DOMAIN Source.records
    BY <2>1, RecordIs
  <2> DEFINE step == IF (cells + 1) % Interval = 0 THEN "check" ELSE "records"
  <2>3. CASE HasValue(Record) /\ Retain(Record, step)
    <3>0. step \in InSheet /\ step # "formulas" /\ step \in {"records", "check"}
      BY DEF InSheet
    <3> HIDE DEF step
    <3>1. HeldAt(Source, file.ext, step, next + 1) = HeldAt(Source, file.ext, pc, next) \cup {next}
      BY <2>1, <2>2, <2>3, <3>0, HeldNext DEF Record
    <3> QED BY <2>1, <2>3, <3>0, <3>1, RetainIs, RetainGrows DEF End, Goto, Growing, InSheet
  <2>4. CASE ~HasValue(Record) /\ next' = next + 1 /\ UNCHANGED <<sheets, cells, bytes, late, pc, outcome>>
    <3>1. HeldAt(Source, file.ext, pc, next + 1) = HeldAt(Source, file.ext, pc, next)
      BY <2>1, <2>2, <2>4, HeldNext DEF Record
    <3> QED BY <2>1, <2>4, <3>1, PassGrows
  <2> QED BY <1>5, <2>3, <2>4 DEF ReadXlsValue
<1>6. CASE ReadXlsFormula
  <2>1. pc = "formulas" /\ pc \in InSheet /\ next <= Len(Source.records) /\ file' = file
    BY <1>6 DEF ReadXlsFormula, InSheet
  <2>2. Source \in FileSheets /\ next \in DOMAIN Source.records
    BY <2>1, RecordIs
  <2>3. CASE Bare(Record) /\ Retain(Record, "formulas")
    <3>1. /\ HeldAt(Source, file.ext, "formulas", next + 1) = HeldAt(Source, file.ext, pc, next) \cup {next}
          /\ next \notin HeldAt(Source, file.ext, pc, next)
      BY <2>1, <2>2, <2>3, HeldNext DEF Record
    <3> QED BY <2>1, <2>3, <3>1, RetainIs, RetainGrows DEF End, Goto, Growing, InSheet
  <2>4. CASE ~Bare(Record) /\ next' = next + 1 /\ UNCHANGED <<sheets, cells, bytes, late, pc, outcome>>
    <3>1. HeldAt(Source, file.ext, pc, next + 1) = HeldAt(Source, file.ext, pc, next)
      BY <2>1, <2>2, <2>4, HeldNext DEF Record
    <3> QED BY <2>1, <2>4, <3>1, PassGrows
  <2> QED BY <1>6, <2>3, <2>4 DEF ReadXlsFormula, Bare
<1>7. CASE CheckXls
  <2>1. pc = "check" /\ pc' = "records" /\ UNCHANGED <<file, sheets, next>> /\ Source' = Source
    BY <1>7 DEF CheckXls, Goto, read, Source
  <2>2. HeldAt(Source, file.ext, pc, next)' = HeldAt(Source, file.ext, pc, next)
    BY <2>1 DEF HeldAt
  <2> QED BY <2>1, <2>2 DEF Growing, InSheet
<1>8. CASE EndRecords
  <2>1. /\ pc = "records" /\ pc \in InSheet /\ next > Len(Source.records)
        /\ UNCHANGED <<file, sheets>> /\ Source' = Source
        /\ pc' = "sheet" \/ (pc' = "formulas" /\ next' = 1 /\ file.ext # "xlsx")
    BY <1>8 DEF EndRecords, Goto, Source, InSheet
  <2>2. Source.records \in Seq(Records) /\ next \in Nat
    BY <2>1, RecordIs DEF Base, Typed
  <2>3. CASE pc' = "formulas" /\ next' = 1 /\ file.ext # "xlsx"
    <3>1. \A j \in DOMAIN Source.records : j < next /\ ~(j < 1)
      BY <2>1, <2>2
    <3>2. HeldAt(Source, file.ext, "formulas", 1) = HeldAt(Source, file.ext, "records", next)
      BY <2>3, <3>1 DEF HeldAt
    <3>3. sheets[Len(sheets)].cells \in Seq(Records)
      <4>1. sheets[Len(sheets)] \in ReadSheets
        BY <2>1 DEF Base, Typed, Positioned
      <4> QED BY <4>1 DEF ReadSheets
    <3>4. Apart(sheets[Len(sheets)].cells)
      <4>1. InRows(Source)
        BY <1>0, <2>1, <2>3, RecordIs
      <4> QED BY <2>1, <3>3, <4>1, SortedApart DEF Growing
    <3> QED BY <2>1, <2>3, <3>2, <3>4 DEF Growing
  <2>4. CASE pc' = "sheet"
    BY <2>4 DEF Growing, InSheet
  <2> QED BY <2>1, <2>3, <2>4
<1>9. CASE CancelReading \/ (\E fraction \in 0 .. 1000 : Report(fraction)) \/ UNCHANGED readerVars
  <2>1. UNCHANGED <<file, pc, sheets, next>> /\ Source' = Source
    BY <1>9 DEF CancelReading, Report, readerVars, read, Source
  <2> QED BY <2>1 DEF Growing
<1> QED BY <1>1, <1>2, <1>3, <1>4, <1>5, <1>6, <1>7, <1>8, <1>9 DEF ReaderNext, ReaderStep

-----------------------------------------------------------------------------
(* The sheets that are read                                                *)

Wanted(s) == {r \in {s.records[j] : j \in DOMAIN s.records} : HasValue(r) \/ HasFormula(r)}

\* A sheet is read when it holds what its source has, in order.
WholeSheet(s, source) ==
  IF source.kind # "worksheet" THEN s.cells = <<>>
  ELSE /\ Members(s.cells) = Wanted(source)
       /\ InRows(source) => Sorted(s.cells)
       /\ Around(s.used, Wanted(source))

\* All sheets but the one being read are whole; at the end none is missing.
Finished ==
  /\ \A i \in 1 .. Len(sheets) :
       (pc \in InSheet /\ i # Len(sheets)) \/ pc = "sheet" \/ outcome = "ok"
         => WholeSheet(sheets[i], file.sheets[i])
  /\ outcome = "ok" => Len(sheets) = Len(file.sheets)

Faithful == Base /\ Growing /\ Finished

\* When all records were passed, those that are held are those wanted.
LEMMA HeldIsWanted ==
  ASSUME NEW s \in FileSheets, NEW k \in Nat, k > Len(s.records)
  PROVE  /\ RecordsAt(s, HeldAt(s, "xlsx", "records", k)) = Wanted(s)
         /\ \A ext : RecordsAt(s, HeldAt(s, ext, "formulas", k)) = Wanted(s)
<1>1. s.records \in Seq(Records)
  BY FilesAssumption
<1>2. \A j \in DOMAIN s.records : j < k
  BY <1>1
<1>3. HeldAt(s, "xlsx", "records", k) = {j \in DOMAIN s.records : Holds(s.records[j])}
  BY <1>2 DEF HeldAt
<1>4. \A ext : HeldAt(s, ext, "formulas", k) = {j \in DOMAIN s.records : Holds(s.records[j])}
  BY <1>2 DEF HeldAt, Holds
<1>5. RecordsAt(s, {j \in DOMAIN s.records : Holds(s.records[j])}) = Wanted(s)
  BY DEF RecordsAt, Wanted, Holds
<1> QED BY <1>3, <1>4, <1>5

\* Another order of the cells has the same cells.
LEMMA ReorderedMembers ==
  ASSUME NEW c \in Seq(Records), NEW d \in Seq(Records), Len(d) = Len(c), NEW p, Reorders(p, Len(c)),
         \A i \in 1 .. Len(c) : d[i] = c[p[i]]
  PROVE  Members(d) = Members(c)
<1>1. PICK n \in Nat : n = Len(c) /\ DOMAIN c = 1 .. n /\ DOMAIN d = 1 .. n
  OBVIOUS
<1>2. /\ \A i \in 1 .. n : p[i] \in 1 .. n /\ d[i] = c[p[i]]
      /\ \A j \in 1 .. n : \E i \in 1 .. n : p[i] = j
  BY <1>1 DEF Reorders
<1>3. ASSUME NEW x \in Members(d) PROVE x \in Members(c)
  <2>1. PICK i \in 1 .. n : x = d[i]
    BY <1>1 DEF Members
  <2>2. p[i] \in 1 .. n /\ x = c[p[i]]
    BY <1>2, <2>1
  <2>3. PICK j \in 1 .. n : j = p[i]
    BY <2>2
  <2> QED BY <1>1, <2>2, <2>3 DEF Members
<1>4. ASSUME NEW x \in Members(c) PROVE x \in Members(d)
  <2>1. PICK j \in 1 .. n : x = c[j]
    BY <1>1 DEF Members
  <2>2. PICK i \in 1 .. n : p[i] = j
    BY <1>2
  <2>3. x = d[i]
    BY <1>2, <2>1, <2>2
  <2> QED BY <1>1, <2>3 DEF Members
<1> QED BY <1>3, <1>4

\* A sheet is left only when it is whole, and the end only with all sheets.
LEMMA FinishedStep ==
  ASSUME Base, Growing, Finished, [ReaderNext]_readerVars
  PROVE  Finished'
<1>1. CASE ValidateFile \/ PreflightArchive \/ OpenWorkbook
  <2>1. sheets = <<>> /\ sheets' = sheets /\ Len(sheets) = 0 /\ pc # "end" /\ outcome = "none"
        /\ (outcome' = outcome \/ outcome' = "failed")
    BY <1>1 DEF ValidateFile, PreflightArchive, OpenWorkbook, End, Goto, read, Base, Typed, Positioned
  <2> QED BY <2>1 DEF Finished
<1>2. CASE OpenSheet
  <2>1. PICK s, n : s = file.sheets[Len(sheets) + 1] /\ n = Len(sheets) + 1
    OBVIOUS
  <2>2. /\ Len(sheets') = n /\ n \in Nat /\ \A i \in 1 .. Len(sheets) : sheets'[i] = sheets[i]
        /\ sheets'[n].cells = <<>>
    BY <1>2, <2>1, OpenedIs
  <2>3. /\ pc = "sheet" /\ file' = file /\ outcome = "none"
        /\ \/ pc' = "sheet" /\ outcome' = outcome /\ s.kind # "worksheet"
           \/ pc' = "records" /\ outcome' = outcome
           \/ pc' = "end" /\ outcome' = "failed"
    BY <1>2, <2>1 DEF OpenSheet, Goto, End, Base, Typed
  <2>4. \A i \in 1 .. n : i # n => i \in 1 .. Len(sheets)
    BY <2>1, <2>2
  <2>5. \A i \in 1 .. Len(sheets) : WholeSheet(sheets[i], file.sheets[i])
    BY <2>3 DEF Finished
  <2>6. \A i \in 1 .. n : i # n => WholeSheet(sheets'[i], file'.sheets[i])
    BY <2>2, <2>3, <2>4, <2>5
  <2>7. s.kind # "worksheet" => WholeSheet(sheets'[n], file'.sheets[n])
    BY <2>1, <2>2, <2>3 DEF WholeSheet
  <2> QED BY <2>2, <2>3, <2>6, <2>7 DEF Finished, InSheet
<1>3. CASE ReadXlsxRecord \/ ReadXlsValue \/ ReadXlsFormula
  <2>1. pc \in InSheet /\ next <= Len(Source.records) /\ file' = file /\ outcome = "none"
    BY <1>3 DEF ReadXlsxRecord, ReadXlsValue, ReadXlsFormula, Base, Typed, InSheet
  <2>2. \A i \in 1 .. Len(sheets) : i # Len(sheets) => WholeSheet(sheets[i], file.sheets[i])
    BY <2>1 DEF Finished
  <2>3. ASSUME NEW step \in InSheet, Retain(Record, step) PROVE Finished'
    <3>1. CASE sheets' = Grown(sheets, Len(sheets), Record) /\ Goto(step)
      <4>1. sheets \in Seq(ReadSheets) /\ Record \in Records /\ Len(sheets) \in 1 .. Len(sheets)
        BY <2>1, RecordIs DEF Base, Typed
      <4>2. Len(sheets') = Len(sheets)
            /\ \A i \in 1 .. Len(sheets) : i # Len(sheets) => sheets'[i] = sheets[i]
        BY <3>1, <4>1, GrownIs
      <4>3. pc' = step /\ pc' # "sheet" /\ outcome' = "none"
        BY <2>1, <2>3, <3>1 DEF Goto, InSheet
      <4> QED BY <2>1, <2>2, <4>2, <4>3 DEF Finished
    <3>2. CASE End("failed")
      BY <3>2 DEF End, Finished, InSheet
    <3> QED BY <2>1, <2>3, <3>1, <3>2, RetainIs
  <2>4. CASE UNCHANGED <<sheets, pc, outcome>>
    BY <2>1, <2>4 DEF Finished
  <2>5. \/ Retain(Record, "records") \/ Retain(Record, "formulas")
        \/ Retain(Record, IF (cells + 1) % Interval = 0 THEN "check" ELSE "records")
        \/ UNCHANGED <<sheets, pc, outcome>>
    BY <1>3 DEF ReadXlsxRecord, ReadXlsValue, ReadXlsFormula
  <2> QED BY <2>3, <2>4, <2>5 DEF InSheet
<1>4. CASE CheckXls
  BY <1>4 DEF CheckXls, Goto, read, Finished, InSheet
<1>5. CASE EndRecords
  <2>1. /\ pc = "records" /\ pc \in InSheet /\ UNCHANGED <<file, sheets>> /\ outcome' = outcome
        /\ outcome = "none" /\ next > Len(Source.records)
        /\ pc' = "formulas" \/ (pc' = "sheet" /\ file.ext = "xlsx")
    BY <1>5 DEF EndRecords, Goto, Base, Typed, InSheet
  <2>2. \A i \in 1 .. Len(sheets) : i # Len(sheets) => WholeSheet(sheets[i], file.sheets[i])
    BY <2>1 DEF Finished
  <2>3. CASE pc' = "formulas"
    BY <2>1, <2>2, <2>3 DEF Finished, InSheet
  <2>4. CASE pc' = "sheet" /\ file.ext = "xlsx"
    <3>1. Source \in FileSheets /\ next \in Nat
      BY <2>1, RecordIs DEF Base, Typed
    <3>2. RecordsAt(Source, HeldAt(Source, "xlsx", "records", next)) = Wanted(Source)
      BY <2>1, <3>1, HeldIsWanted
    <3>3. WholeSheet(sheets[Len(sheets)], Source)
      BY <2>1, <2>4, <3>2 DEF Base, Positioned, Growing, WholeSheet
    <3> QED BY <2>1, <2>2, <2>4, <3>3 DEF Finished, Source
  <2> QED BY <2>1, <2>3, <2>4
<1>6. CASE SortXlsSheet
  <2> DEFINE n == Len(sheets)
             c == sheets[n].cells
             d == sheets'[n].cells
  <2>1. /\ pc = "formulas" /\ pc \in InSheet /\ file' = file /\ outcome' = outcome /\ outcome = "none"
        /\ pc' = "sheet" /\ next > Len(Source.records) /\ next \in Nat
    BY <1>6 DEF SortXlsSheet, Goto, Base, Typed, InSheet
  <2>2. Apart(c)
    BY <2>1 DEF Growing
  <2>3. /\ n \in 1 .. Len(file.sheets) /\ Len(sheets') = n
        /\ \A i \in 1 .. n : i # n => sheets'[i] = sheets[i]
        /\ d \in Seq(Records) /\ Len(d) = Len(c) /\ Sorted(d) /\ sheets'[n].used = sheets[n].used
        /\ \E p : Reorders(p, Len(c)) /\ \A i \in 1 .. Len(c) : d[i] = c[p[i]]
    BY <1>6, <2>2, SortedIs
  <2>4. c \in Seq(Records)
    <3>1. n \in 1 .. Len(sheets) /\ sheets \in Seq(ReadSheets)
      BY <2>1, <2>3 DEF Base, Typed
    <3>2. sheets[n] \in ReadSheets
      BY <3>1
    <3> QED BY <3>2 DEF ReadSheets
  <2>5. Members(d) = Members(c)
    <3> HIDE DEF c, d
    <3> QED BY <2>3, <2>4, ReorderedMembers
  <2>6. Source \in FileSheets
    BY <2>1, RecordIs
  <2>7. RecordsAt(Source, HeldAt(Source, file.ext, "formulas", next)) = Wanted(Source)
    BY <2>1, <2>6, HeldIsWanted
  <2>8. WholeSheet(sheets'[n], Source)
    <3>1. Members(c) = Wanted(Source) /\ Around(sheets[n].used, Members(c))
      BY <2>1, <2>7 DEF Growing
    <3>2. Source.kind = "worksheet"
      BY <2>1 DEF Base, Positioned
    <3> QED BY <2>3, <2>5, <3>1, <3>2 DEF WholeSheet
  <2>9. \A i \in 1 .. n : i # n => WholeSheet(sheets[i], file.sheets[i])
    BY <2>1 DEF Finished
  <2> QED BY <2>1, <2>3, <2>8, <2>9 DEF Finished, Source
<1>7. CASE Complete
  <2>1. pc = "sheet" /\ UNCHANGED <<file, sheets>> /\ Len(sheets) = Len(file.sheets)
    BY <1>7 DEF Complete, read
  <2> QED BY <2>1 DEF Finished
<1>8. CASE NoticeCancel
  BY <1>8 DEF NoticeCancel, End, read, Finished, InSheet
<1>9. CASE ReadAgain
  <2>1. sheets' = <<>> /\ Len(sheets') = 0 /\ outcome' = "none"
    BY <1>9 DEF ReadAgain
  <2> QED BY <2>1 DEF Finished
<1>10. CASE CancelReading \/ (\E fraction \in 0 .. 1000 : Report(fraction)) \/ UNCHANGED readerVars
  <2>1. UNCHANGED <<file, pc, sheets, outcome>>
    BY <1>10 DEF CancelReading, Report, readerVars, read
  <2> QED BY <2>1 DEF Finished
<1> QED BY <1>1, <1>2, <1>3, <1>4, <1>5, <1>6, <1>7, <1>8, <1>9, <1>10 DEF ReaderNext, ReaderStep

\* The invariant holds at first.
LEMMA FaithfulHolds == Init => Faithful
<1> SUFFICES ASSUME Init PROVE Faithful
  OBVIOUS
<1>1. Base
  BY BaseHolds
<1>2. Growing
  BY DEF Init, Growing, InSheet
<1>3. sheets = <<>> /\ Len(sheets) = 0 /\ outcome = "none"
  BY DEF Init
<1>4. Finished
  BY <1>3 DEF Finished
<1> QED BY <1>1, <1>2, <1>4 DEF Faithful

\* Every step keeps the invariant.
LEMMA FaithfulStep == Faithful /\ [ReaderNext]_readerVars => Faithful'
<1> SUFFICES ASSUME Faithful, [ReaderNext]_readerVars PROVE Faithful'
  OBVIOUS
<1>1. Base /\ Growing /\ Finished
  BY DEF Faithful
<1>2. pc = "formulas" => Apart(sheets[Len(sheets)].cells)
  BY <1>1 DEF Growing, InSheet
<1> QED BY <1>1, <1>2, BaseStep, GrowingStep, FinishedStep DEF Faithful

\* The reader always satisfies its invariant.
LEMMA FaithfulAlways == ReaderSpec => []Faithful
BY FaithfulHolds, FaithfulStep, PTL DEF ReaderSpec

\* The least and the greatest of a set, when they are known.
LEMMA MinIs ==
  ASSUME NEW S \in SUBSET Nat, NEW m \in S, \A x \in S : m <= x
  PROVE  Min(S) = m
<1>1. Min(S) \in S /\ \A x \in S : Min(S) <= x
  BY DEF Min
<1>2. PICK k \in S : k = Min(S)
  BY <1>1
<1>3. k <= m /\ m <= k /\ k \in Nat /\ m \in Nat
  BY <1>1, <1>2
<1> QED BY <1>2, <1>3

\* The greatest, likewise.
LEMMA MaxIs ==
  ASSUME NEW S \in SUBSET Nat, NEW m \in S, \A x \in S : x <= m
  PROVE  Max(S) = m
<1>1. Max(S) \in S /\ \A x \in S : x <= Max(S)
  BY DEF Max
<1>2. PICK k \in S : k = Max(S)
  BY <1>1
<1>3. k <= m /\ m <= k /\ k \in Nat /\ m \in Nat
  BY <1>1, <1>2
<1> QED BY <1>2, <1>3

\* The rectangle in the words of the property.
LEMMA AroundIs ==
  ASSUME NEW R \in SUBSET Records, R # {}, NEW region, Around(region, R)
  PROVE  region = <<Min({r.row : r \in R}), Min({r.col : r \in R}),
                    Max({r.row : r \in R}), Max({r.col : r \in R})>>
<1>1. PICK p \in R, q \in R, a \in R, b \in R : Spanned(region, R, p, q, a, b)
  BY DEF Around
<1>2. /\ region = <<p.row, q.col, a.row, b.col>>
      /\ \A r \in R : p.row <= r.row /\ q.col <= r.col /\ r.row <= a.row /\ r.col <= b.col
  BY <1>1 DEF Spanned
<1> DEFINE rows == {r.row : r \in R}
           cols == {r.col : r \in R}
<1>3. /\ rows \in SUBSET Nat /\ p.row \in rows /\ a.row \in rows
      /\ cols \in SUBSET Nat /\ q.col \in cols /\ b.col \in cols
  BY FilesAssumption
<1>4. /\ \A x \in rows : p.row <= x /\ x <= a.row
      /\ \A x \in cols : q.col <= x /\ x <= b.col
  BY <1>2
<1> HIDE DEF rows, cols
<1>5. Min(rows) = p.row /\ Max(rows) = a.row /\ Min(cols) = q.col /\ Max(cols) = b.col
  BY <1>3, <1>4, MinIs, MaxIs
<1> QED BY <1>2, <1>5 DEF rows, cols

\* The invariant says of a reading that ended well what the property does.
LEMMA FaithfulImplies == Faithful => ReadIsFaithful
<1> SUFFICES ASSUME Base, Finished, outcome = "ok" PROVE ReadIsFaithful
  BY DEF Faithful, ReadIsFaithful
<1>1. Len(sheets) = Len(file.sheets) /\ sheets \in Seq(ReadSheets) /\ file \in Files
  BY DEF Base, Typed, Finished
<1>2. ASSUME NEW i \in DOMAIN sheets
      PROVE  LET s == file.sheets[i]
                 wanted == Wanted(s)
             IN IF s.kind # "worksheet" THEN sheets[i].cells = <<>>
                ELSE /\ Kept(i) = wanted
                     /\ InRows(s) => \A j \in 1 .. Len(sheets[i].cells) - 1 :
                                      Above(sheets[i].cells[j], sheets[i].cells[j + 1])
                     /\ IF wanted = {} THEN sheets[i].used = <<>>
                        ELSE sheets[i].used =
                               <<Min({r.row : r \in wanted}), Min({r.col : r \in wanted}),
                                 Max({r.row : r \in wanted}), Max({r.col : r \in wanted})>>
  <2>1. i \in 1 .. Len(sheets) /\ i \in 1 .. Len(file.sheets) /\ sheets[i] \in ReadSheets
    BY <1>1
  <2>2. WholeSheet(sheets[i], file.sheets[i])
    BY <2>1 DEF Finished
  <2>3. sheets[i].cells \in Seq(Records)
    BY <2>1 DEF ReadSheets
  <2>4. Wanted(file.sheets[i]) \in SUBSET Records
    <3>1. file.sheets[i].records \in Seq(Records)
      BY <1>1, <2>1, SourceIs
    <3> QED BY <3>1 DEF Wanted
  <2>5. CASE file.sheets[i].kind # "worksheet"
    BY <2>2, <2>5 DEF WholeSheet
  <2>6. CASE file.sheets[i].kind = "worksheet"
    <3>1. /\ Members(sheets[i].cells) = Wanted(file.sheets[i])
          /\ InRows(file.sheets[i]) => Sorted(sheets[i].cells)
          /\ Around(sheets[i].used, Wanted(file.sheets[i]))
      BY <2>2, <2>6 DEF WholeSheet
    <3>2. Kept(i) = Wanted(file.sheets[i])
      BY <3>1 DEF Kept, Members
    <3>3. ASSUME InRows(file.sheets[i]), NEW j \in 1 .. Len(sheets[i].cells) - 1
          PROVE  Above(sheets[i].cells[j], sheets[i].cells[j + 1])
      <4>1. j \in DOMAIN sheets[i].cells /\ j + 1 \in DOMAIN sheets[i].cells /\ j < j + 1
        BY <2>3
      <4> QED BY <3>1, <3>3, <4>1 DEF Sorted
    <3>4. Wanted(file.sheets[i]) = {} => sheets[i].used = <<>>
      BY <3>1 DEF Around
    <3>5. Wanted(file.sheets[i]) # {} =>
            sheets[i].used =
              <<Min({r.row : r \in Wanted(file.sheets[i])}), Min({r.col : r \in Wanted(file.sheets[i])}),
                Max({r.row : r \in Wanted(file.sheets[i])}), Max({r.col : r \in Wanted(file.sheets[i])})>>
      BY <2>4, <3>1, AroundIs
    <3> QED BY <2>6, <3>2, <3>3, <3>4, <3>5
  <2> QED BY <2>5, <2>6
<1> QED BY <1>1, <1>2 DEF ReadIsFaithful, Wanted

-----------------------------------------------------------------------------
(* Cells that are kept after a cancellation                                *)

\* Counting on, the remainder grows by one until it starts again.
LEMMA NextRemainder ==
  ASSUME NEW n \in Nat
  PROVE  /\ n % Interval \in 0 .. Interval - 1
         /\ (n + 1) % Interval # 0 => (n + 1) % Interval = (n % Interval) + 1
<1>1. PICK k \in Nat \ {0} : k = Interval
  BY IntervalAssumption
<1>2. PICK q, r, p, t : q = n \div k /\ r = n % k /\ p = (n + 1) \div k /\ t = (n + 1) % k
  OBVIOUS
<1>3. /\ q \in Int /\ r \in 0 .. k - 1 /\ n = k * q + r
      /\ p \in Int /\ t \in 0 .. k - 1 /\ n + 1 = k * p + t
  BY <1>2
<1>4. ASSUME t # 0 PROVE t = r + 1
  <2>1. k * (p - q) = r + 1 - t
    BY <1>3
  <2>2. CASE p - q >= 1
    <3>1. k * (p - q) >= k
      BY <1>3, <2>2
    <3> QED BY <1>3, <1>4, <2>1, <3>1
  <2>3. CASE p - q <= -1
    <3>1. k * (p - q) <= -k
      BY <1>3, <2>3
    <3> QED BY <1>3, <2>1, <3>1
  <2>4. CASE p = q
    BY <1>3, <2>1, <2>4
  <2> QED BY <1>3, <2>2, <2>3, <2>4
<1> QED BY <1>1, <1>2, <1>3, <1>4

BareBefore(s, k) == {j \in DOMAIN s.records : j < k /\ Bare(s.records[j])}
AllBare(s) == {j \in DOMAIN s.records : HasFormula(s.records[j]) /\ ~HasValue(s.records[j])}

\* The formulas without a value, counted up to a place.
LEMMA BareCount ==
  ASSUME NEW s \in FileSheets, NEW k \in Nat
  PROVE  /\ Cardinality(BareBefore(s, k)) \in Nat /\ Cardinality(AllBare(s)) \in Nat
         /\ Cardinality(BareBefore(s, k)) <= Cardinality(AllBare(s))
         /\ Cardinality(BareBefore(s, k)) <= Cardinality(BareBefore(s, k + 1))
         /\ k \in DOMAIN s.records /\ Bare(s.records[k])
              => Cardinality(BareBefore(s, k + 1)) = Cardinality(BareBefore(s, k)) + 1
<1>1. PICK n \in Nat : n = Len(s.records) /\ DOMAIN s.records = 1 .. n
  BY FilesAssumption
<1>2. IsFiniteSet(1 .. n)
  BY FS_Interval
<1>3. \A E \in SUBSET (1 .. n) : IsFiniteSet(E) /\ Cardinality(E) \in Nat
  BY <1>2, FS_Subset, FS_CardinalityType
<1>4. /\ BareBefore(s, k) \in SUBSET (1 .. n) /\ AllBare(s) \in SUBSET (1 .. n)
      /\ BareBefore(s, k + 1) \in SUBSET (1 .. n)
      /\ BareBefore(s, k) \in SUBSET AllBare(s)
  BY <1>1 DEF BareBefore, AllBare, Bare
<1>5. BareBefore(s, k) \in SUBSET BareBefore(s, k + 1)
  BY <1>1 DEF BareBefore
<1>6. /\ Cardinality(BareBefore(s, k)) <= Cardinality(AllBare(s))
      /\ Cardinality(BareBefore(s, k)) <= Cardinality(BareBefore(s, k + 1))
  BY <1>3, <1>4, <1>5, FS_Subset
<1>7. ASSUME k \in DOMAIN s.records, Bare(s.records[k])
      PROVE  Cardinality(BareBefore(s, k + 1)) = Cardinality(BareBefore(s, k)) + 1
  <2>1. BareBefore(s, k + 1) = BareBefore(s, k) \cup {k} /\ k \notin BareBefore(s, k)
    BY <1>1, <1>7 DEF BareBefore
  <2> QED BY <1>3, <1>4, <2>1, FS_AddElement
<1> QED BY <1>3, <1>4, <1>6, <1>7

\* How many cells were kept since the token was set, at most.
Noticed ==
  /\ ~cancelled => late = 0
  /\ pc = "records" /\ file.ext = "xlsx" => late <= (next - 1) % Interval
  /\ pc = "records" /\ file.ext = "xls" => late <= cells % Interval
  /\ pc = "check" => late <= Interval
  /\ pc = "formulas" => late <= Interval + Cardinality(BareBefore(Source, next))
  /\ pc \in {"sheet", "end"} => CancelIsNoticed

\* No more cells than the interval are within what is promised.
LEMMA FewAreNoticed == Base /\ late <= Interval => CancelIsNoticed
<1> SUFFICES ASSUME Base, late <= Interval PROVE CancelIsNoticed
  OBVIOUS
<1>1. late \in Nat /\ Interval \in Nat
  BY IntervalAssumption DEF Base, Typed
<1>2. CASE file.ext = "xls" /\ sheets # <<>>
  <2>1. Source \in FileSheets
    <3>1. /\ file \in Files /\ sheets \in Seq(ReadSheets) /\ sheets # <<>>
          /\ Len(sheets) <= Len(file.sheets) /\ file.sheets \in Seq(FileSheets)
      BY <1>2, FilesAssumption DEF Base, Typed, Positioned
    <3>2. Len(sheets) \in 1 .. Len(file.sheets)
      BY <3>1
    <3> QED BY <3>1, <3>2 DEF Source
  <2>2. Cardinality(AllBare(Source)) \in Nat
    BY <2>1, BareCount
  <2>3. late <= Interval + Cardinality(AllBare(Source))
    BY <1>1, <2>2
  <2> QED BY <1>2, <2>3 DEF CancelIsNoticed, AllBare
<1>3. CASE ~(file.ext = "xls" /\ sheets # <<>>)
  BY <1>1, <1>3 DEF CancelIsNoticed
<1> QED BY <1>2, <1>3

\* The count at each step is within what is promised.
LEMMA NoticedImplies == Base /\ Noticed => CancelIsNoticed
<1> SUFFICES ASSUME Base, Noticed PROVE CancelIsNoticed
  OBVIOUS
<1>1. Interval \in Nat \ {0} /\ late \in Nat /\ next \in Nat \ {0} /\ cells \in Nat
  BY IntervalAssumption DEF Base, Typed
<1>2. CASE pc \in {"file", "archive", "workbook"}
  BY <1>1, <1>2, FewAreNoticed DEF Base, Positioned
<1>3. CASE pc = "records"
  <2>1. (next - 1) % Interval <= Interval /\ cells % Interval <= Interval
        /\ (next - 1) % Interval \in Int /\ cells % Interval \in Int
    <3>1. next - 1 \in Nat
      BY <1>1
    <3>2. (next - 1) % Interval \in 0 .. Interval - 1 /\ cells % Interval \in 0 .. Interval - 1
      BY <1>1, <3>1, NextRemainder
    <3> QED BY <1>1, <3>2
  <2>2. file.ext \in {"xls", "xlsx"}
    BY <1>3 DEF Base, Positioned
  <2>3. late <= Interval
    BY <1>1, <1>3, <2>1, <2>2 DEF Noticed
  <2> QED BY <2>3, FewAreNoticed
<1>4. CASE pc = "check"
  BY <1>4, FewAreNoticed DEF Noticed
<1>5. CASE pc = "formulas"
  <2>1. /\ file.ext = "xls" /\ sheets # <<>> /\ pc \in InSheet
    BY <1>5 DEF Base, Positioned, InSheet
  <2>2. Source \in FileSheets
    BY <2>1, RecordIs
  <2>3. /\ Cardinality(BareBefore(Source, next)) \in Nat /\ Cardinality(AllBare(Source)) \in Nat
        /\ Cardinality(BareBefore(Source, next)) <= Cardinality(AllBare(Source))
    BY <1>1, <2>2, BareCount
  <2>4. late <= Interval + Cardinality(AllBare(Source))
    BY <1>1, <1>5, <2>3 DEF Noticed
  <2> QED BY <2>1, <2>4 DEF CancelIsNoticed, AllBare
<1>6. CASE pc \in {"sheet", "end"}
  BY <1>6 DEF Noticed
<1> QED BY <1>2, <1>3, <1>4, <1>5, <1>6 DEF Base, Typed, InSheet

\* Every step keeps the count: it grows only between two looks at the token.
LEMMA NoticedStep ==
  ASSUME Base, Base', Noticed, [ReaderNext]_readerVars
  PROVE  Noticed'
<1>0. /\ Interval \in Nat \ {0} /\ late \in Nat /\ next \in Nat \ {0} /\ cells \in Nat /\ next - 1 \in Nat
      /\ late' \in Nat /\ next' \in Nat \ {0} /\ cells' \in Nat /\ next' - 1 \in Nat
  <2>1. /\ late \in Nat /\ next \in Nat \ {0} /\ cells \in Nat
        /\ late' \in Nat /\ next' \in Nat \ {0} /\ cells' \in Nat
    BY DEF Base, Typed
  <2>2. \A k \in Nat \ {0} : k - 1 \in Nat
    OBVIOUS
  <2> QED BY <2>1, <2>2, IntervalAssumption
<1>1. /\ next % Interval \in Nat /\ (next - 1) % Interval \in Nat /\ cells % Interval \in Nat
      /\ (cells + 1) % Interval \in Nat /\ (next' - 1) % Interval \in Nat /\ cells' % Interval \in Nat
      /\ cells % Interval <= Interval - 1
  <2>1. \A n \in Nat : n % Interval \in 0 .. Interval - 1
    BY NextRemainder
  <2>2. \A n \in Nat : n % Interval \in Nat /\ n % Interval <= Interval - 1
    BY <1>0, <2>1
  <2>3. cells + 1 \in Nat
    BY <1>0
  <2> QED BY ONLY <1>0, <2>2, <2>3, Zenon
<1>2. late' <= Interval => CancelIsNoticed'
  <2>1. (Base /\ late <= Interval => CancelIsNoticed)'
    BY FewAreNoticed, PTL
  <2> QED BY <2>1
<1>3. ASSUME late' = 0, pc' # "formulas" PROVE Noticed'
  <2>1. late' <= (next' - 1) % Interval /\ late' <= cells' % Interval /\ late' <= Interval
    <3>1. \A x : x \in Nat => 0 <= x
      OBVIOUS
    <3>2. Interval \in Nat
      BY <1>0
    <3>3. 0 <= (next' - 1) % Interval /\ 0 <= cells' % Interval /\ 0 <= Interval
      BY ONLY <1>1, <3>1, <3>2, Zenon
    <3> QED BY ONLY <1>3, <3>3, Zenon
  <2> QED BY <1>2, <1>3, <2>1 DEF Noticed
<1>4. ASSUME pc' = "end", UNCHANGED <<file, sheets, late, cancelled>> PROVE Noticed'
  <2>1. CancelIsNoticed
    BY NoticedImplies
  <2>2. CancelIsNoticed'
    BY <1>4, <2>1 DEF CancelIsNoticed, Source
  <2> QED BY <1>4, <2>2 DEF Noticed
<1>5. ASSUME ~cancelled, late' = late, pc' # "formulas" PROVE Noticed'
  BY <1>3, <1>5 DEF Noticed
<1>6. CASE ValidateFile \/ PreflightArchive \/ OpenWorkbook
  <2>1. late' = 0 /\ pc' # "formulas"
    BY <1>6 DEF ValidateFile, PreflightArchive, OpenWorkbook, End, Goto, read, Base, Positioned
  <2> QED BY <1>3, <2>1
<1>7. CASE OpenSheet \/ CheckXls \/ Complete
  <2>1. ~cancelled /\ late' = late /\ pc' # "formulas"
    BY <1>7 DEF OpenSheet, CheckXls, Complete, End, Goto, read
  <2> QED BY <1>5, <2>1
<1>8. CASE ReadXlsxRecord
  <2>1. /\ pc = "records" /\ pc \in InSheet /\ file.ext = "xlsx" /\ next <= Len(Source.records)
        /\ (next % Interval = 0 => ~cancelled) /\ UNCHANGED <<file, cancelled>>
    BY <1>8 DEF ReadXlsxRecord, InSheet
  <2>2. late <= (next - 1) % Interval /\ (~cancelled => late = 0)
    BY <2>1 DEF Noticed
  <2>3. next % Interval # 0 => next % Interval = ((next - 1) % Interval) + 1
    <3>1. (next - 1) + 1 = next
      BY <1>0
    <3> QED BY <1>0, <3>1, NextRemainder
  <2>4. ASSUME pc' = "records", next' = next + 1, late' = late \/ (cancelled /\ late' = late + 1)
        PROVE  Noticed'
    <3>1. next' - 1 = next
      BY <1>0, <2>4
    <3>2. CASE ~cancelled
      BY <1>5, <2>4, <3>2
    <3>3. CASE cancelled
      <4>1. late' <= (next' - 1) % Interval
        BY <1>0, <1>1, <2>1, <2>2, <2>3, <2>4, <3>1, <3>3
      <4> QED BY <2>1, <2>4, <3>3, <4>1 DEF Noticed
    <3> QED BY <3>2, <3>3
  <2>5. CASE Retain(Record, "records")
    BY <1>4, <2>1, <2>4, <2>5, RetainIs DEF End, Goto, read
  <2>6. CASE next' = next + 1 /\ UNCHANGED <<sheets, cells, bytes, late, pc, outcome>>
    BY <2>1, <2>4, <2>6
  <2> QED BY <1>8, <2>5, <2>6 DEF ReadXlsxRecord
<1>9. CASE ReadXlsValue
  <2>1. /\ pc = "records" /\ pc \in InSheet /\ file.ext = "xls" /\ next <= Len(Source.records)
        /\ UNCHANGED <<file, cancelled>>
    BY <1>9 DEF ReadXlsValue, InSheet
  <2>2. late <= cells % Interval /\ (~cancelled => late = 0)
    BY <2>1 DEF Noticed
  <2>3. (cells + 1) % Interval # 0 => (cells + 1) % Interval = (cells % Interval) + 1
    BY <1>0, NextRemainder
  <2> DEFINE step == IF (cells + 1) % Interval = 0 THEN "check" ELSE "records"
  <2>4. ASSUME pc' = step, cells' = cells + 1, late' = IF cancelled THEN late + 1 ELSE late
        PROVE  Noticed'
    <3>1. CASE ~cancelled
      BY <1>5, <2>4, <3>1
    <3>2. CASE cancelled
      <4>1. late' <= Interval
        BY <1>0, <1>1, <2>2, <2>4, <3>2
      <4>2. pc' = "records" => late' <= cells' % Interval
        BY <1>0, <1>1, <2>2, <2>3, <2>4, <3>2
      <4>3. pc' = "records" \/ pc' = "check"
        BY <2>4
      <4> QED BY <2>1, <3>2, <4>1, <4>2, <4>3 DEF Noticed
    <3> QED BY <3>1, <3>2
  <2>5. CASE Retain(Record, step)
    <3> HIDE DEF step
    <3> QED BY <1>4, <2>1, <2>4, <2>5, RetainIs DEF End, Goto, read
  <2>6. CASE next' = next + 1 /\ UNCHANGED <<sheets, cells, bytes, late, pc, outcome>>
    BY <2>1, <2>2, <2>6 DEF Noticed
  <2> QED BY <1>9, <2>5, <2>6 DEF ReadXlsValue
<1>10. CASE EndRecords
  <2>1. /\ pc = "records" /\ UNCHANGED <<file, sheets, late, cancelled>>
        /\ file.ext \in {"xls", "xlsx"} /\ (pc' = "sheet" \/ pc' = "formulas")
        /\ (pc' = "formulas" => next' = 1)
    BY <1>10 DEF EndRecords, Goto, Base, Positioned
  <2>2. late' <= Interval /\ (~cancelled' => late' = 0)
    <3>1. late <= (next - 1) % Interval \/ late <= cells % Interval
      BY <2>1 DEF Noticed
    <3>2. (next - 1) % Interval <= Interval - 1
      BY <1>0, NextRemainder
    <3>3. ~cancelled => late = 0
      BY DEF Noticed
    <3> QED BY <1>0, <1>1, <2>1, <3>1, <3>2, <3>3
  <2>3. pc' = "formulas" => late' <= Interval + Cardinality(BareBefore(Source', next'))
    <3>1. Source' = Source /\ Source \in FileSheets
      BY <2>1, RecordIs DEF Source, InSheet
    <3>2. Cardinality(BareBefore(Source, 1)) \in Nat
      BY <3>1, BareCount
    <3> QED BY <1>0, <2>1, <2>2, <3>1, <3>2
  <2> QED BY <1>2, <2>1, <2>2, <2>3 DEF Noticed
<1>11. CASE ReadXlsFormula
  <2>1. /\ pc = "formulas" /\ pc \in InSheet /\ next <= Len(Source.records) /\ UNCHANGED <<file, cancelled>>
    BY <1>11 DEF ReadXlsFormula, InSheet
  <2>2. late <= Interval + Cardinality(BareBefore(Source, next)) /\ (~cancelled => late = 0)
    BY <2>1 DEF Noticed
  <2>3. Source \in FileSheets /\ next \in DOMAIN Source.records /\ Record = Source.records[next]
        /\ sheets \in Seq(ReadSheets)
    BY <2>1, RecordIs DEF Record, Base, Typed
  <2>4. /\ Cardinality(BareBefore(Source, next)) \in Nat
        /\ Cardinality(BareBefore(Source, next + 1)) \in Nat
        /\ Cardinality(BareBefore(Source, next)) <= Cardinality(BareBefore(Source, next + 1))
        /\ Bare(Record) => Cardinality(BareBefore(Source, next + 1)) = Cardinality(BareBefore(Source, next)) + 1
    <3>1. next \in Nat /\ next + 1 \in Nat
      BY <1>0
    <3> QED BY <2>3, <3>1, BareCount
  <2>5. CASE Bare(Record) /\ Retain(Record, "formulas")
    <3>1. CASE /\ late' = IF cancelled THEN late + 1 ELSE late
               /\ next' = next + 1 /\ Goto("formulas") /\ Len(sheets') = Len(sheets)
      <4>1. Source' = Source /\ pc' = "formulas"
        BY <2>1, <3>1 DEF Source, Goto
      <4>2. late' <= Interval + Cardinality(BareBefore(Source, next + 1)) /\ (~cancelled => late' = 0)
        BY <1>0, <2>2, <2>4, <2>5, <3>1
      <4> QED BY <2>1, <3>1, <4>1, <4>2 DEF Noticed
    <3>2. CASE End("failed") /\ UNCHANGED read
      BY <1>4, <2>1, <3>2 DEF End, read
    <3> QED BY <2>1, <2>5, <3>1, <3>2, RetainIs
  <2>6. CASE next' = next + 1 /\ UNCHANGED <<sheets, cells, bytes, late, pc, outcome>>
    <3>1. Source' = Source
      BY <2>1, <2>6 DEF Source
    <3>2. late' <= Interval + Cardinality(BareBefore(Source, next + 1))
      BY <1>0, <2>2, <2>4, <2>6
    <3> QED BY <2>1, <2>2, <2>6, <3>1, <3>2 DEF Noticed
  <2> QED BY <1>11, <2>5, <2>6 DEF ReadXlsFormula, Bare
<1>12. CASE SortXlsSheet
  <2>1. /\ pc = "formulas" /\ pc \in InSheet /\ pc' = "sheet" /\ UNCHANGED <<file, late, cancelled>>
        /\ sheets # <<>>
    BY <1>12 DEF SortXlsSheet, Goto, Base, Positioned, InSheet
  <2>2. CancelIsNoticed
    BY NoticedImplies
  <2>3. Len(sheets') = Len(sheets) /\ sheets' # <<>>
    BY <1>12, <2>1 DEF SortXlsSheet, Base, Typed
  <2>4. CancelIsNoticed'
    BY <2>1, <2>2, <2>3 DEF CancelIsNoticed, Source
  <2> QED BY <2>1, <2>4 DEF Noticed
<1>13. CASE NoticeCancel
  <2>1. pc' = "end" /\ UNCHANGED <<file, sheets, late, cancelled>>
    BY <1>13 DEF NoticeCancel, End, read
  <2> QED BY <1>4, <2>1
<1>14. CASE ReadAgain
  BY <1>3, <1>14 DEF ReadAgain
<1>15. CASE CancelReading \/ (\E fraction \in 0 .. 1000 : Report(fraction)) \/ UNCHANGED readerVars
  <2>1. /\ UNCHANGED <<file, pc, sheets, next, cells, late>> /\ Source' = Source
        /\ (cancelled => cancelled')
    BY <1>15 DEF CancelReading, Report, readerVars, read, Source
  <2>2. CancelIsNoticed' <=> CancelIsNoticed
    BY <2>1 DEF CancelIsNoticed
  <2> QED BY <2>1, <2>2 DEF Noticed
<1> QED BY <1>6, <1>7, <1>8, <1>9, <1>10, <1>11, <1>12, <1>13, <1>14, <1>15 DEF ReaderNext, ReaderStep

\* The count is always kept.
LEMMA NoticedAlways == ReaderSpec => [](Base /\ Noticed)
<1>1. Init => Noticed
  <2> SUFFICES ASSUME Init PROVE Noticed
    OBVIOUS
  <2> QED BY DEF Init, Noticed
<1>2. Faithful => Base
  BY DEF Faithful
<1>3. Base /\ Base' /\ Noticed /\ [ReaderNext]_readerVars => Noticed'
  BY NoticedStep
<1> QED BY <1>1, <1>2, <1>3, FaithfulAlways, PTL DEF ReaderSpec

-----------------------------------------------------------------------------
(* The two counters                                                        *)

Lens(shs) == [i \in DOMAIN shs |-> Len(shs[i].cells)]
Weights(c) == [j \in DOMAIN c |-> c[j].text + c[j].formula]
Sizes(shs) == [i \in DOMAIN shs |-> Total(Weights(shs[i].cells))]

Within(r) == InBounds(r) /\ r.text <= Limits.cellText /\ r.formula <= Limits.formula

\* A sum of numbers is one.
LEMMA TotalType ==
  ASSUME NEW n \in Nat, NEW f \in [1 .. n -> Nat]
  PROVE  Total(f) \in Nat
<1>1. IsFiniteSet(1 .. n)
  BY FS_Interval
<1>2. \A x \in 1 .. n : f[x] \in Nat
  OBVIOUS
<1>3. Sum(f, 1 .. n) \in Nat
  BY <1>1, <1>2, SumType
<1>4. DOMAIN f = 1 .. n
  OBVIOUS
<1> QED BY <1>3, <1>4, TotalIs

\* The bytes of the cells are numbers.
LEMMA WeightsType ==
  ASSUME NEW c \in Seq(Records)
  PROVE  Weights(c) \in [1 .. Len(c) -> Nat] /\ Total(Weights(c)) \in Nat
<1>1. Weights(c) \in [1 .. Len(c) -> Nat]
  BY FilesAssumption DEF Weights
<1> QED BY <1>1, TotalType

\* So are what the sheets count and weigh.
LEMMA SheetsType ==
  ASSUME NEW shs \in Seq(ReadSheets)
  PROVE  /\ \A i \in 1 .. Len(shs) : shs[i].cells \in Seq(Records)
         /\ Lens(shs) \in [1 .. Len(shs) -> Nat]
         /\ Sizes(shs) \in [1 .. Len(shs) -> Nat]
<1>1. ASSUME NEW i \in 1 .. Len(shs) PROVE shs[i].cells \in Seq(Records)
  <2>1. shs[i] \in ReadSheets
    OBVIOUS
  <2> QED BY <2>1 DEF ReadSheets
<1>2. \A i \in 1 .. Len(shs) : Len(shs[i].cells) \in Nat /\ Total(Weights(shs[i].cells)) \in Nat
  BY <1>1, WeightsType
<1> QED BY <1>1, <1>2 DEF Lens, Sizes

\* A cell more weighs what it is.
LEMMA WeightsMore ==
  ASSUME NEW c \in Seq(Records), NEW r \in Records
  PROVE  Total(Weights(Append(c, r))) = Total(Weights(c)) + (r.text + r.formula)
<1>1. PICK n \in Nat : n = Len(c)
  OBVIOUS
<1>2. Append(c, r) \in Seq(Records) /\ Len(Append(c, r)) = n + 1
  BY <1>1
<1>3. Weights(c) \in [1 .. n -> Nat] /\ Weights(Append(c, r)) \in [1 .. n + 1 -> Nat]
  BY <1>1, <1>2, WeightsType
<1>4. /\ \A i \in 1 .. n : Weights(Append(c, r))[i] = Weights(c)[i]
      /\ Weights(Append(c, r))[n + 1] = r.text + r.formula
  BY <1>1, <1>2 DEF Weights
<1> QED BY <1>3, <1>4, TotalMore

\* Another order weighs the same.
LEMMA WeightsReordered ==
  ASSUME NEW c \in Seq(Records), NEW d \in Seq(Records), Len(d) = Len(c), NEW p, Reorders(p, Len(c)),
         \A i \in 1 .. Len(c) : d[i] = c[p[i]]
  PROVE  Total(Weights(d)) = Total(Weights(c))
<1>1. PICK n \in Nat : n = Len(c)
  OBVIOUS
<1>2. Weights(c) \in [1 .. n -> Nat] /\ Weights(d) \in [1 .. n -> Nat]
  BY <1>1, WeightsType
<1>3. \A i \in 1 .. n : p[i] \in 1 .. n
  BY <1>1 DEF Reorders
<1>4. \A i \in 1 .. n : Weights(d)[i] = Weights(c)[p[i]]
  BY <1>1, <1>3 DEF Weights
<1> QED BY <1>1, <1>2, <1>4, TotalReordered

\* The counters when the last sheet takes a cell.
LEMMA CountsMore ==
  ASSUME NEW s \in Seq(ReadSheets), NEW n \in 1 .. Len(s), NEW r \in Records
  PROVE  LET t == Grown(s, n, r)
         IN /\ Total(Lens(t)) = Total(Lens(s)) + 1
            /\ Total(Sizes(t)) = Total(Sizes(s)) + (r.text + r.formula)
<1>1. PICK t : t = Grown(s, n, r)
  OBVIOUS
<1>2. /\ t \in Seq(ReadSheets) /\ Len(t) = Len(s)
      /\ \A i \in 1 .. Len(s) : i # n => t[i] = s[i]
      /\ t[n].cells = Append(s[n].cells, r)
  BY <1>1, GrownIs
<1>3. PICK m \in Nat : m = Len(s)
  OBVIOUS
<1>4. /\ Lens(s) \in [1 .. m -> Nat] /\ Lens(t) \in [1 .. m -> Nat]
      /\ Sizes(s) \in [1 .. m -> Nat] /\ Sizes(t) \in [1 .. m -> Nat]
      /\ s[n].cells \in Seq(Records) /\ n \in 1 .. m
      /\ DOMAIN s = 1 .. m /\ DOMAIN t = 1 .. m
  BY <1>2, <1>3, SheetsType
<1>5. \A i \in 1 .. m : i # n => Lens(t)[i] = Lens(s)[i] /\ Sizes(t)[i] = Sizes(s)[i]
  BY <1>2, <1>3, <1>4 DEF Lens, Sizes
<1>6. Lens(t)[n] = Lens(s)[n] + 1
  BY <1>2, <1>4 DEF Lens
<1>7. Sizes(t)[n] = Sizes(s)[n] + (r.text + r.formula)
  <2>1. Sizes(t)[n] = Total(Weights(t[n].cells)) /\ Sizes(s)[n] = Total(Weights(s[n].cells))
    BY <1>4 DEF Sizes
  <2> QED BY <1>2, <1>4, <2>1, WeightsMore
<1>8. Lens(s)[n] \in Nat /\ Sizes(s)[n] \in Nat /\ r.text + r.formula \in Nat
  <2>1. r.text \in Nat /\ r.formula \in Nat
    BY FilesAssumption
  <2>2. r.text + r.formula \in Nat
    BY <2>1
  <2> QED BY <1>4, <2>2
<1>9. Total(Lens(t)) = Total(Lens(s)) + 1
  <2>1. PICK k \in Nat : Total(Lens(s)) = Lens(s)[n] + k /\ Total(Lens(t)) = Lens(t)[n] + k
    BY <1>4, <1>5, TotalChange
  <2> QED BY <1>6, <1>8, <2>1
<1>10. Total(Sizes(t)) = Total(Sizes(s)) + (r.text + r.formula)
  <2>1. PICK k \in Nat : Total(Sizes(s)) = Sizes(s)[n] + k /\ Total(Sizes(t)) = Sizes(t)[n] + k
    BY <1>4, <1>5, TotalChange
  <2>2. PICK a, b : a = Sizes(s)[n] /\ b = r.text + r.formula
    OBVIOUS
  <2>3. (a + b) + k = (a + k) + b
    BY <1>8, <2>2
  <2> QED BY <1>7, <2>1, <2>2, <2>3
<1> QED BY <1>1, <1>9, <1>10

\* The counters when a sheet without cells is added.
LEMMA CountsOpened ==
  ASSUME NEW s \in Seq(ReadSheets), NEW t \in Seq(ReadSheets), Len(t) = Len(s) + 1,
         \A i \in 1 .. Len(s) : t[i] = s[i], t[Len(s) + 1].cells = <<>>
  PROVE  Total(Lens(t)) = Total(Lens(s)) /\ Total(Sizes(t)) = Total(Sizes(s))
<1>1. PICK m \in Nat : m = Len(s)
  OBVIOUS
<1>2. /\ Lens(s) \in [1 .. m -> Nat] /\ Lens(t) \in [1 .. m + 1 -> Nat]
      /\ Sizes(s) \in [1 .. m -> Nat] /\ Sizes(t) \in [1 .. m + 1 -> Nat]
      /\ DOMAIN s = 1 .. m /\ DOMAIN t = 1 .. m + 1
  BY <1>1, SheetsType
<1>3. \A i \in 1 .. m : Lens(t)[i] = Lens(s)[i] /\ Sizes(t)[i] = Sizes(s)[i]
  BY <1>1, <1>2 DEF Lens, Sizes
<1>4. m + 1 \in 1 .. m + 1 /\ t[m + 1].cells = <<>>
  BY <1>1
<1>5. Lens(t)[m + 1] = 0
  BY <1>2, <1>4 DEF Lens
<1>6. Sizes(t)[m + 1] = 0
  <2>1. Sizes(t)[m + 1] = Total(Weights(<<>>))
    BY <1>2, <1>4 DEF Sizes
  <2>2. DOMAIN Weights(<<>>) = {}
    BY DEF Weights
  <2> QED BY <2>1, <2>2, TotalEmpty
<1>7. /\ Total(Lens(t)) = Total(Lens(s)) + Lens(t)[m + 1] /\ Total(Lens(s)) \in Nat
      /\ Total(Sizes(t)) = Total(Sizes(s)) + Sizes(t)[m + 1] /\ Total(Sizes(s)) \in Nat
  BY <1>2, <1>3, TotalMore
<1> QED BY <1>5, <1>6, <1>7

\* Every step counts what it keeps, and keeps what the limits accept.
LEMMA WithinStep ==
  ASSUME Base, Growing, RetainedWithinLimits, [ReaderNext]_readerVars
  PROVE  RetainedWithinLimits'
<1>0. /\ Limits.cells \in Nat /\ Limits.totalText \in Nat /\ Limits.formula \in Nat
      /\ sheets \in Seq(ReadSheets) /\ cells \in Nat /\ bytes \in Nat
  BY LimitsAssumption DEF LimitFields, Base, Typed
<1>1. /\ cells = Total(Lens(sheets)) /\ cells <= Limits.cells
      /\ bytes = Total(Sizes(sheets)) /\ bytes <= Limits.totalText
      /\ \A i \in DOMAIN sheets : \A r \in Members(sheets[i].cells) : Within(r)
  BY DEF RetainedWithinLimits, Lens, Sizes, Weights, Members, Kept, Within
<1>2. ASSUME /\ cells' = Total(Lens(sheets')) /\ cells' <= Limits.cells
             /\ bytes' = Total(Sizes(sheets')) /\ bytes' <= Limits.totalText
             /\ \A i \in DOMAIN sheets' : \A r \in Members(sheets'[i].cells) : Within(r)
      PROVE  RetainedWithinLimits'
  BY <1>2 DEF RetainedWithinLimits, Lens, Sizes, Weights, Members, Kept, Within
<1>3. ASSUME UNCHANGED <<sheets, cells, bytes>> PROVE RetainedWithinLimits'
  BY <1>1, <1>2, <1>3
<1>4. ASSUME pc \in InSheet, next <= Len(Source.records), NEW step, Retain(Record, step)
      PROVE  RetainedWithinLimits'
  <2>1. CASE End("failed") /\ UNCHANGED read
    BY <1>3, <2>1 DEF read
  <2>2. CASE /\ CellAccepted(Record) /\ sheets' = Grown(sheets, Len(sheets), Record)
             /\ cells' = cells + 1 /\ bytes' = bytes + Record.text + Record.formula
    <3> DEFINE n == Len(sheets)
    <3>1. Record \in Records /\ n \in 1 .. Len(sheets)
      BY <1>0, <1>4, RecordIs
    <3>2. Record.text \in Nat /\ Record.formula \in Nat
      BY <3>1, FilesAssumption
    <3>3. cells' = Total(Lens(sheets')) /\ cells' <= Limits.cells
      BY <1>0, <1>1, <2>2, <3>1, CountsMore DEF CellAccepted
    <3>4. bytes' = Total(Sizes(sheets')) /\ bytes' <= Limits.totalText
      <4>1. Total(Sizes(sheets')) = Total(Sizes(sheets)) + (Record.text + Record.formula)
        BY <1>0, <2>2, <3>1, CountsMore
      <4>2. bytes + Record.text + Record.formula = bytes + (Record.text + Record.formula)
        BY <1>0, <3>2
      <4>3. bytes' <= Limits.totalText
        BY <2>2 DEF CellAccepted
      <4> QED BY <1>1, <2>2, <4>1, <4>2, <4>3
    <3>5. Within(Record)
      <4>1. InBounds(Record) /\ Record.text <= Limits.cellText
            /\ (HasFormula(Record) => Record.formula <= Limits.formula)
        BY <2>2 DEF CellAccepted
      <4> QED BY <1>0, <3>2, <4>1 DEF Within, HasFormula
    <3>6. /\ Len(sheets') = n /\ \A i \in 1 .. n : i # n => sheets'[i] = sheets[i]
          /\ sheets'[n].cells = Append(sheets[n].cells, Record) /\ sheets' \in Seq(ReadSheets)
      BY <1>0, <2>2, <3>1, GrownIs
    <3>7. sheets[n].cells \in Seq(Records)
      BY <1>0, <3>1, SheetsType
    <3>8. Members(sheets'[n].cells) = Members(sheets[n].cells) \cup {Record}
      BY <3>1, <3>6, <3>7, OneMore
    <3>9. ASSUME NEW i \in DOMAIN sheets', NEW r \in Members(sheets'[i].cells) PROVE Within(r)
      <4>1. i \in DOMAIN sheets
        BY <1>0, <3>6
      <4>2. CASE i = n
        BY <1>1, <3>5, <3>8, <3>9, <4>1, <4>2
      <4>3. CASE i # n
        BY <1>0, <1>1, <3>6, <3>9, <4>1, <4>3
      <4> QED BY <4>2, <4>3
    <3> QED BY <1>2, <3>3, <3>4, <3>9
  <2> QED BY <1>4, <2>1, <2>2, RetainIs
<1>5. CASE \/ ValidateFile \/ PreflightArchive \/ OpenWorkbook \/ CheckXls \/ EndRecords \/ Complete
           \/ NoticeCancel \/ CancelReading \/ (\E fraction \in 0 .. 1000 : Report(fraction))
           \/ UNCHANGED readerVars
  <2>1. UNCHANGED <<sheets, cells, bytes>>
    BY <1>5 DEF ValidateFile, PreflightArchive, OpenWorkbook, CheckXls, EndRecords, Complete,
                NoticeCancel, CancelReading, Report, readerVars, read
  <2> QED BY <1>3, <2>1
<1>6. CASE OpenSheet
  <2>1. PICK n : n = Len(sheets) + 1
    OBVIOUS
  <2>2. /\ sheets' \in Seq(ReadSheets) /\ Len(sheets') = n /\ n \in Nat
        /\ \A i \in 1 .. Len(sheets) : sheets'[i] = sheets[i]
        /\ sheets'[n].cells = <<>>
    BY <1>6, <2>1, OpenedIs
  <2>3. cells' = cells /\ bytes' = bytes
    BY <1>6 DEF OpenSheet
  <2>4. Total(Lens(sheets')) = Total(Lens(sheets)) /\ Total(Sizes(sheets')) = Total(Sizes(sheets))
    BY <1>0, <2>1, <2>2, CountsOpened
  <2>5. ASSUME NEW i \in DOMAIN sheets', NEW r \in Members(sheets'[i].cells) PROVE Within(r)
    <3>1. Members(<<>>) = {}
      BY DEF Members
    <3>2. i \in 1 .. n /\ i # n
      BY <2>2, <2>5, <3>1
    <3>3. i \in DOMAIN sheets /\ i \in 1 .. Len(sheets)
      BY <1>0, <2>1, <3>2
    <3> QED BY <1>1, <2>2, <2>5, <3>3
  <2> QED BY <1>1, <1>2, <2>3, <2>4, <2>5
<1>7. CASE ReadXlsxRecord \/ ReadXlsValue \/ ReadXlsFormula
  <2>1. pc \in InSheet /\ next <= Len(Source.records)
    BY <1>7 DEF ReadXlsxRecord, ReadXlsValue, ReadXlsFormula, InSheet
  <2>2. \/ \E step : Retain(Record, step)
        \/ UNCHANGED <<sheets, cells, bytes>>
    BY <1>7 DEF ReadXlsxRecord, ReadXlsValue, ReadXlsFormula
  <2> QED BY <1>3, <1>4, <2>1, <2>2
<1>8. CASE SortXlsSheet
  <2> DEFINE n == Len(sheets)
             c == sheets[n].cells
             d == sheets'[n].cells
  <2>1. Apart(c)
    BY <1>8 DEF SortXlsSheet, Growing, InSheet
  <2>2. /\ n \in 1 .. Len(file.sheets) /\ sheets' \in Seq(ReadSheets) /\ Len(sheets') = n
        /\ \A i \in 1 .. n : i # n => sheets'[i] = sheets[i]
        /\ d \in Seq(Records) /\ Len(d) = Len(c)
        /\ \E p : Reorders(p, Len(c)) /\ \A i \in 1 .. Len(c) : d[i] = c[p[i]]
    BY <1>8, <2>1, SortedIs
  <2>3. n \in 1 .. n /\ DOMAIN sheets = 1 .. n /\ DOMAIN sheets' = 1 .. n
    BY <1>0, <2>2
  <2>4. c \in Seq(Records)
    BY <1>0, <2>3, SheetsType
  <2> HIDE DEF c, d
  <2>5. Members(d) = Members(c) /\ Total(Weights(d)) = Total(Weights(c))
    BY <2>2, <2>4, ReorderedMembers, WeightsReordered
  <2>6. ASSUME NEW i \in 1 .. n
        PROVE  /\ Len(sheets'[i].cells) = Len(sheets[i].cells)
               /\ Total(Weights(sheets'[i].cells)) = Total(Weights(sheets[i].cells))
               /\ Members(sheets'[i].cells) = Members(sheets[i].cells)
    BY <2>2, <2>5 DEF c, d
  <2>7. Lens(sheets') = Lens(sheets) /\ Sizes(sheets') = Sizes(sheets)
    BY <2>3, <2>6 DEF Lens, Sizes
  <2>8. cells' = cells /\ bytes' = bytes
    BY <1>8 DEF SortXlsSheet
  <2>9. \A i \in DOMAIN sheets' : \A r \in Members(sheets'[i].cells) : Within(r)
    BY <1>1, <2>3, <2>6
  <2> QED BY <1>1, <1>2, <2>7, <2>8, <2>9
<1>9. CASE ReadAgain
  <2>1. sheets' = <<>> /\ cells' = 0 /\ bytes' = 0
    BY <1>9 DEF ReadAgain
  <2>2. DOMAIN Lens(sheets') = {} /\ DOMAIN Sizes(sheets') = {} /\ DOMAIN sheets' = {}
    BY <2>1 DEF Lens, Sizes
  <2>3. Total(Lens(sheets')) = 0 /\ Total(Sizes(sheets')) = 0
    BY <2>2, TotalEmpty
  <2> QED BY <1>0, <1>2, <2>1, <2>2, <2>3
<1> QED BY <1>4, <1>5, <1>6, <1>7, <1>8, <1>9 DEF ReaderNext, ReaderStep

\* The limits hold from the first step on.
LEMMA WithinAlways == ReaderSpec => []RetainedWithinLimits
<1>1. Init => RetainedWithinLimits
  <2> SUFFICES ASSUME Init PROVE RetainedWithinLimits
    OBVIOUS
  <2>1. sheets = <<>> /\ cells = 0 /\ bytes = 0
    BY DEF Init
  <2>2. DOMAIN Lens(sheets) = {} /\ DOMAIN Sizes(sheets) = {} /\ DOMAIN sheets = {}
    BY <2>1 DEF Lens, Sizes
  <2>3. Total(Lens(sheets)) = 0 /\ Total(Sizes(sheets)) = 0
    BY <2>2, TotalEmpty
  <2>4. Limits.cells \in Nat /\ Limits.totalText \in Nat
    BY LimitsAssumption DEF LimitFields
  <2> QED BY <2>1, <2>2, <2>3, <2>4 DEF RetainedWithinLimits, Lens, Sizes, Weights
<1>2. Faithful => Base /\ Growing
  BY DEF Faithful
<1>3. Base /\ Growing /\ RetainedWithinLimits /\ [ReaderNext]_readerVars => RetainedWithinLimits'
  BY WithinStep
<1> QED BY <1>1, <1>2, <1>3, FaithfulAlways, PTL DEF ReaderSpec

-----------------------------------------------------------------------------
(* The runs of the inspector                                               *)

\* A run does nothing to the reader but what ReaderSpec allows: it takes the
\* reader's steps, reports fractions, sets the token and reads again.
THEOREM RunsReadAsTheReader == Spec => ReaderSpec
<1>1. InspectionInit => Init
  BY DEF InspectionInit
<1>2. ASSUME [Next]_vars PROVE [ReaderNext]_readerVars
  <2>1. CASE UNCHANGED vars
    BY <2>1 DEF vars
  <2>2. ASSUME NEW q \in Requests, StartRun(q) PROVE UNCHANGED readerVars
    BY <2>2 DEF StartRun
  <2>3. CASE Ingest
    BY <2>3 DEF Ingest, ReaderNext
  <2>4. CASE IngestionEnds
    BY <2>4 DEF IngestionEnds
  <2>5. CASE DetectTables
    BY <2>5 DEF DetectTables, ReaderNext
  <2>6. CASE ApplyRules
    <3>1. \E fraction \in 0 .. 1000 : Report(fraction)
      BY <2>6 DEF ApplyRules
    <3> QED BY <3>1 DEF ReaderNext
  <2>7. CASE EngineCancelled
    BY <2>7 DEF EngineCancelled
  <2>8. CASE Save
    BY <2>8 DEF Save
  <2>9. CASE AnalyzeAgain
    BY <2>9 DEF AnalyzeAgain, ReaderNext
  <2>10. CASE Cancel
    BY <2>10 DEF Cancel, ReaderNext
  <2>11. CASE Rest
    BY <2>11 DEF Rest, vars
  <2> QED BY <1>2, <2>1, <2>2, <2>3, <2>4, <2>5, <2>6, <2>7, <2>8, <2>9, <2>10, <2>11
          DEF Next, RunStep
<1> QED BY <1>1, <1>2, PTL DEF Spec, ReaderSpec

\* What is said of a reading that ended well is so for every workbook: the
\* sheets hold the records with a value or a formula, in the order of rows
\* when the file has it, with the least rectangle around them.
THEOREM ReadIsFaithfulAlways == Spec => []ReadIsFaithful
BY RunsReadAsTheReader, FaithfulAlways, FaithfulImplies, PTL

\* However long the file, no more cells than the interval are kept after a
\* cancellation, but for the formulas without a value of one old sheet.
THEOREM CancelIsNoticedAlways == Spec => []CancelIsNoticed
BY RunsReadAsTheReader, NoticedAlways, NoticedImplies, PTL

\* For every file and all limits, the counters are the sums over what is kept
\* and, with every cell, within the limits.
THEOREM RetainedWithinLimitsAlways == Spec => []RetainedWithinLimits
BY RunsReadAsTheReader, WithinAlways, PTL

-----------------------------------------------------------------------------
(* Lists, and what is picked of them                                       *)

\* The empty list and the lists of one element.
LEMMA ShortLists ==
  /\ List(<<>>) /\ Members(<<>>) = {}
  /\ \A x : List(<<x>>) /\ Len(<<x>>) = 1 /\ <<x>>[1] = x
<1>1. <<>> \in Seq({}) /\ DOMAIN <<>> = {}
  OBVIOUS
<1>2. ASSUME NEW x PROVE List(<<x>>) /\ Len(<<x>>) = 1 /\ <<x>>[1] = x
  <2>1. <<x>> \in Seq({x}) /\ Len(<<x>>) = 1 /\ <<x>>[1] = x
    OBVIOUS
  <2> QED BY <2>1, SequenceIsList
<1>3. List(<<>>) /\ Members(<<>>) = {}
  BY <1>1, SequenceIsList DEF Members
<1> QED BY <1>2, <1>3

\* Two lists after each other: each place is one of the first or of the second.
LEMMA ListsJoin ==
  ASSUME NEW s, List(s), NEW t, List(t)
  PROVE  /\ List(s \o t) /\ Len(s \o t) = Len(s) + Len(t)
         /\ \A i \in DOMAIN (s \o t) :
              (s \o t)[i] = IF i <= Len(s) THEN s[i] ELSE t[i - Len(s)]
<1> DEFINE S == Members(s) \cup Members(t)
<1>1. s \in Seq(S) /\ t \in Seq(S)
  BY SeqMonotonic DEF List
<1>2. s \o t \in Seq(S) /\ Len(s \o t) = Len(s) + Len(t)
  BY <1>1
<1>3. \A i \in 1 .. Len(s) + Len(t) :
        (s \o t)[i] = IF i <= Len(s) THEN s[i] ELSE t[i - Len(s)]
  BY <1>1
<1> HIDE DEF S
<1>4. DOMAIN (s \o t) = 1 .. Len(s) + Len(t)
  BY <1>2
<1>5. List(s \o t)
  BY <1>2, SequenceIsList
<1> QED BY <1>2, <1>3, <1>4, <1>5

\* A finite set of numbers, in order: each of them at one place, rising.
LEMMA AscendingIs ==
  ASSUME NEW S \in SUBSET Nat, IsFiniteSet(S)
  PROVE  /\ List(Ascending(S)) /\ Len(Ascending(S)) = Cardinality(S)
         /\ \A k \in DOMAIN Ascending(S) : Ascending(S)[k] \in S
         /\ \A k, l \in DOMAIN Ascending(S) : Ascending(S)[k] = Ascending(S)[l] => k = l
         /\ \A n \in S : \E k \in DOMAIN Ascending(S) : Ascending(S)[k] = n
         /\ \A k, l \in DOMAIN Ascending(S) : k < l => Ascending(S)[k] < Ascending(S)[l]
<1> DEFINE R == {p \in S \X S : p[1] < p[2]}
           b == [n \in S |-> Cardinality({m \in S : m < n})]
           a == Ascending(S)
<1>1. \A m, n \in S : <<m, n>> \in R <=> m < n
  OBVIOUS
<1>2. Orders(R, S)
  <2> HIDE DEF R
  <2> QED BY <1>1 DEF Orders
<1>3. Ranks(b, R, S)
  <2>1. \A n \in S : {m \in S : m < n} = {m \in S : <<m, n>> \in R}
    BY <1>1
  <2> HIDE DEF R
  <2> QED BY <2>1 DEF Ranks
<1> DEFINE B(n) == Cardinality({m \in S : m < n})
<1>4. \A n \in S : b[n] = B(n)
  OBVIOUS
<1>5. a = [l \in 1 .. Cardinality(S) |-> CHOOSE n \in S : B(n) = l - 1]
  BY DEF Ascending
<1> HIDE DEF R, a, b, B
<1>6. DOMAIN a = 1 .. Cardinality(S) /\ a = [k \in DOMAIN a |-> a[k]]
  BY <1>5
<1>7. \A k \in DOMAIN a : (\E n \in S : b[n] = k - 1) => a[k] \in S /\ b[a[k]] = k - 1
  BY <1>4, <1>5
<1>8. Lists(a, S, R)
  <2>1. ByRank(a, b, S)
    BY <1>6, <1>7 DEF ByRank
  <2> QED BY <1>2, <1>3, <2>1, RankedIs
<1>9. \A k, l \in DOMAIN a : k < l => a[k] < a[l]
  BY <1>1, <1>8 DEF Lists
<1> QED BY <1>8, <1>9 DEF a, Lists

\* The places of a list at which its elements pass a test, given as a set.
Picked(s, T) == [k \in DOMAIN Ascending(T) |-> s[Ascending(T)[k]]]

\* t lists the elements of s at the places T, in their order: the one at place
\* k is the one at place p[k].
Picks(p, t, s, T) ==
  /\ List(t)
  /\ \A k \in DOMAIN t : p[k] \in T /\ t[k] = s[p[k]]
  /\ \A k, l \in DOMAIN t : k < l <=> p[k] < p[l]
  /\ \A k, l \in DOMAIN t : p[k] = p[l] => k = l
  /\ \A i \in T : \E k \in DOMAIN t : p[k] = i

\* Elements that are picked stay in their order.
LEMMA PickedInOrder ==
  ASSUME NEW s, List(s), NEW T \in SUBSET DOMAIN s
  PROVE  \E p : Picks(p, Picked(s, T), s, T)
<1> DEFINE p == Ascending(T)
           t == Picked(s, T)
<1>1. T \in SUBSET Nat /\ IsFiniteSet(T)
  <2>1. Len(s) \in Nat /\ DOMAIN s = 1 .. Len(s) /\ IsFiniteSet(DOMAIN s)
    BY ListPlaces
  <2>2. T \in SUBSET Nat
    BY <2>1
  <2> QED BY <2>1, <2>2, FS_Subset
<1>2. /\ List(p)
      /\ \A k \in DOMAIN p : p[k] \in T
      /\ \A k, l \in DOMAIN p : p[k] = p[l] => k = l
      /\ \A n \in T : \E k \in DOMAIN p : p[k] = n
      /\ \A k, l \in DOMAIN p : k < l => p[k] < p[l]
  BY <1>1, AscendingIs
<1> HIDE DEF p
<1>3. t = [k \in DOMAIN p |-> s[p[k]]]
  BY DEF Picked, p
<1>4. Len(p) \in Nat /\ DOMAIN p = 1 .. Len(p)
  BY <1>2, ListPlaces
<1>5. DOMAIN t = DOMAIN p /\ t = [k \in DOMAIN t |-> t[k]] /\ \A k \in DOMAIN t : t[k] = s[p[k]]
  BY <1>3
<1> HIDE DEF t
<1>8. List(t)
  BY <1>4, <1>5, ListIs
<1>6. ASSUME NEW k \in DOMAIN t, NEW l \in DOMAIN t PROVE k < l <=> p[k] < p[l]
  <2>1. k \in Int /\ l \in Int /\ p[k] \in Int /\ p[l] \in Int
    BY <1>1, <1>2, <1>4, <1>5
  <2>2. k < l => p[k] < p[l]
    BY <1>2, <1>5
  <2>3. l < k => p[l] < p[k]
    BY <1>2, <1>5
  <2>4. k = l => p[k] = p[l]
    OBVIOUS
  <2> QED BY <2>1, <2>2, <2>3, <2>4
<1>7. Picks(p, t, s, T)
  BY <1>2, <1>5, <1>6, <1>8 DEF Picks
<1> QED BY <1>7 DEF t

\* In whatever order.
LEMMA PickedIs ==
  ASSUME NEW s, List(s), NEW T \in SUBSET DOMAIN s
  PROVE  /\ List(Picked(s, T))
         /\ \E p : /\ \A k \in DOMAIN Picked(s, T) : p[k] \in T /\ Picked(s, T)[k] = s[p[k]]
                   /\ \A k, l \in DOMAIN Picked(s, T) : p[k] = p[l] => k = l
                   /\ \A i \in T : \E k \in DOMAIN Picked(s, T) : p[k] = i
<1>1. PICK p : Picks(p, Picked(s, T), s, T)
  BY PickedInOrder
<1> QED BY <1>1 DEF Picks

-----------------------------------------------------------------------------
(* Lists of lists                                                          *)

\* t lists the elements of the lists of s, each once: the one at place k is
\* the one at place q[k] of list p[k].
Nested(p, q, s, t) ==
  /\ \A k \in DOMAIN t : p[k] \in DOMAIN s /\ q[k] \in DOMAIN s[p[k]] /\ t[k] = s[p[k]][q[k]]
  /\ \A k, l \in DOMAIN t : p[k] = p[l] /\ q[k] = q[l] => k = l

Joined(f, s, n) == f = [i \in 1 .. n |-> IF i = 1 THEN s[i] ELSE f[i - 1] \o s[i]]

\* The lists of a list have a common list, with the place each element comes from.
LEMMA JoinedExists ==
  ASSUME NEW s, NEW n \in Nat
  PROVE  \E f : Joined(f, s, n)
<1> DEFINE Bad == {m \in Nat : ~ \E f : Joined(f, s, m)}
<1> SUFFICES ASSUME Bad # {} PROVE FALSE
  OBVIOUS
<1>1. PICK m \in Bad : \A l \in Bad : m <= l
  BY LeastElement
<1>2. m # 0
  <2>1. Joined([i \in 1 .. 0 |-> s[i]], s, 0)
    BY DEF Joined
  <2> QED BY <1>1, <2>1
<1>3. m - 1 \in Nat /\ m - 1 \notin Bad
  BY <1>1, <1>2
<1>4. PICK f : Joined(f, s, m - 1)
  BY <1>3
<1> DEFINE g == [i \in 1 .. m |-> IF i = 1 THEN s[i] ELSE f[i - 1] \o s[i]]
<1>5. \A i \in 1 .. m : i # 1 => i - 1 \in 1 .. m - 1 /\ i - 1 \in 1 .. m
  BY <1>1
<1>6. \A i \in 1 .. m - 1 : f[i] = IF i = 1 THEN s[i] ELSE f[i - 1] \o s[i]
  BY <1>4 DEF Joined
<1>7. \A i \in 1 .. m : g[i] = IF i = 1 THEN s[i] ELSE f[i - 1] \o s[i]
  OBVIOUS
<1>8. g = [i \in 1 .. m |-> g[i]]
  OBVIOUS
<1> HIDE DEF g
<1>9. \A i \in 1 .. m - 1 : g[i] = f[i]
  <2>1. \A i \in 1 .. m - 1 : i \in 1 .. m
    BY <1>1
  <2> QED BY <1>6, <1>7, <2>1
<1>10. \A i \in 1 .. m : g[i] = IF i = 1 THEN s[i] ELSE g[i - 1] \o s[i]
  BY <1>5, <1>7, <1>9
<1>11. Joined(g, s, m)
  BY <1>8, <1>10 DEF Joined
<1> QED BY <1>1, <1>11

\* FlattenSeq gives such a list, and leaves no element out.
LEMMA FlattenIs ==
  ASSUME NEW s, List(s), \A i \in DOMAIN s : List(s[i])
  PROVE  /\ List(FlattenSeq(s))
         /\ \A i \in DOMAIN s : Len(s[i]) <= Len(FlattenSeq(s))
         /\ \E p, q : Nested(p, q, s, FlattenSeq(s))
<1> DEFINE n == Len(s)
<1>1. n \in Nat /\ DOMAIN s = 1 .. n
  BY ListPlaces
<1>2. CASE n = 0
  <2>1. FlattenSeq(s) = s /\ DOMAIN s = {}
    BY <1>1, <1>2 DEF FlattenSeq
  <2> QED BY <2>1 DEF Nested
<1>3. CASE n # 0
  <2>1. PICK f : f = CHOOSE g : Joined(g, s, n)
    OBVIOUS
  <2>2. Joined(f, s, n)
    BY <1>1, <2>1, JoinedExists
  <2>3. FlattenSeq(s) = f[n]
    BY <1>3, <2>1 DEF FlattenSeq, Joined
  <2> DEFINE Good(m) == /\ List(f[m])
                        /\ \A i \in 1 .. m : Len(s[i]) <= Len(f[m])
                        /\ \E p, q : Nested(p, q, s, f[m]) /\ \A k \in DOMAIN f[m] : p[k] <= m
             Bad == {m \in 1 .. n : ~Good(m)}
  <2>4. \A i \in 1 .. n : f[i] = IF i = 1 THEN s[i] ELSE f[i - 1] \o s[i]
    BY <2>2 DEF Joined
  <2>5. ASSUME Bad # {} PROVE FALSE
    <3>0. Bad \subseteq Nat
      BY <1>1
    <3>1. PICK m \in Bad : \A l \in Bad : m <= l
      BY <2>5, <3>0, LeastElement
    <3>2. m \in 1 .. n /\ List(s[m])
      BY <1>1, <3>1
    <3>3a. \A i \in 1 .. n : Len(s[i]) \in Nat
      BY <1>1, ListPlaces
    <3>3. m # 1
      <4> SUFFICES ASSUME m = 1 PROVE Good(1)
        BY <3>1
      <4>1. f[1] = s[1] /\ 1 \in DOMAIN s
        BY <1>1, <2>4, <3>2
      <4>2. Nested([k \in DOMAIN f[1] |-> 1], [k \in DOMAIN f[1] |-> k], s, f[1])
        BY <4>1 DEF Nested
      <4>3. \A k \in DOMAIN f[1] : [l \in DOMAIN f[1] |-> 1][k] <= 1
        OBVIOUS
      <4>4. \A i \in 1 .. 1 : Len(s[i]) <= Len(f[1])
        BY <3>2, <4>1, ListPlaces, <3>3a
      <4> QED BY <3>2, <4>1, <4>2, <4>3, <4>4
    <3>4. m - 1 \in 1 .. n /\ m - 1 \notin Bad
      BY <1>1, <3>1, <3>2, <3>3
    <3>5. Good(m - 1)
      BY <3>4
    <3>6. PICK a, b, t : a = f[m - 1] /\ b = s[m] /\ t = f[m]
      OBVIOUS
    <3>7. List(a) /\ List(b) /\ t = a \o b
      BY <2>4, <3>2, <3>3, <3>5, <3>6
    <3>8. PICK p, q : Nested(p, q, s, a) /\ \A k \in DOMAIN a : p[k] <= m - 1
      BY <3>5, <3>6
    <3>9. Len(a) \in Nat /\ DOMAIN a = 1 .. Len(a) /\ Len(b) \in Nat /\ DOMAIN b = 1 .. Len(b)
      BY <3>7, ListPlaces
    <3>10. /\ List(t) /\ Len(t) = Len(a) + Len(b)
           /\ \A i \in DOMAIN t : t[i] = IF i <= Len(a) THEN a[i] ELSE b[i - Len(a)]
      BY <3>7, ListsJoin
    <3>11. DOMAIN t = 1 .. Len(a) + Len(b)
      BY <3>10, ListPlaces
    <3> DEFINE P == [k \in DOMAIN t |-> IF k <= Len(a) THEN p[k] ELSE m]
               Q == [k \in DOMAIN t |-> IF k <= Len(a) THEN q[k] ELSE k - Len(a)]
    <3>12. ASSUME NEW k \in DOMAIN t
           PROVE  /\ k <= Len(a) => k \in DOMAIN a /\ P[k] = p[k] /\ Q[k] = q[k] /\ t[k] = a[k]
                  /\ ~(k <= Len(a)) => k - Len(a) \in DOMAIN b /\ P[k] = m /\ Q[k] = k - Len(a) /\ t[k] = b[k - Len(a)]
                  /\ k \in Nat
      BY <3>9, <3>10, <3>11
    <3> HIDE DEF P, Q
    <3>13. ASSUME NEW k \in DOMAIN t
           PROVE  P[k] \in DOMAIN s /\ Q[k] \in DOMAIN s[P[k]] /\ t[k] = s[P[k]][Q[k]] /\ P[k] <= m
      <4>1. CASE k <= Len(a)
        <5>1. k \in DOMAIN a /\ P[k] = p[k] /\ Q[k] = q[k] /\ t[k] = a[k]
          BY <3>12, <4>1
        <5>2. p[k] \in DOMAIN s /\ q[k] \in DOMAIN s[p[k]] /\ a[k] = s[p[k]][q[k]] /\ p[k] <= m - 1
          BY <3>8, <5>1 DEF Nested
        <5>3. p[k] <= m
          BY <1>1, <3>2, <5>2
        <5> QED BY <5>1, <5>2, <5>3
      <4>2. CASE ~(k <= Len(a))
        <5>1. k - Len(a) \in DOMAIN b /\ P[k] = m /\ Q[k] = k - Len(a) /\ t[k] = b[k - Len(a)]
          BY <3>12, <4>2
        <5> QED BY <1>1, <3>2, <3>6, <5>1
      <4> QED BY <4>1, <4>2
    <3>14. ASSUME NEW k \in DOMAIN t, NEW l \in DOMAIN t, P[k] = P[l], Q[k] = Q[l] PROVE k = l
      <4>0. \A i \in DOMAIN a : p[i] <= m - 1 /\ p[i] \in 1 .. n
        BY <1>1, <3>8 DEF Nested
      <4>1. CASE k <= Len(a) /\ l <= Len(a)
        <5>1. k \in DOMAIN a /\ l \in DOMAIN a /\ p[k] = p[l] /\ q[k] = q[l]
          BY <3>12, <3>14, <4>1
        <5> QED BY <3>8, <5>1 DEF Nested
      <4>2. CASE ~(k <= Len(a)) /\ ~(l <= Len(a))
        <5>1. k - Len(a) = l - Len(a) /\ k \in Nat /\ l \in Nat
          BY <3>12, <3>14, <4>2
        <5> QED BY <3>9, <5>1
      <4>3. CASE k <= Len(a) /\ ~(l <= Len(a))
        <5>1. k \in DOMAIN a /\ p[k] = m
          BY <3>12, <3>14, <4>3
        <5> QED BY <1>1, <3>2, <4>0, <5>1
      <4>4. CASE ~(k <= Len(a)) /\ l <= Len(a)
        <5>1. l \in DOMAIN a /\ p[l] = m
          BY <3>12, <3>14, <4>4
        <5> QED BY <1>1, <3>2, <4>0, <5>1
      <4> QED BY <4>1, <4>2, <4>3, <4>4
    <3>15. Nested(P, Q, s, t) /\ \A k \in DOMAIN t : P[k] <= m
      BY <3>13, <3>14 DEF Nested
    <3>16. ASSUME NEW i \in 1 .. m PROVE Len(s[i]) <= Len(t)
      <4>1. i <= m - 1 => Len(s[i]) <= Len(a)
        BY <1>1, <3>2, <3>5, <3>6
      <4>2. i = m \/ i <= m - 1
        BY <1>1, <3>2
      <4>3. i \in 1 .. n
        BY <1>1, <3>2
      <4>4. Len(t) = Len(a) + Len(b) /\ Len(a) \in Nat /\ Len(b) \in Nat
        BY <3>9, <3>10
      <4>5. CASE i = m
        <5>1. s[i] = b
          BY <3>6, <4>5
        <5> QED BY <4>4, <5>1
      <4>6. CASE i <= m - 1
        <5>1. Len(s[i]) \in Nat /\ Len(s[i]) <= Len(a)
          BY <3>3a, <4>1, <4>3, <4>6
        <5> QED BY <4>4, <5>1
      <4> QED BY <4>2, <4>5, <4>6
    <3>17. Good(m)
      BY <3>6, <3>10, <3>15, <3>16
    <3> QED BY <3>1, <3>17
  <2>6. Good(n)
    BY <1>1, <1>3, <2>5
  <2> QED BY <1>1, <2>3, <2>6
<1> QED BY <1>2, <1>3

-----------------------------------------------------------------------------
(* Findings that no check pushes twice                                     *)

\* No two findings of a list have one identifier.
Single(s) == \A i, j \in DOMAIN s : FindingId(s[i]) = FindingId(s[j]) => i = j

\* A list of findings of some rules, none of them twice if D holds.
Pushed(s, R, D) ==
  /\ List(s)
  /\ \A k \in DOMAIN s : s[k].rule[2] \in R
  /\ D => Single(s)

\* Nothing, or one finding about x.
Maybe(s, x, R) == s = <<>> \/ \E f : s = <<f>> /\ f.subject = x /\ f.rule[2] \in R

\* What holds of a list of at most one finding.
LEMMA MaybeIs ==
  ASSUME NEW s, NEW x, NEW R, Maybe(s, x, R)
  PROVE  /\ List(s)
         /\ \A k, l \in DOMAIN s : k = l
         /\ \A k \in DOMAIN s : s[k].subject = x /\ s[k].rule[2] \in R
<1>1. CASE s = <<>>
  <2>1. DOMAIN s = {}
    BY <1>1
  <2> QED BY <1>1, <2>1, ShortLists
<1>2. ASSUME NEW f, s = <<f>>, f.subject = x, f.rule[2] \in R
      PROVE  /\ List(s)
             /\ \A k, l \in DOMAIN s : k = l
             /\ \A k \in DOMAIN s : s[k].subject = x /\ s[k].rule[2] \in R
  <2>1. List(s)
    BY <1>2, ShortLists
  <2>2. DOMAIN s = {1} /\ s[1] = f
    BY <1>2
  <2> QED BY <1>2, <2>1, <2>2
<1> QED BY <1>1, <1>2 DEF Maybe

\* A condition gives its finding or nothing.
LEMMA IfIs ==
  ASSUME NEW c, NEW f, NEW R, f.rule[2] \in R
  PROVE  Maybe(If(c, f), f.subject, R)
BY DEF Maybe, If

\* The lists of several checks after each other, of rules of their own.
LEMMA PushedBoth ==
  ASSUME NEW s, NEW R, NEW t, NEW Q, NEW D, Pushed(s, R, D), Pushed(t, Q, D), R \cap Q = {}
  PROVE  Pushed(s \o t, R \cup Q, D)
<1> DEFINE u == s \o t
<1>1. List(s) /\ List(t) /\ Len(s) \in Nat /\ Len(t) \in Nat
      /\ DOMAIN s = 1 .. Len(s) /\ DOMAIN t = 1 .. Len(t)
  BY ListPlaces DEF Pushed
<1>2. /\ List(u) /\ Len(u) = Len(s) + Len(t)
      /\ \A i \in DOMAIN u : u[i] = IF i <= Len(s) THEN s[i] ELSE t[i - Len(s)]
  BY <1>1, ListsJoin
<1>3. DOMAIN u = 1 .. Len(s) + Len(t)
  BY <1>2, ListPlaces
<1> HIDE DEF u
<1>4. ASSUME NEW i \in DOMAIN u
      PROVE  /\ i <= Len(s) => i \in DOMAIN s /\ u[i] = s[i] /\ u[i].rule[2] \in R
             /\ ~(i <= Len(s)) => i - Len(s) \in DOMAIN t /\ u[i] = t[i - Len(s)] /\ u[i].rule[2] \in Q
             /\ i \in Nat
  <2>1. i \in Nat
    BY <1>1, <1>3
  <2>2. CASE i <= Len(s)
    <3>1. i \in DOMAIN s /\ u[i] = s[i]
      BY <1>1, <1>2, <1>3, <2>2
    <3> QED BY <2>1, <2>2, <3>1 DEF Pushed
  <2>3. CASE ~(i <= Len(s))
    <3>1. i - Len(s) \in DOMAIN t /\ u[i] = t[i - Len(s)]
      BY <1>1, <1>2, <1>3, <2>3
    <3> QED BY <2>1, <2>3, <3>1 DEF Pushed
  <2> QED BY <2>2, <2>3
<1>5. ASSUME D PROVE Single(u)
  <2>1. Single(s) /\ Single(t)
    BY <1>5 DEF Pushed
  <2> SUFFICES ASSUME NEW i \in DOMAIN u, NEW j \in DOMAIN u, FindingId(u[i]) = FindingId(u[j])
               PROVE  i = j
    BY DEF Single
  <2>2. u[i].rule = u[j].rule
    BY DEF FindingId
  <2>3. CASE i <= Len(s) /\ j <= Len(s)
    BY <1>4, <2>1, <2>3 DEF Single
  <2>4. CASE ~(i <= Len(s)) /\ ~(j <= Len(s))
    <3>1. i - Len(s) = j - Len(s) /\ i \in Nat /\ j \in Nat
      BY <1>4, <2>1, <2>4 DEF Single
    <3> QED BY <1>1, <3>1
  <2>5. CASE ~((i <= Len(s)) <=> (j <= Len(s)))
    BY <1>4, <2>2, <2>5
  <2> QED BY <2>3, <2>4, <2>5
<1>6. \A k \in DOMAIN u : u[k].rule[2] \in R \cup Q
  BY <1>4
<1> QED BY <1>2, <1>5, <1>6 DEF Pushed, u

\* The lists of the parts of a check, no two with one identifier.
LEMMA PushedEach ==
  ASSUME NEW s, List(s), NEW R, NEW D, \A i \in DOMAIN s : Pushed(s[i], R, D),
         D => \A i, j \in DOMAIN s : \A k \in DOMAIN s[i], l \in DOMAIN s[j] :
                FindingId(s[i][k]) = FindingId(s[j][l]) => i = j
  PROVE  Pushed(FlattenSeq(s), R, D)
<1> DEFINE t == FlattenSeq(s)
<1>1. List(t) /\ \E p, q : Nested(p, q, s, t)
  BY FlattenIs DEF Pushed
<1> HIDE DEF t
<1>2. PICK p, q : Nested(p, q, s, t)
  BY <1>1
<1>3. \A k \in DOMAIN t : t[k].rule[2] \in R
  BY <1>2 DEF Nested, Pushed
<1>4. ASSUME D PROVE Single(t)
  <2> SUFFICES ASSUME NEW k \in DOMAIN t, NEW l \in DOMAIN t, FindingId(t[k]) = FindingId(t[l])
               PROVE  k = l
    BY DEF Single
  <2>1. /\ p[k] \in DOMAIN s /\ q[k] \in DOMAIN s[p[k]] /\ t[k] = s[p[k]][q[k]]
        /\ p[l] \in DOMAIN s /\ q[l] \in DOMAIN s[p[l]] /\ t[l] = s[p[l]][q[l]]
    BY <1>2 DEF Nested
  <2>2. p[k] = p[l]
    BY <1>4, <2>1
  <2>3. q[k] = q[l]
    BY <1>4, <2>1, <2>2 DEF Pushed, Single
  <2> QED BY <1>2, <2>2, <2>3 DEF Nested
<1> QED BY <1>1, <1>3, <1>4 DEF Pushed, t

\* At most one finding for each place, each about something else.
LEMMA PushedLine ==
  ASSUME NEW s, List(s), NEW R, NEW D, NEW x, \A i \in DOMAIN s : Maybe(s[i], x[i], R),
         D => \A i, j \in DOMAIN s : x[i] = x[j] => i = j
  PROVE  /\ Pushed(FlattenSeq(s), R, D)
         /\ \A k \in DOMAIN FlattenSeq(s) : \E i \in DOMAIN s : \E j \in DOMAIN s[i] :
              FlattenSeq(s)[k] = s[i][j] /\ FlattenSeq(s)[k].subject = x[i]
<1>1. \A i \in DOMAIN s :
        /\ List(s[i])
        /\ \A k, l \in DOMAIN s[i] : k = l
        /\ \A k \in DOMAIN s[i] : s[i][k].subject = x[i] /\ s[i][k].rule[2] \in R
  BY MaybeIs
<1>2. \A i \in DOMAIN s : Pushed(s[i], R, D)
  BY <1>1 DEF Pushed, Single
<1>3. ASSUME D, NEW i \in DOMAIN s, NEW j \in DOMAIN s, NEW k \in DOMAIN s[i], NEW l \in DOMAIN s[j],
             FindingId(s[i][k]) = FindingId(s[j][l])
      PROVE  i = j
  <2>1. s[i][k].subject = s[j][l].subject
    BY <1>3 DEF FindingId
  <2>2. x[i] = x[j]
    BY <1>1, <2>1
  <2> QED BY <1>3, <2>2
<1>4. Pushed(FlattenSeq(s), R, D)
  BY <1>2, <1>3, PushedEach
<1>5. PICK p, q : Nested(p, q, s, FlattenSeq(s))
  BY <1>1, FlattenIs
<1> QED BY <1>1, <1>4, <1>5 DEF Nested

\* No two rows have one identifier.
Distinct(rows) == \A i, j \in DOMAIN rows : RowId(rows[i]) = RowId(rows[j]) => i = j

\* At most one finding for each row and each of some names: g[i][j] holds the
\* one about row i and the name x[i][j].
OfRows(g) == FlattenSeq([i \in DOMAIN g |-> FlattenSeq(g[i])])

Grid(rows, g, x, R) ==
  /\ List(g) /\ DOMAIN g = DOMAIN rows
  /\ \A i \in DOMAIN rows :
       /\ List(g[i])
       /\ \A j \in DOMAIN g[i] : Maybe(g[i][j], <<RowId(rows[i]), x[i][j]>>, R)
       /\ \A j, k \in DOMAIN g[i] : x[i][j] = x[i][k] => j = k

\* The findings about rows and names are of their rules, none twice if the rows are distinct.
LEMMA PushedGrid ==
  ASSUME NEW rows, NEW g, NEW x, NEW R, NEW D, Grid(rows, g, x, R), D => Distinct(rows)
  PROVE  Pushed(OfRows(g), R, D)
<1>0. /\ List(g) /\ DOMAIN g = DOMAIN rows
      /\ \A i \in DOMAIN rows :
           /\ List(g[i])
           /\ \A j \in DOMAIN g[i] : Maybe(g[i][j], <<RowId(rows[i]), x[i][j]>>, R)
           /\ \A j, k \in DOMAIN g[i] : x[i][j] = x[i][k] => j = k
  BY DEF Grid
<1> DEFINE s == [i \in DOMAIN g |-> FlattenSeq(g[i])]
<1>1. ASSUME NEW i \in DOMAIN g
      PROVE  /\ Pushed(s[i], R, D)
             /\ \A k \in DOMAIN s[i] : s[i][k].subject[1] = RowId(rows[i])
  <2> DEFINE h == g[i]
             y == [j \in DOMAIN h |-> <<RowId(rows[i]), x[i][j]>>]
  <2>1. List(h) /\ \A j \in DOMAIN h : Maybe(h[j], y[j], R)
    BY <1>0
  <2>2. \A j, k \in DOMAIN h : y[j] = y[k] => j = k
    BY <1>0
  <2>3. \A j \in DOMAIN h : y[j][1] = RowId(rows[i])
    OBVIOUS
  <2> HIDE DEF h, y
  <2>2a. D => \A j, k \in DOMAIN h : y[j] = y[k] => j = k
    BY <2>2
  <2>4a. /\ Pushed(FlattenSeq(h), R, D)
         /\ \A k \in DOMAIN FlattenSeq(h) : \E j \in DOMAIN h : \E m \in DOMAIN h[j] :
              FlattenSeq(h)[k] = h[j][m] /\ FlattenSeq(h)[k].subject = y[j]
    BY ONLY <2>1, <2>2a, PushedLine, ZenonT(30)
  <2>4. /\ Pushed(FlattenSeq(h), R, D)
        /\ \A k \in DOMAIN FlattenSeq(h) : \E j \in DOMAIN h : FlattenSeq(h)[k].subject = y[j]
    BY <2>4a
  <2>5. s[i] = FlattenSeq(h)
    BY DEF h
  <2> HIDE DEF s
  <2> QED BY <2>3, <2>4, <2>5
<1>2. List(s) /\ DOMAIN s = DOMAIN g
  <2>1. Len(g) \in Nat /\ DOMAIN g = 1 .. Len(g)
    BY <1>0, ListPlaces
  <2>2. DOMAIN s = 1 .. Len(g) /\ s = [i \in DOMAIN s |-> s[i]]
    BY <2>1
  <2> QED BY <2>1, <2>2, ListIs
<1> HIDE DEF s
<1>3. ASSUME D, NEW i \in DOMAIN s, NEW j \in DOMAIN s, NEW k \in DOMAIN s[i], NEW l \in DOMAIN s[j],
             FindingId(s[i][k]) = FindingId(s[j][l])
      PROVE  i = j
  <2>1. s[i][k].subject = s[j][l].subject
    BY <1>3 DEF FindingId
  <2>2. RowId(rows[i]) = RowId(rows[j])
    BY <1>0, <1>1, <1>2, <2>1
  <2> QED BY <1>0, <1>2, <1>3, <2>2 DEF Distinct
<1> QED BY <1>1, <1>2, <1>3, PushedEach DEF s, OfRows

-----------------------------------------------------------------------------
(* The checks of one row                                                   *)

\* A function on the places of a list is a list of the same length.
LEMMA ListMapped ==
  ASSUME NEW s, List(s), NEW g, DOMAIN g = DOMAIN s, g = [i \in DOMAIN g |-> g[i]]
  PROVE  List(g) /\ Len(g) = Len(s)
<1>1. Len(s) \in Nat /\ DOMAIN s = 1 .. Len(s)
  BY ListPlaces
<1> QED BY <1>1, ListIs

\* Rows that are picked are as distinct as those they are picked from.
LEMMA PickedRows ==
  ASSUME NEW rows, List(rows), NEW T \in SUBSET DOMAIN rows
  PROVE  /\ List(Picked(rows, T))
         /\ Distinct(rows) => Distinct(Picked(rows, T))
         /\ \A k \in DOMAIN Picked(rows, T) : \E i \in T : Picked(rows, T)[k] = rows[i]
<1> DEFINE t == Picked(rows, T)
<1>1. /\ List(t)
      /\ \E p : /\ \A k \in DOMAIN t : p[k] \in T /\ t[k] = rows[p[k]]
                /\ \A k, l \in DOMAIN t : p[k] = p[l] => k = l
  BY PickedIs
<1> HIDE DEF t
<1>2. PICK p : /\ \A k \in DOMAIN t : p[k] \in T /\ t[k] = rows[p[k]]
               /\ \A k, l \in DOMAIN t : p[k] = p[l] => k = l
  BY <1>1
<1>3. ASSUME Distinct(rows), NEW k \in DOMAIN t, NEW l \in DOMAIN t, RowId(t[k]) = RowId(t[l])
      PROVE  k = l
  <2>1. p[k] \in DOMAIN rows /\ p[l] \in DOMAIN rows /\ RowId(rows[p[k]]) = RowId(rows[p[l]])
    BY <1>2, <1>3
  <2>2. p[k] = p[l]
    BY <1>3, <2>1 DEF Distinct
  <2> QED BY <1>2, <2>2
<1>4. Distinct(rows) => Distinct(t)
  BY <1>3 DEF Distinct
<1> QED BY <1>1, <1>2, <1>4 DEF t

\* The items of a list of rows.
LEMMA ItemRowsAre ==
  ASSUME NEW rows, List(rows)
  PROVE  List(ItemRows(rows)) /\ (Distinct(rows) => Distinct(ItemRows(rows)))
<1> DEFINE T == {i \in DOMAIN rows : rows[i].class = "item"}
<1>1. ItemRows(rows) = Picked(rows, T)
  BY DEF ItemRows, Select, Picked
<1> QED BY <1>1, PickedRows

\* The items that have a description.
LEMMA DescribedAre ==
  ASSUME NEW rows, List(rows)
  PROVE  List(Described(rows)) /\ (Distinct(rows) => Distinct(Described(rows)))
<1> DEFINE items == ItemRows(rows)
           T == {i \in DOMAIN items : items[i].description # None}
<1>1. Described(rows) = Picked(items, T)
  BY DEF Described, Select, Picked
<1>2. List(items) /\ (Distinct(rows) => Distinct(items))
  BY ItemRowsAre
<1> HIDE DEF items
<1> QED BY <1>1, <1>2, PickedRows

\* The parts of a finding.
LEMMA FindingIs ==
  \A rule, sheet, subject, cell :
    /\ Finding(rule, sheet, subject, cell).rule = rule
    /\ Finding(rule, sheet, subject, cell).sheet = sheet
    /\ Finding(rule, sheet, subject, cell).subject = subject
BY DEF Finding

\* A list of one finding is one of at most one.
LEMMA NoneOrOne ==
  \A x, R :
    /\ Maybe(<<>>, x, R)
    /\ \A f : f.subject = x /\ f.rule[2] \in R => Maybe(<<f>>, x, R) /\ \A c : Maybe(If(c, f), x, R)
BY DEF Maybe, If

\* check_missing_values finds each missing cell of a row once.
LEMMA MissingValuesArePushed ==
  ASSUME NEW fd, List(fd.rows), NEW D, D => Distinct(fd.rows)
  PROVE  Pushed(CheckMissingValues(fd), {"missing"}, D)
<1> DEFINE R == {"missing"}
           rows == ItemRows(fd.rows)
           t(row) == fd.tables[row.table]
           lump(row) == row.unit # None /\ row.unit.value \in {"ls", "%"}
           included(row) == /\ row.rateText # None
                            /\ NormalizeText(row.rateText.value) \in {<<"included">>, <<"incl">>}
           missing(row, role) ==
             CASE role = "description" -> row.description = None
               [] role = "unit" -> row.unitText = None
               [] role = "quantity" -> ~lump(row) /\ row.quantity = None
               [] role = "rate" -> ~lump(row) /\ ~included(row) /\ row.rate = None
               [] role = "amount" -> ~included(row) /\ row.amount = None
           f(row, role) == Finding(<<"boq", "missing", role>>, row.sheet, <<RowId(row), role>>,
                                   RowLocation(row, ColumnOf(t(row), role).col))
           part(row, role) == If(ColumnOf(t(row), role) # None /\ missing(row, role), f(row, role))
           g == [i \in DOMAIN rows |-> [j \in DOMAIN RequiredRoles |-> part(rows[i], RequiredRoles[j])]]
           x == [i \in DOMAIN rows |-> RequiredRoles]
<1>1. CheckMissingValues(fd) = OfRows(g)
  BY Zenon DEF CheckMissingValues, Each, OfRows
<1>2. List(rows) /\ (D => Distinct(rows))
  BY ItemRowsAre
<1>3. ASSUME NEW row, NEW role PROVE Maybe(part(row, role), <<RowId(row), role>>, R)
  <2>1. f(row, role).subject = <<RowId(row), role>> /\ f(row, role).rule[2] \in R
    BY FindingIs
  <2> HIDE DEF f, R, missing
  <2> QED BY <2>1, NoneOrOne
<1> HIDE DEF rows, part, R
<1>4. List(RequiredRoles) /\ DOMAIN RequiredRoles = 1 .. 5
      /\ \A j, k \in DOMAIN RequiredRoles : RequiredRoles[j] = RequiredRoles[k] => j = k
  <2>1. DOMAIN RequiredRoles = 1 .. 5 /\ RequiredRoles = [i \in DOMAIN RequiredRoles |-> RequiredRoles[i]]
    BY DEF RequiredRoles
  <2>2. List(RequiredRoles)
    BY <2>1, ListIs
  <2>3. \A j, k \in 1 .. 5 : RequiredRoles[j] = RequiredRoles[k] => j = k
    BY DEF RequiredRoles
  <2> QED BY <2>1, <2>2, <2>3
<1>5. List(g) /\ DOMAIN g = DOMAIN rows
  BY <1>2, ListMapped
<1>6. ASSUME NEW i \in DOMAIN rows
      PROVE  /\ List(g[i])
             /\ \A j \in DOMAIN g[i] : Maybe(g[i][j], <<RowId(rows[i]), x[i][j]>>, R)
             /\ \A j, k \in DOMAIN g[i] : x[i][j] = x[i][k] => j = k
  <2>1. DOMAIN g[i] = DOMAIN RequiredRoles /\ g[i] = [j \in DOMAIN g[i] |-> g[i][j]] /\ x[i] = RequiredRoles
        /\ \A j \in DOMAIN g[i] : g[i][j] = part(rows[i], RequiredRoles[j])
    OBVIOUS
  <2> HIDE DEF g, x
  <2> QED BY <1>3, <1>4, <2>1, ListMapped
<1> HIDE DEF g, x
<1>7. Grid(rows, g, x, R)
  BY <1>5, <1>6 DEF Grid
<1>8. Pushed(OfRows(g), R, D)
  BY <1>2, <1>7, PushedGrid
<1> QED BY <1>1, <1>8 DEF R

\* check_numeric_values finds each amount of a row once, as zero or as negative.
LEMMA NumericValuesArePushed ==
  ASSUME NEW all, List(all), NEW D, D => Distinct(all)
  PROVE  Pushed(CheckNumericValues(all), {"zero_value", "negative_value"}, D)
<1> DEFINE R == {"zero_value", "negative_value"}
           rows == ItemRows(all)
           f(row, a) == Finding(<<"boq", IF a.of.value = 0 THEN "zero_value" ELSE "negative_value">>, row.sheet,
                                <<RowId(row), a.field>>, SourceLocation(row, a.of))
           part(row, a) == IF a.of = None \/ a.of.value > 0 THEN <<>> ELSE <<f(row, a)>>
           g == [i \in DOMAIN rows |-> [j \in DOMAIN Amounts(rows[i]) |-> part(rows[i], Amounts(rows[i])[j])]]
           x == [i \in DOMAIN rows |-> [j \in 1 .. 3 |-> Amounts(rows[i])[j].field]]
<1>1. CheckNumericValues(all) = OfRows(g)
  BY DEF CheckNumericValues, Each, OfRows
<1>2. List(rows) /\ (D => Distinct(rows))
  BY ItemRowsAre
<1>3. ASSUME NEW row, NEW a PROVE Maybe(part(row, a), <<RowId(row), a.field>>, R)
  <2>1. f(row, a).subject = <<RowId(row), a.field>> /\ f(row, a).rule[2] \in R
    BY FindingIs
  <2> HIDE DEF f, R
  <2> QED BY <2>1, NoneOrOne
<1> HIDE DEF rows, part, R
<1>4. ASSUME NEW row
      PROVE  /\ DOMAIN Amounts(row) = 1 .. 3
             /\ \A j, k \in 1 .. 3 : Amounts(row)[j].field = Amounts(row)[k].field => j = k
  BY DEF Amounts
<1>5. List(g) /\ DOMAIN g = DOMAIN rows
  BY <1>2, ListMapped
<1>6. ASSUME NEW i \in DOMAIN rows
      PROVE  /\ List(g[i])
             /\ \A j \in DOMAIN g[i] : Maybe(g[i][j], <<RowId(rows[i]), x[i][j]>>, R)
             /\ \A j, k \in DOMAIN g[i] : x[i][j] = x[i][k] => j = k
  <2>1. DOMAIN g[i] = 1 .. 3 /\ g[i] = [j \in DOMAIN g[i] |-> g[i][j]]
        /\ \A j \in 1 .. 3 : g[i][j] = part(rows[i], Amounts(rows[i])[j]) /\ x[i][j] = Amounts(rows[i])[j].field
    BY <1>4
  <2> HIDE DEF g, x
  <2>2. List(g[i])
    BY <2>1, ListIs
  <2>3. \A j \in DOMAIN g[i] : Maybe(g[i][j], <<RowId(rows[i]), x[i][j]>>, R)
    BY <1>3, <2>1
  <2>4. \A j, k \in DOMAIN g[i] : x[i][j] = x[i][k] => j = k
    BY <1>4, <2>1
  <2> QED BY <2>2, <2>3, <2>4
<1> HIDE DEF g, x
<1>7. Grid(rows, g, x, R)
  BY <1>5, <1>6 DEF Grid
<1>8. Pushed(OfRows(g), R, D)
  BY <1>2, <1>7, PushedGrid
<1> QED BY <1>1, <1>8 DEF R

\* A finite set of numbers.
Numbers(S) == S \in SUBSET Nat /\ IsFiniteSet(S)

\* check_spreadsheet_errors finds each column of a row once.
LEMMA SpreadsheetErrorsArePushed ==
  ASSUME NEW rows, List(rows), \A i \in DOMAIN rows : Numbers(rows[i].errors), NEW D, D => Distinct(rows)
  PROVE  Pushed(CheckSpreadsheetErrors(rows), {"spreadsheet_error"}, D)
<1> DEFINE R == {"spreadsheet_error"}
           x == [i \in DOMAIN rows |-> Ascending(rows[i].errors)]
           f(row, col) == Finding(<<"boq", "spreadsheet_error">>, row.sheet, <<RowId(row), col>>,
                                  SourceLocation(row, [col |-> col]))
           g == [i \in DOMAIN rows |-> [j \in DOMAIN Ascending(rows[i].errors) |-> <<f(rows[i], Ascending(rows[i].errors)[j])>>]]
<1>1. CheckSpreadsheetErrors(rows) = OfRows(g)
  BY DEF CheckSpreadsheetErrors, Each, OfRows
<1>2. ASSUME NEW row, NEW col PROVE Maybe(<<f(row, col)>>, <<RowId(row), col>>, R)
  <2>1. f(row, col).subject = <<RowId(row), col>> /\ f(row, col).rule[2] \in R
    BY FindingIs
  <2> HIDE DEF f, R
  <2> QED BY <2>1, NoneOrOne
<1> HIDE DEF f, R
<1>3. List(g) /\ DOMAIN g = DOMAIN rows
  BY ListMapped
<1>4. ASSUME NEW i \in DOMAIN rows
      PROVE  /\ List(g[i])
             /\ \A j \in DOMAIN g[i] : Maybe(g[i][j], <<RowId(rows[i]), x[i][j]>>, R)
             /\ \A j, k \in DOMAIN g[i] : x[i][j] = x[i][k] => j = k
  <2>1. DOMAIN g[i] = DOMAIN x[i] /\ g[i] = [j \in DOMAIN g[i] |-> g[i][j]]
        /\ \A j \in DOMAIN g[i] : g[i][j] = <<f(rows[i], x[i][j])>>
    OBVIOUS
  <2>2. List(x[i]) /\ \A j, k \in DOMAIN x[i] : x[i][j] = x[i][k] => j = k
    <3>1. x[i] = Ascending(rows[i].errors)
      OBVIOUS
    <3> HIDE DEF x
    <3> QED BY <3>1, AscendingIs DEF Numbers
  <2> HIDE DEF g, x
  <2>3. List(g[i])
    BY <2>1, <2>2, ListMapped
  <2>4. \A j \in DOMAIN g[i] : Maybe(g[i][j], <<RowId(rows[i]), x[i][j]>>, R)
    <3>1. \A j : Maybe(<<f(rows[i], x[i][j])>>, <<RowId(rows[i]), x[i][j]>>, R)
      BY <1>2
    <3> QED BY ONLY <2>1, <3>1, Zenon
  <2> QED BY <2>1, <2>2, <2>3, <2>4
<1> HIDE DEF g, x
<1>5. Grid(rows, g, x, R)
  BY <1>3, <1>4 DEF Grid
<1>6. Pushed(OfRows(g), R, D)
  BY <1>5, PushedGrid
<1> QED BY <1>1, <1>6 DEF R

\* check_amounts finds each row once.
LEMMA AmountsArePushed ==
  ASSUME NEW all, List(all), NEW settings, NEW D, D => Distinct(all)
  PROVE  Pushed(CheckAmounts(all, settings), {"amount_mismatch"}, D)
<1> DEFINE R == {"amount_mismatch"}
           rows == ItemRows(all)
           f(row) == Finding(<<"boq", "amount_mismatch">>, row.sheet, <<RowId(row)>>, SourceLocation(row, row.amount))
           part(row) ==
             IF None \in {row.quantity, row.rate, row.amount} THEN <<>>
             ELSE If(Mismatch(row.quantity.value * row.rate.value, 1, row.amount.value, settings), f(row))
           s == [i \in DOMAIN rows |-> part(rows[i])]
           x == [i \in DOMAIN rows |-> <<RowId(rows[i])>>]
<1>1. CheckAmounts(all, settings) = FlattenSeq(s)
  BY DEF CheckAmounts, Each
<1>2. List(rows) /\ (D => Distinct(rows))
  BY ItemRowsAre
<1>3. ASSUME NEW row PROVE Maybe(part(row), <<RowId(row)>>, R)
  <2>1. f(row).subject = <<RowId(row)>> /\ f(row).rule[2] \in R
    BY FindingIs
  <2> HIDE DEF f, R
  <2> QED BY <2>1, NoneOrOne
<1> HIDE DEF rows, part, R
<1>4. List(s) /\ DOMAIN s = DOMAIN rows
  BY <1>2, ListMapped
<1>5. \A i \in DOMAIN s : Maybe(s[i], x[i], R)
  BY <1>3
<1>6. ASSUME D, NEW i \in DOMAIN s, NEW j \in DOMAIN s, x[i] = x[j] PROVE i = j
  <2>1. RowId(rows[i]) = RowId(rows[j])
    BY <1>6
  <2> QED BY <1>2, <1>4, <1>6, <2>1 DEF Distinct
<1> HIDE DEF s, x
<1>7. Pushed(FlattenSeq(s), R, D)
  BY <1>4, <1>5, <1>6, PushedLine
<1> QED BY <1>1, <1>7 DEF R

-----------------------------------------------------------------------------
(* The checks of the tables                                                *)

\* Every finding of a list has v at a place of its subject.
About(s, n, v) == \A k \in DOMAIN s : s[k].subject[n] = v

\* Findings about things of different names after each other.
LEMMA AboutBoth ==
  ASSUME NEW s, List(s), NEW t, List(t), NEW n, NEW v, About(s, n, v), About(t, n, v)
  PROVE  About(s \o t, n, v)
<1> DEFINE u == s \o t
<1>1. Len(s) \in Nat /\ DOMAIN s = 1 .. Len(s) /\ Len(t) \in Nat /\ DOMAIN t = 1 .. Len(t)
  BY ListPlaces
<1>2. /\ List(u) /\ Len(u) = Len(s) + Len(t)
      /\ \A i \in DOMAIN u : u[i] = IF i <= Len(s) THEN s[i] ELSE t[i - Len(s)]
  BY ListsJoin
<1>3. DOMAIN u = 1 .. Len(s) + Len(t)
  BY <1>2, ListPlaces
<1> HIDE DEF u
<1>4. ASSUME NEW i \in DOMAIN u PROVE u[i].subject[n] = v
  <2>1. CASE i <= Len(s)
    <3>1. i \in DOMAIN s /\ u[i] = s[i]
      BY <1>1, <1>2, <1>3, <2>1
    <3> QED BY <3>1 DEF About
  <2>2. CASE ~(i <= Len(s))
    <3>1. i - Len(s) \in DOMAIN t /\ u[i] = t[i - Len(s)]
      BY <1>1, <1>2, <1>3, <2>2
    <3> QED BY <3>1 DEF About
  <2> QED BY <2>1, <2>2
<1> QED BY <1>4 DEF About, u

\* One finding or none, as a list.
LEMMA MaybePushed ==
  ASSUME NEW s, NEW x, NEW R, NEW D, Maybe(s, x, R)
  PROVE  Pushed(s, R, D) /\ \A n : About(s, n, x[n])
BY MaybeIs DEF Pushed, Single, About

\* No role is required twice.
LEMMA RolesDiffer ==
  /\ List(RequiredRoles) /\ DOMAIN RequiredRoles = 1 .. 5
  /\ \A j, k \in DOMAIN RequiredRoles : RequiredRoles[j] = RequiredRoles[k] => j = k
<1>1. DOMAIN RequiredRoles = 1 .. 5 /\ RequiredRoles = [i \in DOMAIN RequiredRoles |-> RequiredRoles[i]]
  BY DEF RequiredRoles
<1>2. List(RequiredRoles)
  BY <1>1, ListIs
<1>3. \A j, k \in 1 .. 5 : RequiredRoles[j] = RequiredRoles[k] => j = k
  BY DEF RequiredRoles
<1> QED BY <1>1, <1>2, <1>3

\* The findings about names of one table, none twice.
LEMMA PushedNames ==
  ASSUME NEW names, List(names), \A j, k \in DOMAIN names : names[j] = names[k] => j = k,
         NEW s, List(s), DOMAIN s = DOMAIN names, NEW i, NEW what, NEW R, NEW D,
         \A j \in DOMAIN s : Maybe(s[j], <<"table", i, what, names[j]>>, R)
  PROVE  Pushed(FlattenSeq(s), R, D) /\ About(FlattenSeq(s), 2, i)
<1> DEFINE x == [j \in DOMAIN s |-> <<"table", i, what, names[j]>>]
<1>1. \A j \in DOMAIN s : Maybe(s[j], x[j], R) /\ x[j][2] = i
  OBVIOUS
<1>2. \A j, k \in DOMAIN s : x[j] = x[k] => j = k
  OBVIOUS
<1> HIDE DEF x
<1>3. /\ Pushed(FlattenSeq(s), R, D)
      /\ \A k \in DOMAIN FlattenSeq(s) : \E j \in DOMAIN s : \E m \in DOMAIN s[j] :
           FlattenSeq(s)[k] = s[j][m] /\ FlattenSeq(s)[k].subject = x[j]
  BY <1>1, <1>2, PushedLine
<1> QED BY <1>1, <1>3 DEF About

\* check_structure finds each table, column and role once.
LEMMA StructureIsPushed ==
  ASSUME NEW fd, List(fd.tables), \A i \in DOMAIN fd.tables : Numbers(DOMAIN fd.tables[i].columns),
         NEW settings, NEW D
  PROVE  Pushed(CheckStructure(fd, settings),
                {"low_confidence_structure"} \cup {"unmapped_column"} \cup {"missing_column"}, D)
<1> DEFINE tables == fd.tables
           R == {"low_confidence_structure"} \cup {"unmapped_column"} \cup {"missing_column"}
           fa(i) == Finding(<<"boq", "low_confidence_structure">>, tables[i].sheet, <<"table", i>>,
                            TableLocation(tables[i], None))
           fb(i, c) == Finding(<<"boq", "unmapped_column">>, tables[i].sheet,
                               <<"table", i, "column", c>>, TableLocation(tables[i], c))
           fc(i, role) == Finding(<<"boq", "missing_column">>, tables[i].sheet, <<"table", i, "role", role>>,
                                  TableLocation(tables[i], None))
           unmapped(i) == Ascending({c \in DOMAIN tables[i].columns : tables[i].columns[c].role = "unknown"})
           a(i) == If(tables[i].confidence < 60 * settings.lowConfidence, fa(i))
           b(i) == [j \in DOMAIN unmapped(i) |-> <<fb(i, unmapped(i)[j])>>]
           missing(i, role) == If(ColumnOf(tables[i], role) = None, fc(i, role))
           c(i) == [j \in DOMAIN RequiredRoles |-> missing(i, RequiredRoles[j])]
           part(i) == a(i) \o FlattenSeq(b(i)) \o FlattenSeq(c(i))
           none == Finding(<<"boq", "low_confidence_structure">>, "", <<"workbook">>, WorkbookLocation)
           s == [i \in DOMAIN tables |-> part(i)]
<1>1. CheckStructure(fd, settings) = IF tables = <<>> THEN <<none>> ELSE FlattenSeq(s)
  BY Zenon DEF CheckStructure, Each
<1>2. Pushed(<<none>>, R, D)
  <2>0. <<"boq", "low_confidence_structure">>[2] \in R
    OBVIOUS
  <2>1. none.subject = <<"workbook">> /\ none.rule = <<"boq", "low_confidence_structure">>
    BY DEF Finding
  <2> HIDE DEF none, R
  <2>2. Maybe(<<none>>, <<"workbook">>, R)
    BY <2>1, <2>0, NoneOrOne
  <2> QED BY <2>2, MaybePushed
<1>3. ASSUME NEW i \in DOMAIN tables PROVE Pushed(part(i), R, D) /\ About(part(i), 2, i)
  <2>1. Maybe(a(i), <<"table", i>>, {"low_confidence_structure"})
    <3>1. fa(i).subject = <<"table", i>> /\ fa(i).rule[2] \in {"low_confidence_structure"}
      BY FindingIs
    <3> HIDE DEF fa
    <3> QED BY <3>1, NoneOrOne
  <2>2. \A x : Maybe(<<fb(i, x)>>, <<"table", i, "column", x>>, {"unmapped_column"})
    <3> SUFFICES ASSUME NEW x PROVE Maybe(<<fb(i, x)>>, <<"table", i, "column", x>>, {"unmapped_column"})
      OBVIOUS
    <3>1. fb(i, x).subject = <<"table", i, "column", x>> /\ fb(i, x).rule[2] \in {"unmapped_column"}
      BY FindingIs
    <3> HIDE DEF fb
    <3> QED BY <3>1, NoneOrOne
  <2>3. \A x : Maybe(missing(i, x), <<"table", i, "role", x>>, {"missing_column"})
    <3> SUFFICES ASSUME NEW x PROVE Maybe(missing(i, x), <<"table", i, "role", x>>, {"missing_column"})
      OBVIOUS
    <3>1. fc(i, x).subject = <<"table", i, "role", x>> /\ fc(i, x).rule[2] \in {"missing_column"}
      BY FindingIs
    <3> HIDE DEF fc
    <3> QED BY <3>1, NoneOrOne
  <2>4. List(unmapped(i)) /\ \A j, k \in DOMAIN unmapped(i) : unmapped(i)[j] = unmapped(i)[k] => j = k
    <3> DEFINE U == {x \in DOMAIN tables[i].columns : tables[i].columns[x].role = "unknown"}
    <3>1. U \in SUBSET Nat /\ IsFiniteSet(U)
      <4>1. U \in SUBSET DOMAIN tables[i].columns /\ Numbers(DOMAIN tables[i].columns)
        OBVIOUS
      <4> HIDE DEF U
      <4> QED BY <4>1, FS_Subset DEF Numbers
    <3> HIDE DEF U
    <3>2. List(Ascending(U)) /\ \A j, k \in DOMAIN Ascending(U) : Ascending(U)[j] = Ascending(U)[k] => j = k
      BY <3>1, AscendingIs
    <3> QED BY <3>2 DEF U
  <2> HIDE DEF fb, missing, unmapped
  <2>5. /\ List(b(i)) /\ DOMAIN b(i) = DOMAIN unmapped(i)
        /\ \A j \in DOMAIN b(i) : Maybe(b(i)[j], <<"table", i, "column", unmapped(i)[j]>>, {"unmapped_column"})
    <3>1. \A j \in DOMAIN b(i) : b(i)[j] = <<fb(i, unmapped(i)[j])>>
      OBVIOUS
    <3>2. DOMAIN b(i) = DOMAIN unmapped(i) /\ b(i) = [j \in DOMAIN b(i) |-> b(i)[j]]
      OBVIOUS
    <3> HIDE DEF b
    <3>3. List(b(i))
      BY <2>4, <3>2, ListMapped
    <3>4. \A j : Maybe(<<fb(i, unmapped(i)[j])>>, <<"table", i, "column", unmapped(i)[j]>>, {"unmapped_column"})
      BY <2>2
    <3>5. \A j \in DOMAIN b(i) : Maybe(b(i)[j], <<"table", i, "column", unmapped(i)[j]>>, {"unmapped_column"})
      BY ONLY <3>1, <3>4, Zenon
    <3> QED BY <3>2, <3>3, <3>5
  <2>6. /\ List(c(i)) /\ DOMAIN c(i) = DOMAIN RequiredRoles
        /\ \A j \in DOMAIN c(i) : Maybe(c(i)[j], <<"table", i, "role", RequiredRoles[j]>>, {"missing_column"})
    <3>1. \A j \in DOMAIN c(i) : c(i)[j] = missing(i, RequiredRoles[j])
      OBVIOUS
    <3>2. DOMAIN c(i) = DOMAIN RequiredRoles /\ c(i) = [j \in DOMAIN c(i) |-> c(i)[j]]
      OBVIOUS
    <3> HIDE DEF c
    <3>3. List(c(i))
      BY <3>2, RolesDiffer, ListMapped
    <3>4. \A j : Maybe(missing(i, RequiredRoles[j]), <<"table", i, "role", RequiredRoles[j]>>, {"missing_column"})
      BY <2>3
    <3>5. \A j \in DOMAIN c(i) : Maybe(c(i)[j], <<"table", i, "role", RequiredRoles[j]>>, {"missing_column"})
      BY ONLY <3>1, <3>4, Zenon
    <3> QED BY <3>2, <3>3, <3>5
  <2> HIDE DEF a, b, c
  <2>7. Pushed(a(i), {"low_confidence_structure"}, D) /\ About(a(i), 2, i)
    <3>1. <<"table", i>>[2] = i
      OBVIOUS
    <3> QED BY <2>1, <3>1, MaybePushed
  <2>8. Pushed(FlattenSeq(b(i)), {"unmapped_column"}, D) /\ About(FlattenSeq(b(i)), 2, i)
    BY <2>4, <2>5, PushedNames
  <2>9. Pushed(FlattenSeq(c(i)), {"missing_column"}, D) /\ About(FlattenSeq(c(i)), 2, i)
    BY <2>6, RolesDiffer, PushedNames
  <2>10. PICK u, v, w : u = a(i) /\ v = FlattenSeq(b(i)) /\ w = FlattenSeq(c(i))
    OBVIOUS
  <2>11. /\ Pushed(u, {"low_confidence_structure"}, D) /\ Pushed(v, {"unmapped_column"}, D)
         /\ Pushed(w, {"missing_column"}, D)
    BY <2>7, <2>8, <2>9, <2>10
  <2>12. Pushed(u \o v, {"low_confidence_structure"} \cup {"unmapped_column"}, D)
    BY <2>11, PushedBoth
  <2>13. Pushed(u \o v \o w, R, D)
    BY <2>11, <2>12, PushedBoth
  <2>14. List(u) /\ List(v) /\ List(w) /\ List(u \o v)
    BY <2>11, <2>12 DEF Pushed
  <2>15. About(u \o v \o w, 2, i)
    BY <2>7, <2>8, <2>9, <2>10, <2>14, AboutBoth
  <2>16. part(i) = u \o v \o w
    BY <2>10
  <2> QED BY <2>13, <2>15, <2>16
<1> HIDE DEF part, R
<1>4. DOMAIN s = DOMAIN tables /\ s = [i \in DOMAIN s |-> s[i]] /\ \A i \in DOMAIN s : s[i] = part(i)
  OBVIOUS
<1> HIDE DEF s
<1>5. List(s)
  BY <1>4, ListMapped
<1>6. \A i \in DOMAIN s : Pushed(s[i], R, D) /\ About(s[i], 2, i)
  BY <1>3, <1>4
<1>7. \A i, j \in DOMAIN s : \A k \in DOMAIN s[i], l \in DOMAIN s[j] :
        FindingId(s[i][k]) = FindingId(s[j][l]) => i = j
  <2>1. ASSUME NEW i \in DOMAIN s, NEW j \in DOMAIN s, NEW k \in DOMAIN s[i], NEW l \in DOMAIN s[j],
               FindingId(s[i][k]) = FindingId(s[j][l])
        PROVE  i = j
    <3>1. s[i][k].subject = s[j][l].subject
      BY <2>1 DEF FindingId
    <3>2. s[i][k].subject[2] = i /\ s[j][l].subject[2] = j
      BY <1>6 DEF About
    <3> QED BY <3>1, <3>2
  <2> QED BY <2>1
<1>8. Pushed(FlattenSeq(s), R, D)
  BY <1>5, <1>6, <1>7, PushedEach
<1> QED BY <1>1, <1>2, <1>8 DEF R

-----------------------------------------------------------------------------
(* Formulas and duplicates                                                 *)

\* No two sheets of a workbook have one name, no two cells of a sheet one place.
Addresses(workbook) ==
  /\ \A i, j \in DOMAIN workbook : workbook[i].name = workbook[j].name => i = j
  /\ \A i \in DOMAIN workbook : \A j, k \in DOMAIN workbook[i].cells :
       /\ workbook[i].cells[j].row = workbook[i].cells[k].row
       /\ workbook[i].cells[j].col = workbook[i].cells[k].col
       => j = k

\* check_formulas finds each cell once when names and positions are addresses.
LEMMA FormulasArePushed ==
  ASSUME NEW workbook, List(workbook), \A i \in DOMAIN workbook : List(workbook[i].cells),
         NEW settings, NEW D, D => Addresses(workbook)
  PROVE  Pushed(CheckFormulas(workbook, settings),
                {"broken_formula", "panic", "formula_unverifiable", "formula_result_mismatch"}, D)
<1> DEFINE R == {"broken_formula", "panic", "formula_unverifiable", "formula_result_mismatch"}
           numeric(sheet) ==
             [p \in {<<c.row, c.col>> : c \in {d \in ToSet(sheet.cells) : d.v.k = "num"}} |->
                (CHOOSE c \in ToSet(sheet.cells) : <<c.row, c.col>> = p).v.n]
           at(sheet, c, rule) == Finding(<<"boq", rule>>, sheet.name, <<c.col, c.row>>, FormulaLocation(c))
           x(sheet, c) == Evaluate(numeric(sheet), c.f, <<c.row, c.col>>)
           part(sheet, c) ==
             IF c.f = None THEN <<>>
             ELSE IF c.v.k # "num" THEN <<at(sheet, c, "broken_formula")>>
             ELSE IF x(sheet, c).k = "panic" THEN <<at(sheet, c, "panic")>>
             ELSE IF ~IsValue(x(sheet, c)) THEN <<at(sheet, c, "formula_unverifiable")>>
             ELSE If(Mismatch(1000 * x(sheet, c).n, x(sheet, c).d, c.v.n, settings),
                     at(sheet, c, "formula_result_mismatch"))
           g == [i \in DOMAIN workbook |->
                   [j \in DOMAIN workbook[i].cells |-> part(workbook[i], workbook[i].cells[j])]]
           y == [i \in DOMAIN workbook |->
                   [j \in DOMAIN workbook[i].cells |-> <<workbook[i].cells[j].col, workbook[i].cells[j].row>>]]
           s == [i \in DOMAIN workbook |-> FlattenSeq(g[i])]
<1>1. CheckFormulas(workbook, settings) = FlattenSeq(s)
  BY Zenon DEF CheckFormulas, Each
<1>2. ASSUME NEW sheet, NEW c
      PROVE  /\ Maybe(part(sheet, c), <<c.col, c.row>>, R)
             /\ \A k \in DOMAIN part(sheet, c) : part(sheet, c)[k].sheet = sheet.name
  <2>1. ASSUME NEW rule \in R
        PROVE  /\ Maybe(<<at(sheet, c, rule)>>, <<c.col, c.row>>, R)
               /\ \A b : Maybe(If(b, at(sheet, c, rule)), <<c.col, c.row>>, R)
               /\ at(sheet, c, rule).sheet = sheet.name
    <3>1. /\ at(sheet, c, rule).subject = <<c.col, c.row>> /\ at(sheet, c, rule).rule = <<"boq", rule>>
          /\ at(sheet, c, rule).sheet = sheet.name
      BY FindingIs
    <3>2. at(sheet, c, rule).rule[2] \in R
      BY <3>1
    <3> HIDE DEF at, R
    <3> QED BY <3>1, <3>2, NoneOrOne
  <2>2. "broken_formula" \in R /\ "panic" \in R /\ "formula_unverifiable" \in R /\ "formula_result_mismatch" \in R
    OBVIOUS
  <2> HIDE DEF at, x, R
  <2>4. \/ part(sheet, c) = <<>>
        \/ \E rule \in R : part(sheet, c) = <<at(sheet, c, rule)>>
    BY <2>2 DEF If
  <2> HIDE DEF part
  <2>3. Maybe(part(sheet, c), <<c.col, c.row>>, R)
    BY <2>1, <2>4, NoneOrOne
  <2>5. ASSUME NEW rule \in R, part(sheet, c) = <<at(sheet, c, rule)>>, NEW k \in DOMAIN part(sheet, c)
        PROVE  part(sheet, c)[k].sheet = sheet.name
    <3>1. part(sheet, c)[k] = at(sheet, c, rule)
      BY <2>5
    <3> QED BY <2>1, <3>1
  <2>6. part(sheet, c) = <<>> => DOMAIN part(sheet, c) = {}
    BY ShortLists, ListPlaces
  <2> QED BY <2>3, <2>4, <2>5, <2>6
<1> HIDE DEF part, R
<1>3. ASSUME NEW i \in DOMAIN workbook
      PROVE  Pushed(s[i], R, D) /\ \A k \in DOMAIN s[i] : s[i][k].sheet = workbook[i].name
  <2> DEFINE h == g[i]
             z == y[i]
             held == workbook[i].cells
  <2>1. /\ DOMAIN h = DOMAIN held /\ h = [j \in DOMAIN h |-> h[j]]
        /\ \A j \in DOMAIN h : h[j] = part(workbook[i], held[j]) /\ z[j] = <<held[j].col, held[j].row>>
    OBVIOUS
  <2>2. List(held) /\ s[i] = FlattenSeq(h)
    OBVIOUS
  <2>3. D => \A j, k \in DOMAIN h : z[j] = z[k] => j = k
    <3>1. D => \A j, k \in DOMAIN held : held[j].row = held[k].row /\ held[j].col = held[k].col => j = k
      BY DEF Addresses
    <3> HIDE DEF h, z, held
    <3> QED BY <2>1, <3>1
  <2> HIDE DEF h, z, s
  <2>4. List(h)
    <3> HIDE DEF held
    <3> QED BY <2>1, <2>2, ListMapped
  <2>5. \A j \in DOMAIN h : Maybe(h[j], z[j], R) /\ \A m \in DOMAIN h[j] : h[j][m].sheet = workbook[i].name
    <3> HIDE DEF held
    <3>1. ASSUME NEW j \in DOMAIN h
          PROVE  Maybe(h[j], z[j], R) /\ \A m \in DOMAIN h[j] : h[j][m].sheet = workbook[i].name
      <4>1. PICK c : c = held[j]
        OBVIOUS
      <4>2. h[j] = part(workbook[i], c) /\ z[j] = <<c.col, c.row>>
        BY <2>1, <4>1
      <4> QED BY <1>2, <4>2
    <3> QED BY <3>1
  <2>6. /\ Pushed(FlattenSeq(h), R, D)
        /\ \A k \in DOMAIN FlattenSeq(h) : \E j \in DOMAIN h : \E m \in DOMAIN h[j] :
             FlattenSeq(h)[k] = h[j][m] /\ FlattenSeq(h)[k].subject = z[j]
    BY <2>3, <2>4, <2>5, PushedLine
  <2> QED BY <2>2, <2>5, <2>6
<1>4. List(s) /\ DOMAIN s = DOMAIN workbook
  BY ListMapped
<1> HIDE DEF s
<1>5. ASSUME D, NEW i \in DOMAIN s, NEW j \in DOMAIN s, NEW k \in DOMAIN s[i], NEW l \in DOMAIN s[j],
             FindingId(s[i][k]) = FindingId(s[j][l])
      PROVE  i = j
  <2>1. s[i][k].sheet = s[j][l].sheet
    BY <1>5 DEF FindingId
  <2>2. workbook[i].name = workbook[j].name
    BY <1>3, <1>4, <2>1
  <2> QED BY <1>4, <1>5, <2>2 DEF Addresses
<1>6. \A i \in DOMAIN s : Pushed(s[i], R, D)
  BY <1>3, <1>4
<1>7. Pushed(FlattenSeq(s), R, D)
  BY <1>4, <1>5, <1>6, PushedEach
<1> QED BY <1>1, <1>7, Zenon DEF R

\* check_exact_duplicates pairs each row with one original.
LEMMA ExactDuplicatesArePushed ==
  ASSUME NEW rows, List(rows), NEW D, D => Distinct(rows)
  PROVE  Pushed(CheckExactDuplicates(rows),
                {"exact_duplicate", "cross_sheet_duplicate"} \cup {"cross_sheet_inconsistency"}, D)
<1> DEFINE items == Described(rows)
           Q == {"exact_duplicate", "cross_sheet_duplicate"}
           R == Q \cup {"cross_sheet_inconsistency"}
           key(i) == <<DescriptionKey(items[i]), RowSignature(items[i])>>
           least(S) == CHOOSE i \in S : \A j \in S : i <= j
           finding(rule, i, j) == Finding(<<"boq", rule>>, items[j].sheet,
             <<RowId(items[i]), RowId(items[j])>>, SourceLocation(items[j], items[j].description))
           first(j) == least({k \in 1 .. j : key(k) = key(j)})
           named(j) == least({k \in 1 .. j : DescriptionKey(items[k]) = DescriptionKey(items[j])})
           a(j) == If(first(j) # j, finding(IF items[first(j)].sheet = items[j].sheet THEN "exact_duplicate"
                                            ELSE "cross_sheet_duplicate", first(j), j))
           b(j) == If(items[named(j)].sheet # items[j].sheet
                        /\ RowSignature(items[named(j)]) # RowSignature(items[j]),
                      finding("cross_sheet_inconsistency", named(j), j))
           s == [j \in DOMAIN items |-> a(j) \o b(j)]
<1>1. CheckExactDuplicates(rows) = FlattenSeq(s)
  <2> DEFINE id == [j \in DOMAIN items |-> j]
             t == [j \in DOMAIN id |-> a(id[j]) \o b(id[j])]
  <2>1. CheckExactDuplicates(rows) = FlattenSeq(t)
    BY DEF CheckExactDuplicates, Each
  <2> HIDE DEF items, a, b
  <2>2. t = s
    OBVIOUS
  <2> QED BY <2>1, <2>2
<1>2. List(items) /\ (D => Distinct(items))
  BY DescribedAre
<1> HIDE DEF items
<1>3. ASSUME NEW j \in DOMAIN items PROVE Pushed(a(j) \o b(j), R, D) /\ About(a(j) \o b(j), 2, RowId(items[j]))
  <2> DEFINE which == IF items[first(j)].sheet = items[j].sheet THEN "exact_duplicate" ELSE "cross_sheet_duplicate"
             i == first(j)
             d == named(j)
             x == <<RowId(items[i]), RowId(items[j])>>
             y == <<RowId(items[d]), RowId(items[j])>>
  <2>1. /\ finding(which, i, j).subject = x /\ finding(which, i, j).rule = <<"boq", which>>
        /\ finding("cross_sheet_inconsistency", d, j).subject = y
        /\ finding("cross_sheet_inconsistency", d, j).rule = <<"boq", "cross_sheet_inconsistency">>
    <3> HIDE DEF which, i, d
    <3> QED BY FindingIs
  <2>2. finding(which, i, j).rule[2] \in Q /\ finding("cross_sheet_inconsistency", d, j).rule[2] \in {"cross_sheet_inconsistency"}
    <3>1. which \in Q
      OBVIOUS
    <3> HIDE DEF which, i, d, Q, finding
    <3> QED BY <2>1, <3>1
  <2>3. x[2] = RowId(items[j]) /\ y[2] = RowId(items[j])
    OBVIOUS
  <2>4. \E c : a(j) = If(c, finding(which, i, j))
    OBVIOUS
  <2>5. \E c : b(j) = If(c, finding("cross_sheet_inconsistency", d, j))
    OBVIOUS
  <2> HIDE DEF which, i, d, Q, finding, x, y, a, b
  <2>6. Maybe(a(j), x, Q) /\ Maybe(b(j), y, {"cross_sheet_inconsistency"})
    BY <2>1, <2>2, <2>4, <2>5, NoneOrOne
  <2>7. /\ Pushed(a(j), Q, D) /\ About(a(j), 2, RowId(items[j]))
        /\ Pushed(b(j), {"cross_sheet_inconsistency"}, D) /\ About(b(j), 2, RowId(items[j]))
    BY <2>3, <2>6, MaybePushed
  <2>8. Q \cap {"cross_sheet_inconsistency"} = {}
    BY DEF Q
  <2>9. List(a(j)) /\ List(b(j))
    BY <2>7 DEF Pushed
  <2> QED BY <2>7, <2>8, <2>9, PushedBoth, AboutBoth
<1> HIDE DEF a, b, R
<1>4. DOMAIN s = DOMAIN items /\ s = [j \in DOMAIN s |-> s[j]] /\ \A j \in DOMAIN s : s[j] = a(j) \o b(j)
  OBVIOUS
<1> HIDE DEF s
<1>5. List(s)
  BY <1>2, <1>4, ListMapped
<1>6. \A j \in DOMAIN s : Pushed(s[j], R, D) /\ About(s[j], 2, RowId(items[j]))
  BY <1>3, <1>4
<1>7. ASSUME D, NEW i \in DOMAIN s, NEW j \in DOMAIN s, NEW k \in DOMAIN s[i], NEW l \in DOMAIN s[j],
             FindingId(s[i][k]) = FindingId(s[j][l])
      PROVE  i = j
  <2>1. s[i][k].subject = s[j][l].subject
    BY <1>7 DEF FindingId
  <2>2. s[i][k].subject[2] = RowId(items[i]) /\ s[j][l].subject[2] = RowId(items[j])
    BY <1>6 DEF About
  <2>3. RowId(items[i]) = RowId(items[j])
    BY <2>1, <2>2
  <2> QED BY <1>2, <1>4, <1>7, <2>3 DEF Distinct
<1>8. Pushed(FlattenSeq(s), R, D)
  BY <1>5, <1>6, <1>7, PushedEach
<1> QED BY <1>1, <1>8 DEF R

-----------------------------------------------------------------------------
(* Pairs of rows and sums                                                  *)

\* The pairs of places of a list, each once.
LEMMA PairsAre ==
  ASSUME NEW n \in Nat
  PROVE  LET pairs == Each([i \in 1 .. n |-> i], LAMBDA i : [k \in 1 .. n - i |-> <<i, i + k>>])
         IN /\ List(pairs)
            /\ \A k \in DOMAIN pairs : pairs[k][1] \in 1 .. n /\ pairs[k][2] \in 1 .. n
            /\ \A k, l \in DOMAIN pairs : pairs[k][1] = pairs[l][1] /\ pairs[k][2] = pairs[l][2] => k = l
<1> DEFINE s == [i \in 1 .. n |-> [k \in 1 .. n - i |-> <<i, i + k>>]]
           id == [i \in 1 .. n |-> i]
           pairs == Each(id, LAMBDA i : [k \in 1 .. n - i |-> <<i, i + k>>])
<1>1. pairs = FlattenSeq(s)
  <2> DEFINE t == [i \in DOMAIN id |-> [k \in 1 .. n - id[i] |-> <<id[i], id[i] + k>>]]
  <2>1. pairs = FlattenSeq(t)
    BY DEF Each
  <2>2. t = s
    OBVIOUS
  <2> HIDE DEF pairs, t, s
  <2> QED BY <2>1, <2>2
<1>2. List(s) /\ DOMAIN s = 1 .. n
  <2>1. DOMAIN s = 1 .. n /\ s = [i \in DOMAIN s |-> s[i]]
    OBVIOUS
  <2> HIDE DEF s
  <2> QED BY <2>1, ListIs
<1>3. ASSUME NEW i \in DOMAIN s
      PROVE  /\ List(s[i]) /\ DOMAIN s[i] = 1 .. n - i
             /\ \A k \in DOMAIN s[i] : s[i][k][1] = i /\ s[i][k][2] = i + k
  <2>1. DOMAIN s[i] = 1 .. n - i /\ s[i] = [k \in DOMAIN s[i] |-> s[i][k]]
        /\ \A k \in DOMAIN s[i] : s[i][k] = <<i, i + k>>
    OBVIOUS
  <2>2. n - i \in Nat
    BY <1>2
  <2> HIDE DEF s
  <2>3. List(s[i])
    BY <2>1, <2>2, ListIs
  <2> QED BY <2>1, <2>3
<1> HIDE DEF s
<1>4. List(FlattenSeq(s)) /\ \E p, q : Nested(p, q, s, FlattenSeq(s))
  BY <1>2, <1>3, FlattenIs
<1>5. PICK p, q : Nested(p, q, s, FlattenSeq(s))
  BY <1>4
<1> HIDE DEF pairs
<1>6. ASSUME NEW k \in DOMAIN pairs
      PROVE  /\ p[k] \in 1 .. n /\ q[k] \in 1 .. n - p[k]
             /\ pairs[k][1] = p[k] /\ pairs[k][2] = p[k] + q[k]
  BY <1>1, <1>2, <1>3, <1>5 DEF Nested
<1>7. \A k \in DOMAIN pairs : pairs[k][1] \in 1 .. n /\ pairs[k][2] \in 1 .. n
  BY <1>6
<1>8. ASSUME NEW k \in DOMAIN pairs, NEW l \in DOMAIN pairs, pairs[k][1] = pairs[l][1], pairs[k][2] = pairs[l][2]
      PROVE  k = l
  <2>1. p[k] = p[l] /\ q[k] = q[l]
    BY <1>6, <1>8
  <2> QED BY <1>1, <1>5, <1>8, <2>1 DEF Nested
<1> QED BY <1>1, <1>4, <1>7, <1>8 DEF pairs

\* check_similar_rows looks at each pair of rows once.
LEMMA SimilarRowsArePushed ==
  ASSUME NEW rows, List(rows), NEW settings, NEW D, D => Distinct(rows)
  PROVE  Pushed(CheckSimilarRows(rows, settings), {"inconsistent_unit", "fuzzy_duplicate"}, D)
<1> DEFINE R == {"inconsistent_unit", "fuzzy_duplicate"}
           items == Described(rows)
           n == Len(items)
           pairs == Each([i \in 1 .. n |-> i], LAMBDA i : [k \in 1 .. n - i |-> <<i, i + k>>])
           compared == SubSeq(pairs, 1, Capped(Len(pairs), MaxComparisons))
           which(left, right) == IF left.unit # None /\ right.unit # None /\ left.unit.value # right.unit.value
                                 THEN "inconsistent_unit" ELSE "fuzzy_duplicate"
           f(left, right) == Finding(<<"boq", which(left, right)>>,
                   right.sheet, <<RowId(left), RowId(right)>>, SourceLocation(right, right.description))
           part(left, right) ==
             If(/\ DescriptionKey(left) # DescriptionKey(right)
                /\ SimilarAtLeast(left.description.value, right.description.value, settings.similarity),
                f(left, right))
           s == [k \in DOMAIN compared |-> part(items[compared[k][1]], items[compared[k][2]])]
           x == [k \in DOMAIN compared |-> <<RowId(items[compared[k][1]]), RowId(items[compared[k][2]])>>]
<1>1. CheckSimilarRows(rows, settings) = FlattenSeq(s)
  <2> DEFINE t(c) == FlattenSeq([k \in DOMAIN c |-> part(items[c[k][1]], items[c[k][2]])])
  <2>1. CheckSimilarRows(rows, settings) = t(SubSeq(Each([i \in 1 .. n |-> i], LAMBDA i : [k \in 1 .. n - i |-> <<i, i + k>>]), 1,
                                              Capped(Len(Each([i \in 1 .. n |-> i], LAMBDA i : [k \in 1 .. n - i |-> <<i, i + k>>])), MaxComparisons)))
    BY DEF CheckSimilarRows, Each
  <2> QED BY <2>1
<1>2. List(items) /\ (D => Distinct(items))
  BY DescribedAre
<1> HIDE DEF items
<1>3. n \in Nat /\ DOMAIN items = 1 .. n
  BY <1>2, ListPlaces
<1> HIDE DEF n
<1>4. /\ List(pairs)
      /\ \A k \in DOMAIN pairs : pairs[k][1] \in 1 .. n /\ pairs[k][2] \in 1 .. n
      /\ \A k, l \in DOMAIN pairs : pairs[k][1] = pairs[l][1] /\ pairs[k][2] = pairs[l][2] => k = l
  BY <1>3, PairsAre
<1> HIDE DEF pairs
<1>5. /\ List(compared) /\ DOMAIN compared \subseteq DOMAIN pairs
      /\ \A k \in DOMAIN compared : compared[k] = pairs[k]
  <2> DEFINE m == Capped(Len(pairs), MaxComparisons)
  <2>1. Len(pairs) \in Nat /\ DOMAIN pairs = 1 .. Len(pairs)
    BY <1>4, ListPlaces
  <2>2. m \in Nat /\ m <= Len(pairs)
    BY <2>1, MaxComparisonsAssumption DEF Capped
  <2> HIDE DEF m
  <2>3. pairs \in Seq(Members(pairs))
    BY <1>4 DEF List
  <2>4. SubSeq(pairs, 1, m) \in Seq(Members(pairs)) /\ Len(SubSeq(pairs, 1, m)) = m
        /\ \A k \in 1 .. m : SubSeq(pairs, 1, m)[k] = pairs[k]
    BY <2>1, <2>2, <2>3, SubSeqProperties
  <2>5. List(compared) /\ DOMAIN compared = 1 .. m
    BY <2>4, SequenceIsList, ListPlaces DEF m
  <2> QED BY <2>1, <2>2, <2>4, <2>5 DEF m
<1> HIDE DEF compared
<1>6. ASSUME NEW left, NEW right PROVE Maybe(part(left, right), <<RowId(left), RowId(right)>>, R)
  <2>1. f(left, right).subject = <<RowId(left), RowId(right)>> /\ f(left, right).rule = <<"boq", which(left, right)>>
    BY FindingIs
  <2>2. f(left, right).rule[2] \in R
    BY <2>1
  <2> HIDE DEF f, R
  <2> QED BY <2>1, <2>2, NoneOrOne
<1> HIDE DEF part, R
<1>7. List(s) /\ DOMAIN s = DOMAIN compared
  BY <1>5, ListMapped
<1>8. \A k \in DOMAIN s : Maybe(s[k], x[k], R)
  BY <1>6
<1>9. ASSUME D, NEW k \in DOMAIN s, NEW l \in DOMAIN s, x[k] = x[l] PROVE k = l
  <2>1. RowId(items[compared[k][1]]) = RowId(items[compared[l][1]]) /\ RowId(items[compared[k][2]]) = RowId(items[compared[l][2]])
    BY <1>9
  <2>2. compared[k] = pairs[k] /\ compared[l] = pairs[l] /\ k \in DOMAIN pairs /\ l \in DOMAIN pairs
    BY <1>5, <1>7
  <2> HIDE DEF x, s
  <2>3. pairs[k][1] = pairs[l][1] /\ pairs[k][2] = pairs[l][2]
    BY <1>2, <1>3, <1>4, <1>9, <2>1, <2>2 DEF Distinct
  <2> QED BY <1>4, <2>2, <2>3
<1> HIDE DEF s, x
<1>10. Pushed(FlattenSeq(s), R, D)
  BY <1>7, <1>8, <1>9, PushedLine
<1> QED BY <1>1, <1>10 DEF R

\* check_subtotals looks at each row once.
LEMMA SubtotalsArePushed ==
  ASSUME NEW fd, List(fd.tables), List(fd.rows), NEW settings, NEW D, D => Distinct(fd.rows)
  PROVE  Pushed(CheckSubtotals(fd, settings), {"subtotal_mismatch", "total_mismatch"}, D)
<1> DEFINE R == {"subtotal_mismatch", "total_mismatch"}
           wrong(sum, count, row) == /\ row.amount # None /\ count > 0
                                     /\ Mismatch(1000 * sum, 1, row.amount.value, settings)
           f(rule, row) == Finding(<<"boq", rule>>, row.sheet, <<RowId(row)>>, SourceLocation(row, row.amount))
           part(row, before) ==
             CASE Closes(row) -> If(wrong(before.running, before.items, row), f("subtotal_mismatch", row))
               [] row.class = "total" -> If(wrong(before.total, before.all, row), f("total_mismatch", row))
               [] OTHER -> <<>>
           ofRows(rows) == Each([k \in DOMAIN rows |-> k], LAMBDA k : part(rows[k], Sums(rows)[k - 1]))
           T(i) == {j \in DOMAIN fd.rows : fd.rows[j].table = i}
           rowsOf(i) == Picked(fd.rows, T(i))
           s == [i \in DOMAIN fd.tables |-> ofRows(rowsOf(i))]
<1>1. CheckSubtotals(fd, settings) = FlattenSeq(s)
  <2> DEFINE id == [i \in DOMAIN fd.tables |-> i]
             t == [i \in DOMAIN id |-> ofRows(rowsOf(id[i]))]
  <2>1. CheckSubtotals(fd, settings) = FlattenSeq(t)
    BY DEF CheckSubtotals, Each, Select, Picked
  <2> HIDE DEF rowsOf, ofRows
  <2>2. t = s
    OBVIOUS
  <2> QED BY <2>1, <2>2
<1>2. ASSUME NEW row, NEW before PROVE Maybe(part(row, before), <<RowId(row)>>, R)
  <2>1. ASSUME NEW rule \in R PROVE \A c : Maybe(If(c, f(rule, row)), <<RowId(row)>>, R)
    <3>1. f(rule, row).subject = <<RowId(row)>> /\ f(rule, row).rule = <<"boq", rule>>
      BY FindingIs
    <3>2. f(rule, row).rule[2] \in R
      BY <3>1
    <3> HIDE DEF f, R
    <3> QED BY <3>1, <3>2, NoneOrOne
  <2>2. "subtotal_mismatch" \in R /\ "total_mismatch" \in R
    OBVIOUS
  <2> HIDE DEF f, R, wrong
  <2> QED BY <2>1, <2>2, NoneOrOne
<1> HIDE DEF part, R
<1>3. ASSUME NEW i \in DOMAIN fd.tables
      PROVE  /\ Pushed(s[i], R, D)
             /\ \A k \in DOMAIN s[i] : \E j \in DOMAIN fd.rows :
                  fd.rows[j].table = i /\ s[i][k].subject = <<RowId(fd.rows[j])>>
  <2> DEFINE rows == rowsOf(i)
             h == [k \in DOMAIN rows |-> part(rows[k], Sums(rows)[k - 1])]
             x == [k \in DOMAIN rows |-> <<RowId(rows[k])>>]
  <2>1. s[i] = FlattenSeq(h)
    <3> HIDE DEF rowsOf
    <3>1. s[i] = ofRows(rows)
      OBVIOUS
    <3> HIDE DEF rows, s
    <3> DEFINE id == [k \in DOMAIN rows |-> k]
               t == [k \in DOMAIN id |-> part(rows[id[k]], Sums(rows)[id[k] - 1])]
    <3>2. ofRows(rows) = FlattenSeq(t)
      BY DEF Each
    <3>3. t = h
      OBVIOUS
    <3> QED BY <3>1, <3>2, <3>3
  <2>2. /\ List(rows) /\ (D => Distinct(rows))
        /\ \A k \in DOMAIN rows : \E j \in T(i) : rows[k] = fd.rows[j]
    <3>1. T(i) \in SUBSET DOMAIN fd.rows
      OBVIOUS
    <3> HIDE DEF T
    <3> QED BY <3>1, PickedRows
  <2> HIDE DEF rows, rowsOf, s
  <2>3. List(h) /\ DOMAIN h = DOMAIN rows
    BY <2>2, ListMapped
  <2>4. \A k \in DOMAIN h : Maybe(h[k], x[k], R)
    BY <1>2
  <2>5. ASSUME D, NEW k \in DOMAIN h, NEW l \in DOMAIN h, x[k] = x[l] PROVE k = l
    <3>1. RowId(rows[k]) = RowId(rows[l])
      BY <2>5
    <3> QED BY <2>2, <2>3, <2>5, <3>1 DEF Distinct
  <2>6. \A k \in DOMAIN h : \E j \in DOMAIN fd.rows : fd.rows[j].table = i /\ x[k] = <<RowId(fd.rows[j])>>
    BY <2>2
  <2> HIDE DEF h, x
  <2>7. /\ Pushed(FlattenSeq(h), R, D)
        /\ \A k \in DOMAIN FlattenSeq(h) : \E j \in DOMAIN h : \E m \in DOMAIN h[j] :
             FlattenSeq(h)[k] = h[j][m] /\ FlattenSeq(h)[k].subject = x[j]
    BY <2>3, <2>4, <2>5, PushedLine
  <2> QED BY <2>1, <2>6, <2>7
<1>4. List(s) /\ DOMAIN s = DOMAIN fd.tables
  <2> HIDE DEF rowsOf, ofRows
  <2> QED BY ListMapped
<1> HIDE DEF s
<1>5. ASSUME D, NEW i \in DOMAIN s, NEW j \in DOMAIN s, NEW k \in DOMAIN s[i], NEW l \in DOMAIN s[j],
             FindingId(s[i][k]) = FindingId(s[j][l])
      PROVE  i = j
  <2>1. s[i][k].subject = s[j][l].subject
    BY <1>5 DEF FindingId
  <2>2. PICK a \in DOMAIN fd.rows : fd.rows[a].table = i /\ s[i][k].subject = <<RowId(fd.rows[a])>>
    BY <1>3, <1>4
  <2>3. PICK b \in DOMAIN fd.rows : fd.rows[b].table = j /\ s[j][l].subject = <<RowId(fd.rows[b])>>
    BY <1>3, <1>4
  <2>4. RowId(fd.rows[a]) = RowId(fd.rows[b])
    <3>1. PICK u, v : u = RowId(fd.rows[a]) /\ v = RowId(fd.rows[b])
      OBVIOUS
    <3>2. <<u>> = <<v>>
      BY ONLY <2>1, <2>2, <2>3, <3>1
    <3>3. u = v
      BY ONLY <3>2
    <3> QED BY <3>1, <3>3
  <2> QED BY <1>5, <2>2, <2>3, <2>4 DEF Distinct
<1>6. \A i \in DOMAIN s : Pushed(s[i], R, D)
  BY <1>3, <1>4
<1>7. Pushed(FlattenSeq(s), R, D)
  BY <1>4, <1>5, <1>6, PushedEach
<1> QED BY <1>1, <1>7 DEF R

-----------------------------------------------------------------------------
(* Groups of amounts                                                       *)

\* g holds items in lists that are not empty, no item twice: the element r of
\* list k is the item at place w[k][r], and the items of two lists differ in
\* their keys.
Grouped(w, g, items, keys) ==
  /\ List(g)
  /\ \A k \in DOMAIN g : List(g[k]) /\ 1 \in DOMAIN g[k]
  /\ \A k \in DOMAIN g : \A r \in DOMAIN g[k] : w[k][r] \in DOMAIN items /\ g[k][r] = items[w[k][r]]
  /\ \A k, l \in DOMAIN g : \A r \in DOMAIN g[k], t \in DOMAIN g[l] :
       keys[w[k][r]] = keys[w[l][t]] => k = l
  /\ \A k \in DOMAIN g : \A r, t \in DOMAIN g[k] : w[k][r] = w[k][t] => r = t

\* Every item is in a group, and the items of one agree in their keys.
Whole(w, g, items, keys) ==
  /\ \A i \in DOMAIN items : \E k \in DOMAIN g : \E r \in DOMAIN g[k] : w[k][r] = i
  /\ \A k \in DOMAIN g : \A r, t \in DOMAIN g[k] : keys[w[k][r]] = keys[w[k][t]]

\* So are the groups of a list of items.
LEMMA GroupsHold ==
  ASSUME NEW items, List(items), NEW keys
  PROVE  \E w : /\ Grouped(w, GroupsBy(items, keys), items, keys)
               /\ Whole(w, GroupsBy(items, keys), items, keys)
<1> DEFINE F == {i \in DOMAIN items : \A j \in 1 .. i - 1 : keys[j] # keys[i]}
           S(i) == {j \in DOMAIN items : keys[j] = keys[i]}
           first == Ascending(F)
           of(i) == Ascending(S(i))
           g == [k \in DOMAIN first |-> [r \in DOMAIN of(first[k]) |-> items[of(first[k])[r]]]]
           w == [k \in DOMAIN first |-> of(first[k])]
<1>1. GroupsBy(items, keys) = g
  BY DEF GroupsBy
<1>2. Len(items) \in Nat /\ DOMAIN items = 1 .. Len(items) /\ IsFiniteSet(DOMAIN items)
  BY ListPlaces
<1>3. /\ List(first)
      /\ \A k \in DOMAIN first : first[k] \in F
      /\ \A k, l \in DOMAIN first : first[k] = first[l] => k = l
      /\ \A i \in F : \E k \in DOMAIN first : first[k] = i
  <2>1. F \in SUBSET DOMAIN items
    OBVIOUS
  <2> HIDE DEF F
  <2>2. F \in SUBSET Nat /\ IsFiniteSet(F)
    BY <1>2, <2>1, FS_Subset
  <2> QED BY <2>2, AscendingIs
<1>4. ASSUME NEW i
      PROVE  /\ List(of(i)) /\ \A r \in DOMAIN of(i) : of(i)[r] \in S(i)
             /\ \A r, t \in DOMAIN of(i) : of(i)[r] = of(i)[t] => r = t
             /\ i \in S(i) => 1 \in DOMAIN of(i)
             /\ \A n \in S(i) : \E r \in DOMAIN of(i) : of(i)[r] = n
  <2>1. S(i) \in SUBSET DOMAIN items
    OBVIOUS
  <2> HIDE DEF S
  <2>2. S(i) \in SUBSET Nat /\ IsFiniteSet(S(i))
    BY <1>2, <2>1, FS_Subset
  <2>3. /\ List(of(i)) /\ \A r \in DOMAIN of(i) : of(i)[r] \in S(i)
        /\ \A r, t \in DOMAIN of(i) : of(i)[r] = of(i)[t] => r = t
        /\ \A n \in S(i) : \E r \in DOMAIN of(i) : of(i)[r] = n
    BY <2>2, AscendingIs
  <2> HIDE DEF of
  <2>4. Len(of(i)) \in Nat /\ DOMAIN of(i) = 1 .. Len(of(i))
    BY <2>3, ListPlaces
  <2> QED BY <2>3, <2>4
<1>5. \A i \in F : i \in S(i) /\ i \in DOMAIN items
  OBVIOUS
<1>6. ASSUME NEW i \in F, NEW j \in F, keys[i] = keys[j] PROVE i = j
  <2>1. i \in Nat /\ j \in Nat /\ i >= 1 /\ j >= 1
    BY <1>2
  <2>2. ~(i < j) /\ ~(j < i)
    BY <1>6, <2>1
  <2> QED BY <2>1, <2>2
<1>6a. \A i \in DOMAIN items : \E j \in F : i \in S(j)
  <2>1. ASSUME NEW i \in DOMAIN items PROVE \E j \in F : i \in S(j)
    <3>1. S(i) \subseteq Nat /\ S(i) # {}
      BY <1>2
    <3>2. PICK j \in S(i) : \A l \in S(i) : j <= l
      <4> HIDE DEF S
      <4> QED BY <3>1, LeastElement
    <3>3. j \in DOMAIN items /\ keys[j] = keys[i]
      OBVIOUS
    <3>4. ASSUME NEW l \in 1 .. j - 1, keys[l] = keys[j] PROVE FALSE
      <4>1. l \in DOMAIN items /\ l < j
        BY <1>2, <3>3
      <4>2. l \in S(i)
        BY <3>3, <3>4, <4>1
      <4> QED BY <1>2, <3>2, <3>3, <4>1, <4>2
    <3>5. j \in F
      BY <3>3, <3>4
    <3> QED BY <3>3, <3>5
  <2> QED BY <2>1
<1>7. \A i : \A j \in S(i) : j \in DOMAIN items /\ keys[j] = keys[i]
  OBVIOUS
<1> HIDE DEF F, S, first, of
<1>8. /\ DOMAIN g = DOMAIN first /\ g = [k \in DOMAIN g |-> g[k]]
      /\ \A k \in DOMAIN g : /\ w[k] = of(first[k]) /\ DOMAIN g[k] = DOMAIN of(first[k])
                             /\ g[k] = [r \in DOMAIN g[k] |-> g[k][r]]
                             /\ \A r \in DOMAIN g[k] : g[k][r] = items[of(first[k])[r]]
  OBVIOUS
<1> HIDE DEF g, w
<1>9. List(g)
  BY <1>3, <1>8, ListMapped
<1>10. ASSUME NEW k \in DOMAIN g
       PROVE  /\ List(g[k]) /\ 1 \in DOMAIN g[k]
              /\ \A r \in DOMAIN g[k] : w[k][r] \in DOMAIN items /\ g[k][r] = items[w[k][r]]
                                        /\ keys[w[k][r]] = keys[first[k]]
              /\ \A r, t \in DOMAIN g[k] : w[k][r] = w[k][t] => r = t
  <2>1. PICK i \in F : i = first[k]
    BY <1>3, <1>8
  <2>2. /\ List(of(i)) /\ \A r \in DOMAIN of(i) : of(i)[r] \in S(i)
        /\ \A r, t \in DOMAIN of(i) : of(i)[r] = of(i)[t] => r = t
        /\ 1 \in DOMAIN of(i)
    BY <1>4, <1>5
  <2>3. List(g[k])
    BY <1>8, <2>1, <2>2, ListMapped
  <2> QED BY <1>7, <1>8, <2>1, <2>2, <2>3
<1>11. ASSUME NEW k \in DOMAIN g, NEW l \in DOMAIN g, NEW r \in DOMAIN g[k], NEW t \in DOMAIN g[l],
              keys[w[k][r]] = keys[w[l][t]]
       PROVE  k = l
  <2>1. keys[first[k]] = keys[first[l]]
    BY <1>10, <1>11
  <2>2. first[k] = first[l]
    BY <1>3, <1>6, <1>8, <2>1
  <2> QED BY <1>3, <1>8, <2>2
<1>12. Grouped(w, g, items, keys)
  BY <1>9, <1>10, <1>11 DEF Grouped
<1>13. ASSUME NEW i \in DOMAIN items PROVE \E k \in DOMAIN g : \E r \in DOMAIN g[k] : w[k][r] = i
  <2>1. PICK j \in F : i \in S(j)
    BY <1>6a
  <2>2. PICK k \in DOMAIN first : first[k] = j
    BY <1>3
  <2>3. PICK r \in DOMAIN of(j) : of(j)[r] = i
    BY <1>4, <2>1
  <2>4. k \in DOMAIN g /\ w[k] = of(j) /\ DOMAIN g[k] = DOMAIN of(j)
    BY <1>8, <2>2
  <2> QED BY <2>3, <2>4
<1>14. \A k \in DOMAIN g : \A r, t \in DOMAIN g[k] : keys[w[k][r]] = keys[w[k][t]]
  BY <1>10
<1>15. Whole(w, g, items, keys)
  BY <1>13, <1>14 DEF Whole
<1> QED BY <1>1, <1>12, <1>15

\* The groups of a list of items hold places of the list, each in one group of its field.
LEMMA GroupsAre ==
  ASSUME NEW items, List(items), NEW keys
  PROVE  \E w : Grouped(w, GroupsBy(items, keys), items, keys)
BY GroupsHold

\* check_value_outliers judges each amount in one group.
LEMMA ValueOutliersArePushed ==
  ASSUME NEW all, List(all), NEW D, D => Distinct(all)
  PROVE  Pushed(CheckValueOutliers(all), {"value_outlier"}, D)
<1> DEFINE R == {"value_outlier"}
           field(f, row) == Amounts(row)[f].of
           name(f, row) == Amounts(row)[f].field
           key(row) == <<row.table, UnitKey(row), CurrencyKey(row), SectionKey(row)>>
           finding(f, row) == Finding(<<"boq", "value_outlier">>, row.sheet, <<RowId(row), name(f, row)>>,
                                      SourceLocation(row, field(f, row)))
           values(f, group) == [i \in DOMAIN group |-> field(f, group[i]).value]
           part(f, group, row) == If(IsOutlier(field(f, row).value, values(f, group)), finding(f, row))
           ofGroup(f, group) == FlattenSeq([r \in DOMAIN group |-> part(f, group, group[r])])
           T(f) == {i \in DOMAIN ItemRows(all) : field(f, ItemRows(all)[i]) # None}
           peers(f) == Picked(ItemRows(all), T(f))
           keys(f) == [i \in DOMAIN peers(f) |-> key(peers(f)[i])]
           groups(f) == GroupsBy(peers(f), keys(f))
           ofField(f) == FlattenSeq([k \in DOMAIN groups(f) |-> ofGroup(f, groups(f)[k])])
           fields == <<1, 2, 3>>
           names == <<"quantity", "rate", "amount">>
           s == [i \in DOMAIN fields |-> ofField(fields[i])]
<1>1. CheckValueOutliers(all) = FlattenSeq(s)
  BY Zenon DEF CheckValueOutliers, Each, Select, Picked
<1>2. ASSUME NEW f \in 1 .. 3, NEW row, NEW group
      PROVE  Maybe(part(f, group, row), <<RowId(row), names[f]>>, R)
  <2>1. name(f, row) = names[f]
    BY DEF Amounts
  <2>2. finding(f, row).subject = <<RowId(row), name(f, row)>> /\ finding(f, row).rule = <<"boq", "value_outlier">>
    <3> HIDE DEF name
    <3> QED BY FindingIs
  <2>3. finding(f, row).subject = <<RowId(row), names[f]>> /\ finding(f, row).rule[2] \in R
    BY <2>1, <2>2
  <2> HIDE DEF finding, R
  <2> QED BY <2>3, NoneOrOne
<1> HIDE DEF part, R
<1>3. ASSUME NEW f \in 1 .. 3
      PROVE  Pushed(ofField(f), R, D) /\ About(ofField(f), 2, names[f])
  <2> DEFINE p == peers(f)
             g == groups(f)
             h == [k \in DOMAIN g |-> ofGroup(f, g[k])]
  <2>1. List(p) /\ (D => Distinct(p))
    <3>1. List(ItemRows(all)) /\ (D => Distinct(ItemRows(all)))
      BY ItemRowsAre
    <3>2. T(f) \in SUBSET DOMAIN ItemRows(all)
      OBVIOUS
    <3> HIDE DEF T
    <3> QED BY <3>1, <3>2, PickedRows
  <2>2. PICK w : Grouped(w, g, p, keys(f))
    <3> HIDE DEF peers, keys
    <3> QED BY <2>1, GroupsAre
  <2>3. ofField(f) = FlattenSeq(h)
    BY Zenon
  <2>3a. \A k \in DOMAIN g : h[k] = ofGroup(f, g[k])
    BY Zenon
  <2>3b. DOMAIN h = DOMAIN g /\ h = [k \in DOMAIN h |-> h[k]]
    BY Zenon
  <2> HIDE DEF p, g, h, peers, keys, groups, ofField
  <2>4. List(g) /\ \A k \in DOMAIN g : List(g[k])
    BY <2>2 DEF Grouped
  <2>5. List(h) /\ DOMAIN h = DOMAIN g
    BY <2>3b, <2>4, ListMapped
  <2>6. ASSUME NEW k \in DOMAIN g
        PROVE  /\ Pushed(h[k], R, D) /\ About(h[k], 2, names[f])
               /\ \A m \in DOMAIN h[k] : \E r \in DOMAIN g[k] : h[k][m].subject[1] = RowId(g[k][r])
    <3> DEFINE q == g[k]
               u == [r \in DOMAIN q |-> part(f, q, q[r])]
               x == [r \in DOMAIN q |-> <<RowId(q[r]), names[f]>>]
    <3>1. h[k] = FlattenSeq(u) /\ List(q)
      BY <2>3a, <2>4
    <3>2. D => \A r, t \in DOMAIN q : RowId(q[r]) = RowId(q[t]) => r = t
      <4>1. \A r \in DOMAIN q : w[k][r] \in DOMAIN p /\ q[r] = p[w[k][r]]
        BY <2>2 DEF Grouped
      <4>2. \A r, t \in DOMAIN q : w[k][r] = w[k][t] => r = t
        BY <2>2 DEF Grouped
      <4> HIDE DEF q
      <4> QED BY <2>1, <4>1, <4>2 DEF Distinct
    <3> HIDE DEF q
    <3>3. DOMAIN u = DOMAIN q /\ \A r \in DOMAIN u : Maybe(u[r], x[r], R)
      BY <1>2
    <3>4. List(u)
      BY <3>1, ListMapped
    <3>5. ASSUME D, NEW r \in DOMAIN u, NEW t \in DOMAIN u, x[r] = x[t] PROVE r = t
      <4>1. RowId(q[r]) = RowId(q[t])
        BY <3>5
      <4> QED BY <3>2, <3>3, <3>5, <4>1
    <3>6. \A r \in DOMAIN u : x[r][1] = RowId(q[r]) /\ x[r][2] = names[f]
      OBVIOUS
    <3> HIDE DEF u, x
    <3>7. /\ Pushed(FlattenSeq(u), R, D)
          /\ \A m \in DOMAIN FlattenSeq(u) : \E r \in DOMAIN u : \E j \in DOMAIN u[r] :
               FlattenSeq(u)[m] = u[r][j] /\ FlattenSeq(u)[m].subject = x[r]
      BY <3>3, <3>4, <3>5, PushedLine
    <3>8. About(FlattenSeq(u), 2, names[f])
      BY <3>6, <3>7 DEF About
    <3>9. \A m \in DOMAIN FlattenSeq(u) : \E r \in DOMAIN q : FlattenSeq(u)[m].subject[1] = RowId(q[r])
      BY <3>3, <3>6, <3>7
    <3> QED BY <3>1, <3>7, <3>8, <3>9 DEF q
  <2>7. ASSUME D, NEW i \in DOMAIN h, NEW j \in DOMAIN h, NEW k \in DOMAIN h[i], NEW l \in DOMAIN h[j],
               FindingId(h[i][k]) = FindingId(h[j][l])
        PROVE  i = j
    <3>1. h[i][k].subject = h[j][l].subject
      BY <2>7 DEF FindingId
    <3>2. PICK r \in DOMAIN g[i] : h[i][k].subject[1] = RowId(g[i][r])
      BY <2>5, <2>6
    <3>3. PICK t \in DOMAIN g[j] : h[j][l].subject[1] = RowId(g[j][t])
      BY <2>5, <2>6
    <3>4. /\ w[i][r] \in DOMAIN p /\ g[i][r] = p[w[i][r]]
          /\ w[j][t] \in DOMAIN p /\ g[j][t] = p[w[j][t]]
      BY <2>2, <2>5 DEF Grouped
    <3>5. w[i][r] = w[j][t]
      BY <2>1, <2>7, <3>1, <3>2, <3>3, <3>4 DEF Distinct
    <3> QED BY <2>2, <2>5, <3>5 DEF Grouped
  <2>8. Pushed(FlattenSeq(h), R, D)
    BY <2>5, <2>6, <2>7, PushedEach
  <2>9. About(FlattenSeq(h), 2, names[f])
    <3>1. \A k \in DOMAIN h : List(h[k])
      BY <2>5, <2>6 DEF Pushed
    <3>2. PICK b, c : Nested(b, c, h, FlattenSeq(h))
      BY <2>5, <3>1, FlattenIs
    <3> QED BY <2>5, <2>6, <3>2 DEF Nested, About
  <2> QED BY <2>3, <2>8, <2>9
<1>4. List(s) /\ DOMAIN s = 1 .. 3 /\ \A i \in 1 .. 3 : s[i] = ofField(i)
  <2> HIDE DEF ofField
  <2>1. DOMAIN s = 1 .. 3 /\ s = [i \in DOMAIN s |-> s[i]] /\ \A i \in 1 .. 3 : s[i] = ofField(i)
    OBVIOUS
  <2> HIDE DEF s
  <2> QED BY <2>1, ListIs
<1>5. \A i, j \in 1 .. 3 : names[i] = names[j] => i = j
  OBVIOUS
<1> HIDE DEF s, ofField, names
<1>6. ASSUME NEW i \in DOMAIN s, NEW j \in DOMAIN s, NEW k \in DOMAIN s[i], NEW l \in DOMAIN s[j],
             FindingId(s[i][k]) = FindingId(s[j][l])
      PROVE  i = j
  <2>1. s[i][k].subject = s[j][l].subject
    BY <1>6 DEF FindingId
  <2>2. s[i][k].subject[2] = names[i] /\ s[j][l].subject[2] = names[j]
    BY <1>3, <1>4 DEF About
  <2> QED BY <1>4, <1>5, <2>1, <2>2
<1>7. \A i \in DOMAIN s : Pushed(s[i], R, D)
  BY <1>3, <1>4
<1>8. Pushed(FlattenSeq(s), R, D)
  BY <1>4, <1>6, <1>7, PushedEach
<1> QED BY <1>1, <1>8, Zenon DEF R

-----------------------------------------------------------------------------
(* All checks                                                              *)

\* check_pareto sums up each context once.
LEMMA ParetoIsPushed ==
  ASSUME NEW rows, List(rows), NEW D
  PROVE  Pushed(CheckPareto(rows), {"pareto_summary"}, D)
<1> DEFINE R == {"pareto_summary"}
           items == ItemRows(rows)
           T == {i \in DOMAIN items : items[i].amount # None /\ items[i].amount.value >= 0}
           positive == Picked(items, T)
           keys == [i \in DOMAIN positive |-> ParetoKey(positive[i])]
           all == GroupsBy(positive, keys)
           U == {k \in DOMAIN all : \E i \in DOMAIN all[k] : all[k][i].amount.value # 0}
           groups == Picked(all, U)
           p == Pareto(rows)
           finding(c) == Finding(<<"boq", "pareto_summary">>, c.highest.sheet, c.context,
                                 SourceLocation(c.highest, c.highest.amount))
           s == [k \in DOMAIN p |-> <<finding(p[k])>>]
           x == [k \in DOMAIN p |-> p[k].context]
<1>1. CheckPareto(rows) = FlattenSeq(s)
  <2> HIDE DEF p
  <2> QED BY DEF CheckPareto, Each, p
<1>2. /\ DOMAIN p = DOMAIN groups /\ p = [k \in DOMAIN p |-> p[k]]
      /\ \A k \in DOMAIN p : p[k].context = ParetoKey(groups[k][1])
  <2>1. p = [k \in DOMAIN groups |-> ParetoOf(groups[k])]
    BY Zenon DEF Pareto, Select, Picked
  <2>2. \A group : ParetoOf(group).context = ParetoKey(group[1])
    BY DEF ParetoOf
  <2> HIDE DEF p, groups
  <2> QED BY <2>1, <2>2, Zenon
<1>3. List(items)
  BY ItemRowsAre
<1>4. List(positive)
  <2>1. T \in SUBSET DOMAIN items
    OBVIOUS
  <2> HIDE DEF items, T
  <2> QED BY <1>3, <2>1, PickedRows
<1>5. DOMAIN keys = DOMAIN positive /\ \A i \in DOMAIN positive : keys[i] = ParetoKey(positive[i])
  <2> HIDE DEF positive
  <2> QED OBVIOUS
<1> HIDE DEF positive, keys
<1>6. PICK w : Grouped(w, all, positive, keys)
  BY <1>4, GroupsAre
<1>7. U \in SUBSET DOMAIN all
  OBVIOUS
<1> HIDE DEF all, U
<1>8. List(all)
  BY <1>6 DEF Grouped
<1>9. /\ List(groups)
      /\ \E q : /\ \A k \in DOMAIN groups : q[k] \in U /\ groups[k] = all[q[k]]
                /\ \A k, l \in DOMAIN groups : q[k] = q[l] => k = l
  BY <1>7, <1>8, PickedIs
<1> HIDE DEF groups, p
<1>10. PICK q : /\ \A k \in DOMAIN groups : q[k] \in U /\ groups[k] = all[q[k]]
                /\ \A k, l \in DOMAIN groups : q[k] = q[l] => k = l
  BY <1>9
<1>11. ASSUME NEW k \in DOMAIN groups
       PROVE  /\ q[k] \in DOMAIN all /\ 1 \in DOMAIN all[q[k]]
              /\ ParetoKey(groups[k][1]) = keys[w[q[k]][1]]
  <2>1. q[k] \in DOMAIN all /\ groups[k] = all[q[k]]
    BY <1>7, <1>10
  <2>2. 1 \in DOMAIN all[q[k]] /\ w[q[k]][1] \in DOMAIN positive /\ all[q[k]][1] = positive[w[q[k]][1]]
    BY <1>6, <2>1 DEF Grouped
  <2> QED BY <1>5, <2>1, <2>2
<1>12. ASSUME NEW k \in DOMAIN groups, NEW l \in DOMAIN groups, ParetoKey(groups[k][1]) = ParetoKey(groups[l][1])
       PROVE  k = l
  <2>1. keys[w[q[k]][1]] = keys[w[q[l]][1]]
    BY <1>11, <1>12
  <2>2. q[k] = q[l]
    BY <1>6, <1>11, <2>1 DEF Grouped
  <2> QED BY <1>10, <2>2
<1>13. List(s) /\ DOMAIN s = DOMAIN p
  <2>1. List(p)
    BY <1>2, <1>9, ListMapped
  <2>2. DOMAIN s = DOMAIN p /\ s = [k \in DOMAIN s |-> s[k]]
    OBVIOUS
  <2> HIDE DEF s
  <2> QED BY <2>1, <2>2, ListMapped
<1>14. ASSUME NEW k \in DOMAIN s PROVE Maybe(s[k], x[k], R)
  <2>1. PICK c : c = p[k]
    OBVIOUS
  <2>2. s[k] = <<finding(c)>> /\ x[k] = c.context
    BY <1>13, <2>1
  <2>3. finding(c).subject = c.context /\ finding(c).rule[2] \in R
    BY FindingIs
  <2> HIDE DEF finding, s, x, R
  <2> QED BY <2>2, <2>3, NoneOrOne
<1>15. \A k \in DOMAIN p : x[k] = ParetoKey(groups[k][1])
  BY <1>2
<1> HIDE DEF s, x
<1>16. \A k, l \in DOMAIN s : x[k] = x[l] => k = l
  BY <1>2, <1>12, <1>13, <1>15
<1>17. Pushed(FlattenSeq(s), R, D)
  BY <1>13, <1>14, <1>16, PushedLine
<1> QED BY <1>1, <1>17 DEF R

\* What a detection leaves the rules to work on.
Detected(fd) ==
  /\ List(fd.tables) /\ List(fd.rows)
  /\ \A i \in DOMAIN fd.tables : Numbers(DOMAIN fd.tables[i].columns)
  /\ \A i \in DOMAIN fd.rows : Numbers(fd.rows[i].errors)

RuleNames ==
  {"low_confidence_structure", "unmapped_column", "missing_column", "missing", "zero_value", "negative_value",
   "broken_formula", "panic", "formula_unverifiable", "formula_result_mismatch", "spreadsheet_error",
   "amount_mismatch", "exact_duplicate", "cross_sheet_duplicate", "cross_sheet_inconsistency",
   "inconsistent_unit", "fuzzy_duplicate", "subtotal_mismatch", "total_mismatch", "value_outlier",
   "pareto_summary"}

\* The lists of findings of the checks, in the order they are made.
Checks(workbook, fd, settings) ==
  << CheckStructure(fd, settings), CheckMissingValues(fd), CheckNumericValues(fd.rows),
     CheckFormulas(workbook, settings), CheckSpreadsheetErrors(fd.rows), CheckAmounts(fd.rows, settings),
     CheckExactDuplicates(fd.rows), CheckSimilarRows(fd.rows, settings), CheckSubtotals(fd, settings),
     CheckValueOutliers(fd.rows), CheckPareto(fd.rows) >>

\* The rules of each.
RulesOf ==
  << {"low_confidence_structure"} \cup {"unmapped_column"} \cup {"missing_column"}, {"missing"},
     {"zero_value", "negative_value"}, {"broken_formula", "panic", "formula_unverifiable", "formula_result_mismatch"},
     {"spreadsheet_error"}, {"amount_mismatch"},
     {"exact_duplicate", "cross_sheet_duplicate"} \cup {"cross_sheet_inconsistency"},
     {"inconsistent_unit", "fuzzy_duplicate"}, {"subtotal_mismatch", "total_mismatch"},
     {"value_outlier"}, {"pareto_summary"} >>

RulesUpTo(n) == UNION {RulesOf[i] : i \in 1 .. n}

\* No two checks share a rule.
LEMMA RulesDiffer ==
  /\ \A i, j \in 1 .. 11 : i # j => RulesOf[i] \cap RulesOf[j] = {}
  /\ RulesUpTo(11) = RuleNames
<1>1. \A i, j \in 1 .. 11 : i # j => RulesOf[i] \cap RulesOf[j] = {}
  BY DEF RulesOf
<1>2. RulesUpTo(11) = RuleNames
  BY DEF RulesUpTo, RulesOf, RuleNames
<1> QED BY <1>1, <1>2

\* What each check finds is of its rules.
LEMMA ChecksPush ==
  ASSUME NEW workbook, List(workbook), \A i \in DOMAIN workbook : List(workbook[i].cells),
         NEW fd, Detected(fd), NEW settings, NEW D, D => Addresses(workbook) /\ Distinct(fd.rows)
  PROVE  \A i \in 1 .. 11 : Pushed(Checks(workbook, fd, settings)[i], RulesOf[i], D)
<1> DEFINE c == Checks(workbook, fd, settings)
<1>1. Pushed(c[1], RulesOf[1], D)
  BY StructureIsPushed DEF Detected, Checks, RulesOf
<1>2. Pushed(c[2], RulesOf[2], D)
  BY MissingValuesArePushed DEF Detected, Checks, RulesOf
<1>3. Pushed(c[3], RulesOf[3], D)
  BY NumericValuesArePushed DEF Detected, Checks, RulesOf
<1>4. Pushed(c[4], RulesOf[4], D)
  BY FormulasArePushed DEF Checks, RulesOf
<1>5. Pushed(c[5], RulesOf[5], D)
  BY SpreadsheetErrorsArePushed DEF Detected, Checks, RulesOf
<1>6. Pushed(c[6], RulesOf[6], D)
  BY AmountsArePushed DEF Detected, Checks, RulesOf
<1>7. Pushed(c[7], RulesOf[7], D)
  BY ExactDuplicatesArePushed DEF Detected, Checks, RulesOf
<1>8. Pushed(c[8], RulesOf[8], D)
  BY SimilarRowsArePushed DEF Detected, Checks, RulesOf
<1>9. Pushed(c[9], RulesOf[9], D)
  BY SubtotalsArePushed DEF Detected, Checks, RulesOf
<1>10. Pushed(c[10], RulesOf[10], D)
  BY ValueOutliersArePushed DEF Detected, Checks, RulesOf
<1>11. Pushed(c[11], RulesOf[11], D)
  BY ParetoIsPushed DEF Detected, Checks, RulesOf
<1> HIDE DEF c
<1> QED BY <1>1, <1>2, <1>3, <1>4, <1>5, <1>6, <1>7, <1>8, <1>9, <1>10, <1>11 DEF c

\* No element of a list is left out of two after each other.
LEMMA MembersJoin ==
  ASSUME NEW s, List(s), NEW t, List(t)
  PROVE  List(s \o t) /\ Members(s \o t) = Members(s) \cup Members(t)
<1> DEFINE u == s \o t
<1>1. /\ List(u) /\ Len(u) = Len(s) + Len(t)
      /\ \A i \in DOMAIN u : u[i] = IF i <= Len(s) THEN s[i] ELSE t[i - Len(s)]
  BY ListsJoin
<1>2. /\ Len(s) \in Nat /\ DOMAIN s = 1 .. Len(s) /\ Len(t) \in Nat /\ DOMAIN t = 1 .. Len(t)
      /\ DOMAIN u = 1 .. Len(s) + Len(t)
  BY <1>1, ListPlaces
<1> HIDE DEF u
<1>3. ASSUME NEW i \in DOMAIN u PROVE u[i] \in Members(s) \cup Members(t)
  <2>1. CASE i <= Len(s)
    BY <1>1, <1>2, <2>1 DEF Members
  <2>2. CASE ~(i <= Len(s))
    <3>1. i - Len(s) \in DOMAIN t /\ u[i] = t[i - Len(s)]
      BY <1>1, <1>2, <2>2
    <3> QED BY <3>1 DEF Members
  <2> QED BY <2>1, <2>2
<1>4. ASSUME NEW i \in DOMAIN s PROVE s[i] \in Members(u)
  <2>1. i \in DOMAIN u /\ u[i] = s[i]
    BY <1>1, <1>2
  <2> QED BY <2>1 DEF Members
<1>5. ASSUME NEW i \in DOMAIN t PROVE t[i] \in Members(u)
  <2>1. i + Len(s) \in DOMAIN u /\ ~(i + Len(s) <= Len(s)) /\ (i + Len(s)) - Len(s) = i
    BY <1>2
  <2>2. u[i + Len(s)] = t[i]
    BY <1>1, <2>1
  <2> QED BY <2>1, <2>2 DEF Members
<1>6. Members(u) = Members(s) \cup Members(t)
  BY <1>3, <1>4, <1>5 DEF Members
<1> QED BY <1>1, <1>6 DEF u

\* The findings of a list that a rule made.
OfRule(s, rule) == {f \in Members(s) : f.rule = <<"boq", rule>>}

\* What is found in two lists after each other.
LEMMA OfRuleJoin ==
  ASSUME NEW s, List(s), NEW t, List(t)
  PROVE  List(s \o t) /\ \A rule : OfRule(s \o t, rule) = OfRule(s, rule) \cup OfRule(t, rule)
BY MembersJoin DEF OfRule

\* A check finds nothing of the rules of another.
LEMMA OfRuleNone ==
  ASSUME NEW s, NEW R, NEW D, Pushed(s, R, D), NEW rule, rule \notin R
  PROVE  OfRule(s, rule) = {}
BY DEF Pushed, OfRule, Members

\* u holds what the first n checks found.
FoundBy(u, n, c, D) ==
  /\ Pushed(u, RulesUpTo(n), D)
  /\ \A i \in 1 .. n : \A rule \in RulesOf[i] : OfRule(u, rule) = OfRule(c[i], rule)

\* The next check adds its findings, which are of other rules.
LEMMA ChecksFollow ==
  ASSUME NEW c, NEW D, \A i \in 1 .. 11 : Pushed(c[i], RulesOf[i], D), NEW u, NEW n \in 1 .. 10, FoundBy(u, n, c, D)
  PROVE  FoundBy(u \o c[n + 1], n + 1, c, D)
<1> DEFINE m == n + 1
           v == u \o c[m]
<1>1. m \in 1 .. 11 /\ 1 .. m = (1 .. n) \cup {m} /\ \A i \in 1 .. n : i \in 1 .. 11 /\ i # m
  OBVIOUS
<1>2. Pushed(u, RulesUpTo(n), D) /\ Pushed(c[m], RulesOf[m], D)
  BY <1>1 DEF FoundBy
<1>3. RulesUpTo(m) = RulesUpTo(n) \cup RulesOf[m]
  BY <1>1 DEF RulesUpTo
<1>4. \A i \in 1 .. n : RulesOf[i] \cap RulesOf[m] = {} /\ RulesOf[i] \subseteq RulesUpTo(n)
  BY <1>1, RulesDiffer DEF RulesUpTo
<1>5. RulesUpTo(n) \cap RulesOf[m] = {}
  BY <1>4 DEF RulesUpTo
<1> HIDE DEF m
<1>6. Pushed(v, RulesUpTo(m), D)
  BY <1>2, <1>3, <1>5, PushedBoth
<1>7. \A rule : OfRule(v, rule) = OfRule(u, rule) \cup OfRule(c[m], rule)
  BY <1>2, OfRuleJoin DEF Pushed
<1>8. \A rule : (rule \notin RulesUpTo(n) => OfRule(u, rule) = {}) /\ (rule \notin RulesOf[m] => OfRule(c[m], rule) = {})
  <2>1. ASSUME NEW rule, rule \notin RulesUpTo(n) PROVE OfRule(u, rule) = {}
    BY <1>2, <2>1, OfRuleNone
  <2>2. ASSUME NEW rule, rule \notin RulesOf[m] PROVE OfRule(c[m], rule) = {}
    BY <1>2, <2>2, OfRuleNone
  <2> QED BY <2>1, <2>2
<1> HIDE DEF v
<1>9. ASSUME NEW i \in 1 .. m, NEW rule \in RulesOf[i] PROVE OfRule(v, rule) = OfRule(c[i], rule)
  <2>1. CASE i = m
    BY <1>5, <1>7, <1>8, <2>1
  <2>2. CASE i \in 1 .. n
    <3>1. OfRule(u, rule) = OfRule(c[i], rule)
      BY <2>2 DEF FoundBy
    <3>2. rule \notin RulesOf[m]
      BY <1>4, <2>2
    <3> QED BY <1>7, <1>8, <3>1, <3>2
  <2> QED BY <1>1, <2>1, <2>2
<1>10. FoundBy(v, m, c, D)
  BY <1>6, <1>9 DEF FoundBy
<1> QED BY <1>10 DEF m, v

\* All findings of the checks, before those of selected rules are picked.
Findings(workbook, fd, settings) ==
  LET c == Checks(workbook, fd, settings)
  IN c[1] \o c[2] \o c[3] \o c[4] \o c[5] \o c[6] \o c[7] \o c[8] \o c[9] \o c[10] \o c[11]

\* The checks after each other.
LEMMA ChecksFind ==
  ASSUME NEW workbook, List(workbook), \A i \in DOMAIN workbook : List(workbook[i].cells),
         NEW fd, Detected(fd), NEW settings, NEW D, D => Addresses(workbook) /\ Distinct(fd.rows)
  PROVE  /\ FoundBy(Findings(workbook, fd, settings), 11, Checks(workbook, fd, settings), D)
         /\ \A selected :
              RunRules(workbook, fd, settings, selected)
                = Picked(Findings(workbook, fd, settings),
                         {i \in DOMAIN Findings(workbook, fd, settings) :
                            Enabled(selected, Findings(workbook, fd, settings)[i].rule)})
<1> DEFINE c == Checks(workbook, fd, settings)
           Follows(u, n) == FoundBy(u, n, c, D) => FoundBy(u \o c[n + 1], n + 1, c, D)
<1>1. \A i \in 1 .. 11 : Pushed(c[i], RulesOf[i], D)
  BY ChecksPush
<1>2. \A n \in 1 .. 10 : \A u : Follows(u, n)
  <2> HIDE DEF c
  <2> QED BY <1>1, ChecksFollow
<1>3. FoundBy(c[1], 1, c, D)
  <2>1. 1 .. 1 = {1} /\ RulesUpTo(1) = RulesOf[1]
    BY DEF RulesUpTo
  <2> HIDE DEF c
  <2> QED BY <1>1, <2>1 DEF FoundBy
<1>4. FoundBy(c[1] \o c[2] \o c[3] \o c[4], 4, c, D)
  <2> HIDE DEF c
  <2> QED BY <1>2, <1>3
<1>5. FoundBy(c[1] \o c[2] \o c[3] \o c[4] \o c[5] \o c[6] \o c[7], 7, c, D)
  <2> HIDE DEF c
  <2> QED BY <1>2, <1>4
<1>6. FoundBy(c[1] \o c[2] \o c[3] \o c[4] \o c[5] \o c[6] \o c[7] \o c[8] \o c[9] \o c[10] \o c[11], 11, c, D)
  <2> HIDE DEF c
  <2> QED BY <1>2, <1>5
<1>7. FoundBy(Findings(workbook, fd, settings), 11, c, D)
  <2> HIDE DEF c
  <2> QED BY <1>6, Zenon DEF Findings, c
<1>8. \A selected :
        RunRules(workbook, fd, settings, selected)
          = Picked(Findings(workbook, fd, settings),
                   {i \in DOMAIN Findings(workbook, fd, settings) :
                      Enabled(selected, Findings(workbook, fd, settings)[i].rule)})
  BY Zenon DEF RunRules, Select, Picked, Findings, Checks
<1> QED BY <1>7, <1>8

\* All checks after each other: their rules differ, so no two findings share an
\* identifier unless two of one check do.
LEMMA RulesPush ==
  ASSUME NEW workbook, List(workbook), \A i \in DOMAIN workbook : List(workbook[i].cells),
         NEW fd, Detected(fd), NEW settings, NEW selected,
         NEW D, D => Addresses(workbook) /\ Distinct(fd.rows)
  PROVE  Pushed(RunRules(workbook, fd, settings, selected), RuleNames, D)
<1> DEFINE s == Findings(workbook, fd, settings)
           T == {i \in DOMAIN s : Enabled(selected, s[i].rule)}
           t == Picked(s, T)
<1>1. RunRules(workbook, fd, settings, selected) = t
  BY ChecksFind
<1>2. Pushed(s, RuleNames, D)
  BY ChecksFind, RulesDiffer DEF FoundBy
<1>3. T \in SUBSET DOMAIN s
  OBVIOUS
<1> HIDE DEF s, T
<1>4. /\ List(t)
      /\ \E p : /\ \A k \in DOMAIN t : p[k] \in T /\ t[k] = s[p[k]]
                /\ \A k, l \in DOMAIN t : p[k] = p[l] => k = l
  BY <1>2, <1>3, PickedIs DEF Pushed
<1> HIDE DEF t
<1>5. PICK p : /\ \A k \in DOMAIN t : p[k] \in T /\ t[k] = s[p[k]]
               /\ \A k, l \in DOMAIN t : p[k] = p[l] => k = l
  BY <1>4
<1>6. \A k \in DOMAIN t : t[k].rule[2] \in RuleNames
  BY <1>2, <1>3, <1>5 DEF Pushed
<1>7. ASSUME D PROVE Single(t)
  BY <1>2, <1>3, <1>5, <1>7 DEF Pushed, Single
<1> QED BY <1>1, <1>4, <1>6, <1>7 DEF Pushed, t

\* The findings of a rule are those of its check, if nothing is selected.
LEMMA FoundIs ==
  ASSUME NEW workbook, List(workbook), \A i \in DOMAIN workbook : List(workbook[i].cells),
         NEW fd, Detected(fd), NEW settings
  PROVE  LET fs == RunRules(workbook, fd, settings, {})
         IN /\ \A rule \in {"exact_duplicate", "cross_sheet_duplicate"} :
                 OfRule(fs, rule) = OfRule(CheckExactDuplicates(fd.rows), rule)
            /\ \A rule \in {"subtotal_mismatch", "total_mismatch"} :
                 OfRule(fs, rule) = OfRule(CheckSubtotals(fd, settings), rule)
            /\ OfRule(fs, "value_outlier") = OfRule(CheckValueOutliers(fd.rows), "value_outlier")
<1> DEFINE s == Findings(workbook, fd, settings)
           c == Checks(workbook, fd, settings)
           T == {i \in DOMAIN s : Enabled({}, s[i].rule)}
           t == Picked(s, T)
<1>1. RunRules(workbook, fd, settings, {}) = t /\ FoundBy(s, 11, c, FALSE)
  BY ChecksFind
<1>2. T = DOMAIN s
  BY DEF Enabled
<1> HIDE DEF s, c, T, t
<1>3. List(s)
  BY <1>1 DEF FoundBy, Pushed
<1>4. PICK p : Picks(p, t, s, T)
  BY <1>2, <1>3, PickedInOrder DEF t
<1>5. Members(t) = Members(s)
  <2>1. \A k \in DOMAIN t : \E i \in DOMAIN s : s[i] = t[k]
    BY <1>2, <1>4 DEF Picks
  <2>2. \A i \in DOMAIN s : \E k \in DOMAIN t : s[i] = t[k]
    BY <1>2, <1>4 DEF Picks
  <2> QED BY <2>1, <2>2 DEF Members
<1>6. \A i \in 1 .. 11 : \A rule \in RulesOf[i] : OfRule(t, rule) = OfRule(c[i], rule)
  BY <1>1, <1>5 DEF FoundBy, OfRule
<1>7. /\ \A rule \in RulesOf[7] : OfRule(t, rule) = OfRule(c[7], rule)
      /\ \A rule \in RulesOf[9] : OfRule(t, rule) = OfRule(c[9], rule)
      /\ \A rule \in RulesOf[10] : OfRule(t, rule) = OfRule(c[10], rule)
  BY <1>6
<1>8. /\ c[7] = CheckExactDuplicates(fd.rows) /\ c[9] = CheckSubtotals(fd, settings)
      /\ c[10] = CheckValueOutliers(fd.rows)
  BY DEF c, Checks
<1>9. /\ {"exact_duplicate", "cross_sheet_duplicate"} \subseteq RulesOf[7]
      /\ {"subtotal_mismatch", "total_mismatch"} \subseteq RulesOf[9] /\ "value_outlier" \in RulesOf[10]
  BY DEF RulesOf
<1> QED BY <1>1, <1>7, <1>8, <1>9

-----------------------------------------------------------------------------
(* The cells of a sheet by row                                             *)

\* A finite set of numbers with a member has a last one.
LEMMA LastIs ==
  ASSUME NEW S, Numbers(S), S # {}
  PROVE  LastOf(S) \in S /\ \A j \in S : j <= LastOf(S)
<1> DEFINE Upper(i) == {j \in S : i < j}
           B == {Upper(i) : i \in S}
<1>1. S \in SUBSET Nat /\ IsFiniteSet(S)
  BY DEF Numbers
<1>2. \A E \in B : IsFiniteSet(E)
  <2>1. \A E \in B : E \in SUBSET S
    OBVIOUS
  <2> QED BY <1>1, <2>1, FS_Subset
<1>3. PICK E \in B : \A F \in B : Cardinality(E) <= Cardinality(F)
  <2>1. B # {}
    OBVIOUS
  <2> HIDE DEF B
  <2> QED BY <1>2, <2>1, SmallestSet
<1>4. PICK i \in S : E = Upper(i)
  BY <1>3
<1>5. ASSUME NEW j \in S PROVE j <= i
  <2> SUFFICES ASSUME i < j PROVE FALSE
    BY <1>1
  <2>1. Upper(j) \in SUBSET (E \ {j}) /\ j \in E
    <3>1. i \in Nat /\ j \in Nat /\ S \subseteq Nat
      BY <1>1
    <3>2. ASSUME NEW k \in Upper(j) PROVE k \in E /\ k # j
      <4>1. k \in S /\ k \in Nat /\ j < k
        BY <3>1
      <4> QED BY <1>4, <3>1, <4>1
    <3>3. j \in E
      BY <1>4
    <3> QED BY <3>2, <3>3
  <2>2. Upper(j) \in B /\ E \in B
    BY <1>4
  <2> HIDE DEF B, Upper
  <2>3. /\ IsFiniteSet(E \ {j}) /\ Cardinality(E \ {j}) = Cardinality(E) - 1
        /\ Cardinality(E) \in Nat
    BY <1>2, <2>1, <2>2, FS_RemoveElement, FS_CardinalityType
  <2>4. Cardinality(Upper(j)) <= Cardinality(E) - 1 /\ Cardinality(Upper(j)) \in Nat
    BY <1>2, <2>1, <2>2, <2>3, FS_Subset, FS_CardinalityType
  <2>5. Cardinality(E) <= Cardinality(Upper(j))
    BY <1>3, <2>2
  <2> QED BY <2>3, <2>4, <2>5
<1>6. \E l \in S : \A j \in S : j <= l
  BY <1>5
<1> QED BY <1>6 DEF LastOf

\* A number that may be there.
Summable(a) == a = None \/ a.value \in Int

\* A cell at a row and a column; what it reads as a number is an integer.
Sited(c) == Placed(c) /\ Summable(NumberOf(c))

\* The cells of a sheet, each at a row and a column.
Tabled(sheet) == List(sheet.cells) /\ \A c \in Members(sheet.cells) : Sited(c)

\* The rows of a sheet: each has a cell, and all its cells are of the sheet.
Rowed(rows) ==
  /\ Numbers(DOMAIN rows)
  /\ \A r \in DOMAIN rows : /\ List(rows[r]) /\ Len(rows[r]) >= 1
                            /\ \A c \in ToSet(rows[r]) : Sited(c)

\* The rows and the columns of finitely many cells are numbers.
LEMMA ColumnsAreNumbers ==
  ASSUME NEW C, IsFiniteSet(C), \A c \in C : Sited(c)
  PROVE  Numbers({c.col : c \in C}) /\ Numbers({c.row : c \in C})
<1>1. {c.col : c \in C} = {[c \in C |-> c.col][d] : d \in C} /\ {c.row : c \in C} = {[c \in C |-> c.row][d] : d \in C}
  OBVIOUS
<1>2. IsFiniteSet({[c \in C |-> c.col][d] : d \in C}) /\ IsFiniteSet({[c \in C |-> c.row][d] : d \in C})
  <2>1. PICK f, g : f = [c \in C |-> c.col] /\ g = [c \in C |-> c.row]
    OBVIOUS
  <2>2. IsFiniteSet({f[c] : c \in C}) /\ IsFiniteSet({g[c] : c \in C})
    BY ImageIsFinite
  <2> QED BY <2>1, <2>2
<1>3. {c.col : c \in C} \in SUBSET Nat /\ {c.row : c \in C} \in SUBSET Nat
  BY DEF Sited, Placed
<1> QED BY <1>1, <1>2, <1>3 DEF Numbers

\* A list has finitely many elements.
LEMMA MembersAreFinite ==
  ASSUME NEW s, List(s)
  PROVE  IsFiniteSet(ToSet(s)) /\ ToSet(s) = Members(s)
<1>1. IsFiniteSet(DOMAIN s)
  BY ListPlaces
<1>2. ToSet(s) = {s[i] : i \in DOMAIN s} /\ ToSet(s) = Members(s)
  BY DEF ToSet, Members
<1> QED BY <1>1, <1>2, ImageIsFinite

\* cells_by_row gives every row its cells, and only rows that have some.
LEMMA RowsAre ==
  ASSUME NEW sheet, Tabled(sheet)
  PROVE  Rowed(CellsByRow(sheet))
<1> DEFINE all == sheet.cells
           C(r) == {d \in ToSet(all) : d.row = r}
           columns(r) == Ascending({c.col : c \in C(r)})
           T(r, col) == {i \in DOMAIN all : all[i].row = r /\ all[i].col = col}
           at(r, col) == Picked(all, T(r, col))
           line(r) == [j \in DOMAIN columns(r) |-> at(r, columns(r)[j])]
           rows == CellsByRow(sheet)
<1>1. /\ DOMAIN rows = {c.row : c \in ToSet(all)}
      /\ \A r \in DOMAIN rows : rows[r] = FlattenSeq(line(r))
  BY DEF CellsByRow, Each, Select, Picked
<1>2. List(all) /\ IsFiniteSet(ToSet(all)) /\ \A c \in ToSet(all) : Sited(c)
  BY MembersAreFinite DEF Tabled
<1> HIDE DEF rows, all
<1>3. Numbers(DOMAIN rows)
  BY <1>1, <1>2, ColumnsAreNumbers
<1>4. ASSUME NEW r \in DOMAIN rows
      PROVE  /\ List(rows[r]) /\ Len(rows[r]) >= 1
             /\ \A c \in ToSet(rows[r]) : Sited(c)
  <2>1. PICK c \in ToSet(all) : c.row = r
    BY <1>1
  <2>2. PICK i \in DOMAIN all : all[i] = c
    BY <2>1 DEF ToSet
  <2>3. IsFiniteSet(C(r)) /\ \A d \in C(r) : Sited(d)
    <3>1. C(r) \in SUBSET ToSet(all)
      OBVIOUS
    <3> HIDE DEF C
    <3> QED BY <1>2, <3>1, FS_Subset
  <2>4. c \in C(r)
    BY <2>1
  <2> DEFINE cols == {d.col : d \in C(r)}
  <2>5. Numbers(cols) /\ c.col \in cols
    <3> HIDE DEF C
    <3> QED BY <2>3, <2>4, ColumnsAreNumbers
  <2>6. columns(r) = Ascending(cols)
    OBVIOUS
  <2> HIDE DEF cols, columns
  <2>7. List(columns(r)) /\ \E j \in DOMAIN columns(r) : columns(r)[j] = c.col
    BY <2>5, <2>6, AscendingIs DEF Numbers
  <2>8. ASSUME NEW col
        PROVE  /\ List(at(r, col))
               /\ \A k \in DOMAIN at(r, col) : Sited(at(r, col)[k])
               /\ T(r, col) # {} => Len(at(r, col)) >= 1
    <3>1. T(r, col) \in SUBSET DOMAIN all
      OBVIOUS
    <3> HIDE DEF T
    <3>2. List(at(r, col))
      BY <1>2, <3>1, PickedIs
    <3>3. PICK p : /\ \A k \in DOMAIN at(r, col) : p[k] \in T(r, col) /\ at(r, col)[k] = all[p[k]]
                   /\ \A n \in T(r, col) : \E k \in DOMAIN at(r, col) : p[k] = n
      BY <1>2, <3>1, PickedIs
    <3>4. Len(at(r, col)) \in Nat /\ DOMAIN at(r, col) = 1 .. Len(at(r, col))
      BY <3>2, ListPlaces
    <3>5. \A k \in DOMAIN at(r, col) : Sited(at(r, col)[k])
      BY <1>2, <3>1, <3>3 DEF ToSet
    <3>6. ASSUME T(r, col) # {} PROVE Len(at(r, col)) >= 1
      <4>1. PICK k : k \in DOMAIN at(r, col)
        BY <3>3, <3>6
      <4> QED BY <3>4, <4>1
    <3> QED BY <3>2, <3>5, <3>6
  <2>9. i \in T(r, c.col)
    BY <2>1, <2>2
  <2> HIDE DEF at, T
  <2>10. /\ DOMAIN line(r) = DOMAIN columns(r) /\ line(r) = [j \in DOMAIN line(r) |-> line(r)[j]]
         /\ \A j \in DOMAIN line(r) : line(r)[j] = at(r, columns(r)[j])
    OBVIOUS
  <2> HIDE DEF line
  <2>11. List(line(r))
    BY <2>7, <2>10, ListMapped
  <2>12. \A j \in DOMAIN line(r) : List(line(r)[j]) /\ \A k \in DOMAIN line(r)[j] : Sited(line(r)[j][k])
    BY <2>8, <2>10
  <2>13. \E j \in DOMAIN line(r) : Len(line(r)[j]) >= 1
    BY <2>7, <2>8, <2>9, <2>10
  <2> DEFINE t == FlattenSeq(line(r))
  <2>14. /\ List(t) /\ \A j \in DOMAIN line(r) : Len(line(r)[j]) <= Len(t)
         /\ \E p, q : Nested(p, q, line(r), t)
    BY <2>11, <2>12, FlattenIs
  <2> HIDE DEF t
  <2>15. Len(t) >= 1
    <3>1. \A j \in DOMAIN line(r) : Len(line(r)[j]) \in Nat
      BY <2>12, ListPlaces
    <3>2. Len(t) \in Nat
      BY <2>14, ListPlaces
    <3> QED BY <2>13, <2>14, <3>1, <3>2
  <2>16. PICK p, q : Nested(p, q, line(r), t)
    BY <2>14
  <2>17. \A k \in DOMAIN t : Sited(t[k])
    BY <2>12, <2>16 DEF Nested
  <2>18. rows[r] = t
    BY <1>1 DEF t, line
  <2> QED BY <2>14, <2>15, <2>17, <2>18 DEF ToSet
<1> QED BY <1>3, <1>4 DEF Rowed, rows

-----------------------------------------------------------------------------
(* Segments, headers and columns                                           *)

\* The runs of rows that may hold a table follow each other.
LEMMA SegmentsAre ==
  ASSUME NEW rows, Numbers(DOMAIN rows)
  PROVE  LET segments == CandidateSegments(rows)
         IN /\ List(segments)
            /\ \A i \in DOMAIN segments : segments[i][1] \in Nat /\ segments[i][2] \in Nat
            /\ \A i, j \in DOMAIN segments :
                 i # j => segments[i][2] < segments[j][1] \/ segments[j][2] < segments[i][1]
<1> DEFINE starts == {r \in DOMAIN rows : \A q \in DOMAIN rows : q < r => r - q >= 3}
           before(r) == {q \in DOMAIN rows : q >= r /\ ~\E s \in starts : r < s /\ s <= q}
           order == Ascending(starts)
           segments == CandidateSegments(rows)
<1>1. segments = [i \in DOMAIN order |-> <<order[i], LastOf(before(order[i]))>>]
  BY DEF CandidateSegments
<1>2. starts \in SUBSET DOMAIN rows /\ \A r : before(r) \in SUBSET DOMAIN rows
  OBVIOUS
<1>3. DOMAIN rows \in SUBSET Nat /\ IsFiniteSet(DOMAIN rows)
  BY DEF Numbers
<1>4. \A r \in starts : r \in before(r)
  BY <1>2, <1>3
<1>5. \A r : \A q \in before(r) : ~\E s \in starts : r < s /\ s <= q
  OBVIOUS
<1> HIDE DEF starts, before, segments
<1>6. \A r : Numbers(before(r))
  BY <1>2, <1>3, FS_Subset DEF Numbers
<1>7. \A r \in starts : LastOf(before(r)) \in before(r)
  BY <1>4, <1>6, LastIs
<1>8. /\ List(order) /\ \A k \in DOMAIN order : order[k] \in starts
      /\ \A k, l \in DOMAIN order : order[k] = order[l] => k = l
  <2>1. starts \in SUBSET Nat /\ IsFiniteSet(starts)
    BY <1>2, <1>3, FS_Subset
  <2> QED BY <2>1, AscendingIs
<1> HIDE DEF order
<1>9. /\ DOMAIN segments = DOMAIN order /\ segments = [i \in DOMAIN segments |-> segments[i]]
      /\ \A i \in DOMAIN segments : segments[i][1] = order[i] /\ segments[i][2] = LastOf(before(order[i]))
  BY <1>1
<1>10. List(segments)
  BY <1>8, <1>9, ListMapped
<1>11. ASSUME NEW i \in DOMAIN segments
       PROVE  /\ segments[i][1] \in starts /\ segments[i][2] \in before(segments[i][1])
              /\ segments[i][1] \in Nat /\ segments[i][2] \in Nat
  <2>1. segments[i][1] \in starts /\ segments[i][2] \in before(segments[i][1])
    BY <1>7, <1>8, <1>9
  <2> QED BY <1>2, <1>3, <2>1
<1>12. ASSUME NEW i \in DOMAIN segments, NEW j \in DOMAIN segments, i # j
       PROVE  segments[i][2] < segments[j][1] \/ segments[j][2] < segments[i][1]
  <2>1. segments[i][1] # segments[j][1]
    BY <1>8, <1>9, <1>12
  <2>2. CASE segments[i][1] < segments[j][1]
    <3>1. ~(segments[j][1] <= segments[i][2])
      BY <1>5, <1>11, <2>2
    <3> QED BY <1>11, <3>1
  <2>3. CASE segments[j][1] < segments[i][1]
    <3>1. ~(segments[i][1] <= segments[j][2])
      BY <1>5, <1>11, <2>3
    <3> QED BY <1>11, <3>1
  <2> QED BY <1>11, <2>1, <2>2, <2>3
<1> QED BY <1>10, <1>11, <1>12 DEF segments

\* A header is one of those there are, or none.
LEMMA HeaderIsThere ==
  ASSUME NEW H, NEW last \in Nat,
         \A h \in H : h.score \in Int /\ h.score <= Full /\ h.row \in Nat /\ h.row <= last
  PROVE  BestHeader(H) = None \/ BestHeader(H) \in H
<1> DEFINE C == {h \in H : Cardinality({h.roles[col] : col \in DOMAIN h.roles}) >= 2}
           better(h, g) == g.score < h.score \/ (g.score = h.score /\ g.row <= h.row)
<1>1. BestHeader(H) = IF C = {} THEN None ELSE CHOOSE h \in C : \A g \in C : better(h, g)
  BY DEF BestHeader
<1>2. C \in SUBSET H
  OBVIOUS
<1> HIDE DEF C
<1> SUFFICES ASSUME C # {} PROVE \E h \in C : \A g \in C : better(h, g)
  BY <1>1, <1>2
<1> DEFINE S == {Full - h.score : h \in C}
<1>3. S \subseteq Nat /\ S # {}
  BY <1>2 DEF Full
<1> HIDE DEF S
<1>4. PICK n \in S : \A m \in S : n <= m
  BY <1>3, LeastElement
<1> DEFINE B == {h \in C : Full - h.score = n}
           R == {last - h.row : h \in B}
<1>5. B # {} /\ B \in SUBSET C
  BY <1>4 DEF S
<1> HIDE DEF B
<1>6. R \subseteq Nat /\ R # {}
  BY <1>2, <1>5
<1> HIDE DEF R
<1>7. PICK k \in R : \A m \in R : k <= m
  BY <1>6, LeastElement
<1>8. PICK h \in B : last - h.row = k
  BY <1>7 DEF R
<1>9. ASSUME NEW g \in C PROVE better(h, g)
  <2>1. /\ h \in C /\ Full - h.score = n
        /\ h.score \in Int /\ g.score \in Int /\ h.row \in Nat /\ g.row \in Nat /\ Full \in Int
    BY <1>2, <1>5, <1>8 DEF B, Full
  <2>2. n <= Full - g.score
    BY <1>4 DEF S
  <2>3. g.score <= h.score
    BY <2>1, <2>2
  <2>4. g.score = h.score => last - h.row <= last - g.row
    <3>1. g.score = h.score => g \in B
      BY <2>1 DEF B
    <3>2. g \in B => last - g.row \in R
      BY DEF R
    <3> QED BY <1>7, <1>8, <3>1, <3>2
  <2> QED BY <2>1, <2>3, <2>4
<1> QED BY <1>5, <1>8, <1>9

\* The header that is chosen is one of the candidates.
LEMMA HeaderScore ==
  ASSUME NEW row, NEW inRow, List(inRow), Len(inRow) >= 1, NEW roles, IsFiniteSet(DOMAIN roles)
  PROVE  /\ HeaderOf(row, inRow, roles).score \in Int /\ HeaderOf(row, inRow, roles).score <= Full
         /\ HeaderOf(row, inRow, roles).row = row /\ HeaderOf(row, inRow, roles).roles = roles
<1> DEFINE T == {i \in DOMAIN inRow : IsText(inRow[i])}
           t == Cardinality(T)
           c == Cardinality(DOMAIN roles)
           n == Len(inRow)
<1>1. t \in Nat /\ c \in Nat /\ n \in Nat \ {0}
  <2>1. IsFiniteSet(DOMAIN inRow) /\ Len(inRow) \in Nat
    BY ListPlaces
  <2>2. T \in SUBSET DOMAIN inRow
    OBVIOUS
  <2> HIDE DEF T
  <2> QED BY <2>1, <2>2, FS_Subset, FS_CardinalityType
<1>2. /\ HeaderOf(row, inRow, roles).score = Capped(3300 + ((1500 * t) \div n) + ((1200 * c) \div n), Full)
      /\ HeaderOf(row, inRow, roles).row = row /\ HeaderOf(row, inRow, roles).roles = roles
  BY DEF HeaderOf
<1> HIDE DEF t, c, n
<1>3. (1500 * t) \div n \in Int /\ (1200 * c) \div n \in Int
  BY <1>1
<1> DEFINE a == (1500 * t) \div n
           b == (1200 * c) \div n
<1> HIDE DEF a, b
<1>4. Capped(3300 + a + b, Full) \in Int /\ Capped(3300 + a + b, Full) <= Full
  <2>1. a \in Int /\ b \in Int
    BY <1>3 DEF a, b
  <2> QED BY <2>1 DEF Capped, Full
<1> QED BY <1>2, <1>4 DEF a, b

\* The header of a segment is one of its rows, and names columns.
LEMMA HeaderIsInside ==
  ASSUME NEW rows, Rowed(rows), NEW from \in Nat, NEW to \in Nat
  PROVE  LET h == DetectHeader(rows, RowsIn(rows, from, to))
         IN h = None \/ (h.row \in Nat /\ from <= h.row /\ h.row <= to /\ Numbers(DOMAIN h.roles))
<1> DEFINE I == {r \in DOMAIN rows : from <= r /\ r <= to}
           segment == RowsIn(rows, from, to)
           header(i) == HeaderOf(segment[i], rows[segment[i]], HeaderRoles(rows[segment[i]]))
           H == {header(i) : i \in DOMAIN segment \intersect 1 .. 8}
           h == DetectHeader(rows, segment)
<1>1. h = BestHeader(H)
  BY DEF DetectHeader
<1>2. List(segment) /\ \A k \in DOMAIN segment : segment[k] \in I
  <2>1. I \in SUBSET DOMAIN rows /\ segment = Ascending(I)
    BY DEF RowsIn
  <2> HIDE DEF I, segment
  <2>2. I \in SUBSET Nat /\ IsFiniteSet(I)
    BY <2>1, FS_Subset DEF Rowed, Numbers
  <2> QED BY <2>1, <2>2, AscendingIs
<1>3. \A r \in I : r \in DOMAIN rows /\ r \in Nat /\ from <= r /\ r <= to
  BY DEF Rowed, Numbers
<1> HIDE DEF I, segment
<1>4. ASSUME NEW i \in DOMAIN segment
      PROVE  /\ header(i).score \in Int /\ header(i).score <= Full
             /\ header(i).row \in Nat /\ from <= header(i).row /\ header(i).row <= to
             /\ Numbers(DOMAIN header(i).roles)
  <2> DEFINE row == segment[i]
             line == rows[row]
             named == {j \in DOMAIN line : HeaderRole(line[j]) # None}
             roles == HeaderRoles(line)
  <2>1. row \in DOMAIN rows /\ row \in Nat /\ from <= row /\ row <= to
    BY <1>2, <1>3
  <2>2. List(line) /\ Len(line) >= 1 /\ \A c \in ToSet(line) : Sited(c)
    BY <2>1 DEF Rowed
  <2>3. DOMAIN roles = {line[j].col : j \in named} /\ named \in SUBSET DOMAIN line
    BY DEF HeaderRoles
  <2>4. header(i) = HeaderOf(row, line, roles)
    OBVIOUS
  <2> HIDE DEF header, row, line, named, roles
  <2>5. Numbers(DOMAIN roles)
    <3> DEFINE C == {line[j] : j \in named}
    <3>1. C \in SUBSET ToSet(line) /\ IsFiniteSet(ToSet(line))
      BY <2>2, <2>3, MembersAreFinite DEF ToSet
    <3>2. DOMAIN roles = {c.col : c \in C}
      BY <2>3
    <3> HIDE DEF C
    <3>3. IsFiniteSet(C) /\ \A c \in C : Sited(c)
      BY <2>2, <3>1, FS_Subset
    <3> QED BY <3>2, <3>3, ColumnsAreNumbers
  <2>6. /\ header(i).score \in Int /\ header(i).score <= Full /\ header(i).row = row /\ header(i).roles = roles
    BY <2>2, <2>4, <2>5, HeaderScore DEF Numbers
  <2> QED BY <2>1, <2>5, <2>6
<1>5. \A g \in H : /\ g.score \in Int /\ g.score <= Full
                   /\ g.row \in Nat /\ from <= g.row /\ g.row <= to /\ Numbers(DOMAIN g.roles)
  BY <1>4
<1> HIDE DEF H, h
<1>6. h = None \/ h \in H
  BY <1>1, <1>5, HeaderIsThere
<1> QED BY <1>5, <1>6 DEF h, segment

\* Every column that is used or named has a role.
LEMMA ColumnsAre ==
  ASSUME NEW rows, Rowed(rows), NEW data \in SUBSET DOMAIN rows, NEW header,
         header = None \/ Numbers(DOMAIN header.roles)
  PROVE  Numbers(DOMAIN InferColumns(rows, data, header))
<1> DEFINE named == IF header = None THEN {} ELSE DOMAIN header.roles
           all == UNION {ToSet(rows[r]) : r \in data}
           used == {c.col : c \in all}
<1>1. DOMAIN InferColumns(rows, data, header) = used \cup named
  BY DEF InferColumns
<1>2. IsFiniteSet(data)
  BY FS_Subset DEF Rowed, Numbers
<1>3. IsFiniteSet(all) /\ \A c \in all : Sited(c)
  <2> DEFINE S == {[q \in data |-> ToSet(rows[q])][r] : r \in data}
             f == [r \in data |-> ToSet(rows[r])]
  <2>1. all = UNION S
    OBVIOUS
  <2>2. IsFiniteSet({f[r] : r \in data})
    <3> HIDE DEF f
    <3> QED BY <1>2, ImageIsFinite
  <2>3. \A r \in data : IsFiniteSet(ToSet(rows[r])) /\ \A c \in ToSet(rows[r]) : Sited(c)
    BY MembersAreFinite DEF Rowed
  <2>4. IsFiniteSet(S) /\ \A E \in S : IsFiniteSet(E) /\ \A c \in E : Sited(c)
    BY <2>2, <2>3
  <2> HIDE DEF S
  <2> QED BY <2>1, <2>4, FS_UNION
<1> HIDE DEF all
<1>4. Numbers(used)
  BY <1>3, ColumnsAreNumbers
<1>5. Numbers(named)
  BY FS_EmptySet DEF Numbers
<1> HIDE DEF used, named
<1> QED BY <1>1, <1>4, <1>5, FS_Union DEF Numbers

-----------------------------------------------------------------------------
(* Tables and their rows                                                   *)

\* A row of a sheet.
RowOf(row, name) ==
  /\ {"sheet", "row", "table", "errors", "quantity", "rate", "amount"} \subseteq DOMAIN row
  /\ row.sheet = name /\ row.row \in Nat /\ Numbers(row.errors)
  /\ Summable(row.quantity) /\ Summable(row.rate) /\ Summable(row.amount)

\* A table of a sheet with its rows, each once.
TableOf(d, name) ==
  /\ Numbers(DOMAIN d.table.columns) /\ List(d.rows)
  /\ \A k \in DOMAIN d.rows : RowOf(d.rows[k], name)
  /\ \A k, l \in DOMAIN d.rows : d.rows[k].row = d.rows[l].row => k = l

\* The rows of a table are between two others.
Between(d, from, to) == \A k \in DOMAIN d.rows : from <= d.rows[k].row /\ d.rows[k].row <= to

\* What a column of a row holds as a number.
LEMMA SourceIsSummable ==
  ASSUME NEW inRow, \A c \in ToSet(inRow) : Sited(c), NEW column
  PROVE  Summable(NumberSource(inRow, column))
<1> DEFINE at == {d \in ToSet(inRow) : d.col = column.col}
           c == CellAt(inRow, column)
<1>1. c = None \/ c \in ToSet(inRow)
  <2>1. c \in {None, CHOOSE d \in at : TRUE} /\ (at = {} => c = None)
    BY DEF CellAt
  <2>2. at # {} => (CHOOSE d \in at : TRUE) \in at
    OBVIOUS
  <2> QED BY <2>1, <2>2
<1> HIDE DEF c
<1>2. NumberSource(inRow, column) = IF c = None THEN None
                                    ELSE IF ~HasNumber(c) THEN None ELSE [col |-> c.col, value |-> NumberOf(c).value]
  BY DEF NumberSource, c
<1>3. CASE c = None \/ ~HasNumber(c)
  BY <1>2, <1>3 DEF Summable
<1>4. CASE c # None /\ HasNumber(c)
  <2>1. NumberSource(inRow, column) = [col |-> c.col, value |-> NumberOf(c).value]
    BY <1>2, <1>4
  <2>2. Summable(NumberOf(c)) /\ NumberOf(c) # None
    BY <1>1, <1>4 DEF Sited, HasNumber
  <2>3. NumberOf(c).value \in Int
    BY <2>2 DEF Summable
  <2> QED BY <2>1, <2>3 DEF Summable
<1> QED BY <1>3, <1>4

\* A normalized row keeps its sheet and its number.
LEMMA RowIsNormalized ==
  ASSUME NEW table, NEW row \in Nat, NEW inRow, List(inRow), \A c \in ToSet(inRow) : Sited(c)
  PROVE  RowOf(NormalizeRow(table, row, inRow), table.sheet) /\ NormalizeRow(table, row, inRow).row = row
<1> DEFINE E == {d \in ToSet(inRow) : d.v.k = "error" \/ (d.v.k = "empty" /\ d.f # None)}
           r == NormalizeRow(table, row, inRow)
<1>1. /\ {"sheet", "row", "table", "errors", "quantity", "rate", "amount"} \subseteq DOMAIN r
      /\ r.sheet = table.sheet /\ r.row = row /\ r.errors = {c.col : c \in E}
      /\ r.quantity = NumberSource(inRow, ColumnOf(table, "quantity"))
      /\ r.rate = NumberSource(inRow, ColumnOf(table, "rate"))
      /\ r.amount = NumberSource(inRow, ColumnOf(table, "amount"))
  BY DEF NormalizeRow
<1>2. E \in SUBSET ToSet(inRow)
  OBVIOUS
<1> HIDE DEF E, r
<1>3. IsFiniteSet(E) /\ \A c \in E : Sited(c)
  BY <1>2, MembersAreFinite, FS_Subset
<1>4. Numbers(r.errors)
  BY <1>1, <1>3, ColumnsAreNumbers
<1>5. Summable(r.quantity) /\ Summable(r.rate) /\ Summable(r.amount)
  BY <1>1, SourceIsSummable
<1> QED BY <1>1, <1>4, <1>5 DEF RowOf, r

\* Section paths change nothing else of the rows.
LEMMA PathsKeepRows ==
  ASSUME NEW rows, List(rows), NEW name, \A k \in DOMAIN rows : RowOf(rows[k], name)
  PROVE  /\ List(SectionPaths(rows)) /\ DOMAIN SectionPaths(rows) = DOMAIN rows
         /\ \A k \in DOMAIN rows : RowOf(SectionPaths(rows)[k], name) /\ SectionPaths(rows)[k].row = rows[k].row
<1> DEFINE new == SectionPaths(rows)
<1>1. /\ DOMAIN new = DOMAIN rows /\ new = [i \in DOMAIN new |-> new[i]]
      /\ \A i \in DOMAIN rows : new[i] \in {rows[i], [rows[i] EXCEPT !.path = SectionPath(rows, i)]}
  BY DEF SectionPaths
<1> HIDE DEF new
<1>2. List(new)
  BY <1>1, ListMapped
<1>3. ASSUME NEW k \in DOMAIN rows PROVE RowOf(new[k], name) /\ new[k].row = rows[k].row
  <2>1. ASSUME NEW path, NEW row, RowOf(row, name)
        PROVE  RowOf([row EXCEPT !.path = path], name) /\ [row EXCEPT !.path = path].row = row.row
    <3>1. /\ DOMAIN [row EXCEPT !.path = path] = DOMAIN row
          /\ [row EXCEPT !.path = path].sheet = row.sheet
          /\ [row EXCEPT !.path = path].row = row.row
          /\ [row EXCEPT !.path = path].errors = row.errors
          /\ [row EXCEPT !.path = path].quantity = row.quantity
          /\ [row EXCEPT !.path = path].rate = row.rate
          /\ [row EXCEPT !.path = path].amount = row.amount
      BY <2>1 DEF RowOf
    <3> QED BY <2>1, <3>1 DEF RowOf
  <2>2. CASE new[k] = rows[k]
    BY <2>2
  <2>3. CASE new[k] = [rows[k] EXCEPT !.path = SectionPath(rows, k)]
    BY <2>1, <2>3
  <2> QED BY <1>1, <2>2, <2>3
<1> QED BY <1>1, <1>2, <1>3 DEF new

\* Nothing, or one table of a sheet with the rows of a part of it.
Part(s, name, from, to) == s = <<>> \/ \E d : s = <<d>> /\ TableOf(d, name) /\ Between(d, from, to)

\* Below a header there is at most one table, with rows of its segment, each once.
LEMMA BelowIsPart ==
  ASSUME NEW sheet, NEW rows, Rowed(rows), NEW segment, segment[1] \in Nat, segment[2] \in Nat,
         NEW header, header = None \/ Numbers(DOMAIN header.roles), NEW start \in Nat, segment[1] <= start
  PROVE  Part(BelowHeader(sheet, segment, rows, header, start), sheet.name, segment[1], segment[2])
<1> DEFINE data == {r \in DOMAIN rows : start <= r /\ r <= segment[2]}
           columns == InferColumns(rows, data, header)
           table == TableWith(sheet, header, start, segment[2], columns)
           order == Ascending(data)
           lines == [k \in DOMAIN order |-> NormalizeRow(table, order[k], rows[order[k]])]
           d == WithRows(table, SectionPaths(lines))
<1>1. BelowHeader(sheet, segment, rows, header, start) \in {<<>>, <<d>>}
  BY DEF BelowHeader, WithTable
<1>2. data \in SUBSET DOMAIN rows /\ \A r \in data : start <= r /\ r <= segment[2]
  OBVIOUS
<1> HIDE DEF data
<1>3. data \in SUBSET Nat /\ IsFiniteSet(data)
  BY <1>2, FS_Subset DEF Rowed, Numbers
<1>4. /\ List(order) /\ \A k \in DOMAIN order : order[k] \in data
      /\ \A k, l \in DOMAIN order : order[k] = order[l] => k = l
  BY <1>3, AscendingIs
<1>5. Numbers(DOMAIN columns)
  BY <1>2, ColumnsAre
<1> HIDE DEF columns, order
<1>6. table.sheet = sheet.name /\ d.table.columns = columns /\ d.rows = SectionPaths(lines)
  <2>1. table.sheet = sheet.name /\ "columns" \in DOMAIN table /\ table.columns = columns
    BY DEF TableWith
  <2> HIDE DEF table
  <2>2. PICK e : d.table = [table EXCEPT !.evidence = e]
    BY DEF WithRows
  <2>3. d.rows = SectionPaths(lines)
    BY DEF WithRows
  <2> HIDE DEF d
  <2>4. [table EXCEPT !.evidence = e].columns = columns
    BY <2>1
  <2> QED BY <2>1, <2>2, <2>3, <2>4
<1> HIDE DEF table
<1>7. ASSUME NEW k \in DOMAIN order
      PROVE  RowOf(lines[k], sheet.name) /\ lines[k].row = order[k]
  <2>1. order[k] \in DOMAIN rows /\ order[k] \in Nat
    BY <1>2, <1>3, <1>4
  <2>2. List(rows[order[k]]) /\ \A c \in ToSet(rows[order[k]]) : Sited(c)
    BY <2>1 DEF Rowed
  <2>3. lines[k] = NormalizeRow(table, order[k], rows[order[k]])
    OBVIOUS
  <2> DEFINE at == order[k]
             of == rows[at]
  <2>4. at \in Nat /\ List(of) /\ \A c \in ToSet(of) : Sited(c)
    BY <2>1, <2>2
  <2>5. lines[k] = NormalizeRow(table, at, of)
    BY <2>3
  <2> HIDE DEF lines, at, of, d
  <2>6. RowOf(NormalizeRow(table, at, of), table.sheet) /\ NormalizeRow(table, at, of).row = at
    BY <2>4, RowIsNormalized
  <2>7. table.sheet = sheet.name
    BY <1>6
  <2> QED BY <2>5, <2>6, <2>7 DEF at
<1>8. List(lines) /\ DOMAIN lines = DOMAIN order
  BY <1>4, ListMapped
<1> HIDE DEF lines, d
<1>9. /\ List(d.rows) /\ DOMAIN d.rows = DOMAIN order
      /\ \A k \in DOMAIN order : RowOf(d.rows[k], sheet.name) /\ d.rows[k].row = order[k]
  <2> DEFINE name == sheet.name
  <2>1. \A k \in DOMAIN lines : RowOf(lines[k], name)
    BY <1>7, <1>8
  <2> HIDE DEF name
  <2>2. /\ List(SectionPaths(lines)) /\ DOMAIN SectionPaths(lines) = DOMAIN lines
        /\ \A k \in DOMAIN lines : RowOf(SectionPaths(lines)[k], name) /\ SectionPaths(lines)[k].row = lines[k].row
    BY <1>8, <2>1, PathsKeepRows
  <2> QED BY <1>6, <1>7, <1>8, <2>2 DEF name
<1>10. TableOf(d, sheet.name)
  BY <1>4, <1>5, <1>6, <1>9 DEF TableOf
<1>11. Between(d, segment[1], segment[2])
  <2>1. \A r \in data : segment[1] <= r /\ r <= segment[2]
    BY <1>2, <1>3
  <2> QED BY <1>4, <1>9, <2>1 DEF Between
<1> QED BY <1>1, <1>10, <1>11 DEF Part

\* A segment adds at most one table.
LEMMA SegmentIsPart ==
  ASSUME NEW sheet, NEW rows, Rowed(rows), NEW segment, segment[1] \in Nat, segment[2] \in Nat
  PROVE  Part(AddSegment(sheet, rows, segment), sheet.name, segment[1], segment[2])
<1> DEFINE inside == RowsIn(rows, segment[1], segment[2])
           h == DetectHeader(rows, inside)
           start == IF h = None THEN segment[1] ELSE h.row + 1
           below == BelowHeader(sheet, segment, rows, h, start)
<1>1. AddSegment(sheet, rows, segment) \in {<<>>, below}
  BY DEF AddSegment
<1>2. h = None \/ (h.row \in Nat /\ segment[1] <= h.row /\ Numbers(DOMAIN h.roles))
  BY HeaderIsInside
<1> HIDE DEF h
<1>3. start \in Nat /\ segment[1] <= start
  BY <1>2
<1> HIDE DEF start
<1>4. Part(below, sheet.name, segment[1], segment[2])
  BY <1>2, <1>3, BelowIsPart
<1> HIDE DEF below
<1> QED BY <1>1, <1>4 DEF Part

\* The tables of a sheet, none of them with a row of another.
Tables(t, name) ==
  /\ List(t)
  /\ \A k \in DOMAIN t : TableOf(t[k], name)
  /\ \A k, l \in DOMAIN t : \A a \in DOMAIN t[k].rows, b \in DOMAIN t[l].rows :
       t[k].rows[a].row = t[l].rows[b].row => k = l

\* No two tables of a sheet share a row: the segments are disjoint.
LEMMA SheetHasTables ==
  ASSUME NEW sheet, NEW rows, Rowed(rows)
  PROVE  Tables(AddSheet(sheet, rows), sheet.name)
<1> DEFINE segments == CandidateSegments(rows)
           s == [i \in DOMAIN segments |-> AddSegment(sheet, rows, segments[i])]
           t == FlattenSeq(s)
<1>1. AddSheet(sheet, rows) = t
  BY DEF AddSheet, Each
<1>2. /\ List(segments)
      /\ \A i \in DOMAIN segments : segments[i][1] \in Nat /\ segments[i][2] \in Nat
      /\ \A i, j \in DOMAIN segments :
           i # j => segments[i][2] < segments[j][1] \/ segments[j][2] < segments[i][1]
  BY SegmentsAre DEF Rowed
<1> HIDE DEF segments
<1>3. List(s) /\ DOMAIN s = DOMAIN segments
  BY <1>2, ListMapped
<1>4. \A i \in DOMAIN s : Part(s[i], sheet.name, segments[i][1], segments[i][2])
  BY <1>2, SegmentIsPart
<1> HIDE DEF s
<1>5. ASSUME NEW i \in DOMAIN s
      PROVE  /\ List(s[i]) /\ \A k, l \in DOMAIN s[i] : k = l
             /\ \A k \in DOMAIN s[i] : TableOf(s[i][k], sheet.name) /\ Between(s[i][k], segments[i][1], segments[i][2])
  <2>1. CASE s[i] = <<>>
    <3>1. DOMAIN s[i] = {}
      BY <2>1
    <3> QED BY <2>1, <3>1, ShortLists
  <2>2. ASSUME NEW d, s[i] = <<d>>, TableOf(d, sheet.name), Between(d, segments[i][1], segments[i][2])
        PROVE  /\ List(s[i]) /\ \A k, l \in DOMAIN s[i] : k = l
               /\ \A k \in DOMAIN s[i] : TableOf(s[i][k], sheet.name) /\ Between(s[i][k], segments[i][1], segments[i][2])
    <3>1. List(s[i]) /\ DOMAIN s[i] = {1} /\ s[i][1] = d
      BY <2>2, ShortLists
    <3> QED BY <2>2, <3>1
  <2> QED BY <1>4, <2>1, <2>2 DEF Part
<1>6. List(t) /\ \E p, q : Nested(p, q, s, t)
  BY <1>3, <1>5, FlattenIs
<1> HIDE DEF t
<1>7. PICK p, q : Nested(p, q, s, t)
  BY <1>6
<1>8. ASSUME NEW k \in DOMAIN t
      PROVE  /\ p[k] \in DOMAIN segments /\ q[k] \in DOMAIN s[p[k]]
             /\ TableOf(t[k], sheet.name) /\ Between(t[k], segments[p[k]][1], segments[p[k]][2])
  BY <1>3, <1>5, <1>7 DEF Nested
<1>9. ASSUME NEW k \in DOMAIN t, NEW l \in DOMAIN t, NEW a \in DOMAIN t[k].rows, NEW b \in DOMAIN t[l].rows,
             t[k].rows[a].row = t[l].rows[b].row
      PROVE  k = l
  <2>1. t[k].rows[a].row \in Nat
    BY <1>8 DEF TableOf, RowOf
  <2>2. /\ segments[p[k]][1] <= t[k].rows[a].row /\ t[k].rows[a].row <= segments[p[k]][2]
        /\ segments[p[l]][1] <= t[k].rows[a].row /\ t[k].rows[a].row <= segments[p[l]][2]
    BY <1>8, <1>9 DEF Between
  <2>3. p[k] = p[l]
    BY <1>2, <1>8, <2>1, <2>2
  <2>4. q[k] = q[l]
    BY <1>3, <1>5, <1>8, <2>3
  <2> QED BY <1>7, <2>3, <2>4 DEF Nested
<1> QED BY <1>1, <1>6, <1>8, <1>9 DEF Tables

\* The sheets that are read: their names are their own if D holds.
Workbook(workbook) == List(workbook) /\ \A i \in DOMAIN workbook : Tabled(workbook[i])
OwnNames(workbook) == \A i, j \in DOMAIN workbook : workbook[i].name = workbook[j].name => i = j

\* A row of a sheet with the place of its table.
NumberedRow(row, i, name, number) ==
  /\ row.sheet = name /\ row.row = number /\ row.table = i /\ Numbers(row.errors)
  /\ Summable(row.quantity) /\ Summable(row.rate) /\ Summable(row.amount)

\* What detection has read of the rows: tables that are there and integers.
Reckoned(fd) ==
  \A k \in DOMAIN fd.rows :
    /\ fd.rows[k].table \in DOMAIN fd.tables
    /\ Summable(fd.rows[k].quantity) /\ Summable(fd.rows[k].rate) /\ Summable(fd.rows[k].amount)

\* What detection gives the rules: rows that are distinct when the names are.
LEMMA DetectionIs ==
  ASSUME NEW workbook, Workbook(workbook)
  PROVE  /\ Detected(Detect(workbook)) /\ Reckoned(Detect(workbook))
         /\ OwnNames(workbook) => Distinct(Detect(workbook).rows)
<1> DEFINE ofSheet(sheet) == IF sheet.kind # "worksheet" \/ sheet.cells = <<>> THEN <<>>
                             ELSE AddSheet(sheet, CellsByRow(sheet))
           s == [i \in DOMAIN workbook |-> ofSheet(workbook[i])]
           u == FlattenSeq(s)
           fd == Detect(workbook)
<1>1. fd = Numbered(u)
  BY DEF Detect, Each
<1>2. List(workbook) /\ \A i \in DOMAIN workbook : Tabled(workbook[i])
  BY DEF Workbook
<1>3. List(s) /\ DOMAIN s = DOMAIN workbook
  BY <1>2, ListMapped
<1>4. ASSUME NEW i \in DOMAIN workbook PROVE Tables(s[i], workbook[i].name)
  <2>1. Tables(<<>>, workbook[i].name)
    <3>1. DOMAIN <<>> = {}
      OBVIOUS
    <3> QED BY <3>1, ShortLists DEF Tables
  <2>2. Tables(AddSheet(workbook[i], CellsByRow(workbook[i])), workbook[i].name)
    BY <1>2, RowsAre, SheetHasTables
  <2> QED BY <2>1, <2>2
<1> HIDE DEF s
<1>5. List(u) /\ \E p, q : Nested(p, q, s, u)
  BY <1>3, <1>4, FlattenIs DEF Tables
<1> HIDE DEF u
<1>6. PICK p, q : Nested(p, q, s, u)
  BY <1>5
<1> DEFINE name == [k \in DOMAIN u |-> workbook[p[k]].name]
<1>7. ASSUME NEW k \in DOMAIN u
      PROVE  TableOf(u[k], name[k])
  BY <1>3, <1>4, <1>6 DEF Nested, Tables
<1>8. ASSUME OwnNames(workbook), NEW k \in DOMAIN u, NEW l \in DOMAIN u,
             NEW a \in DOMAIN u[k].rows, NEW b \in DOMAIN u[l].rows,
             name[k] = name[l], u[k].rows[a].row = u[l].rows[b].row
      PROVE  k = l
  <2>1. /\ p[k] \in DOMAIN workbook /\ q[k] \in DOMAIN s[p[k]] /\ u[k] = s[p[k]][q[k]]
        /\ p[l] \in DOMAIN workbook /\ q[l] \in DOMAIN s[p[l]] /\ u[l] = s[p[l]][q[l]]
    BY <1>3, <1>6 DEF Nested
  <2>2. p[k] = p[l]
    BY <1>8, <2>1 DEF OwnNames
  <2>3. q[k] = q[l]
    BY <1>4, <1>8, <2>1, <2>2 DEF Tables
  <2> QED BY <1>6, <2>2, <2>3 DEF Nested
<1> HIDE DEF name
<1> DEFINE w == [i \in DOMAIN u |-> [r \in DOMAIN u[i].rows |-> [u[i].rows[r] EXCEPT !.table = i]]]
<1>9. fd.tables = [i \in DOMAIN u |-> u[i].table] /\ fd.rows = FlattenSeq(w)
  <2> DEFINE id == [i \in DOMAIN u |-> i]
             v == [i \in DOMAIN id |-> [r \in DOMAIN u[id[i]].rows |-> [u[id[i]].rows[r] EXCEPT !.table = id[i]]]]
  <2>1. fd.tables = [i \in DOMAIN u |-> u[i].table] /\ fd.rows = FlattenSeq(v)
    BY <1>1 DEF Numbered, Each
  <2>2. v = w
    OBVIOUS
  <2> QED BY <2>1, <2>2
<1>10. /\ List(fd.tables) /\ DOMAIN fd.tables = DOMAIN u
       /\ \A i \in DOMAIN fd.tables : Numbers(DOMAIN fd.tables[i].columns)
  <2>1. /\ DOMAIN fd.tables = DOMAIN u /\ fd.tables = [i \in DOMAIN fd.tables |-> fd.tables[i]]
        /\ \A i \in DOMAIN u : fd.tables[i] = u[i].table
    BY <1>9
  <2> HIDE DEF fd
  <2>2. List(fd.tables)
    BY <1>5, <2>1, ListMapped
  <2> QED BY <1>7, <2>1, <2>2 DEF TableOf
<1>11. ASSUME NEW i \in DOMAIN u
       PROVE  /\ List(w[i]) /\ DOMAIN w[i] = DOMAIN u[i].rows
              /\ \A r \in DOMAIN w[i] : NumberedRow(w[i][r], i, name[i], u[i].rows[r].row)
  <2>1. List(u[i].rows) /\ \A r \in DOMAIN u[i].rows : RowOf(u[i].rows[r], name[i])
    BY <1>7 DEF TableOf
  <2>2. /\ DOMAIN w[i] = DOMAIN u[i].rows /\ w[i] = [r \in DOMAIN w[i] |-> w[i][r]]
        /\ \A r \in DOMAIN w[i] : w[i][r] = [u[i].rows[r] EXCEPT !.table = i]
    OBVIOUS
  <2> HIDE DEF w
  <2>3. List(w[i])
    BY <2>1, <2>2, ListMapped
  <2>4. ASSUME NEW row, RowOf(row, name[i])
        PROVE  NumberedRow([row EXCEPT !.table = i], i, name[i], row.row)
    BY <2>4 DEF RowOf, NumberedRow
  <2>5. ASSUME NEW r \in DOMAIN w[i]
        PROVE  NumberedRow(w[i][r], i, name[i], u[i].rows[r].row)
    <3>1. RowOf(u[i].rows[r], name[i]) /\ w[i][r] = [u[i].rows[r] EXCEPT !.table = i]
      BY <2>1, <2>2
    <3> QED BY <2>4, <3>1
  <2> QED BY <2>1, <2>2, <2>3, <2>5
<1>12. List(w) /\ DOMAIN w = DOMAIN u
  BY <1>5, ListMapped
<1> HIDE DEF w, fd
<1>13. List(fd.rows) /\ \E b, c : Nested(b, c, w, fd.rows)
  BY <1>9, <1>11, <1>12, FlattenIs
<1>14. PICK b, c : Nested(b, c, w, fd.rows)
  BY <1>13
<1>15. ASSUME NEW k \in DOMAIN fd.rows
       PROVE  /\ b[k] \in DOMAIN u /\ c[k] \in DOMAIN u[b[k]].rows
              /\ fd.rows[k].sheet = name[b[k]] /\ fd.rows[k].row = u[b[k]].rows[c[k]].row
              /\ Numbers(fd.rows[k].errors)
              /\ fd.rows[k].table = b[k]
              /\ Summable(fd.rows[k].quantity) /\ Summable(fd.rows[k].rate) /\ Summable(fd.rows[k].amount)
  <2>1. /\ b[k] \in DOMAIN w /\ c[k] \in DOMAIN w[b[k]] /\ fd.rows[k] = w[b[k]][c[k]]
    BY <1>14 DEF Nested
  <2>2. b[k] \in DOMAIN u /\ c[k] \in DOMAIN u[b[k]].rows
        /\ NumberedRow(fd.rows[k], b[k], name[b[k]], u[b[k]].rows[c[k]].row)
    BY <1>11, <1>12, <2>1
  <2> QED BY <2>2 DEF NumberedRow
<1>16. ASSUME OwnNames(workbook), NEW k \in DOMAIN fd.rows, NEW l \in DOMAIN fd.rows,
              RowId(fd.rows[k]) = RowId(fd.rows[l])
       PROVE  k = l
  <2>1. fd.rows[k].sheet = fd.rows[l].sheet /\ fd.rows[k].row = fd.rows[l].row
    BY <1>16 DEF RowId
  <2>2. b[k] = b[l]
    BY <1>8, <1>15, <1>16, <2>1
  <2>3. c[k] = c[l]
    BY <1>7, <1>15, <2>1, <2>2 DEF TableOf
  <2> QED BY <1>14, <2>2, <2>3 DEF Nested
<1>17. Reckoned(fd)
  BY <1>10, <1>15 DEF Reckoned
<1> QED BY <1>10, <1>13, <1>15, <1>16, <1>17 DEF Detected, Distinct, fd

-----------------------------------------------------------------------------
(* Numbers in texts                                                        *)

\* A part of a sequence.
LEMMA PartIsList ==
  ASSUME NEW s, NEW m \in Int, NEW n \in Int
  PROVE  List(SubSeq(s, m, n))
<1> DEFINE S == {s[i] : i \in m .. n}
<1>1. SubSeq(s, m, n) \in Seq(S)
  BY SubSeqProperties
<1> QED BY <1>1, SequenceIsList

\* The places where a symbol stands.
LEMMA PlacesAre ==
  ASSUME NEW s, List(s), NEW c
  PROVE  /\ Numbers(Places(s, c)) /\ Places(s, c) \in SUBSET DOMAIN s
         /\ Places(s, c) # {} => LastOf(Places(s, c)) \in Nat
<1>1. Len(s) \in Nat /\ DOMAIN s = 1 .. Len(s) /\ IsFiniteSet(DOMAIN s) /\ Places(s, c) \in SUBSET DOMAIN s
  BY ListPlaces DEF Places
<1>2. Numbers(Places(s, c))
  BY <1>1, FS_Subset DEF Numbers
<1>3. Places(s, c) # {} => LastOf(Places(s, c)) \in Places(s, c)
  BY <1>2, LastIs
<1> QED BY <1>1, <1>2, <1>3

\* A numeral without its separators, or with a point for the last of them.
LEMMA SeparatedIs ==
  ASSUME NEW s, List(s), NEW sep
  PROVE  /\ List(Without(s, sep))
         /\ Places(s, sep) # {} => List(WithDecimal(s, sep))
<1>1. List(Without(s, sep))
  <2> DEFINE T == {i \in DOMAIN s : s[i] # sep}
  <2>1. Without(s, sep) = Picked(s, T) /\ T \in SUBSET DOMAIN s
    BY DEF Without, Select, Picked
  <2> HIDE DEF T
  <2> QED BY <2>1, PickedIs
<1>2. ASSUME Places(s, sep) # {} PROVE List(WithDecimal(s, sep))
  <2> DEFINE last == LastOf(Places(s, sep))
             u == Before(s, last)
             v == After(s, last)
             U == {i \in DOMAIN u : u[i] \notin Separators}
             V == {i \in DOMAIN v : v[i] \notin Separators}
  <2>1. WithDecimal(s, sep) = Picked(u, U) \o <<".">> \o Picked(v, V)
    BY DEF WithDecimal, Select, Picked
  <2>2. last \in Nat /\ Len(s) \in Nat
    BY <1>2, PlacesAre, ListPlaces
  <2>3. U \in SUBSET DOMAIN u /\ V \in SUBSET DOMAIN v
    OBVIOUS
  <2> HIDE DEF last, U, V
  <2>4. List(u) /\ List(v)
    <3>1. 1 \in Int /\ last - 1 \in Int /\ last + 1 \in Int /\ Len(s) \in Int
      BY <2>2
    <3> QED BY <3>1, PartIsList DEF Before, After
  <2> HIDE DEF u, v
  <2>5. List(Picked(u, U)) /\ List(Picked(v, V)) /\ List(<<".">>)
    BY <2>3, <2>4, PickedIs, ShortLists
  <2>6. List(Picked(u, U) \o <<".">>)
    BY <2>5, ListsJoin
  <2> QED BY <2>1, <2>5, <2>6, ListsJoin
<1> QED BY <1>1, <1>2

\* What is left of a numeral when its separators are understood.
LEMMA SeparatorsAreNormal ==
  ASSUME NEW s, List(s)
  PROVE  List(NormalizeSeparators(s)[1])
<1> DEFINE sep == IF Places(s, ".") # {} THEN "." ELSE ","
           both == IF LastOf(Places(s, ".")) > LastOf(Places(s, ",")) THEN "." ELSE ","
           n == NormalizeSeparators(s)
<1>1. CASE Places(s, ".") # {} /\ Places(s, ",") # {}
  <2>1. n = <<WithDecimal(s, both), 95>> /\ Places(s, both) # {}
    BY <1>1 DEF NormalizeSeparators
  <2> HIDE DEF n, both
  <2> QED BY <2>1, SeparatedIs DEF n
<1>2. CASE ~(Places(s, ".") # {} /\ Places(s, ",") # {})
  <2>1. \/ n = <<s, 100>>
        \/ Places(s, sep) # {} /\ n[1] \in {Without(s, sep), WithDecimal(s, sep)}
    BY <1>2 DEF NormalizeSeparators
  <2> HIDE DEF n, sep
  <2> QED BY <2>1, SeparatedIs DEF n
<1> QED BY <1>1, <1>2

\* A digit is a small number.
LEMMA DigitIsSmall == \A d : ValueOf(d) \in 0 .. 9
<1> SUFFICES ASSUME NEW d PROVE ValueOf(d) \in 0 .. 9
  OBVIOUS
<1>1. \E i \in 0 .. 9 : d \in Digits => DigitOf[i] = d
  <2>1. 0 \in 0 .. 9
    OBVIOUS
  <2> QED BY <2>1 DEF Digits
<1> QED BY <1>1 DEF ValueOf

\* h reads the digits of s from the left.
Reads(h, s, n) == h = [k \in 0 .. n |-> IF k = 0 THEN 0 ELSE 10 * h[k - 1] + ValueOf(s[k])]

\* There is such a function.
LEMMA ReadsExists ==
  ASSUME NEW s, NEW n \in Nat
  PROVE  \E h : Reads(h, s, n)
<1> DEFINE Bad == {m \in Nat : ~ \E h : Reads(h, s, m)}
<1> SUFFICES ASSUME Bad # {} PROVE FALSE
  OBVIOUS
<1>1. PICK m \in Bad : \A l \in Bad : m <= l
  BY LeastElement
<1>2. m # 0
  <2>1. \A k \in 0 .. 0 : k = 0
    OBVIOUS
  <2>2. Reads([k \in 0 .. 0 |-> 0], s, 0)
    BY <2>1 DEF Reads
  <2> QED BY <1>1, <2>2
<1>3. m - 1 \in Nat /\ m - 1 \notin Bad
  BY <1>1, <1>2
<1>4. PICK h : Reads(h, s, m - 1)
  BY <1>3
<1> DEFINE g == [k \in 0 .. m |-> IF k = 0 THEN 0 ELSE 10 * h[k - 1] + ValueOf(s[k])]
<1>5. \A k \in 0 .. m : k # 0 => k - 1 \in 0 .. m - 1 /\ k - 1 \in 0 .. m
  BY <1>1
<1>6. \A k \in 0 .. m - 1 : h[k] = IF k = 0 THEN 0 ELSE 10 * h[k - 1] + ValueOf(s[k])
  BY <1>4 DEF Reads
<1>7. \A k \in 0 .. m : g[k] = IF k = 0 THEN 0 ELSE 10 * h[k - 1] + ValueOf(s[k])
  OBVIOUS
<1>8. g = [k \in 0 .. m |-> g[k]]
  OBVIOUS
<1> HIDE DEF g
<1>9. \A k \in 0 .. m - 1 : g[k] = h[k]
  <2>1. \A k \in 0 .. m - 1 : k \in 0 .. m
    BY <1>1
  <2> QED BY <1>6, <1>7, <2>1
<1>10. \A k \in 0 .. m : g[k] = IF k = 0 THEN 0 ELSE 10 * g[k - 1] + ValueOf(s[k])
  BY <1>5, <1>7, <1>9
<1>11. Reads(g, s, m)
  BY <1>8, <1>10 DEF Reads
<1> QED BY <1>1, <1>11

\* What it reads is an integer.
LEMMA ReadsIs ==
  ASSUME NEW s, NEW n \in Nat, NEW h, Reads(h, s, n)
  PROVE  h[n] \in Int
<1> DEFINE Bad == {k \in 0 .. n : h[k] \notin Int}
<1> SUFFICES ASSUME Bad # {} PROVE FALSE
  OBVIOUS
<1>0. Bad \subseteq Nat
  OBVIOUS
<1>1. PICK k \in Bad : \A l \in Bad : k <= l
  BY <1>0, LeastElement
<1>2. \A l \in 0 .. n : h[l] = IF l = 0 THEN 0 ELSE 10 * h[l - 1] + ValueOf(s[l])
  BY DEF Reads
<1>3. k # 0
  BY <1>1, <1>2
<1>4. k - 1 \in 0 .. n /\ k - 1 \notin Bad
  BY <1>1, <1>3
<1>5. h[k - 1] \in Int /\ ValueOf(s[k]) \in Int
  BY <1>4, DigitIsSmall
<1>6. h[k] = 10 * h[k - 1] + ValueOf(s[k])
  BY <1>1, <1>2, <1>3
<1> QED BY <1>1, <1>5, <1>6

\* A decimal number is none or an integer of thousandths.
LEMMA DecimalIs ==
  ASSUME NEW s, List(s)
  PROVE  Summable(DecimalOf(s))
<1> DEFINE signed == s # <<>> /\ s[1] \in {"+", "-"}
           body == IF signed THEN Tail(s) ELSE s
           dots == Places(body, ".")
           whole == IF dots = {} THEN body ELSE Before(body, LastOf(dots))
           part == IF dots = {} THEN <<>> ELSE After(body, LastOf(dots))
           three == [i \in 1 .. 3 |-> IF i <= Len(part) THEN part[i] ELSE "0"]
           t == whole \o three
           n == Len(t)
           size == (CHOOSE h : Reads(h, t, n))[n]
<1>1. DecimalOf(s) = None \/ DecimalOf(s) = [value |-> IF signed /\ s[1] = "-" THEN -size ELSE size]
  BY Zenon DEF DecimalOf, Reads
<1>2. List(body)
  <2>1. s # <<>> => List(Tail(s))
    <3> SUFFICES ASSUME s # <<>> PROVE List(Tail(s))
      OBVIOUS
    <3>1. Tail(s) \in Seq(Members(s))
      BY HeadTailProperties DEF List
    <3> QED BY <3>1, SequenceIsList
  <2> QED BY <2>1
<1> HIDE DEF body
<1>3. List(whole)
  <2>1. CASE dots = {}
    BY <1>2, <2>1
  <2>2. CASE dots # {}
    <3>1. LastOf(dots) \in Nat
      BY <1>2, <2>2, PlacesAre
    <3>2. 1 \in Int /\ LastOf(dots) - 1 \in Int
      BY <3>1
    <3> QED BY <2>2, <3>2, PartIsList DEF Before
  <2> QED BY <2>1, <2>2
<1>4. List(three)
  <2>1. three \in Seq({three[i] : i \in 1 .. 3})
    <3> HIDE DEF part
    <3> QED OBVIOUS
  <2> HIDE DEF three
  <2> QED BY <2>1, SequenceIsList
<1> HIDE DEF whole, three
<1>5. List(t)
  BY <1>3, <1>4, ListsJoin
<1> HIDE DEF t
<1>6. n \in Nat
  BY <1>5, ListPlaces
<1>7. size \in Int
  <2> HIDE DEF n
  <2>1. Reads(CHOOSE h : Reads(h, t, n), t, n)
    BY <1>6, ReadsExists
  <2> QED BY <1>6, <2>1, ReadsIs
<1> HIDE DEF size, signed
<1>8. PICK v \in Int : DecimalOf(s) = None \/ DecimalOf(s) = [value |-> v]
  BY <1>1, <1>7
<1> QED BY <1>8 DEF Summable

\* Its sign and a percentage leave it one.
LEMMA NumberStaysSummable ==
  ASSUME NEW number, Summable(number), NEW negative, NEW percent, NEW confidence
  PROVE  Summable(NumberOrNone(number, negative, percent, confidence))
<1>1. CASE number = None
  BY <1>1 DEF NumberOrNone, Summable
<1>2. CASE number # None
  <2> DEFINE x == IF ~negative THEN number.value ELSE IF number.value < 0 THEN number.value ELSE -number.value
             d == IF percent THEN 100 ELSE 1
             q == x \div d
  <2>1. number.value \in Int
    BY <1>2 DEF Summable
  <2>2. x \in Int /\ d \in Nat \ {0}
    BY <2>1
  <2>3. NumberOrNone(number, negative, percent, confidence) = [value |-> q, confidence |-> confidence]
    BY <1>2 DEF NumberOrNone
  <2> HIDE DEF x, d
  <2>4. q \in Int
    BY <2>2
  <2> HIDE DEF q
  <2> QED BY <2>3, <2>4 DEF Summable
<1> QED BY <1>1, <1>2

\* What is left between the outermost symbols of a number.
LEMMA TrimmedIs ==
  ASSUME NEW s, List(s)
  PROVE  List(TrimAffixes(s))
<1> DEFINE keep == {i \in DOMAIN s : s[i] \in Numeric}
           first == CHOOSE i \in keep : \A j \in keep : i <= j
<1>1. CASE keep = {}
  BY <1>1, ShortLists DEF TrimAffixes
<1>2. CASE keep # {}
  <2>1. TrimAffixes(s) = SubSeq(s, first, LastOf(keep))
    BY <1>2 DEF TrimAffixes
  <2>2. Numbers(keep)
    <3>1. Len(s) \in Nat /\ DOMAIN s = 1 .. Len(s) /\ IsFiniteSet(DOMAIN s) /\ keep \in SUBSET DOMAIN s
      BY ListPlaces
    <3> HIDE DEF keep
    <3> QED BY <3>1, FS_Subset DEF Numbers
  <2> HIDE DEF keep
  <2>3. \E i \in keep : \A j \in keep : i <= j
    BY <1>2, <2>2, LeastElement DEF Numbers
  <2>4. first \in keep
    BY <2>3
  <2>5. LastOf(keep) \in keep
    BY <1>2, <2>2, LastIs
  <2> HIDE DEF first
  <2>6. first \in Int /\ LastOf(keep) \in Int
    <3>1. \A i \in keep : i \in Int
      BY <2>2 DEF Numbers
    <3> QED BY <2>4, <2>5, <3>1
  <2> QED BY <2>1, <2>6, PartIsList
<1> QED BY <1>1, <1>2

\* What parse_number makes of a list of symbols.
LEMMA ParsedIsSummable ==
  ASSUME NEW raw, List(raw)
  PROVE  Summable(ParseNumber(raw))
<1>1. ASSUME NEW s, List(s), NEW negative, NEW percent
      PROVE  Summable(Numeral(s, negative, percent))
  <2> DEFINE r == NormalizeSeparators(s)
  <2>1. Summable(DecimalOf(r[1]))
    BY <1>1, SeparatorsAreNormal, DecimalIs
  <2>2. Numeral(s, negative, percent) \in {None, NumberOrNone(DecimalOf(r[1]), negative, percent, r[2])}
    BY DEF Numeral, Reading
  <2> HIDE DEF r
  <2>3. Summable(NumberOrNone(DecimalOf(r[1]), negative, percent, r[2]))
    BY <2>1, NumberStaysSummable
  <2> QED BY <2>2, <2>3 DEF Summable
<1>2. ASSUME NEW s, List(s) PROVE List(Front(s))
  <2>1. Len(s) \in Nat
    BY <1>2, ListPlaces
  <2>2. 1 \in Int /\ Len(s) - 1 \in Int
    BY <2>1
  <2> QED BY <2>2, PartIsList DEF Front
<1>3. ASSUME NEW s, List(s), NEW negative
      PROVE  Summable(WithoutPercent(s, negative))
  <2> DEFINE u == IF EndsWith(s, "%") THEN Front(s) ELSE s
  <2>1. List(TrimAffixes(u))
    BY <1>2, <1>3, TrimmedIs
  <2>2. WithoutPercent(s, negative) = Numeral(TrimAffixes(u), negative, EndsWith(s, "%"))
    BY DEF WithoutPercent
  <2> HIDE DEF u
  <2> QED BY <1>1, <2>1, <2>2
<1>4. ASSUME NEW s, List(s), NEW negative
      PROVE  Summable(WithoutMinus(s, negative))
  <2> DEFINE u == IF EndsWith(s, "-") THEN Front(s) ELSE s
  <2>1. List(u)
    BY <1>2, <1>4
  <2>2. WithoutMinus(s, negative) = WithoutPercent(u, negative \/ EndsWith(s, "-"))
    BY DEF WithoutMinus
  <2> HIDE DEF u
  <2> QED BY <1>3, <2>1, <2>2
<1>5. ASSUME NEW s, List(s) PROVE Summable(WithoutParentheses(s))
  <2> DEFINE u == IF Parenthesized(s) THEN SubSeq(s, 2, Len(s) - 1) ELSE s
  <2>1. List(u)
    <3>1. Len(s) \in Nat
      BY <1>5, ListPlaces
    <3>2. 2 \in Int /\ Len(s) - 1 \in Int
      BY <3>1
    <3> QED BY <1>5, <3>2, PartIsList
  <2>2. WithoutParentheses(s) = WithoutMinus(u, Parenthesized(s))
    BY DEF WithoutParentheses
  <2> HIDE DEF u
  <2> QED BY <1>4, <2>1, <2>2
<1> DEFINE T == {i \in DOMAIN raw : raw[i] # " "}
<1>6. ParseNumber(raw) = WithoutParentheses(Picked(raw, T)) /\ T \in SUBSET DOMAIN raw
  BY DEF ParseNumber, Select, Picked
<1> HIDE DEF T
<1>7. List(Picked(raw, T))
  BY <1>6, PickedIs
<1> QED BY <1>5, <1>6, <1>7

\* A word is spelled with finitely many symbols.
LEMMA SpellingIsList == \A w : List(SpellingOf(w))
<1>2. \A x : List(<<x>>)
  BY ShortLists
<1>3. \A x, y : List(<<x, y>>)
  <2> SUFFICES ASSUME NEW x, NEW y PROVE List(<<x, y>>)
    OBVIOUS
  <2>1. <<x, y>> \in Seq({x, y})
    OBVIOUS
  <2> QED BY <2>1, SequenceIsList
<1>4. \A x, y, z : List(<<x, y, z>>)
  <2> SUFFICES ASSUME NEW x, NEW y, NEW z PROVE List(<<x, y, z>>)
    OBVIOUS
  <2>1. <<x, y, z>> \in Seq({x, y, z})
    OBVIOUS
  <2> QED BY <2>1, SequenceIsList
<1> QED BY <1>2, <1>3, <1>4 DEF SpellingOf

\* The cells of a workbook read as integers, or as no number.
LEMMA RecordsAreSited == \A r \in Records : Sited(r)
<1> SUFFICES ASSUME NEW r \in Records PROVE Sited(r)
  OBVIOUS
<1>1. Placed(r)
  BY FilesAssumption DEF Placed
<1>2. CASE r.v.k = "num"
  <2>1. NumberOf(r) = [value |-> r.v.n]
    BY <1>2 DEF NumberOf
  <2>2. r.v.n \in Int
    BY <1>2, ValuesAssumption
  <2> QED BY <1>1, <2>1, <2>2 DEF Sited, Summable
<1>3. CASE r.v.k = "text"
  <2> DEFINE t == r.v.t
             s == [i \in DOMAIN t |-> SpellingOf(t[i])]
  <2>1. NumberOf(r) = ParseNumber(FlattenSeq(s))
    BY <1>3 DEF NumberOf, NumberInText
  <2>2. List(t)
    <3>1. t \in Seq(ToSet(t))
      BY <1>3, ValuesAssumption
    <3> QED BY <3>1, SequenceIsList
  <2> HIDE DEF t
  <2>3. List(s) /\ \A i \in DOMAIN s : List(s[i])
    BY <2>2, ListMapped, SpellingIsList
  <2> HIDE DEF s
  <2>4. List(FlattenSeq(s))
    BY <2>3, FlattenIs
  <2> QED BY <1>1, <2>1, <2>4, ParsedIsSummable DEF Sited
<1>4. CASE r.v.k \notin {"num", "text"}
  <2>1. NumberOf(r) = None
    BY <1>4 DEF NumberOf
  <2> QED BY <1>1, <2>1 DEF Sited, Summable
<1> QED BY <1>2, <1>3, <1>4

-----------------------------------------------------------------------------
(* Names and positions                                                     *)

\* The records of a sheet are at places of their own.
Lonely(source) ==
  \A i, j \in DOMAIN source.records :
    source.records[i].row = source.records[j].row /\ source.records[i].col = source.records[j].col => i = j

\* What a workbook is taken to be: its sheets have names and the records of a
\* sheet references of their own.
Addressed ==
  \A f \in Files :
    /\ \A i, j \in DOMAIN f.sheets : f.sheets[i].name = f.sheets[j].name => i = j
    /\ \A i \in DOMAIN f.sheets : Lonely(f.sheets[i])

\* What is read of a sheet has its name, and no two cells at one place.
Kin(s, source) == s.name = source.name /\ (Lonely(source) => Apart(s.cells))
AllKin == \A i \in 1 .. Len(sheets) : Kin(sheets[i], file.sheets[i])

\* A record that is kept is at a position of its own.
LEMMA RetainKeepsKin ==
  ASSUME Base, Growing, AllKin, pc \in InSheet, next <= Len(Source.records), file' = file,
         next \notin HeldAt(Source, file.ext, pc, next), sheets' = Grown(sheets, Len(sheets), Record)
  PROVE  AllKin'
<1> DEFINE n == Len(sheets)
           cs == sheets[n].cells
           H == HeldAt(Source, file.ext, pc, next)
<1>1. /\ n \in 1 .. Len(sheets) /\ Source \in FileSheets /\ Source.records \in Seq(Records) /\ next \in DOMAIN Source.records
      /\ Record \in Records /\ sheets \in Seq(ReadSheets)
  BY RecordIs DEF Base, Typed, Positioned
<1>2. /\ Len(sheets') = n /\ sheets'[n].cells = Append(cs, Record) /\ sheets'[n].name = sheets[n].name
      /\ \A i \in 1 .. n : i # n => sheets'[i] = sheets[i]
  BY <1>1, GrownIs
<1>3. cs \in Seq(Records)
  <2>1. sheets[n] \in ReadSheets
    BY <1>1
  <2> QED BY <2>1 DEF ReadSheets
<1>4. Members(cs) = RecordsAt(Source, H) /\ H \subseteq DOMAIN Source.records
  BY DEF Growing, HeldAt
<1>5. ASSUME Lonely(Source) PROVE Apart(Append(cs, Record))
  <2>1. ASSUME NEW x \in Members(cs) PROVE Above(x, Record) \/ Above(Record, x)
    <3>1. PICK j \in H : x = Source.records[j]
      BY <1>4, <2>1 DEF RecordsAt
    <3>2. j # next /\ j \in DOMAIN Source.records
      BY <1>4
    <3>3. ~(x.row = Record.row /\ x.col = Record.col)
      BY <1>1, <1>5, <3>1, <3>2 DEF Lonely, Record
    <3>4. x \in Records
      BY <1>1, <3>1, <3>2
    <3>5. x.row \in Nat /\ x.col \in Nat /\ Record.row \in Nat /\ Record.col \in Nat
      BY <1>1, <3>4, FilesAssumption
    <3> QED BY <3>3, <3>5 DEF Above
  <2>2. Apart(cs)
    BY <1>1, <1>5 DEF AllKin, Kin, Source
  <2> QED BY <1>1, <1>3, <2>1, <2>2, OneMore
<1>6. Kin(sheets[n], Source)
  BY <1>1 DEF AllKin, Source
<1> HIDE DEF cs, H
<1>7. Kin(sheets'[n], Source)
  BY <1>2, <1>5, <1>6 DEF Kin
<1> QED BY <1>2, <1>7 DEF AllKin, Source

\* Every step of the reader keeps names and positions apart.
LEMMA KinStep ==
  ASSUME Base, Growing, AllKin, [ReaderNext]_readerVars
  PROVE  AllKin'
<1>1. CASE OpenSheet
  <2>1. PICK s, n : s = file.sheets[Len(sheets) + 1] /\ n = Len(sheets) + 1
    OBVIOUS
  <2>2. /\ Len(sheets') = n /\ n \in Nat /\ \A i \in 1 .. Len(sheets) : sheets'[i] = sheets[i]
        /\ sheets'[n].cells = <<>> /\ sheets'[n].name = s.name /\ file' = file
    BY <1>1, <2>1, OpenedIs DEF OpenSheet
  <2>3. \A i \in 1 .. n : i # n => i \in 1 .. Len(sheets)
    BY <2>1, <2>2
  <2>4. Apart(<<>>)
    BY DEF Apart
  <2>5. Kin(sheets'[n], s)
    BY <2>2, <2>4 DEF Kin
  <2> QED BY <2>1, <2>2, <2>3, <2>5 DEF AllKin
<1>2. CASE ReadXlsxRecord \/ ReadXlsValue \/ ReadXlsFormula
  <2>1. pc \in InSheet /\ next <= Len(Source.records) /\ file' = file
    BY <1>2 DEF ReadXlsxRecord, ReadXlsValue, ReadXlsFormula, InSheet
  <2>2. Source \in FileSheets /\ next \in DOMAIN Source.records /\ next \in Nat
    BY <2>1, RecordIs DEF Base, Typed
  <2>3. ASSUME NEW step, Retain(Record, step),
               pc = "formulas" => Bare(Record)
        PROVE  AllKin'
    <3>1. next \notin HeldAt(Source, file.ext, pc, next)
      <4>1. CASE pc = "formulas"
        BY <2>2, <2>3, <4>1, HeldNext DEF Record
      <4>2. CASE pc # "formulas"
        <5>1. ~(next < next)
          BY <2>2
        <5> QED BY <4>2, <5>1 DEF HeldAt
      <4> QED BY <4>1, <4>2
    <3>2. sheets' = Grown(sheets, Len(sheets), Record) \/ sheets' = sheets
      BY <2>3 DEF Retain, Grown, read
    <3>3. CASE sheets' = sheets
      BY <2>1, <3>3 DEF AllKin
    <3> QED BY <2>1, <3>1, <3>2, <3>3, RetainKeepsKin
  <2>4. CASE UNCHANGED sheets
    BY <2>1, <2>4 DEF AllKin
  <2>5. CASE ReadXlsxRecord
    BY <2>3, <2>4, <2>5 DEF ReadXlsxRecord
  <2>6. CASE ReadXlsValue
    BY <2>3, <2>4, <2>6 DEF ReadXlsValue
  <2>7. CASE ReadXlsFormula
    BY <2>3, <2>4, <2>7 DEF ReadXlsFormula, Bare
  <2> QED BY <1>2, <2>5, <2>6, <2>7
<1>3. CASE SortXlsSheet
  <2> DEFINE n == Len(sheets)
  <2>1. Apart(sheets[n].cells) /\ file' = file
    BY <1>3 DEF SortXlsSheet, Growing, InSheet
  <2>2. /\ Len(sheets') = n /\ \A i \in 1 .. n : i # n => sheets'[i] = sheets[i]
        /\ sheets'[n].cells \in Seq(Records) /\ Sorted(sheets'[n].cells) /\ sheets'[n].name = sheets[n].name
    BY <1>3, <2>1, SortedIs
  <2>3. Apart(sheets'[n].cells)
    BY <2>2, SortedApart
  <2> QED BY <2>1, <2>2, <2>3 DEF AllKin, Kin
<1>4. CASE ReadAgain
  <2>1. sheets' = <<>> /\ Len(sheets') = 0
    BY <1>4 DEF ReadAgain
  <2> QED BY <2>1 DEF AllKin
<1>5. CASE UNCHANGED <<file, sheets>>
  BY <1>5 DEF AllKin
<1>6. CASE \/ ValidateFile \/ PreflightArchive \/ OpenWorkbook \/ CheckXls \/ EndRecords \/ Complete
           \/ NoticeCancel \/ CancelReading \/ (\E fraction \in 0 .. 1000 : Report(fraction)) \/ UNCHANGED readerVars
  BY <1>5, <1>6 DEF ValidateFile, PreflightArchive, OpenWorkbook, CheckXls, EndRecords, Complete, NoticeCancel,
                    CancelReading, Report, readerVars, read
<1> QED BY <1>1, <1>2, <1>3, <1>4, <1>6 DEF ReaderNext, ReaderStep

\* The reader never lets two cells of a sheet share a position.
LEMMA KinAlways == ReaderSpec => [](Faithful /\ AllKin)
<1>1. Init => AllKin
  <2> SUFFICES ASSUME Init PROVE AllKin
    OBVIOUS
  <2>1. sheets = <<>> /\ Len(sheets) = 0
    BY DEF Init
  <2> QED BY <2>1 DEF AllKin
<1>2. Faithful => Base /\ Growing
  BY DEF Faithful
<1>3. Base /\ Growing /\ AllKin /\ [ReaderNext]_readerVars => AllKin'
  BY KinStep
<1> QED BY <1>1, <1>2, <1>3, FaithfulAlways, PTL DEF ReaderSpec

\* What a reading that ended well hands on.
LEMMA SheetsAreAddressed ==
  ASSUME Faithful, AllKin, outcome = "ok"
  PROVE  /\ Workbook(sheets) /\ (\A i \in DOMAIN sheets : List(sheets[i].cells))
         /\ Addressed => Addresses(sheets)
<1>1. sheets \in Seq(ReadSheets) /\ Len(sheets) = Len(file.sheets) /\ file \in Files
  BY DEF Faithful, Finished, Base, Typed
<1>2. file.sheets \in Seq(FileSheets)
  BY <1>1, FilesAssumption
<1>3. DOMAIN sheets = DOMAIN file.sheets /\ DOMAIN sheets = 1 .. Len(sheets)
  BY <1>1, <1>2
<1>4. List(sheets)
  BY <1>1, SequenceIsList
<1>5. ASSUME NEW i \in DOMAIN sheets
      PROVE  sheets[i].cells \in Seq(Records) /\ Tabled(sheets[i])
  <2>1. sheets[i] \in ReadSheets
    BY <1>1
  <2>2. sheets[i].cells \in Seq(Records)
    BY <2>1 DEF ReadSheets
  <2>3. List(sheets[i].cells)
    BY <2>2, SequenceIsList
  <2>4. \A c \in Members(sheets[i].cells) : Sited(c)
    <3>1. \A r \in Records : Sited(r)
      BY RecordsAreSited
    <3> QED BY <2>2, <3>1 DEF Members
  <2> QED BY <2>2, <2>3, <2>4 DEF Tabled
<1>6. ASSUME Addressed PROVE Addresses(sheets)
  <2>1. \A i \in DOMAIN sheets : Kin(sheets[i], file.sheets[i])
    BY <1>3 DEF AllKin
  <2>2. \A i, j \in DOMAIN sheets : sheets[i].name = sheets[j].name => i = j
    BY <1>1, <1>3, <1>6, <2>1 DEF Addressed, Kin
  <2>3. ASSUME NEW i \in DOMAIN sheets, NEW j \in DOMAIN sheets[i].cells, NEW k \in DOMAIN sheets[i].cells,
               sheets[i].cells[j].row = sheets[i].cells[k].row,
               sheets[i].cells[j].col = sheets[i].cells[k].col
        PROVE  j = k
    <3> DEFINE c == sheets[i].cells
    <3>1. Apart(c)
      BY <1>1, <1>3, <1>6, <2>1 DEF Addressed, Kin
    <3>2. c[j] \in Records /\ c[k] \in Records
      BY <1>5
    <3>3. c[j].row \in Nat /\ c[k].row \in Nat /\ c[j].col \in Nat /\ c[k].col \in Nat
      BY <3>2, FilesAssumption
    <3>4. c[j].row = c[k].row /\ c[j].col = c[k].col
      BY <2>3
    <3> HIDE DEF c
    <3>5. ~Above(c[j], c[k]) /\ ~Above(c[k], c[j])
      BY <3>3, <3>4 DEF Above
    <3> QED BY <3>1, <3>5 DEF Apart, c
  <2> QED BY <2>2, <2>3 DEF Addresses
<1> QED BY <1>4, <1>5, <1>6 DEF Workbook, Tabled

-----------------------------------------------------------------------------
(* Runs and their findings                                                 *)

\* As many identifiers as findings, when no two findings share one.
LEMMA OneIdEach ==
  ASSUME NEW s, List(s), Single(s)
  PROVE  Cardinality({FindingId(s[i]) : i \in DOMAIN s}) = Len(s)
<1> DEFINE I == {FindingId(s[i]) : i \in DOMAIN s}
           id == [i \in DOMAIN s |-> FindingId(s[i])]
<1>1. Len(s) \in Nat /\ DOMAIN s = 1 .. Len(s) /\ IsFiniteSet(DOMAIN s)
  BY ListPlaces
<1>2. id \in Bijection(DOMAIN s, I)
  <2>1. id \in [DOMAIN s -> I]
    OBVIOUS
  <2>2. \A i, j \in DOMAIN s : id[i] = id[j] => i = j
    BY DEF Single
  <2>3. \A x \in I : \E i \in DOMAIN s : id[i] = x
    OBVIOUS
  <2> HIDE DEF id, I
  <2>4. id \in Injection(DOMAIN s, I)
    BY <2>1, <2>2 DEF Injection, IsInjective
  <2>5. id \in Surjection(DOMAIN s, I)
    BY <2>1, <2>3 DEF Surjection
  <2> QED BY <2>4, <2>5 DEF Bijection
<1> HIDE DEF id, I
<1>3. Cardinality(I) = Cardinality(DOMAIN s)
  <2> DEFINE D == DOMAIN s
  <2>1. IsFiniteSet(D) /\ ExistsBijection(D, I)
    BY <1>1, <1>2 DEF ExistsBijection
  <2> HIDE DEF D
  <2>2. Cardinality(D) = Cardinality(I)
    BY <2>1, FS_Bijection
  <2> QED BY <2>2 DEF D
<1>4. Cardinality(DOMAIN s) = Len(s)
  <2>1. PICK n \in Nat : n = Len(s) /\ DOMAIN s = 1 .. n
    BY <1>1, Zenon
  <2>2. Cardinality(1 .. n) = n
    BY FS_Interval
  <2> QED BY <2>1, <2>2, Zenon
<1> QED BY <1>3, <1>4 DEF I

\* The findings of a run that was read to the end.
LEMMA FindingsAreSingle ==
  ASSUME Faithful, AllKin, outcome = "ok", NEW settings, NEW selected
  PROVE  /\ List(RunRules(sheets, Detect(sheets), settings, selected))
         /\ Addressed => Single(RunRules(sheets, Detect(sheets), settings, selected))
<1>1. Workbook(sheets) /\ (\A i \in DOMAIN sheets : List(sheets[i].cells)) /\ (Addressed => Addresses(sheets))
  BY SheetsAreAddressed
<1>2. List(sheets) /\ (Addressed => OwnNames(sheets))
  BY <1>1 DEF Workbook, Addresses, OwnNames
<1>3. Detected(Detect(sheets)) /\ (Addressed => Distinct(Detect(sheets).rows))
  BY <1>1, <1>2, DetectionIs
<1> DEFINE fd == Detect(sheets)
<1> HIDE DEF fd
<1>4. Detected(fd) /\ (Addressed => Addresses(sheets) /\ Distinct(fd.rows))
  BY <1>1, <1>3 DEF fd
<1>5. Pushed(RunRules(sheets, fd, settings, selected), RuleNames, Addressed)
  BY <1>1, <1>2, <1>4, RulesPush
<1> QED BY <1>5 DEF Pushed, fd

\* What is known of a run step by step: it works on what was read to the end,
\* reports 1000 only with findings to save, and finds in the store what
\* completed runs left there.
Working ==
  /\ run \in Runs /\ DOMAIN status = Runs
  /\ phase \in {"idle", "ingest", "detect", "rules", "save", "over"}
  /\ phase \in {"idle", "ingest", "detect", "rules"} => progress # 1000
  /\ phase \in {"detect", "rules", "save"} => outcome = "ok"
  /\ phase \in {"rules", "save"} => found = Detect(sheets)
  /\ phase = "save" => List(findings) /\ (Addressed => Single(findings))

Ledger ==
  \A s \in stored : /\ s[2] \in Runs /\ status[s[2]] = "completed"
                    /\ s[2] < run \/ (s[2] = run /\ phase = "over")

\* The reader reports no more than 400 thousandths.
LEMMA ReaderReports ==
  ASSUME Base, ReaderStep, progress # 1000
  PROVE  progress' # 1000 
<1>1. CASE OpenSheet
  <2>1. PICK i, n : i = Len(sheets) /\ n = Len(file.sheets)
    BY Zenon
  <2>2. sheets \in Seq(ReadSheets) /\ file.sheets \in Seq(FileSheets)
    BY FilesAssumption DEF Base, Typed
  <2>3. i \in Nat /\ n \in Nat /\ i < n /\ progress' = 150 + (250 * i) \div n
    BY <1>1, <2>1, <2>2 DEF OpenSheet, SheetFraction
  <2>4. PICK m : m = 250 * i
    OBVIOUS
  <2>5. m \in Nat /\ m < 250 * n
    BY <2>3, <2>4
  <2>6. PICK q : q = m \div n
    OBVIOUS
  <2>7. q \in Int /\ n * q <= m
    BY <2>3, <2>5, <2>6
  <2>8. q < 250
    BY <2>3, <2>5, <2>7
  <2> QED BY <2>3, <2>4, <2>6, <2>7, <2>8
<1>2. CASE ~OpenSheet
  BY <1>2 DEF ReaderStep, ValidateFile, PreflightArchive, OpenWorkbook, ReadXlsxRecord, ReadXlsValue, CheckXls,
              EndRecords, ReadXlsFormula, SortXlsSheet, Complete, NoticeCancel
<1> QED BY <1>1, <1>2

\* Every step of a run keeps what is known of it.
LEMMA WorkingStep ==
  ASSUME Faithful, AllKin, Working, [Next]_vars
  PROVE  Working'
<1>1. CASE UNCHANGED vars
  BY <1>1 DEF vars, engineVars, readerVars, read, Working
<1>2. ASSUME NEW q \in Requests, StartRun(q) PROVE Working'
  BY <1>2 DEF StartRun, Working, readerVars
<1>3. CASE Ingest
  <2>1. Base /\ ReaderStep /\ phase = "ingest" /\ UNCHANGED engineVars
    BY <1>3 DEF Ingest, Faithful
  <2>2. progress' # 1000
    BY <2>1, ReaderReports DEF Working
  <2> QED BY <2>1, <2>2 DEF Working, engineVars
<1>4. CASE IngestionEnds
  BY <1>4 DEF IngestionEnds, Working, readerVars
<1>5. CASE DetectTables
  BY <1>5 DEF DetectTables, Working, Report, read
<1>6. CASE ApplyRules
  <2>1. /\ phase = "rules" /\ outcome = "ok" /\ found = Detect(sheets)
        /\ findings' = RunRules(sheets, Detect(sheets), request.settings, request.selected)
        /\ (phase' = "over" \/ phase' = "save") /\ outcome' = outcome /\ UNCHANGED <<run, status, found, sheets>>
    BY <1>6 DEF ApplyRules, Working, Report, read
  <2>2. List(findings') /\ (Addressed => Single(findings'))
    BY <2>1, FindingsAreSingle
  <2> QED BY <2>1, <2>2 DEF Working
<1>7. CASE EngineCancelled
  BY <1>7 DEF EngineCancelled, Working, readerVars
<1>8. CASE Save
  BY <1>8 DEF Save, Working, readerVars
<1>9. CASE AnalyzeAgain
  BY <1>9 DEF AnalyzeAgain, ReadAgain, Working
<1>10. CASE Cancel
  BY <1>10 DEF Cancel, CancelReading, engineVars, read, Working
<1>11. CASE Rest
  BY <1>1, <1>11 DEF Rest
<1> QED BY <1>1, <1>2, <1>3, <1>4, <1>5, <1>6, <1>7, <1>8, <1>9, <1>10, <1>11 DEF Next, RunStep

\* Every step keeps the store to what completed runs left there, and a result is
\* saved unless one of them had it.
LEMMA LedgerStep ==
  ASSUME Addressed, Working, Ledger, FirstResultIsSaved, [Next]_vars
  PROVE  Ledger' /\ FirstResultIsSaved'
<1>0. run \in Nat /\ Runs \subseteq Nat /\ DOMAIN status = Runs /\ run \in Runs
  BY RunsAssumption DEF Working
<1>1. CASE UNCHANGED vars
  BY <1>1 DEF vars, engineVars, readerVars, Ledger, FirstResultIsSaved
<1>2. ASSUME UNCHANGED <<run, stored>>, phase # "over", \A r \in Runs \ {run} : status'[r] = status[r],
             phase' = "over" => progress' # 1000
      PROVE  Ledger' /\ FirstResultIsSaved'
  <2>1. ASSUME NEW s \in stored
        PROVE  s[2] \in Runs /\ status'[s[2]] = "completed" /\ s[2] < run
    <3>1. s[2] \in Runs /\ status[s[2]] = "completed" /\ s[2] < run
      BY <1>2 DEF Ledger
    <3>2. s[2] \in Runs \ {run}
      BY <1>0, <3>1
    <3> QED BY <1>2, <3>1, <3>2
  <2>2. Ledger'
    BY <1>2, <2>1 DEF Ledger
  <2>3. FirstResultIsSaved'
    BY <1>2 DEF FirstResultIsSaved
  <2> QED BY <2>2, <2>3
<1>3. ASSUME NEW q \in Requests, StartRun(q) PROVE Ledger' /\ FirstResultIsSaved'
  BY <1>0, <1>2, <1>3 DEF StartRun, readerVars, Working
<1>4. CASE Ingest
  BY <1>2, <1>4 DEF Ingest, engineVars
<1>5. CASE IngestionEnds
  BY <1>0, <1>2, <1>5 DEF IngestionEnds, Working, readerVars
<1>6. CASE DetectTables
  BY <1>2, <1>6 DEF DetectTables
<1>7. CASE ApplyRules
  <2>1. phase' = "over" => progress' # 1000
    BY <1>7 DEF ApplyRules, Report
  <2> QED BY <1>2, <1>7, <2>1 DEF ApplyRules
<1>8. CASE EngineCancelled
  BY <1>0, <1>2, <1>8 DEF EngineCancelled, Working, readerVars
<1>9. CASE Save
  <2>1. phase = "save" /\ phase' = "over" /\ run' = run /\ Cardinality(Ids) = Len(findings)
    BY <1>9, OneIdEach DEF Save, Working, Ids
  <2>2. \A s \in stored : s[2] \in Runs /\ status[s[2]] = "completed" /\ s[2] < run
    BY <2>1 DEF Ledger
  <2>3. CASE Fits
    <3>1. status' = [status EXCEPT ![run] = "completed"] /\ stored' = stored \cup (Ids \X {run})
      BY <1>9, <2>3 DEF Save
    <3>2. status'[run] = "completed" /\ \A r \in Runs \ {run} : status'[r] = status[r]
      BY <1>0, <3>1
    <3>3. \A s \in Ids \X {run} : s[2] = run
      OBVIOUS
    <3> QED BY <1>0, <2>1, <2>2, <3>1, <3>2, <3>3 DEF Ledger, FirstResultIsSaved
  <2>4. CASE ~Fits
    <3>1. UNCHANGED <<status, stored>>
      BY <1>9, <2>4 DEF Save
    <3>2. \E r \in Runs : r < run /\ status[r] = "completed"
      BY <2>1, <2>2, <2>4 DEF Fits
    <3> QED BY <2>1, <2>2, <3>1, <3>2 DEF Ledger, FirstResultIsSaved
  <2> QED BY <2>3, <2>4
<1>10. CASE AnalyzeAgain
  <2>1. run' = run + 1 /\ phase' = "idle" /\ UNCHANGED <<status, stored>>
    BY <1>10 DEF AnalyzeAgain
  <2>2. ASSUME NEW s \in stored
        PROVE  s[2] \in Runs /\ status[s[2]] = "completed" /\ s[2] < run + 1
    <3>1. /\ s[2] \in Runs /\ status[s[2]] = "completed"
          /\ s[2] < run \/ s[2] = run
      BY DEF Ledger
    <3>2. s[2] \in Nat
      BY <1>0, <3>1
    <3> QED BY <1>0, <3>1, <3>2
  <2>3. Ledger'
    BY <2>1, <2>2 DEF Ledger
  <2> QED BY <2>1, <2>3 DEF FirstResultIsSaved
<1>11. CASE Cancel
  BY <1>2, <1>11 DEF Cancel, engineVars
<1>12. CASE Rest
  BY <1>1, <1>12 DEF Rest
<1> QED BY <1>1, <1>3, <1>4, <1>5, <1>6, <1>7, <1>8, <1>9, <1>10, <1>11, <1>12 DEF Next, RunStep

\* What is known of a run is always so.
LEMMA WorkingAlways == Spec => [](Faithful /\ AllKin /\ Working)
<1>1. Spec => [](Faithful /\ AllKin)
  BY RunsReadAsTheReader, KinAlways, PTL
<1>2. InspectionInit => Working
  BY RunsAssumption DEF InspectionInit, Init, Working
<1>3. Faithful /\ AllKin /\ Working /\ [Next]_vars => Working'
  BY WorkingStep
<1> QED BY <1>1, <1>2, <1>3, PTL DEF Spec

\* The findings of a first result never stand in each other's way.
THEOREM FirstResultIsSavedAlways ==
  ASSUME Addressed
  PROVE  Spec => []FirstResultIsSaved
<1>1. InspectionInit => Ledger /\ FirstResultIsSaved
  <2> SUFFICES ASSUME InspectionInit PROVE Ledger /\ FirstResultIsSaved
    OBVIOUS
  <2> QED BY DEF InspectionInit, Init, Ledger, FirstResultIsSaved
<1>2. Working /\ Ledger /\ FirstResultIsSaved /\ [Next]_vars => Ledger' /\ FirstResultIsSaved'
  BY LedgerStep
<1> QED BY <1>1, <1>2, WorkingAlways, PTL DEF Spec

-----------------------------------------------------------------------------
(* Reports                                                                 *)

\* Labels that a fixed order names are counted in it.
LEMMA CountsAreOf ==
  ASSUME NEW order, List(order), NEW labels, IsFiniteSet(DOMAIN labels),
         \A i \in DOMAIN labels : labels[i] \in Members(order)
  PROVE  CountsAgree(CountsOf(order, labels), labels)
<1> DEFINE with(label) == {i \in DOMAIN labels : labels[i] = label}
           s == [i \in DOMAIN order |-> [label |-> order[i], count |-> Cardinality(with(order[i]))]]
           T == {i \in DOMAIN s : s[i].count > 0}
           counts == Picked(s, T)
<1>1. CountsOf(order, labels) = counts
  BY DEF CountsOf, Select, Picked
<1>2. List(s) /\ DOMAIN s = DOMAIN order
  BY ListMapped
<1>3. \A o \in DOMAIN order : s[o].label = order[o] /\ s[o].count = Cardinality(with(order[o]))
  OBVIOUS
<1> HIDE DEF s
<1>4. \A i \in T : \E k \in DOMAIN counts : counts[k] = s[i]
  <2>0. T \in SUBSET DOMAIN s
    OBVIOUS
  <2> HIDE DEF T
  <2>1. \E p : /\ \A k \in DOMAIN counts : p[k] \in T /\ counts[k] = s[p[k]]
               /\ \A k, l \in DOMAIN counts : p[k] = p[l] => k = l
               /\ \A i \in T : \E k \in DOMAIN counts : p[k] = i
    BY <1>2, <2>0, PickedIs
  <2> HIDE DEF counts
  <2>2. PICK p : /\ \A k \in DOMAIN counts : p[k] \in T /\ counts[k] = s[p[k]]
                 /\ \A i \in T : \E k \in DOMAIN counts : p[k] = i
    BY <2>1
  <2>3. ASSUME NEW i \in T PROVE \E k \in DOMAIN counts : counts[k] = s[i]
    <3>1. PICK k \in DOMAIN counts : p[k] = i
      BY <2>2
    <3> QED BY <2>2, <3>1
  <2> QED BY <2>3
<1> HIDE DEF counts
<1>5. ASSUME NEW i \in DOMAIN labels
      PROVE  \E c \in ToSet(counts) : c.label = labels[i] /\ c.count = Cardinality(with(labels[i]))
  <2>1. PICK o \in DOMAIN order : order[o] = labels[i]
    BY DEF Members
  <2>2. i \in with(labels[i]) /\ IsFiniteSet(with(labels[i]))
    BY FS_Subset
  <2> DEFINE W == with(labels[i])
  <2> HIDE DEF W
  <2>3. Cardinality(W) \in Nat /\ Cardinality(W) # 0
    BY <2>2, FS_CardinalityType, FS_EmptySet DEF W
  <2>4. s[o].label = labels[i] /\ s[o].count = Cardinality(W)
    BY <1>3, <2>1 DEF W
  <2>5. o \in T
    BY <1>2, <2>3, <2>4
  <2>6. PICK k \in DOMAIN counts : counts[k] = s[o]
    BY <1>4, <2>5
  <2>7. counts[k] \in ToSet(counts)
    BY DEF ToSet
  <2> QED BY <2>4, <2>6, <2>7 DEF W
<1> QED BY <1>1, <1>5 DEF CountsAgree

\* Every severity and category has a place in the order of the counts.
LEMMA LabelsAreListed ==
  /\ List(Severities) /\ \A f : Severity(f) \in Members(Severities)
  /\ List(Categories) /\ \A f : Category(f) \in Members(Categories)
<1>1. List(Severities) /\ List(Categories)
  <2>1. DOMAIN Severities = 1 .. 5 /\ Severities = [i \in DOMAIN Severities |-> Severities[i]]
    BY DEF Severities
  <2>2. DOMAIN Categories = 1 .. 7 /\ Categories = [i \in DOMAIN Categories |-> Categories[i]]
    BY DEF Categories
  <2> QED BY <2>1, <2>2, ListIs
<1>2. {"high", "low", "info", "medium"} \subseteq Members(Severities)
  <2>1. DOMAIN Severities = 1 .. 5
    BY DEF Severities
  <2>2. /\ Severities[2] = "high" /\ Severities[3] = "medium" /\ Severities[4] = "low" /\ Severities[5] = "info"
    BY DEF Severities
  <2> QED BY <2>1, <2>2 DEF Members
<1>3. {"arithmetic", "structure", "omission", "duplication", "other", "inconsistency"} \subseteq Members(Categories)
  <2>1. DOMAIN Categories = 1 .. 7
    BY DEF Categories
  <2>2. /\ Categories[1] = "arithmetic" /\ Categories[2] = "duplication" /\ Categories[3] = "omission"
        /\ Categories[4] = "inconsistency" /\ Categories[5] = "structure" /\ Categories[7] = "other"
    BY DEF Categories
  <2> QED BY <2>1, <2>2 DEF Members
<1>4. ASSUME NEW f PROVE Severity(f) \in {"high", "low", "info", "medium"}
  BY DEF Severity
<1>5. ASSUME NEW f
      PROVE  Category(f) \in {"arithmetic", "structure", "omission", "duplication", "other", "inconsistency"}
  BY DEF Category
<1> QED BY <1>1, <1>2, <1>3, <1>4, <1>5

\* There is an entry for each table.
LEMMA DetectionsAreMany ==
  ASSUME NEW tables, List(tables)
  PROVE  Len(Detections(tables)) >= Len(tables)
<1> DEFINE s == [i \in DOMAIN tables |-> tables[i].evidence]
           w == Warnings(tables)
           t == [i \in DOMAIN w |-> {w[i]}]
<1>1. Detections(tables) = s \o t
  BY DEF Detections
<1>2. List(w)
  <2> DEFINE a == IF tables = <<>> THEN <<"no_tables_detected">> ELSE <<>>
             b == IF \E i \in DOMAIN tables : tables[i].confidence < 3900 THEN <<"low_confidence_structure">> ELSE <<>>
             c == <<"row_column_visibility_unavailable">>
  <2>1. w = a \o b \o c
    BY DEF Warnings
  <2>2. List(a) /\ List(b) /\ List(c)
    BY ShortLists
  <2> HIDE DEF a, b, c, w
  <2> QED BY <2>1, <2>2, ListsJoin
<1> HIDE DEF w
<1>3. List(s) /\ Len(s) = Len(tables) /\ List(t)
  BY <1>2, ListMapped
<1> HIDE DEF s, t
<1>4. Len(s \o t) = Len(s) + Len(t) /\ Len(s) \in Nat /\ Len(t) \in Nat
  BY <1>3, ListsJoin, ListPlaces
<1> QED BY <1>1, <1>3, <1>4

\* What both formats show of a report.
Document(doc, r) ==
  /\ doc # NoDocument
  /\ doc.summary = [count |-> r.count, severities |-> r.severities, categories |-> r.categories]
  /\ doc.detection = r.detections /\ doc.ai = r.commentary
  /\ doc.pareto = [i \in DOMAIN r.pareto |-> <<r.pareto[i].total, r.pareto[i].top, r.pareto[i].count>>]
  /\ DOMAIN doc.findings = DOMAIN r.findings
  /\ \A i \in DOMAIN r.findings :
       /\ doc.findings[i].severity = r.findings[i].severity
       /\ doc.findings[i].category = r.findings[i].category
       /\ doc.findings[i].sheet = r.findings[i].sheet

\* A document with a summary is not the missing one.
LEMMA RecordIsNoBlank ==
  \A f : "summary" \in DOMAIN f => f # NoDocument
<1>1. DOMAIN NoDocument = {}
  BY DEF NoDocument
<1> QED BY <1>1

\* Both writers show the report, if a cell can hold its commentary.
LEMMA FormatsShow ==
  ASSUME NEW r, r.length <= CellLimit,
         \A i \in DOMAIN r.findings : {"severity", "category", "sheet", "cell"} \subseteq DOMAIN r.findings[i]
  PROVE  Document(Sheets(r), r) /\ Document(Sections(r), r)
<1> DEFINE fs == r.findings
<1>1. ASSUME NEW f, {"severity", "category", "sheet", "cell"} \subseteq DOMAIN f, NEW c
      PROVE  /\ [f EXCEPT !.cell = c].severity = f.severity /\ [f EXCEPT !.cell = c].category = f.category
             /\ [f EXCEPT !.cell = c].sheet = f.sheet
  BY <1>1
<1>2. Document(Sections(r), r)
  <2> DEFINE d == Sections(r)
  <2>1. /\ "summary" \in DOMAIN d
        /\ d.summary = [count |-> r.count, severities |-> r.severities, categories |-> r.categories]
        /\ d.detection = r.detections /\ d.ai = r.commentary
        /\ d.pareto = [i \in DOMAIN r.pareto |-> <<r.pareto[i].total, r.pareto[i].top, r.pareto[i].count>>]
        /\ d.findings = [i \in DOMAIN fs |-> [severity |-> fs[i].severity, category |-> fs[i].category, sheet |-> fs[i].sheet]]
    BY DEF Sections
  <2> HIDE DEF d
  <2> QED BY <2>1, RecordIsNoBlank DEF Document, d
<1>3. Document(Sheets(r), r)
  <2> DEFINE d == Sheets(r)
             cell(i) == IF fs[i].cell = None THEN "not_available" ELSE fs[i].cell
  <2>1. /\ "summary" \in DOMAIN d
        /\ d.summary = [count |-> r.count, severities |-> r.severities, categories |-> r.categories]
        /\ d.detection = r.detections /\ d.ai = r.commentary
        /\ d.pareto = [i \in DOMAIN r.pareto |-> <<r.pareto[i].total, r.pareto[i].top, r.pareto[i].count>>]
        /\ d.findings = [i \in DOMAIN fs |-> [fs[i] EXCEPT !.cell = cell(i)]]
    BY DEF Sheets, AiReviewSheet, SummarySheet, FindingsSheet, DetectionSheet, ParetoSheet
  <2> HIDE DEF d, cell
  <2>2. \A i \in DOMAIN fs : /\ d.findings[i].severity = fs[i].severity
                             /\ d.findings[i].category = fs[i].category
                             /\ d.findings[i].sheet = fs[i].sheet
    BY <1>1, <2>1
  <2> QED BY <2>1, <2>2, RecordIsNoBlank DEF Document, d
<1> QED BY <1>2, <1>3

\* Two documents of one report say what ReportsSayWhatWasFound asks of them.
LEMMA DocumentsAgree ==
  ASSUME NEW r, NEW x, NEW p, Document(x, r), Document(p, r),
         NEW fs, List(fs), r.count = Len(fs), List(p.findings),
         r.severities = SeverityCounts(fs), r.categories = CategoryCounts(fs),
         r.findings = [i \in DOMAIN fs |-> ReportFinding(fs[i])]
  PROVE  /\ [i \in DOMAIN x.findings |-> <<x.findings[i].severity, x.findings[i].category, x.findings[i].sheet>>]
              = [i \in DOMAIN p.findings |-> <<p.findings[i].severity, p.findings[i].category, p.findings[i].sheet>>]
         /\ x.summary = p.summary /\ x.detection = p.detection /\ x.pareto = p.pareto /\ x.ai = p.ai
         /\ Len(p.findings) = Len(fs) /\ p.summary.count = Len(fs)
         /\ CountsAgree(p.summary.severities, [i \in DOMAIN p.findings |-> p.findings[i].severity])
         /\ CountsAgree(p.summary.categories, [i \in DOMAIN p.findings |-> p.findings[i].category])
<1>1. /\ DOMAIN r.findings = DOMAIN fs
      /\ \A i \in DOMAIN fs : r.findings[i].severity = Severity(fs[i]) /\ r.findings[i].category = Category(fs[i])
  BY DEF ReportFinding
<1>2. IsFiniteSet(DOMAIN fs) /\ DOMAIN fs = 1 .. Len(fs) /\ Len(fs) \in Nat
  BY ListPlaces
<1>3. DOMAIN p.findings = DOMAIN fs /\ DOMAIN x.findings = DOMAIN fs
  BY <1>1 DEF Document
<1>4. Len(p.findings) = Len(fs)
  <2>1. DOMAIN p.findings = 1 .. Len(p.findings) /\ Len(p.findings) \in Nat
    BY ListPlaces
  <2> QED BY <1>2, <1>3, <2>1
<1>5. [i \in DOMAIN x.findings |-> <<x.findings[i].severity, x.findings[i].category, x.findings[i].sheet>>]
        = [i \in DOMAIN p.findings |-> <<p.findings[i].severity, p.findings[i].category, p.findings[i].sheet>>]
  BY <1>1, <1>3 DEF Document
<1> DEFINE severities == [i \in DOMAIN fs |-> Severity(fs[i])]
           categories == [i \in DOMAIN fs |-> Category(fs[i])]
<1>6. [i \in DOMAIN p.findings |-> p.findings[i].severity] = severities
  BY <1>1, <1>3 DEF Document
<1>7. [i \in DOMAIN p.findings |-> p.findings[i].category] = categories
  BY <1>1, <1>3 DEF Document
<1>8. r.severities = CountsOf(Severities, severities) /\ r.categories = CountsOf(Categories, categories)
  BY DEF SeverityCounts, CategoryCounts
<1>9. /\ DOMAIN severities = DOMAIN fs /\ \A i \in DOMAIN fs : severities[i] \in Members(Severities)
      /\ DOMAIN categories = DOMAIN fs /\ \A i \in DOMAIN fs : categories[i] \in Members(Categories)
  BY LabelsAreListed
<1> HIDE DEF severities, categories
<1>10. CountsAgree(r.severities, severities) /\ CountsAgree(r.categories, categories)
  BY <1>2, <1>8, <1>9, LabelsAreListed, CountsAreOf
<1>11. /\ p.summary.severities = r.severities /\ p.summary.categories = r.categories /\ p.summary.count = r.count
       /\ x.summary = p.summary /\ x.detection = p.detection /\ x.pareto = p.pareto /\ x.ai = p.ai
  BY DEF Document
<1> QED BY <1>4, <1>5, <1>6, <1>7, <1>10, <1>11

\* A run about to be saved has a report that says what was found.
LEMMA ReportsSay ==
  ASSUME Working, AllKin, Faithful
  PROVE  ReportsSayWhatWasFound
<1> SUFFICES ASSUME phase = "save", NEW review, review = None \/ CommentaryLength(review) <= CellLimit
             PROVE  LET xlsx == Exported("xlsx", Output, review)
                        pdf == Exported("pdf", Output, review)
                        shown(doc) == [i \in DOMAIN doc.findings |-> <<doc.findings[i].severity, doc.findings[i].category, doc.findings[i].sheet>>]
                    IN /\ xlsx = NoDocument <=> pdf = NoDocument
                       /\ pdf # NoDocument =>
                            /\ shown(xlsx) = shown(pdf)
                            /\ xlsx.summary = pdf.summary /\ xlsx.detection = pdf.detection
                            /\ xlsx.pareto = pdf.pareto /\ xlsx.ai = pdf.ai
                            /\ Len(pdf.findings) = Len(findings) /\ pdf.summary.count = Len(findings)
                            /\ CountsAgree(pdf.summary.severities, [i \in DOMAIN pdf.findings |-> pdf.findings[i].severity])
                            /\ CountsAgree(pdf.summary.categories, [i \in DOMAIN pdf.findings |-> pdf.findings[i].category])
                            /\ Len(pdf.detection) >= Len(found.tables)
  BY DEF ReportsSayWhatWasFound
<1> DEFINE r == BuildReport(Output, review)
           x == Sheets(r)
           p == Sections(r)
<1>1. List(findings) /\ outcome = "ok" /\ found = Detect(sheets)
  BY DEF Working
<1>2. List(found.tables)
  <2>1. Workbook(sheets)
    BY <1>1, SheetsAreAddressed
  <2> QED BY <1>1, <2>1, DetectionIs DEF Detected
<1>3. /\ Exported("xlsx", Output, review) = IF r = NoDocument THEN NoDocument ELSE x
      /\ Exported("pdf", Output, review) = IF r = NoDocument THEN NoDocument ELSE p
  BY DEF Exported
<1>4. CASE r = NoDocument
  BY <1>3, <1>4
<1>5. CASE r # NoDocument
  <2>1. Output.findings = findings /\ Output.count = Len(findings) /\ Output.tables = found.tables
    BY DEF Output
  <2>2. /\ r.count = Len(findings)
        /\ r.severities = SeverityCounts(findings) /\ r.categories = CategoryCounts(findings)
        /\ r.findings = [i \in DOMAIN findings |-> ReportFinding(findings[i])]
        /\ r.detections = Detections(found.tables)
        /\ r.length = IF review = None THEN 0 ELSE CommentaryLength(review)
    <3> HIDE DEF Output
    <3> QED BY <1>5, <2>1 DEF BuildReport
  <2> HIDE DEF r
  <2>3. r.length <= CellLimit
    BY <2>2, CellLimitAssumption
  <2>4. \A i \in DOMAIN r.findings : {"severity", "category", "sheet", "cell"} \subseteq DOMAIN r.findings[i]
    BY <2>2 DEF ReportFinding
  <2>5. Document(x, r) /\ Document(p, r)
    BY <2>3, <2>4, FormatsShow
  <2>6. List(p.findings)
    <3>1. DOMAIN p.findings = DOMAIN findings /\ p.findings = [i \in DOMAIN p.findings |-> p.findings[i]]
      BY <2>2 DEF Sections
    <3> HIDE DEF p
    <3> QED BY <1>1, <3>1, ListMapped
  <2>7. Len(p.detection) >= Len(found.tables)
    BY <1>2, <2>2, <2>5, DetectionsAreMany DEF Document
  <2> HIDE DEF x, p
  <2>8. x # NoDocument /\ p # NoDocument
    BY <2>5 DEF Document
  <2> QED BY <1>1, <1>3, <1>5, <2>2, <2>5, <2>6, <2>7, <2>8, DocumentsAgree
<1> QED BY <1>4, <1>5

\* For every workbook, request and review whose commentary a cell can hold, both
\* formats are written or neither, they agree, and every finding and table of the
\* output has its entry and its count.
THEOREM ReportsSayWhatWasFoundAlways == Spec => []ReportsSayWhatWasFound
BY WorkingAlways, ReportsSay, PTL

-----------------------------------------------------------------------------
(* Lists, counts and orders once more                                      *)

\* What a function maps onto one to one is counted like what it maps.
LEMMA ImageCount ==
  ASSUME NEW S, IsFiniteSet(S), NEW p, \A x, y \in S : p[x] = p[y] => x = y
  PROVE  IsFiniteSet({p[x] : x \in S}) /\ Cardinality({p[x] : x \in S}) = Cardinality(S)
<1> DEFINE T == {p[x] : x \in S}
           g == [x \in S |-> p[x]]
<1>1. /\ g \in [S -> T]
      /\ \A x, y \in S : g[x] = g[y] => x = y
      /\ \A z \in T : \E x \in S : g[x] = z
  OBVIOUS
<1> HIDE DEF T, g
<1>2. g \in Bijection(S, T)
  <2>1. g \in Injection(S, T)
    BY <1>1 DEF Injection, IsInjective
  <2>2. g \in Surjection(S, T)
    BY <1>1 DEF Surjection
  <2> QED BY <2>1, <2>2 DEF Bijection
<1>3. ExistsBijection(S, T)
  BY <1>2 DEF ExistsBijection
<1>4. IsFiniteSet(T) /\ Cardinality(S) = Cardinality(T)
  BY <1>3, FS_Bijection
<1> QED BY <1>4 DEF T

\* Nor of the lists of a list.
LEMMA FlattenMembers ==
  ASSUME NEW s, List(s), \A i \in DOMAIN s : List(s[i])
  PROVE  Members(FlattenSeq(s)) = UNION {Members(s[i]) : i \in DOMAIN s}
<1> DEFINE n == Len(s)
<1>1. n \in Nat /\ DOMAIN s = 1 .. n
  BY ListPlaces
<1>2. CASE n = 0
  <2>1. FlattenSeq(s) = s /\ DOMAIN s = {}
    BY <1>1, <1>2 DEF FlattenSeq
  <2> QED BY <2>1 DEF Members
<1>3. CASE n # 0
  <2>1. PICK f : f = CHOOSE g : Joined(g, s, n)
    OBVIOUS
  <2>2. Joined(f, s, n)
    BY <1>1, <2>1, JoinedExists
  <2>3. FlattenSeq(s) = f[n]
    BY <1>3, <2>1 DEF FlattenSeq, Joined
  <2> DEFINE Good(m) == List(f[m]) /\ Members(f[m]) = UNION {Members(s[i]) : i \in 1 .. m}
             Bad == {m \in 1 .. n : ~Good(m)}
  <2>4. \A i \in 1 .. n : f[i] = IF i = 1 THEN s[i] ELSE f[i - 1] \o s[i]
    BY <2>2 DEF Joined
  <2>5. ASSUME Bad # {} PROVE FALSE
    <3>0. Bad \subseteq Nat
      BY <1>1
    <3>1. PICK m \in Bad : \A l \in Bad : m <= l
      BY <2>5, <3>0, LeastElement
    <3>2. m \in 1 .. n /\ List(s[m])
      BY <1>1, <3>1
    <3>3. m # 1
      <4> SUFFICES ASSUME m = 1 PROVE Good(1)
        BY <3>1
      <4>1. f[1] = s[1] /\ 1 .. 1 = {1} /\ List(s[1])
        BY <2>4, <3>2
      <4> QED BY <4>1
    <3>4. m - 1 \in 1 .. n /\ m - 1 \notin Bad
      BY <1>1, <3>1, <3>2, <3>3
    <3>5. Good(m - 1)
      BY <3>4
    <3>6. f[m] = f[m - 1] \o s[m]
      BY <2>4, <3>2, <3>3
    <3>7. List(f[m]) /\ Members(f[m]) = Members(f[m - 1]) \cup Members(s[m])
      BY <3>2, <3>5, <3>6, MembersJoin
    <3>8. 1 .. m = (1 .. m - 1) \cup {m}
      BY <1>1, <3>2
    <3>9. Good(m)
      BY <3>5, <3>7, <3>8
    <3> QED BY <3>1, <3>9
  <2>6. Good(n)
    BY <1>1, <1>3, <2>5
  <2> QED BY <1>1, <2>3, <2>6
<1> QED BY <1>2, <1>3

\* A list of numbers in order: its places, each once, with the numbers rising.
LEMMA OrderIs ==
  ASSUME NEW n \in Nat, NEW v \in [1 .. n -> Int]
  PROVE  /\ Order(v) \in [1 .. n -> 1 .. n]
         /\ \A k, l \in 1 .. n : Order(v)[k] = Order(v)[l] => k = l
         /\ \A i \in 1 .. n : \E k \in 1 .. n : Order(v)[k] = i
         /\ \A k, l \in 1 .. n : k <= l => v[Order(v)[k]] <= v[Order(v)[l]]
<1> DEFINE S == 1 .. n
           before(j, i) == v[j] < v[i] \/ (v[j] = v[i] /\ j < i)
           R == {p \in S \X S : before(p[1], p[2])}
           b == [i \in S |-> Cardinality({j \in S : before(j, i)})]
           a == Order(v)
<1>0. IsFiniteSet(S) /\ Cardinality(S) = n
  BY FS_Interval
<1>1. \A j, i \in S : <<j, i>> \in R <=> before(j, i)
  OBVIOUS
<1>2. Orders(R, S)
  <2> HIDE DEF R
  <2>1. \A i \in S : v[i] \in Int /\ i \in Int
    OBVIOUS
  <2> QED BY <1>1, <2>1 DEF Orders
<1>3. Ranks(b, R, S)
  <2>1. \A i \in S : {j \in S : before(j, i)} = {j \in S : <<j, i>> \in R}
    BY <1>1
  <2> HIDE DEF R, before
  <2> QED BY <2>1 DEF Ranks
<1> DEFINE B(i) == Cardinality({j \in S : before(j, i)})
<1>4. \A i \in S : b[i] = B(i)
  OBVIOUS
<1>5. a = [l \in S |-> CHOOSE i \in S : B(i) = l - 1]
  <2>1. DOMAIN v = S
    OBVIOUS
  <2>2. a = [l \in DOMAIN v |-> CHOOSE i \in DOMAIN v : Cardinality({j \in DOMAIN v : before(j, i)}) = l - 1]
    BY DEF Order
  <2> HIDE DEF a, before
  <2> QED BY <2>1, <2>2
<1> HIDE DEF R, a, b, B
<1>6. DOMAIN a = 1 .. Cardinality(S) /\ a = [k \in DOMAIN a |-> a[k]]
  <2> HIDE DEF S
  <2>1. DOMAIN a = S /\ a = [k \in DOMAIN a |-> a[k]]
    BY <1>5
  <2> QED BY <1>0, <2>1 DEF S
<1>7. \A k \in DOMAIN a : (\E i \in S : b[i] = k - 1) => a[k] \in S /\ b[a[k]] = k - 1
  <2>1. DOMAIN a = S
    BY <1>0, <1>6
  <2> HIDE DEF S
  <2> QED BY <1>4, <1>5, <2>1
<1>8. Lists(a, S, R)
  <2>1. ByRank(a, b, S)
    BY <1>6, <1>7 DEF ByRank
  <2> HIDE DEF S
  <2> QED BY <1>0, <1>2, <1>3, <2>1, RankedIs
<1>9. DOMAIN a = S /\ a = [k \in DOMAIN a |-> a[k]]
  BY <1>0, <1>6
<1>10. ASSUME NEW k \in S, NEW l \in S, k <= l PROVE v[a[k]] <= v[a[l]]
  <2>1. a[k] \in S /\ a[l] \in S
    BY <1>8, <1>9 DEF Lists
  <2>2. v[a[k]] \in Int /\ v[a[l]] \in Int
    BY <2>1
  <2>3. CASE k = l
    BY <2>2, <2>3
  <2>4. CASE k < l
    <3>1. before(a[k], a[l])
      BY <1>1, <1>8, <1>9, <2>1, <2>4 DEF Lists
    <3> QED BY <2>2, <3>1
  <2> QED BY <1>10, <2>3, <2>4
<1> QED BY <1>8, <1>9, <1>10 DEF a, Lists

\* Those picked of picked ones are picked.
LEMMA PicksThrough ==
  ASSUME NEW p, NEW t, NEW s, NEW T, Picks(p, t, s, T), NEW q, NEW u, NEW U \in SUBSET DOMAIN t,
         Picks(q, u, t, U)
  PROVE  Picks([k \in DOMAIN u |-> p[q[k]]], u, s, {p[k] : k \in U})
<1> DEFINE c == [k \in DOMAIN u |-> p[q[k]]]
           V == {p[k] : k \in U}
<1>1. /\ \A k \in DOMAIN t : p[k] \in T /\ t[k] = s[p[k]]
      /\ \A k, l \in DOMAIN t : k < l <=> p[k] < p[l]
      /\ \A k, l \in DOMAIN t : p[k] = p[l] => k = l
      /\ \A i \in T : \E k \in DOMAIN t : p[k] = i
  BY DEF Picks
<1>2. /\ List(u)
      /\ \A k \in DOMAIN u : q[k] \in U /\ u[k] = t[q[k]]
      /\ \A k, l \in DOMAIN u : k < l <=> q[k] < q[l]
      /\ \A k, l \in DOMAIN u : q[k] = q[l] => k = l
      /\ \A i \in U : \E k \in DOMAIN u : q[k] = i
  BY DEF Picks
<1>3. \A k \in DOMAIN u : c[k] = p[q[k]] /\ c[k] \in V
  BY <1>2
<1>4. \A k \in DOMAIN u : u[k] = s[c[k]]
  BY <1>1, <1>2, <1>3
<1>5. \A k, l \in DOMAIN u : (k < l <=> c[k] < c[l]) /\ (c[k] = c[l] => k = l)
  BY <1>1, <1>2, <1>3
<1>6. ASSUME NEW i \in V PROVE \E k \in DOMAIN u : c[k] = i
  <2>1. PICK j \in U : p[j] = i
    OBVIOUS
  <2>2. PICK k \in DOMAIN u : q[k] = j
    BY <1>2
  <2> QED BY <1>3, <2>1, <2>2
<1> HIDE DEF c, V
<1>7. Picks(c, u, s, V)
  BY <1>2, <1>3, <1>4, <1>5, <1>6 DEF Picks
<1> QED BY <1>7 DEF c, V

-----------------------------------------------------------------------------
(* Sums over a prefix                                                      *)

\* h sums up v to each place.
Accumulates(h, v, n) == h = [k \in 0 .. n |-> IF k = 0 THEN 0 ELSE h[k - 1] + v[k]]

\* There is such a function.
LEMMA AccumulatesExists ==
  ASSUME NEW v, NEW n \in Nat
  PROVE  \E h : Accumulates(h, v, n)
<1> DEFINE Bad == {m \in Nat : ~ \E h : Accumulates(h, v, m)}
<1> SUFFICES ASSUME Bad # {} PROVE FALSE
  OBVIOUS
<1>1. PICK m \in Bad : \A l \in Bad : m <= l
  BY LeastElement
<1>2. m # 0
  <2>1. \A k \in 0 .. 0 : k = 0
    OBVIOUS
  <2>2. Accumulates([k \in 0 .. 0 |-> 0], v, 0)
    BY <2>1 DEF Accumulates
  <2> QED BY <1>1, <2>2
<1>3. m - 1 \in Nat /\ m - 1 \notin Bad
  BY <1>1, <1>2
<1>4. PICK h : Accumulates(h, v, m - 1)
  BY <1>3
<1> DEFINE g == [k \in 0 .. m |-> IF k = 0 THEN 0 ELSE h[k - 1] + v[k]]
<1>5. \A k \in 0 .. m : k # 0 => k - 1 \in 0 .. m - 1 /\ k - 1 \in 0 .. m
  BY <1>1
<1>6. \A k \in 0 .. m - 1 : h[k] = IF k = 0 THEN 0 ELSE h[k - 1] + v[k]
  BY <1>4 DEF Accumulates
<1>7. \A k \in 0 .. m : g[k] = IF k = 0 THEN 0 ELSE h[k - 1] + v[k]
  OBVIOUS
<1>8. g = [k \in 0 .. m |-> g[k]]
  OBVIOUS
<1> HIDE DEF g
<1>9. \A k \in 0 .. m - 1 : g[k] = h[k]
  <2>1. \A k \in 0 .. m - 1 : k \in 0 .. m
    BY <1>1
  <2> QED BY <1>6, <1>7, <2>1
<1>10. \A k \in 0 .. m : g[k] = IF k = 0 THEN 0 ELSE g[k - 1] + v[k]
  BY <1>5, <1>7, <1>9
<1>11. Accumulates(g, v, m)
  BY <1>8, <1>10 DEF Accumulates
<1> QED BY <1>1, <1>11

\* It is the sum over the places up to there.
LEMMA AccumulatesIs ==
  ASSUME NEW n \in Nat, NEW v, \A k \in 1 .. n : v[k] \in Int, NEW h, Accumulates(h, v, n)
  PROVE  \A k \in 0 .. n : h[k] = Sum(v, 1 .. k) /\ h[k] \in Int
<1> DEFINE Bad == {k \in 0 .. n : ~(h[k] = Sum(v, 1 .. k) /\ h[k] \in Int)}
<1> SUFFICES ASSUME Bad # {} PROVE FALSE
  OBVIOUS
<1>0. Bad \subseteq Nat
  OBVIOUS
<1>1. PICK k \in Bad : \A l \in Bad : k <= l
  BY <1>0, LeastElement
<1>2. \A l \in 0 .. n : h[l] = IF l = 0 THEN 0 ELSE h[l - 1] + v[l]
  BY DEF Accumulates
<1>3. k # 0
  <2>1. 1 .. 0 = {}
    OBVIOUS
  <2>2. Sum(v, 1 .. 0) = 0 /\ h[0] = 0
    BY <1>2, <2>1, SumEmpty
  <2> QED BY <1>1, <2>2
<1>4. k - 1 \in 0 .. n /\ k - 1 \notin Bad /\ k \in 1 .. n
  BY <1>1, <1>3
<1>5. h[k - 1] = Sum(v, 1 .. k - 1) /\ h[k - 1] \in Int
  BY <1>4
<1>6. h[k] = h[k - 1] + v[k] /\ v[k] \in Int
  BY <1>2, <1>3, <1>4
<1>7. Sum(v, 1 .. k) = Sum(v, 1 .. k - 1) + v[k]
  <2> DEFINE D == 1 .. k - 1
  <2>1. D \cup {k} = 1 .. k /\ k \notin D /\ \A x \in D \cup {k} : v[x] \in Int
    BY <1>4
  <2>2. IsFiniteSet(D)
    BY <1>4, FS_Interval
  <2> HIDE DEF D
  <2>3. Sum(v, D \cup {k}) = Sum(v, D) + v[k]
    BY <2>1, <2>2, SumAdds
  <2> QED BY <2>1, <2>3 DEF D
<1> QED BY <1>1, <1>5, <1>6, <1>7

\* The items of the rows that are in a set, in their order.
LEMMA ItemsPicked ==
  ASSUME NEW rows, List(rows), NEW G
  PROVE  \E p : Picks(p, Picked(ItemRows(rows), {k \in DOMAIN ItemRows(rows) : ItemRows(rows)[k] \in G}),
                      rows, {i \in DOMAIN rows : rows[i].class = "item" /\ rows[i] \in G})
<1> DEFINE items == ItemRows(rows)
           T == {i \in DOMAIN rows : rows[i].class = "item"}
           U == {k \in DOMAIN items : items[k] \in G}
           t == Picked(items, U)
           V == {i \in DOMAIN rows : rows[i].class = "item" /\ rows[i] \in G}
<1>1. items = Picked(rows, T) /\ T \in SUBSET DOMAIN rows
  BY DEF ItemRows, Select, Picked
<1>2. V = {i \in T : rows[i] \in G}
  OBVIOUS
<1> HIDE DEF items, T, V
<1>3. PICK p : Picks(p, items, rows, T)
  BY <1>1, PickedInOrder
<1>4. List(items) /\ U \in SUBSET DOMAIN items
  BY <1>3 DEF Picks
<1>5. \A k \in DOMAIN items : k \in U <=> items[k] \in G
  OBVIOUS
<1> HIDE DEF U, t
<1>6. PICK q : Picks(q, t, items, U)
  BY <1>4, PickedInOrder DEF t
<1>7. Picks([k \in DOMAIN t |-> p[q[k]]], t, rows, {p[k] : k \in U})
  BY <1>3, <1>4, <1>6, PicksThrough
<1>8. {p[k] : k \in U} = V
  <2>1. ASSUME NEW k \in U PROVE p[k] \in V
    <3>1. k \in DOMAIN items /\ items[k] \in G
      BY <1>4, <1>5
    <3>2. p[k] \in T /\ items[k] = rows[p[k]]
      BY <1>3, <3>1 DEF Picks
    <3> QED BY <1>2, <3>1, <3>2
  <2>2. ASSUME NEW i \in V PROVE \E k \in U : p[k] = i
    <3>1. i \in T /\ rows[i] \in G
      BY <1>2
    <3>2. PICK k \in DOMAIN items : p[k] = i
      BY <1>3, <3>1 DEF Picks
    <3>3. items[k] = rows[i]
      BY <1>3, <3>2 DEF Picks
    <3> QED BY <1>5, <3>1, <3>2, <3>3
  <2> QED BY <2>1, <2>2
<1>9. Picks([k \in DOMAIN t |-> p[q[k]]], t, rows, V)
  BY <1>7, <1>8
<1> QED BY <1>9 DEF t, U, V, items

-----------------------------------------------------------------------------
(* Duplicates                                                              *)

\* Two of the items say the same.
Alike(items, i, j) ==
  /\ DescriptionKey(items[i]) = DescriptionKey(items[j])
  /\ RowSignature(items[i]) = RowSignature(items[j])

\* The first item that says what the j-th does.
Original(items, j) ==
  CHOOSE i \in {k \in 1 .. j : Alike(items, k, j)} : \A l \in {k \in 1 .. j : Alike(items, k, j)} : i <= l

\* The finding that the j-th item repeats an earlier one.
Duplicate(items, j) ==
  Finding(<<"boq", IF items[Original(items, j)].sheet = items[j].sheet THEN "exact_duplicate"
                   ELSE "cross_sheet_duplicate">>, items[j].sheet,
          <<RowId(items[Original(items, j)]), RowId(items[j])>>, SourceLocation(items[j], items[j].description))

Repeats(rows) ==
  OfRule(CheckExactDuplicates(rows), "exact_duplicate") \cup OfRule(CheckExactDuplicates(rows), "cross_sheet_duplicate")

\* Exactly the items that have an original before them are reported.
LEMMA DuplicatesAre ==
  ASSUME NEW rows, List(rows)
  PROVE  Repeats(rows) = {Duplicate(Described(rows), j) :
                            j \in {k \in DOMAIN Described(rows) : Original(Described(rows), k) # k}}
<1> DEFINE items == Described(rows)
           least(S) == CHOOSE i \in S : \A j \in S : i <= j
           key(i) == <<DescriptionKey(items[i]), RowSignature(items[i])>>
           first(j) == least({k \in 1 .. j : key(k) = key(j)})
           named(j) == least({k \in 1 .. j : DescriptionKey(items[k]) = DescriptionKey(items[j])})
           finding(rule, i, j) == Finding(<<"boq", rule>>, items[j].sheet,
             <<RowId(items[i]), RowId(items[j])>>, SourceLocation(items[j], items[j].description))
           a(j) == If(first(j) # j, finding(IF items[first(j)].sheet = items[j].sheet THEN "exact_duplicate"
                                            ELSE "cross_sheet_duplicate", first(j), j))
           b(j) == If(items[named(j)].sheet # items[j].sheet
                        /\ RowSignature(items[named(j)]) # RowSignature(items[j]),
                      finding("cross_sheet_inconsistency", named(j), j))
           s == [j \in DOMAIN items |-> a(j) \o b(j)]
           Q == {"exact_duplicate", "cross_sheet_duplicate"}
<1>1. CheckExactDuplicates(rows) = FlattenSeq(s)
  <2> DEFINE id == [j \in DOMAIN items |-> j]
             t == [j \in DOMAIN id |-> a(id[j]) \o b(id[j])]
  <2>1. CheckExactDuplicates(rows) = FlattenSeq(t)
    BY DEF CheckExactDuplicates, Each
  <2> HIDE DEF items, a, b
  <2>2. t = s
    OBVIOUS
  <2> QED BY <2>1, <2>2
<1>2. List(items)
  BY DescribedAre
<1> HIDE DEF items
<1>3. \A j : first(j) = Original(items, j)
  BY DEF Original, Alike
<1>4. ASSUME NEW j
      PROVE  /\ a(j) = IF Original(items, j) # j THEN <<Duplicate(items, j)>> ELSE <<>>
             /\ Duplicate(items, j).rule \in {<<"boq", "exact_duplicate">>, <<"boq", "cross_sheet_duplicate">>}
  <2>1. a(j) = If(Original(items, j) # j, Duplicate(items, j))
    <3> HIDE DEF first
    <3> QED BY <1>3 DEF Duplicate
  <2>2. Duplicate(items, j).rule \in {<<"boq", "exact_duplicate">>, <<"boq", "cross_sheet_duplicate">>}
    BY FindingIs DEF Duplicate
  <2> QED BY <2>1, <2>2 DEF If
<1>5. ASSUME NEW j PROVE \/ b(j) = <<>>
                         \/ \E f : b(j) = <<f>> /\ f.rule = <<"boq", "cross_sheet_inconsistency">>
  <2>1. finding("cross_sheet_inconsistency", named(j), j).rule = <<"boq", "cross_sheet_inconsistency">>
    <3> HIDE DEF named
    <3> QED BY FindingIs
  <2> HIDE DEF finding, named
  <2> QED BY <2>1 DEF If
<1> HIDE DEF a, b
<1>6. ASSUME NEW j
      PROVE  /\ List(a(j) \o b(j))
             /\ Members(a(j) \o b(j)) = Members(a(j)) \cup Members(b(j))
             /\ \A f \in Members(b(j)) : f.rule = <<"boq", "cross_sheet_inconsistency">>
             /\ Members(a(j)) = IF Original(items, j) # j THEN {Duplicate(items, j)} ELSE {}
  <2>1. \A f : Members(<<f>>) = {f}
    BY DEF Members
  <2>2. List(a(j)) /\ List(b(j))
    BY <1>4, <1>5, ShortLists
  <2>3. \A f \in Members(b(j)) : f.rule = <<"boq", "cross_sheet_inconsistency">>
    BY <1>5, <2>1, ShortLists
  <2>4. Members(a(j)) = IF Original(items, j) # j THEN {Duplicate(items, j)} ELSE {}
    BY <1>4, <2>1, ShortLists
  <2> QED BY <2>2, <2>3, <2>4, MembersJoin
<1>7. List(s) /\ DOMAIN s = DOMAIN items /\ \A j \in DOMAIN s : s[j] = a(j) \o b(j)
  <2>1. DOMAIN s = DOMAIN items /\ s = [j \in DOMAIN s |-> s[j]] /\ \A j \in DOMAIN s : s[j] = a(j) \o b(j)
    OBVIOUS
  <2> HIDE DEF s
  <2> QED BY <1>2, <2>1, ListMapped
<1> HIDE DEF s
<1>8. Members(FlattenSeq(s)) = UNION {Members(s[j]) : j \in DOMAIN s}
  <2>1. \A j \in DOMAIN s : List(s[j])
    BY <1>6, <1>7
  <2> QED BY <1>7, <2>1, FlattenMembers
<1>9. ASSUME NEW f PROVE f \in Repeats(rows) <=> \E j \in {k \in DOMAIN items : Original(items, k) # k} : f = Duplicate(items, j)
  <2>1. f \in Repeats(rows) <=> /\ f \in Members(FlattenSeq(s))
                                /\ f.rule \in {<<"boq", "exact_duplicate">>, <<"boq", "cross_sheet_duplicate">>}
    BY <1>1 DEF Repeats, OfRule
  <2>2. ASSUME f \in Members(FlattenSeq(s)), f.rule \in {<<"boq", "exact_duplicate">>, <<"boq", "cross_sheet_duplicate">>}
        PROVE  \E j \in {k \in DOMAIN items : Original(items, k) # k} : f = Duplicate(items, j)
    <3>0. PICK j \in DOMAIN s : f \in Members(s[j])
      BY <1>8, <2>2
    <3>1. j \in DOMAIN items /\ f \in Members(a(j)) \cup Members(b(j))
      BY <1>6, <1>7, <3>0
    <3>2. f.rule # <<"boq", "cross_sheet_inconsistency">>
      BY <2>2
    <3>3. f \in Members(a(j))
      BY <1>6, <3>1, <3>2
    <3>4. Original(items, j) # j /\ f = Duplicate(items, j)
      BY <1>6, <3>3
    <3> QED BY <3>1, <3>4
  <2>3. ASSUME NEW j \in {k \in DOMAIN items : Original(items, k) # k}, f = Duplicate(items, j)
        PROVE  f \in Members(FlattenSeq(s)) /\ f.rule \in {<<"boq", "exact_duplicate">>, <<"boq", "cross_sheet_duplicate">>}
    <3>1. f \in Members(s[j]) /\ j \in DOMAIN s
      BY <1>6, <1>7, <2>3
    <3> QED BY <1>4, <1>8, <2>3, <3>1
  <2> QED BY <2>1, <2>2, <2>3
<1> QED BY <1>9 DEF items

\* The first of a class is its own original, and no other is.
LEMMA OriginalIs ==
  ASSUME NEW items, List(items), NEW j \in DOMAIN items
  PROVE  \E m \in DOMAIN items : /\ Alike(items, m, j)
                                 /\ \A k \in DOMAIN items : Alike(items, k, j) => Original(items, k) = m
<1> DEFINE C == {k \in DOMAIN items : Alike(items, k, j)}
<1>1. Len(items) \in Nat /\ DOMAIN items = 1 .. Len(items)
  BY ListPlaces
<1>2. C \subseteq Nat /\ C # {}
  BY <1>1 DEF Alike
<1>3. PICK m \in C : \A l \in C : m <= l
  BY <1>2, LeastElement
<1>4. ASSUME NEW k \in DOMAIN items, Alike(items, k, j) PROVE Original(items, k) = m
  <2> DEFINE S == {l \in 1 .. k : Alike(items, l, k)}
  <2>1. S = {l \in C : l <= k}
    BY <1>1, <1>4 DEF Alike
  <2>2. m \in S /\ \A l \in S : m <= l
    BY <1>3, <1>4, <2>1
  <2>3. S \subseteq Nat
    OBVIOUS
  <2> HIDE DEF S, C
  <2>4. \A i \in S : (\A l \in S : i <= l) => i = m
    BY <2>2, <2>3
  <2>5. Original(items, k) = CHOOSE i \in S : \A l \in S : i <= l
    BY DEF Original, S
  <2> QED BY <2>2, <2>4, <2>5
<1> QED BY <1>3, <1>4

\* Of the items that say the same all but one are reported.
LEMMA RepeatsCounted ==
  ASSUME NEW rows, List(rows), Distinct(rows), NEW j \in DOMAIN Described(rows)
  PROVE  LET items == Described(rows)
             C == {k \in DOMAIN items : Alike(items, k, j)}
             R == {f \in Repeats(rows) : \E k \in C : f.subject[2] = RowId(items[k])}
         IN IsFiniteSet(C) /\ Cardinality(R) = Cardinality(C) - 1
<1> DEFINE items == Described(rows)
           C == {k \in DOMAIN items : Alike(items, k, j)}
           R == {f \in Repeats(rows) : \E k \in C : f.subject[2] = RowId(items[k])}
<1>1. List(items) /\ Distinct(items)
  BY DescribedAre
<1>2. Repeats(rows) = {Duplicate(items, k) : k \in {l \in DOMAIN items : Original(items, l) # l}}
  BY DuplicatesAre
<1>3. j \in DOMAIN items
  OBVIOUS
<1> HIDE DEF items
<1>4. PICK m \in DOMAIN items : /\ Alike(items, m, j)
                                /\ \A k \in DOMAIN items : Alike(items, k, j) => Original(items, k) = m
  BY <1>1, <1>3, OriginalIs
<1>5. m \in C /\ C \in SUBSET DOMAIN items /\ \A k \in C : k \in DOMAIN items /\ Original(items, k) = m
  BY <1>4
<1>6. \A k : Duplicate(items, k).subject[2] = RowId(items[k])
  BY FindingIs DEF Duplicate
<1>7. \A k, l \in DOMAIN items : RowId(items[k]) = RowId(items[l]) => k = l
  BY <1>1 DEF Distinct
<1>8. IsFiniteSet(C)
  BY <1>1, <1>5, ListPlaces, FS_Subset
<1> DEFINE d == [k \in C \ {m} |-> Duplicate(items, k)]
<1>9. R = {d[k] : k \in C \ {m}}
  <2>1. ASSUME NEW f \in R PROVE \E k \in C \ {m} : f = d[k]
    <3>1. PICK l \in DOMAIN items : Original(items, l) # l /\ f = Duplicate(items, l)
      BY <1>2
    <3>2. PICK k \in C : f.subject[2] = RowId(items[k])
      OBVIOUS
    <3>3. k = l
      BY <1>5, <1>6, <1>7, <3>1, <3>2
    <3>4. k # m
      BY <1>5, <3>1, <3>2, <3>3
    <3> QED BY <3>1, <3>2, <3>3, <3>4
  <2>2. ASSUME NEW k \in C \ {m} PROVE d[k] \in R
    <3>1. Duplicate(items, k) \in Repeats(rows)
      BY <1>2, <1>5
    <3> QED BY <1>6, <3>1
  <2> HIDE DEF R, d
  <2> QED BY <2>1, <2>2
<1>10. \A k, l \in C \ {m} : d[k] = d[l] => k = l
  BY <1>5, <1>6, <1>7
<1>11. IsFiniteSet(C \ {m}) /\ Cardinality(C \ {m}) = Cardinality(C) - 1
  BY <1>5, <1>8, FS_RemoveElement
<1> HIDE DEF d, R, C
<1>12. Cardinality(R) = Cardinality(C \ {m})
  <2> DEFINE D == C \ {m}
  <2>1. R = {d[k] : k \in D} /\ (\A k, l \in D : d[k] = d[l] => k = l) /\ IsFiniteSet(D)
    BY <1>9, <1>10, <1>11
  <2> HIDE DEF D
  <2> QED BY <2>1, ImageCount DEF D
<1> QED BY <1>8, <1>11, <1>12 DEF R, C, items

\* The described items are those of the rows, in their order.
LEMMA DescribedPicked ==
  ASSUME NEW rows, List(rows)
  PROVE  \E p : Picks(p, Described(rows), rows,
                      {i \in {j \in DOMAIN rows : rows[j].class = "item"} : rows[i].description # None})
<1> DEFINE items == ItemRows(rows)
           G == {r \in Members(rows) : r.description # None}
           U == {k \in DOMAIN items : items[k] \in G}
           W == {k \in DOMAIN items : items[k].description # None}
           V == {i \in DOMAIN rows : rows[i].class = "item" /\ rows[i] \in G}
<1>1. Described(rows) = Picked(items, W)
  BY DEF Described, Select, Picked
<1>2. W = U
  <2> DEFINE T == {i \in DOMAIN rows : rows[i].class = "item"}
  <2>1. items = Picked(rows, T)
    BY DEF ItemRows, Select, Picked
  <2>2. T \in SUBSET DOMAIN rows
    OBVIOUS
  <2> HIDE DEF items, T
  <2>3. \A k \in DOMAIN items : \E i \in T : items[k] = rows[i]
    BY <2>1, <2>2, PickedRows
  <2>4. \A k \in DOMAIN items : items[k] \in Members(rows)
    BY <2>2, <2>3 DEF Members
  <2> QED BY <2>4
<1>3. \E p : Picks(p, Picked(items, U), rows, V)
  BY ItemsPicked
<1>4. V = {i \in {j \in DOMAIN rows : rows[j].class = "item"} : rows[i].description # None}
  BY DEF Members
<1> HIDE DEF items, U, W, V
<1> QED BY <1>1, <1>2, <1>3, <1>4

\* Duplicates are counted as the property counts them.
LEMMA DuplicatesHold ==
  ASSUME List(found.rows), Distinct(found.rows),
         Found("exact_duplicate") \cup Found("cross_sheet_duplicate") = Repeats(found.rows)
  PROVE  DuplicatesAreCounted
<1> DEFINE rows == found.rows
           items == Described(rows)
           described == {i \in Items : Row(i).description # None}
           same(i, j) == /\ DescriptionKey(Row(i)) = DescriptionKey(Row(j))
                         /\ RowSignature(Row(i)) = RowSignature(Row(j))
           reports == Found("exact_duplicate") \cup Found("cross_sheet_duplicate")
           about(i) == {f \in reports : f.subject[2] = RowId(Row(i))}
<1>1. \E p : Picks(p, items, rows, described)
  <2>1. described = {i \in {j \in DOMAIN rows : rows[j].class = "item"} : rows[i].description # None}
    BY DEF Items, Row
  <2> QED BY <2>1, DescribedPicked
<1>2. PICK p : Picks(p, items, rows, described)
  BY <1>1
<1> HIDE DEF described
<1>3. /\ \A k \in DOMAIN items : p[k] \in described /\ items[k] = Row(p[k])
      /\ \A k, l \in DOMAIN items : p[k] = p[l] => k = l
      /\ \A i \in described : \E k \in DOMAIN items : p[k] = i
  BY <1>2 DEF Picks, Row
<1>4. ASSUME NEW i \in described
      PROVE  Cardinality({j \in described : same(i, j)}) - 1
               = Cardinality(UNION {about(j) : j \in {k \in described : same(i, k)}})
  <2>1. PICK l \in DOMAIN items : p[l] = i
    BY <1>3
  <2> DEFINE C == {k \in DOMAIN items : Alike(items, k, l)}
             R == {f \in Repeats(rows) : \E k \in C : f.subject[2] = RowId(items[k])}
             S == {j \in described : same(i, j)}
  <2>2. IsFiniteSet(C) /\ Cardinality(R) = Cardinality(C) - 1
    BY RepeatsCounted
  <2>3. \A k \in DOMAIN items : k \in C <=> same(i, p[k])
    BY <1>3, <2>1 DEF Alike
  <2>4. S = {p[k] : k \in C}
    BY <1>3, <2>3
  <2>5. Cardinality(S) = Cardinality(C)
    <3>1. \A k, m \in C : p[k] = p[m] => k = m
      BY <1>3
    <3> HIDE DEF C, S
    <3> QED BY <2>2, <2>4, <3>1, ImageCount
  <2>6. UNION {about(j) : j \in S} = R
    <3>1. \A k \in C : items[k] = Row(p[k])
      BY <1>3
    <3>2. \A j \in S : about(j) = {f \in Repeats(rows) : f.subject[2] = RowId(Row(j))}
      OBVIOUS
    <3> HIDE DEF C, S, about
    <3> QED BY <2>4, <3>1, <3>2
  <2> QED BY <2>2, <2>5, <2>6
<1>5. ASSUME NEW f \in reports
      PROVE  (f.subject[1][1] # f.subject[2][1]) <=> f.rule = <<"boq", "cross_sheet_duplicate">>
  <2>1. PICK j : f = Duplicate(items, j)
    BY DuplicatesAre
  <2>2. f.subject = <<RowId(items[Original(items, j)]), RowId(items[j])>>
    BY <2>1, FindingIs DEF Duplicate
  <2>3. f.rule = <<"boq", IF items[Original(items, j)].sheet = items[j].sheet THEN "exact_duplicate"
                          ELSE "cross_sheet_duplicate">>
    BY <2>1, FindingIs DEF Duplicate
  <2>4. f.subject[1][1] = items[Original(items, j)].sheet /\ f.subject[2][1] = items[j].sheet
    BY <2>2 DEF RowId
  <2> QED BY <2>3, <2>4
<1> QED BY <1>4, <1>5 DEF DuplicatesAreCounted, described

-----------------------------------------------------------------------------
(* Sums of a table                                                         *)

\* The items with an amount up to a row, and those of them that no subtotal closed.
Priced(rows, k) == {l \in 1 .. k : rows[l].class = "item" /\ rows[l].amount # None}
Open(rows, k) == {l \in Priced(rows, k) : \A m \in l .. k : rows[m].class # "subtotal"}

Amount(rows) == [l \in DOMAIN rows |-> rows[l].amount.value]

\* What the pass over a table has counted after k rows.
Counted(rows, k) ==
  [running |-> Sum(Amount(rows), Open(rows, k)), items |-> Cardinality(Open(rows, k)),
   total |-> Sum(Amount(rows), Priced(rows, k)), all |-> Cardinality(Priced(rows, k))]

\* What a row adds to that.
Counting(c, row) ==
  CASE row.class = "item" /\ row.amount # None ->
         [c EXCEPT !.running = @ + row.amount.value, !.items = @ + 1,
                   !.total = @ + row.amount.value, !.all = @ + 1]
    [] Closes(row) -> [c EXCEPT !.running = 0, !.items = 0]
    [] OTHER -> c

\* The function that Sums names.
Passes(h, rows, n) ==
  h = [k \in 0 .. n |-> IF k = 0 THEN [running |-> 0, items |-> 0, total |-> 0, all |-> 0]
                        ELSE Counting(h[k - 1], rows[k])]

\* The sets grow by the row.
LEMMA PricedGrows ==
  ASSUME NEW rows, NEW k \in Nat \ {0}
  PROVE  /\ rows[k].class = "item" /\ rows[k].amount # None
              => /\ Priced(rows, k) = Priced(rows, k - 1) \cup {k}
                 /\ Open(rows, k) = Open(rows, k - 1) \cup {k}
         /\ ~(rows[k].class = "item" /\ rows[k].amount # None) => Priced(rows, k) = Priced(rows, k - 1)
         /\ rows[k].class = "subtotal" => Open(rows, k) = {}
         /\ ~(rows[k].class = "item" /\ rows[k].amount # None) /\ rows[k].class # "subtotal"
              => Open(rows, k) = Open(rows, k - 1)
         /\ k \notin Priced(rows, k - 1) /\ k \notin Open(rows, k - 1)
<1> DEFINE priced(l) == rows[l].class = "item" /\ rows[l].amount # None
<1>1. k - 1 \in Nat /\ \A l \in 1 .. k - 1 : l \in 1 .. k /\ l \in Int /\ l # k /\ k \in l .. k
  OBVIOUS
<1>2. \A l \in 1 .. k : l = k \/ l \in 1 .. k - 1
  OBVIOUS
<1>3. \A l \in 1 .. k - 1 : \A m : m \in l .. k <=> m \in l .. k - 1 \/ m = k
  OBVIOUS
<1>4. k \in 1 .. k /\ \A m \in k .. k : m = k
  OBVIOUS
<1>5. \A l \in Priced(rows, k - 1) : l \in 1 .. k - 1 /\ priced(l)
  BY DEF Priced
<1>6. Priced(rows, k) = IF priced(k) THEN Priced(rows, k - 1) \cup {k} ELSE Priced(rows, k - 1)
  BY <1>1, <1>2, <1>4 DEF Priced
<1>7. \A l \in Priced(rows, k - 1) :
        (\A m \in l .. k : rows[m].class # "subtotal")
          <=> (\A m \in l .. k - 1 : rows[m].class # "subtotal") /\ rows[k].class # "subtotal"
  BY <1>3, <1>5
<1>8. priced(k) => \A m \in k .. k : rows[m].class # "subtotal"
  BY <1>4
<1>9. priced(k) => Open(rows, k) = Open(rows, k - 1) \cup {k}
  <2> SUFFICES ASSUME priced(k) PROVE Open(rows, k) = Open(rows, k - 1) \cup {k}
    OBVIOUS
  <2>1. rows[k].class # "subtotal"
    OBVIOUS
  <2> HIDE DEF priced
  <2> QED BY <1>6, <1>7, <1>8, <2>1 DEF Open
<1>10. rows[k].class = "subtotal" => Open(rows, k) = {}
  BY <1>6, <1>7 DEF Open
<1>11. ~priced(k) /\ rows[k].class # "subtotal" => Open(rows, k) = Open(rows, k - 1)
  BY <1>6, <1>7 DEF Open
<1>12. k \notin Priced(rows, k - 1) /\ k \notin Open(rows, k - 1)
  BY <1>1, <1>5 DEF Open
<1> QED BY <1>6, <1>9, <1>10, <1>11, <1>12

\* The sets are finite.
LEMMA PricedFinite ==
  ASSUME NEW rows, NEW k \in Nat
  PROVE  /\ IsFiniteSet(Priced(rows, k)) /\ IsFiniteSet(Open(rows, k))
         /\ Cardinality(Priced(rows, k)) \in Nat /\ Cardinality(Open(rows, k)) \in Nat
         /\ Priced(rows, k) \in SUBSET (1 .. k) /\ Open(rows, k) \in SUBSET (1 .. k)
<1>1. Priced(rows, k) \in SUBSET (1 .. k) /\ Open(rows, k) \in SUBSET (1 .. k)
  BY DEF Priced, Open
<1>2. IsFiniteSet(1 .. k)
  BY FS_Interval
<1> QED BY <1>1, <1>2, FS_Subset, FS_CardinalityType

\* There is such a function.
LEMMA PassesExists ==
  ASSUME NEW rows, NEW n \in Nat
  PROVE  \E h : Passes(h, rows, n)
<1> DEFINE Bad == {m \in Nat : ~ \E h : Passes(h, rows, m)}
           zero == [running |-> 0, items |-> 0, total |-> 0, all |-> 0]
<1> SUFFICES ASSUME Bad # {} PROVE FALSE
  OBVIOUS
<1>1. PICK m \in Bad : \A l \in Bad : m <= l
  BY LeastElement
<1>2. m # 0
  <2>1. \A k \in 0 .. 0 : k = 0
    OBVIOUS
  <2>2. Passes([k \in 0 .. 0 |-> zero], rows, 0)
    BY <2>1 DEF Passes
  <2> QED BY <1>1, <2>2
<1>3. m - 1 \in Nat /\ m - 1 \notin Bad
  BY <1>1, <1>2
<1>4. PICK h : Passes(h, rows, m - 1)
  BY <1>3
<1> DEFINE g == [k \in 0 .. m |-> IF k = 0 THEN zero ELSE Counting(h[k - 1], rows[k])]
<1>5. \A k \in 0 .. m : k # 0 => k - 1 \in 0 .. m - 1 /\ k - 1 \in 0 .. m
  BY <1>1
<1>6. \A k \in 0 .. m - 1 : h[k] = IF k = 0 THEN zero ELSE Counting(h[k - 1], rows[k])
  BY <1>4 DEF Passes
<1>7. \A k \in 0 .. m : g[k] = IF k = 0 THEN zero ELSE Counting(h[k - 1], rows[k])
  OBVIOUS
<1>8. g = [k \in 0 .. m |-> g[k]]
  OBVIOUS
<1> HIDE DEF g, zero
<1>9. \A k \in 0 .. m - 1 : g[k] = h[k]
  <2>1. \A k \in 0 .. m - 1 : k \in 0 .. m
    BY <1>1
  <2> QED BY <1>6, <1>7, <2>1
<1>10. \A k \in 0 .. m : g[k] = IF k = 0 THEN zero ELSE Counting(g[k - 1], rows[k])
  BY <1>5, <1>7, <1>9
<1>11. g = [k \in 0 .. m |-> IF k = 0 THEN zero ELSE Counting(g[k - 1], rows[k])]
  BY <1>8, <1>10
<1>12. Passes(g, rows, m)
  BY <1>11 DEF Passes, zero
<1> QED BY <1>1, <1>12

\* The cases of a row.
LEMMA CountingOf ==
  ASSUME NEW r, NEW i, NEW t, NEW a, NEW row, NEW c, c = [running |-> r, items |-> i, total |-> t, all |-> a]
  PROVE  /\ row.class = "item" /\ row.amount # None
              => Counting(c, row) = [running |-> r + row.amount.value, items |-> i + 1,
                                     total |-> t + row.amount.value, all |-> a + 1]
         /\ ~(row.class = "item" /\ row.amount # None) /\ row.class = "subtotal"
              => Counting(c, row) = [running |-> 0, items |-> 0, total |-> t, all |-> a]
         /\ ~(row.class = "item" /\ row.amount # None) /\ row.class # "subtotal" => Counting(c, row) = c
<1>1. ASSUME NEW x
      PROVE  [c EXCEPT !.running = @ + x, !.items = @ + 1, !.total = @ + x, !.all = @ + 1]
               = [running |-> r + x, items |-> i + 1, total |-> t + x, all |-> a + 1]
  <2> DEFINE e == [c EXCEPT !.running = @ + x, !.items = @ + 1, !.total = @ + x, !.all = @ + 1]
             g == [running |-> r + x, items |-> i + 1, total |-> t + x, all |-> a + 1]
             F == {"running", "items", "total", "all"}
  <2>1. DOMAIN e = F /\ DOMAIN g = F
    OBVIOUS
  <2>2. c.running = r /\ c.items = i /\ c.total = t /\ c.all = a
    OBVIOUS
  <2>3. /\ g.running = r + x /\ g.items = i + 1 /\ g.total = t + x /\ g.all = a + 1
    OBVIOUS
  <2>4. /\ e.running = r + x /\ e.items = i + 1 /\ e.total = t + x /\ e.all = a + 1
    BY <2>2
  <2>5. e = [f \in DOMAIN e |-> e[f]] /\ g = [f \in DOMAIN g |-> g[f]]
    OBVIOUS
  <2> HIDE DEF e, g
  <2>6. \A f \in F : e[f] = g[f]
    BY <2>3, <2>4
  <2> HIDE DEF F
  <2>7. e = g
    BY <2>1, <2>5, <2>6
  <2> QED BY <2>7 DEF e, g
<1>2. [c EXCEPT !.running = 0, !.items = 0] = [running |-> 0, items |-> 0, total |-> t, all |-> a]
  <2> DEFINE e == [c EXCEPT !.running = 0, !.items = 0]
             g == [running |-> 0, items |-> 0, total |-> t, all |-> a]
             F == {"running", "items", "total", "all"}
  <2>1. DOMAIN e = F /\ DOMAIN g = F
    OBVIOUS
  <2>2. c.running = r /\ c.items = i /\ c.total = t /\ c.all = a
    OBVIOUS
  <2>3. /\ g.running = 0 /\ g.items = 0 /\ g.total = t /\ g.all = a
    OBVIOUS
  <2>4. /\ e.running = 0 /\ e.items = 0 /\ e.total = t /\ e.all = a
    BY <2>2
  <2>5. e = [f \in DOMAIN e |-> e[f]] /\ g = [f \in DOMAIN g |-> g[f]]
    OBVIOUS
  <2> HIDE DEF e, g
  <2>6. \A f \in F : e[f] = g[f]
    BY <2>3, <2>4
  <2> HIDE DEF F
  <2>7. e = g
    BY <2>1, <2>5, <2>6
  <2> QED BY <2>7 DEF e, g
<1>3. row.class = "item" /\ row.amount # None
        => Counting(c, row) = [c EXCEPT !.running = @ + row.amount.value, !.items = @ + 1,
                                        !.total = @ + row.amount.value, !.all = @ + 1]
  BY DEF Counting, Closes
<1>4. ~(row.class = "item" /\ row.amount # None) /\ row.class = "subtotal"
        => Counting(c, row) = [c EXCEPT !.running = 0, !.items = 0]
  BY DEF Counting, Closes
<1>5. ~(row.class = "item" /\ row.amount # None) /\ row.class # "subtotal" => Counting(c, row) = c
  BY DEF Counting, Closes
<1> QED BY <1>1, <1>2, <1>3, <1>4, <1>5

\* A row adds to what is counted before it.
LEMMA CountingIs ==
  ASSUME NEW rows, NEW n \in Nat, DOMAIN rows = 1 .. n,
         \A l \in 1 .. n : rows[l].amount # None => rows[l].amount.value \in Int,
         NEW k \in 1 .. n
  PROVE  Counting(Counted(rows, k - 1), rows[k]) = Counted(rows, k)
<1> DEFINE v == Amount(rows)
           P == Priced(rows, k - 1)
           O == Open(rows, k - 1)
           priced == rows[k].class = "item" /\ rows[k].amount # None
<1>0. k \in Nat \ {0} /\ k - 1 \in Nat
  OBVIOUS
<1>1. /\ IsFiniteSet(P) /\ IsFiniteSet(O) /\ Cardinality(P) \in Nat /\ Cardinality(O) \in Nat
      /\ P \in SUBSET (1 .. k - 1) /\ O \in SUBSET (1 .. k - 1) /\ O \in SUBSET P
  BY <1>0, PricedFinite DEF Open
<1>2. /\ priced => Priced(rows, k) = P \cup {k} /\ Open(rows, k) = O \cup {k}
      /\ ~priced => Priced(rows, k) = P
      /\ rows[k].class = "subtotal" => Open(rows, k) = {}
      /\ ~priced /\ rows[k].class # "subtotal" => Open(rows, k) = O
      /\ k \notin P /\ k \notin O
  BY <1>0, PricedGrows
<1>3. \A l \in 1 .. n : v[l] = rows[l].amount.value
  BY DEF Amount
<1>4. \A l \in P : v[l] \in Int
  <2>1. \A l \in P : l \in 1 .. n /\ rows[l].amount # None
    BY <1>0, <1>1 DEF Priced
  <2> QED BY <1>3, <2>1
<1>5. priced => v[k] \in Int
  BY <1>3
<1>6. /\ Counted(rows, k - 1) = [running |-> Sum(v, O), items |-> Cardinality(O),
                                 total |-> Sum(v, P), all |-> Cardinality(P)]
      /\ Counted(rows, k) = [running |-> Sum(v, Open(rows, k)), items |-> Cardinality(Open(rows, k)),
                             total |-> Sum(v, Priced(rows, k)), all |-> Cardinality(Priced(rows, k))]
  BY DEF Counted
<1>7. v[k] = rows[k].amount.value
  BY <1>3
<1> HIDE DEF v, P, O
<1>8. CASE priced
  <2>1. /\ Sum(v, P \cup {k}) = Sum(v, P) + v[k]
        /\ Cardinality(P \cup {k}) = Cardinality(P) + 1
    <3>1. \A x \in P \cup {k} : v[x] \in Int
      BY <1>4, <1>5, <1>8
    <3> QED BY <1>1, <1>2, <3>1, SumAdds, FS_AddElement
  <2>2. /\ Sum(v, O \cup {k}) = Sum(v, O) + v[k]
        /\ Cardinality(O \cup {k}) = Cardinality(O) + 1
    <3>1. \A x \in O \cup {k} : v[x] \in Int
      BY <1>1, <1>4, <1>5, <1>8
    <3> QED BY <1>1, <1>2, <3>1, SumAdds, FS_AddElement
  <2>3. PICK r, i, t, a : r = Sum(v, O) /\ i = Cardinality(O) /\ t = Sum(v, P) /\ a = Cardinality(P)
    OBVIOUS
  <2>4. Counted(rows, k - 1) = [running |-> r, items |-> i, total |-> t, all |-> a]
    BY <1>6, <2>3
  <2>5. Counting(Counted(rows, k - 1), rows[k])
          = [running |-> r + v[k], items |-> i + 1, total |-> t + v[k], all |-> a + 1]
    BY <1>7, <1>8, <2>4, CountingOf
  <2> QED BY <1>2, <1>6, <1>8, <2>1, <2>2, <2>3, <2>5
<1>9. CASE ~priced /\ rows[k].class = "subtotal"
  <2>1. Sum(v, {}) = 0 /\ Cardinality({}) = 0
    BY SumEmpty, FS_EmptySet
  <2>2. PICK r, i, t, a : r = Sum(v, O) /\ i = Cardinality(O) /\ t = Sum(v, P) /\ a = Cardinality(P)
    OBVIOUS
  <2>3. Counted(rows, k - 1) = [running |-> r, items |-> i, total |-> t, all |-> a]
    BY <1>6, <2>2
  <2>4. Counting(Counted(rows, k - 1), rows[k]) = [running |-> 0, items |-> 0, total |-> t, all |-> a]
    BY <1>9, <2>3, CountingOf
  <2> QED BY <1>2, <1>6, <1>9, <2>1, <2>2, <2>4
<1>10. CASE ~priced /\ rows[k].class # "subtotal"
  <2>1. Counting(Counted(rows, k - 1), rows[k]) = Counted(rows, k - 1)
    BY <1>10 DEF Counting, Closes
  <2> QED BY <1>2, <1>6, <1>10, <2>1
<1> QED BY <1>8, <1>9, <1>10

\* The pass counts what it should.
LEMMA SumsAre ==
  ASSUME NEW rows, List(rows), \A l \in DOMAIN rows : rows[l].amount # None => rows[l].amount.value \in Int
  PROVE  \A k \in 0 .. Len(rows) : Sums(rows)[k] = Counted(rows, k)
<1> DEFINE n == Len(rows)
<1>1. n \in Nat /\ DOMAIN rows = 1 .. n
  BY ListPlaces
<1>2. PICK h : h = CHOOSE g : Passes(g, rows, n)
  OBVIOUS
<1>3. Passes(h, rows, n)
  BY <1>1, <1>2, PassesExists
<1>4. Sums(rows) = h
  BY <1>2 DEF Sums, Passes, Counting
<1> DEFINE Bad == {k \in 0 .. n : h[k] # Counted(rows, k)}
<1> SUFFICES ASSUME Bad # {} PROVE FALSE
  BY <1>4
<1>5. Bad \subseteq Nat
  BY <1>1
<1>6. PICK k \in Bad : \A l \in Bad : k <= l
  BY <1>5, LeastElement
<1>7. \A l \in 0 .. n : h[l] = IF l = 0 THEN [running |-> 0, items |-> 0, total |-> 0, all |-> 0]
                              ELSE Counting(h[l - 1], rows[l])
  BY <1>3 DEF Passes
<1>8. k # 0
  <2>1. Priced(rows, 0) = {} /\ Open(rows, 0) = {}
    BY DEF Priced, Open
  <2>2. Sum(Amount(rows), {}) = 0 /\ Cardinality({}) = 0
    BY SumEmpty, FS_EmptySet
  <2>3. Counted(rows, 0) = [running |-> 0, items |-> 0, total |-> 0, all |-> 0]
    BY <2>1, <2>2 DEF Counted
  <2> QED BY <1>6, <1>7, <2>3
<1>9. k \in 1 .. n /\ k - 1 \in 0 .. n /\ k - 1 \notin Bad
  BY <1>1, <1>6, <1>8
<1>10. h[k - 1] = Counted(rows, k - 1) /\ h[k] = Counting(h[k - 1], rows[k])
  BY <1>1, <1>7, <1>8, <1>9
<1>11. h[k] = Counted(rows, k)
  BY <1>1, <1>9, <1>10, CountingIs
<1> QED BY <1>6, <1>11

\* A row with an amount that the sum of a count of rows does not explain.
Wrong(row, sum, count, settings) ==
  row.amount # None /\ count > 0 /\ Mismatch(1000 * sum, 1, row.amount.value, settings)

\* The finding of a rule about a row.
OnRow(rule, row) == Finding(<<"boq", rule>>, row.sheet, <<RowId(row)>>, SourceLocation(row, row.amount))

\* What check_subtotals has to say of a row, after what is summed up before it.
Closing(row, before, settings) ==
  CASE Closes(row) -> If(Wrong(row, before.running, before.items, settings), OnRow("subtotal_mismatch", row))
    [] row.class = "total" -> If(Wrong(row, before.total, before.all, settings), OnRow("total_mismatch", row))
    [] OTHER -> <<>>

\* The rows of the table at place t.
OfTable(fd, t) == {j \in DOMAIN fd.rows : fd.rows[j].table = t}
TableRows(fd, t) == Picked(fd.rows, OfTable(fd, t))

\* What a row is reported for.
LEMMA ClosingIs ==
  ASSUME NEW row, NEW before, NEW settings
  PROVE  /\ List(Closing(row, before, settings))
         /\ \A f : f \in Members(Closing(row, before, settings)) <=>
              \/ /\ row.class = "subtotal" /\ f = OnRow("subtotal_mismatch", row)
                 /\ Wrong(row, before.running, before.items, settings)
              \/ /\ row.class = "total" /\ f = OnRow("total_mismatch", row)
                 /\ Wrong(row, before.total, before.all, settings)
<1>1. \A c, f : List(If(c, f)) /\ (c => Members(If(c, f)) = {f}) /\ (~c => Members(If(c, f)) = {})
  <2>1. \A f : Members(<<f>>) = {f}
    BY DEF Members
  <2> QED BY <2>1, ShortLists DEF If
<1>2. CASE row.class = "subtotal"
  <2>1. Closing(row, before, settings)
          = If(Wrong(row, before.running, before.items, settings), OnRow("subtotal_mismatch", row))
    BY <1>2 DEF Closing, Closes
  <2> QED BY <1>1, <1>2, <2>1
<1>3. CASE row.class = "total"
  <2>1. Closing(row, before, settings)
          = If(Wrong(row, before.total, before.all, settings), OnRow("total_mismatch", row))
    BY <1>3 DEF Closing, Closes
  <2> QED BY <1>1, <1>3, <2>1
<1>4. CASE row.class # "subtotal" /\ row.class # "total"
  <2>1. Closing(row, before, settings) = <<>>
    BY <1>4 DEF Closing, Closes
  <2> QED BY <1>4, <2>1, ShortLists
<1> QED BY <1>2, <1>3, <1>4

\* check_subtotals says that of the rows of each table.
LEMMA ClosingsAre ==
  ASSUME NEW fd, List(fd.tables), List(fd.rows), NEW settings
  PROVE  \A f : f \in Members(CheckSubtotals(fd, settings)) <=>
           \E t \in DOMAIN fd.tables : \E k \in DOMAIN TableRows(fd, t) :
             f \in Members(Closing(TableRows(fd, t)[k], Sums(TableRows(fd, t))[k - 1], settings))
<1> DEFINE ofRows(rows) == Each([k \in DOMAIN rows |-> k], LAMBDA k : Closing(rows[k], Sums(rows)[k - 1], settings))
           s == [i \in DOMAIN fd.tables |-> ofRows(TableRows(fd, i))]
<1>1. CheckSubtotals(fd, settings) = FlattenSeq(s)
  <2> DEFINE id == [i \in DOMAIN fd.tables |-> i]
             t == [i \in DOMAIN id |-> ofRows(TableRows(fd, id[i]))]
  <2>1. CheckSubtotals(fd, settings) = FlattenSeq(t)
    BY Zenon DEF CheckSubtotals, Each, Select, Picked, TableRows, OfTable, Closing, Wrong, OnRow
  <2> HIDE DEF ofRows
  <2>2. t = s
    OBVIOUS
  <2> QED BY <2>1, <2>2, Zenon
<1>2. ASSUME NEW i
      PROVE  /\ List(ofRows(TableRows(fd, i)))
             /\ \A f : f \in Members(ofRows(TableRows(fd, i))) <=>
                  \E k \in DOMAIN TableRows(fd, i) :
                    f \in Members(Closing(TableRows(fd, i)[k], Sums(TableRows(fd, i))[k - 1], settings))
  <2> DEFINE rows == TableRows(fd, i)
             h == [k \in DOMAIN rows |-> Closing(rows[k], Sums(rows)[k - 1], settings)]
  <2>1. ofRows(rows) = FlattenSeq(h)
    <3> HIDE DEF rows
    <3> DEFINE id == [k \in DOMAIN rows |-> k]
               t == [k \in DOMAIN id |-> Closing(rows[id[k]], Sums(rows)[id[k] - 1], settings)]
    <3>1. ofRows(rows) = FlattenSeq(t)
      BY DEF Each
    <3>2. t = h
      OBVIOUS
    <3> QED BY <3>1, <3>2
  <2>2. List(rows)
    BY PickedRows DEF TableRows, OfTable
  <2> HIDE DEF rows
  <2>3. List(h) /\ DOMAIN h = DOMAIN rows
    BY <2>2, ListMapped
  <2>4. \A k \in DOMAIN h : h[k] = Closing(rows[k], Sums(rows)[k - 1], settings)
    OBVIOUS
  <2>5. \A k \in DOMAIN h : List(h[k])
    BY <2>4, ClosingIs
  <2> HIDE DEF h, ofRows
  <2>6. Members(FlattenSeq(h)) = UNION {Members(h[k]) : k \in DOMAIN h} /\ List(FlattenSeq(h))
    BY <2>3, <2>5, FlattenMembers, FlattenIs
  <2>7. \A f : f \in Members(ofRows(rows)) <=>
          \E k \in DOMAIN rows : f \in Members(Closing(rows[k], Sums(rows)[k - 1], settings))
    BY <2>1, <2>3, <2>4, <2>6
  <2> QED BY <2>1, <2>6, <2>7 DEF rows
<1>3. /\ DOMAIN s = DOMAIN fd.tables /\ s = [i \in DOMAIN s |-> s[i]]
      /\ \A i \in DOMAIN s : s[i] = ofRows(TableRows(fd, i))
  OBVIOUS
<1> HIDE DEF s, ofRows
<1>4. List(s)
  BY <1>3, ListMapped
<1>5. \A i \in DOMAIN s : List(s[i])
  BY <1>2, <1>3
<1>6. Members(FlattenSeq(s)) = UNION {Members(s[i]) : i \in DOMAIN s}
  BY <1>4, <1>5, FlattenMembers
<1> QED BY <1>1, <1>2, <1>3, <1>6

\* The row at place k of a table is reported for what is summed up before it.
ReportedAs(fd, settings, t, p, k) ==
  LET row == fd.rows[p[k]]
      before == Sums(TableRows(fd, t))[k - 1]
  IN /\ (\E f \in OfRule(CheckSubtotals(fd, settings), "total_mismatch") : f.subject = <<RowId(row)>>)
           <=> row.class = "total" /\ Wrong(row, before.total, before.all, settings)
     /\ (\E f \in OfRule(CheckSubtotals(fd, settings), "subtotal_mismatch") : f.subject = <<RowId(row)>>)
           <=> row.class = "subtotal" /\ Wrong(row, before.running, before.items, settings)

LEMMA ReportedFor ==
  ASSUME NEW fd, List(fd.tables), List(fd.rows), Distinct(fd.rows), NEW settings,
         NEW t \in DOMAIN fd.tables, NEW p, Picks(p, TableRows(fd, t), fd.rows, OfTable(fd, t)),
         NEW k \in DOMAIN TableRows(fd, t)
  PROVE  ReportedAs(fd, settings, t, p, k)
<1> DEFINE row == fd.rows[p[k]]
           before(u, l) == Sums(TableRows(fd, u))[l - 1]
           C == CheckSubtotals(fd, settings)
<1>1. \A rule, r : OnRow(rule, r).rule = <<"boq", rule>> /\ OnRow(rule, r).subject = <<RowId(r)>>
  BY FindingIs DEF OnRow
<1>2. p[k] \in DOMAIN fd.rows /\ fd.rows[p[k]].table = t /\ TableRows(fd, t)[k] = row
  BY DEF Picks, OfTable
<1>3. \A rule, r : OnRow(rule, r).subject = <<RowId(row)>> => RowId(r) = RowId(row)
  <2>1. ASSUME NEW rule, NEW r, OnRow(rule, r).subject = <<RowId(row)>> PROVE RowId(r) = RowId(row)
    <3>1. PICK u, v : u = RowId(r) /\ v = RowId(row)
      OBVIOUS
    <3>2. <<u>> = <<v>>
      BY <1>1, <2>1, <3>1
    <3>3. u = v
      BY ONLY <3>2
    <3> QED BY <3>1, <3>3
  <2> QED BY <2>1
<1> HIDE DEF row, C, before
<1>5. \A f : f \in Members(C) <=>
           \E u \in DOMAIN fd.tables : \E l \in DOMAIN TableRows(fd, u) :
             f \in Members(Closing(TableRows(fd, u)[l], before(u, l), settings))
  BY ClosingsAre DEF C, before
<1>6. ASSUME NEW u \in DOMAIN fd.tables, NEW l \in DOMAIN TableRows(fd, u),
             RowId(TableRows(fd, u)[l]) = RowId(row)
      PROVE  u = t /\ l = k
  <2>1. \E q : Picks(q, TableRows(fd, u), fd.rows, OfTable(fd, u))
    <3>1. OfTable(fd, u) \in SUBSET DOMAIN fd.rows
      BY DEF OfTable
    <3> QED BY <3>1, PickedInOrder DEF TableRows
  <2>2. PICK q : Picks(q, TableRows(fd, u), fd.rows, OfTable(fd, u))
    BY <2>1
  <2>3. q[l] \in DOMAIN fd.rows /\ fd.rows[q[l]].table = u /\ TableRows(fd, u)[l] = fd.rows[q[l]]
    BY <2>2 DEF Picks, OfTable
  <2>4. q[l] = p[k]
    BY <1>2, <1>6, <2>3 DEF Distinct, row
  <2>5. u = t
    BY <1>2, <2>3, <2>4
  <2>6. p[l] = p[k]
    <3>1. p[l] \in DOMAIN fd.rows /\ TableRows(fd, t)[l] = fd.rows[p[l]]
      BY <1>6, <2>5 DEF Picks, OfTable
    <3> QED BY <1>2, <1>6, <2>5, <3>1 DEF Distinct, row
  <2> QED BY <1>6, <2>5, <2>6 DEF Picks
<1>7. ASSUME NEW rule \in {"total_mismatch", "subtotal_mismatch"}
      PROVE  (\E f \in OfRule(C, rule) : f.subject = <<RowId(row)>>)
               <=> OnRow(rule, row) \in Members(Closing(row, before(t, k), settings))
  <2>1. ASSUME NEW f \in OfRule(C, rule), f.subject = <<RowId(row)>>
        PROVE  OnRow(rule, row) \in Members(Closing(row, before(t, k), settings))
    <3>1. f \in Members(C) /\ f.rule = <<"boq", rule>>
      BY DEF OfRule
    <3>2. PICK u \in DOMAIN fd.tables : \E l \in DOMAIN TableRows(fd, u) :
            f \in Members(Closing(TableRows(fd, u)[l], before(u, l), settings))
      BY <1>5, <3>1
    <3>7. PICK l \in DOMAIN TableRows(fd, u) : f \in Members(Closing(TableRows(fd, u)[l], before(u, l), settings))
      BY <3>2
    <3>3. PICK other \in {"total_mismatch", "subtotal_mismatch"} : f = OnRow(other, TableRows(fd, u)[l])
      BY <3>7, ClosingIs
    <3>4. RowId(TableRows(fd, u)[l]) = RowId(row)
      BY <1>3, <2>1, <3>3
    <3>5. u = t /\ l = k
      BY <1>6, <3>4
    <3>6. other = rule
      <4>1. <<"boq", other>> = <<"boq", rule>>
        BY <1>1, <3>1, <3>3
      <4> QED BY <4>1
    <3> QED BY <1>2, <3>3, <3>5, <3>6, <3>7
  <2>2. ASSUME OnRow(rule, row) \in Members(Closing(row, before(t, k), settings))
        PROVE  \E f \in OfRule(C, rule) : f.subject = <<RowId(row)>>
    <3>1. OnRow(rule, row) \in Members(C)
      BY <1>2, <1>5, <2>2
    <3> QED BY <1>1, <3>1 DEF OfRule
  <2> QED BY <2>1, <2>2
<1>8. OnRow("total_mismatch", row) \in Members(Closing(row, before(t, k), settings))
        <=> row.class = "total" /\ Wrong(row, before(t, k).total, before(t, k).all, settings)
  <2>1. OnRow("total_mismatch", row) # OnRow("subtotal_mismatch", row)
    <3>1. <<"boq", "total_mismatch">> # <<"boq", "subtotal_mismatch">>
      OBVIOUS
    <3> QED BY <1>1, <3>1
  <2> QED BY <2>1, ClosingIs
<1>9. OnRow("subtotal_mismatch", row) \in Members(Closing(row, before(t, k), settings))
        <=> row.class = "subtotal" /\ Wrong(row, before(t, k).running, before(t, k).items, settings)
  <2>1. OnRow("total_mismatch", row) # OnRow("subtotal_mismatch", row)
    <3>1. <<"boq", "total_mismatch">> # <<"boq", "subtotal_mismatch">>
      OBVIOUS
    <3> QED BY <1>1, <3>1
  <2> QED BY <2>1, ClosingIs
<1> QED BY <1>7, <1>8, <1>9 DEF ReportedAs, row, C, before

\* The items with an amount above a row of its table, and those of them that no subtotal closed.
PricedAbove(rows, i) ==
  {j \in DOMAIN rows : /\ rows[j].class = "item" /\ rows[j].amount # None
                       /\ j < i /\ rows[j].table = rows[i].table}
OpenAbove(rows, i) ==
  {j \in PricedAbove(rows, i) :
     \A m \in DOMAIN rows : j < m /\ m < i /\ rows[m].table = rows[i].table => rows[m].class # "subtotal"}

\* p takes the places of a pass over the rows of a table to those in the list.
Same(fd, t, p, k) ==
  /\ PricedAbove(fd.rows, p[k]) = {p[l] : l \in Priced(TableRows(fd, t), k - 1)}
  /\ OpenAbove(fd.rows, p[k]) = {p[l] : l \in Open(TableRows(fd, t), k - 1)}

\* They are what the pass over the rows of the table counts before the row.
LEMMA CountedAbove ==
  ASSUME NEW fd, List(fd.rows), NEW t, NEW p, Picks(p, TableRows(fd, t), fd.rows, OfTable(fd, t)),
         NEW k \in DOMAIN TableRows(fd, t)
  PROVE  Same(fd, t, p, k)
<1> DEFINE u == TableRows(fd, t)
           rows == fd.rows
<1>1. /\ List(u)
      /\ \A l \in DOMAIN u : p[l] \in DOMAIN rows /\ rows[p[l]].table = t /\ u[l] = rows[p[l]]
      /\ \A l, m \in DOMAIN u : l < m <=> p[l] < p[m]
      /\ \A l, m \in DOMAIN u : p[l] = p[m] => l = m
      /\ \A i \in DOMAIN rows : rows[i].table = t => \E l \in DOMAIN u : p[l] = i
  BY DEF Picks, OfTable
<1>2. Len(u) \in Nat /\ DOMAIN u = 1 .. Len(u) /\ Len(rows) \in Nat /\ DOMAIN rows = 1 .. Len(rows)
  BY <1>1, ListPlaces
<1>3. k \in DOMAIN u
  OBVIOUS
<1> HIDE DEF u, rows
<1>4. k \in Nat /\ \A l \in DOMAIN u : l \in Nat /\ (l \in 1 .. k - 1 <=> l < k)
  BY <1>2, <1>3
<1>5. \A l \in 1 .. k - 1 : l \in DOMAIN u
  BY <1>2, <1>3
<1>6. rows[p[k]].table = t /\ \A l \in DOMAIN u : l < k <=> p[l] < p[k]
  BY <1>1, <1>3
<1>7. \A l : l \in Priced(u, k - 1) <=> l \in DOMAIN u /\ p[l] \in PricedAbove(rows, p[k])
  <2>1. \A l \in DOMAIN u : l \in Priced(u, k - 1) <=> u[l].class = "item" /\ u[l].amount # None /\ l < k
    BY <1>4 DEF Priced
  <2>2. \A l \in Priced(u, k - 1) : l \in DOMAIN u
    BY <1>5 DEF Priced
  <2>3. \A l \in DOMAIN u : p[l] \in PricedAbove(rows, p[k])
                              <=> rows[p[l]].class = "item" /\ rows[p[l]].amount # None /\ p[l] < p[k]
    BY <1>1, <1>6 DEF PricedAbove
  <2> QED BY <1>1, <1>6, <2>1, <2>2, <2>3
<1>8. \A j \in PricedAbove(rows, p[k]) : \E l \in DOMAIN u : p[l] = j
  BY <1>1, <1>6 DEF PricedAbove
<1>9. PricedAbove(rows, p[k]) = {p[l] : l \in Priced(u, k - 1)}
  BY <1>7, <1>8
<1>10. ASSUME NEW l \in Priced(u, k - 1)
       PROVE  l \in Open(u, k - 1) <=> p[l] \in OpenAbove(rows, p[k])
  <2>1. l \in DOMAIN u /\ l \in Nat /\ p[l] \in PricedAbove(rows, p[k]) /\ u[l].class = "item"
    BY <1>4, <1>7 DEF Priced
  <2>2. ASSUME l \in Open(u, k - 1), NEW m \in DOMAIN rows, p[l] < m, m < p[k], rows[m].table = rows[p[k]].table
        PROVE  rows[m].class # "subtotal"
    <3>1. PICK n \in DOMAIN u : p[n] = m
      BY <1>1, <1>6, <2>2
    <3>2. l < n /\ n < k
      BY <1>1, <1>3, <2>1, <2>2, <3>1
    <3>3. n \in l .. k - 1
      BY <1>4, <2>1, <3>1, <3>2
    <3>4. u[n].class # "subtotal"
      BY <2>2, <3>3 DEF Open
    <3> QED BY <1>1, <3>1, <3>4
  <2>3. ASSUME p[l] \in OpenAbove(rows, p[k]), NEW n \in l .. k - 1
        PROVE  u[n].class # "subtotal"
    <3>1. n \in Nat /\ n \in 1 .. k - 1 /\ n < k /\ (n = l \/ l < n)
      BY <1>4, <2>1, <2>3, <1>2
    <3>2. n \in DOMAIN u
      BY <1>5, <3>1
    <3>3. CASE n = l
      BY <2>1, <3>3
    <3>4. CASE l < n
      <4>1. p[l] < p[n] /\ p[n] < p[k] /\ p[n] \in DOMAIN rows /\ rows[p[n]].table = rows[p[k]].table
        BY <1>1, <1>3, <1>6, <2>1, <3>1, <3>2, <3>4
      <4> QED BY <1>1, <2>3, <3>2, <4>1 DEF OpenAbove
    <3> QED BY <3>1, <3>3, <3>4
  <2> QED BY <2>1, <2>2, <2>3 DEF Open, OpenAbove
<1>11. OpenAbove(rows, p[k]) = {p[l] : l \in Open(u, k - 1)}
  <2>1. \A l \in Open(u, k - 1) : l \in Priced(u, k - 1)
    BY DEF Open
  <2>2. \A j \in OpenAbove(rows, p[k]) : j \in PricedAbove(rows, p[k])
    BY DEF OpenAbove
  <2>3. \A j \in OpenAbove(rows, p[k]) : \E l \in Open(u, k - 1) : p[l] = j
    BY <1>9, <1>10, <2>2
  <2> QED BY <1>10, <2>1, <2>3
<1> QED BY <1>9, <1>11 DEF Same, u, rows

\* The sums are those of the amounts at these places, the counts are positive
\* when there are some.
LEMMA SumsAbove ==
  ASSUME NEW fd, List(fd.rows), \A j \in DOMAIN fd.rows : fd.rows[j].amount # None => fd.rows[j].amount.value \in Int,
         NEW t, NEW p, Picks(p, TableRows(fd, t), fd.rows, OfTable(fd, t)),
         NEW k \in DOMAIN TableRows(fd, t)
  PROVE  LET before == Sums(TableRows(fd, t))[k - 1]
             P == PricedAbove(fd.rows, p[k])
             O == OpenAbove(fd.rows, p[k])
         IN /\ \A g : (\A j \in P : g[j] = fd.rows[j].amount.value) => before.total = Sum(g, P)
            /\ \A g : (\A j \in O : g[j] = fd.rows[j].amount.value) => before.running = Sum(g, O)
            /\ before.all > 0 <=> P # {}
            /\ before.items > 0 <=> O # {}
<1>0. Same(fd, t, p, k)
  BY CountedAbove
<1> DEFINE u == TableRows(fd, t)
           rows == fd.rows
           before == Sums(u)[k - 1]
<1>1. /\ List(u)
      /\ \A l \in DOMAIN u : p[l] \in DOMAIN rows /\ u[l] = rows[p[l]]
      /\ \A l, m \in DOMAIN u : p[l] = p[m] => l = m
  BY DEF Picks, OfTable
<1>2. /\ PricedAbove(rows, p[k]) = {p[l] : l \in Priced(u, k - 1)}
      /\ OpenAbove(rows, p[k]) = {p[l] : l \in Open(u, k - 1)}
  BY <1>0 DEF Same
<1>3. Len(u) \in Nat /\ DOMAIN u = 1 .. Len(u)
  BY <1>1, ListPlaces
<1>4. k \in DOMAIN u /\ \A j \in DOMAIN rows : rows[j].amount # None => rows[j].amount.value \in Int
  OBVIOUS
<1> HIDE DEF u, rows
<1>5. k - 1 \in 0 .. Len(u) /\ k - 1 \in Nat /\ \A l \in 1 .. k - 1 : l \in DOMAIN u
  BY <1>3, <1>4
<1>6. \A l \in DOMAIN u : u[l].amount # None => u[l].amount.value \in Int
  BY <1>1, <1>4
<1>7. before = Counted(u, k - 1)
  BY <1>1, <1>5, <1>6, SumsAre
<1>8. /\ before.running = Sum(Amount(u), Open(u, k - 1)) /\ before.items = Cardinality(Open(u, k - 1))
      /\ before.total = Sum(Amount(u), Priced(u, k - 1)) /\ before.all = Cardinality(Priced(u, k - 1))
  BY <1>7 DEF Counted
<1> HIDE DEF before
<1>9. ASSUME NEW S \in {Open(u, k - 1), Priced(u, k - 1)}
      PROVE  /\ \A g : (\A j \in {p[l] : l \in S} : g[j] = rows[j].amount.value)
                         => Sum(Amount(u), S) = Sum(g, {p[l] : l \in S})
             /\ Cardinality(S) > 0 <=> {p[l] : l \in S} # {}
  <2>1. S \subseteq Priced(u, k - 1) /\ IsFiniteSet(S) /\ Cardinality(S) \in Nat
    BY <1>5, PricedFinite DEF Open
  <2>2. \A l \in S : l \in DOMAIN u /\ u[l].amount # None
    BY <1>5, <2>1 DEF Priced
  <2>3. \A l, m \in S : p[l] = p[m] => l = m
    BY <1>1, <2>2
  <2>4. \A l \in S : Amount(u)[l] = rows[p[l]].amount.value /\ rows[p[l]].amount.value \in Int
    BY <1>1, <1>6, <2>2 DEF Amount
  <2>5. ASSUME NEW g, \A j \in {p[l] : l \in S} : g[j] = rows[j].amount.value
        PROVE  Sum(Amount(u), S) = Sum(g, {p[l] : l \in S})
    <3>1. \A l \in S : g[p[l]] \in Int /\ Amount(u)[l] = g[p[l]]
      BY <2>4, <2>5
    <3> QED BY <2>1, <2>3, <3>1, SumImage
  <2>6. Cardinality(S) > 0 <=> S # {}
    BY <2>1, FS_EmptySet
  <2>7. S # {} <=> {p[l] : l \in S} # {}
    OBVIOUS
  <2> QED BY <2>5, <2>6, <2>7
<1>10. /\ \A g : (\A j \in PricedAbove(rows, p[k]) : g[j] = rows[j].amount.value)
                   => before.total = Sum(g, PricedAbove(rows, p[k]))
       /\ before.all > 0 <=> PricedAbove(rows, p[k]) # {}
  BY <1>2, <1>8, <1>9
<1>11. /\ \A g : (\A j \in OpenAbove(rows, p[k]) : g[j] = rows[j].amount.value)
                   => before.running = Sum(g, OpenAbove(rows, p[k]))
       /\ before.items > 0 <=> OpenAbove(rows, p[k]) # {}
  BY <1>2, <1>8, <1>9
<1> QED BY <1>10, <1>11 DEF u, rows, before

\* What the property takes a row to have above it.
LEMMA AboveIs ==
  ASSUME NEW rows, List(rows), NEW i \in DOMAIN rows
  PROVE  LET priced(from) == {j \in {l \in DOMAIN rows : rows[l].class = "item"} :
                                /\ from < j /\ j < i /\ rows[j].table = rows[i].table /\ rows[j].amount # None}
             closed == {j \in DOMAIN rows : j < i /\ rows[j].table = rows[i].table /\ rows[j].class = "subtotal"}
         IN priced(0) = PricedAbove(rows, i) /\ priced(Max(closed \cup {0})) = OpenAbove(rows, i)
<1> DEFINE priced(from) == {j \in {l \in DOMAIN rows : rows[l].class = "item"} :
                              /\ from < j /\ j < i /\ rows[j].table = rows[i].table /\ rows[j].amount # None}
           closed == {j \in DOMAIN rows : j < i /\ rows[j].table = rows[i].table /\ rows[j].class = "subtotal"}
           S == closed \cup {0}
<1>1. Len(rows) \in Nat /\ DOMAIN rows = 1 .. Len(rows)
  BY ListPlaces
<1>2. \A j \in DOMAIN rows : j \in Nat /\ 0 < j
  BY <1>1
<1>3. priced(0) = PricedAbove(rows, i)
  BY <1>2 DEF PricedAbove
<1>4. S \subseteq Nat /\ S # {} /\ Numbers(S)
  <2>1. closed \in SUBSET DOMAIN rows
    OBVIOUS
  <2>2. IsFiniteSet(closed)
    BY <2>1, ListPlaces, FS_Subset
  <2>3. IsFiniteSet(S)
    BY <2>2, FS_AddElement
  <2>4. S \subseteq Nat
    BY <1>2, <2>1
  <2> QED BY <2>3, <2>4 DEF Numbers
<1> HIDE DEF S
<1>5. LastOf(S) \in S /\ \A j \in S : j <= LastOf(S)
  BY <1>4, LastIs
<1>6. PICK m \in S : \A j \in S : j <= m
  BY <1>5
<1>7. Max(S) = m
  BY <1>4, <1>6, MaxIs
<1>8. ASSUME NEW j \in PricedAbove(rows, i) PROVE j \in OpenAbove(rows, i) <=> m < j
  <2>1. j \in DOMAIN rows /\ j \in Nat /\ m \in Nat /\ j < i /\ rows[j].class = "item" /\ i \in Nat
    BY <1>2, <1>4 DEF PricedAbove
  <2>2. ASSUME j \in OpenAbove(rows, i) PROVE m < j
    <3>1. CASE m = 0
      BY <1>2, <2>1, <3>1
    <3>2. CASE m \in closed
      <4>1. m \in DOMAIN rows /\ m < i /\ rows[m].table = rows[i].table /\ rows[m].class = "subtotal"
        BY <3>2
      <4>2. ~(j < m)
        BY <2>2, <4>1 DEF OpenAbove
      <4>3. j # m
        BY <2>1, <4>1
      <4> QED BY <2>1, <4>2, <4>3
    <3> QED BY <1>6, <3>1, <3>2 DEF S
  <2>3. ASSUME m < j, NEW n \in DOMAIN rows, j < n, n < i, rows[n].table = rows[i].table
        PROVE  rows[n].class # "subtotal"
    <3>1. n \in Nat
      BY <1>2
    <3>2. ~(n <= m)
      BY <2>1, <2>3, <3>1
    <3>3. n \notin S
      BY <1>6, <3>2
    <3> QED BY <2>3, <3>3 DEF S
  <2> QED BY <2>2, <2>3 DEF OpenAbove
<1>9. priced(m) = {j \in PricedAbove(rows, i) : m < j}
  BY DEF PricedAbove
<1>10. priced(m) = OpenAbove(rows, i)
  <2>1. \A j \in OpenAbove(rows, i) : j \in PricedAbove(rows, i)
    BY DEF OpenAbove
  <2> HIDE DEF priced
  <2> QED BY <1>8, <1>9, <2>1
<1> QED BY <1>3, <1>7, <1>10 DEF S

\* Totals and subtotals are reported as the property takes them.
LEMMA TotalsHold ==
  ASSUME List(found.tables), List(found.rows), Distinct(found.rows),
         \A j \in DOMAIN found.rows : /\ found.rows[j].table \in DOMAIN found.tables
                                      /\ found.rows[j].amount # None => found.rows[j].amount.value \in Int,
         \A rule \in {"total_mismatch", "subtotal_mismatch"} :
           Found(rule) = OfRule(CheckSubtotals(found, request.settings), rule)
  PROVE  TotalsMeanSums
<1> DEFINE rows == found.rows
           priced(i, from) == {j \in Items : /\ from < j /\ j < i /\ Row(j).table = Row(i).table
                                             /\ Row(j).amount # None}
           closed(i) == {j \in DOMAIN found.rows : /\ j < i /\ Row(j).table = Row(i).table
                                                   /\ Row(j).class = "subtotal"}
           wrong(i, S) == S # {} /\ Mismatch(1000 * SumOf(S), 1, Row(i).amount.value, request.settings)
<1> SUFFICES ASSUME NEW i \in DOMAIN rows, Row(i).amount # None
             PROVE  /\ Row(i).class = "total" =>
                         (wrong(i, priced(i, 0)) <=> \E f \in Found("total_mismatch") : f.subject = <<RowId(Row(i))>>)
                    /\ Row(i).class = "subtotal" =>
                         (wrong(i, priced(i, Max(closed(i) \cup {0})))
                            <=> \E f \in Found("subtotal_mismatch") : f.subject = <<RowId(Row(i))>>)
  BY Zenon DEF TotalsMeanSums
<1>1. PICK P, O : P = PricedAbove(rows, i) /\ O = OpenAbove(rows, i)
  OBVIOUS
<1>2. priced(i, 0) = P /\ priced(i, Max(closed(i) \cup {0})) = O
  BY <1>1, AboveIs DEF Items, Row
<1> DEFINE t == rows[i].table
<1>3. t \in DOMAIN found.tables
  OBVIOUS
<1>4. \E p : Picks(p, TableRows(found, t), found.rows, OfTable(found, t))
  <2>1. OfTable(found, t) \in SUBSET DOMAIN found.rows
    BY DEF OfTable
  <2> HIDE DEF t
  <2> QED BY <2>1, PickedInOrder DEF TableRows
<1>5. PICK p : Picks(p, TableRows(found, t), found.rows, OfTable(found, t))
  BY <1>4
<1>6. i \in OfTable(found, t)
  BY DEF OfTable
<1> HIDE DEF t
<1>7. PICK k \in DOMAIN TableRows(found, t) : p[k] = i
  BY <1>5, <1>6 DEF Picks
<1> DEFINE before == Sums(TableRows(found, t))[k - 1]
<1>8. /\ (\E f \in Found("total_mismatch") : f.subject = <<RowId(Row(i))>>)
           <=> Row(i).class = "total" /\ Wrong(Row(i), before.total, before.all, request.settings)
      /\ (\E f \in Found("subtotal_mismatch") : f.subject = <<RowId(Row(i))>>)
           <=> Row(i).class = "subtotal" /\ Wrong(Row(i), before.running, before.items, request.settings)
  <2> DEFINE C == CheckSubtotals(found, request.settings)
             row == found.rows[p[k]]
  <2>1. /\ (\E f \in OfRule(C, "total_mismatch") : f.subject = <<RowId(row)>>)
             <=> row.class = "total" /\ Wrong(row, before.total, before.all, request.settings)
        /\ (\E f \in OfRule(C, "subtotal_mismatch") : f.subject = <<RowId(row)>>)
             <=> row.class = "subtotal" /\ Wrong(row, before.running, before.items, request.settings)
    <3>1. ReportedAs(found, request.settings, t, p, k)
      BY <1>3, <1>5, ReportedFor
    <3> QED BY <3>1 DEF ReportedAs
  <2>2. row = Row(i)
    BY <1>7 DEF Row
  <2>3. Found("total_mismatch") = OfRule(C, "total_mismatch") /\ Found("subtotal_mismatch") = OfRule(C, "subtotal_mismatch")
    OBVIOUS
  <2> HIDE DEF C, row, before
  <2> QED BY <2>1, <2>2, <2>3
<1>9. /\ \A g : (\A j \in P : g[j] = rows[j].amount.value) => before.total = Sum(g, P)
      /\ \A g : (\A j \in O : g[j] = rows[j].amount.value) => before.running = Sum(g, O)
      /\ before.all > 0 <=> P # {}
      /\ before.items > 0 <=> O # {}
  <2>1. \A j \in DOMAIN found.rows : found.rows[j].amount # None => found.rows[j].amount.value \in Int
    OBVIOUS
  <2>2. /\ \A g : (\A j \in PricedAbove(found.rows, p[k]) : g[j] = found.rows[j].amount.value)
                    => before.total = Sum(g, PricedAbove(found.rows, p[k]))
        /\ \A g : (\A j \in OpenAbove(found.rows, p[k]) : g[j] = found.rows[j].amount.value)
                    => before.running = Sum(g, OpenAbove(found.rows, p[k]))
        /\ before.all > 0 <=> PricedAbove(found.rows, p[k]) # {}
        /\ before.items > 0 <=> OpenAbove(found.rows, p[k]) # {}
    BY <1>5, <2>1, SumsAbove
  <2> HIDE DEF before
  <2> QED BY <1>1, <1>7, <2>2
<1>10. ASSUME NEW S PROVE \E g : SumOf(S) = Sum(g, S) /\ \A j \in S : g[j] = rows[j].amount.value
  <2> DEFINE g == [j \in S |-> Row(j).amount.value]
  <2>1. DOMAIN g = S /\ \A j \in S : g[j] = rows[j].amount.value
    BY DEF Row
  <2>2. SumOf(S) = Total(g)
    BY DEF SumOf
  <2> HIDE DEF g
  <2> QED BY <2>1, <2>2, TotalIs
<1> HIDE DEF before
<1>11. before.total = SumOf(P) /\ before.running = SumOf(O)
  BY <1>9, <1>10
<1> HIDE DEF priced, closed
<1> QED BY <1>2, <1>8, <1>9, <1>11 DEF Wrong

-----------------------------------------------------------------------------
(* Leading amounts                                                         *)

\* v does not grow.
Falling(v, n) == \A k, l \in 1 .. n : k <= l => v[l] <= v[k]

\* No choice of places has a greater sum than as many first places.
LEMMA FirstAreGreatest ==
  ASSUME NEW n \in Nat, NEW v, \A k \in 1 .. n : v[k] \in Nat, Falling(v, n), NEW S \in SUBSET (1 .. n)
  PROVE  Sum(v, S) <= Sum(v, 1 .. Cardinality(S))
<1> DEFINE Bad == {s \in SUBSET (1 .. n) : ~(Sum(v, s) <= Sum(v, 1 .. Cardinality(s)))}
<1>1. \A s \in SUBSET (1 .. n) : IsFiniteSet(s)
  <2> DEFINE D == 1 .. n
  <2>1. IsFiniteSet(D)
    BY FS_Interval
  <2> HIDE DEF D
  <2>2. \A s \in SUBSET D : IsFiniteSet(s)
    BY <2>1, FS_Subset
  <2> QED BY <2>2 DEF D
<1>2. ASSUME Bad # {} PROVE FALSE
  <2>1. PICK s \in Bad : \A t \in Bad : Cardinality(s) <= Cardinality(t)
    BY <1>1, <1>2, SmallestSet
  <2>2. s \in SUBSET (1 .. n) /\ IsFiniteSet(s)
    BY <1>1, <2>1
  <2>3. s # {}
    <3>1. Cardinality({}) = 0 /\ 1 .. 0 = {} /\ Sum(v, {}) = 0
      BY FS_EmptySet, SumEmpty
    <3> SUFFICES ASSUME s = {} PROVE FALSE
      OBVIOUS
    <3>2. ~(Sum(v, {}) <= Sum(v, 1 .. Cardinality({})))
      BY <2>1
    <3> QED BY <3>1, <3>2
  <2>4. Numbers(s)
    <3>1. s \in SUBSET Nat
      BY <2>2
    <3> QED BY <2>2, <3>1 DEF Numbers
  <2>5. LastOf(s) \in s /\ \A j \in s : j <= LastOf(s)
    BY <2>3, <2>4, LastIs
  <2>6. PICK m \in s : \A j \in s : j <= m
    BY <2>5
  <2> DEFINE t == s \ {m}
             c == Cardinality(s)
  <2>7. m \in 1 .. n /\ m \in Nat /\ c \in Nat /\ c <= n /\ c <= m /\ c >= 1
    <3>1. m \in 1 .. n /\ m \in Nat
      BY <2>2, <2>6
    <3>2. s \in SUBSET (1 .. m)
      <4>1. \A j \in s : j \in 1 .. n
        BY <2>2
      <4> QED BY <2>6, <3>1, <4>1
    <3>3. IsFiniteSet(1 .. m) /\ Cardinality(1 .. m) = m
      BY <3>1, FS_Interval
    <3>4. c \in Nat /\ c <= m
      <4> DEFINE D == 1 .. m
      <4>1. s \in SUBSET D /\ IsFiniteSet(D) /\ Cardinality(D) = m
        BY <3>2, <3>3
      <4> HIDE DEF D
      <4>2. Cardinality(s) <= Cardinality(D) /\ Cardinality(s) \in Nat
        BY <2>2, <4>1, FS_Subset, FS_CardinalityType
      <4> QED BY <4>1, <4>2
    <3>5. c # 0
      BY <2>2, <2>3, FS_EmptySet
    <3> QED BY <3>1, <3>4, <3>5
  <2>8. t \in SUBSET (1 .. n) /\ IsFiniteSet(t) /\ Cardinality(t) = c - 1
    BY <2>2, <2>6, FS_RemoveElement
  <2> HIDE DEF t, c
  <2>9. Sum(v, t) <= Sum(v, 1 .. c - 1)
    <3>1. t \notin Bad
      <4> SUFFICES ASSUME t \in Bad PROVE FALSE
        OBVIOUS
      <4>1. c <= c - 1
        BY <2>1, <2>8 DEF c
      <4> QED BY <2>7, <4>1
    <3> QED BY <2>8, <3>1
  <2>10. Sum(v, s) = v[m] + Sum(v, t) /\ Sum(v, t) \in Int
    <3>1. \A x \in s : v[x] \in Int
      BY <2>2
    <3> QED BY <2>2, <2>6, <3>1, SumTakes DEF t
  <2>11. Sum(v, 1 .. c) = Sum(v, 1 .. c - 1) + v[c] /\ Sum(v, 1 .. c - 1) \in Int
    <3>1. 1 .. c = (1 .. c - 1) \cup {c} /\ c \notin 1 .. c - 1
      BY <2>7
    <3>2. \A x \in (1 .. c - 1) \cup {c} : v[x] \in Int
      BY <2>7
    <3>3. IsFiniteSet(1 .. c - 1)
      BY <2>7, FS_Interval
    <3> QED BY <3>1, <3>2, <3>3, SumAdds
  <2>12. v[m] <= v[c] /\ v[m] \in Int /\ v[c] \in Int
    BY <2>7 DEF Falling
  <2>13. PICK a, b, d, e : a = Sum(v, t) /\ b = Sum(v, 1 .. c - 1) /\ d = v[m] /\ e = v[c]
    OBVIOUS
  <2>14. a \in Int /\ b \in Int /\ d \in Int /\ e \in Int /\ a <= b /\ d <= e
    BY <2>9, <2>10, <2>11, <2>12, <2>13
  <2>15. d + a <= b + e
    BY <2>14
  <2>16. Sum(v, s) = d + a /\ Sum(v, 1 .. c) = b + e
    BY <2>10, <2>11, <2>13
  <2>17. Sum(v, s) <= Sum(v, 1 .. c)
    BY <2>15, <2>16
  <2> QED BY <2>1, <2>17 DEF c
<1> QED BY <1>2

\* What is not negative sums up to at least each part, and is zero only for none.
LEMMA SumAtLeast ==
  ASSUME NEW v, NEW S, IsFiniteSet(S), \A x \in S : v[x] \in Nat, NEW y \in S
  PROVE  Sum(v, S) \in Nat /\ v[y] <= Sum(v, S)
<1>1. Sum(v, S) = v[y] + Sum(v, S \ {y})
  BY SumTakes
<1>2. Sum(v, S) \in Nat
  BY SumType
<1>3. Sum(v, S \ {y}) \in Nat
  <2>1. IsFiniteSet(S \ {y}) /\ \A x \in S \ {y} : v[x] \in Nat
    BY FS_RemoveElement
  <2> QED BY <2>1, SumType
<1>4. v[y] \in Nat
  OBVIOUS
<1> QED BY <1>1, <1>2, <1>3, <1>4

\* The sums of ParetoOf.
Summing(h, group, leading) ==
  h = [k \in 0 .. Len(group) |-> IF k = 0 THEN 0 ELSE h[k - 1] + group[leading[k]].amount.value]

\* The amounts of a group.
Values(group) == [i \in DOMAIN group |-> group[i].amount.value]

\* A summary is of its group: of all its amounts, and the least choice of places
\* that reaches four fifths of them.
Summarizes(p, group) ==
  LET v == Values(group)
      S == DOMAIN group
  IN /\ p.context = ParetoKey(group[1]) /\ p.count = Len(group) /\ p.total = Sum(v, S)
     /\ \A s \in SUBSET S : Cardinality(s) < p.top => 5 * Sum(v, s) < 4 * p.total
     /\ \E s \in SUBSET S : Cardinality(s) = p.top /\ 5 * Sum(v, s) >= 4 * p.total

\* That is what ParetoOf gives.
LEMMA ParetoOfIs ==
  ASSUME NEW group, List(group), \A i \in DOMAIN group : group[i].amount.value \in Nat,
         \E i \in DOMAIN group : group[i].amount.value # 0
  PROVE  Summarizes(ParetoOf(group), group)
<1> DEFINE n == Len(group)
           minus == [i \in DOMAIN group |-> -(group[i].amount.value)]
           o == Order(minus)
           top(h) == CHOOSE k \in 1 .. n : 5 * h[k] >= 4 * h[n] /\ \A l \in 1 .. k - 1 : 5 * h[l] < 4 * h[n]
           p == ParetoOf(group)
<1>1. n \in Nat /\ DOMAIN group = 1 .. n
  BY ListPlaces
<1>2. \E h : /\ h = CHOOSE g : Summing(g, group, o)
             /\ p = [context |-> ParetoKey(group[1]), total |-> h[n], top |-> top(h),
                     count |-> n, share |-> h[top(h)], highest |-> group[o[1]]]
  BY Zenon DEF ParetoOf, Summing
<1>3. PICK h : /\ h = CHOOSE g : Summing(g, group, o)
               /\ p = [context |-> ParetoKey(group[1]), total |-> h[n], top |-> top(h),
                       count |-> n, share |-> h[top(h)], highest |-> group[o[1]]]
  BY <1>2, Zenon
<1> DEFINE t == top(h)
<1>4. p.context = ParetoKey(group[1]) /\ p.total = h[n] /\ p.top = t /\ p.count = n
  <2> HIDE DEF p, top
  <2> QED BY <1>3
<1>5. \A i \in 1 .. n : minus[i] = -(group[i].amount.value) /\ group[i].amount.value \in Nat
  BY <1>1
<1>6. minus \in [1 .. n -> Int]
  <2>1. DOMAIN minus = 1 .. n /\ minus = [i \in DOMAIN minus |-> minus[i]]
    BY <1>1
  <2> HIDE DEF minus
  <2>2. \A i \in 1 .. n : minus[i] \in Int
    BY <1>5
  <2> QED BY <2>1, <2>2
<1> HIDE DEF minus, p, t
<1>7. /\ o \in [1 .. n -> 1 .. n]
      /\ \A k, l \in 1 .. n : o[k] = o[l] => k = l
      /\ \A i \in 1 .. n : \E k \in 1 .. n : o[k] = i
      /\ \A k, l \in 1 .. n : k <= l => minus[o[k]] <= minus[o[l]]
  BY <1>1, <1>6, OrderIs
<1> HIDE DEF o
<1> DEFINE v == Values(group)
           u == [k \in 1 .. n |-> group[o[k]].amount.value]
<1>8. \A i \in 1 .. n : v[i] = group[i].amount.value /\ v[i] \in Nat /\ minus[i] = -v[i]
  BY <1>1, <1>5 DEF Values
<1>9. \A k \in 1 .. n : u[k] = group[o[k]].amount.value /\ u[k] = v[o[k]] /\ u[k] \in Nat /\ o[k] \in 1 .. n
  BY <1>7, <1>8
<1> HIDE DEF v, u
<1>10. Falling(u, n)
  <2> SUFFICES ASSUME NEW k \in 1 .. n, NEW l \in 1 .. n, k <= l PROVE u[l] <= u[k]
    BY DEF Falling
  <2>1. minus[o[k]] <= minus[o[l]] /\ o[k] \in 1 .. n /\ o[l] \in 1 .. n
    BY <1>7
  <2>2. -(v[o[k]]) <= -(v[o[l]]) /\ v[o[k]] \in Nat /\ v[o[l]] \in Nat
    BY <1>8, <2>1
  <2>3. v[o[l]] <= v[o[k]]
    BY <2>2
  <2> QED BY <1>9, <2>3
<1>11. Accumulates(h, u, n)
  <2>1. ASSUME NEW g PROVE Summing(g, group, o) <=> Accumulates(g, u, n)
    <3>1. \A k \in 0 .. n : k # 0 => k \in 1 .. n
      BY <1>1
    <3>2. [k \in 0 .. n |-> IF k = 0 THEN 0 ELSE g[k - 1] + group[o[k]].amount.value]
            = [k \in 0 .. n |-> IF k = 0 THEN 0 ELSE g[k - 1] + u[k]]
      BY <1>9, <3>1
    <3> QED BY <3>2 DEF Summing, Accumulates
  <2>2. \E g : Summing(g, group, o)
    BY <1>1, <2>1, AccumulatesExists
  <2>3. Summing(h, group, o)
    BY <1>3, <2>2
  <2> QED BY <2>1, <2>3
<1>12. \A k \in 0 .. n : h[k] = Sum(u, 1 .. k) /\ h[k] \in Int
  <2>1. \A k \in 1 .. n : u[k] \in Int
    BY <1>9
  <2> QED BY <1>1, <1>11, <2>1, AccumulatesIs
<1>13. ASSUME NEW s \in SUBSET (1 .. n)
       PROVE  LET r == {k \in 1 .. n : o[k] \in s}
              IN Sum(v, s) = Sum(u, r) /\ Cardinality(s) = Cardinality(r) /\ IsFiniteSet(s)
  <2> DEFINE r == {k \in 1 .. n : o[k] \in s}
             D == 1 .. n
  <2>1. s = {o[k] : k \in r}
    <3>1. \A i \in s : \E k \in r : o[k] = i
      BY <1>7
    <3>2. \A k \in r : o[k] \in s
      OBVIOUS
    <3> HIDE DEF r
    <3> QED BY <3>1, <3>2
  <2>0. IsFiniteSet(D)
    BY <1>1, FS_Interval
  <2>2. IsFiniteSet(D) /\ r \in SUBSET D /\ s \in SUBSET D
    BY <2>0
  <2>3. IsFiniteSet(r) /\ IsFiniteSet(s)
    <3> HIDE DEF D, r
    <3> QED BY <2>2, FS_Subset
  <2>4. \A k, l \in r : o[k] = o[l] => k = l
    BY <1>7
  <2>5. \A k \in r : v[o[k]] \in Int /\ u[k] = v[o[k]]
    BY <1>9
  <2> HIDE DEF r, D
  <2>6. Sum(u, r) = Sum(v, {o[k] : k \in r})
    BY <2>3, <2>4, <2>5, SumImage
  <2>7. Cardinality({o[k] : k \in r}) = Cardinality(r)
    BY <2>3, <2>4, ImageCount
  <2> QED BY <2>1, <2>3, <2>6, <2>7 DEF r
<1>14. h[n] = Sum(v, 1 .. n)
  <2>1. {k \in 1 .. n : o[k] \in 1 .. n} = 1 .. n
    BY <1>9
  <2>4. PICK r : r = {k \in 1 .. n : o[k] \in 1 .. n}
    OBVIOUS
  <2>5. Sum(v, 1 .. n) = Sum(u, r)
    <3>1. 1 .. n \in SUBSET (1 .. n)
      OBVIOUS
    <3> QED BY <1>13, <2>4, <3>1
  <2>2. Sum(v, 1 .. n) = Sum(u, 1 .. n)
    BY <2>1, <2>4, <2>5
  <2>3. n \in 0 .. n
    BY <1>1
  <2> QED BY <1>12, <2>2, <2>3
<1>15. h[n] \in Nat /\ h[n] > 0 /\ n \in 1 .. n
  <2>1. PICK i \in 1 .. n : v[i] # 0
    BY <1>1, <1>8
  <2> DEFINE D == 1 .. n
  <2>2. IsFiniteSet(D) /\ i \in D /\ \A x \in D : v[x] \in Nat
    BY <1>1, <1>8, FS_Interval
  <2>3. Sum(v, D) \in Nat /\ v[i] <= Sum(v, D)
    <3> HIDE DEF D
    <3> QED BY <2>2, SumAtLeast
  <2>4. v[i] \in Nat /\ v[i] > 0
    BY <1>8, <2>1
  <2>5. h[n] \in Nat /\ v[i] <= h[n]
    BY <1>14, <2>3
  <2> QED BY <1>1, <2>1, <2>4, <2>5
<1> DEFINE enough(k) == 5 * h[k] >= 4 * h[n]
           fits(k) == enough(k) /\ \A l \in 1 .. k - 1 : 5 * h[l] < 4 * h[n]
<1>16. t \in 1 .. n /\ fits(t)
  <2> DEFINE E == {k \in 1 .. n : enough(k)}
  <2>1. n \in E /\ E \subseteq Nat
    BY <1>1, <1>15
  <2>2. PICK k \in E : \A l \in E : k <= l
    BY <2>1, LeastElement
  <2>3. \A l \in 1 .. k - 1 : l \in 1 .. n /\ l \in Nat /\ ~(k <= l) /\ h[l] \in Int /\ h[n] \in Int
    BY <1>12, <1>15, <2>1, <2>2
  <2>4. \A l \in 1 .. k - 1 : ~(5 * h[l] >= 4 * h[n])
    BY <2>2, <2>3
  <2>5. \A l \in 1 .. k - 1 : 5 * h[l] < 4 * h[n]
    BY <2>3, <2>4
  <2>6. \E m \in 1 .. n : fits(m)
    BY <2>2, <2>5
  <2>7. t = CHOOSE m \in 1 .. n : fits(m)
    BY DEF t
  <2> HIDE DEF fits
  <2> QED BY <2>6, <2>7
<1>17. ASSUME NEW s \in SUBSET (1 .. n), Cardinality(s) < t PROVE 5 * Sum(v, s) < 4 * h[n]
  <2> DEFINE r == {k \in 1 .. n : o[k] \in s}
             c == Cardinality(s)
  <2>1. Sum(v, s) = Sum(u, r) /\ c = Cardinality(r) /\ IsFiniteSet(s)
    BY <1>13
  <2>2. Sum(u, r) <= Sum(u, 1 .. Cardinality(r))
    <3>1. r \in SUBSET (1 .. n) /\ \A k \in 1 .. n : u[k] \in Nat
      BY <1>9
    <3> HIDE DEF r
    <3> QED BY <1>1, <1>10, <3>1, FirstAreGreatest
  <2>3. c \in Nat /\ t \in Nat /\ t <= n /\ c < t
    BY <1>16, <1>17, <2>1, FS_CardinalityType
  <2> HIDE DEF r, c
  <2>4. h[c] = Sum(u, 1 .. c) /\ h[c] \in Int
    <3>1. c \in 0 .. n
      BY <1>1, <2>3
    <3> QED BY <1>12, <3>1
  <2>5. 5 * h[c] < 4 * h[n]
    <3>1. CASE c = 0
      <4>1. 0 \in 0 .. n /\ 1 .. 0 = {}
        BY <1>1
      <4>2. h[0] = 0
        BY <1>12, <4>1, SumEmpty
      <4> QED BY <1>15, <3>1, <4>2
    <3>2. CASE c # 0
      <4>1. c \in 1 .. t - 1
        BY <2>3, <3>2
      <4> QED BY <1>16, <4>1
    <3> QED BY <3>1, <3>2
  <2>6. Sum(v, s) \in Int
    <3>1. \A x \in s : v[x] \in Int
      BY <1>8
    <3> QED BY <2>1, <3>1, SumIsInt
  <2>7. Sum(v, s) <= h[c]
    BY <2>1, <2>2, <2>4
  <2>8. PICK a, b, d : a = Sum(v, s) /\ b = h[c] /\ d = h[n]
    OBVIOUS
  <2>9. a \in Int /\ b \in Int /\ d \in Int /\ a <= b /\ 5 * b < 4 * d
    BY <1>15, <2>4, <2>5, <2>6, <2>7, <2>8
  <2>10. 5 * a < 4 * d
    BY <2>9
  <2> QED BY <2>8, <2>10
<1>18. \E s \in SUBSET (1 .. n) : Cardinality(s) = t /\ 5 * Sum(v, s) >= 4 * h[n]
  <2> DEFINE D == 1 .. t
             s == {o[k] : k \in D}
  <2>1. t \in Nat /\ t <= n /\ t \in 0 .. n
    BY <1>1, <1>16
  <2>2. \A k \in D : k \in 1 .. n
    BY <1>1, <2>1
  <2>3. s \in SUBSET (1 .. n)
    BY <1>9, <2>2
  <2>4. IsFiniteSet(D) /\ Cardinality(D) = t
    BY <2>1, FS_Interval
  <2>5. \A k, l \in D : o[k] = o[l] => k = l
    BY <1>7, <2>2
  <2>6. \A k \in D : v[o[k]] \in Int /\ u[k] = v[o[k]]
    BY <1>9, <2>2
  <2>7. h[t] = Sum(u, D)
    BY <1>12, <2>1
  <2> HIDE DEF D
  <2>8. Cardinality(s) = t
    BY <2>4, <2>5, ImageCount
  <2>9. Sum(u, D) = Sum(v, s)
    BY <2>4, <2>5, <2>6, SumImage
  <2> HIDE DEF s
  <2> QED BY <1>16, <2>3, <2>7, <2>8, <2>9
<1> QED BY <1>1, <1>4, <1>14, <1>17, <1>18 DEF Summarizes, v, p

-----------------------------------------------------------------------------
(* Groups of rows                                                          *)

\* The elements of t are the rows at the places D, each once: that at k is the row at q[k].
Located(q, t, rows, D) ==
  /\ List(t)
  /\ \A k \in DOMAIN t : q[k] \in D /\ t[k] = rows[q[k]]
  /\ \A k, l \in DOMAIN t : q[k] = q[l] => k = l
  /\ \A i \in D : \E k \in DOMAIN t : q[k] = i

\* As many places as elements, and in a part of them too.
LEMMA LocatedCount ==
  ASSUME NEW q, NEW t, NEW rows, NEW D, Located(q, t, rows, D)
  PROVE  /\ IsFiniteSet(D) /\ Cardinality(D) = Len(t) /\ D = {q[k] : k \in DOMAIN t}
         /\ \A S \in SUBSET D : LET R == {k \in DOMAIN t : q[k] \in S}
                                IN S = {q[k] : k \in R} /\ Cardinality(S) = Cardinality(R) /\ IsFiniteSet(R)
         /\ \A R \in SUBSET DOMAIN t : /\ IsFiniteSet(R) /\ Cardinality({q[k] : k \in R}) = Cardinality(R)
                                       /\ {q[k] : k \in R} \in SUBSET D
<1> DEFINE E == DOMAIN t
<1>1. /\ \A k \in E : q[k] \in D /\ t[k] = rows[q[k]]
      /\ \A k, l \in E : q[k] = q[l] => k = l
      /\ \A i \in D : \E k \in E : q[k] = i
  BY DEF Located
<1>2. IsFiniteSet(E)
  BY ListPlaces DEF Located
<1>3. Cardinality(E) = Len(t)
  <2>1. PICK n \in Nat : n = Len(t) /\ E = 1 .. n
    BY ListPlaces DEF Located
  <2>2. Cardinality(1 .. n) = n
    BY FS_Interval
  <2> QED BY <2>1, <2>2
<1> HIDE DEF E
<1>4. D = {q[k] : k \in E}
  BY <1>1
<1>5. IsFiniteSet(D) /\ Cardinality(D) = Len(t)
  BY <1>1, <1>2, <1>3, <1>4, ImageCount
<1>6. ASSUME NEW R \in SUBSET E
      PROVE  /\ IsFiniteSet(R) /\ Cardinality({q[k] : k \in R}) = Cardinality(R)
             /\ {q[k] : k \in R} \in SUBSET D
  <2>1. IsFiniteSet(R) /\ \A k, l \in R : q[k] = q[l] => k = l
    BY <1>1, <1>2, FS_Subset
  <2>2. {q[k] : k \in R} \in SUBSET D
    BY <1>1
  <2> QED BY <2>1, <2>2, ImageCount
<1>7. ASSUME NEW S \in SUBSET D
      PROVE  LET R == {k \in E : q[k] \in S}
             IN S = {q[k] : k \in R} /\ Cardinality(S) = Cardinality(R) /\ IsFiniteSet(R)
  <2> DEFINE R == {k \in E : q[k] \in S}
  <2>1. R \in SUBSET E /\ (\A k \in R : q[k] \in S) /\ \A i \in S : \E k \in R : q[k] = i
    BY <1>1
  <2> HIDE DEF R
  <2>2. S = {q[k] : k \in R}
    BY <2>1
  <2> QED BY <1>6, <2>1, <2>2 DEF R
<1> QED BY <1>4, <1>5, <1>6, <1>7 DEF E

\* g[a] holds the rows at places in T that agree with the first of them in what
\* x gives a place; different lists do not agree.
GroupPlaces(q, g, rows, T, x) ==
  /\ List(g)
  /\ \A a \in DOMAIN g : /\ 1 \in DOMAIN g[a]
                         /\ Located(q[a], g[a], rows, {i \in T : x[i] = x[q[a][1]]})
  /\ \A a, b \in DOMAIN g : x[q[a][1]] = x[q[b][1]] => a = b

\* The groups of picked rows by what x gives their places.
LEMMA GroupsOfPicked ==
  ASSUME NEW rows, NEW T, NEW p, NEW items, Picks(p, items, rows, T), NEW x, NEW keys,
         \A k \in DOMAIN items : keys[k] = x[p[k]]
  PROVE  \E q : GroupPlaces(q, GroupsBy(items, keys), rows, T, x)
<1> DEFINE g == GroupsBy(items, keys)
<1>0. List(items)
  BY DEF Picks
<1>1. PICK w : Grouped(w, g, items, keys) /\ Whole(w, g, items, keys)
  BY <1>0, GroupsHold
<1> HIDE DEF g
<1>2. /\ List(g)
      /\ \A a \in DOMAIN g : List(g[a]) /\ 1 \in DOMAIN g[a]
      /\ \A a \in DOMAIN g : \A r \in DOMAIN g[a] : w[a][r] \in DOMAIN items /\ g[a][r] = items[w[a][r]]
      /\ \A a, b \in DOMAIN g : \A r \in DOMAIN g[a], s \in DOMAIN g[b] :
           keys[w[a][r]] = keys[w[b][s]] => a = b
      /\ \A a \in DOMAIN g : \A r, s \in DOMAIN g[a] : w[a][r] = w[a][s] => r = s
  BY <1>1 DEF Grouped
<1>3. /\ \A k \in DOMAIN items : \E a \in DOMAIN g : \E r \in DOMAIN g[a] : w[a][r] = k
      /\ \A a \in DOMAIN g : \A r, s \in DOMAIN g[a] : keys[w[a][r]] = keys[w[a][s]]
  BY <1>1 DEF Whole
<1>4. /\ \A k \in DOMAIN items : p[k] \in T /\ items[k] = rows[p[k]] /\ keys[k] = x[p[k]]
      /\ \A k, l \in DOMAIN items : p[k] = p[l] => k = l
      /\ \A i \in T : \E k \in DOMAIN items : p[k] = i
  BY DEF Picks
<1> DEFINE q == [a \in DOMAIN g |-> [r \in DOMAIN g[a] |-> p[w[a][r]]]]
<1>5. \A a \in DOMAIN g : \A r \in DOMAIN g[a] : q[a][r] = p[w[a][r]]
  OBVIOUS
<1> HIDE DEF q
<1>6. \A a \in DOMAIN g : \A r \in DOMAIN g[a] : x[q[a][r]] = keys[w[a][r]]
  BY <1>2, <1>4, <1>5
<1>7. ASSUME NEW a \in DOMAIN g PROVE Located(q[a], g[a], rows, {i \in T : x[i] = x[q[a][1]]})
  <2>1. 1 \in DOMAIN g[a] /\ List(g[a])
    BY <1>2
  <2>2. \A r \in DOMAIN g[a] : q[a][r] \in T /\ g[a][r] = rows[q[a][r]] /\ x[q[a][r]] = x[q[a][1]]
    <3>1. \A r \in DOMAIN g[a] : q[a][r] \in T /\ g[a][r] = rows[q[a][r]]
      BY <1>2, <1>4, <1>5
    <3>2. \A r \in DOMAIN g[a] : x[q[a][r]] = x[q[a][1]]
      BY <1>3, <1>6, <2>1
    <3> QED BY <3>1, <3>2
  <2>3. \A r, s \in DOMAIN g[a] : q[a][r] = q[a][s] => r = s
    BY <1>2, <1>4, <1>5
  <2>4. ASSUME NEW i \in T, x[i] = x[q[a][1]] PROVE \E r \in DOMAIN g[a] : q[a][r] = i
    <3>1. PICK k \in DOMAIN items : p[k] = i
      BY <1>4
    <3>2. PICK b \in DOMAIN g : \E r \in DOMAIN g[b] : w[b][r] = k
      BY <1>3
    <3>3. PICK r \in DOMAIN g[b] : w[b][r] = k
      BY <3>2
    <3>4. q[b][r] = i
      BY <1>5, <3>1, <3>3
    <3>5. keys[w[b][r]] = keys[w[a][1]]
      BY <1>6, <2>1, <2>4, <3>4
    <3>6. b = a
      BY <1>2, <2>1, <3>5
    <3> QED BY <3>4, <3>6
  <2> QED BY <2>1, <2>2, <2>3, <2>4 DEF Located
<1>8. ASSUME NEW a \in DOMAIN g, NEW b \in DOMAIN g, x[q[a][1]] = x[q[b][1]] PROVE a = b
  <2>1. 1 \in DOMAIN g[a] /\ 1 \in DOMAIN g[b]
    BY <1>2
  <2>2. keys[w[a][1]] = keys[w[b][1]]
    BY <1>6, <1>8, <2>1
  <2> QED BY <1>2, <2>1, <2>2
<1>9. GroupPlaces(q, g, rows, T, x)
  BY <1>2, <1>7, <1>8 DEF GroupPlaces
<1> QED BY <1>9 DEF g

\* The rows that check_pareto looks at.
Positive(rows) ==
  {i \in DOMAIN rows : rows[i].class = "item" /\ rows[i].amount # None /\ rows[i].amount.value >= 0}

\* Each summary is of the rows of its context.
LEMMA ParetosAre ==
  ASSUME NEW rows, List(rows), \A i \in DOMAIN rows : rows[i].amount # None => rows[i].amount.value \in Int
  PROVE  \A p \in ToSet(Pareto(rows)) :
           \E t, q : /\ Located(q, t, rows, {i \in Positive(rows) : ParetoKey(rows[i]) = p.context})
                     /\ Summarizes(p, t)
<1> DEFINE items == ItemRows(rows)
           W == {k \in DOMAIN items : items[k].amount # None /\ items[k].amount.value >= 0}
           positive == Picked(items, W)
           keys == [i \in DOMAIN positive |-> ParetoKey(positive[i])]
           all == GroupsBy(positive, keys)
           N == {a \in DOMAIN all : \E i \in DOMAIN all[a] : all[a][i].amount.value # 0}
           groups == Picked(all, N)
           x == [i \in DOMAIN rows |-> ParetoKey(rows[i])]
<1>1. Pareto(rows) = [a \in DOMAIN groups |-> ParetoOf(groups[a])]
  BY Zenon DEF Pareto, Select, Picked
<1>2. \E p : Picks(p, positive, rows, Positive(rows))
  <2> DEFINE G == {r \in Members(rows) : r.amount # None /\ r.amount.value >= 0}
             U == {k \in DOMAIN items : items[k] \in G}
             V == {i \in DOMAIN rows : rows[i].class = "item" /\ rows[i] \in G}
  <2>1. W = U
    <3> DEFINE T == {i \in DOMAIN rows : rows[i].class = "item"}
    <3>1. items = Picked(rows, T)
      BY DEF ItemRows, Select, Picked
    <3>2. T \in SUBSET DOMAIN rows
      OBVIOUS
    <3> HIDE DEF items, T
    <3>3. \A k \in DOMAIN items : \E i \in T : items[k] = rows[i]
      BY <3>1, <3>2, PickedRows
    <3>4. \A k \in DOMAIN items : items[k] \in Members(rows)
      BY <3>2, <3>3 DEF Members
    <3> QED BY <3>4
  <2>2. \E p : Picks(p, Picked(items, U), rows, V)
    BY ItemsPicked
  <2>3. V = Positive(rows)
    BY DEF Members, Positive
  <2> HIDE DEF items, U, W, V
  <2> QED BY <2>1, <2>2, <2>3
<1> HIDE DEF items, W, positive
<1>3. PICK p : Picks(p, positive, rows, Positive(rows))
  BY <1>2
<1>4. \A k \in DOMAIN positive : keys[k] = x[p[k]]
  BY <1>3 DEF Picks, Positive
<1> HIDE DEF keys, x
<1>5. PICK q : GroupPlaces(q, all, rows, Positive(rows), x)
  BY <1>3, <1>4, GroupsOfPicked
<1> HIDE DEF all
<1>6. ASSUME NEW a \in DOMAIN groups
      PROVE  \E b \in N : groups[a] = all[b]
  <2>1. List(all) /\ N \in SUBSET DOMAIN all
    BY <1>5 DEF GroupPlaces
  <2> HIDE DEF groups, N
  <2>2. \E c : Picks(c, groups, all, N)
    BY <2>1, PickedInOrder DEF groups
  <2> QED BY <2>2 DEF Picks
<1>7. ASSUME NEW b \in N
      PROVE  \E t, r : /\ Located(r, t, rows, {i \in Positive(rows) : ParetoKey(rows[i]) = ParetoOf(all[b]).context})
                       /\ Summarizes(ParetoOf(all[b]), t)
  <2> DEFINE t == all[b]
             D == {i \in Positive(rows) : x[i] = x[q[b][1]]}
  <2>1. 1 \in DOMAIN t /\ Located(q[b], t, rows, D) /\ \E i \in DOMAIN t : t[i].amount.value # 0
    BY <1>5 DEF GroupPlaces
  <2>2. \A i \in Positive(rows) : i \in DOMAIN rows /\ x[i] = ParetoKey(rows[i]) /\ rows[i].amount.value \in Nat
    BY DEF Positive, x
  <2> HIDE DEF t
  <2>3. List(t) /\ \A i \in DOMAIN t : q[b][i] \in Positive(rows) /\ t[i] = rows[q[b][i]]
    BY <2>1 DEF Located
  <2>4. \A i \in DOMAIN t : t[i].amount.value \in Nat
    BY <2>2, <2>3
  <2>5. Summarizes(ParetoOf(t), t)
    BY <2>1, <2>3, <2>4, ParetoOfIs
  <2>6. ParetoOf(t).context = ParetoKey(t[1])
    BY <2>5 DEF Summarizes
  <2>7. ParetoOf(t).context = x[q[b][1]]
    BY <2>1, <2>2, <2>3, <2>6
  <2>8. D = {i \in Positive(rows) : ParetoKey(rows[i]) = ParetoOf(t).context}
    BY <2>2, <2>7
  <2> QED BY <2>1, <2>5, <2>8 DEF t
<1> HIDE DEF N, groups
<1>8. ASSUME NEW y \in ToSet(Pareto(rows)) PROVE \E b \in N : y = ParetoOf(all[b])
  <2>1. PICK a \in DOMAIN groups : y = ParetoOf(groups[a])
    BY <1>1 DEF ToSet
  <2> QED BY <1>6, <2>1
<1> QED BY <1>7, <1>8, Zenon

\* The summaries are least as the property takes it.
LEMMA ParetosHold ==
  ASSUME List(found.rows),
         \A i \in DOMAIN found.rows : found.rows[i].amount # None => found.rows[i].amount.value \in Int
  PROVE  ParetoIsLeast
<1> DEFINE rows == found.rows
           group(p) == {i \in Items : /\ Row(i).amount # None /\ ParetoKey(Row(i)) = p.context
                                      /\ Row(i).amount.value >= 0}
<1> SUFFICES ASSUME NEW p \in ToSet(Pareto(rows))
             PROVE  /\ p.count = Cardinality(group(p)) /\ p.total = SumOf(group(p))
                    /\ \A S \in SUBSET group(p) : Cardinality(S) < p.top => 5 * SumOf(S) < 4 * p.total
                    /\ \E S \in SUBSET group(p) : Cardinality(S) = p.top /\ 5 * SumOf(S) >= 4 * p.total
  BY DEF ParetoIsLeast
<1> DEFINE D == {i \in Positive(rows) : ParetoKey(rows[i]) = p.context}
<1>1. group(p) = D
  BY DEF Positive, Items, Row
<1>2. PICK t, q : Located(q, t, rows, D) /\ Summarizes(p, t)
  BY ParetosAre
<1>3. \A i \in D : rows[i].amount.value \in Int
  BY DEF Positive
<1> HIDE DEF D, group
<1> DEFINE v == Values(t)
<1>4. /\ p.count = Len(t) /\ p.total = Sum(v, DOMAIN t)
      /\ \A s \in SUBSET DOMAIN t : Cardinality(s) < p.top => 5 * Sum(v, s) < 4 * p.total
      /\ \E s \in SUBSET DOMAIN t : Cardinality(s) = p.top /\ 5 * Sum(v, s) >= 4 * p.total
  BY <1>2 DEF Summarizes
<1>5. \A k \in DOMAIN t : v[k] = rows[q[k]].amount.value /\ v[k] \in Int /\ q[k] \in D
  BY <1>2, <1>3 DEF Values, Located
<1> HIDE DEF v
<1>6. ASSUME NEW R \in SUBSET DOMAIN t PROVE SumOf({q[k] : k \in R}) = Sum(v, R)
  <2> DEFINE S == {q[k] : k \in R}
             g == [i \in S |-> Row(i).amount.value]
  <2>1. DOMAIN g = S /\ \A i \in S : g[i] = rows[i].amount.value
    BY DEF Row
  <2>2. SumOf(S) = Total(g)
    BY DEF SumOf
  <2>3. \A k \in R : q[k] \in S
    OBVIOUS
  <2> HIDE DEF g
  <2>4. SumOf(S) = Sum(g, S)
    BY <2>1, <2>2, TotalIs
  <2>5. \A k \in R : g[q[k]] \in Int /\ v[k] = g[q[k]]
    BY <1>5, <2>1, <2>3
  <2>6. \A k, l \in R : q[k] = q[l] => k = l
    BY <1>2 DEF Located
  <2>7. IsFiniteSet(R)
    BY <1>2, LocatedCount
  <2>8. Sum(v, R) = Sum(g, {q[k] : k \in R})
    BY <2>5, <2>6, <2>7, SumImage
  <2> QED BY <2>4, <2>8
<1>7. p.count = Cardinality(D) /\ p.total = SumOf(D)
  <2>1. Cardinality(D) = Len(t) /\ D = {q[k] : k \in DOMAIN t}
    BY <1>2, LocatedCount
  <2> QED BY <1>4, <1>6, <2>1
<1>8. ASSUME NEW S \in SUBSET D, Cardinality(S) < p.top PROVE 5 * SumOf(S) < 4 * p.total
  <2> DEFINE R == {k \in DOMAIN t : q[k] \in S}
  <2>1. S = {q[k] : k \in R} /\ Cardinality(S) = Cardinality(R) /\ R \in SUBSET DOMAIN t
    BY <1>2, LocatedCount
  <2> HIDE DEF R
  <2> QED BY <1>4, <1>6, <1>8, <2>1
<1>9. \E S \in SUBSET D : Cardinality(S) = p.top /\ 5 * SumOf(S) >= 4 * p.total
  <2>1. PICK R \in SUBSET DOMAIN t : Cardinality(R) = p.top /\ 5 * Sum(v, R) >= 4 * p.total
    BY <1>4
  <2>2. /\ Cardinality({q[k] : k \in R}) = Cardinality(R) /\ {q[k] : k \in R} \in SUBSET D
        /\ SumOf({q[k] : k \in R}) = Sum(v, R)
    BY <1>2, <1>6, LocatedCount
  <2> QED BY <2>1, <2>2
<1> QED BY <1>1, <1>7, <1>8, <1>9

-----------------------------------------------------------------------------
(* Outliers                                                                *)

\* DoubleMedian of a list: the sum of two of its elements, and more than half of
\* the elements are not greater than the second.
LEMMA MedianIs ==
  ASSUME NEW n \in Nat \ {0}, NEW v \in [1 .. n -> Int], Len(v) = n
  PROVE  \E i, j \in 1 .. n : /\ DoubleMedian(v) = v[i] + v[j]
                              /\ \E S \in SUBSET (1 .. n) : /\ \A k \in S : v[k] <= v[j]
                                                            /\ Cardinality(S) = (n \div 2) + 1
<1> DEFINE o == Order(v)
           a == (n + 1) \div 2
           b == (n \div 2) + 1
<1>1. /\ o \in [1 .. n -> 1 .. n]
      /\ \A k, l \in 1 .. n : o[k] = o[l] => k = l
      /\ \A k, l \in 1 .. n : k <= l => v[o[k]] <= v[o[l]]
  BY OrderIs
<1>2. DoubleMedian(v) = v[o[a]] + v[o[b]]
  BY DEF DoubleMedian
<1>3. a \in 1 .. n /\ b \in 1 .. n /\ b \in Nat
  OBVIOUS
<1> HIDE DEF o, a, b
<1> DEFINE D == 1 .. b
           S == {o[k] : k \in D}
<1>4. \A k \in D : k \in 1 .. n /\ k <= b
  BY <1>3
<1>5. S \in SUBSET (1 .. n) /\ \A k \in S : v[k] <= v[o[b]]
  <2>1. \A k \in D : o[k] \in 1 .. n /\ v[o[k]] <= v[o[b]]
    BY <1>1, <1>3, <1>4
  <2> HIDE DEF D
  <2> QED BY <2>1
<1>6. IsFiniteSet(D) /\ Cardinality(D) = b
  BY <1>3, FS_Interval
<1>7. \A k, l \in D : o[k] = o[l] => k = l
  BY <1>1, <1>4
<1> HIDE DEF D
<1>8. Cardinality(S) = b
  BY <1>6, <1>7, ImageCount
<1> HIDE DEF S
<1>9. o[a] \in 1 .. n /\ o[b] \in 1 .. n
  BY <1>1, <1>3
<1> QED BY <1>2, <1>5, <1>8, <1>9 DEF b

\* A value as near as most others is no outlier.
LEMMA NearIsNone ==
  ASSUME NEW x \in Int, NEW m \in Int, m # 0, NEW mad \in Nat, Abs(2 * x - m) <= mad
  PROVE  ~ IF mad = 0 THEN 2 * Abs(x) >= 10 * Abs(m) \/ 20 * Abs(x) <= Abs(m)
           ELSE 2 * Abs(2 * x - m) > 6 * mad /\ 2 * Abs(2 * x - m) > Abs(m)
<1>1. Abs(2 * x - m) \in Nat /\ Abs(x) \in Nat /\ Abs(m) \in Nat
  BY DEF Abs
<1>2. CASE mad = 0
  <2>1. 2 * x = m
    BY <1>1, <1>2 DEF Abs
  <2>2. Abs(m) = 2 * Abs(x) /\ Abs(m) > 0
    BY <2>1 DEF Abs
  <2> QED BY <1>1, <1>2, <2>2
<1>3. CASE mad # 0
  <2>1. PICK d : d = Abs(2 * x - m)
    OBVIOUS
  <2>2. d \in Nat /\ d <= mad
    BY <1>1, <2>1
  <2>3. ~(2 * d > 6 * mad)
    BY <1>3, <2>2
  <2> QED BY <1>3, <2>1, <2>3
<1> QED BY <1>2, <1>3

\* Outliers are judged among at least seven, and most are none.
LEMMA FewOutliers ==
  ASSUME NEW v, List(v), \A i \in DOMAIN v : v[i] \in Int, NEW x, IsOutlier(x, v)
  PROVE  LET S == {i \in DOMAIN v : IsOutlier(v[i], v)}
         IN Len(v) >= 7 /\ IsFiniteSet(S) /\ 2 * Cardinality(S) < Len(v)
<1> DEFINE n == Len(v)
           m == DoubleMedian(v)
           d == [i \in DOMAIN v |-> Abs(2 * v[i] - m)]
           mad == DoubleMedian(d)
           far(y) == IF mad = 0 THEN 2 * Abs(y) >= 10 * Abs(m) \/ 20 * Abs(y) <= Abs(m)
                     ELSE 2 * Abs(2 * y - m) > 6 * mad /\ 2 * Abs(2 * y - m) > Abs(m)
           S == {i \in DOMAIN v : IsOutlier(v[i], v)}
<1>1. n \in Nat /\ DOMAIN v = 1 .. n /\ v = [i \in DOMAIN v |-> v[i]]
  BY ListPlaces
<1>2. \A y : IsOutlier(y, v) <=> n >= 7 /\ m # 0 /\ far(y)
  BY DEF IsOutlier
<1>3. n >= 7 /\ m # 0 /\ n \in Nat \ {0}
  <2>1. n >= 7 /\ m # 0
    <3> HIDE DEF n, m, far
    <3> QED BY <1>2
  <2> QED BY <1>1, <2>1
<1> HIDE DEF n, m
<1>4. v \in [1 .. n -> Int] /\ Len(v) = n
  BY <1>1 DEF n
<1>5. m \in Int
  BY <1>3, <1>4, MedianIs DEF m
<1>6. \A i \in 1 .. n : v[i] \in Int /\ d[i] = Abs(2 * v[i] - m)
  BY <1>1
<1>7. List(d) /\ Len(d) = n /\ DOMAIN d = 1 .. n /\ d = [i \in DOMAIN d |-> d[i]]
  <2>1. DOMAIN d = DOMAIN v /\ d = [i \in DOMAIN d |-> d[i]]
    OBVIOUS
  <2> HIDE DEF d
  <2>2. List(d) /\ Len(d) = Len(v)
    BY <2>1, ListMapped
  <2> QED BY <1>1, <2>1, <2>2 DEF n
<1> HIDE DEF d
<1>8. \A i \in 1 .. n : d[i] \in Nat
  <2>1. \A y \in Int : Abs(y) \in Nat
    BY DEF Abs
  <2> QED BY <1>5, <1>6, <2>1
<1>9. d \in [1 .. n -> Int]
  BY <1>7, <1>8
<1>10. PICK j, k \in 1 .. n : /\ mad = d[k] + d[j]
                              /\ \E N \in SUBSET (1 .. n) : /\ \A i \in N : d[i] <= d[j]
                                                            /\ Cardinality(N) = (n \div 2) + 1
  BY <1>3, <1>7, <1>9, MedianIs
<1>11. PICK N \in SUBSET (1 .. n) : /\ \A i \in N : d[i] <= d[j]
                                    /\ Cardinality(N) = (n \div 2) + 1
  BY <1>10
<1> HIDE DEF mad
<1>12. mad \in Nat /\ d[j] <= mad /\ d[j] \in Nat
  BY <1>8, <1>10
<1>13. ASSUME NEW i \in N PROVE i \notin S
  <2>1. i \in 1 .. n /\ d[i] <= d[j] /\ d[i] \in Nat
    BY <1>8, <1>11
  <2>2. Abs(2 * v[i] - m) <= mad
    BY <1>6, <1>12, <2>1
  <2>3. ~far(v[i])
    BY <1>3, <1>5, <1>6, <1>12, <2>1, <2>2, NearIsNone
  <2> QED BY <1>2, <2>3
<1> HIDE DEF far, S
<1>14. IsFiniteSet(S) /\ Cardinality(S) \in Nat /\ Cardinality(S) <= n - Cardinality(N)
  <2> DEFINE D == 1 .. n
  <2>1. IsFiniteSet(D) /\ Cardinality(D) = n
    BY <1>3, FS_Interval
  <2>2. S \in SUBSET D /\ N \in SUBSET D
    BY <1>1, <1>11 DEF S
  <2>3. S \in SUBSET (D \ N)
    BY <1>13, <2>2
  <2> HIDE DEF D
  <2>4. IsFiniteSet(N) /\ IsFiniteSet(D \ N) /\ D \cap N = N
    BY <2>1, <2>2, FS_Subset
  <2>5. Cardinality(D \ N) = Cardinality(D) - Cardinality(D \cap N)
    BY <2>1, <2>4, FS_Difference
  <2>6. IsFiniteSet(S) /\ Cardinality(S) <= Cardinality(D \ N) /\ Cardinality(S) \in Nat
    BY <2>3, <2>4, FS_Subset, FS_CardinalityType
  <2> QED BY <2>1, <2>4, <2>5, <2>6
<1>15. 2 * Cardinality(S) < n
  <2>1. PICK c : c = Cardinality(S)
    OBVIOUS
  <2>2. c \in Nat /\ c <= n - ((n \div 2) + 1)
    BY <1>11, <1>14, <2>1
  <2>3. 2 * c < n
    BY <1>3, <2>2
  <2> QED BY <2>1, <2>3
<1> QED BY <1>3, <1>14, <1>15 DEF S, n

-----------------------------------------------------------------------------
(* The findings about them                                                 *)

FieldOf(c, row) == Amounts(row)[c].of
NameOf(c, row) == Amounts(row)[c].field
PeerKey(row) == <<row.table, UnitKey(row), CurrencyKey(row), SectionKey(row)>>
HasField(c, rows) == {i \in DOMAIN rows : rows[i].class = "item" /\ FieldOf(c, rows[i]) # None}

\* The groups in which a field is judged.
FieldItems(c, rows) ==
  Picked(ItemRows(rows), {i \in DOMAIN ItemRows(rows) : FieldOf(c, ItemRows(rows)[i]) # None})
PeerGroups(c, rows) ==
  GroupsBy(FieldItems(c, rows), [i \in DOMAIN FieldItems(c, rows) |-> PeerKey(FieldItems(c, rows)[i])])

\* What is judged in a group, and what is found of a row of it.
FieldValues(c, group) == [i \in DOMAIN group |-> FieldOf(c, group[i]).value]
Exception(c, row) ==
  Finding(<<"boq", "value_outlier">>, row.sheet, <<RowId(row), NameOf(c, row)>>, SourceLocation(row, FieldOf(c, row)))

\* A finding of a group.
Excepts(f, c, group) ==
  \E r \in DOMAIN group : f = Exception(c, group[r]) /\ IsOutlier(FieldOf(c, group[r]).value, FieldValues(c, group))

\* The groups hold the rows that agree in their context.
LEMMA PeersAre ==
  ASSUME NEW rows, List(rows), NEW c
  PROVE  \E q : GroupPlaces(q, PeerGroups(c, rows), rows, HasField(c, rows), [i \in DOMAIN rows |-> PeerKey(rows[i])])
<1> DEFINE items == ItemRows(rows)
           W == {k \in DOMAIN items : FieldOf(c, items[k]) # None}
           G == {r \in Members(rows) : FieldOf(c, r) # None}
           U == {k \in DOMAIN items : items[k] \in G}
           V == {i \in DOMAIN rows : rows[i].class = "item" /\ rows[i] \in G}
           x == [i \in DOMAIN rows |-> PeerKey(rows[i])]
           t == FieldItems(c, rows)
           keys == [i \in DOMAIN t |-> PeerKey(t[i])]
<1>1. W = U
  <2> DEFINE T == {i \in DOMAIN rows : rows[i].class = "item"}
  <2>1. items = Picked(rows, T)
    BY DEF ItemRows, Select, Picked
  <2>2. T \in SUBSET DOMAIN rows
    OBVIOUS
  <2> HIDE DEF items, T
  <2>3. \A k \in DOMAIN items : \E i \in T : items[k] = rows[i]
    BY <2>1, <2>2, PickedRows
  <2>4. \A k \in DOMAIN items : items[k] \in Members(rows)
    BY <2>2, <2>3 DEF Members
  <2> QED BY <2>4
<1>2. \E p : Picks(p, Picked(items, U), rows, V)
  BY ItemsPicked
<1>3. V = HasField(c, rows)
  BY DEF Members, HasField
<1>4. t = Picked(items, W)
  BY DEF FieldItems
<1> HIDE DEF items, W, U, V, t
<1>5. PICK p : Picks(p, t, rows, HasField(c, rows))
  BY <1>1, <1>2, <1>3, <1>4
<1>6. \A k \in DOMAIN t : keys[k] = x[p[k]]
  BY <1>5 DEF Picks, HasField
<1>7. PeerGroups(c, rows) = GroupsBy(t, keys)
  BY DEF PeerGroups, t
<1> HIDE DEF keys, x
<1>8. \E q : GroupPlaces(q, GroupsBy(t, keys), rows, HasField(c, rows), x)
  BY <1>5, <1>6, GroupsOfPicked
<1> QED BY <1>7, <1>8 DEF x

\* The findings are those of the groups of the three fields.
LEMMA OutliersAre ==
  ASSUME NEW rows, List(rows)
  PROVE  \A f : f \in OfRule(CheckValueOutliers(rows), "value_outlier") <=>
           \E c \in 1 .. 3 : \E a \in DOMAIN PeerGroups(c, rows) : Excepts(f, c, PeerGroups(c, rows)[a])
<1> DEFINE part(c, group, row) == If(IsOutlier(FieldOf(c, row).value, FieldValues(c, group)), Exception(c, row))
           ofGroup(c, group) == FlattenSeq([r \in DOMAIN group |-> part(c, group, group[r])])
           g(c) == PeerGroups(c, rows)
           ofField(c) == FlattenSeq([k \in DOMAIN g(c) |-> ofGroup(c, g(c)[k])])
           fields == <<1, 2, 3>>
           s == [i \in DOMAIN fields |-> ofField(fields[i])]
<1>1. CheckValueOutliers(rows) = FlattenSeq(s)
  BY Zenon DEF CheckValueOutliers, Each, Select, Picked, FieldOf, NameOf, PeerKey, FieldValues, Exception, FieldItems, PeerGroups
<1>2. \A c, row : Exception(c, row).rule = <<"boq", "value_outlier">>
  BY FindingIs DEF Exception
<1>3. \A c, group, row :
        /\ List(part(c, group, row))
        /\ \A f : f \in Members(part(c, group, row)) <=>
             f = Exception(c, row) /\ IsOutlier(FieldOf(c, row).value, FieldValues(c, group))
  <2>1. \A f : Members(<<f>>) = {f}
    BY DEF Members
  <2>2. \A d, f : List(If(d, f)) /\ \A e : e \in Members(If(d, f)) <=> e = f /\ d
    BY <2>1, ShortLists DEF If
  <2> QED BY <2>2
<1> HIDE DEF part
<1>4. ASSUME NEW c, NEW group, List(group)
      PROVE  /\ List(ofGroup(c, group))
             /\ \A f : f \in Members(ofGroup(c, group)) <=> Excepts(f, c, group)
  <2> DEFINE u == [r \in DOMAIN group |-> part(c, group, group[r])]
  <2>1. List(u) /\ DOMAIN u = DOMAIN group
    BY <1>4, ListMapped
  <2>2. \A r \in DOMAIN group : u[r] = part(c, group, group[r])
    OBVIOUS
  <2>3. \A r \in DOMAIN u : List(u[r])
    BY <1>3, <2>1, <2>2
  <2>4. ofGroup(c, group) = FlattenSeq(u)
    OBVIOUS
  <2> HIDE DEF u, ofGroup
  <2>5. List(FlattenSeq(u)) /\ Members(FlattenSeq(u)) = UNION {Members(u[r]) : r \in DOMAIN u}
    BY <2>1, <2>3, FlattenMembers, FlattenIs
  <2>6. \A f : f \in Members(FlattenSeq(u)) <=> \E r \in DOMAIN group : f \in Members(part(c, group, group[r]))
    BY <2>1, <2>2, <2>5
  <2> QED BY <1>3, <2>4, <2>5, <2>6 DEF Excepts
<1> HIDE DEF ofGroup
<1>5. ASSUME NEW c
      PROVE  /\ List(ofField(c))
             /\ \A f : f \in Members(ofField(c)) <=> \E a \in DOMAIN g(c) : Excepts(f, c, g(c)[a])
  <2> DEFINE u == [k \in DOMAIN g(c) |-> ofGroup(c, g(c)[k])]
  <2>1. List(g(c)) /\ \A k \in DOMAIN g(c) : List(g(c)[k])
    <3>1. PICK q : GroupPlaces(q, g(c), rows, HasField(c, rows), [i \in DOMAIN rows |-> PeerKey(rows[i])])
      BY PeersAre
    <3> HIDE DEF g
    <3> QED BY <3>1 DEF GroupPlaces, Located
  <2>2. ofField(c) = FlattenSeq(u)
    OBVIOUS
  <2>3. DOMAIN u = DOMAIN g(c) /\ u = [k \in DOMAIN u |-> u[k]] /\ \A k \in DOMAIN u : u[k] = ofGroup(c, g(c)[k])
    OBVIOUS
  <2> HIDE DEF u, g, ofField
  <2>4. List(u)
    BY <2>1, <2>3, ListMapped
  <2>5. \A k \in DOMAIN u : List(u[k])
    BY <1>4, <2>1, <2>3
  <2>6. List(FlattenSeq(u)) /\ Members(FlattenSeq(u)) = UNION {Members(u[k]) : k \in DOMAIN u}
    BY <2>4, <2>5, FlattenMembers, FlattenIs
  <2>7. \A f : f \in Members(FlattenSeq(u)) <=> \E a \in DOMAIN g(c) : f \in Members(ofGroup(c, g(c)[a]))
    BY <2>3, <2>6
  <2> QED BY <1>4, <2>1, <2>2, <2>6, <2>7
<1>6. List(s) /\ DOMAIN s = 1 .. 3 /\ \A i \in 1 .. 3 : s[i] = ofField(i)
  <2> HIDE DEF ofField
  <2>1. DOMAIN s = 1 .. 3 /\ s = [i \in DOMAIN s |-> s[i]] /\ \A i \in 1 .. 3 : s[i] = ofField(i)
    OBVIOUS
  <2> HIDE DEF s
  <2> QED BY <2>1, ListIs
<1> HIDE DEF s, ofField
<1>7. \A i \in DOMAIN s : List(s[i])
  BY <1>5, <1>6
<1>8. Members(FlattenSeq(s)) = UNION {Members(s[i]) : i \in DOMAIN s}
  BY <1>6, <1>7, FlattenMembers
<1>9. \A f : f \in Members(FlattenSeq(s)) <=> \E c \in 1 .. 3 : f \in Members(ofField(c))
  BY <1>6, <1>8
<1>10. \A f : f \in Members(CheckValueOutliers(rows)) <=>
                \E c \in 1 .. 3 : \E a \in DOMAIN g(c) : Excepts(f, c, g(c)[a])
  BY <1>1, <1>5, <1>9
<1>11. \A f, c, group : Excepts(f, c, group) => f.rule = <<"boq", "value_outlier">>
  BY <1>2 DEF Excepts
<1> HIDE DEF g
<1>12. \A f : f \in OfRule(CheckValueOutliers(rows), "value_outlier") <=> f \in Members(CheckValueOutliers(rows))
  BY <1>10, <1>11 DEF OfRule
<1> QED BY <1>10, <1>12, Zenon DEF g

\* The field of a finding is the one that its name picks.
LEMMA FieldIs ==
  ASSUME NEW c \in 1 .. 3, NEW row
  PROVE  /\ (CHOOSE a \in ToSet(Amounts(row)) : a.field = NameOf(c, row)).of = FieldOf(c, row)
         /\ \A other : NameOf(c, other) = NameOf(c, row)
<1> DEFINE s == Amounts(row)
           names == <<"quantity", "rate", "amount">>
<1>1. ASSUME NEW r PROVE \A k \in 1 .. 3 : Amounts(r)[k].field = names[k]
  BY DEF Amounts
<1>2. DOMAIN s = 1 .. 3
  BY DEF Amounts
<1>3. \A k, l \in 1 .. 3 : names[k] = names[l] => k = l
  OBVIOUS
<1> HIDE DEF s, names
<1>4. \A k \in 1 .. 3 : s[k].field = names[k]
  BY <1>1 DEF s
<1>5. ToSet(s) = {s[k] : k \in 1 .. 3}
  BY <1>2 DEF ToSet
<1>6. \A a \in ToSet(s) : a.field = names[c] => a = s[c]
  BY <1>3, <1>4, <1>5
<1>7. s[c] \in ToSet(s) /\ s[c].field = names[c]
  BY <1>4, <1>5
<1>8. (CHOOSE a \in ToSet(s) : a.field = names[c]) = s[c]
  BY <1>6, <1>7
<1> QED BY <1>1, <1>8 DEF NameOf, FieldOf, s

\* Most of the rows that an outlier is judged against are none, as the property takes it.
LEMMA OutliersHold ==
  ASSUME List(found.rows), Distinct(found.rows),
         \A i \in DOMAIN found.rows : \A c \in 1 .. 3 :
           FieldOf(c, found.rows[i]) # None => FieldOf(c, found.rows[i]).value \in Int,
         Found("value_outlier") = OfRule(CheckValueOutliers(found.rows), "value_outlier")
  PROVE  OutliersAreFew
<1> DEFINE rows == found.rows
           field(f, row) == (CHOOSE a \in ToSet(Amounts(row)) : a.field = f.subject[2]).of
           self(f) == CHOOSE i \in Items : RowId(Row(i)) = f.subject[1]
           peers(f) == {i \in Items : field(f, Row(i)) # None /\ PeerKey(Row(i)) = PeerKey(Row(self(f)))}
           far(f) == {i \in peers(f) : \E h \in Found("value_outlier") : h.subject = <<RowId(Row(i)), f.subject[2]>>}
<1> SUFFICES ASSUME NEW f \in Found("value_outlier")
             PROVE  Cardinality(peers(f)) >= 7 /\ 2 * Cardinality(far(f)) < Cardinality(peers(f))
  BY DEF OutliersAreFew, PeerKey
<1>1. \A h : h \in Found("value_outlier") <=>
               \E c \in 1 .. 3 : \E a \in DOMAIN PeerGroups(c, rows) : Excepts(h, c, PeerGroups(c, rows)[a])
  BY OutliersAre
<1>2. PICK c \in 1 .. 3 : \E a \in DOMAIN PeerGroups(c, rows) : Excepts(f, c, PeerGroups(c, rows)[a])
  BY <1>1
<1> DEFINE g == PeerGroups(c, rows)
           x == [i \in DOMAIN rows |-> PeerKey(rows[i])]
<1>3. PICK a \in DOMAIN g : Excepts(f, c, g[a])
  BY <1>2
<1>4. PICK q : GroupPlaces(q, g, rows, HasField(c, rows), x)
  BY PeersAre
<1> DEFINE t == g[a]
           D == {i \in HasField(c, rows) : x[i] = x[q[a][1]]}
           v == FieldValues(c, t)
<1>5. /\ 1 \in DOMAIN t /\ Located(q[a], t, rows, D)
      /\ \A b \in DOMAIN g : x[q[a][1]] = x[q[b][1]] => a = b
      /\ \A b \in DOMAIN g : 1 \in DOMAIN g[b] /\ Located(q[b], g[b], rows, {i \in HasField(c, rows) : x[i] = x[q[b][1]]})
  BY <1>4 DEF GroupPlaces
<1>6. \A i \in HasField(c, rows) : /\ i \in DOMAIN rows /\ i \in Items /\ x[i] = PeerKey(rows[i])
                                   /\ FieldOf(c, rows[i]).value \in Int
  BY DEF HasField, Items
<1>7. \A h, d, row : h = Exception(d, row) => h.subject = <<RowId(row), NameOf(d, row)>>
  BY FindingIs DEF Exception
<1>8. PICK r \in DOMAIN t : f = Exception(c, t[r]) /\ IsOutlier(FieldOf(c, t[r]).value, v)
  BY <1>3 DEF Excepts
<1> HIDE DEF x, g
<1>9. /\ \A k \in DOMAIN t : q[a][k] \in D /\ t[k] = rows[q[a][k]]
      /\ \A i \in D : \E k \in DOMAIN t : q[a][k] = i
      /\ \A k, l \in DOMAIN t : q[a][k] = q[a][l] => k = l
      /\ List(t)
  BY <1>5 DEF Located
<1>10. D \in SUBSET HasField(c, rows)
  OBVIOUS
<1>11. f.subject[1] = RowId(t[r]) /\ f.subject[2] = NameOf(c, t[r])
  BY <1>7, <1>8
<1>12. \A row : field(f, row) = FieldOf(c, row) /\ NameOf(c, row) = f.subject[2]
  <2>1. ASSUME NEW row PROVE field(f, row) = FieldOf(c, row) /\ NameOf(c, row) = f.subject[2]
    <3>1. f.subject[2] = NameOf(c, row)
      BY <1>11, FieldIs
    <3> QED BY <3>1, FieldIs
  <2> QED BY <2>1
<1>13. \A i, j \in DOMAIN rows : RowId(rows[i]) = RowId(rows[j]) => i = j
  BY DEF Distinct
<1>14. self(f) = q[a][r]
  <2> DEFINE i == q[a][r]
  <2>1. i \in Items /\ i \in DOMAIN rows /\ RowId(Row(i)) = f.subject[1]
    BY <1>6, <1>8, <1>9, <1>10, <1>11 DEF Row
  <2>2. \A j \in Items : RowId(Row(j)) = f.subject[1] => j = i
    BY <1>13, <2>1 DEF Row, Items
  <2> HIDE DEF i
  <2> QED BY <2>1, <2>2 DEF i
<1>15. peers(f) = D
  <2>1. x[q[a][r]] = x[q[a][1]] /\ PeerKey(Row(q[a][r])) = x[q[a][1]]
    BY <1>6, <1>8, <1>9 DEF Row
  <2>2. \A i : i \in HasField(c, rows) <=> i \in Items /\ FieldOf(c, Row(i)) # None
    BY DEF HasField, Items, Row
  <2>3. \A i \in HasField(c, rows) : x[i] = PeerKey(Row(i))
    BY <1>6 DEF Row
  <2>4. peers(f) = {i \in Items : FieldOf(c, Row(i)) # None /\ PeerKey(Row(i)) = x[q[a][1]]}
    <3> HIDE DEF field, self
    <3> QED BY <1>12, <1>14, <2>1
  <2> HIDE DEF peers
  <2> QED BY <2>2, <2>3, <2>4
<1> HIDE DEF peers, self, field
<1> DEFINE S == {k \in DOMAIN v : IsOutlier(v[k], v)}
<1>16. /\ DOMAIN v = DOMAIN t /\ v = [k \in DOMAIN v |-> v[k]]
       /\ \A k \in DOMAIN t : v[k] = FieldOf(c, t[k]).value /\ v[k] \in Int
  <2>1. DOMAIN v = DOMAIN t /\ v = [k \in DOMAIN v |-> v[k]] /\ \A k \in DOMAIN t : v[k] = FieldOf(c, t[k]).value
    BY DEF FieldValues
  <2> QED BY <1>6, <1>9, <1>10, <2>1
<1> HIDE DEF v, t, D
<1>17. List(v) /\ Len(v) = Len(t)
  BY <1>9, <1>16, ListMapped
<1>18. Len(v) >= 7 /\ IsFiniteSet(S) /\ 2 * Cardinality(S) < Len(v)
  BY <1>8, <1>16, <1>17, FewOutliers
<1>19. Cardinality(D) = Len(t) /\ D = {q[a][k] : k \in DOMAIN t}
  BY <1>5, LocatedCount DEF t, D
<1>20. ASSUME NEW k \in DOMAIN t
       PROVE  k \in S <=> \E h \in Found("value_outlier") : h.subject = <<RowId(Row(q[a][k])), f.subject[2]>>
  <2>1. Row(q[a][k]) = t[k] /\ q[a][k] \in D /\ q[a][k] \in HasField(c, rows) /\ q[a][k] \in DOMAIN rows
    BY <1>6, <1>9, <1>10 DEF Row
  <2>2. ASSUME k \in S PROVE \E h \in Found("value_outlier") : h.subject = <<RowId(Row(q[a][k])), f.subject[2]>>
    <3>1. IsOutlier(FieldOf(c, t[k]).value, FieldValues(c, t))
      BY <1>16, <2>2 DEF v
    <3>2. Excepts(Exception(c, t[k]), c, g[a])
      BY <3>1 DEF Excepts, t
    <3>3. Exception(c, t[k]) \in Found("value_outlier")
      BY <1>1, <3>2 DEF g
    <3> QED BY <1>7, <1>12, <2>1, <3>3
  <2>3. ASSUME NEW h \in Found("value_outlier"), h.subject = <<RowId(Row(q[a][k])), f.subject[2]>>
        PROVE  k \in S
    <3>1. PICK d \in 1 .. 3 : \E b \in DOMAIN PeerGroups(d, rows) : Excepts(h, d, PeerGroups(d, rows)[b])
      BY <1>1
    <3>2. PICK b \in DOMAIN PeerGroups(d, rows) : Excepts(h, d, PeerGroups(d, rows)[b])
      BY <3>1
    <3>3. PICK l \in DOMAIN PeerGroups(d, rows)[b] :
            /\ h = Exception(d, PeerGroups(d, rows)[b][l])
            /\ IsOutlier(FieldOf(d, PeerGroups(d, rows)[b][l]).value, FieldValues(d, PeerGroups(d, rows)[b]))
      BY <3>2 DEF Excepts
    <3>4. PICK row : row = PeerGroups(d, rows)[b][l]
      OBVIOUS
    <3>5. h.subject = <<RowId(row), NameOf(d, row)>>
      BY <1>7, <3>3, <3>4
    <3>6. RowId(row) = RowId(t[k]) /\ NameOf(d, row) = NameOf(c, row)
      <4>1. PICK y, z, w : y = RowId(t[k]) /\ z = RowId(row) /\ w = NameOf(d, row)
        OBVIOUS
      <4>2. <<y, f.subject[2]>> = <<z, w>>
        BY <2>1, <2>3, <3>5, <4>1
      <4>3. y = z /\ f.subject[2] = w
        BY ONLY <4>2
      <4> QED BY <1>12, <4>1, <4>3
    <3>7. d = c
      <4>1. \A e \in 1 .. 3 : NameOf(e, row) = <<"quantity", "rate", "amount">>[e]
        BY DEF NameOf, Amounts
      <4> QED BY <3>6, <4>1
    <3>8. b \in DOMAIN g /\ l \in DOMAIN g[b] /\ row = g[b][l]
      BY <3>3, <3>4, <3>7 DEF g
    <3>9. Located(q[b], g[b], rows, {i \in HasField(c, rows) : x[i] = x[q[b][1]]})
      BY <1>5, <3>8
    <3>10. q[b][l] \in HasField(c, rows) /\ x[q[b][l]] = x[q[b][1]] /\ row = rows[q[b][l]]
      BY <3>8, <3>9 DEF Located
    <3>11. q[b][l] = q[a][k]
      BY <1>6, <1>9, <1>13, <2>1, <3>6, <3>10
    <3>12. x[q[a][k]] = x[q[a][1]]
      BY <2>1 DEF D
    <3>13. b = a
      BY <1>5, <3>8, <3>10, <3>11, <3>12
    <3>14. l = k
      BY <1>9, <3>8, <3>11, <3>13 DEF t
    <3>15. IsOutlier(FieldOf(c, t[k]).value, v)
      BY <3>3, <3>7, <3>13, <3>14 DEF t, v, g
    <3> QED BY <1>16, <3>15
  <2> QED BY <2>2, <2>3
<1>21. far(f) = {q[a][k] : k \in S}
  <2>1. S \in SUBSET DOMAIN t
    BY <1>16
  <2> HIDE DEF S
  <2>2. \A k \in S : q[a][k] \in far(f)
    BY <1>9, <1>15, <1>20, <2>1
  <2>3. \A i \in far(f) : \E k \in S : q[a][k] = i
    BY <1>9, <1>15, <1>20
  <2> HIDE DEF far
  <2> QED BY <2>2, <2>3
<1>22. Cardinality(far(f)) = Cardinality(S)
  <2>1. S \in SUBSET DOMAIN t
    BY <1>16
  <2>2. \A k, l \in S : q[a][k] = q[a][l] => k = l
    BY <1>9, <2>1
  <2> HIDE DEF S, far
  <2> DEFINE p == q[a]
  <2>3. Cardinality({p[k] : k \in S}) = Cardinality(S)
    BY <1>18, <2>2, ImageCount
  <2> QED BY <1>21, <2>3
<1> QED BY <1>15, <1>17, <1>18, <1>19, <1>22

-----------------------------------------------------------------------------
(* What the findings of a run mean                                         *)

\* The sheets of a file have names of their own, as a workbook demands.
Named == \A f \in Files : \A i, j \in DOMAIN f.sheets : f.sheets[i].name = f.sheets[j].name => i = j

\* The names of what was read are those of the file.
LEMMA NamesAreOwn ==
  ASSUME Named, Faithful, AllKin, outcome = "ok"
  PROVE  OwnNames(sheets)
<1>1. sheets \in Seq(ReadSheets) /\ Len(sheets) = Len(file.sheets) /\ file \in Files
  BY DEF Faithful, Finished, Base, Typed
<1>2. file.sheets \in Seq(FileSheets)
  BY <1>1, FilesAssumption
<1>3. DOMAIN sheets = DOMAIN file.sheets /\ DOMAIN sheets = 1 .. Len(sheets)
  BY <1>1, <1>2
<1>4. \A i \in DOMAIN sheets : sheets[i].name = file.sheets[i].name
  BY <1>3 DEF AllKin, Kin
<1> QED BY <1>1, <1>3, <1>4 DEF Named, OwnNames

\* The findings that are saved are those of the rules for what was detected.
Ruled == phase = "save" => findings = RunRules(sheets, found, request.settings, request.selected)

\* Every step keeps them so.
LEMMA RuledStep ==
  ASSUME Ruled, [Next]_vars
  PROVE  Ruled'
<1>1. CASE UNCHANGED vars
  BY <1>1 DEF vars, engineVars, readerVars, read, Ruled
<1>2. CASE ApplyRules
  <2>1. /\ findings' = RunRules(sheets, found, request.settings, request.selected)
        /\ sheets' = sheets /\ found' = found /\ request' = request
    BY <1>2 DEF ApplyRules, Report, read
  <2> QED BY <2>1 DEF Ruled
<1>3. CASE Cancel
  BY <1>3 DEF Cancel, CancelReading, engineVars, read, Ruled
<1>4. CASE \/ (\E q \in Requests : StartRun(q)) \/ Ingest \/ IngestionEnds \/ DetectTables
           \/ EngineCancelled \/ Save \/ AnalyzeAgain
  <2>1. phase' # "save"
    BY <1>4 DEF StartRun, Ingest, engineVars, IngestionEnds, DetectTables, EngineCancelled, Save, AnalyzeAgain
  <2> QED BY <2>1 DEF Ruled
<1>5. CASE Rest
  BY <1>1, <1>5 DEF Rest
<1> QED BY <1>1, <1>2, <1>3, <1>4, <1>5 DEF Next, RunStep

\* Such findings mean what they say.
LEMMA RuledMeans ==
  ASSUME Named, Faithful, AllKin, Working, Ruled
  PROVE  ChecksMeanWhatTheySay
<1> SUFFICES ASSUME Judged PROVE TotalsMeanSums /\ DuplicatesAreCounted /\ ParetoIsLeast /\ OutliersAreFew
  BY DEF ChecksMeanWhatTheySay
<1>1. /\ phase = "save" /\ outcome = "ok" /\ found = Detect(sheets)
      /\ findings = RunRules(sheets, found, request.settings, {})
  BY DEF Judged, Working, Ruled
<1>2. Workbook(sheets) /\ \A i \in DOMAIN sheets : List(sheets[i].cells)
  BY <1>1, SheetsAreAddressed
<1>3. OwnNames(sheets)
  BY <1>1, NamesAreOwn
<1>4. Detected(found) /\ Reckoned(found) /\ Distinct(found.rows)
  BY <1>1, <1>2, <1>3, DetectionIs
<1>5. List(sheets)
  BY <1>2 DEF Workbook
<1>6. /\ \A rule \in {"exact_duplicate", "cross_sheet_duplicate"} :
           OfRule(findings, rule) = OfRule(CheckExactDuplicates(found.rows), rule)
      /\ \A rule \in {"subtotal_mismatch", "total_mismatch"} :
           OfRule(findings, rule) = OfRule(CheckSubtotals(found, request.settings), rule)
      /\ OfRule(findings, "value_outlier") = OfRule(CheckValueOutliers(found.rows), "value_outlier")
  BY <1>1, <1>2, <1>4, <1>5, FoundIs
<1>7. \A rule : Found(rule) = OfRule(findings, rule)
  BY DEF Found, OfRule, Members
<1>8. List(found.tables) /\ List(found.rows)
  BY <1>4 DEF Detected
<1>9. \A i \in DOMAIN found.rows :
        /\ found.rows[i].table \in DOMAIN found.tables
        /\ found.rows[i].amount # None => found.rows[i].amount.value \in Int
        /\ found.rows[i].rate # None => found.rows[i].rate.value \in Int
        /\ found.rows[i].quantity # None => found.rows[i].quantity.value \in Int
  BY <1>4 DEF Reckoned, Summable
<1>10. TotalsMeanSums
  BY <1>4, <1>6, <1>7, <1>8, <1>9, TotalsHold
<1>11. DuplicatesAreCounted
  <2>1. OfRule(CheckExactDuplicates(found.rows), "exact_duplicate")
          \cup OfRule(CheckExactDuplicates(found.rows), "cross_sheet_duplicate") = Repeats(found.rows)
    BY DEF Repeats
  <2> QED BY <1>4, <1>6, <1>7, <1>8, <2>1, DuplicatesHold
<1>12. ParetoIsLeast
  BY <1>8, <1>9, ParetosHold
<1>13. \A i \in DOMAIN found.rows : \A c \in 1 .. 3 :
         FieldOf(c, found.rows[i]) # None => FieldOf(c, found.rows[i]).value \in Int
  <2> SUFFICES ASSUME NEW i \in DOMAIN found.rows, NEW c \in 1 .. 3, FieldOf(c, found.rows[i]) # None
               PROVE  FieldOf(c, found.rows[i]).value \in Int
    OBVIOUS
  <2>1. c = 1 \/ c = 2 \/ c = 3
    OBVIOUS
  <2>2. FieldOf(c, found.rows[i]) \in {found.rows[i].quantity, found.rows[i].rate, found.rows[i].amount}
    BY <2>1 DEF FieldOf, Amounts
  <2> QED BY <1>9, <2>2
<1>14. OutliersAreFew
  BY <1>4, <1>6, <1>7, <1>8, <1>13, OutliersHold
<1> QED BY <1>10, <1>11, <1>12, <1>14

\* The findings of a run that checks everything mean what they say.
THEOREM ChecksMeanWhatTheySayAlways ==
  ASSUME Named
  PROVE  Spec => []ChecksMeanWhatTheySay
<1>1. InspectionInit => Ruled
  BY DEF InspectionInit, Ruled
<1>2. Ruled /\ [Next]_vars => Ruled'
  BY RuledStep
<1>3. Faithful /\ AllKin /\ Working /\ Ruled => ChecksMeanWhatTheySay
  BY RuledMeans
<1> QED BY <1>1, <1>2, <1>3, WorkingAlways, PTL DEF Spec

=============================================================================
