--------------------------------- MODULE Sums ---------------------------------
(***************************************************************************)
(* Facts about sums over finite sets, the counting that the limit of files *)
(* written at a time and the used space do, and about the folds by which   *)
(* Search has its loops; proved once for every model.                      *)
(***************************************************************************)
EXTENDS FiniteSetsExt, Functions, FiniteSetTheorems, TLAPS

(* A sum of naturals is the number of marks one makes to write it down:    *)
(* f[x] of them for each x.                                                *)
Marks(f, S) == {p \in S \X Nat : p[2] \in 1 .. f[p[1]]}

(* In every family of subsets of a finite set there is a least one: the    *)
(* form in which the proofs below use induction.                           *)
LEMMA LeastSubset ==
    ASSUME NEW S, IsFiniteSet(S), NEW bad, bad \subseteq SUBSET S, bad # {}
    PROVE  \E T \in bad : \A U \in bad : U \subseteq T => U = T
<1>1. IsWellFoundedOn(StrictSubsetOrdering(S), SUBSET S)
  BY FS_StrictSubsetOrderingWellFounded, FS_FiniteSubsetsOfFinite
<1>2. PICK T \in bad : \A U \in bad : <<U, T>> \notin StrictSubsetOrdering(S)
  BY <1>1, WFMin
<1>3. ASSUME NEW U \in bad, U \subseteq T PROVE U = T
  <2>1. <<U, T>> \in (SUBSET S) \X (SUBSET S)
    BY <1>2
  <2>2. <<U, T>>[1] = U /\ <<U, T>>[2] = T
    OBVIOUS
  <2> QED
    BY <1>2, <1>3, <2>1, <2>2 DEF StrictSubsetOrdering
<1> QED
  BY <1>2, <1>3

(* The marks of one element are as many as its number says.                *)
LEMMA MarksOfOne ==
    ASSUME NEW x, NEW n \in Nat
    PROVE  /\ IsFiniteSet({x} \X (1 .. n))
           /\ Cardinality({x} \X (1 .. n)) = n
<1>1. IsFiniteSet({x}) /\ Cardinality({x}) = 1
  BY FS_Singleton
<1>2. IsFiniteSet(1 .. n) /\ Cardinality(1 .. n) = n
  BY FS_Interval
<1>3. /\ IsFiniteSet({x} \X (1 .. n))
      /\ Cardinality({x} \X (1 .. n)) = Cardinality({x}) * Cardinality(1 .. n)
  BY <1>1, <1>2, FS_Product, Zenon
<1> QED
  BY <1>1, <1>2, <1>3

(* Taking an element out of the set takes its marks out.                   *)
LEMMA MarksWithout ==
    ASSUME NEW S, NEW f, NEW x \in S, f[x] \in Nat
    PROVE  /\ Marks(f, S) = Marks(f, S \ {x}) \cup ({x} \X (1 .. f[x]))
           /\ Marks(f, S \ {x}) \cap ({x} \X (1 .. f[x])) = {}
<1>1. ASSUME NEW p PROVE p \in Marks(f, S) <=>
            p \in Marks(f, S \ {x}) \/ p \in {x} \X (1 .. f[x])
  <2>1. CASE p \in Marks(f, S)
    BY <2>1 DEF Marks
  <2>2. CASE p \in Marks(f, S \ {x})
    BY <2>2 DEF Marks
  <2>3. CASE p \in {x} \X (1 .. f[x])
    BY <2>3 DEF Marks
  <2> QED
    BY <2>1, <2>2, <2>3
<1>2. ASSUME NEW p \in Marks(f, S \ {x}) PROVE p \notin {x} \X (1 .. f[x])
  BY <1>2 DEF Marks
<1> QED
  BY <1>1, <1>2

(* The marks of a finite set are finitely many.                            *)
LEMMA MarksFinite ==
    ASSUME NEW S, IsFiniteSet(S), NEW f, \A x \in S : f[x] \in Nat
    PROVE  IsFiniteSet(Marks(f, S))
<1> DEFINE bad == {T \in SUBSET S : ~IsFiniteSet(Marks(f, T))}
<1> SUFFICES ASSUME bad # {} PROVE FALSE
  OBVIOUS
<1>1. PICK T \in bad : \A U \in bad : U \subseteq T => U = T
  <2>1. bad \subseteq SUBSET S
    OBVIOUS
  <2> HIDE DEF bad
  <2> QED
    BY <2>1, LeastSubset
<1>2. CASE T = {}
  <2>1. Marks(f, {}) = {}
    BY DEF Marks
  <2> QED
    BY <1>1, <1>2, <2>1, FS_EmptySet
<1>3. CASE T # {}
  <2>1. PICK x \in T : TRUE
    BY <1>3
  <2>2. IsFiniteSet(Marks(f, T \ {x}))
    <3>1. T \ {x} \in SUBSET S /\ T \ {x} \subseteq T /\ T \ {x} # T
      BY <1>1, <2>1
    <3> QED
      BY <1>1, <3>1
  <2>3. f[x] \in Nat
    BY <1>1, <2>1
  <2>4. IsFiniteSet({x} \X (1 .. f[x]))
    BY <2>3, MarksOfOne
  <2>5. Marks(f, T) = Marks(f, T \ {x}) \cup ({x} \X (1 .. f[x]))
    BY <2>3, MarksWithout
  <2>6. IsFiniteSet(Marks(f, T \ {x}) \cup ({x} \X (1 .. f[x])))
    BY <2>2, <2>4, FS_Union, Zenon
  <2> QED
    BY <1>1, <2>5, <2>6
<1> QED
  BY <1>2, <1>3

(* The number of marks grows by the number of an element that is added.    *)
LEMMA MarksCount ==
    ASSUME NEW S, IsFiniteSet(S), NEW f, \A y \in S : f[y] \in Nat, NEW x \in S
    PROVE  /\ Cardinality(Marks(f, S)) \in Nat
           /\ Cardinality(Marks(f, S \ {x})) \in Nat
           /\ Cardinality(Marks(f, S)) = f[x] + Cardinality(Marks(f, S \ {x}))
<1>1. IsFiniteSet(Marks(f, S))
  BY MarksFinite
<1>2. IsFiniteSet(S \ {x}) /\ \A y \in S \ {x} : f[y] \in Nat
  BY FS_RemoveElement
<1>3. IsFiniteSet(Marks(f, S \ {x}))
  BY <1>2, MarksFinite
<1>4. /\ IsFiniteSet({x} \X (1 .. f[x]))
      /\ Cardinality({x} \X (1 .. f[x])) = f[x]
  BY MarksOfOne
<1>5. Cardinality(Marks(f, S)) \in Nat /\ Cardinality(Marks(f, S \ {x})) \in Nat
  BY <1>1, <1>3, FS_CardinalityType
<1>6. /\ Marks(f, S) = Marks(f, S \ {x}) \cup ({x} \X (1 .. f[x]))
      /\ Marks(f, S \ {x}) \cap ({x} \X (1 .. f[x])) = {}
  BY MarksWithout
<1>7. Cardinality(Marks(f, S \ {x}) \cup ({x} \X (1 .. f[x]))) =
         Cardinality(Marks(f, S \ {x})) + Cardinality({x} \X (1 .. f[x])) -
         Cardinality(Marks(f, S \ {x}) \cap ({x} \X (1 .. f[x])))
  BY <1>3, <1>4, FS_Union, Zenon
<1>8. Cardinality(Marks(f, S \ {x}) \cap ({x} \X (1 .. f[x]))) = 0
  BY <1>6, FS_EmptySet, Zenon
<1>9. Cardinality(Marks(f, S)) = Cardinality(Marks(f, S \ {x}) \cup ({x} \X (1 .. f[x])))
  BY <1>6, Zenon
<1> QED
  BY <1>4, <1>5, <1>7, <1>8, <1>9

(* The sum of the numbers f[x], for x in S.                                *)
SumOver(f, S) == SumFunctionOnSet(f, S)

(* The sum that the community modules compute by recursion is the number   *)
(* of marks.                                                               *)
THEOREM SumsAreCounts ==
    ASSUME NEW S, IsFiniteSet(S), NEW f, \A x \in S : f[x] \in Nat
    PROVE  SumOver(f, S) = Cardinality(Marks(f, S))
<1> DEFINE Pick(s) == CHOOSE x \in s : TRUE
           Step(g) == [s \in SUBSET S |->
                          IF s = {} THEN 0 ELSE f[Pick(s)] + g[s \ {Pick(s)}]]
           iter == CHOOSE g : g = Step(g)
           count == [s \in SUBSET S |-> Cardinality(Marks(f, s))]
<1>1. SumOver(f, S) = iter[S]
  BY DEF SumOver, SumFunctionOnSet, FoldFunctionOnSet, MapThenFoldSet
<1>2. \A s \in SUBSET S : /\ IsFiniteSet(s)
                          /\ \A x \in s : f[x] \in Nat
                          /\ s # {} => Pick(s) \in s
  BY FS_Subset
<1>3. Cardinality(Marks(f, {})) = 0
  <2>1. Marks(f, {}) = {}
    BY DEF Marks
  <2> QED
    BY <2>1, FS_EmptySet
<1>4. ASSUME NEW s \in SUBSET S, s # {}
      PROVE  Cardinality(Marks(f, s)) = f[Pick(s)] + Cardinality(Marks(f, s \ {Pick(s)}))
  <2>1. IsFiniteSet(s) /\ (\A x \in s : f[x] \in Nat) /\ Pick(s) \in s
    BY <1>2, <1>4
  <2> HIDE DEF Pick
  <2> QED
    BY <2>1, MarksCount
<1>5. count = Step(count)
  <2>1. \A s \in SUBSET S : s # {} => count[s \ {Pick(s)}] = Cardinality(Marks(f, s \ {Pick(s)}))
    OBVIOUS
  <2> QED
    BY <1>3, <1>4, <2>1
<1>6. iter = Step(iter)
  <2> HIDE DEF count, Step
  <2> QED
    BY <1>5
<1>7. \A s \in SUBSET S : iter[s] = Cardinality(Marks(f, s))
  <2> DEFINE bad == {s \in SUBSET S : iter[s] # Cardinality(Marks(f, s))}
  <2> SUFFICES ASSUME bad # {} PROVE FALSE
    OBVIOUS
  <2>1. PICK s \in bad : \A u \in bad : u \subseteq s => u = s
    <3>1. bad \subseteq SUBSET S
      OBVIOUS
    <3> HIDE DEF bad
    <3> QED
      BY <3>1, LeastSubset
  <2>2. iter[s] = IF s = {} THEN 0 ELSE f[Pick(s)] + iter[s \ {Pick(s)}]
    <3> HIDE DEF iter
    <3> QED
      BY <1>6, <2>1
  <2>3. CASE s = {}
    BY <1>3, <2>1, <2>2, <2>3
  <2>4. CASE s # {}
    <3>1. /\ s \ {Pick(s)} \in SUBSET S
          /\ s \ {Pick(s)} \subseteq s
          /\ s \ {Pick(s)} # s
      BY <1>2, <2>1, <2>4
    <3>2. iter[s \ {Pick(s)}] = Cardinality(Marks(f, s \ {Pick(s)}))
      <4> HIDE DEF iter, Pick
      <4> QED
        BY <2>1, <3>1
    <3>3. iter[s] = f[Pick(s)] + Cardinality(Marks(f, s \ {Pick(s)}))
      BY <2>2, <2>4, <3>2
    <3> QED
      BY <1>4, <2>1, <2>4, <3>3
  <2> QED
    BY <2>3, <2>4
<1> QED
  BY <1>1, <1>7

(* A sum of naturals is a natural ...                                      *)
LEMMA SumType ==
    ASSUME NEW S, IsFiniteSet(S), NEW f, \A x \in S : f[x] \in Nat
    PROVE  SumOver(f, S) \in Nat
<1>1. IsFiniteSet(Marks(f, S))
  BY MarksFinite
<1> QED
  BY <1>1, SumsAreCounts, FS_CardinalityType

(* ... and zero of nothing.                                                *)
LEMMA SumOfNothing ==
    ASSUME NEW f
    PROVE  SumOver(f, {}) = 0
<1>1. Marks(f, {}) = {}
  BY DEF Marks
<1>2. IsFiniteSet({}) /\ Cardinality({}) = 0
  BY FS_EmptySet
<1>3. SumOver(f, {}) = Cardinality(Marks(f, {}))
  BY <1>2, SumsAreCounts
<1> QED
  BY <1>1, <1>2, <1>3

(* One summand can be taken out.                                           *)
LEMMA SumWithout ==
    ASSUME NEW S, IsFiniteSet(S), NEW f, \A y \in S : f[y] \in Nat, NEW x \in S
    PROVE  SumOver(f, S) = f[x] + SumOver(f, S \ {x})
<1>1. IsFiniteSet(S \ {x}) /\ \A y \in S \ {x} : f[y] \in Nat
  BY FS_RemoveElement
<1>2. SumOver(f, S \ {x}) = Cardinality(Marks(f, S \ {x}))
  BY <1>1, SumsAreCounts
<1> QED
  BY <1>2, SumsAreCounts, MarksCount

(* Equal summands make equal sums.                                         *)
LEMMA SumSame ==
    ASSUME NEW S, IsFiniteSet(S), NEW f, NEW g,
           \A x \in S : f[x] \in Nat /\ g[x] = f[x]
    PROVE  SumOver(f, S) = SumOver(g, S)
<1>1. Marks(f, S) = Marks(g, S)
  BY DEF Marks
<1> QED
  BY <1>1, SumsAreCounts

(* If every element counts, the sum is no less than their number.          *)
LEMMA SumCountsAll ==
    ASSUME NEW S, IsFiniteSet(S), NEW f, \A x \in S : f[x] \in Nat /\ f[x] > 0
    PROVE  Cardinality(S) <= SumOver(f, S)
<1>1. IsFiniteSet(Marks(f, S))
  BY MarksFinite
<1>2. S \X {1} \subseteq Marks(f, S)
  BY DEF Marks
<1>3. IsFiniteSet({1}) /\ Cardinality({1}) = 1
  BY FS_Singleton
<1>4. Cardinality(S \X {1}) = Cardinality(S) * Cardinality({1}) /\ Cardinality(S) \in Nat
  BY <1>3, FS_Product, FS_CardinalityType, Zenon
<1>5. Cardinality(S \X {1}) <= Cardinality(Marks(f, S))
  BY <1>1, <1>2, FS_Subset
<1> QED
  BY <1>3, <1>4, <1>5, SumsAreCounts

-----------------------------------------------------------------------------
(* Folds over sequences.  FoldLeft of the community modules is a recursion *)
(* over the sets of a sequence's places that takes the greatest out each   *)
(* time.                                                                   *)

(* Induction, over a set in the place of a predicate: what 0 is in, and    *)
(* with every number the next, has all up to n.                            *)
LEMMA Inductive ==
    ASSUME NEW n \in Nat, NEW good, 0 \in good,
           \A k \in 1 .. n : k - 1 \in good => k \in good
    PROVE  \A k \in 0 .. n : k \in good
<1> DEFINE bad == {0 .. k : k \in {l \in 0 .. n : l \notin good}}
<1> SUFFICES ASSUME bad # {} PROVE FALSE
  OBVIOUS
<1> DEFINE Places == 0 .. n
<1>1. IsFiniteSet(Places)
  BY FS_Interval
<1>2. PICK T \in bad : \A U \in bad : U \subseteq T => U = T
  <2>1. bad \subseteq SUBSET Places
    OBVIOUS
  <2> HIDE DEF bad, Places
  <2> QED
    BY <1>1, <2>1, LeastSubset
<1>3. PICK k \in 0 .. n : k \notin good /\ T = 0 .. k
  BY <1>2
<1>4. k - 1 \in 0 .. n /\ k - 1 \notin good
  BY <1>3
<1>5. 0 .. (k - 1) \in bad /\ 0 .. (k - 1) \subseteq T /\ k \notin 0 .. (k - 1) /\ k \in T
  BY <1>3, <1>4
<1> QED
  BY <1>2, <1>5

(* The greatest of numbers up to k, if k is among them.                    *)
LEMMA GreatestIs ==
    ASSUME NEW k \in Nat, NEW s \in SUBSET (1 .. k), k \in s
    PROVE  Max(s) = k
<1>1. \A y \in s : k >= y
  OBVIOUS
<1>2. \E x \in s : \A y \in s : x >= y
  BY <1>1
<1>3. Max(s) \in s /\ \A y \in s : Max(s) >= y
  BY <1>2 DEF Max
<1>4. k \in Int /\ Max(s) \in Int
  <2>1. \A y \in s : y \in Int
    OBVIOUS
  <2> QED
    BY <1>3, <2>1
<1>5. k >= Max(s) /\ Max(s) >= k
  BY <1>1, <1>3
<1> HIDE DEF Max
<1> QED
  BY <1>4, <1>5

(* A function over the subsets of the places of a sequence, from which the *)
(* last is taken at a turn.                                                *)
IsFold(g, n, start, step) ==
    \A s \in SUBSET (1 .. n) :
        g[s] = IF s = {} THEN start ELSE step[<<g[s \ {Max(s)}], Max(s)>>]

(* The function FoldLeft is defined by, over subsets of the places of a    *)
(* sequence: it exists, as what it is for subsets of 1 .. k says what it is*)
(* for those of 1 .. k + 1.                                                *)
THEOREM FoldExists ==
    ASSUME NEW n \in Nat, NEW A, NEW start \in A, NEW step \in [A \X (1 .. n) -> A]
    PROVE  \E g \in [SUBSET (1 .. n) -> A] : IsFold(g, n, start, step)
<1> DEFINE Folds(k) ==
               {g \in [SUBSET (1 .. k) -> A] : \A s \in SUBSET (1 .. k) :
                    g[s] = IF s = {} THEN start ELSE step[<<g[s \ {Max(s)}], Max(s)>>]}
           good == {k \in 0 .. n : Folds(k) # {}}
<1>1. 0 \in good
  <2> DEFINE g == [s \in SUBSET (1 .. 0) |-> start]
  <2>1. 1 .. 0 = {}
    OBVIOUS
  <2>2. g \in Folds(0)
    BY <2>1
  <2>3. 0 \in 0 .. n
    OBVIOUS
  <2> HIDE DEF Folds
  <2> QED
    BY <2>2, <2>3
<1>2. ASSUME NEW k \in 1 .. n, k - 1 \in good PROVE k \in good
  <2>1. PICK g : g \in Folds(k - 1)
    BY <1>2
  <2>2. /\ g \in [SUBSET (1 .. (k - 1)) -> A]
        /\ \A s \in SUBSET (1 .. (k - 1)) :
               g[s] = IF s = {} THEN start ELSE step[<<g[s \ {Max(s)}], Max(s)>>]
    BY <2>1
  <2> DEFINE h == [s \in SUBSET (1 .. k) |->
                      IF k \in s THEN step[<<g[s \ {k}], k>>] ELSE g[s]]
  <2>3. ASSUME NEW s \in SUBSET (1 .. k)
        PROVE  /\ s \ {k} \in SUBSET (1 .. (k - 1))
               /\ k \notin s => s \in SUBSET (1 .. (k - 1)) /\ s = s \ {k}
    OBVIOUS
  <2>4. h \in [SUBSET (1 .. k) -> A]
    <3> SUFFICES ASSUME NEW s \in SUBSET (1 .. k)
                 PROVE  (IF k \in s THEN step[<<g[s \ {k}], k>>] ELSE g[s]) \in A
      OBVIOUS
    <3>1. g[s \ {k}] \in A /\ k \in 1 .. n
      BY <2>2, <2>3
    <3>2. <<g[s \ {k}], k>> \in A \X (1 .. n)
      BY <3>1
    <3> QED
      BY <2>3, <3>1, <3>2
  <2>5. ASSUME NEW s \in SUBSET (1 .. k)
        PROVE  h[s] = IF s = {} THEN start ELSE step[<<h[s \ {Max(s)}], Max(s)>>]
    <3>1. CASE k \in s
      <4>1. Max(s) = k
        BY <3>1, GreatestIs
      <4>2. h[s] = step[<<g[s \ {k}], k>>]
        BY <3>1
      <4>3. h[s \ {k}] = g[s \ {k}]
        BY <2>3
      <4> QED
        BY <3>1, <4>1, <4>2, <4>3
    <3>2. CASE k \notin s
      <4>1. h[s] = g[s]
        BY <3>2
      <4>2. h[s \ {Max(s)}] = g[s \ {Max(s)}]
        BY <3>2
      <4> HIDE DEF h
      <4> QED
        BY <2>2, <2>3, <3>2, <4>1, <4>2
    <3> QED
      BY <3>1, <3>2
  <2>6. h \in Folds(k)
    <3> HIDE DEF h
    <3> QED
      BY <2>4, <2>5
  <2>7. k \in 0 .. n
    OBVIOUS
  <2> HIDE DEF Folds, h
  <2> QED
    BY <2>6, <2>7
<1>3. n \in good
  <2> HIDE DEF good
  <2> QED
    BY <1>1, <1>2, Inductive
<1> QED
  BY <1>3 DEF IsFold

(* Some numbers up to n have a greatest.                                   *)
LEMMA HasGreatest ==
    ASSUME NEW n \in Nat, NEW s \in SUBSET (1 .. n), s # {}
    PROVE  Max(s) \in s
<1> DEFINE good == {k \in 0 .. n : \A u \in SUBSET (1 .. k) : u # {} => Max(u) \in u}
<1>1. 0 \in good
  <2>1. 1 .. 0 = {} /\ 0 \in 0 .. n
    OBVIOUS
  <2> QED
    BY <2>1
<1>2. ASSUME NEW k \in 1 .. n, k - 1 \in good PROVE k \in good
  <2>1. ASSUME NEW u \in SUBSET (1 .. k), u # {} PROVE Max(u) \in u
    <3>1. CASE k \in u
      BY <3>1, GreatestIs
    <3>2. CASE k \notin u
      <4>1. u \in SUBSET (1 .. (k - 1))
        BY <3>2
      <4> QED
        BY <1>2, <2>1, <4>1
    <3> QED
      BY <3>1, <3>2
  <2> QED
    BY <2>1
<1>3. n \in good
  <2> HIDE DEF good
  <2> QED
    BY <1>1, <1>2, Inductive
<1> QED
  BY <1>3

(* What a fold takes from all the places up to k is k.                     *)
LEMMA LastOfPlaces ==
    ASSUME NEW k \in Nat, k # 0
    PROVE  Max(1 .. k) = k /\ 1 .. k # {} /\ (1 .. k) \ {k} = 1 .. (k - 1)
<1>1. k \in 1 .. k /\ 1 .. k \in SUBSET (1 .. k)
  OBVIOUS
<1>2. Max(1 .. k) = k
  BY <1>1, GreatestIs
<1> QED
  BY <1>1, <1>2
=============================================================================
