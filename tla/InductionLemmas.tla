------------------------- MODULE InductionLemmas --------------------------
(***************************************************************************)
(* Induction over the naturals and over the subsets of a finite set, by a  *)
(* minimal counterexample of a well-founded order, and what follows for    *)
(* the sum of a function over a finite set as FiniteSetsExt computes it:   *)
(* it exists, bounds every summand and moves with them.                    *)
(***************************************************************************)
EXTENDS FiniteSetsExt, FiniteSetTheorems, TLAPS

\* The element a fold over T takes next.
First(T) == CHOOSE x \in T : TRUE

\* g is the sum of f over each set in D, by the recursion of MapThenSumSet.
SumsTo(g, f, D) ==
  g = [s \in D |-> IF s = {} THEN 0 ELSE f[First(s)] + g[s \ {First(s)}]]

\* A set that is not empty contains its first element.
LEMMA FirstIn == ASSUME NEW T, T # {} PROVE First(T) \in T
  BY DEF First

\* A set that contains zero and every successor of a member contains every
\* natural number.
LEMMA NatSetInduction ==
  ASSUME NEW C, 0 \in C, \A n \in Nat : n \in C => n + 1 \in C
  PROVE  \A n \in Nat : n \in C
<1> DEFINE Bad == {n \in Nat : n \notin C}
<1> SUFFICES ASSUME Bad # {} PROVE FALSE
  OBVIOUS
<1>0. Bad \subseteq Nat
  OBVIOUS
<1>1. PICK n \in Bad : \A m \in Bad : ~(<<m, n>> \in OpToRel(<, Nat))
  <2> HIDE DEF Bad
  <2> QED BY <1>0, NatLessThanWellFounded, WFMin
<1>2. \A m \in Bad : ~(m < n)
  BY <1>1 DEF OpToRel
<1>3. n # 0 /\ n - 1 \in Nat /\ n - 1 < n /\ n - 1 + 1 = n
  OBVIOUS
<1> QED
  BY <1>2, <1>3

\* A collection that contains the empty set, and every subset of S whose rest
\* it contains, contains every subset of the finite set S.
LEMMA SubsetInduction ==
  ASSUME NEW S, IsFiniteSet(S), NEW C, {} \in C,
         \A T \in SUBSET S : T # {} /\ T \ {First(T)} \in C => T \in C
  PROVE  \A T \in SUBSET S : T \in C
<1> DEFINE Bad == {T \in SUBSET S : T \notin C}
<1> SUFFICES ASSUME Bad # {} PROVE FALSE
  OBVIOUS
<1>1. Bad \subseteq FiniteSubsetsOf(S)
  BY FS_Subset DEF FiniteSubsetsOf
<1>2. IsWellFoundedOn(StrictSubsetOrdering(S), FiniteSubsetsOf(S))
  BY FS_StrictSubsetOrderingWellFounded
<1>3. PICK T \in Bad : \A U \in Bad : ~(<<U, T>> \in StrictSubsetOrdering(S))
  <2> HIDE DEF Bad
  <2> QED BY <1>1, <1>2, WFMin
<1>4. T # {} /\ T \in SUBSET S /\ First(T) \in T
  BY FirstIn
<1> DEFINE U == T \ {First(T)}
<1>5. U \in SUBSET S /\ U \subseteq T /\ U # T
  BY <1>4
<1>6. <<U, T>> \in StrictSubsetOrdering(S)
  BY <1>4, <1>5 DEF StrictSubsetOrdering
<1>7. U \in C
  BY <1>3, <1>5, <1>6
<1> QED
  BY <1>4, <1>7

\* The subsets of S with at most n elements.
Small(S, n) == {T \in SUBSET S : Cardinality(T) <= n}

\* The rest of a subset is smaller by one.
LEMMA SmallRest ==
  ASSUME NEW S, IsFiniteSet(S), NEW n \in Nat, NEW T \in Small(S, n + 1), T # {}
  PROVE  T \ {First(T)} \in Small(S, n)
<1>1. IsFiniteSet(T) /\ First(T) \in T
  BY FS_Subset, FirstIn DEF Small
<1>2. Cardinality(T \ {First(T)}) = Cardinality(T) - 1 /\ Cardinality(T) \in Nat
  BY <1>1, FS_RemoveElement, FS_CardinalityType
<1> QED
  BY <1>2 DEF Small

\* The recursion has a solution.
LEMMA SumExists ==
  ASSUME NEW S, IsFiniteSet(S), NEW f
  PROVE  \E g : SumsTo(g, f, SUBSET S)
<1> DEFINE C == {n \in Nat : \E g : SumsTo(g, f, Small(S, n))}
<1>1. 0 \in C
  <2>1. \A T \in Small(S, 0) : T = {}
    <3> TAKE T \in Small(S, 0)
    <3>1. IsFiniteSet(T) /\ Cardinality(T) \in Nat /\ Cardinality(T) <= 0
      BY FS_Subset, FS_CardinalityType DEF Small
    <3> QED BY <3>1, FS_EmptySet
  <2> DEFINE g == [s \in Small(S, 0) |-> 0]
  <2>2. SumsTo(g, f, Small(S, 0))
    BY <2>1 DEF SumsTo
  <2> QED BY <2>2
<1>2. ASSUME NEW n \in Nat, n \in C PROVE n + 1 \in C
  <2>1. PICK g : SumsTo(g, f, Small(S, n))
    BY <1>2
  <2> DEFINE h == [s \in Small(S, n + 1) |->
                     IF s = {} THEN 0 ELSE f[First(s)] + g[s \ {First(s)}]]
  <2>2. ASSUME NEW T \in Small(S, n), T \in Small(S, n + 1) PROVE h[T] = g[T]
    BY <2>1, <2>2 DEF SumsTo
  <2>3. ASSUME NEW T \in Small(S, n) PROVE T \in Small(S, n + 1)
    <3>1. Cardinality(T) \in Nat
      BY FS_Subset, FS_CardinalityType DEF Small
    <3> QED BY <3>1 DEF Small
  <2>4. \A T \in Small(S, n + 1) : T # {} => h[T \ {First(T)}] = g[T \ {First(T)}]
    BY <2>2, <2>3, SmallRest
  <2>5. SumsTo(h, f, Small(S, n + 1))
    BY <2>4 DEF SumsTo
  <2> QED BY <2>5
<1>3. Cardinality(S) \in C
  <2> HIDE DEF C
  <2> QED BY <1>1, <1>2, NatSetInduction, FS_CardinalityType
<1>4. Small(S, Cardinality(S)) = SUBSET S
  BY FS_Subset DEF Small
<1> QED
  BY <1>3, <1>4

\* Sums of natural numbers are natural, and none of the numbers exceeds them.
LEMMA SumBounds ==
  ASSUME NEW S, IsFiniteSet(S), NEW f \in [S -> Nat], NEW g,
         SumsTo(g, f, SUBSET S)
  PROVE  \A T \in SUBSET S : g[T] \in Nat /\ \A x \in T : f[x] <= g[T]
<1> DEFINE C == {T \in SUBSET S : g[T] \in Nat /\ \A x \in T : f[x] <= g[T]}
<1>1. {} \in C
  BY DEF SumsTo
<1>2. ASSUME NEW T \in SUBSET S, T # {}, T \ {First(T)} \in C PROVE T \in C
  <2>1. g[T] = f[First(T)] + g[T \ {First(T)}] /\ First(T) \in T
    BY <1>2, FirstIn DEF SumsTo
  <2>2. f[First(T)] \in Nat /\ g[T \ {First(T)}] \in Nat
    BY <1>2, <2>1
  <2>3. ASSUME NEW x \in T PROVE f[x] <= g[T]
    <3>1. f[x] \in Nat
      OBVIOUS
    <3>2. CASE x = First(T)
      BY <2>1, <2>2, <3>2
    <3>3. CASE x # First(T)
      <4>1. f[x] <= g[T \ {First(T)}]
        BY <1>2, <3>3
      <4> QED BY <2>1, <2>2, <3>1, <4>1
    <3> QED BY <3>2, <3>3
  <2>4. g[T] \in Nat
    BY <2>1, <2>2
  <2> QED BY <2>3, <2>4
<1>3. \A T \in SUBSET S : T \in C
  <2> HIDE DEF C
  <2> QED BY <1>1, <1>2, SubsetInduction
<1> QED
  BY <1>3

\* Changing one summand changes the sum by as much.
LEMMA SumUpdate ==
  ASSUME NEW S, IsFiniteSet(S), NEW f \in [S -> Nat], NEW e \in [S -> Nat],
         NEW r \in S, \A x \in S : x # r => e[x] = f[x],
         NEW g, SumsTo(g, f, SUBSET S), NEW h, SumsTo(h, e, SUBSET S)
  PROVE  h[S] = g[S] + (e[r] - f[r])
<1> DEFINE d(T) == IF r \in T THEN e[r] - f[r] ELSE 0
           C == {T \in SUBSET S : h[T] = g[T] + d(T)}
<1>1. {} \in C
  BY DEF SumsTo
<1>2. ASSUME NEW T \in SUBSET S, T # {}, T \ {First(T)} \in C PROVE T \in C
  <2> DEFINE x == First(T)
             U == T \ {x}
  <2>1. g[T] = f[x] + g[U] /\ h[T] = e[x] + h[U] /\ x \in T
    BY <1>2, FirstIn DEF SumsTo
  <2>2. f[x] \in Nat /\ e[x] \in Nat /\ g[U] \in Nat /\ h[U] \in Nat /\ f[r] \in Nat /\ e[r] \in Nat
    BY <2>1, SumBounds
  <2>3. h[U] = g[U] + d(U)
    BY <1>2
  <2>4. CASE x = r
    BY <2>1, <2>2, <2>3, <2>4
  <2>5. CASE x # r
    <3>1. e[x] = f[x] /\ d(T) = d(U)
      BY <2>1, <2>5
    <3>2. d(U) \in Int
      BY <2>2
    <3> HIDE DEF d
    <3> QED BY <2>1, <2>2, <2>3, <3>1, <3>2
  <2> QED BY <2>4, <2>5
<1>3. \A T \in SUBSET S : T \in C
  <2> HIDE DEF C
  <2> QED BY <1>1, <1>2, SubsetInduction
<1> QED
  BY <1>3

\* The sum of f over S.
Total(f, S) == (CHOOSE g : SumsTo(g, f, SUBSET S))[S]

\* Total is what the recursion computes.
LEMMA TotalSums ==
  ASSUME NEW S, IsFiniteSet(S), NEW f
  PROVE  \E g : SumsTo(g, f, SUBSET S) /\ Total(f, S) = g[S]
<1>1. SumsTo(CHOOSE g : SumsTo(g, f, SUBSET S), f, SUBSET S)
  <2> DEFINE P(g) == SumsTo(g, f, SUBSET S)
  <2>1. \E g : P(g)
    BY SumExists
  <2> HIDE DEF P
  <2>2. P(CHOOSE g : P(g))
    BY <2>1
  <2> QED BY <2>2 DEF P
<1> QED BY <1>1 DEF Total

\* A total of natural numbers is natural and bounds each of them.
LEMMA TotalBounds ==
  ASSUME NEW S, IsFiniteSet(S), NEW f \in [S -> Nat]
  PROVE  Total(f, S) \in Nat /\ \A x \in S : f[x] <= Total(f, S)
<1>1. PICK g : SumsTo(g, f, SUBSET S) /\ Total(f, S) = g[S]
  BY TotalSums
<1>2. S \in SUBSET S
  OBVIOUS
<1>3. g[S] \in Nat /\ \A x \in S : f[x] <= g[S]
  BY <1>1, <1>2, SumBounds
<1> QED BY <1>1, <1>3

\* A total changes by what its one changed summand changes.
LEMMA TotalUpdate ==
  ASSUME NEW S, IsFiniteSet(S), NEW f \in [S -> Nat], NEW e \in [S -> Nat],
         NEW r \in S, \A x \in S : x # r => e[x] = f[x]
  PROVE  Total(e, S) = Total(f, S) + (e[r] - f[r])
<1>1. PICK g : SumsTo(g, f, SUBSET S) /\ Total(f, S) = g[S]
  BY TotalSums
<1>2. PICK h : SumsTo(h, e, SUBSET S) /\ Total(e, S) = h[S]
  BY TotalSums
<1>3. h[S] = g[S] + (e[r] - f[r])
  BY <1>1, <1>2, SumUpdate
<1> QED BY <1>1, <1>2, <1>3

\* Nothing but zeros add up to zero.
LEMMA TotalZero ==
  ASSUME NEW S, IsFiniteSet(S), NEW f, \A x \in S : f[x] = 0
  PROVE  Total(f, S) = 0
<1>1. PICK g : SumsTo(g, f, SUBSET S) /\ Total(f, S) = g[S]
  BY TotalSums
<1> DEFINE C == {T \in SUBSET S : g[T] = 0}
<1>2. {} \in C
  BY <1>1 DEF SumsTo
<1>3. ASSUME NEW T \in SUBSET S, T # {}, T \ {First(T)} \in C PROVE T \in C
  <2>1. g[T] = f[First(T)] + g[T \ {First(T)}] /\ First(T) \in T
    BY <1>1, <1>3, FirstIn DEF SumsTo
  <2> QED BY <1>3, <2>1
<1>4. \A T \in SUBSET S : T \in C
  <2> HIDE DEF C
  <2> QED BY <1>2, <1>3, SubsetInduction
<1> QED BY <1>1, <1>4

-----------------------------------------------------------------------------
(* Folds over a sequence: FoldLeft recurses on the sets of indices, taking *)
(* the largest index off.                                                  *)

\* A set of positions that is not empty has a largest one.
LEMMA MaxIn ==
  ASSUME NEW n \in Nat, NEW T \in SUBSET (1..n), T # {}
  PROVE  Max(T) \in T /\ \A x \in T : x <= Max(T)
<1> DEFINE C == {m \in Nat : \A U \in SUBSET (1..m) : U # {} => \E x \in U : \A y \in U : x >= y}
<1>1. 0 \in C
  <2>1. 1..0 = {}
    OBVIOUS
  <2> QED
    BY <2>1
<1>2. ASSUME NEW m \in Nat, m \in C PROVE m + 1 \in C
  <2> SUFFICES ASSUME NEW U \in SUBSET (1..(m + 1)), U # {}
               PROVE  \E x \in U : \A y \in U : x >= y
    OBVIOUS
  <2>1. CASE m + 1 \in U
    BY <2>1
  <2>2. CASE m + 1 \notin U
    BY <1>2, <2>2
  <2> QED
    BY <2>1, <2>2
<1>3. n \in C
  <2> HIDE DEF C
  <2> QED
    BY <1>1, <1>2, NatSetInduction
<1>4. \E x \in T : \A y \in T : x >= y
  BY <1>3
<1> QED
  BY <1>4 DEF Max

\* The largest position of a segment, and what is left without it.
LEMMA MaxSegment ==
  ASSUME NEW i \in Nat, i # 0
  PROVE  Max(1..i) = i /\ (1..i) \ {i} = 1..(i - 1) /\ 1..i # {}
<1>0. 1..i \in SUBSET (1..i) /\ i \in 1..i
  OBVIOUS
<1>1. Max(1..i) \in 1..i /\ \A x \in 1..i : x <= Max(1..i)
  BY <1>0, MaxIn
<1> QED
  BY <1>1

\* g is the solution, with values in V, of a recursion that takes the largest
\* position off.
FoldsTo(g, n, V, base, F) ==
  /\ g \in [SUBSET (1..n) -> V]
  /\ \A T \in SUBSET (1..n) :
       g[T] = IF T = {} THEN base ELSE F[<<Max(T), g[T \ {Max(T)}]>>]

\* It exists.
LEMMA FoldExists ==
  ASSUME NEW n \in Nat, NEW V, NEW base \in V, NEW F \in [(1..n) \X V -> V]
  PROVE  \E g : FoldsTo(g, n, V, base, F)
<1> DEFINE Sets(m) == {T \in SUBSET (1..n) : \A x \in T : x <= m}
           Works(g, m) == /\ g \in [Sets(m) -> V]
                          /\ \A T \in Sets(m) :
                               g[T] = IF T = {} THEN base ELSE F[<<Max(T), g[T \ {Max(T)}]>>]
           C == {m \in Nat : \E g : Works(g, m)}
<1>1. 0 \in C
  <2>1. \A T \in Sets(0) : T = {}
    OBVIOUS
  <2> DEFINE g == [T \in Sets(0) |-> base]
  <2>2. Works(g, 0)
    BY <2>1
  <2> QED
    BY <2>2
<1>2. ASSUME NEW m \in Nat, m \in C PROVE m + 1 \in C
  <2>1. PICK g : Works(g, m)
    BY <1>2
  <2> DEFINE h == [T \in Sets(m + 1) |->
                     IF T = {} THEN base ELSE F[<<Max(T), g[T \ {Max(T)}]>>]]
  <2>2. ASSUME NEW T \in Sets(m + 1), T # {}
        PROVE  /\ T \ {Max(T)} \in Sets(m) /\ Max(T) \in 1..n
               /\ T \ {Max(T)} \in Sets(m + 1)
    <3>1. Max(T) \in T /\ \A x \in T : x <= Max(T)
      BY <2>2, MaxIn
    <3>2. Max(T) \in 1..n /\ Max(T) <= m + 1
      BY <3>1
    <3>3. ASSUME NEW x \in T \ {Max(T)} PROVE x <= m /\ x <= m + 1
      <4>1. x \in 1..n /\ x <= Max(T) /\ x # Max(T)
        BY <3>1
      <4> QED
        BY <3>2, <4>1
    <3>4. T \ {Max(T)} \in SUBSET (1..n)
      OBVIOUS
    <3> QED
      BY <3>2, <3>3, <3>4
  <2>3. ASSUME NEW T \in Sets(m) PROVE T \in Sets(m + 1) /\ h[T] = g[T]
    <3>1. T \in Sets(m + 1)
      OBVIOUS
    <3> QED
      BY <2>1, <3>1
  <2>4. h \in [Sets(m + 1) -> V]
    <3>1. ASSUME NEW T \in Sets(m + 1), T # {}
          PROVE  F[<<Max(T), g[T \ {Max(T)}]>>] \in V
      BY <2>1, <2>2, <3>1
    <3> HIDE DEF Sets
    <3> QED
      BY <3>1
  <2>5. \A T \in Sets(m + 1) :
          h[T] = IF T = {} THEN base ELSE F[<<Max(T), h[T \ {Max(T)}]>>]
    <3> HIDE DEF Sets
    <3> QED
      BY <2>2, <2>3
  <2>6. Works(h, m + 1)
    BY <2>4, <2>5
  <2> HIDE DEF Works, h
  <2> QED
    BY <2>6
<1>3. n \in C
  <2> HIDE DEF C
  <2> QED
    BY <1>1, <1>2, NatSetInduction
<1>4. Sets(n) = SUBSET (1..n)
  OBVIOUS
<1>5. PICK g : Works(g, n)
  BY <1>3
<1>6. FoldsTo(g, n, V, base, F)
  BY <1>4, <1>5 DEF FoldsTo
<1> QED
  BY <1>6

\* What holds of the fold of nothing, and of each longer segment when it holds
\* of the one before, holds of the fold of every segment.
LEMMA SegmentInduction ==
  ASSUME NEW n \in Nat, NEW V, NEW g, g[{}] \in V,
         \A i \in 1..n : g[1..(i - 1)] \in V => g[1..i] \in V
  PROVE  \A i \in 0..n : g[1..i] \in V
<1> DEFINE C == {i \in Nat : i <= n => g[1..i] \in V}
<1>1. 0 \in C
  <2>1. 1..0 = {}
    OBVIOUS
  <2> QED
    BY <2>1
<1>2. ASSUME NEW i \in Nat, i \in C PROVE i + 1 \in C
  <2>1. CASE i + 1 <= n
    <3>1. i + 1 \in 1..n /\ (i + 1) - 1 = i /\ g[1..i] \in V
      BY <1>2, <2>1
    <3> QED
      BY <3>1
  <2> QED
    BY <2>1
<1>3. \A i \in Nat : i \in C
  <2> HIDE DEF C
  <2> QED
    BY <1>1, <1>2, NatSetInduction
<1> QED
  BY <1>3

\* What holds at zero, and at each number when it holds at the one before, holds
\* up to n.
LEMMA UpTo ==
  ASSUME NEW n \in Nat, NEW C, 0 \in C, \A i \in 1..n : i - 1 \in C => i \in C
  PROVE  \A i \in 0..n : i \in C
<1> DEFINE B == {i \in Nat : i <= n => i \in C}
<1>1. 0 \in B
  OBVIOUS
<1>2. ASSUME NEW i \in Nat, i \in B PROVE i + 1 \in B
  <2>1. CASE i + 1 <= n
    <3>1. i + 1 \in 1..n /\ (i + 1) - 1 = i /\ i \in C
      BY <1>2, <2>1
    <3> QED
      BY <3>1
  <2> QED
    BY <2>1
<1>3. \A i \in Nat : i \in B
  <2> HIDE DEF B
  <2> QED
    BY <1>1, <1>2, NatSetInduction
<1> QED
  BY <1>3

\* p goes from base through the steps F.
Traces(p, n, V, base, F) ==
  /\ p \in [0..n -> V] /\ p[0] = base
  /\ \A i \in 1..n : p[i] = F[<<i, p[i - 1]>>]

\* A recursion over 0..n has a solution.
LEMMA TraceExists ==
  ASSUME NEW n \in Nat, NEW V, NEW base \in V, NEW F \in [(1..n) \X V -> V]
  PROVE  \E p : Traces(p, n, V, base, F)
<1>1. PICK g : FoldsTo(g, n, V, base, F)
  BY FoldExists
<1> DEFINE p == [i \in 0..n |-> g[1..i]]
<1>2. ASSUME NEW i \in 0..n PROVE g[1..i] \in V
  <2>1. 1..i \in SUBSET (1..n)
    OBVIOUS
  <2> QED
    BY <1>1, <2>1 DEF FoldsTo
<1>3. p[0] = base
  <2>1. 1..0 = {} /\ 0 \in 0..n /\ {} \in SUBSET (1..n)
    OBVIOUS
  <2> QED
    BY <1>1, <2>1 DEF FoldsTo
<1>4. ASSUME NEW i \in 1..n PROVE p[i] = F[<<i, p[i - 1]>>]
  <2>1. 1..i \in SUBSET (1..n) /\ i \in Nat /\ i # 0 /\ i \in 0..n /\ i - 1 \in 0..n
    OBVIOUS
  <2>2. Max(1..i) = i /\ (1..i) \ {i} = 1..(i - 1) /\ 1..i # {}
    BY <2>1, MaxSegment
  <2> QED
    BY <1>1, <2>1, <2>2 DEF FoldsTo
<1>5. Traces(p, n, V, base, F)
  BY <1>2, <1>3, <1>4 DEF Traces
<1> QED
  BY <1>5
=============================================================================
