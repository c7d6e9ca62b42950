---------------------------- MODULE SumTheorems ----------------------------
(***************************************************************************)
(* Laws of sums over a finite set, as the library's module Functions       *)
(* defines them: what the accounts of a bank hold together (SagaProofs),   *)
(* and the racks of a Scrabble table (ScrabbleRoomProofs).                 *)
(*                                                                         *)
(* The library defines a sum by recursion on the subsets of its set.  That *)
(* the recursion has a solution, and what the solution is, are facts by    *)
(* induction on the size of a set.  The induction is made with sets: the   *)
(* sizes for which a law fails have no least element, so there are none.   *)
(*                                                                         *)
(* The last part is about the amounts that a column of cents keeps.        *)
(***************************************************************************)
EXTENDS Integers, FiniteSets, Functions, Money, FiniteSetTheorems,
        WellFoundedInduction, TLAPS

\* The summand that the recursion takes first.
Pick(s) == CHOOSE x \in s : TRUE

\* g is a solution of the recursion for the sum of f over S.
IsSum(f, S, g) ==
  g = [s \in SUBSET S |->
         IF s = {} THEN 0 ELSE f[Pick(s)] + g[s \ {Pick(s)}]]

\* The sum of the library is the value at S of a chosen solution.
LEMMA SumDef ==
  ASSUME NEW f, NEW S
  PROVE SumFunctionOnSet(f, S) = (CHOOSE g : IsSum(f, S, g))[S]
BY DEF SumFunctionOnSet, FoldFunctionOnSet, MapThenFoldSet, IsSum, Pick

\* A set of natural numbers has a least element: the principle of induction.
LEMMA NatMin ==
  ASSUME NEW T \in SUBSET Nat, T # {}
  PROVE \E m \in T : \A k \in T : m <= k
<1> DEFINE R == {ss \in Nat \X Nat : ss[1] < ss[2]}
<1>1. IsWellFoundedOn(R, Nat)
  BY NatLessThanWellFounded, Zenon DEF OpToRel
<1>2. PICK m \in T : \A k \in T : ~(<<k, m>> \in R)
  BY <1>1, WFMin
<1>3. \A k \in T : ~(k < m)
  BY <1>2
<1> QED
  BY <1>3

\* The subsets of S with at most n elements.
Level(S, n) == {s \in SUBSET S : Cardinality(s) <= n}

\* g solves the recursion on these.
IsSumUpTo(f, S, n, g) ==
  g = [s \in Level(S, n) |->
         IF s = {} THEN 0 ELSE f[Pick(s)] + g[s \ {Pick(s)}]]

\* Without its first summand a set is smaller.
LEMMA PickProperties ==
  ASSUME NEW s, s # {}, IsFiniteSet(s)
  PROVE /\ Pick(s) \in s
        /\ IsFiniteSet(s \ {Pick(s)})
        /\ Cardinality(s) \in Nat /\ Cardinality(s \ {Pick(s)}) \in Nat
        /\ Cardinality(s \ {Pick(s)}) = Cardinality(s) - 1
<1>1. Pick(s) \in s
  BY DEF Pick
<1> QED
  BY <1>1, FS_RemoveElement, FS_CardinalityType

\* The recursion of the sum has a solution up to every size, by induction on
\* the size: the smallest one without a solution would have one.
LEMMA SumUpToExists ==
  ASSUME NEW f, NEW S, IsFiniteSet(S), NEW n \in Nat
  PROVE \E g : IsSumUpTo(f, S, n, g)
<1> DEFINE Bad == {k \in Nat : ~ \E g : IsSumUpTo(f, S, k, g)}
<1> SUFFICES ASSUME Bad # {} PROVE FALSE
  OBVIOUS
<1>1. PICK m \in Bad : \A k \in Bad : m <= k
  BY NatMin
<1>2. m \in Nat /\ ~ \E g : IsSumUpTo(f, S, m, g)
  OBVIOUS
<1>f. \A s \in SUBSET S : IsFiniteSet(s) /\ Cardinality(s) \in Nat
  BY FS_Subset, FS_CardinalityType
<1>3. CASE m = 0
  <2>1. \A s \in Level(S, 0) : s = {}
    BY <1>f, FS_EmptySet DEF Level
  <2>2. IsSumUpTo(f, S, 0, [s \in Level(S, 0) |-> 0])
    BY <2>1 DEF IsSumUpTo
  <2> QED
    BY <1>2, <1>3, <2>2
<1>4. CASE m > 0
  <2>1. m - 1 \in Nat /\ m - 1 \notin Bad
    BY <1>1, <1>2, <1>4
  <2>2. PICK h : IsSumUpTo(f, S, m - 1, h)
    BY <2>1
  <2> DEFINE g == [s \in Level(S, m) |->
                     IF s = {} THEN 0 ELSE f[Pick(s)] + h[s \ {Pick(s)}]]
  <2>3. ASSUME NEW s \in Level(S, m), s # {}
        PROVE g[s \ {Pick(s)}] = h[s \ {Pick(s)}]
    <3>1. s \ {Pick(s)} \in Level(S, m - 1) /\ s \ {Pick(s)} \in Level(S, m)
      BY <1>2, <1>f, <2>3, PickProperties DEF Level
    <3>2. h[s \ {Pick(s)}] = LET t == s \ {Pick(s)}
                             IN IF t = {} THEN 0 ELSE f[Pick(t)] + h[t \ {Pick(t)}]
      BY <2>2, <3>1 DEF IsSumUpTo
    <3> QED
      BY <3>1, <3>2
  <2>4. g = [s \in Level(S, m) |->
               IF s = {} THEN 0 ELSE f[Pick(s)] + g[s \ {Pick(s)}]]
    BY <2>3
  <2> HIDE DEF g
  <2> QED
    BY <1>2, <2>4 DEF IsSumUpTo
<1> QED
  BY <1>2, <1>3, <1>4

\* So it has a solution for the whole of a finite set.
LEMMA SumExists ==
  ASSUME NEW f, NEW S, IsFiniteSet(S)
  PROVE \E g : IsSum(f, S, g)
<1>1. Cardinality(S) \in Nat
  BY FS_CardinalityType
<1>2. Level(S, Cardinality(S)) = SUBSET S
  BY FS_Subset DEF Level
<1>3. PICK g : IsSumUpTo(f, S, Cardinality(S), g)
  BY <1>1, SumUpToExists
<1> QED
  BY <1>2, <1>3 DEF IsSum, IsSumUpTo

\* The sum is the value of some solution of its recursion.
LEMMA SumIs ==
  ASSUME NEW f, NEW S, IsFiniteSet(S)
  PROVE \E g : IsSum(f, S, g) /\ SumFunctionOnSet(f, S) = g[S]
<1>1. IsSum(f, S, CHOOSE g : IsSum(f, S, g))
  BY SumExists
<1> QED
  BY <1>1, SumDef

\* What the recursion says of one set.
LEMMA SumStep ==
  ASSUME NEW f, NEW S, NEW g, IsSum(f, S, g), NEW s \in SUBSET S
  PROVE g[s] = IF s = {} THEN 0 ELSE f[Pick(s)] + g[s \ {Pick(s)}]
BY DEF IsSum

\* Its values are integers, and the order of the summands does not matter.
LEMMA SumParts ==
  ASSUME NEW f, NEW S, IsFiniteSet(S), \A x \in S : f[x] \in Int,
         NEW g, IsSum(f, S, g), NEW n \in Nat
  PROVE \A s \in SUBSET S : Cardinality(s) = n =>
          /\ g[s] \in Int
          /\ \A x \in s : g[s] = f[x] + g[s \ {x}]
<1> DEFINE Good(s) == g[s] \in Int /\ \A x \in s : g[s] = f[x] + g[s \ {x}]
<1> DEFINE Bad == {k \in Nat : \E s \in SUBSET S : Cardinality(s) = k /\ ~Good(s)}
<1> SUFFICES ASSUME Bad # {} PROVE FALSE
  OBVIOUS
<1>1. PICK m \in Bad : \A k \in Bad : m <= k
  BY NatMin
<1>2. PICK s \in SUBSET S : Cardinality(s) = m /\ ~Good(s)
  OBVIOUS
<1>f. \A t \in SUBSET S : IsFiniteSet(t) /\ Cardinality(t) \in Nat
  BY FS_Subset, FS_CardinalityType
<1>3. \A t \in SUBSET S : Cardinality(t) < m => Good(t)
  BY <1>1, <1>f
<1> HIDE DEF Bad
<1>4. g[s] = IF s = {} THEN 0 ELSE f[Pick(s)] + g[s \ {Pick(s)}]
  BY SumStep
<1>5. CASE s = {}
  BY <1>2, <1>4, <1>5
<1>6. CASE s # {}
  <2> DEFINE c == Pick(s)
  <2>1. c \in s /\ g[s] = f[c] + g[s \ {c}] /\ f[c] \in Int
    BY <1>4, <1>6, <1>f, PickProperties
  <2>2. \A x \in s : /\ s \ {x} \in SUBSET S
                     /\ Cardinality(s \ {x}) < m
    BY <1>2, <1>f, FS_RemoveElement
  <2> HIDE DEF c
  <2>3. \A x \in s : Good(s \ {x})
    BY <1>3, <2>2
  <2>4. g[s] \in Int
    <3>1. g[s \ {c}] \in Int
      BY <2>1, <2>3
    <3> QED
      BY <2>1, <3>1
  <2>5. ASSUME NEW x \in s, x # c
        PROVE g[s] = f[x] + g[s \ {x}]
    <3>1. g[s \ {c}] = f[x] + g[(s \ {c}) \ {x}]
      BY <2>1, <2>3, <2>5
    <3>2. g[s \ {x}] = f[c] + g[(s \ {x}) \ {c}]
      BY <2>1, <2>3, <2>5
    <3>3. (s \ {c}) \ {x} = (s \ {x}) \ {c}
      OBVIOUS
    <3>4. f[x] \in Int /\ f[c] \in Int
      BY <2>1
    <3>5. g[(s \ {x}) \ {c}] \in Int
      <4>1. (s \ {x}) \ {c} \in SUBSET S /\ Cardinality((s \ {x}) \ {c}) < m
        <5>1. c \in s \ {x} /\ IsFiniteSet(s \ {x})
          BY <2>1, <2>2, <2>5, <1>f
        <5>2. Cardinality((s \ {x}) \ {c}) = Cardinality(s \ {x}) - 1
          BY <5>1, FS_RemoveElement
        <5>3. Cardinality(s \ {x}) \in Nat /\ Cardinality(s \ {x}) < m /\ m \in Nat
          BY <2>2, <1>f, <1>2
        <5> QED
          BY <5>2, <5>3
      <4> QED
        BY <1>3, <4>1
    <3>6. PICK a \in Int : a = g[(s \ {x}) \ {c}]
      BY <3>5
    <3>7. g[s \ {c}] = f[x] + a /\ g[s \ {x}] = f[c] + a
      BY <3>1, <3>2, <3>3, <3>6
    <3> QED
      BY <2>1, <3>4, <3>7
  <2> QED
    BY <1>2, <2>1, <2>4, <2>5
<1> QED
  BY <1>5, <1>6

\* Two sums of the same summands are equal, whatever sets they are part of.
LEMMA SumsAgree ==
  ASSUME NEW f1, NEW S1, IsFiniteSet(S1), NEW g1, IsSum(f1, S1, g1),
         NEW f2, NEW S2, NEW g2, IsSum(f2, S2, g2),
         NEW n \in Nat
  PROVE \A s \in SUBSET (S1 \cap S2) :
          Cardinality(s) = n /\ (\A x \in s : f1[x] = f2[x]) => g1[s] = g2[s]
<1> DEFINE Good(s) == (\A x \in s : f1[x] = f2[x]) => g1[s] = g2[s]
<1> DEFINE Bad == {k \in Nat : \E s \in SUBSET (S1 \cap S2) : Cardinality(s) = k /\ ~Good(s)}
<1> SUFFICES ASSUME Bad # {} PROVE FALSE
  OBVIOUS
<1>1. PICK m \in Bad : \A k \in Bad : m <= k
  BY NatMin
<1>2. PICK s \in SUBSET (S1 \cap S2) : Cardinality(s) = m /\ ~Good(s)
  OBVIOUS
<1>f. \A t \in SUBSET (S1 \cap S2) : IsFiniteSet(t) /\ Cardinality(t) \in Nat
  BY FS_Subset, FS_CardinalityType
<1>3. \A t \in SUBSET (S1 \cap S2) : Cardinality(t) < m => Good(t)
  BY <1>1, <1>f
<1> HIDE DEF Bad
<1>4. /\ g1[s] = IF s = {} THEN 0 ELSE f1[Pick(s)] + g1[s \ {Pick(s)}]
      /\ g2[s] = IF s = {} THEN 0 ELSE f2[Pick(s)] + g2[s \ {Pick(s)}]
  BY SumStep
<1>5. s # {}
  BY <1>2, <1>4
<1>6. /\ Pick(s) \in s /\ s \ {Pick(s)} \in SUBSET (S1 \cap S2)
      /\ Cardinality(s \ {Pick(s)}) < m
  BY <1>2, <1>5, <1>f, PickProperties
<1>7. Good(s \ {Pick(s)})
  BY <1>3, <1>6
<1> QED
  BY <1>2, <1>4, <1>5, <1>6, <1>7

-----------------------------------------------------------------------------
(* The laws of sums *)

\* Nothing adds up to zero.
LEMMA SumEmpty ==
  ASSUME NEW f
  PROVE SumFunctionOnSet(f, {}) = 0
<1>1. IsFiniteSet({})
  BY FS_EmptySet
<1>2. PICK g : IsSum(f, {}, g) /\ SumFunctionOnSet(f, {}) = g[{}]
  BY <1>1, SumIs
<1> QED
  BY <1>2, SumStep

\* The sum depends only on the summands.
LEMMA SumSame ==
  ASSUME NEW f, NEW h, NEW S, IsFiniteSet(S), \A x \in S : f[x] = h[x]
  PROVE SumFunctionOnSet(f, S) = SumFunctionOnSet(h, S)
<1>1. PICK g1 : IsSum(f, S, g1) /\ SumFunctionOnSet(f, S) = g1[S]
  BY SumIs
<1>2. PICK g2 : IsSum(h, S, g2) /\ SumFunctionOnSet(h, S) = g2[S]
  BY SumIs
<1>3. Cardinality(S) \in Nat /\ S \in SUBSET (S \cap S)
  BY FS_CardinalityType
<1>4. \A s \in SUBSET (S \cap S) :
        Cardinality(s) = Cardinality(S) /\ (\A x \in s : f[x] = h[x]) => g1[s] = g2[s]
  BY <1>1, <1>2, <1>3, SumsAgree
<1> QED
  BY <1>1, <1>2, <1>3, <1>4

\* A sum of integers is one.
LEMMA SumInt ==
  ASSUME NEW f, NEW S, IsFiniteSet(S), \A x \in S : f[x] \in Int
  PROVE SumFunctionOnSet(f, S) \in Int
<1>1. PICK g : IsSum(f, S, g) /\ SumFunctionOnSet(f, S) = g[S]
  BY SumIs
<1>2. Cardinality(S) \in Nat
  BY FS_CardinalityType
<1> QED
  BY <1>1, <1>2, SumParts

\* Any summand can be taken out.
LEMMA SumRemove ==
  ASSUME NEW f, NEW S, IsFiniteSet(S), \A x \in S : f[x] \in Int, NEW y \in S
  PROVE SumFunctionOnSet(f, S) = f[y] + SumFunctionOnSet(f, S \ {y})
<1>1. PICK g1 : IsSum(f, S, g1) /\ SumFunctionOnSet(f, S) = g1[S]
  BY SumIs
<1>2. Cardinality(S) \in Nat /\ IsFiniteSet(S \ {y}) /\ Cardinality(S \ {y}) \in Nat
  BY FS_CardinalityType, FS_RemoveElement
<1>3. PICK T : T = S \ {y}
  OBVIOUS
<1>4. PICK g2 : IsSum(f, T, g2) /\ SumFunctionOnSet(f, T) = g2[T]
  BY <1>2, <1>3, SumIs
<1>5. g1[S] = f[y] + g1[T]
  BY <1>1, <1>2, <1>3, SumParts
<1>6. g1[T] = g2[T]
  <2>1. T \in SUBSET (S \cap T) /\ Cardinality(T) \in Nat
    BY <1>2, <1>3
  <2>2. \A s \in SUBSET (S \cap T) :
          Cardinality(s) = Cardinality(T) /\ (\A x \in s : f[x] = f[x]) => g1[s] = g2[s]
    BY <1>1, <1>4, <2>1, SumsAgree
  <2> QED
    BY <2>1, <2>2
<1> QED
  BY <1>1, <1>3, <1>4, <1>5, <1>6

\* When one summand changes, the sum changes by as much.
LEMMA SumChange ==
  ASSUME NEW f, NEW h, NEW S, IsFiniteSet(S), NEW y \in S,
         \A x \in S : f[x] \in Int /\ h[x] \in Int,
         \A x \in S \ {y} : f[x] = h[x]
  PROVE SumFunctionOnSet(h, S) = SumFunctionOnSet(f, S) + h[y] - f[y]
<1>1. PICK T : T = S \ {y}
  OBVIOUS
<1>2. IsFiniteSet(T)
  BY <1>1, FS_RemoveElement
<1>3. SumFunctionOnSet(f, T) = SumFunctionOnSet(h, T) /\ SumFunctionOnSet(f, T) \in Int
  BY <1>1, <1>2, SumSame, SumInt
<1>4. /\ SumFunctionOnSet(f, S) = f[y] + SumFunctionOnSet(f, T)
      /\ SumFunctionOnSet(h, S) = h[y] + SumFunctionOnSet(h, T)
  BY <1>1, SumRemove
<1> QED
  BY <1>3, <1>4

\* A sum of integers over an index is an integer.
LEMMA SumUpTo ==
  ASSUME NEW f, NEW n \in Nat, \A i \in 1 .. n : f[i] \in Int
  PROVE SumFunctionOnSet(f, 1 .. n) \in Int
<1>1. IsFiniteSet(1 .. n)
  BY FS_Interval
<1> QED
  BY <1>1, SumInt

\* A sum over an index grows by its last summand.
LEMMA SumLast ==
  ASSUME NEW f, NEW n \in Nat, \A i \in 1 .. n + 1 : f[i] \in Int
  PROVE SumFunctionOnSet(f, 1 .. n + 1) = SumFunctionOnSet(f, 1 .. n) + f[n + 1]
<1>1. IsFiniteSet(1 .. n + 1) /\ IsFiniteSet(1 .. n)
  BY FS_Interval
<1>2. (1 .. n + 1) \ {n + 1} = 1 .. n /\ n + 1 \in 1 .. n + 1
  OBVIOUS
<1>3. SumFunctionOnSet(f, 1 .. n) \in Int
  BY <1>1, SumInt
<1>4. PICK S : S = 1 .. n + 1
  OBVIOUS
<1>5. IsFiniteSet(S) /\ (\A x \in S : f[x] \in Int) /\ n + 1 \in S
  BY <1>1, <1>4
<1>6. PICK T : T = S \ {n + 1}
  OBVIOUS
<1>7. T = 1 .. n /\ f[n + 1] \in Int
  BY <1>2, <1>4, <1>6
<1>8. SumFunctionOnSet(f, S) = f[n + 1] + SumFunctionOnSet(f, T)
  BY <1>5, <1>6, SumRemove
<1>9. SumFunctionOnSet(f, T) \in Int
  BY <1>3, <1>7
<1>10. SumFunctionOnSet(f, S) = SumFunctionOnSet(f, T) + f[n + 1]
  BY <1>7, <1>8, <1>9
<1> QED
  BY <1>4, <1>7, <1>10

\* A sum of natural numbers is one, and none of its summands is larger.
LEMMA SumNat ==
  ASSUME NEW f, NEW n \in Nat, \A i \in 1 .. n : f[i] \in Nat
  PROVE /\ SumFunctionOnSet(f, 1 .. n) \in Nat
        /\ \A i \in 1 .. n : f[i] <= SumFunctionOnSet(f, 1 .. n)
<1> DEFINE Good(k) == /\ SumFunctionOnSet(f, 1 .. k) \in Nat
                      /\ \A i \in 1 .. k : f[i] <= SumFunctionOnSet(f, 1 .. k)
<1> DEFINE Bad == {k \in 0 .. n : ~Good(k)}
<1> SUFFICES ASSUME Bad # {} PROVE FALSE
  OBVIOUS
<1>0. Bad \in SUBSET Nat
  OBVIOUS
<1>1. PICK m \in Bad : \A k \in Bad : m <= k
  <2> HIDE DEF Bad
  <2> QED
    BY <1>0, NatMin
<1>2. m # 0
  <2>1. 1 .. 0 = {}
    OBVIOUS
  <2>2. SumFunctionOnSet(f, 1 .. 0) = 0
    BY <2>1, SumEmpty
  <2> QED
    BY <2>1, <2>2
<1>3. PICK k \in 0 .. n - 1 : m = k + 1
  BY <1>2
<1>4. Good(k)
  BY <1>1, <1>3
<1>5. SumFunctionOnSet(f, 1 .. k + 1) = SumFunctionOnSet(f, 1 .. k) + f[k + 1]
  BY <1>3, SumLast
<1>6. f[k + 1] \in Nat
  BY <1>3
<1>7. Good(k + 1)
  BY <1>3, <1>4, <1>5, <1>6
<1> QED
  BY <1>3, <1>7

\* Without the summand at k, those behind it move up.
LEMMA SumShift ==
  ASSUME NEW f, NEW h, NEW n \in Nat, NEW k \in 1 .. n + 1,
         \A i \in 1 .. n + 1 : f[i] \in Int,
         \A i \in 1 .. n : h[i] = IF i < k THEN f[i] ELSE f[i + 1]
  PROVE SumFunctionOnSet(h, 1 .. n) = SumFunctionOnSet(f, 1 .. n + 1) - f[k]
<1> DEFINE Good(m) == SumFunctionOnSet(h, 1 .. m) = SumFunctionOnSet(f, 1 .. m + 1) - f[k]
<1> DEFINE Bad == {m \in k - 1 .. n : ~Good(m)}
<1> SUFFICES ASSUME Bad # {} PROVE FALSE
  OBVIOUS
<1>0. Bad \in SUBSET Nat
  OBVIOUS
<1>1. PICK m \in Bad : \A j \in Bad : m <= j
  <2> HIDE DEF Bad
  <2> QED
    BY <1>0, NatMin
<1>i. \A j \in 0 .. n : SumFunctionOnSet(f, 1 .. j) \in Int /\ SumFunctionOnSet(f, 1 .. j + 1) \in Int
  <2> SUFFICES ASSUME NEW j \in 0 .. n
               PROVE SumFunctionOnSet(f, 1 .. j) \in Int /\ SumFunctionOnSet(f, 1 .. j + 1) \in Int
    OBVIOUS
  <2>1. (\A x \in 1 .. j : f[x] \in Int) /\ (\A x \in 1 .. j + 1 : f[x] \in Int)
    OBVIOUS
  <2>2. j \in Nat /\ j + 1 \in Nat
    OBVIOUS
  <2> HIDE DEF Bad
  <2>3. PICK l \in Nat : l = j + 1
    BY <2>2
  <2> QED
    BY <2>1, <2>2, <2>3, SumUpTo
<1>2. m # k - 1
  <2>1. PICK j \in Nat : j = k - 1
    OBVIOUS
  <2>2. \A i \in 1 .. j : h[i] = f[i]
    BY <2>1
  <2>3. SumFunctionOnSet(h, 1 .. j) = SumFunctionOnSet(f, 1 .. j)
    <3>1. IsFiniteSet(1 .. j)
      BY FS_Interval
    <3> QED
      BY <2>2, <3>1, SumSame, SMTT(30)
  <2>4. SumFunctionOnSet(f, 1 .. j + 1) = SumFunctionOnSet(f, 1 .. j) + f[j + 1]
    BY <2>1, SumLast
  <2>5. SumFunctionOnSet(f, 1 .. j) \in Int /\ f[j + 1] \in Int /\ j + 1 = k
    BY <1>i, <2>1
  <2>6. Good(j)
    BY <2>3, <2>4, <2>5
  <2> QED
    BY <2>1, <2>6
<1>3. PICK j \in k - 1 .. n - 1 : m = j + 1 /\ j \in Nat
  BY <1>2
<1>4. Good(j)
  BY <1>1, <1>3
<1>5. SumFunctionOnSet(f, 1 .. (j + 1) + 1) = SumFunctionOnSet(f, 1 .. j + 1) + f[(j + 1) + 1]
  BY <1>3, SumLast
<1>6. ASSUME NEW i \in 1 .. j + 1 PROVE h[i] \in Int
  <2>1. i \in 1 .. n /\ i \in 1 .. n + 1 /\ i + 1 \in 1 .. n + 1
    BY <1>3
  <2>2. f[i] \in Int /\ f[i + 1] \in Int
    BY <2>1
  <2> QED
    BY <2>1, <2>2
<1>7. SumFunctionOnSet(h, 1 .. j + 1) = SumFunctionOnSet(h, 1 .. j) + h[j + 1]
  BY <1>3, <1>6, SumLast
<1>8. h[j + 1] = f[(j + 1) + 1] /\ f[(j + 1) + 1] \in Int /\ f[k] \in Int
  BY <1>3
<1>9. SumFunctionOnSet(f, 1 .. j + 1) \in Int
  BY <1>3, <1>i
<1>10. Good(j + 1)
  BY <1>4, <1>5, <1>7, <1>8, <1>9, SMTT(30)
<1> QED
  BY <1>3, <1>10

\* A sum of zeros is zero.
LEMMA SumZero ==
  ASSUME NEW S, IsFiniteSet(S), NEW f, \A x \in S : f[x] = 0
  PROVE  SumFunctionOnSet(f, S) = 0
<1> DEFINE Bad == {n \in Nat : \E T \in SUBSET S :
             IsFiniteSet(T) /\ Cardinality(T) = n /\ SumFunctionOnSet(f, T) # 0}
<1>1. SUFFICES Bad = {}
  BY <1>1, FS_CardinalityType
<1>2. SUFFICES ASSUME Bad # {} PROVE FALSE
  OBVIOUS
<1>3. \E m \in Bad : \A k \in Bad : m <= k
  BY <1>2, NatMin
<1> HIDE DEF Bad
<1>4. PICK m \in Bad : \A k \in Bad : m <= k
  BY <1>3
<1>5. PICK T \in SUBSET S :
        IsFiniteSet(T) /\ Cardinality(T) = m /\ m \in Nat /\ SumFunctionOnSet(f, T) # 0
  BY <1>4 DEF Bad
<1>6. T # {}
  BY <1>5, SumEmpty
<1>7. PICK x : x \in T
  BY <1>6
<1>8. PICK R : R = T \ {x}
  OBVIOUS
<1>9. IsFiniteSet(R) /\ Cardinality(R) = m - 1 /\ Cardinality(R) \in Nat /\ R \in SUBSET S
  BY <1>5, <1>7, <1>8, FS_RemoveElement, FS_CardinalityType
<1>10. SumFunctionOnSet(f, R) = 0
  <2>1. m - 1 \notin Bad
    BY <1>4, <1>5
  <2> QED
    BY <1>9, <2>1 DEF Bad
<1>11. SumFunctionOnSet(f, T) = f[x] + SumFunctionOnSet(f, R)
  <2>1. \A z \in T : f[z] \in Int
    BY <1>5
  <2> QED
    BY <1>5, <1>7, <1>8, <2>1, SumRemove
<1> QED
  BY <1>5, <1>7, <1>10, <1>11
\* A sum of smaller summands is smaller, by induction on the size of the set.
LEMMA SumOrder ==
  ASSUME NEW f, NEW h, NEW S, IsFiniteSet(S),
         \A x \in S : f[x] \in Int /\ h[x] \in Int /\ f[x] <= h[x]
  PROVE  SumFunctionOnSet(f, S) <= SumFunctionOnSet(h, S)
<1> DEFINE Bad == {n \in Nat : \E T \in SUBSET S : Cardinality(T) = n /\
                     ~(SumFunctionOnSet(f, T) <= SumFunctionOnSet(h, T))}
<1>1. \A T \in SUBSET S : IsFiniteSet(T) /\ Cardinality(T) \in Nat
  BY FS_Subset, FS_CardinalityType
<1>2. SUFFICES ASSUME Bad # {} PROVE FALSE
  BY <1>1
<1>3. PICK m \in Bad : \A k \in Bad : m <= k
  BY <1>2, NatMin
<1>4. PICK T \in SUBSET S : /\ Cardinality(T) = m
                            /\ ~(SumFunctionOnSet(f, T) <= SumFunctionOnSet(h, T))
  BY <1>3
<1>5. T # {}
  <2>1. SumFunctionOnSet(f, {}) = 0 /\ SumFunctionOnSet(h, {}) = 0
    BY SumEmpty
  <2> QED
    BY <1>4, <2>1
<1>6. PICK y \in T : TRUE
  BY <1>5
<1> DEFINE U == T \ {y}
<1>7. IsFiniteSet(T) /\ U \in SUBSET S /\ Cardinality(U) \in Nat /\ Cardinality(U) = m - 1
  BY <1>1, <1>4, <1>6, FS_RemoveElement
<1>8. m - 1 \in Nat /\ ~(m <= m - 1)
  BY <1>3, <1>7
<1>9. SumFunctionOnSet(f, U) <= SumFunctionOnSet(h, U)
  BY <1>3, <1>7, <1>8
<1>10. SumFunctionOnSet(f, T) = f[y] + SumFunctionOnSet(f, U)
       /\ SumFunctionOnSet(h, T) = h[y] + SumFunctionOnSet(h, U)
  BY <1>4, <1>6, <1>7, SumRemove
<1>11. SumFunctionOnSet(f, U) \in Int /\ SumFunctionOnSet(h, U) \in Int
  BY <1>1, <1>7, SumInt
<1> HIDE DEF U
<1>12. f[y] \in Int /\ h[y] \in Int /\ f[y] <= h[y]
  BY <1>4, <1>6
<1> QED
  BY <1>4, <1>9, <1>10, <1>11, <1>12

(***************************************************************************)
(* Sums of money in a column numeric(19, 2).                               *)
(***************************************************************************)

\* Division of natural numbers leaves a remainder smaller than the divisor.
LEMMA DivBounds ==
  ASSUME NEW a \in Nat, NEW b \in Nat \ {0}
  PROVE  /\ a \div b \in Nat
         /\ b * (a \div b) <= a
         /\ a < b * (a \div b) + b
  BY SMTT(30)

\* Of two multiples of a cent, the larger one is larger by a cent at least.
LEMMA WholeCents ==
  ASSUME NEW cent \in Nat \ {0}, NEW j \in Int, NEW k \in Int
  PROVE  /\ cent * j \in Int
         /\ cent * j < cent * k => cent * j + cent <= cent * k
<1>1. CASE j < k
  <2>1. cent * (j + 1) <= cent * k
    BY <1>1
  <2>2. cent * (j + 1) = cent * j + cent
    OBVIOUS
  <2> QED
    BY <2>1, <2>2
<1>2. CASE ~(j < k)
  <2>1. cent * k <= cent * j
    BY <1>2
  <2> QED
    BY <2>1
<1> QED
  BY <1>1, <1>2

\* What a column keeps of an amount that is not negative.
LEMMA NumericOfNat ==
  ASSUME NEW cent \in Nat \ {0}, NEW x \in Nat
  PROVE  \E k \in Nat : /\ ToNumeric(x, cent) = cent * k
                        /\ -cent < 2 * (cent * k - x)
                        /\ 2 * (cent * k - x) <= cent
<1>1. PICK a \in Nat : a = cent + 2 * x
  OBVIOUS
<1>2. PICK b \in Nat \ {0} : b = 2 * cent
  OBVIOUS
<1>3. PICK k \in Nat : k = a \div b
  BY DivBounds
<1>4. b * k <= a /\ a < b * k + b
  BY <1>3, DivBounds
<1>5. b * k = 2 * (cent * k)
  BY <1>2
<1>6. ToNumeric(x, cent) = cent * k
  BY <1>1, <1>2, <1>3 DEF ToNumeric
<1>7. PICK v \in Int : v = cent * k
  OBVIOUS
<1>8. -cent < 2 * (v - x) /\ 2 * (v - x) <= cent
  BY <1>1, <1>2, <1>4, <1>5, <1>7
<1> QED
  BY <1>6, <1>7, <1>8

\* A column treats debts as it treats credits.
LEMMA NumericOfDebt ==
  ASSUME NEW cent \in Nat \ {0}, NEW x \in Int, x < 0
  PROVE  ToNumeric(x, cent) = -ToNumeric(-x, cent)
<1>1. -x \in Int /\ ~(-x < 0) /\ cent + 2 * (-x) = cent - 2 * x
  OBVIOUS
<1> QED
  BY <1>1 DEF ToNumeric

\* What a column keeps of an amount: a number of whole cents, at most half a
\* cent away, and at the sign of the amount.
LEMMA NumericNear ==
  ASSUME NEW cent \in Nat \ {0}, NEW x \in Int
  PROVE  \E k \in Int : /\ ToNumeric(x, cent) = cent * k
                        /\ -cent <= 2 * (cent * k - x)
                        /\ 2 * (cent * k - x) <= cent
                        /\ x >= 0 => cent * k >= 0
<1>1. CASE x >= 0
  <2>0. x \in Nat
    BY <1>1
  <2>1. PICK k \in Nat : /\ ToNumeric(x, cent) = cent * k
                         /\ -cent < 2 * (cent * k - x)
                         /\ 2 * (cent * k - x) <= cent
    BY <2>0, NumericOfNat
  <2>2. cent * k >= 0
    OBVIOUS
  <2> QED
    BY <2>1, <2>2
<1>2. CASE x < 0
  <2>1. PICK n \in Nat : n = -x
    BY <1>2
  <2>2. PICK k \in Nat : /\ ToNumeric(n, cent) = cent * k
                         /\ -cent < 2 * (cent * k - n)
                         /\ 2 * (cent * k - n) <= cent
    BY NumericOfNat
  <2>3. ToNumeric(x, cent) = -(cent * k)
    BY <1>2, <2>1, <2>2, NumericOfDebt
  <2>4. PICK j \in Int : j = -k
    OBVIOUS
  <2>5. cent * j = -(cent * k)
    BY <2>4
  <2>6. PICK v \in Int : v = cent * k
    OBVIOUS
  <2>7. -cent <= 2 * ((-v) - x) /\ 2 * ((-v) - x) <= cent
    BY <2>1, <2>2, <2>6
  <2> QED
    BY <1>2, <2>3, <2>5, <2>6, <2>7
<1> QED
  BY <1>1, <1>2

\* Loading and storing again changes nothing more.
LEMMA NumericTwice ==
  ASSUME NEW cent \in Nat \ {0}, NEW x \in Int
  PROVE  /\ ToNumeric(x, cent) \in Int
         /\ ToNumeric(ToNumeric(x, cent), cent) = ToNumeric(x, cent)
<1>1. PICK j \in Int : ToNumeric(x, cent) = cent * j
  BY NumericNear
<1>2. PICK v \in Int : v = cent * j
  OBVIOUS
<1>3. PICK k \in Int : /\ ToNumeric(v, cent) = cent * k
                       /\ -cent <= 2 * (cent * k - v)
                       /\ 2 * (cent * k - v) <= cent
  BY NumericNear
<1>4. PICK w \in Int : w = cent * k
  OBVIOUS
<1>5. ~(v < w) /\ ~(w < v)
  <2>1. (v < w => v + cent <= w) /\ (w < v => w + cent <= v)
    BY <1>2, <1>4, WholeCents
  <2> QED
    BY <1>3, <1>4, <2>1
<1> QED
  BY <1>1, <1>2, <1>3, <1>4, <1>5

\* A column keeps the order of amounts.
LEMMA NumericMonotone ==
  ASSUME NEW cent \in Nat \ {0}, NEW x \in Int, NEW y \in Int, x <= y
  PROVE  ToNumeric(x, cent) <= ToNumeric(y, cent)

<1>1. ASSUME NEW a \in Nat, NEW b \in Nat, a <= b
      PROVE  ToNumeric(a, cent) <= ToNumeric(b, cent)
  <2>1. PICK j \in Nat : /\ ToNumeric(a, cent) = cent * j
                         /\ -cent < 2 * (cent * j - a)
                         /\ 2 * (cent * j - a) <= cent
    BY NumericOfNat
  <2>2. PICK k \in Nat : /\ ToNumeric(b, cent) = cent * k
                         /\ -cent < 2 * (cent * k - b)
                         /\ 2 * (cent * k - b) <= cent
    BY NumericOfNat
  <2>3. PICK v \in Int : v = cent * j
    OBVIOUS
  <2>4. PICK w \in Int : w = cent * k
    OBVIOUS
  <2>5. w < v => w + cent <= v
    BY <2>3, <2>4, WholeCents
  <2> QED
    BY <1>1, <2>1, <2>2, <2>3, <2>4, <2>5
<1>2. CASE x >= 0
  BY <1>1, <1>2
<1>3. CASE y < 0
  <2>1. PICK a \in Nat : a = -y
    BY <1>3
  <2>2. PICK b \in Nat : b = -x
    BY <1>3
  <2>3. ToNumeric(a, cent) <= ToNumeric(b, cent)
    BY <2>1, <2>2, <1>1
  <2>4. ToNumeric(x, cent) = -ToNumeric(b, cent) /\ ToNumeric(y, cent) = -ToNumeric(a, cent)
    BY <1>3, <2>1, <2>2, NumericOfDebt
  <2> QED
    BY <2>3, <2>4, NumericTwice
<1>4. CASE x < 0 /\ y >= 0
  <2>1. PICK b \in Nat : b = -x
    BY <1>4
  <2>2. ToNumeric(x, cent) = -ToNumeric(b, cent)
    BY <1>4, <2>1, NumericOfDebt
  <2>3. ToNumeric(b, cent) >= 0 /\ ToNumeric(y, cent) >= 0
    BY <1>4, NumericNear
  <2> QED
    BY <2>2, <2>3, NumericTwice
<1> QED
  BY <1>2, <1>3, <1>4
=============================================================================
