------------------------------ MODULE FoldLemmas ------------------------------
(****************************************************************************)
(* What the folds of the community modules compute, for the two shapes the      *)
(* specifications use: a sum over the elements of a finite set, and a run along  *)
(* a sequence.  Both are functions CHOOSEn to satisfy a recursive equation, so   *)
(* each lemma first shows that such a function exists.  Induction is used in the *)
(* form of sets: a set of numbers, or of subsets, that contains the first one    *)
(* and with each one the next contains them all.                                *)
(****************************************************************************)
EXTENDS Integers, FiniteSets, FiniteSetsExt, WellFoundedInduction, FiniteSetTheorems, TLAPS

-----------------------------------------------------------------------------
(* A set of natural numbers that is not empty has a least element, ...          *)
LEMMA LeastNat ==
  ASSUME NEW T \in SUBSET Nat, T # {}
  PROVE  \E x \in T : \A y \in T : x <= y
  <1>1. PICK x \in T : \A y \in T : <<y, x>> \notin OpToRel(<, Nat)
    BY WFMin, NatLessThanWellFounded
  <1>2. \A y \in T : ~(y < x)
    BY <1>1 DEF OpToRel
  <1> QED BY <1>2

(* ... so a set with 0 that is closed under successor has them all.             *)
LEMMA NatSetInduction ==
  ASSUME NEW T, 0 \in T, \A n \in Nat : n \in T => n + 1 \in T
  PROVE  Nat \subseteq T
  <1>1. SUFFICES ASSUME Nat \ T # {} PROVE FALSE
    OBVIOUS
  <1>2. PICK x \in Nat \ T : \A y \in Nat \ T : x <= y
    BY <1>1, LeastNat
  <1>3. x - 1 \in Nat
    BY <1>2
  <1>4. x - 1 \in T
    BY <1>2, <1>3
  <1> QED BY <1>2, <1>3, <1>4

-----------------------------------------------------------------------------
(* The element a sum takes out of a set next                                    *)
Pick(s) == CHOOSE x \in s : TRUE

(* The equation that defines the sum of v over the subsets of S                 *)
SumEquation(f, v, S) ==
  f = [s \in SUBSET S |-> IF s = {} THEN 0 ELSE v[Pick(s)] + f[s \ {Pick(s)}]]

LEMMA PickTakesOne ==
  ASSUME NEW S, IsFiniteSet(S), NEW s \in SUBSET S, s # {}
  PROVE  /\ Pick(s) \in s
         /\ s \ {Pick(s)} \in SUBSET S
         /\ IsFiniteSet(s)
         /\ Cardinality(s) \in Nat \ {0}
         /\ Cardinality(s \ {Pick(s)}) = Cardinality(s) - 1
  <1>1. Pick(s) \in s
    BY DEF Pick
  <1>2. IsFiniteSet(s)
    BY FS_Subset
  <1> QED BY <1>1, <1>2, FS_RemoveElement, FS_CardinalityType, FS_EmptySet

(* Whatever passes from a set without its picked element to the set itself holds *)
(* of every subset of a finite set.                                              *)
LEMMA SubsetInduction ==
  ASSUME NEW S, IsFiniteSet(S), NEW P, {} \in P,
         \A s \in SUBSET S : s # {} /\ s \ {Pick(s)} \in P => s \in P
  PROVE  SUBSET S \subseteq P
  <1> DEFINE T == {n \in Nat : \A s \in SUBSET S : Cardinality(s) = n => s \in P}
  <1>1. 0 \in T
    BY FS_Subset, FS_EmptySet
  <1>2. ASSUME NEW n \in Nat, n \in T
        PROVE  n + 1 \in T
    <2> SUFFICES ASSUME NEW s \in SUBSET S, Cardinality(s) = n + 1
                 PROVE  s \in P
      OBVIOUS
    <2>1. s # {}
      BY FS_EmptySet
    <2>2. s \ {Pick(s)} \in SUBSET S /\ Cardinality(s \ {Pick(s)}) = n
      BY <2>1, PickTakesOne
    <2> QED BY <1>2, <2>1, <2>2
  <1>3. Nat \subseteq T
    <2> HIDE DEF T
    <2> QED BY <1>1, <1>2, NatSetInduction
  <1>4. ASSUME NEW s \in SUBSET S
        PROVE  s \in P
    <2>1. Cardinality(s) \in Nat
      BY FS_Subset, FS_CardinalityType
    <2> QED BY <1>3, <2>1
  <1> QED BY <1>4

(* A function with the equation exists, ...                                      *)
LEMMA SumExists ==
  ASSUME NEW S, IsFiniteSet(S), NEW v \in [S -> Int]
  PROVE  \E f \in [SUBSET S -> Int] : SumEquation(f, v, S)
  <1> DEFINE Next(f) == [s \in SUBSET S |-> IF s = {} THEN 0 ELSE v[Pick(s)] + f[s \ {Pick(s)}]]
             UpTo(f, n) == \A s \in SUBSET S : Cardinality(s) <= n => f[s] = Next(f)[s]
             T == {n \in Nat : \E f \in [SUBSET S -> Int] : UpTo(f, n)}
  <1>0. ASSUME NEW f \in [SUBSET S -> Int]
        PROVE  Next(f) \in [SUBSET S -> Int]
    <2>1. ASSUME NEW s \in SUBSET S, s # {}
          PROVE  v[Pick(s)] + f[s \ {Pick(s)}] \in Int
      <3>1. Pick(s) \in S /\ s \ {Pick(s)} \in SUBSET S
        BY <2>1, PickTakesOne
      <3>2. v[Pick(s)] \in Int /\ f[s \ {Pick(s)}] \in Int
        BY <1>0, <3>1
      <3> QED BY <3>2
    <2> HIDE DEF Pick
    <2> QED BY <2>1
  <1>1. 0 \in T
    <2> DEFINE zero == [s \in SUBSET S |-> 0]
    <2>1. \A s \in SUBSET S : Cardinality(s) <= 0 => s = {}
      BY FS_Subset, FS_EmptySet, FS_CardinalityType
    <2>2. UpTo(zero, 0)
      BY <2>1
    <2>3. zero \in [SUBSET S -> Int]
      OBVIOUS
    <2> HIDE DEF UpTo, zero
    <2> QED BY <2>2, <2>3
  <1>2. ASSUME NEW n \in Nat, n \in T
        PROVE  n + 1 \in T
    <2>1. PICK f \in [SUBSET S -> Int] : UpTo(f, n)
      BY <1>2
    <2>2. Next(f) \in [SUBSET S -> Int]
      BY <1>0
    <2>3. ASSUME NEW s \in SUBSET S, Cardinality(s) <= n + 1
          PROVE  Next(f)[s] = Next(Next(f))[s]
      <3>1. CASE s = {}
        BY <3>1
      <3>2. CASE s # {}
        <4>1. s \ {Pick(s)} \in SUBSET S /\ Cardinality(s \ {Pick(s)}) <= n
          BY <2>3, <3>2, PickTakesOne
        <4>2. f[s \ {Pick(s)}] = Next(f)[s \ {Pick(s)}]
          BY <2>1, <4>1
        <4> QED BY <3>2, <4>2
      <3> QED BY <3>1, <3>2
    <2>4. UpTo(Next(f), n + 1)
      BY <2>3
    <2> QED
      <3> HIDE DEF UpTo, Next
      <3> QED BY <2>2, <2>4
  <1>3. Cardinality(S) \in T
    <2>1. Nat \subseteq T
      <3> HIDE DEF T
      <3> QED BY <1>1, <1>2, NatSetInduction
    <2> QED BY <2>1, FS_CardinalityType
  <1>4. PICK f \in [SUBSET S -> Int] : UpTo(f, Cardinality(S))
    BY <1>3
  <1>5. \A s \in SUBSET S : Cardinality(s) <= Cardinality(S)
    BY FS_Subset
  <1>6. \A s \in SUBSET S : f[s] = Next(f)[s]
    BY <1>4, <1>5
  <1>7. f = Next(f)
    BY <1>6
  <1> QED BY <1>7 DEF SumEquation

(* ... and the sum is one such function, evaluated at the whole set.             *)
LEMMA SumUnfolds ==
  ASSUME NEW S, IsFiniteSet(S), NEW v \in [S -> Int]
  PROVE  \E f \in [SUBSET S -> Int] :
           SumEquation(f, v, S) /\ MapThenSumSet(LAMBDA x : v[x], S) = f[S]
  <1> DEFINE iter == CHOOSE f : f = [s \in SUBSET S |->
                       IF s = {} THEN 0
                       ELSE v[CHOOSE x \in s : TRUE] + f[s \ {CHOOSE x \in s : TRUE}]]
  <1>1. MapThenSumSet(LAMBDA x : v[x], S) = iter[S]
    BY DEF MapThenSumSet, MapThenFoldSet
  <1>2. \E f : f = [s \in SUBSET S |->
                       IF s = {} THEN 0
                       ELSE v[CHOOSE x \in s : TRUE] + f[s \ {CHOOSE x \in s : TRUE}]]
    <2>1. PICK f \in [SUBSET S -> Int] : SumEquation(f, v, S)
      BY SumExists
    <2>2. f = [s \in SUBSET S |->
                 IF s = {} THEN 0
                 ELSE v[CHOOSE x \in s : TRUE] + f[s \ {CHOOSE x \in s : TRUE}]]
      BY <2>1 DEF SumEquation, Pick
    <2> QED BY <2>2
  <1>3. SumEquation(iter, v, S)
    BY <1>2 DEF SumEquation, Pick
  <1> HIDE DEF iter
  <1>4. \A s \in SUBSET S : iter[s] \in Int
    <2> DEFINE P == {s \in SUBSET S : iter[s] \in Int}
    <2>1. {} \in P
      BY <1>3 DEF SumEquation
    <2>2. ASSUME NEW s \in SUBSET S, s # {}, s \ {Pick(s)} \in P
          PROVE  s \in P
      <3>1. iter[s] = v[Pick(s)] + iter[s \ {Pick(s)}]
        BY <1>3, <2>2 DEF SumEquation
      <3>2. v[Pick(s)] \in Int
        BY <2>2, PickTakesOne
      <3> QED BY <2>2, <3>1, <3>2
    <2>3. SUBSET S \subseteq P
      <3> HIDE DEF P
      <3> QED BY <2>1, <2>2, SubsetInduction
    <2> QED BY <2>3
  <1>5. iter \in [SUBSET S -> Int]
    BY <1>3, <1>4 DEF SumEquation
  <1> QED BY <1>1, <1>3, <1>5

-----------------------------------------------------------------------------
(* A sum of integers is an integer, ...                                          *)
LEMMA SumIsInt ==
  ASSUME NEW S, IsFiniteSet(S), NEW v \in [S -> Int]
  PROVE  MapThenSumSet(LAMBDA x : v[x], S) \in Int
  <1>1. PICK f \in [SUBSET S -> Int] :
          SumEquation(f, v, S) /\ MapThenSumSet(LAMBDA x : v[x], S) = f[S]
    BY SumUnfolds
  <1>2. f[S] \in Int
    OBVIOUS
  <1> QED BY <1>1, <1>2

(* ... nothing but zeros sum to zero, ...                                         *)
LEMMA SumOfZeros ==
  ASSUME NEW S, IsFiniteSet(S), NEW v \in [S -> Int], \A x \in S : v[x] = 0
  PROVE  MapThenSumSet(LAMBDA x : v[x], S) = 0
  <1>1. PICK f \in [SUBSET S -> Int] :
          SumEquation(f, v, S) /\ MapThenSumSet(LAMBDA x : v[x], S) = f[S]
    BY SumUnfolds
  <1> DEFINE P == {s \in SUBSET S : f[s] = 0}
  <1>2. {} \in P
    BY <1>1 DEF SumEquation
  <1>3. ASSUME NEW s \in SUBSET S, s # {}, s \ {Pick(s)} \in P
        PROVE  s \in P
    <2>1. f[s] = v[Pick(s)] + f[s \ {Pick(s)}]
      BY <1>1, <1>3 DEF SumEquation
    <2>2. v[Pick(s)] = 0
      BY <1>3, PickTakesOne
    <2> QED BY <1>3, <2>1, <2>2
  <1>4. SUBSET S \subseteq P
    <2> HIDE DEF P
    <2> QED BY <1>2, <1>3, SubsetInduction
  <1> QED BY <1>1, <1>4

(* ... and when one term changes the sum changes by as much.                      *)
LEMMA SumChangesAtOne ==
  ASSUME NEW S, IsFiniteSet(S), NEW v \in [S -> Int], NEW w \in [S -> Int], NEW x \in S,
         \A y \in S : y # x => w[y] = v[y]
  PROVE  MapThenSumSet(LAMBDA y : w[y], S)
           = MapThenSumSet(LAMBDA y : v[y], S) + (w[x] - v[x])
  <1>1. PICK f \in [SUBSET S -> Int] :
          SumEquation(f, v, S) /\ MapThenSumSet(LAMBDA y : v[y], S) = f[S]
    BY SumUnfolds
  <1>2. PICK g \in [SUBSET S -> Int] :
          SumEquation(g, w, S) /\ MapThenSumSet(LAMBDA y : w[y], S) = g[S]
    BY SumUnfolds
  <1> DEFINE d == w[x] - v[x]
             P == {s \in SUBSET S : g[s] = f[s] + (IF x \in s THEN d ELSE 0)}
  <1>3. {} \in P
    BY <1>1, <1>2 DEF SumEquation
  <1>4. ASSUME NEW s \in SUBSET S, s # {}, s \ {Pick(s)} \in P
        PROVE  s \in P
    <2> DEFINE y == Pick(s)
               t == s \ {y}
    <2>1. y \in s /\ t \in SUBSET S
      BY <1>4, PickTakesOne
    <2>2. f[s] = v[y] + f[t] /\ g[s] = w[y] + g[t]
      BY <1>1, <1>2, <1>4 DEF SumEquation
    <2>3. /\ v[y] \in Int /\ w[y] \in Int /\ f[t] \in Int /\ g[t] \in Int
          /\ v[x] \in Int /\ w[x] \in Int
      BY <2>1
    <2>4. g[t] = f[t] + (IF x \in t THEN d ELSE 0)
      BY <1>4
    <2>5. CASE y = x
      BY <2>1, <2>2, <2>3, <2>4, <2>5
    <2>6. CASE y # x
      <3>1. w[y] = v[y] /\ (x \in t <=> x \in s)
        BY <2>1, <2>6
      <3> QED BY <2>1, <2>2, <2>3, <2>4, <3>1
    <2> QED BY <2>5, <2>6
  <1>5. SUBSET S \subseteq P
    <2> HIDE DEF P
    <2> QED BY <1>3, <1>4, SubsetInduction
  <1> QED BY <1>1, <1>2, <1>5
-----------------------------------------------------------------------------
(* The equation that defines a run of g along 1 .. n, from base                  *)
RunEquation(f, g, base, n) ==
  f = [s \in SUBSET (1 .. n) |-> IF s = {} THEN base ELSE g[<<Max(s), f[s \ {Max(s)}]>>]]

(* A set of numbers below a bound that is not empty has a greatest one, ...      *)
LEMMA MaxOfSome ==
  ASSUME NEW n \in Nat, NEW s \in SUBSET (1 .. n), s # {}
  PROVE  /\ Max(s) \in s
         /\ s \ {Max(s)} \in SUBSET (1 .. n)
         /\ IsFiniteSet(s)
         /\ Cardinality(s) \in Nat \ {0}
         /\ Cardinality(s \ {Max(s)}) = Cardinality(s) - 1
  <1> DEFINE T == {n - x : x \in s}
  <1>1. T \in SUBSET Nat /\ T # {}
    <2>1. \A x \in s : n - x \in Nat
      OBVIOUS
    <2> QED BY <2>1
  <1>2. PICK t \in T : \A u \in T : t <= u
    BY <1>1, LeastNat
  <1>3. PICK x \in s : t = n - x
    BY <1>2
  <1>4. \A y \in s : x >= y
    <2> TAKE y \in s
    <2>1. n - y \in T
      OBVIOUS
    <2>2. n - x <= n - y
      BY <1>2, <1>3, <2>1
    <2> QED BY <2>2
  <1>5. Max(s) \in s
    BY <1>4 DEF Max
  <1>6. IsFiniteSet(s)
    <2>1. IsFiniteSet(1 .. n)
      BY FS_Interval
    <2> QED BY <2>1, FS_Subset
  <1> QED BY <1>5, <1>6, FS_RemoveElement, FS_CardinalityType, FS_EmptySet

(* ... which is n for all of them.                                               *)
LEMMA MaxOfPrefix ==
  ASSUME NEW i \in Nat \ {0}
  PROVE  Max(1 .. i) = i /\ (1 .. i) \ {i} = 1 .. (i - 1)
  <1>1. i \in 1 .. i /\ \A y \in 1 .. i : i >= y
    OBVIOUS
  <1>2. \A x \in 1 .. i : (\A y \in 1 .. i : x >= y) => x = i
    BY <1>1
  <1>3. Max(1 .. i) = i
    BY <1>1, <1>2 DEF Max
  <1> QED BY <1>3

(* A run exists, ...                                                             *)
LEMMA RunExists ==
  ASSUME NEW n \in Nat, NEW V, NEW base \in V, NEW g \in [(1 .. n) \X V -> V]
  PROVE  \E f \in [SUBSET (1 .. n) -> V] : RunEquation(f, g, base, n)
  <1> DEFINE S == 1 .. n
             Next(f) == [s \in SUBSET S |-> IF s = {} THEN base ELSE g[<<Max(s), f[s \ {Max(s)}]>>]]
             UpTo(f, k) == \A s \in SUBSET S : Cardinality(s) <= k => f[s] = Next(f)[s]
             T == {k \in Nat : \E f \in [SUBSET S -> V] : UpTo(f, k)}
  <1>f. IsFiniteSet(S)
    BY FS_Interval
  <1>0. ASSUME NEW f \in [SUBSET S -> V]
        PROVE  Next(f) \in [SUBSET S -> V]
    <2>1. ASSUME NEW s \in SUBSET S, s # {}
          PROVE  g[<<Max(s), f[s \ {Max(s)}]>>] \in V
      <3>1. Max(s) \in S /\ s \ {Max(s)} \in SUBSET S
        BY <2>1, MaxOfSome
      <3>2. <<Max(s), f[s \ {Max(s)}]>> \in (1 .. n) \X V
        BY <1>0, <3>1
      <3> QED BY <3>2
    <2> QED BY <2>1
  <1>1. 0 \in T
    <2> DEFINE start == [s \in SUBSET S |-> base]
    <2>1. ASSUME NEW s \in SUBSET S, Cardinality(s) <= 0
          PROVE  s = {}
      <3>1. s # {} => Cardinality(s) \in Nat \ {0}
        BY MaxOfSome
      <3> QED BY <2>1, <3>1
    <2>2. UpTo(start, 0)
      BY <2>1
    <2>3. start \in [SUBSET S -> V]
      OBVIOUS
    <2> HIDE DEF UpTo, start
    <2> QED BY <2>2, <2>3
  <1>2. ASSUME NEW k \in Nat, k \in T
        PROVE  k + 1 \in T
    <2>1. PICK f \in [SUBSET S -> V] : UpTo(f, k)
      BY <1>2
    <2>2. Next(f) \in [SUBSET S -> V]
      BY <1>0
    <2>3. ASSUME NEW s \in SUBSET S, Cardinality(s) <= k + 1
          PROVE  Next(f)[s] = Next(Next(f))[s]
      <3>1. CASE s = {}
        BY <3>1
      <3>2. CASE s # {}
        <4>1. s \ {Max(s)} \in SUBSET S /\ Cardinality(s \ {Max(s)}) <= k
          BY <2>3, <3>2, MaxOfSome
        <4>2. f[s \ {Max(s)}] = Next(f)[s \ {Max(s)}]
          BY <2>1, <4>1
        <4> QED BY <3>2, <4>2
      <3> QED BY <3>1, <3>2
    <2>4. UpTo(Next(f), k + 1)
      BY <2>3
    <2> QED
      <3> HIDE DEF UpTo, Next
      <3> QED BY <2>2, <2>4
  <1>3. Cardinality(S) \in T
    <2>1. Nat \subseteq T
      <3> HIDE DEF T
      <3> QED BY <1>1, <1>2, NatSetInduction
    <2> QED BY <1>f, <2>1, FS_CardinalityType
  <1>4. PICK f \in [SUBSET S -> V] : UpTo(f, Cardinality(S))
    BY <1>3
  <1>5. \A s \in SUBSET S : Cardinality(s) <= Cardinality(S)
    BY <1>f, FS_Subset
  <1>6. \A s \in SUBSET S : f[s] = Next(f)[s]
    BY <1>4, <1>5
  <1>7. f = Next(f)
    BY <1>6
  <1> QED BY <1>7 DEF RunEquation

(* ... and whatever holds at its start and passes from each prefix to the next   *)
(* holds at its end.                                                             *)
LEMMA PrefixInduction ==
  ASSUME NEW n \in Nat, NEW P, 0 \in P, \A i \in 1 .. n : i - 1 \in P => i \in P
  PROVE  \A i \in 0 .. n : i \in P
  <1> DEFINE T == {i \in Nat : i <= n => i \in P}
  <1>1. 0 \in T
    OBVIOUS
  <1>2. ASSUME NEW i \in Nat, i \in T
        PROVE  i + 1 \in T
    <2>1. CASE i + 1 <= n
      <3>1. i + 1 \in 1 .. n /\ (i + 1) - 1 = i /\ i \in P
        BY <1>2, <2>1
      <3> QED BY <3>1
    <2> QED BY <2>1
  <1>3. Nat \subseteq T
    <2> HIDE DEF T
    <2> QED BY <1>1, <1>2, NatSetInduction
  <1> QED BY <1>3
=============================================================================
