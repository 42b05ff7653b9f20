------------------------------ MODULE SumTheorems ------------------------------
(***************************************************************************)
(* What the sum of a function with a finite domain is, when it is written  *)
(* as a fold: FoldFunction(LAMBDA a, b : a + b, 0, f) of the community     *)
(* module Functions.                                                       *)
(* At the end, what a fold over 1 .. n is as a recursive function.         *)
(*                                                                         *)
(* The fold is a recursive function over the subsets of the domain, and    *)
(* takes the elements in an order that CHOOSE decides.  Induction is by    *)
(* the least counterexample (LeastNat), a set, as the induction theorems   *)
(* about predicates cannot be instantiated by the provers used here.       *)
(***************************************************************************)
EXTENDS Integers, FiniteSets, Functions, WellFoundedInduction,
        FiniteSetTheorems, TLAPS

LEMMA LeastNat ==
  ASSUME NEW T, T \subseteq Nat, T # {}
  PROVE  \E n \in T : \A m \in T : n <= m
<1> DEFINE R == OpToRel(<, Nat)
<1>1. IsWellFoundedOn(R, Nat)
  BY NatLessThanWellFounded
<1>2. R = {p \in Nat \X Nat : p[1] < p[2]}
  BY DEF OpToRel
<1> HIDE DEF R
<1>3. PICK n \in T : \A m \in T : ~(<<m, n>> \in R)
  BY <1>1, WFMin
<1>4. ASSUME NEW m \in T, m < n PROVE FALSE
  <2>1. <<m, n>> \in Nat \X Nat /\ <<m, n>>[1] < <<m, n>>[2]
    BY <1>4
  <2>2. QED
    BY <1>2, <1>3, <2>1
<1>5. QED
  BY <1>4

(* A set of numbers that has 0, and with each number its successor, has all. *)
LEMMA NatSet ==
  ASSUME NEW T, 0 \in T, \A n \in Nat : n \in T => n + 1 \in T
  PROVE  Nat \subseteq T
<1>1. SUFFICES ASSUME Nat \ T # {} PROVE FALSE
  OBVIOUS
<1>2. PICK n \in Nat \ T : \A m \in Nat \ T : n <= m
  BY <1>1, LeastNat
<1>3. n # 0 /\ n - 1 \in Nat /\ ~(n <= n - 1)
  BY <1>2
<1>4. n - 1 \in T
  BY <1>2, <1>3
<1>5. (n - 1) + 1 = n
  BY <1>2
<1>6. QED
  BY <1>2, <1>3, <1>4, <1>5

-----------------------------------------------------------------------------
(* The fold *)

Some(S) == CHOOSE x \in S : TRUE

Sum(f) == FoldFunction(LAMBDA a, b : a + b, 0, f)

(* it is the recursive function of the fold. *)
Sums(f, it) ==
  it = [S \in SUBSET DOMAIN f |->
          IF S = {} THEN 0 ELSE f[Some(S)] + it[S \ {Some(S)}]]

LEMMA SumByChoice ==
  ASSUME NEW f
  PROVE  Sum(f) = (CHOOSE it : Sums(f, it))[DOMAIN f]
BY DEF Sum, FoldFunction, FoldFunctionOnSet, MapThenFoldSet, Sums, Some

LEMMA SomeIn == ASSUME NEW S, S # {} PROVE Some(S) \in S
BY DEF Some

(* The same on the subsets of at most n elements. *)
Small(f, n) == {S \in SUBSET DOMAIN f : Cardinality(S) <= n}

SumsUpTo(f, it, n) ==
  it = [S \in Small(f, n) |->
          IF S = {} THEN 0 ELSE f[Some(S)] + it[S \ {Some(S)}]]

LEMMA Smaller ==
  ASSUME NEW S, IsFiniteSet(S), NEW x \in S
  PROVE  /\ IsFiniteSet(S \ {x}) /\ Cardinality(S \ {x}) \in Nat
         /\ Cardinality(S) \in Nat /\ Cardinality(S) = Cardinality(S \ {x}) + 1
<1>1. IsFiniteSet(S \ {x}) /\ Cardinality(S \ {x}) = Cardinality(S) - 1
  BY FS_RemoveElement
<1>2. Cardinality(S) \in Nat
  BY FS_CardinalityType
<1>3. Cardinality(S \ {x}) \in Nat
  BY <1>1, FS_CardinalityType
<1> DEFINE m == Cardinality(S)
           n == Cardinality(S \ {x})
<1>4. m \in Nat /\ n \in Nat /\ n = m - 1
  BY <1>1, <1>2, <1>3
<1> HIDE DEF m, n
<1>5. m = n + 1
  BY <1>4
<1>6. QED
  BY <1>1, <1>2, <1>3, <1>5 DEF m, n

LEMMA SumsExist ==
  ASSUME NEW f, IsFiniteSet(DOMAIN f)
  PROVE  \E it : Sums(f, it)
<1> DEFINE T == {n \in Nat : \E it : SumsUpTo(f, it, n)}
<1>1. \A S \in SUBSET DOMAIN f : IsFiniteSet(S) /\ Cardinality(S) \in Nat
  BY FS_Subset, FS_CardinalityType
<1>2. \A n \in Nat : \A S \in Small(f, n) : S # {} => S \ {Some(S)} \in Small(f, n)
  <2>1. ASSUME NEW n \in Nat, NEW S \in Small(f, n), S # {}
        PROVE  S \ {Some(S)} \in Small(f, n)
    <3>1. S \in SUBSET DOMAIN f /\ IsFiniteSet(S) /\ Cardinality(S) <= n
      BY <1>1 DEF Small
    <3>2. Some(S) \in S
      BY <2>1, SomeIn
    <3>3. Cardinality(S \ {Some(S)}) <= n
      BY <3>1, <3>2, Smaller
    <3>4. QED
      BY <3>1, <3>3 DEF Small
  <2>2. QED
    BY <2>1
<1>3. 0 \in T
  <2> DEFINE it == [S \in Small(f, 0) |-> 0]
  <2>1. \A S \in Small(f, 0) : S = {}
    <3>1. ASSUME NEW S \in Small(f, 0) PROVE S = {}
      <4>1. IsFiniteSet(S) /\ Cardinality(S) = 0
        BY <1>1 DEF Small
      <4>2. QED
        BY <4>1, FS_EmptySet
    <3>2. QED
      BY <3>1
  <2>2. SumsUpTo(f, it, 0)
    BY <2>1 DEF SumsUpTo
  <2>3. QED
    BY <2>2
<1>4. ASSUME NEW n \in Nat, n \in T PROVE n + 1 \in T
  <2>1. PICK it : SumsUpTo(f, it, n)
    BY <1>4
  <2> DEFINE next == [S \in Small(f, n + 1) |->
                        IF S = {} THEN 0 ELSE f[Some(S)] + it[S \ {Some(S)}]]
  <2>2. Small(f, n) \subseteq Small(f, n + 1)
    BY <1>1 DEF Small
  <2>3. \A S \in Small(f, n) : next[S] = it[S]
    BY <2>1, <2>2 DEF SumsUpTo
  <2>4. \A S \in Small(f, n + 1) : S # {} => S \ {Some(S)} \in Small(f, n)
    <3>1. ASSUME NEW S \in Small(f, n + 1), S # {}
          PROVE  S \ {Some(S)} \in Small(f, n)
      <4>1. S \in SUBSET DOMAIN f /\ IsFiniteSet(S) /\ Cardinality(S) <= n + 1
        BY <1>1 DEF Small
      <4>2. Some(S) \in S
        BY <3>1, SomeIn
      <4>3. Cardinality(S \ {Some(S)}) <= n
        BY <4>1, <4>2, Smaller
      <4>4. QED
        BY <4>1, <4>3 DEF Small
    <3>2. QED
      BY <3>1
  <2>5. SumsUpTo(f, next, n + 1)
    <3>1. \A S \in Small(f, n + 1) :
            (IF S = {} THEN 0 ELSE f[Some(S)] + it[S \ {Some(S)}])
              = (IF S = {} THEN 0 ELSE f[Some(S)] + next[S \ {Some(S)}])
      BY <2>3, <2>4
    <3> HIDE DEF next
    <3>2. next = [S \in Small(f, n + 1) |->
                    IF S = {} THEN 0 ELSE f[Some(S)] + it[S \ {Some(S)}]]
      BY DEF next
    <3>3. QED
      BY <3>1, <3>2 DEF SumsUpTo
  <2>6. QED
    BY <2>5
<1>5. Nat \subseteq T
  <2> HIDE DEF T
  <2>1. QED
    BY <1>3, <1>4, NatSet
<1>6. PICK it : SumsUpTo(f, it, Cardinality(DOMAIN f))
  BY <1>1, <1>5
<1>7. Small(f, Cardinality(DOMAIN f)) = SUBSET DOMAIN f
  BY FS_Subset DEF Small
<1>8. QED
  BY <1>6, <1>7 DEF SumsUpTo, Sums

(* The sum, part by part. *)
Part(f, S) == (CHOOSE it : Sums(f, it))[S]

LEMMA PartStep ==
  ASSUME NEW f, IsFiniteSet(DOMAIN f)
  PROVE  /\ Sum(f) = Part(f, DOMAIN f)
         /\ Part(f, {}) = 0
         /\ \A S \in SUBSET DOMAIN f : S # {} =>
              Part(f, S) = f[Some(S)] + Part(f, S \ {Some(S)})
<1> DEFINE it == CHOOSE it : Sums(f, it)
<1>1. Sums(f, it)
  BY SumsExist
<1>2. \A S : Part(f, S) = it[S]
  BY DEF Part
<1>3. Sum(f) = it[DOMAIN f]
  BY SumByChoice
<1> HIDE DEF it
<1>4. it[{}] = 0
  BY <1>1 DEF Sums
<1>5. ASSUME NEW S \in SUBSET DOMAIN f, S # {}
      PROVE  it[S] = f[Some(S)] + it[S \ {Some(S)}]
  BY <1>1, <1>5 DEF Sums
<1>6. QED
  BY <1>2, <1>3, <1>4, <1>5

(* Induction on the subsets of a finite set: T has every set all of whose *)
(* proper subsets it has.                                                  *)
LEMMA SubsetInduction ==
  ASSUME NEW D, IsFiniteSet(D), NEW T,
         \A S \in SUBSET D : (\A R \in SUBSET S : R # S => R \in T) => S \in T
  PROVE  SUBSET D \subseteq T
<1> DEFINE Bad == {n \in Nat : \E S \in SUBSET D : ~(S \in T) /\ Cardinality(S) = n}
<1>1. \A S \in SUBSET D : IsFiniteSet(S) /\ Cardinality(S) \in Nat
  BY FS_Subset, FS_CardinalityType
<1>2. SUFFICES ASSUME NEW W \in SUBSET D, ~(W \in T) PROVE FALSE
  OBVIOUS
<1>3. Bad \subseteq Nat /\ Cardinality(W) \in Bad
  BY <1>1, <1>2
<1> HIDE DEF Bad
<1>4. PICK n \in Bad : \A m \in Bad : n <= m
  BY <1>3, LeastNat
<1>5. PICK S \in SUBSET D : ~(S \in T) /\ Cardinality(S) = n
  BY <1>4 DEF Bad
<1>6. ASSUME NEW R \in SUBSET S, R # S PROVE R \in T
  <2>1. R \in SUBSET D /\ Cardinality(R) \in Nat
    BY <1>1
  <2>2. Cardinality(R) <= Cardinality(S) /\ Cardinality(R) # Cardinality(S)
    BY <1>1, <1>6, FS_Subset
  <2>3. ~(n <= Cardinality(R))
    BY <1>1, <1>5, <2>1, <2>2
  <2>4. ~(Cardinality(R) \in Bad)
    BY <1>4, <2>3
  <2>5. QED
    BY <2>1, <2>4 DEF Bad
<1>7. QED
  BY <1>5, <1>6

-----------------------------------------------------------------------------
(* What can be summed. *)
Summable(f) == IsFiniteSet(DOMAIN f) /\ \A x \in DOMAIN f : f[x] \in Int

LEMMA PartInt ==
  ASSUME NEW f, Summable(f)
  PROVE  \A S \in SUBSET DOMAIN f : Part(f, S) \in Int
<1> DEFINE T == {S \in SUBSET DOMAIN f : Part(f, S) \in Int}
<1>1. ASSUME NEW S \in SUBSET DOMAIN f, \A R \in SUBSET S : R # S => R \in T
      PROVE  S \in T
  <2>1. CASE S = {}
    BY <2>1, PartStep DEF Summable
  <2>2. CASE S # {}
    <3>1. Some(S) \in S
      BY <2>2, SomeIn
    <3>2. Part(f, S \ {Some(S)}) \in Int
      BY <1>1, <3>1
    <3>3. f[Some(S)] \in Int
      BY <3>1 DEF Summable
    <3>4. Part(f, S) = f[Some(S)] + Part(f, S \ {Some(S)})
      BY <2>2, PartStep DEF Summable
    <3>5. QED
      BY <3>2, <3>3, <3>4
  <2>3. QED
    BY <2>1, <2>2
<1> HIDE DEF T
<1>2. SUBSET DOMAIN f \subseteq T
  BY <1>1, SubsetInduction DEF Summable
<1>3. QED
  BY <1>2 DEF T

(* Any element may be taken first. *)
LEMMA PartOf ==
  ASSUME NEW f, Summable(f), NEW S \in SUBSET DOMAIN f, NEW x \in S
  PROVE  Part(f, S) = f[x] + Part(f, S \ {x})
<1> DEFINE T == {R \in SUBSET DOMAIN f :
                   \A y \in R : Part(f, R) = f[y] + Part(f, R \ {y})}
<1>1. ASSUME NEW R \in SUBSET DOMAIN f, \A Q \in SUBSET R : Q # R => Q \in T
      PROVE  R \in T
  <2>1. SUFFICES ASSUME NEW y \in R PROVE Part(f, R) = f[y] + Part(f, R \ {y})
    OBVIOUS
  <2> DEFINE z == Some(R)
  <2>2. z \in R
    BY SomeIn
  <2>3. Part(f, R) = f[z] + Part(f, R \ {z})
    BY PartStep DEF Summable
  <2> HIDE DEF z
  <2>4. CASE y = z
    BY <2>3, <2>4
  <2>5. CASE y # z
    <3>1. Part(f, R \ {z}) = f[y] + Part(f, (R \ {z}) \ {y})
      BY <1>1, <2>2, <2>5
    <3>2. Part(f, R \ {y}) = f[z] + Part(f, (R \ {y}) \ {z})
      BY <1>1, <2>2, <2>5
    <3>3. (R \ {z}) \ {y} = (R \ {y}) \ {z}
      OBVIOUS
    <3>4. f[y] \in Int /\ f[z] \in Int /\ Part(f, (R \ {y}) \ {z}) \in Int
      BY <2>2, PartInt DEF Summable
    <3>5. Part(f, R) = f[z] + (f[y] + Part(f, (R \ {y}) \ {z}))
      BY <2>3, <3>1, <3>3
    <3>6. Part(f, R) = f[y] + (f[z] + Part(f, (R \ {y}) \ {z}))
      <4> DEFINE a == f[y]
                 b == f[z]
                 c == Part(f, (R \ {y}) \ {z})
      <4>1. a \in Int /\ b \in Int /\ c \in Int
        BY <3>4
      <4> HIDE DEF a, b, c
      <4>2. b + (a + c) = a + (b + c)
        BY <4>1
      <4>3. QED
        BY <3>5, <4>2 DEF a, b, c
    <3>7. QED
      BY <3>2, <3>6
  <2>6. QED
    BY <2>4, <2>5
<1> HIDE DEF T
<1>2. SUBSET DOMAIN f \subseteq T
  BY <1>1, SubsetInduction DEF Summable
<1>3. QED
  BY <1>2 DEF T

(* A part's sum depends on the values at its elements only. *)
LEMMA PartSame ==
  ASSUME NEW f, NEW g, Summable(f), Summable(g),
         NEW D \in SUBSET (DOMAIN f \cap DOMAIN g), \A x \in D : f[x] = g[x]
  PROVE  Part(f, D) = Part(g, D)
<1> DEFINE T == {S \in SUBSET D : Part(f, S) = Part(g, S)}
<1>1. IsFiniteSet(D)
  BY FS_Subset DEF Summable
<1>2. ASSUME NEW S \in SUBSET D, \A R \in SUBSET S : R # S => R \in T
      PROVE  S \in T
  <2>1. CASE S = {}
    BY <2>1, PartStep DEF Summable
  <2>2. CASE S # {}
    <3>1. PICK x \in S : TRUE
      BY <2>2
    <3>2. Part(f, S) = f[x] + Part(f, S \ {x}) /\ Part(g, S) = g[x] + Part(g, S \ {x})
      BY PartOf
    <3>3. Part(f, S \ {x}) = Part(g, S \ {x})
      BY <1>2
    <3>4. QED
      BY <3>2, <3>3
  <2>3. QED
    BY <2>1, <2>2
<1> HIDE DEF T
<1>3. SUBSET D \subseteq T
  BY <1>1, <1>2, SubsetInduction
<1>4. QED
  BY <1>3 DEF T

-----------------------------------------------------------------------------
(* The sum of a function *)

LEMMA SumEmpty == ASSUME NEW f, DOMAIN f = {} PROVE Sum(f) = 0
BY PartStep, FS_EmptySet

LEMMA SumZero ==
  ASSUME NEW f, Summable(f), \A x \in DOMAIN f : f[x] = 0
  PROVE  Sum(f) = 0
<1> DEFINE T == {S \in SUBSET DOMAIN f : Part(f, S) = 0}
<1>1. ASSUME NEW S \in SUBSET DOMAIN f, \A R \in SUBSET S : R # S => R \in T
      PROVE  S \in T
  <2>1. CASE S = {}
    BY <2>1, PartStep DEF Summable
  <2>2. CASE S # {}
    <3>1. PICK x \in S : TRUE
      BY <2>2
    <3>2. Part(f, S) = f[x] + Part(f, S \ {x}) /\ Part(f, S \ {x}) = 0 /\ f[x] = 0
      BY <1>1, PartOf
    <3>3. QED
      BY <3>2
  <2>3. QED
    BY <2>1, <2>2
<1> HIDE DEF T
<1>2. DOMAIN f \in T
  BY <1>1, SubsetInduction DEF Summable
<1>3. QED
  BY <1>2, PartStep DEF T, Summable

LEMMA SumInt == ASSUME NEW f, Summable(f) PROVE Sum(f) \in Int
BY PartStep, PartInt DEF Summable

LEMMA SumAt ==
  ASSUME NEW f, Summable(f), NEW x \in DOMAIN f
  PROVE  Sum(f) = f[x] + Part(f, DOMAIN f \ {x})
BY PartStep, PartOf DEF Summable

(* Functions of one domain that agree but at x differ in sum as they do at x. *)
LEMMA SumChange ==
  ASSUME NEW f, NEW g, Summable(f), Summable(g), DOMAIN g = DOMAIN f,
         NEW x \in DOMAIN f, \A y \in DOMAIN f : y # x => g[y] = f[y]
  PROVE  Sum(g) = Sum(f) - f[x] + g[x]
<1> DEFINE D == DOMAIN f \ {x}
<1>1. Part(f, D) = Part(g, D)
  BY PartSame
<1>2. Part(f, D) \in Int /\ f[x] \in Int /\ g[x] \in Int
  BY PartInt DEF Summable
<1>3. Sum(f) = f[x] + Part(f, D) /\ Sum(g) = g[x] + Part(g, D)
  BY SumAt
<1>4. QED
  BY <1>1, <1>2, <1>3

(* One more element adds its value. *)
LEMMA SumExtend ==
  ASSUME NEW f, NEW g, Summable(f), Summable(g), NEW x,
         ~(x \in DOMAIN f), DOMAIN g = DOMAIN f \cup {x},
         \A y \in DOMAIN f : g[y] = f[y]
  PROVE  Sum(g) = Sum(f) + g[x]
<1>1. DOMAIN f = DOMAIN g \ {x} /\ x \in DOMAIN g
  OBVIOUS
<1>2. Part(f, DOMAIN f) = Part(g, DOMAIN f)
  BY <1>1, PartSame
<1>3. Sum(f) = Part(f, DOMAIN f)
  BY PartStep DEF Summable
<1>4. Sum(g) = g[x] + Part(g, DOMAIN f)
  BY <1>1, SumAt
<1>5. Sum(f) \in Int /\ g[x] \in Int
  BY <1>1, SumInt DEF Summable
<1>6. QED
  BY <1>2, <1>3, <1>4, <1>5

(* Functions that agree have one sum. *)
LEMMA SumSame ==
  ASSUME NEW f, NEW g, Summable(f), Summable(g), DOMAIN g = DOMAIN f,
         \A x \in DOMAIN f : g[x] = f[x]
  PROVE  Sum(g) = Sum(f)
BY PartSame, PartStep DEF Summable

(* Values b put where f is 0, one place k[i] for each. *)
Spread(f, g, b, k, n) ==
  /\ DOMAIN b = 1 .. n
  /\ \A i \in 1 .. n : k[i] \in DOMAIN f /\ f[k[i]] = 0 /\ g[k[i]] = b[i]
  /\ \A i, j \in 1 .. n : k[i] = k[j] => i = j
  /\ \A c \in DOMAIN f : (\A i \in 1 .. n : k[i] # c) => g[c] = f[c]

LEMMA SumSpread ==
  ASSUME NEW f, NEW g, NEW b, NEW k, NEW n \in Nat,
         Summable(f), Summable(g), DOMAIN g = DOMAIN f, Spread(f, g, b, k, n)
  PROVE  Sum(g) = Sum(f) + Sum(b)
<1>0. /\ DOMAIN b = 1 .. n
      /\ \A i \in 1 .. n : k[i] \in DOMAIN f /\ f[k[i]] = 0 /\ g[k[i]] = b[i]
      /\ \A i, j \in 1 .. n : k[i] = k[j] => i = j
      /\ \A c \in DOMAIN f : (\A i \in 1 .. n : k[i] # c) => g[c] = f[c]
  BY DEF Spread
<1> USE <1>0
<1> DEFINE D == DOMAIN f
           h(m) == [c \in D |-> IF \E i \in 1 .. m : k[i] = c THEN g[c] ELSE f[c]]
           T == {m \in Nat : m <= n => Sum(h(m)) = Sum(f) + Part(b, 1 .. m)}
<1>1. \A c \in D : f[c] \in Int /\ g[c] \in Int
  BY DEF Summable
<1>2. Summable(b)
  <2>1. IsFiniteSet(DOMAIN b)
    BY FS_Interval
  <2>2. \A i \in DOMAIN b : b[i] \in Int
    BY <1>1
  <2>3. QED
    BY <2>1, <2>2 DEF Summable
<1>3. \A m : Summable(h(m)) /\ DOMAIN h(m) = D
  BY <1>1 DEF Summable
<1>4. 0 \in T
  <2>1. \A c \in D : h(0)[c] = f[c]
    OBVIOUS
  <2>2. Sum(h(0)) = Sum(f)
    <3> DEFINE h0 == h(0)
    <3>1. Summable(h0) /\ DOMAIN h0 = DOMAIN f
      BY <1>3
    <3>2. \A c \in DOMAIN f : h0[c] = f[c]
      BY <2>1
    <3> HIDE DEF h0
    <3>3. Sum(h0) = Sum(f)
      BY <3>1, <3>2, SumSame
    <3>4. QED
      BY <3>3 DEF h0
  <2>3. 1 .. 0 = {} /\ Part(b, 1 .. 0) = 0
    BY <1>2, PartStep DEF Summable
  <2>4. Sum(f) \in Int
    BY SumInt
  <2> HIDE DEF h
  <2>5. Sum(h(0)) = Sum(f) + Part(b, 1 .. 0)
    BY <2>2, <2>3, <2>4
  <2>6. QED
    BY <2>5
<1>5. ASSUME NEW m \in Nat, m \in T PROVE m + 1 \in T
  <2>1. SUFFICES ASSUME m + 1 <= n
                 PROVE  Sum(h(m + 1)) = Sum(f) + Part(b, 1 .. (m + 1))
    OBVIOUS
  <2>2. m <= n /\ m + 1 \in 1 .. n /\ (1 .. (m + 1)) \ {m + 1} = 1 .. m
        /\ 1 .. (m + 1) \subseteq 1 .. n
    BY <2>1
  <2>3. Sum(h(m)) = Sum(f) + Part(b, 1 .. m)
    BY <1>5, <2>2
  <2> DEFINE x == k[m + 1]
             p == h(m)
             q == h(m + 1)
  <2>4. x \in D /\ f[x] = 0 /\ g[x] = b[m + 1] /\ b[m + 1] \in Int
    BY <1>1, <2>2
  <2>5. \A i \in 1 .. m : i \in 1 .. n /\ i # m + 1
    BY <2>2
  <2>6. \A i \in 1 .. m : k[i] # x
    BY <2>2, <2>5
  <2>7. p[x] = 0
    BY <2>4, <2>6
  <2>8. q[x] = b[m + 1]
    BY <2>4
  <2>9. ASSUME NEW c \in D, c # x PROVE q[c] = p[c]
    <3>1. (\E i \in 1 .. (m + 1) : k[i] = c) <=> (\E i \in 1 .. m : k[i] = c)
      BY <2>9
    <3>2. QED
      BY <3>1
  <2>10. Summable(p) /\ Summable(q) /\ DOMAIN p = D /\ DOMAIN q = D
    BY <1>3
  <2>11. Sum(p) = Sum(f) + Part(b, 1 .. m)
    BY <2>3
  <2>12. Part(b, 1 .. (m + 1)) = b[m + 1] + Part(b, (1 .. (m + 1)) \ {m + 1})
    <3>1. m + 1 \in 1 .. (m + 1) /\ 1 .. (m + 1) \in SUBSET DOMAIN b
      BY <2>2
    <3>2. QED
      BY <1>2, <3>1, PartOf
  <2>13. Part(b, 1 .. m) \in Int /\ Sum(f) \in Int
    BY <1>2, <2>2, PartInt, SumInt
  <2> HIDE DEF p, q, x, h, D
  <2>14. Sum(q) = Sum(p) - p[x] + q[x]
    BY <2>4, <2>9, <2>10, SumChange
  <2>15. Sum(q) = Sum(f) + (b[m + 1] + Part(b, 1 .. m))
    BY <2>4, <2>7, <2>8, <2>11, <2>13, <2>14
  <2>16. QED
    BY <2>2, <2>12, <2>15 DEF q
<1>6. Nat \subseteq T
  <2> HIDE DEF T
  <2>1. QED
    BY <1>4, <1>5, NatSet
<1>7. Sum(h(n)) = Sum(f) + Part(b, 1 .. n)
  BY <1>6
<1>8. Part(b, 1 .. n) = Sum(b)
  BY <1>2, PartStep DEF Summable
<1>9. \A c \in D : h(n)[c] = g[c]
  OBVIOUS
<1> DEFINE hn == h(n)
<1>10. Summable(hn) /\ DOMAIN hn = DOMAIN g /\ \A c \in DOMAIN g : hn[c] = g[c]
  <2>1. Summable(hn) /\ DOMAIN hn = D
    BY <1>3
  <2>2. \A c \in D : hn[c] = g[c]
    BY <1>9
  <2>3. QED
    BY <2>1, <2>2
<1>11. Sum(hn) = Sum(f) + Sum(b)
  BY <1>7, <1>8
<1> HIDE DEF hn
<1>12. Sum(hn) = Sum(g)
  BY <1>10, SumSame
<1>13. QED
  BY <1>11, <1>12

-----------------------------------------------------------------------------
(* Recursive functions *)

(* The fold of a sequence of n elements from its left: a recursive function
   over the sets of indices, which takes the greatest index last. *)
Folding(it, base, step, n) ==
  /\ it[{}] = base
  /\ \A S \in SUBSET (1 .. n) : \A x \in S :
       (\A y \in S : y <= x) => it[S] = step[it[S \ {x}]][x]

Foldable(A, base, step, m) ==
  \E it \in [SUBSET (1 .. m) -> A] : Folding(it, base, step, m)

LEMMA FoldingExists ==
  ASSUME NEW A, NEW base \in A, NEW n \in Nat,
         NEW step \in [A -> [1 .. n -> A]]
  PROVE  Foldable(A, base, step, n)
<1> DEFINE T == {m \in Nat : m <= n => Foldable(A, base, step, m)}
<1>1. 0 \in T
  <2> DEFINE it == [S \in SUBSET (1 .. 0) |-> base]
  <2>1. it \in [SUBSET (1 .. 0) -> A] /\ {} \in SUBSET (1 .. 0)
    OBVIOUS
  <2>2. \A S \in SUBSET (1 .. 0) : S = {}
    OBVIOUS
  <2>3. Folding(it, base, step, 0)
    BY <2>1, <2>2 DEF Folding
  <2>4. Foldable(A, base, step, 0)
    BY <2>1, <2>3 DEF Foldable
  <2>5. QED
    BY <2>4
<1>2. ASSUME NEW m \in Nat, m \in T PROVE m + 1 \in T
  <2>1. SUFFICES ASSUME m + 1 <= n
                 PROVE  Foldable(A, base, step, m + 1)
    BY <1>2
  <2>2. PICK it \in [SUBSET (1 .. m) -> A] : Folding(it, base, step, m)
    <3>1. Foldable(A, base, step, m)
      BY <1>2, <2>1
    <3>2. QED
      BY <3>1 DEF Foldable
  <2> DEFINE last == m + 1
             few == SUBSET (1 .. m)
             more == SUBSET (1 .. last)
             next == [S \in more |-> IF last \in S THEN step[it[S \ {last}]][last]
                                     ELSE it[S]]
  <2>3. /\ \A S \in more : S \ {last} \in few /\ (last \notin S => S \in few)
        /\ last \in 1 .. n
    BY <2>1
  <2>4. next \in [more -> A]
    <3>1. \A S \in more : last \notin S => it[S] \in A
      BY <2>2, <2>3
    <3>2. \A S \in more : step[it[S \ {last}]][last] \in A
      BY <2>2, <2>3
    <3>3. QED
      BY <3>1, <3>2
  <2>5. {} \in more /\ last \notin {} /\ next[{}] = base
    BY <2>2 DEF Folding
  <2>6. ASSUME NEW S \in more, NEW x \in S, \A y \in S : y <= x
        PROVE  next[S] = step[next[S \ {x}]][x]
    <3>1. CASE last \in S
      <4>1. x = last
        BY <2>6, <3>1
      <4>2. next[S \ {x}] = it[S \ {x}]
        BY <4>1
      <4>3. QED
        BY <3>1, <4>1, <4>2
    <3>2. CASE last \notin S
      <4>1. S \in few
        BY <2>3, <3>2
      <4>2. it[S] = step[it[S \ {x}]][x]
        BY <2>2, <2>6, <4>1 DEF Folding
      <4>3. S \ {x} \in more /\ last \notin S \ {x}
        BY <3>2
      <4>4. QED
        BY <3>2, <4>2, <4>3
    <3>3. QED
      BY <3>1, <3>2
  <2>7. Folding(next, base, step, last)
    BY <2>5, <2>6 DEF Folding
  <2>8. QED
    BY <2>4, <2>7 DEF Foldable
<1>3. Nat \subseteq T
  <2> HIDE DEF T
  <2>1. QED
    BY <1>1, <1>2, NatSet
<1>4. n \in T /\ n <= n
  BY <1>3
<1>5. QED
  BY <1>4

(* What it yields for the first k indices, one after the other. *)
Stepwise(f, base, step, n) ==
  f[0] = base /\ \A k \in 1 .. n : f[k] = step[f[k - 1]][k]

LEMMA FoldingPrefixes ==
  ASSUME NEW n \in Nat, NEW it, NEW base, NEW step, Folding(it, base, step, n),
         NEW f, f = [k \in 0 .. n |-> it[1 .. k]]
  PROVE  Stepwise(f, base, step, n)
<1>1. 1 .. 0 = {}
  OBVIOUS
<1>2. ASSUME NEW k \in 1 .. n
      PROVE  it[1 .. k] = step[it[1 .. (k - 1)]][k]
  <2>1. /\ 1 .. k \in SUBSET (1 .. n) /\ k \in 1 .. k
        /\ \A y \in 1 .. k : y <= k
        /\ (1 .. k) \ {k} = 1 .. (k - 1)
    OBVIOUS
  <2>2. it[1 .. k] = step[it[(1 .. k) \ {k}]][k]
    BY <2>1 DEF Folding
  <2>3. QED
    BY <2>1, <2>2
<1>3. f[0] = base
  <2>1. 0 \in 0 .. n
    OBVIOUS
  <2>2. QED
    BY <1>1, <2>1 DEF Folding
<1>4. \A k \in 1 .. n : f[k] = step[f[k - 1]][k]
  <2>1. \A k \in 1 .. n : k \in 0 .. n /\ k - 1 \in 0 .. n
    OBVIOUS
  <2>2. QED
    BY <1>2, <2>1
<1>5. QED
  BY <1>3, <1>4 DEF Stepwise

(* A function that is defined by recursion on the first n numbers. *)
LEMMA Recursion ==
  ASSUME NEW A, NEW base \in A, NEW n \in Nat,
         NEW step \in [A -> [1 .. n -> A]]
  PROVE  \E f \in [0 .. n -> A] : Stepwise(f, base, step, n)
<1>1. PICK it \in [SUBSET (1 .. n) -> A] : Folding(it, base, step, n)
  BY FoldingExists DEF Foldable
<1> DEFINE f == [k \in 0 .. n |-> it[1 .. k]]
<1>2. f \in [0 .. n -> A]
  <2>1. \A k \in 0 .. n : 1 .. k \in SUBSET (1 .. n)
    OBVIOUS
  <2>2. QED
    BY <2>1
<1>3. Stepwise(f, base, step, n)
  BY <1>1, FoldingPrefixes
<1>4. QED
  BY <1>2, <1>3
=============================================================================
