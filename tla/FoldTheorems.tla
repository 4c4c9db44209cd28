---------------------------- MODULE FoldTheorems -----------------------------
(***************************************************************************)
(* Facts about the folds of the community modules, and the induction they  *)
(* rest on.  FoldsExist: a fold over a finite set is defined, whichever    *)
(* element it picks next.  The rest is about SumFunctionOnSet, which the   *)
(* token's and the registry's accounts are balanced by: it is an integer,  *)
(* it is zero if every entry is, it changes by what one entry of the       *)
(* function changes, and it covers every entry of a function that is       *)
(* nowhere negative.                                                       *)
(*                                                                         *)
(* A fold is a recursive function on the subsets of a finite set, and the  *)
(* facts are by induction on their size.  The induction is over a set of   *)
(* naturals (NatSetInduction), which is a first-order fact.                *)
(***************************************************************************)
EXTENDS Integers, Functions, FiniteSetTheorems, WellFoundedInduction, TLAPS

\* A set of naturals with 0 and every successor has them all: the least one it lacks
\* would be the successor of one it has.
LEMMA NatSetInduction ==
  ASSUME NEW T \in SUBSET Nat, 0 \in T, \A n \in T : n + 1 \in T
  PROVE  Nat \subseteq T
<1>1. SUFFICES ASSUME Nat \ T # {} PROVE FALSE
  OBVIOUS
<1> DEFINE R == OpToRel(<, Nat)
<1>2. PICK x \in Nat \ T : \A y \in Nat \ T : ~ (<<y, x>> \in R)
  <2>1. IsWellFoundedOn(R, Nat)
    BY NatLessThanWellFounded
  <2> HIDE DEF R
  <2> QED
    BY <1>1, <2>1, WFMin
<1>3. x # 0 /\ x - 1 \in Nat /\ x - 1 < x /\ (x - 1) + 1 = x
  <2>1. x \in Nat /\ x \notin T
    BY <1>2
  <2>2. x # 0
    BY <2>1
  <2> QED
    BY <2>1, <2>2
<1>4. <<x - 1, x>> \in R
  BY <1>2, <1>3 DEF OpToRel
<1>5. x - 1 \in T
  BY <1>2, <1>3, <1>4
<1> QED
  BY <1>2, <1>3, <1>5

\* The next entry the sum takes.
Some(s) == CHOOSE x \in s : TRUE

\* What the sum of the entries of f in s is, if sum gives those of smaller sets.
SumStep(f, sum, s) == IF s = {} THEN 0 ELSE f[Some(s)] + sum[s \ {Some(s)}]

Sums(f, S) == CHOOSE sum : sum = [s \in SUBSET S |-> SumStep(f, sum, s)]

LEMMA SumIsOfSums == ASSUME NEW f, NEW S PROVE SumFunctionOnSet(f, S) = Sums(f, S)[S]
  BY DEF SumFunctionOnSet, FoldFunctionOnSet, MapThenFoldSet, Sums, SumStep, Some

LEMMA SomeIsOne ==
  ASSUME NEW S, IsFiniteSet(S), NEW s \in SUBSET S, s # {}
  PROVE  /\ Some(s) \in s /\ s \ {Some(s)} \in SUBSET S
         /\ IsFiniteSet(s) /\ Cardinality(s) \in Nat /\ Cardinality(s) # 0
         /\ Cardinality(s \ {Some(s)}) = Cardinality(s) - 1
<1>1. Some(s) \in s
  BY DEF Some
<1>2. IsFiniteSet(s) /\ Cardinality(s) \in Nat
  BY FS_Subset, FS_CardinalityType
<1> QED
  BY <1>1, <1>2, FS_RemoveElement, FS_EmptySet

\* b is what a fold over S starts from, F what an element makes of a value of B, and pick
\* which element of a set is the next.
Foldable(S, B, b, F, pick) ==
    /\ IsFiniteSet(S) /\ b \in B /\ F \in [S -> [B -> B]]
    /\ \A s \in SUBSET S : s # {} => pick[s] \in s

\* What a fold gives for s, if g is what it gives for smaller sets.
FoldStep(b, F, pick, g, s) == IF s = {} THEN b ELSE F[pick[s]][g[s \ {pick[s]}]]

IsFold(S, B, b, F, pick, g) ==
    g \in [SUBSET S -> B] /\ \A s \in SUBSET S : g[s] = FoldStep(b, F, pick, g, s)

\* A fold is defined: what it gives for the sets of up to n elements is built from what
\* it gives for those of up to n - 1, whichever element is picked.
LEMMA FoldsExist ==
  ASSUME NEW S, NEW B, NEW b, NEW F, NEW pick, Foldable(S, B, b, F, pick)
  PROVE  \E g : IsFold(S, B, b, F, pick, g)
<1> DEFINE Upto(n, g) == \A s \in SUBSET S : Cardinality(s) <= n => g[s] = FoldStep(b, F, pick, g, s)
           T == {n \in Nat : \E g \in [SUBSET S -> B] : Upto(n, g)}
<1> /\ IsFiniteSet(S) /\ b \in B /\ F \in [S -> [B -> B]]
    /\ \A s \in SUBSET S : s # {} => pick[s] \in s
  BY DEF Foldable
<1>0. \A s \in SUBSET S : s # {} =>
        /\ pick[s] \in S /\ s \ {pick[s]} \in SUBSET S
        /\ Cardinality(s) \in Nat /\ Cardinality(s) # 0
        /\ Cardinality(s \ {pick[s]}) = Cardinality(s) - 1
  <2>1. ASSUME NEW s \in SUBSET S, s # {}
        PROVE  /\ Cardinality(s) \in Nat /\ Cardinality(s) # 0
               /\ Cardinality(s \ {pick[s]}) = Cardinality(s) - 1
    <3>1. IsFiniteSet(s) /\ pick[s] \in s
      BY <2>1, FS_Subset
    <3> QED
      BY <2>1, <3>1, FS_RemoveElement, FS_EmptySet, FS_CardinalityType
  <2> QED
    BY <2>1
<1>1. 0 \in T
  <2> DEFINE g == [s \in SUBSET S |-> b]
  <2>1. g \in [SUBSET S -> B] /\ \A s \in SUBSET S : g[s] = b
    OBVIOUS
  <2> HIDE DEF g
  <2>2. ASSUME NEW s \in SUBSET S, Cardinality(s) <= 0 PROVE s = {}
    <3>1. SUFFICES ASSUME s # {} PROVE FALSE
      OBVIOUS
    <3>2. Cardinality(s) \in Nat /\ Cardinality(s) # 0
      BY <1>0, <3>1
    <3> QED
      BY <2>2, <3>2
  <2>3. Upto(0, g)
    BY <2>1, <2>2 DEF FoldStep
  <2> QED
    BY <2>1, <2>3
<1>2. ASSUME NEW n \in T PROVE n + 1 \in T
  <2>1. n \in Nat
    OBVIOUS
  <2>2. PICK g \in [SUBSET S -> B] : Upto(n, g)
    OBVIOUS
  <2> DEFINE h == [s \in SUBSET S |-> FoldStep(b, F, pick, g, s)]
  <2>3. ASSUME NEW s \in SUBSET S PROVE FoldStep(b, F, pick, g, s) \in B
    <3>1. CASE s # {}
      <4>1. F[pick[s]] \in [B -> B] /\ g[s \ {pick[s]}] \in B
        BY <1>0, <3>1
      <4> QED
        BY <3>1, <4>1 DEF FoldStep
    <3> QED
      BY <3>1 DEF FoldStep
  <2>4. h \in [SUBSET S -> B] /\ \A s \in SUBSET S : h[s] = FoldStep(b, F, pick, g, s)
    BY <2>3
  <2> HIDE DEF h
  <2>5. ASSUME NEW s \in SUBSET S, Cardinality(s) <= n + 1 PROVE h[s] = FoldStep(b, F, pick, h, s)
    <3>1. CASE s = {}
      BY <2>4, <3>1 DEF FoldStep
    <3>2. CASE s # {}
      <4> DEFINE r == s \ {pick[s]}
      <4>1. r \in SUBSET S /\ Cardinality(r) <= n
        BY <1>0, <2>1, <2>5, <3>2
      <4> HIDE DEF r
      <4>2. h[r] = g[r]
        BY <2>2, <2>4, <4>1
      <4> QED
        BY <2>4, <3>2, <4>2 DEF FoldStep, r
    <3> QED
      BY <3>1, <3>2
  <2> QED
    BY <2>1, <2>4, <2>5
<1>3. Nat \subseteq T
  <2> HIDE DEF T
  <2>1. T \subseteq Nat
    BY DEF T
  <2> QED
    BY <1>1, <1>2, <2>1, NatSetInduction
<1>4. Cardinality(S) \in Nat /\ \A s \in SUBSET S : Cardinality(s) <= Cardinality(S)
  BY FS_CardinalityType, FS_Subset
<1>5. PICK g \in [SUBSET S -> B] : Upto(Cardinality(S), g)
  BY <1>3, <1>4
<1>6. IsFold(S, B, b, F, pick, g)
  BY <1>4, <1>5 DEF IsFold
<1> QED
  BY <1>6

\* An induction over the subsets of S by their size, for a set of subsets.
LEMMA SubsetInduction ==
  ASSUME NEW S, IsFiniteSet(S), NEW G \in SUBSET (SUBSET S), {} \in G,
         \A s \in SUBSET S : s # {} /\ s \ {Some(s)} \in G => s \in G
  PROVE  SUBSET S \subseteq G
<1> DEFINE T == {n \in Nat : \A s \in SUBSET S : Cardinality(s) <= n => s \in G}
<1>1. 0 \in T
  <2>1. ASSUME NEW s \in SUBSET S, Cardinality(s) <= 0 PROVE s \in G
    <3>1. CASE s # {}
      <4>1. Cardinality(s) \in Nat /\ Cardinality(s) # 0
        BY <3>1, SomeIsOne
      <4> QED
        BY <2>1, <4>1
    <3> QED
      BY <3>1
  <2> QED
    BY <2>1
<1>2. ASSUME NEW n \in T PROVE n + 1 \in T
  <2>1. n \in Nat /\ \A s \in SUBSET S : Cardinality(s) <= n => s \in G
    OBVIOUS
  <2>2. ASSUME NEW s \in SUBSET S, Cardinality(s) <= n + 1 PROVE s \in G
    <3>1. CASE s # {}
      <4>1. s \ {Some(s)} \in SUBSET S /\ Cardinality(s) \in Nat
            /\ Cardinality(s \ {Some(s)}) = Cardinality(s) - 1
        BY <3>1, SomeIsOne
      <4>2. s \ {Some(s)} \in G
        BY <2>1, <2>2, <4>1
      <4> QED
        BY <3>1, <4>2
    <3> QED
      BY <3>1
  <2> QED
    BY <2>1, <2>2
<1>3. Nat \subseteq T
  <2> HIDE DEF T
  <2>1. T \subseteq Nat
    BY DEF T
  <2> QED
    BY <1>1, <1>2, <2>1, NatSetInduction
<1>4. \A s \in SUBSET S : Cardinality(s) \in Nat
  BY FS_CardinalityType, FS_Subset
<1> QED
  BY <1>3, <1>4

LEMMA SumsRecur ==
  ASSUME NEW S, IsFiniteSet(S), NEW f \in [S -> Int]
  PROVE  Sums(f, S) = [s \in SUBSET S |-> SumStep(f, Sums(f, S), s)]
<1> DEFINE F == [x \in S |-> [y \in Int |-> f[x] + y]]
           pick == [s \in SUBSET S |-> Some(s)]
<1>1. F \in [S -> [Int -> Int]] /\ \A s \in SUBSET S : s # {} => pick[s] \in s
  BY SomeIsOne
<1>2. \A x \in S, y \in Int : F[x][y] = f[x] + y
  OBVIOUS
<1>3. \A s \in SUBSET S : pick[s] = Some(s)
  OBVIOUS
<1> HIDE DEF F, pick
<1>4. PICK g : IsFold(S, Int, 0, F, pick, g)
  <2>1. Foldable(S, Int, 0, F, pick)
    BY <1>1 DEF Foldable
  <2> QED
    BY <2>1, FoldsExist
<1>5. g \in [SUBSET S -> Int] /\ \A s \in SUBSET S : g[s] = FoldStep(0, F, pick, g, s)
  BY <1>4 DEF IsFold
<1>6. ASSUME NEW s \in SUBSET S PROVE g[s] = SumStep(f, g, s)
  <2>1. CASE s # {}
    <3>1. Some(s) \in S /\ g[s \ {Some(s)}] \in Int
      BY <1>5, <2>1, SomeIsOne
    <3> QED
      BY <1>2, <1>3, <1>5, <2>1, <3>1 DEF SumStep, FoldStep
  <2> QED
    BY <1>5, <2>1 DEF SumStep, FoldStep
<1>7. g = [s \in SUBSET S |-> SumStep(f, g, s)]
  BY <1>5, <1>6
<1> QED
  BY <1>7 DEF Sums

LEMMA SumsExist ==
  ASSUME NEW S, IsFiniteSet(S), NEW f \in [S -> Int]
  PROVE  /\ Sums(f, S) \in [SUBSET S -> Int]
         /\ \A s \in SUBSET S : Sums(f, S)[s] = SumStep(f, Sums(f, S), s)
<1> DEFINE sum == Sums(f, S)
           G == {s \in SUBSET S : sum[s] \in Int}
<1>1. sum = [s \in SUBSET S |-> SumStep(f, sum, s)]
  BY SumsRecur
<1> HIDE DEF sum
<1>2. \A s \in SUBSET S : sum[s] = SumStep(f, sum, s)
  BY <1>1
<1>3. {} \in G
  <2>1. sum[{}] = 0
    BY <1>2 DEF SumStep
  <2> QED
    BY <2>1
<1>4. ASSUME NEW s \in SUBSET S, s # {}, s \ {Some(s)} \in G PROVE s \in G
  <2>1. f[Some(s)] \in Int /\ sum[s \ {Some(s)}] \in Int
    BY <1>4, SomeIsOne
  <2>2. sum[s] = f[Some(s)] + sum[s \ {Some(s)}]
    BY <1>2, <1>4 DEF SumStep
  <2> QED
    BY <2>1, <2>2
<1>5. SUBSET S \subseteq G
  <2> HIDE DEF G
  <2>1. G \in SUBSET (SUBSET S)
    BY DEF G
  <2> QED
    BY <1>3, <1>4, <2>1, SubsetInduction
<1> QED
  BY <1>1, <1>2, <1>5 DEF sum

LEMMA SumIsInt ==
  ASSUME NEW S, IsFiniteSet(S), NEW f \in [S -> Int]
  PROVE  SumFunctionOnSet(f, S) \in Int
<1>1. Sums(f, S) \in [SUBSET S -> Int] /\ S \in SUBSET S
  BY SumsExist
<1>2. Sums(f, S)[S] \in Int
  BY <1>1
<1> QED
  BY <1>2, SumIsOfSums

\* A sum of zeros.
LEMMA SumOfZeros ==
  ASSUME NEW S, IsFiniteSet(S), NEW f \in [S -> Int], \A x \in S : f[x] = 0
  PROVE  SumFunctionOnSet(f, S) = 0
<1> DEFINE sum == Sums(f, S)
           G == {s \in SUBSET S : sum[s] = 0}
<1>1. \A s \in SUBSET S : sum[s] = SumStep(f, sum, s)
  BY SumsExist
<1> HIDE DEF sum
<1>2. {} \in G
  BY <1>1 DEF SumStep
<1>3. ASSUME NEW s \in SUBSET S, s # {}, s \ {Some(s)} \in G PROVE s \in G
  <2>1. f[Some(s)] = 0 /\ sum[s \ {Some(s)}] = 0
    BY <1>3, SomeIsOne
  <2> QED
    BY <1>1, <1>3, <2>1 DEF SumStep
<1>4. SUBSET S \subseteq G
  <2> HIDE DEF G
  <2>1. G \in SUBSET (SUBSET S)
    BY DEF G
  <2> QED
    BY <1>2, <1>3, <2>1, SubsetInduction
<1> QED
  BY <1>4, SumIsOfSums DEF sum

\* A sum of entries none of which is negative is not negative.
LEMMA SumIsNat ==
  ASSUME NEW S, IsFiniteSet(S), NEW f \in [S -> Nat]
  PROVE  SumFunctionOnSet(f, S) \in Nat
<1> DEFINE sum == Sums(f, S)
           G == {s \in SUBSET S : sum[s] \in Nat}
<1>0. f \in [S -> Int]
  OBVIOUS
<1>1. \A s \in SUBSET S : sum[s] = SumStep(f, sum, s)
  BY <1>0, SumsExist
<1> HIDE DEF sum
<1>2. {} \in G
  BY <1>1 DEF SumStep
<1>3. ASSUME NEW s \in SUBSET S, s # {}, s \ {Some(s)} \in G PROVE s \in G
  <2>1. f[Some(s)] \in Nat /\ sum[s \ {Some(s)}] \in Nat
    BY <1>3, SomeIsOne
  <2> QED
    BY <1>1, <1>3, <2>1 DEF SumStep
<1>4. SUBSET S \subseteq G
  <2> HIDE DEF G
  <2>1. G \in SUBSET (SUBSET S)
    BY DEF G
  <2> QED
    BY <1>2, <1>3, <2>1, SubsetInduction
<1> QED
  BY <1>4, SumIsOfSums DEF sum

\* Where two functions differ in one entry, their sums differ by as much.
LEMMA SumChangesByOne ==
  ASSUME NEW S, IsFiniteSet(S), NEW f \in [S -> Int], NEW g \in [S -> Int],
         NEW x \in S, \A y \in S : y # x => g[y] = f[y]
  PROVE  SumFunctionOnSet(g, S) = SumFunctionOnSet(f, S) + (g[x] - f[x])
<1> DEFINE old == Sums(f, S)
           new == Sums(g, S)
           G == {s \in SUBSET S : new[s] = old[s] + (IF x \in s THEN g[x] - f[x] ELSE 0)}
<1>1. /\ \A s \in SUBSET S : old[s] = SumStep(f, old, s) /\ new[s] = SumStep(g, new, s)
      /\ old \in [SUBSET S -> Int] /\ new \in [SUBSET S -> Int]
  BY SumsExist
<1> HIDE DEF old, new
<1>2. {} \in G
  <2>1. old[{}] = 0 /\ new[{}] = 0
    BY <1>1 DEF SumStep
  <2> QED
    BY <2>1
<1>3. ASSUME NEW s \in SUBSET S, s # {}, s \ {Some(s)} \in G PROVE s \in G
  <2> DEFINE r == s \ {Some(s)}
  <2>1. Some(s) \in s /\ Some(s) \in S /\ r \in SUBSET S /\ Some(s) \notin r
    BY <1>3, SomeIsOne
  <2>2. new[s] = g[Some(s)] + new[r] /\ old[s] = f[Some(s)] + old[r]
    BY <1>1, <1>3 DEF SumStep
  <2>3. new[r] = old[r] + (IF x \in r THEN g[x] - f[x] ELSE 0)
    BY <1>3
  <2>4. new[r] \in Int /\ old[r] \in Int /\ g[Some(s)] \in Int /\ f[Some(s)] \in Int
        /\ f[x] \in Int /\ g[x] \in Int
    BY <1>1, <2>1
  <2>5. CASE x = Some(s)
    <3>1. x \in s /\ x \notin r
      BY <2>1, <2>5
    <3> HIDE DEF r
    <3>2. new[s] = old[s] + (g[x] - f[x])
      BY <2>2, <2>3, <2>4, <2>5, <3>1
    <3> QED
      BY <3>1, <3>2
  <2>6. CASE x # Some(s)
    <3>1. (x \in s <=> x \in r) /\ g[Some(s)] = f[Some(s)]
      BY <2>1, <2>6
    <3> HIDE DEF r
    <3>2. new[s] = old[s] + (IF x \in s THEN g[x] - f[x] ELSE 0)
      BY <2>2, <2>3, <2>4, <3>1
    <3> QED
      BY <3>2
  <2> QED
    BY <2>5, <2>6
<1>4. SUBSET S \subseteq G
  <2> HIDE DEF G
  <2>1. G \in SUBSET (SUBSET S)
    BY DEF G
  <2> QED
    BY <1>2, <1>3, <2>1, SubsetInduction
<1>5. new[S] = old[S] + (g[x] - f[x])
  BY <1>4
<1> QED
  BY <1>5, SumIsOfSums DEF old, new

\* No entry is above the sum if none is negative.
LEMMA SumCovers ==
  ASSUME NEW S, IsFiniteSet(S), NEW f \in [S -> Nat], NEW x \in S
  PROVE  f[x] <= SumFunctionOnSet(f, S)
<1> DEFINE g == [f EXCEPT ![x] = 0]
<1>1. g \in [S -> Nat] /\ f \in [S -> Int] /\ g \in [S -> Int]
      /\ g[x] = 0 /\ \A y \in S : y # x => g[y] = f[y]
  OBVIOUS
<1> HIDE DEF g
<1>2. SumFunctionOnSet(g, S) = SumFunctionOnSet(f, S) + (g[x] - f[x])
  BY <1>1, SumChangesByOne
<1>3. SumFunctionOnSet(g, S) \in Nat /\ SumFunctionOnSet(f, S) \in Nat /\ f[x] \in Nat
  BY <1>1, SumIsNat
<1> QED
  BY <1>1, <1>2, <1>3
=============================================================================
