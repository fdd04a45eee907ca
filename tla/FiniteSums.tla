------------------------------ MODULE FiniteSums ------------------------------
(***************************************************************************)
(* Facts about SumFunction of the community modules, for the invariants    *)
(* that add up what the steps of a run did.                                *)
(*                                                                         *)
(* The sum is a recursive function, so everything here is an induction.    *)
(* The induction theorems of the library take the proposition as an        *)
(* operator parameter; here the proposition is a set, and the principle    *)
(* follows from the minimal element that WFMin gives.                      *)
(***************************************************************************)
EXTENDS Integers, Functions, FiniteSetTheorems, TLAPS

---------------------------------------------------------------------------
(* Induction. *)

\* Every set of natural numbers that is not empty has a least element.
LEMMA LeastNatural ==
  ASSUME NEW T \in SUBSET Nat, T # {}
  PROVE  \E x \in T : \A y \in T : x <= y
<1> DEFINE R == OpToRel(<, Nat)
<1>1. IsWellFoundedOn(R, Nat)
  BY NatLessThanWellFounded
<1>2. \A x, y \in Nat : x < y => <<x, y>> \in R
  BY DEF OpToRel
<1> HIDE DEF R
<1>3. PICK x \in T : \A y \in T : ~(<<y, x>> \in R)
  BY <1>1, WFMin
<1>4. \A y \in T : ~(y < x)
  BY <1>2, <1>3
<1> QED
  BY <1>4

\* Induction over the natural numbers, for a set.
LEMMA InductionOnNat ==
  ASSUME NEW N, 0 \in N, \A n \in Nat : n \in N => n + 1 \in N
  PROVE  Nat \subseteq N
<1> SUFFICES ASSUME Nat \ N # {} PROVE FALSE
  OBVIOUS
<1>1. PICK x \in Nat \ N : \A y \in Nat \ N : x <= y
  BY LeastNatural
<1>2. x # 0 /\ x - 1 \in Nat /\ x - 1 \in N
  BY <1>1
<1> QED
  BY <1>1, <1>2

\* Taking an element out of a subset of a finite set.
LEMMA OneFewer ==
  ASSUME NEW S, IsFiniteSet(S), NEW s \in SUBSET S, NEW x \in s
  PROVE  /\ s \ {x} \in SUBSET S
         /\ Cardinality(s) \in Nat \ {0} /\ Cardinality(s \ {x}) = Cardinality(s) - 1
<1>1. IsFiniteSet(s)
  BY FS_Subset
<1>2. Cardinality(s) \in Nat /\ Cardinality(s) # 0
  BY <1>1, FS_CardinalityType, FS_EmptySet
<1> QED
  BY <1>1, <1>2, FS_RemoveElement

\* The subsets of S with at most n elements.
UpTo(S, n) == {s \in SUBSET S : Cardinality(s) <= n}

LEMMA UpToZero ==
  ASSUME NEW S, IsFiniteSet(S), NEW s \in UpTo(S, 0)
  PROVE  s = {}
<1>1. IsFiniteSet(s) /\ Cardinality(s) <= 0
  BY FS_Subset DEF UpTo
<1> QED
  BY <1>1, FS_CardinalityType, FS_EmptySet

LEMMA UpToAll ==
  ASSUME NEW S, IsFiniteSet(S)
  PROVE  Cardinality(S) \in Nat /\ UpTo(S, Cardinality(S)) = SUBSET S
BY FS_CardinalityType, FS_Subset DEF UpTo

\* Induction over the subsets of a finite set: from those with one element fewer.
LEMMA InductionOnSubsets ==
  ASSUME NEW S, IsFiniteSet(S), NEW G, {} \in G,
         \A s \in SUBSET S : s # {} /\ (\A x \in s : s \ {x} \in G) => s \in G
  PROVE  SUBSET S \subseteq G
<1> DEFINE N == {n \in Nat : UpTo(S, n) \subseteq G}
<1>1. 0 \in N
  BY UpToZero
<1>2. ASSUME NEW n \in Nat, n \in N PROVE n + 1 \in N
  <2> SUFFICES ASSUME NEW s \in UpTo(S, n + 1), s # {} PROVE s \in G
    OBVIOUS
  <2>1. s \in SUBSET S /\ Cardinality(s) <= n + 1
    BY DEF UpTo
  <2>2. ASSUME NEW x \in s PROVE s \ {x} \in G
    <3>1. s \ {x} \in SUBSET S /\ Cardinality(s) \in Nat
          /\ Cardinality(s \ {x}) = Cardinality(s) - 1
      BY <2>1, OneFewer
    <3>2. s \ {x} \in UpTo(S, n)
      BY <2>1, <3>1 DEF UpTo
    <3> QED
      BY <1>2, <3>2
  <2> QED
    BY <2>1, <2>2
<1> HIDE DEF N
<1>3. Nat \subseteq N
  BY <1>1, <1>2, InductionOnNat
<1> QED
  BY <1>3, UpToAll DEF N

---------------------------------------------------------------------------
(* The recursive function behind a sum is well defined. *)

SumPick(s) == CHOOSE x \in s : TRUE
SumStep(f, g, s) == IF s = {} THEN 0 ELSE f[SumPick(s)] + g[s \ {SumPick(s)}]
SumIter(f, S) == CHOOSE g : g = [s \in SUBSET S |-> SumStep(f, g, s)]

LEMMA SumIsIter ==
  ASSUME NEW f, NEW S
  PROVE  SumFunctionOnSet(f, S) = SumIter(f, S)[S]
BY Zenon DEF SumFunctionOnSet, FoldFunctionOnSet, MapThenFoldSet, SumIter, SumStep, SumPick

LEMMA PickIn == \A s : s # {} => SumPick(s) \in s
BY DEF SumPick

\* A function on the subsets of at most n elements that satisfies the recursion.
Stage(f, S, n) == \E g : g = [s \in UpTo(S, n) |-> SumStep(f, g, s)]

LEMMA StageZero ==
  ASSUME NEW f, NEW S, IsFiniteSet(S)
  PROVE  Stage(f, S, 0)
<1> DEFINE g == [s \in UpTo(S, 0) |-> 0]
<1>1. g = [s \in UpTo(S, 0) |-> SumStep(f, g, s)]
  BY UpToZero DEF SumStep
<1> HIDE DEF g
<1> QED
  BY <1>1, Zenon DEF Stage

LEMMA StageNext ==
  ASSUME NEW f, NEW S, IsFiniteSet(S), NEW n \in Nat, Stage(f, S, n)
  PROVE  Stage(f, S, n + 1)
<1>1. PICK g : g = [s \in UpTo(S, n) |-> SumStep(f, g, s)]
  BY Zenon DEF Stage
<1> DEFINE h == [s \in UpTo(S, n + 1) |-> SumStep(f, g, s)]
<1>2. ASSUME NEW s \in UpTo(S, n + 1) PROVE SumStep(f, g, s) = SumStep(f, h, s)
  <2>1. CASE s = {}
    BY <2>1 DEF SumStep
  <2>2. CASE s # {}
    <3> DEFINE t == s \ {SumPick(s)}
    <3>1. s \in SUBSET S /\ Cardinality(s) <= n + 1
      BY DEF UpTo
    <3>2. SumPick(s) \in s
      BY <2>2, PickIn
    <3>3. t \in SUBSET S /\ Cardinality(s) \in Nat /\ Cardinality(t) = Cardinality(s) - 1
      BY <3>1, <3>2, OneFewer
    <3>4. t \in UpTo(S, n) /\ t \in UpTo(S, n + 1)
      BY <3>1, <3>3 DEF UpTo
    <3>5. h[t] = g[t]
      BY <1>1, <3>4
    <3> QED
      BY <3>5 DEF SumStep
  <2> QED
    BY <2>1, <2>2
<1>3. h = [s \in UpTo(S, n + 1) |-> SumStep(f, h, s)]
  BY <1>2
<1> HIDE DEF h
<1> QED
  BY <1>3, Zenon DEF Stage

\* The recursion has a solution over all subsets of a finite set.
LEMMA IterUnfolds ==
  ASSUME NEW f, NEW S, IsFiniteSet(S), NEW s \in SUBSET S
  PROVE  SumIter(f, S)[s] = SumStep(f, SumIter(f, S), s)
<1> DEFINE N == {n \in Nat : Stage(f, S, n)}
<1>1. 0 \in N /\ \A n \in Nat : n \in N => n + 1 \in N
  BY StageZero, StageNext
<1> HIDE DEF N
<1>2. Nat \subseteq N
  BY <1>1, InductionOnNat
<1>3. Stage(f, S, Cardinality(S))
  BY <1>2, UpToAll DEF N
<1>4. PICK g : g = [t \in SUBSET S |-> SumStep(f, g, t)]
  BY <1>3, UpToAll, Zenon DEF Stage
<1>5. SumIter(f, S) = [t \in SUBSET S |-> SumStep(f, SumIter(f, S), t)]
  BY <1>4 DEF SumIter
<1> QED
  BY <1>5

LEMMA IterNat ==
  ASSUME NEW f, NEW S, IsFiniteSet(S), \A x \in S : f[x] \in Nat
  PROVE  \A s \in SUBSET S : SumIter(f, S)[s] \in Nat
<1> DEFINE G == {s \in SUBSET S : SumIter(f, S)[s] \in Nat}
<1>1. {} \in G
  BY IterUnfolds DEF SumStep
<1>2. ASSUME NEW s \in SUBSET S, s # {}, \A x \in s : s \ {x} \in G PROVE s \in G
  <2>1. SumPick(s) \in s
    BY <1>2, PickIn
  <2>2. SumIter(f, S)[s] = f[SumPick(s)] + SumIter(f, S)[s \ {SumPick(s)}]
    BY <1>2, IterUnfolds DEF SumStep
  <2> QED
    BY <1>2, <2>1, <2>2
<1> HIDE DEF G
<1>3. SUBSET S \subseteq G
  BY <1>1, <1>2, InductionOnSubsets
<1> QED
  BY <1>3 DEF G

\* Any element may be the first: the choice of the recursion does not matter.
LEMMA IterAny ==
  ASSUME NEW f, NEW S, IsFiniteSet(S), \A x \in S : f[x] \in Nat
  PROVE  \A s \in SUBSET S : \A x \in s :
           SumIter(f, S)[s] = f[x] + SumIter(f, S)[s \ {x}]
<1> DEFINE I == SumIter(f, S)
           G == {s \in SUBSET S : \A x \in s : I[s] = f[x] + I[s \ {x}]}
<1>0. \A s \in SUBSET S : I[s] \in Nat
  BY IterNat
<1>1. {} \in G
  OBVIOUS
<1>2. ASSUME NEW s \in SUBSET S, s # {}, \A x \in s : s \ {x} \in G PROVE s \in G
  <2> DEFINE c == SumPick(s)
  <2>1. c \in s
    BY <1>2, PickIn
  <2>2. I[s] = f[c] + I[s \ {c}]
    BY <1>2, IterUnfolds DEF SumStep
  <2> HIDE DEF c, I
  <2>3. ASSUME NEW x \in s PROVE I[s] = f[x] + I[s \ {x}]
    <3>1. CASE x = c
      BY <2>2, <3>1
    <3>2. CASE x # c
      <4>1. I[s \ {c}] = f[x] + I[(s \ {c}) \ {x}]
        BY <1>2, <2>1, <3>2
      <4>2. I[s \ {x}] = f[c] + I[(s \ {x}) \ {c}]
        BY <1>2, <2>1, <3>2
      <4>3. (s \ {c}) \ {x} = (s \ {x}) \ {c}
        OBVIOUS
      <4>4. f[x] \in Nat /\ f[c] \in Nat /\ I[(s \ {x}) \ {c}] \in Nat
        BY <1>0, <2>1
      <4> QED
        BY <2>2, <4>1, <4>2, <4>3, <4>4
    <3> QED
      BY <3>1, <3>2
  <2> QED
    BY <2>3
<1> HIDE DEF G
<1>3. SUBSET S \subseteq G
  BY <1>1, <1>2, InductionOnSubsets
<1> QED
  BY <1>3 DEF G

\* A sum depends on the values over its indices alone.
LEMMA IterSame ==
  ASSUME NEW f, NEW g, NEW S, NEW T, IsFiniteSet(S), IsFiniteSet(T),
         \A x \in S : x \in T => f[x] = g[x]
  PROVE  \A s \in SUBSET S : s \subseteq T => SumIter(f, S)[s] = SumIter(g, T)[s]
<1> DEFINE G == {s \in SUBSET S : s \subseteq T => SumIter(f, S)[s] = SumIter(g, T)[s]}
<1>1. {} \in G
  BY IterUnfolds, ZenonT(40) DEF SumStep
<1>2. ASSUME NEW s \in SUBSET S, s # {}, \A x \in s : s \ {x} \in G PROVE s \in G
  <2> SUFFICES ASSUME s \subseteq T PROVE SumIter(f, S)[s] = SumIter(g, T)[s]
    OBVIOUS
  <2>1. SumPick(s) \in s
    BY <1>2, PickIn
  <2>2. s \in SUBSET S /\ s \in SUBSET T /\ s # {}
    BY <1>2
  <2>3. SumIter(f, S)[s] = SumStep(f, SumIter(f, S), s)
    BY <2>2, IterUnfolds
  <2>4. SumIter(g, T)[s] = SumStep(g, SumIter(g, T), s)
    BY <2>2, IterUnfolds
  <2>5. SumIter(f, S)[s \ {SumPick(s)}] = SumIter(g, T)[s \ {SumPick(s)}]
    BY <1>2, <2>1
  <2> QED
    BY <2>1, <2>2, <2>3, <2>4, <2>5 DEF SumStep
<1> HIDE DEF G
<1>3. SUBSET S \subseteq G
  BY <1>1, <1>2, InductionOnSubsets
<1> QED
  BY <1>3 DEF G

\* One index more: the sum is greater by the value there.
LEMMA IterAdds ==
  ASSUME NEW f, NEW g, NEW S, NEW T, NEW x, IsFiniteSet(S), x \notin S, T = S \cup {x},
         \A y \in S : g[y] = f[y], \A y \in T : g[y] \in Nat
  PROVE  SumIter(g, T)[T] = SumIter(f, S)[S] + g[x]
<1>1. IsFiniteSet(T)
  BY FS_AddElement
<1>2. T \in SUBSET T /\ x \in T /\ S \in SUBSET T
  OBVIOUS
<1>3. SumIter(g, T)[T] = g[x] + SumIter(g, T)[T \ {x}]
  BY <1>1, <1>2, IterAny
<1>4. T \ {x} = S
  OBVIOUS
<1>5. SumIter(g, T)[S] = SumIter(f, S)[S]
  BY <1>1, IterSame
<1>6. SumIter(g, T)[S] \in Nat /\ g[x] \in Nat
  BY <1>1, <1>2, IterNat
<1>7. SumIter(g, T)[T] = g[x] + SumIter(g, T)[S]
  BY <1>3, <1>4, Zenon
<1> QED
  BY <1>5, <1>6, <1>7

---------------------------------------------------------------------------
(* Sums. *)

\* The sum of a function with an empty domain is zero.
LEMMA SumOfNone ==
  ASSUME NEW f, DOMAIN f = {}
  PROVE  SumFunction(f) = 0
BY SumIsIter, IterUnfolds, FS_EmptySet DEF SumFunction, SumStep

\* A sum of natural numbers is one.
LEMMA SumIsNat ==
  ASSUME NEW f, IsFiniteSet(DOMAIN f), \A x \in DOMAIN f : f[x] \in Nat
  PROVE  SumFunction(f) \in Nat
BY SumIsIter, IterNat DEF SumFunction

\* Whatever the order, the sum over a domain with one index more is the sum over the
\* domain without it and the value there.
LEMMA SumOfOneMore ==
  ASSUME NEW f, NEW g, NEW x, x \notin DOMAIN f, IsFiniteSet(DOMAIN f),
         DOMAIN g = DOMAIN f \cup {x}, \A y \in DOMAIN f : g[y] = f[y],
         \A y \in DOMAIN g : g[y] \in Nat
  PROVE  SumFunction(g) = SumFunction(f) + g[x]
BY IterAdds, SumIsIter DEF SumFunction

=============================================================================
