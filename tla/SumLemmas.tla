---- MODULE SumLemmas ----
(***************************************************************************)
(* What the theorems about money need to know of SumFunctionOnSet, the sum *)
(* of the values of a function on a finite set.  Its definition recurses   *)
(* over the subsets of that set; the facts below are proved by induction,  *)
(* from the existence of least elements.                                   *)
(***************************************************************************)
EXTENDS Integers, FiniteSets, Functions, FiniteSetTheorems, TLAPS

----
\* Induction

LEMMA LeastNatural ==
  ASSUME NEW N, N \subseteq Nat, N # {}
  PROVE  \E n \in N : \A m \in N : n <= m
<1> DEFINE R == OpToRel(<, Nat)
<1>1. IsWellFoundedOn(R, Nat)
  BY NatLessThanWellFounded
<1>2. \A m, n \in Nat : m < n => <<m, n>> \in R
  BY DEF OpToRel
<1> HIDE DEF R
<1>3. PICK n \in N : \A m \in N : <<m, n>> \notin R
  BY <1>1, WFMin
<1>4. \A m \in N : m \in Nat /\ n \in Nat /\ ~ (m < n)
  BY <1>2, <1>3, Zenon
<1>5. QED
  BY <1>4

(* A set that has zero and the successors of its elements has all numbers. *)
LEMMA Induction ==
  ASSUME NEW N, 0 \in N, \A n \in Nat : n \in N => n + 1 \in N
  PROVE  Nat \subseteq N
<1> SUFFICES ASSUME Nat \ N # {} PROVE FALSE
  OBVIOUS
<1>1. PICK n \in Nat \ N : \A m \in Nat \ N : n <= m
  BY LeastNatural
<1>2. n # 0
  BY <1>1
<1>3. n - 1 \in Nat
  BY <1>1, <1>2
<1>4. n - 1 \in N
  BY <1>1, <1>3
<1>5. (n - 1) + 1 \in N
  BY <1>3, <1>4
<1>6. QED
  BY <1>1, <1>5

(* A class has every subset of a finite set if it has each that it has     *)
(* without any one of its elements.                                        *)
LEMMA SubsetInduction ==
  ASSUME NEW S, IsFiniteSet(S), NEW C,
         \A T \in SUBSET S : (\A x \in T : T \ {x} \in C) => T \in C
  PROVE  SUBSET S \subseteq C
<1> SUFFICES ASSUME NEW B \in SUBSET S, B \notin C PROVE FALSE
  OBVIOUS
<1> DEFINE N == {Cardinality(T) : T \in {U \in SUBSET S : U \notin C}}
<1>1. \A T \in SUBSET S : IsFiniteSet(T) /\ Cardinality(T) \in Nat
  BY FS_Subset, FS_CardinalityType
<1>2. N \subseteq Nat /\ N # {}
  BY <1>1
<1>3. PICK n \in N : \A m \in N : n <= m
  BY <1>2, LeastNatural
<1>4. PICK T \in SUBSET S : T \notin C /\ n = Cardinality(T)
  BY <1>3
<1>5. PICK x \in T : T \ {x} \notin C
  BY <1>4
<1>6. Cardinality(T \ {x}) = Cardinality(T) - 1 /\ T \ {x} \in SUBSET S
  BY <1>1, <1>5, FS_RemoveElement
<1>7. Cardinality(T \ {x}) \in N
  BY <1>5, <1>6
<1>8. n \in Nat
  BY <1>2, <1>3
<1> HIDE DEF N
<1>9. n <= n - 1
  BY <1>3, <1>4, <1>6, <1>7
<1>10. QED
  BY <1>8, <1>9

----
\* The recursion of the sum

Pick(s) == CHOOSE x \in s : TRUE

SumStep(f, s, g) == IF s = {} THEN 0 ELSE f[Pick(s)] + g[s \ {Pick(s)}]

SumsOn(f, D, g) == g = [s \in D |-> SumStep(f, s, g)]

Partial(f, S) == CHOOSE g : SumsOn(f, SUBSET S, g)

LEMMA SumIsPartial ==
  ASSUME NEW f, NEW S
  PROVE  SumFunctionOnSet(f, S) = Partial(f, S)[S]
  BY Zenon DEF SumFunctionOnSet, FoldFunctionOnSet, MapThenFoldSet, Partial, SumsOn, SumStep, Pick

LEMMA PickInside ==
  ASSUME NEW s, s # {}
  PROVE  Pick(s) \in s
  BY DEF Pick

LEMMA PartialExists ==
  ASSUME NEW f, NEW S, IsFiniteSet(S)
  PROVE  \E g : SumsOn(f, SUBSET S, g)
<1> DEFINE Level(n) == {s \in SUBSET S : Cardinality(s) <= n}
           N == {n \in Nat : \E g : SumsOn(f, Level(n), g)}
<1>1. \A T \in SUBSET S : IsFiniteSet(T) /\ Cardinality(T) \in Nat
        /\ Cardinality(T) <= Cardinality(S)
  BY FS_Subset, FS_CardinalityType
<1>2. \A s \in Level(0) : s = {}
  BY <1>1, FS_EmptySet
<1>3. 0 \in N
  <2> DEFINE g == [s \in Level(0) |-> 0]
  <2>1. \A s \in Level(0) : SumStep(f, s, g) = 0
    BY <1>2 DEF SumStep
  <2>2. SumsOn(f, Level(0), g)
    BY <2>1 DEF SumsOn
  <2>3. QED
    BY <2>2
<1>4. ASSUME NEW n \in Nat, n \in N
      PROVE  n + 1 \in N
  <2>1. PICK g : SumsOn(f, Level(n), g)
    BY <1>4
  <2> DEFINE h == [s \in Level(n + 1) |-> SumStep(f, s, g)]
  <2>2. Level(n) \subseteq Level(n + 1)
    BY <1>1
  <2>3. \A s \in Level(n) : g[s] = SumStep(f, s, g)
    BY <2>1 DEF SumsOn
  <2>4. \A s \in Level(n) : h[s] = g[s]
    BY <2>2, <2>3
  <2>5. ASSUME NEW s \in Level(n + 1)
        PROVE  SumStep(f, s, h) = SumStep(f, s, g)
    <3>1. CASE s = {}
      BY <3>1 DEF SumStep
    <3>2. CASE s # {}
      <4>1. Pick(s) \in s
        BY <3>2, PickInside
      <4>2. s \ {Pick(s)} \in Level(n)
        BY <1>1, <4>1, FS_RemoveElement
      <4>3. h[s \ {Pick(s)}] = g[s \ {Pick(s)}]
        BY <2>4, <4>2
      <4> HIDE DEF h
      <4>4. QED
        BY <4>3 DEF SumStep
    <3>3. QED
      BY <3>1, <3>2
  <2>6. SumsOn(f, Level(n + 1), h)
    BY <2>5 DEF SumsOn
  <2>7. n + 1 \in Nat
    OBVIOUS
  <2> HIDE DEF h, Level
  <2>8. QED
    BY <2>6, <2>7
<1>5. Nat \subseteq N
  <2> HIDE DEF N
  <2> QED
    BY <1>3, <1>4, Induction
<1>6. Cardinality(S) \in N
  BY <1>1, <1>5
<1>7. Level(Cardinality(S)) = SUBSET S
  BY <1>1
<1>8. QED
  BY <1>6, <1>7

LEMMA PartialSums ==
  ASSUME NEW f, NEW S, IsFiniteSet(S)
  PROVE  \A s \in SUBSET S : Partial(f, S)[s] = SumStep(f, s, Partial(f, S))
<1>1. SumsOn(f, SUBSET S, Partial(f, S))
  BY PartialExists DEF Partial
<1>2. QED
  BY <1>1 DEF SumsOn

(* A partial sum is the same in whatever set it is taken.                  *)
LEMMA PartialIsSum ==
  ASSUME NEW f, NEW S, IsFiniteSet(S), NEW T \in SUBSET S
  PROVE  Partial(f, S)[T] = SumFunctionOnSet(f, T)
<1> DEFINE C == {s \in SUBSET T : Partial(f, S)[s] = Partial(f, T)[s]}
<1>1. IsFiniteSet(T)
  BY FS_Subset
<1>2. ASSUME NEW s \in SUBSET T, \A x \in s : s \ {x} \in C
      PROVE  s \in C
  <2>1. Partial(f, S)[s] = SumStep(f, s, Partial(f, S))
    BY PartialSums
  <2>2. Partial(f, T)[s] = SumStep(f, s, Partial(f, T))
    BY <1>1, PartialSums
  <2>3. SumStep(f, s, Partial(f, S)) = SumStep(f, s, Partial(f, T))
    BY <1>2, PickInside DEF SumStep
  <2>4. QED
    BY <2>1, <2>2, <2>3
<1>3. SUBSET T \subseteq C
  <2> HIDE DEF C
  <2> QED
    BY <1>1, <1>2, SubsetInduction
<1>4. Partial(f, S)[T] = Partial(f, T)[T]
  BY <1>3
<1>5. QED
  BY <1>4, SumIsPartial

----
\* Facts about sums

LEMMA SumEmpty ==
  ASSUME NEW f
  PROVE  SumFunctionOnSet(f, {}) = 0
<1>1. IsFiniteSet({})
  BY FS_EmptySet
<1>2. Partial(f, {})[{}] = SumStep(f, {}, Partial(f, {}))
  BY <1>1, PartialSums
<1>3. QED
  BY <1>2, SumIsPartial DEF SumStep

LEMMA SumPick ==
  ASSUME NEW f, NEW S, IsFiniteSet(S), S # {}
  PROVE  SumFunctionOnSet(f, S) = f[Pick(S)] + SumFunctionOnSet(f, S \ {Pick(S)})
<1>1. Partial(f, S)[S] = SumStep(f, S, Partial(f, S))
  BY PartialSums
<1>2. Partial(f, S)[S \ {Pick(S)}] = SumFunctionOnSet(f, S \ {Pick(S)})
  BY PartialIsSum
<1>3. QED
  BY <1>1, <1>2, SumIsPartial DEF SumStep

(* The sum of integers is an integer.                                      *)
LEMMA SumInt ==
  ASSUME NEW f, NEW S, IsFiniteSet(S), \A x \in S : f[x] \in Int
  PROVE  SumFunctionOnSet(f, S) \in Int
<1> DEFINE C == {T \in SUBSET S : SumFunctionOnSet(f, T) \in Int}
<1>1. ASSUME NEW T \in SUBSET S, \A x \in T : T \ {x} \in C
      PROVE  T \in C
  <2>1. CASE T = {}
    BY <2>1, SumEmpty
  <2>2. CASE T # {}
    <3>1. IsFiniteSet(T) /\ Pick(T) \in T
      BY <2>2, FS_Subset, PickInside
    <3>2. SumFunctionOnSet(f, T) = f[Pick(T)] + SumFunctionOnSet(f, T \ {Pick(T)})
      BY <2>2, <3>1, SumPick
    <3>3. QED
      BY <1>1, <3>1, <3>2
  <2>3. QED
    BY <2>1, <2>2
<1>2. SUBSET S \subseteq C
  <2> HIDE DEF C
  <2> QED
    BY <1>1, SubsetInduction
<1>3. QED
  BY <1>2

(* Functions that agree on a set have the same sum on it.                  *)
LEMMA SumSame ==
  ASSUME NEW f, NEW h, NEW S, IsFiniteSet(S), \A x \in S : f[x] = h[x]
  PROVE  SumFunctionOnSet(f, S) = SumFunctionOnSet(h, S)
<1> DEFINE C == {T \in SUBSET S : SumFunctionOnSet(f, T) = SumFunctionOnSet(h, T)}
<1>1. ASSUME NEW T \in SUBSET S, \A x \in T : T \ {x} \in C
      PROVE  T \in C
  <2>1. CASE T = {}
    BY <2>1, SumEmpty
  <2>2. CASE T # {}
    <3>1. IsFiniteSet(T) /\ Pick(T) \in T
      BY <2>2, FS_Subset, PickInside
    <3>2. /\ SumFunctionOnSet(f, T) = f[Pick(T)] + SumFunctionOnSet(f, T \ {Pick(T)})
          /\ SumFunctionOnSet(h, T) = h[Pick(T)] + SumFunctionOnSet(h, T \ {Pick(T)})
      BY <2>2, <3>1, SumPick
    <3>3. QED
      BY <1>1, <3>1, <3>2
  <2>3. QED
    BY <2>1, <2>2
<1>2. SUBSET S \subseteq C
  <2> HIDE DEF C
  <2> QED
    BY <1>1, SubsetInduction
<1>3. QED
  BY <1>2

(* Any element of the set can be taken out of a sum of integers.           *)
LEMMA SumSplit ==
  ASSUME NEW f, NEW S, IsFiniteSet(S), \A x \in S : f[x] \in Int, NEW a \in S
  PROVE  SumFunctionOnSet(f, S) = f[a] + SumFunctionOnSet(f, S \ {a})
<1> DEFINE C == {T \in SUBSET S :
                   \A e \in T : SumFunctionOnSet(f, T) = f[e] + SumFunctionOnSet(f, T \ {e})}
<1>1. ASSUME NEW T \in SUBSET S, \A x \in T : T \ {x} \in C
      PROVE  T \in C
  <2> SUFFICES ASSUME NEW e \in T
               PROVE  SumFunctionOnSet(f, T) = f[e] + SumFunctionOnSet(f, T \ {e})
    OBVIOUS
  <2> DEFINE b == Pick(T)
             U == T \ {e}
             V == T \ {b}
  <2>1. IsFiniteSet(T) /\ b \in T
    BY FS_Subset, PickInside
  <2>2. SumFunctionOnSet(f, T) = f[b] + SumFunctionOnSet(f, V)
    BY <2>1, SumPick
  <2> HIDE DEF b
  <2>3. CASE b = e
    BY <2>2, <2>3
  <2>4. CASE b # e
    <3>1. SumFunctionOnSet(f, V) = f[e] + SumFunctionOnSet(f, V \ {e})
      <4>1. e \in V /\ V \in C
        BY <1>1, <2>1, <2>4
      <4>2. QED
        BY <4>1
    <3>2. SumFunctionOnSet(f, U) = f[b] + SumFunctionOnSet(f, U \ {b})
      <4>1. b \in U /\ U \in C
        BY <1>1, <2>1, <2>4
      <4>2. QED
        BY <4>1
    <3>3. U \ {b} = V \ {e}
      OBVIOUS
    <3>4. SumFunctionOnSet(f, V \ {e}) \in Int
      <4>1. IsFiniteSet(V \ {e}) /\ \A x \in V \ {e} : f[x] \in Int
        BY <2>1, FS_Subset
      <4>2. QED
        BY <4>1, SumInt
    <3>5. f[b] \in Int /\ f[e] \in Int
      BY <2>1
    <3> HIDE DEF U, V
    <3>6. PICK x \in Int, y \in Int, w \in Int :
            x = f[b] /\ y = f[e] /\ w = SumFunctionOnSet(f, V \ {e})
      BY <3>4, <3>5
    <3>7. SumFunctionOnSet(f, U) = x + w
      BY <3>2, <3>3, <3>6
    <3>8. SumFunctionOnSet(f, T) = x + (y + w)
      BY <2>2, <3>1, <3>6
    <3>9. x + (y + w) = y + (x + w)
      OBVIOUS
    <3>10. SumFunctionOnSet(f, T) = f[e] + SumFunctionOnSet(f, U)
      BY <3>6, <3>7, <3>8, <3>9
    <3>11. QED
      BY <3>10 DEF U
  <2>5. QED
    BY <2>3, <2>4
<1>2. SUBSET S \subseteq C
  <2> HIDE DEF C
  <2> QED
    BY <1>1, SubsetInduction
<1>3. QED
  BY <1>2

(* Changing a function at one element changes its sum by as much.          *)
LEMMA SumUpdate ==
  ASSUME NEW f, NEW h, NEW S, IsFiniteSet(S), NEW a \in S,
         \A x \in S : f[x] \in Int, h[a] \in Int, \A x \in S \ {a} : h[x] = f[x]
  PROVE  SumFunctionOnSet(h, S) = SumFunctionOnSet(f, S) + (h[a] - f[a])
<1>1. IsFiniteSet(S \ {a}) /\ \A x \in S \ {a} : f[x] \in Int
  BY FS_Subset
<1>2. SumFunctionOnSet(h, S \ {a}) = SumFunctionOnSet(f, S \ {a})
  BY <1>1, SumSame
<1>3. SumFunctionOnSet(f, S \ {a}) \in Int
  BY <1>1, SumInt
<1>4. SumFunctionOnSet(f, S) = f[a] + SumFunctionOnSet(f, S \ {a})
  BY SumSplit
<1>5. \A x \in S : h[x] \in Int
  OBVIOUS
<1>6. SumFunctionOnSet(h, S) = h[a] + SumFunctionOnSet(h, S \ {a})
  BY <1>5, SumSplit
<1>7. f[a] \in Int
  OBVIOUS
<1>8. QED
  BY <1>2, <1>3, <1>4, <1>6, <1>7

(* A set that gains an element gains its value.                            *)
LEMMA SumAdd ==
  ASSUME NEW f, NEW S, IsFiniteSet(S), NEW a, a \notin S,
         \A x \in S \cup {a} : f[x] \in Int
  PROVE  SumFunctionOnSet(f, S \cup {a}) = f[a] + SumFunctionOnSet(f, S)
<1>1. IsFiniteSet(S \cup {a}) /\ (S \cup {a}) \ {a} = S
  BY FS_AddElement
<1>2. QED
  BY <1>1, SumSplit

(* A function that is zero on a set sums up to zero.                       *)
LEMMA SumZero ==
  ASSUME NEW f, NEW S, IsFiniteSet(S), \A x \in S : f[x] = 0
  PROVE  SumFunctionOnSet(f, S) = 0
<1> DEFINE C == {T \in SUBSET S : SumFunctionOnSet(f, T) = 0}
<1>1. ASSUME NEW T \in SUBSET S, \A x \in T : T \ {x} \in C
      PROVE  T \in C
  <2>1. CASE T = {}
    BY <2>1, SumEmpty
  <2>2. CASE T # {}
    <3>1. IsFiniteSet(T) /\ Pick(T) \in T
      BY <2>2, FS_Subset, PickInside
    <3>2. SumFunctionOnSet(f, T) = f[Pick(T)] + SumFunctionOnSet(f, T \ {Pick(T)})
      BY <2>2, <3>1, SumPick
    <3>3. QED
      BY <1>1, <3>1, <3>2
  <2>3. QED
    BY <2>1, <2>2
<1>2. SUBSET S \subseteq C
  <2> HIDE DEF C
  <2> QED
    BY <1>1, SubsetInduction
<1>3. QED
  BY <1>2

(* A sum of natural numbers is one, and not zero unless all of them are.   *)
LEMMA SumNat ==
  ASSUME NEW f, NEW S, IsFiniteSet(S), \A x \in S : f[x] \in Nat
  PROVE  /\ SumFunctionOnSet(f, S) \in Nat
         /\ \A a \in S : SumFunctionOnSet(f, S) >= f[a]
<1> DEFINE C == {T \in SUBSET S : SumFunctionOnSet(f, T) \in Nat}
<1>1. ASSUME NEW T \in SUBSET S, \A x \in T : T \ {x} \in C
      PROVE  T \in C
  <2>1. CASE T = {}
    BY <2>1, SumEmpty
  <2>2. CASE T # {}
    <3>1. IsFiniteSet(T) /\ Pick(T) \in T
      BY <2>2, FS_Subset, PickInside
    <3>2. SumFunctionOnSet(f, T) = f[Pick(T)] + SumFunctionOnSet(f, T \ {Pick(T)})
      BY <2>2, <3>1, SumPick
    <3>3. QED
      BY <1>1, <3>1, <3>2
  <2>3. QED
    BY <2>1, <2>2
<1>2. SUBSET S \subseteq C
  <2> HIDE DEF C
  <2> QED
    BY <1>1, SubsetInduction
<1>3. ASSUME NEW a \in S
      PROVE  SumFunctionOnSet(f, S) >= f[a]
  <2>1. SumFunctionOnSet(f, S) = f[a] + SumFunctionOnSet(f, S \ {a})
    <3>1. \A x \in S : f[x] \in Int
      OBVIOUS
    <3>2. QED
      BY <3>1, SumSplit
  <2>2. SumFunctionOnSet(f, S \ {a}) \in Nat /\ f[a] \in Nat
    BY <1>2
  <2>3. QED
    BY <2>1, <2>2
<1>4. QED
  BY <1>2, <1>3

(* A sum when a value joins it, and when one leaves it.                    *)
LEMMA SumGains ==
  ASSUME NEW f, NEW h, NEW S, IsFiniteSet(S), NEW a, a \notin S, h[a] \in Int,
         \A x \in S : f[x] \in Int /\ h[x] = f[x]
  PROVE  SumFunctionOnSet(h, S \cup {a}) = SumFunctionOnSet(f, S) + h[a]
<1>1. SumFunctionOnSet(h, S \cup {a}) = h[a] + SumFunctionOnSet(h, S)
  BY SumAdd
<1>2. SumFunctionOnSet(h, S) = SumFunctionOnSet(f, S)
  BY SumSame
<1>3. SumFunctionOnSet(f, S) \in Int
  BY SumInt
<1>4. QED
  BY <1>1, <1>2, <1>3

LEMMA SumLoses ==
  ASSUME NEW f, NEW h, NEW S, IsFiniteSet(S), NEW a \in S,
         \A x \in S : f[x] \in Int, \A x \in S \ {a} : h[x] = f[x]
  PROVE  SumFunctionOnSet(f, S) = f[a] + SumFunctionOnSet(h, S \ {a})
<1>1. IsFiniteSet(S \ {a}) /\ \A x \in S \ {a} : f[x] \in Int
  BY FS_Subset
<1>2. SumFunctionOnSet(f, S) = f[a] + SumFunctionOnSet(f, S \ {a})
  BY SumSplit
<1>3. SumFunctionOnSet(h, S \ {a}) = SumFunctionOnSet(f, S \ {a})
  BY <1>1, SumSame
<1>4. QED
  BY <1>2, <1>3

(* What the values of two functions differ by sums to the difference.      *)
LEMMA SumDifference ==
  ASSUME NEW f, NEW h, NEW d, NEW S, IsFiniteSet(S),
         \A x \in S : f[x] \in Int /\ h[x] \in Int /\ d[x] = f[x] - h[x]
  PROVE  SumFunctionOnSet(f, S) - SumFunctionOnSet(h, S) = SumFunctionOnSet(d, S)
<1> DEFINE C == {T \in SUBSET S :
                   SumFunctionOnSet(f, T) = SumFunctionOnSet(d, T) + SumFunctionOnSet(h, T)}
<1>1. ASSUME NEW T \in SUBSET S, \A x \in T : T \ {x} \in C
      PROVE  T \in C
  <2>1. CASE T = {}
    BY <2>1, SumEmpty
  <2>2. CASE T # {}
    <3> DEFINE p == Pick(T)
               R == T \ {p}
    <3>1. IsFiniteSet(T) /\ IsFiniteSet(R) /\ p \in S /\ p \in T
      BY <2>2, FS_Subset, PickInside
    <3>2. /\ SumFunctionOnSet(f, T) = f[p] + SumFunctionOnSet(f, R)
          /\ SumFunctionOnSet(h, T) = h[p] + SumFunctionOnSet(h, R)
          /\ SumFunctionOnSet(d, T) = d[p] + SumFunctionOnSet(d, R)
      BY <2>2, <3>1, SumPick
    <3>3. R \in C
      BY <1>1, <3>1
    <3>4. /\ SumFunctionOnSet(h, R) \in Int /\ SumFunctionOnSet(d, R) \in Int
          /\ SumFunctionOnSet(f, R) = SumFunctionOnSet(d, R) + SumFunctionOnSet(h, R)
      <4>1. /\ \A x \in R : h[x] \in Int
            /\ \A x \in R : d[x] \in Int
        OBVIOUS
      <4> HIDE DEF R
      <4>2. SumFunctionOnSet(h, R) \in Int /\ SumFunctionOnSet(d, R) \in Int
        BY <3>1, <4>1, SumInt
      <4>3. QED
        BY <3>3, <4>2
    <3> HIDE DEF p, R
    <3>5. f[p] \in Int /\ h[p] \in Int /\ d[p] = f[p] - h[p]
      BY <3>1
    <3>6. SumFunctionOnSet(f, T) = SumFunctionOnSet(d, T) + SumFunctionOnSet(h, T)
      BY <3>2, <3>4, <3>5
    <3>7. QED
      BY <3>6
  <2>3. QED
    BY <2>1, <2>2
<1>2. SUBSET S \subseteq C
  <2> HIDE DEF C
  <2> QED
    BY <1>1, SubsetInduction
<1>3. /\ \A x \in S : h[x] \in Int
      /\ \A x \in S : d[x] \in Int
  OBVIOUS
<1>4. SumFunctionOnSet(h, S) \in Int /\ SumFunctionOnSet(d, S) \in Int
  BY <1>3, SumInt
<1>5. SumFunctionOnSet(f, S) = SumFunctionOnSet(d, S) + SumFunctionOnSet(h, S)
  BY <1>2
<1>6. QED
  BY <1>4, <1>5

(* Values of zero may be left out of a sum.                                *)
LEMMA SumNarrow ==
  ASSUME NEW f, NEW S, IsFiniteSet(S), \A x \in S : f[x] \in Int,
         NEW T \in SUBSET S, \A x \in S \ T : f[x] = 0
  PROVE  SumFunctionOnSet(f, S) = SumFunctionOnSet(f, T)
<1> DEFINE C == {U \in SUBSET S : SumFunctionOnSet(f, U) = SumFunctionOnSet(f, U \cap T)}
<1>1. ASSUME NEW U \in SUBSET S, \A x \in U : U \ {x} \in C
      PROVE  U \in C
  <2>1. CASE U = {}
    BY <2>1
  <2>2. CASE U # {}
    <3>1. PICK p \in U : TRUE
      BY <2>2
    <3> DEFINE R == U \ {p}
    <3>2. IsFiniteSet(U) /\ IsFiniteSet(R \cap T) /\ \A x \in U : f[x] \in Int
      BY FS_Subset
    <3>3. SumFunctionOnSet(f, U) = f[p] + SumFunctionOnSet(f, R)
      BY <3>1, <3>2, SumSplit
    <3>4. SumFunctionOnSet(f, R) = SumFunctionOnSet(f, R \cap T)
      BY <1>1, <3>1
    <3>5. SumFunctionOnSet(f, R \cap T) \in Int
      BY <3>2, SumInt
    <3>6. CASE p \in T
      <4>1. U \cap T = (R \cap T) \cup {p} /\ p \notin R \cap T
        BY <3>1, <3>6
      <4>2. \A x \in (R \cap T) \cup {p} : f[x] \in Int
        BY <3>1, <3>2
      <4> HIDE DEF R
      <4>3. SumFunctionOnSet(f, (R \cap T) \cup {p}) = f[p] + SumFunctionOnSet(f, R \cap T)
        BY <3>2, <4>1, <4>2, SumAdd
      <4>4. QED
        BY <3>3, <3>4, <4>1, <4>3
    <3>7. CASE p \notin T
      <4>1. U \cap T = R \cap T /\ f[p] = 0
        BY <3>1, <3>7
      <4> HIDE DEF R
      <4>2. PICK n \in Int : n = SumFunctionOnSet(f, R \cap T)
        BY <3>5
      <4>3. SumFunctionOnSet(f, U) = n
        BY <3>3, <3>4, <4>1, <4>2
      <4>4. QED
        BY <4>1, <4>2, <4>3
    <3>8. QED
      BY <3>6, <3>7
  <2>3. QED
    BY <2>1, <2>2
<1>2. SUBSET S \subseteq C
  <2> HIDE DEF C
  <2> QED
    BY <1>1, SubsetInduction
<1>3. S \cap T = T
  OBVIOUS
<1>4. SumFunctionOnSet(f, S) = SumFunctionOnSet(f, S \cap T)
  BY <1>2
<1>5. QED
  BY <1>3, <1>4

(* A sum taken key by key is the sum.                                      *)
LEMMA SumByKey ==
  ASSUME NEW f, NEW S, IsFiniteSet(S), \A x \in S : f[x] \in Int,
         NEW key, NEW K, IsFiniteSet(K), \A x \in S : key[x] \in K,
         NEW h, \A k \in K : h[k] = SumFunctionOnSet(f, {x \in S : key[x] = k})
  PROVE  SumFunctionOnSet(h, K) = SumFunctionOnSet(f, S)
<1> DEFINE Of(T, k) == {x \in T : key[x] = k}
           By(T) == [k \in K |-> SumFunctionOnSet(f, Of(T, k))]
           C == {T \in SUBSET S : SumFunctionOnSet(By(T), K) = SumFunctionOnSet(f, T)}
<1>1. \A T \in SUBSET S, k \in K : By(T)[k] \in Int
  <2> SUFFICES ASSUME NEW T \in SUBSET S, NEW k \in K
               PROVE  SumFunctionOnSet(f, Of(T, k)) \in Int
    OBVIOUS
  <2>1. IsFiniteSet(Of(T, k)) /\ \A x \in Of(T, k) : f[x] \in Int
    BY FS_Subset
  <2> HIDE DEF Of
  <2>2. QED
    BY <2>1, SumInt
<1>2. ASSUME NEW T \in SUBSET S, \A x \in T : T \ {x} \in C
      PROVE  T \in C
  <2>1. CASE T = {}
    <3>1. \A k \in K : By(T)[k] = 0
      <4>1. \A k \in K : Of(T, k) = {}
        BY <2>1
      <4> HIDE DEF Of
      <4>2. QED
        BY <4>1, SumEmpty
    <3> HIDE DEF By
    <3>2. SumFunctionOnSet(By(T), K) = 0
      BY <3>1, SumZero
    <3>3. SumFunctionOnSet(f, T) = 0
      BY <2>1, SumEmpty
    <3>4. QED
      BY <3>2, <3>3
  <2>2. CASE T # {}
    <3>1. PICK p \in T : TRUE
      BY <2>2
    <3> DEFINE R == T \ {p}
               a == key[p]
    <3>2. a \in K /\ R \in SUBSET S /\ R \in C
      BY <1>2, <3>1
    <3>3. By(T)[a] = f[p] + By(R)[a]
      <4>1. Of(T, a) = Of(R, a) \cup {p} /\ p \notin Of(R, a)
        BY <3>1
      <4>2. IsFiniteSet(Of(R, a)) /\ \A x \in Of(R, a) \cup {p} : f[x] \in Int
        BY <3>1, FS_Subset
      <4> HIDE DEF Of, R, a
      <4>3. SumFunctionOnSet(f, Of(R, a) \cup {p}) = f[p] + SumFunctionOnSet(f, Of(R, a))
        BY <4>1, <4>2, SumAdd
      <4>4. QED
        BY <3>2, <4>1, <4>3
    <3>4. \A k \in K \ {a} : By(T)[k] = By(R)[k]
      <4>1. \A k \in K \ {a} : Of(T, k) = Of(R, k)
        OBVIOUS
      <4> HIDE DEF Of
      <4>2. QED
        BY <4>1
    <3>5. SumFunctionOnSet(f, T) = f[p] + SumFunctionOnSet(f, R)
      <4>1. IsFiniteSet(T) /\ \A x \in T : f[x] \in Int
        BY FS_Subset
      <4>2. QED
        BY <3>1, <4>1, SumSplit
    <3>6. SumFunctionOnSet(By(R), K) = SumFunctionOnSet(f, R)
      BY <3>2
    <3>7. f[p] \in Int /\ By(R)[a] \in Int /\ By(T)[a] \in Int
          /\ \A k \in K : By(R)[k] \in Int
      BY <1>1, <3>1, <3>2
    <3> HIDE DEF By, R, a
    <3>8. SumFunctionOnSet(By(T), K) = SumFunctionOnSet(By(R), K) + (By(T)[a] - By(R)[a])
      BY <3>2, <3>4, <3>7, SumUpdate
    <3>9. SumFunctionOnSet(By(R), K) \in Int
      BY <3>7, SumInt
    <3>10. SumFunctionOnSet(By(T), K) = SumFunctionOnSet(f, T)
      BY <3>3, <3>5, <3>6, <3>7, <3>8, <3>9
    <3>11. QED
      BY <3>10
  <2>3. QED
    BY <2>1, <2>2
<1>3. SUBSET S \subseteq C
  <2> HIDE DEF C
  <2> QED
    BY <1>2, SubsetInduction
<1>4. SumFunctionOnSet(By(S), K) = SumFunctionOnSet(f, S)
  BY <1>3
<1>5. \A k \in K : By(S)[k] = h[k]
  OBVIOUS
<1>6. SumFunctionOnSet(By(S), K) = SumFunctionOnSet(h, K)
  <2> HIDE DEF By
  <2> QED
    BY <1>5, SumSame
<1>7. QED
  BY <1>4, <1>6

====
