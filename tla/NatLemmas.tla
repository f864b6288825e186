----------------------------- MODULE NatLemmas -----------------------------
(***************************************************************************)
(* Facts about natural numbers and finite sets that the proofs of several  *)
(* modules use: a scan of a table that stops at the first match finds the  *)
(* least index, a scan for a maximum finds one, a definition by recursion  *)
(* over the subsets of a finite set defines a function, and a sum does not *)
(* depend on the order in which its terms are taken.                       *)
(***************************************************************************)
EXTENDS Integers, FiniteSetTheorems, WellFoundedInduction, TLAPS

LessThan == {ss \in Nat \X Nat : ss[1] < ss[2]}

\* A nonempty set of natural numbers has a least element.
LEMMA LeastNatural ==
  ASSUME NEW S \in SUBSET Nat, S # {}
  PROVE  \E i \in S : \A j \in S : i <= j
<1>1. IsWellFoundedOn(LessThan, Nat)
  BY NatLessThanWellFounded DEF OpToRel, LessThan
<1>2. PICK i \in S : \A j \in S : ~(<<j, i>> \in LessThan)
  BY <1>1, WFMin
<1>3. ASSUME NEW j \in S PROVE i <= j
  <2>1. <<j, i>> \in Nat \X Nat /\ ~(<<j, i>> \in LessThan)
    BY <1>2
  <2>2. ~(<<j, i>>[1] < <<j, i>>[2])
    BY <2>1 DEF LessThan
  <2> QED
    BY <2>2
<1> QED
  BY <1>3

\* Induction, over the set of the numbers for which a statement holds.
LEMMA InductionOnNat ==
  ASSUME NEW T \in SUBSET Nat, 0 \in T, \A n \in T : n + 1 \in T
  PROVE  T = Nat
<1> SUFFICES ASSUME Nat \ T # {} PROVE FALSE
  OBVIOUS
<1>1. PICK i \in Nat \ T : \A j \in Nat \ T : i <= j
  BY LeastNatural
<1>2. i - 1 \in Nat /\ ~(i <= i - 1)
  BY <1>1
<1>3. i - 1 \in T
  BY <1>1, <1>2
<1>4. (i - 1) + 1 = i
  BY <1>1
<1> QED
  BY <1>1, <1>3, <1>4

\* A function from a nonempty initial interval to Nat has a greatest value.
LEMMA GreatestValue ==
  ASSUME NEW n \in Nat, NEW f \in [0 .. n -> Nat]
  PROVE  \E i \in 0 .. n : \A j \in 0 .. n : f[j] <= f[i]
<1> DEFINE Good(k) == \E i \in 0 .. k : \A j \in 0 .. k : f[j] <= f[i]
           Bad == {k \in 0 .. n : ~ Good(k)}
<1> SUFFICES ASSUME Bad # {} PROVE FALSE
  <2>1. n \in 0 .. n
    OBVIOUS
  <2> QED
    BY <2>1
<1>1. Bad \subseteq Nat
  OBVIOUS
<1>2. PICK k \in Bad : \A j \in Bad : k <= j
  BY <1>1, LeastNatural
<1>3. k \in 0 .. n /\ ~ Good(k)
  OBVIOUS
<1>4. \A j \in 0 .. n : f[j] \in Nat
  OBVIOUS
<1>5. k # 0
  <2>1. Good(0)
    BY <1>4
  <2> QED
    BY <2>1, <1>3
<1>6. k - 1 \in 0 .. n /\ Good(k - 1)
  <2>1. k - 1 \in 0 .. n /\ ~(k <= k - 1)
    BY <1>3, <1>5
  <2>2. k - 1 \notin Bad
    BY <1>2, <2>1
  <2> QED
    BY <2>1, <2>2
<1>7. PICK i \in 0 .. k - 1 : \A j \in 0 .. k - 1 : f[j] <= f[i]
  BY <1>6
<1> HIDE DEF Good, Bad
<1>8. Good(k)
  <2>0. i \in 0 .. k /\ k \in 0 .. k
    BY <1>3, <1>5
  <2>1. CASE f[k] <= f[i]
    <3>1. \A j \in 0 .. k : f[j] <= f[i]
      BY <1>7, <2>1, <1>3, <1>4
    <3> QED
      BY <3>1, <2>0 DEF Good
  <2>2. CASE f[k] > f[i]
    <3>1. \A j \in 0 .. k : f[j] <= f[k]
      BY <1>7, <2>2, <1>3, <1>4
    <3> QED
      BY <3>1, <2>0 DEF Good
  <2> QED
    BY <2>1, <2>2, <1>3, <1>4, <1>7
<1> QED
  BY <1>8, <1>3

\* A nonempty part of an initial interval has a greatest element.
LEMMA GreatestNatural ==
  ASSUME NEW n \in Nat, NEW s \in SUBSET (1 .. n), s # {}
  PROVE  \E x \in s : \A y \in s : x >= y
<1> DEFINE T == {m \in 0 .. n : \A x \in s : x <= m}
<1>1. T \in SUBSET Nat /\ n \in T
  OBVIOUS
<1>2. PICK m \in T : \A k \in T : m <= k
  <2> HIDE DEF T
  <2> QED
    BY <1>1, LeastNatural
<1>3. m \in Nat /\ \A x \in s : x <= m
  BY <1>1
<1>4. m \in s
  <2> SUFFICES ASSUME m \notin s PROVE FALSE
    OBVIOUS
  <2>1. m # 0
    <3>1. PICK x \in s : TRUE
      OBVIOUS
    <3>2. x \in 1 .. n /\ x <= m
      BY <1>3
    <3> QED
      BY <3>2
  <2>2. m - 1 \in T /\ ~(m <= m - 1)
    BY <1>3, <2>1
  <2> QED
    BY <1>2, <2>2
<1> QED
  BY <1>3, <1>4

-----------------------------------------------------------------------------
(* Induction and recursion over the subsets of a finite set.               *)

\* What is left of a finite set.
LEMMA OneLess ==
  ASSUME NEW S, IsFiniteSet(S), NEW s \in SUBSET S, NEW x \in s
  PROVE  /\ IsFiniteSet(s) /\ s \ {x} \in SUBSET S
         /\ Cardinality(s) \in Nat /\ Cardinality(s \ {x}) \in Nat
         /\ Cardinality(s \ {x}) = Cardinality(s) - 1
<1>1. IsFiniteSet(s)
  BY FS_Subset
<1>2. IsFiniteSet(s \ {x}) /\ Cardinality(s \ {x}) = Cardinality(s) - 1
  BY <1>1, FS_RemoveElement
<1> QED
  BY <1>1, <1>2, FS_CardinalityType

\* Induction, over a set of subsets for which a statement holds.
LEMMA FiniteInduction ==
  ASSUME NEW S, IsFiniteSet(S), NEW P \in SUBSET SUBSET S, {} \in P,
         \A s \in P, x \in S : x \notin s => s \cup {x} \in P
  PROVE  P = SUBSET S
<1> DEFINE T == {n \in Nat : \A s \in SUBSET S : Cardinality(s) <= n => s \in P}
<1>1. \A s \in SUBSET S : IsFiniteSet(s) /\ Cardinality(s) \in Nat
  BY FS_Subset, FS_CardinalityType
<1>2. 0 \in T
  BY <1>1, FS_EmptySet
<1>3. ASSUME NEW n \in T PROVE n + 1 \in T
  <2>1. ASSUME NEW s \in SUBSET S, Cardinality(s) <= n + 1 PROVE s \in P
    <3>1. CASE s = {}
      BY <3>1
    <3>2. CASE s # {}
      <4>1. PICK x \in s : TRUE
        BY <3>2
      <4>2. /\ s \ {x} \in SUBSET S /\ Cardinality(s \ {x}) = Cardinality(s) - 1
            /\ Cardinality(s) \in Nat
        BY OneLess
      <4>3. s \ {x} \in P
        BY <2>1, <4>2
      <4>4. s = (s \ {x}) \cup {x}
        OBVIOUS
      <4> QED
        BY <4>3, <4>4
    <3> QED
      BY <3>1, <3>2
  <2> QED
    BY <2>1
<1>4. T = Nat
  <2> HIDE DEF T
  <2>1. T \in SUBSET Nat
    BY DEF T
  <2> QED
    BY <1>2, <1>3, <2>1, InductionOnNat
<1> QED
  BY <1>1, <1>4

\* G maps functions to functions, and what it gives at a set depends on the sets
\* inside it only.
LooksInside(G, S, F) ==
  /\ G \in [F -> F]
  /\ \A g, h \in F, s \in SUBSET S :
       (\A r \in SUBSET s : r # s => g[r] = h[r]) => G[g][s] = G[h][s]

\* A definition by recursion over the subsets of a finite set defines a function.
LEMMA FiniteRecursion ==
  ASSUME NEW S, IsFiniteSet(S), NEW V, V # {}, NEW F, F = [SUBSET S -> V],
         NEW G, LooksInside(G, S, F)
  PROVE  \E g \in F : g = G[g]
<1> DEFINE Upto(g, n) == \A s \in SUBSET S : Cardinality(s) <= n => g[s] = G[g][s]
           T == {n \in Nat : \E g \in F : Upto(g, n)}
<1> USE DEF LooksInside
<1>1. \A s \in SUBSET S : IsFiniteSet(s) /\ Cardinality(s) \in Nat
  BY FS_Subset, FS_CardinalityType
<1>2. ASSUME NEW s \in SUBSET S, NEW r \in SUBSET s, r # s
      PROVE  r \in SUBSET S /\ Cardinality(r) < Cardinality(s)
  <2>1. IsFiniteSet(s) /\ Cardinality(r) <= Cardinality(s) /\ Cardinality(r) # Cardinality(s)
    BY <1>1, <1>2, FS_Subset
  <2>2. r \in SUBSET S
    OBVIOUS
  <2> QED
    BY <1>1, <2>1, <2>2
<1>3. ASSUME NEW g \in F, NEW s \in SUBSET S,
             \A r \in SUBSET S : Cardinality(r) < Cardinality(s) => g[r] = G[g][r]
      PROVE  G[g][s] = G[G[g]][s]
  <2>1. G[g] \in F
    OBVIOUS
  <2>2. \A r \in SUBSET s : r # s => g[r] = G[g][r]
    BY <1>2, <1>3
  <2> QED
    BY <2>1, <2>2
<1>4. 0 \in T
  <2>1. PICK v \in V : TRUE
    OBVIOUS
  <2> DEFINE e == [s \in SUBSET S |-> v]
  <2>2. e \in F /\ G[e] \in F
    OBVIOUS
  <2> HIDE DEF e
  <2>3. ASSUME NEW s \in SUBSET S, Cardinality(s) <= 0
        PROVE  G[e][s] = G[G[e]][s]
    <3>1. \A r \in SUBSET S : ~(Cardinality(r) < Cardinality(s))
      BY <1>1, <2>3
    <3> QED
      BY <1>3, <2>2, <3>1
  <2> QED
    BY <2>2, <2>3
<1>5. ASSUME NEW n \in T PROVE n + 1 \in T
  <2>1. PICK g \in F : Upto(g, n)
    OBVIOUS
  <2>2. G[g] \in F /\ n \in Nat /\ n + 1 \in Nat
    <3>1. G[g] \in F /\ n \in Nat
      OBVIOUS
    <3> HIDE DEF T
    <3> QED
      BY <3>1
  <2>3. ASSUME NEW s \in SUBSET S, Cardinality(s) <= n + 1
        PROVE  G[g][s] = G[G[g]][s]
    <3>1. ASSUME NEW r \in SUBSET S, Cardinality(r) < Cardinality(s)
          PROVE  g[r] = G[g][r]
      <4>1. Cardinality(r) <= n
        BY <1>1, <2>2, <2>3, <3>1
      <4> QED
        BY <2>1, <4>1
    <3> QED
      BY <1>3, <3>1
  <2> DEFINE h == G[g]
  <2>4. h \in F /\ Upto(h, n + 1)
    BY <2>2, <2>3
  <2> HIDE DEF h, Upto
  <2> QED
    BY <2>2, <2>4
<1>6. T = Nat
  <2> HIDE DEF T
  <2>1. T \in SUBSET Nat
    BY DEF T
  <2> QED
    BY <1>4, <1>5, <2>1, InductionOnNat
<1>7. PICK g \in F : Upto(g, Cardinality(S))
  <2>1. Cardinality(S) \in T
    BY <1>6, FS_CardinalityType
  <2> HIDE DEF Upto
  <2> QED
    BY <2>1
<1>8. g = G[g]
  <2>1. \A s \in SUBSET S : g[s] = G[g][s]
    BY <1>7, FS_Subset
  <2>2. G[g] \in F
    OBVIOUS
  <2> QED
    BY <2>1, <2>2
<1> QED
  BY <1>8

-----------------------------------------------------------------------------
(* Sums over finite sets.                                                  *)

AnyOf(s) == CHOOSE x \in s : TRUE

\* What g has to be at s, to add up f.
OneStep(f, g, s) == IF s = {} THEN 0 ELSE f[AnyOf(s)] + g[s \ {AnyOf(s)}]

\* g adds up f over each subset of S, as MapThenSumSet does.
Adds(g, f, S) == g = [s \in SUBSET S |-> OneStep(f, g, s)]

LEMMA AnyIn == ASSUME NEW s, s # {} PROVE AnyOf(s) \in s
BY DEF AnyOf

LEMMA SumExists ==
  ASSUME NEW S, IsFiniteSet(S), NEW f, \A x \in S : f[x] \in Int
  PROVE  \E g : Adds(g, f, S)
<1> DEFINE V == Int
           F == [SUBSET S -> V]
           G == [g \in F |-> [s \in SUBSET S |-> OneStep(f, g, s)]]
<1>1. ASSUME NEW s \in SUBSET S, s # {}
      PROVE  /\ AnyOf(s) \in S /\ s \ {AnyOf(s)} \in SUBSET s
             /\ s \ {AnyOf(s)} # s
  BY <1>1, AnyIn
<1>2. ASSUME NEW g \in F, NEW s \in SUBSET S
      PROVE  OneStep(f, g, s) \in Int
  BY <1>1 DEF OneStep
<1>3. G \in [F -> F]
  BY <1>2
<1>4. ASSUME NEW g \in F, NEW h \in F, NEW s \in SUBSET S,
             \A r \in SUBSET s : r # s => g[r] = h[r]
      PROVE  G[g][s] = G[h][s]
  <2>1. OneStep(f, g, s) = OneStep(f, h, s)
    BY <1>1, <1>4 DEF OneStep
  <2> QED
    BY <2>1
<1>5. \E g \in F : g = G[g]
  <2>1. LooksInside(G, S, F)
    <3> HIDE DEF G, F
    <3> QED
      BY <1>3, <1>4 DEF LooksInside
  <2>2. V # {}
    OBVIOUS
  <2>3. F = [SUBSET S -> V]
    OBVIOUS
  <2> HIDE DEF G, F, V
  <2> QED
    BY <2>1, <2>2, <2>3, FiniteRecursion
<1>6. PICK g \in F : g = G[g]
  BY <1>5
<1>7. Adds(g, f, S)
  BY <1>6 DEF Adds
<1> QED
  BY <1>7

\* g takes whichever member first.
Additive(g, f, S) ==
  /\ \A s \in SUBSET S : g[s] \in Int
  /\ g[{}] = 0
  /\ \A s \in SUBSET S : \A y \in s : g[s] = f[y] + g[s \ {y}]

LEMMA AnyFirst ==
  ASSUME NEW S, IsFiniteSet(S), NEW f, \A x \in S : f[x] \in Int, NEW g, Adds(g, f, S)
  PROVE  Additive(g, f, S)
<1> DEFINE Fine(s) == g[s] \in Int /\ \A y \in s : g[s] = f[y] + g[s \ {y}]
           T == {n \in Nat : \A s \in SUBSET S : Cardinality(s) <= n => Fine(s)}
<1>1. \A s \in SUBSET S : IsFiniteSet(s) /\ Cardinality(s) \in Nat
  BY FS_Subset, FS_CardinalityType
<1>2. \A s \in SUBSET S : g[s] = OneStep(f, g, s)
  BY DEF Adds
<1>3. g[{}] = 0
  BY <1>2 DEF OneStep
<1>4. ASSUME NEW s \in SUBSET S, s # {}
      PROVE  AnyOf(s) \in s /\ g[s] = f[AnyOf(s)] + g[s \ {AnyOf(s)}]
  BY <1>2, <1>4, AnyIn DEF OneStep
<1>5. 0 \in T
  <2>1. ASSUME NEW s \in SUBSET S, Cardinality(s) <= 0 PROVE Fine(s)
    <3>1. s = {}
      BY <1>1, <2>1, FS_EmptySet
    <3> QED
      BY <1>3, <3>1
  <2> QED
    BY <2>1
<1>6. ASSUME NEW n \in T PROVE n + 1 \in T
  <2>1. ASSUME NEW s \in SUBSET S, Cardinality(s) <= n + 1 PROVE Fine(s)
    <3>1. CASE s = {}
      BY <1>3, <3>1
    <3>2. CASE s # {}
      <4> DEFINE x == AnyOf(s)
      <4>1. x \in s /\ g[s] = f[x] + g[s \ {x}]
        BY <1>4, <3>2
      <4> HIDE DEF x
      <4>2. ASSUME NEW y \in s PROVE s \ {y} \in SUBSET S /\ Fine(s \ {y})
        <5>1. /\ s \ {y} \in SUBSET S /\ Cardinality(s \ {y}) = Cardinality(s) - 1
              /\ Cardinality(s) \in Nat
          BY OneLess
        <5>2. Cardinality(s \ {y}) <= n
          BY <2>1, <5>1
        <5> QED
          BY <5>1, <5>2
      <4>3. g[s] \in Int
        BY <4>1, <4>2
      <4>4. ASSUME NEW y \in s PROVE g[s] = f[y] + g[s \ {y}]
        <5>1. CASE y = x
          BY <4>1, <5>1
        <5>2. CASE y # x
          <6>1. g[s \ {x}] = f[y] + g[(s \ {x}) \ {y}]
            BY <4>1, <4>2, <5>2
          <6>2. g[s \ {y}] = f[x] + g[(s \ {y}) \ {x}]
            BY <4>1, <4>2, <5>2
          <6>3. (s \ {x}) \ {y} = (s \ {y}) \ {x}
            OBVIOUS
          <6> DEFINE r == g[(s \ {x}) \ {y}]
          <6>4. r \in Int
            <7>1. s \ {x} \in SUBSET S /\ y \in s \ {x}
              BY <5>2
            <7>2. Cardinality((s \ {x}) \ {y}) <= n
              <8>1. /\ Cardinality((s \ {x}) \ {y}) = Cardinality(s \ {x}) - 1
                    /\ Cardinality(s \ {x}) \in Nat
                BY <7>1, OneLess
              <8>2. Cardinality(s \ {x}) = Cardinality(s) - 1 /\ Cardinality(s) \in Nat
                BY <4>1, OneLess
              <8> QED
                BY <2>1, <8>1, <8>2
            <7>3. (s \ {x}) \ {y} \in SUBSET S
              OBVIOUS
            <7> QED
              BY <7>2, <7>3
          <6>5. f[x] \in Int /\ f[y] \in Int
            BY <4>1
          <6>6. g[s] = f[x] + (f[y] + r) /\ g[s \ {y}] = f[x] + r
            BY <4>1, <6>1, <6>2, <6>3
          <6> HIDE DEF r
          <6>7. f[x] + (f[y] + r) = f[y] + (f[x] + r)
            BY <6>4, <6>5
          <6> QED
            BY <6>6, <6>7
        <5> QED
          BY <5>1, <5>2
      <4> QED
        BY <4>3, <4>4
    <3> QED
      BY <3>1, <3>2
  <2> HIDE DEF Fine
  <2> QED
    BY <2>1
<1>7. T = Nat
  <2> HIDE DEF T
  <2>1. T \in SUBSET Nat
    BY DEF T
  <2> QED
    BY <1>5, <1>6, <2>1, InductionOnNat
<1>8. ASSUME NEW s \in SUBSET S PROVE Fine(s)
  <2>1. Cardinality(s) \in T /\ Cardinality(s) <= Cardinality(s)
    BY <1>1, <1>7
  <2> HIDE DEF Fine
  <2> QED
    BY <2>1
<1> QED
  BY <1>3, <1>8 DEF Additive

\* Two sums whose terms are matched one to one are equal.
LEMMA SumsMatch ==
  ASSUME NEW S, IsFiniteSet(S), NEW f, \A x \in S : f[x] \in Int, NEW g, Adds(g, f, S),
         NEW R, IsFiniteSet(R), NEW h, \A y \in R : h[y] \in Int, NEW k, Adds(k, h, R),
         NEW b \in [S -> R], \A x, y \in S : b[x] = b[y] => x = y,
         \A x \in S : f[x] = h[b[x]]
  PROVE  \A s \in SUBSET S : g[s] = k[{b[x] : x \in s}]
<1> DEFINE Im(s) == {b[x] : x \in s}
           P == {s \in SUBSET S : g[s] = k[Im(s)]}
<1>1. /\ g[{}] = 0
      /\ \A s \in SUBSET S : \A y \in s : g[s] = f[y] + g[s \ {y}]
  BY AnyFirst DEF Additive
<1>2. /\ k[{}] = 0
      /\ \A s \in SUBSET R : \A y \in s : k[s] = h[y] + k[s \ {y}]
  <2>1. Additive(k, h, R)
    BY AnyFirst, Zenon
  <2> QED
    BY <2>1 DEF Additive
<1>3. {} \in P
  <2>1. Im({}) = {}
    OBVIOUS
  <2> QED
    BY <1>1, <1>2, <2>1
<1>4. ASSUME NEW s \in P, NEW x \in S, x \notin s
      PROVE  s \cup {x} \in P
  <2> DEFINE t == s \cup {x}
  <2>1. t \in SUBSET S /\ x \in t /\ t \ {x} = s
    BY <1>4
  <2>2. Im(t) \in SUBSET R /\ b[x] \in Im(t) /\ Im(t) \ {b[x]} = Im(s)
    BY <1>4
  <2>3. g[s] = k[Im(s)]
    OBVIOUS
  <2> HIDE DEF Im, t
  <2>4. g[t] = f[x] + g[s] /\ f[x] = h[b[x]]
    BY <1>1, <2>1
  <2>5. k[Im(t)] = h[b[x]] + k[Im(s)]
    BY <1>2, <2>2
  <2> QED
    BY <2>1, <2>3, <2>4, <2>5 DEF t
<1>5. P = SUBSET S
  <2> HIDE DEF P
  <2>1. P \in SUBSET SUBSET S
    BY DEF P
  <2> QED
    BY <1>3, <1>4, <2>1, FiniteInduction
<1> QED
  BY <1>5

\* What f adds up to over S.
Total(f, S) == (CHOOSE g : Adds(g, f, S))[S]

LEMMA TotalIs ==
  ASSUME NEW S, IsFiniteSet(S), NEW f, \A x \in S : f[x] \in Int
  PROVE  /\ Total(f, S) \in Int
         /\ \E g : Adds(g, f, S) /\ Total(f, S) = g[S]
<1> DEFINE g == CHOOSE g : Adds(g, f, S)
<1>1. Adds(g, f, S)
  BY SumExists
<1>2. Total(f, S) = g[S]
  BY DEF Total
<1> HIDE DEF g
<1>3. g[S] \in Int
  BY <1>1, AnyFirst DEF Additive
<1> QED
  BY <1>1, <1>2, <1>3

LEMMA TotalUnique ==
  ASSUME NEW S, IsFiniteSet(S), NEW f, \A x \in S : f[x] \in Int, NEW g, Adds(g, f, S)
  PROVE  g[S] = Total(f, S)
<1> DEFINE b == [x \in S |-> x]
<1>1. PICK k : Adds(k, f, S) /\ Total(f, S) = k[S]
  BY TotalIs
<1>2. b \in [S -> S] /\ \A x \in S : b[x] = x
  OBVIOUS
<1> HIDE DEF b
<1>3. \A s \in SUBSET S : g[s] = k[{b[x] : x \in s}]
  BY <1>1, <1>2, SumsMatch
<1>4. S \in SUBSET S /\ {b[x] : x \in S} = S
  BY <1>2
<1> QED
  BY <1>1, <1>3, <1>4

LEMMA TotalsMatch ==
  ASSUME NEW S, IsFiniteSet(S), NEW f, \A x \in S : f[x] \in Int,
         NEW R, NEW h, \A y \in R : h[y] \in Int,
         NEW b \in [S -> R], \A x, y \in S : b[x] = b[y] => x = y,
         R = {b[x] : x \in S}, \A x \in S : f[x] = h[b[x]]
  PROVE  Total(f, S) = Total(h, R)
<1>1. IsFiniteSet(R)
  <2>1. b \in Surjection(S, R)
    BY DEF Surjection
  <2> QED
    BY <2>1, FS_Surjection
<1>2. PICK g : Adds(g, f, S) /\ Total(f, S) = g[S]
  BY TotalIs
<1>3. PICK k : Adds(k, h, R) /\ Total(h, R) = k[R]
  BY <1>1, TotalIs
<1>4. S \in SUBSET S
  OBVIOUS
<1>5. \A s \in SUBSET S : g[s] = k[{b[x] : x \in s}]
  BY <1>1, <1>2, <1>3, SumsMatch
<1> QED
  BY <1>2, <1>3, <1>4, <1>5

LEMMA TotalSame ==
  ASSUME NEW S, IsFiniteSet(S), NEW f, NEW h, \A x \in S : f[x] \in Int /\ f[x] = h[x]
  PROVE  Total(f, S) = Total(h, S)
<1> DEFINE b == [x \in S |-> x]
<1>1. b \in [S -> S] /\ S = {b[x] : x \in S} /\ \A x \in S : b[x] = x
  OBVIOUS
<1> HIDE DEF b
<1> QED
  BY <1>1, TotalsMatch

LEMMA TotalEmpty == ASSUME NEW f PROVE Total(f, {}) = 0
<1>1. IsFiniteSet({}) /\ \A x \in {} : f[x] \in Int
  BY FS_EmptySet
<1>2. PICK g : Adds(g, f, {}) /\ Total(f, {}) = g[{}]
  BY <1>1, TotalIs
<1> QED
  BY <1>1, <1>2, AnyFirst DEF Additive

LEMMA TotalWithout ==
  ASSUME NEW S, IsFiniteSet(S), NEW f, \A x \in S : f[x] \in Int, NEW y \in S
  PROVE  Total(f, S) = f[y] + Total(f, S \ {y})
<1> DEFINE R == S \ {y}
           b == [x \in R |-> x]
<1>1. PICK g : Adds(g, f, S) /\ Total(f, S) = g[S]
  BY TotalIs
<1>2. IsFiniteSet(R) /\ R \in SUBSET S
  BY FS_Subset
<1>3. \A x \in R : f[x] \in Int
  OBVIOUS
<1>4. b \in [R -> S] /\ \A x \in R : b[x] = x
  OBVIOUS
<1>5. g[S] = f[y] + g[R]
  <2>1. S \in SUBSET S /\ \A s \in SUBSET S : \A z \in s : g[s] = f[z] + g[s \ {z}]
    BY <1>1, AnyFirst DEF Additive
  <2> QED
    BY <2>1
<1> HIDE DEF R, b
<1>6. PICK k : Adds(k, f, R) /\ Total(f, R) = k[R]
  BY <1>2, <1>3, TotalIs
<1>7. \A s \in SUBSET R : k[s] = g[{b[x] : x \in s}]
  BY <1>1, <1>2, <1>3, <1>4, <1>6, SumsMatch
<1>8. R \in SUBSET R /\ {b[x] : x \in R} = R
  BY <1>4
<1>9. k[R] = g[R]
  BY <1>7, <1>8
<1> QED
  BY <1>1, <1>5, <1>6, <1>9 DEF R

\* Intervals that do not overlap are together no longer than what they lie in.
LEMMA DisjointFit ==
  ASSUME NEW S, IsFiniteSet(S), NEW lo, NEW size, NEW a \in Int, NEW b \in Int, a <= b,
         \A j \in S : /\ lo[j] \in Int /\ size[j] \in Nat
                      /\ a <= lo[j] /\ lo[j] + size[j] <= b,
         \A j, k \in S : j # k => lo[j] + size[j] <= lo[k] \/ lo[k] + size[k] <= lo[j]
  PROVE  Total(size, S) <= b - a
<1> DEFINE Bytes(j) == lo[j] .. lo[j] + size[j] - 1
           Of(s) == UNION {Bytes(j) : j \in s}
           P == {s \in SUBSET S : IsFiniteSet(Of(s)) /\ Cardinality(Of(s)) = Total(size, s)}
<1>1. {} \in P
  <2>1. Of({}) = {}
    OBVIOUS
  <2> HIDE DEF Of
  <2> QED
    BY <2>1, FS_EmptySet, TotalEmpty
<1>2. ASSUME NEW s \in P, NEW x \in S, x \notin s
      PROVE  s \cup {x} \in P
  <2> DEFINE t == s \cup {x}
  <2>1. Of(t) = Of(s) \cup Bytes(x)
    OBVIOUS
  <2>2. Of(s) \cap Bytes(x) = {}
    <3>1. ASSUME NEW j \in s, NEW e \in Bytes(j) PROVE e \notin Bytes(x)
      <4>1. j \in S /\ j # x
        BY <1>2
      <4>2. lo[j] + size[j] <= lo[x] \/ lo[x] + size[x] <= lo[j]
        BY <4>1
      <4>3. lo[j] \in Int /\ size[j] \in Nat /\ lo[x] \in Int /\ size[x] \in Nat /\ e \in Int
        BY <4>1
      <4>4. lo[j] <= e /\ e <= lo[j] + size[j] - 1
        BY <3>1
      <4> QED
        BY <4>2, <4>3, <4>4
    <3> HIDE DEF Bytes
    <3> QED
      BY <3>1
  <2>3. IsFiniteSet(Bytes(x)) /\ Cardinality(Bytes(x)) = size[x]
    <3>1. lo[x] \in Int /\ size[x] \in Nat
      OBVIOUS
    <3>2. lo[x] + size[x] - 1 \in Int
      BY <3>1
    <3>3. /\ IsFiniteSet(Bytes(x))
          /\ Cardinality(Bytes(x)) = IF lo[x] > lo[x] + size[x] - 1 THEN 0
                                     ELSE (lo[x] + size[x] - 1) - lo[x] + 1
      BY <3>1, <3>2, FS_Interval
    <3> HIDE DEF Bytes
    <3> QED
      BY <3>1, <3>3
  <2>4. IsFiniteSet(Of(s)) /\ Cardinality(Of(s)) = Total(size, s) /\ s \in SUBSET S
    OBVIOUS
  <2> HIDE DEF Of, Bytes
  <2>5. IsFiniteSet(Of(t)) /\ Cardinality(Of(t)) = Total(size, s) + size[x]
    <3>1. /\ IsFiniteSet(Of(t))
          /\ Cardinality(Of(t)) = Total(size, s) + size[x] - Cardinality(Of(s) \cap Bytes(x))
      <4> DEFINE A == Of(s)
                 B == Bytes(x)
      <4>1. IsFiniteSet(A) /\ IsFiniteSet(B)
        BY <2>3, <2>4
      <4> HIDE DEF A, B
      <4>2. /\ IsFiniteSet(A \cup B)
            /\ Cardinality(A \cup B) = Cardinality(A) + Cardinality(B) - Cardinality(A \cap B)
        BY <4>1, FS_Union
      <4> QED
        BY <2>1, <2>3, <2>4, <4>2 DEF A, B
    <3>2. Cardinality(Of(s) \cap Bytes(x)) = 0
      BY <2>2, FS_EmptySet
    <3>3. Total(size, s) \in Nat /\ size[x] \in Nat
      BY <2>4, FS_CardinalityType
    <3> QED
      BY <3>1, <3>2, <3>3
  <2>6. t \in SUBSET S /\ IsFiniteSet(t) /\ x \in t /\ t \ {x} = s
    <3>1. t \in SUBSET S /\ x \in t /\ t \ {x} = s
      BY <1>2, <2>4
    <3> HIDE DEF t
    <3> QED
      BY <3>1, FS_Subset
  <2>7. Total(size, t) = size[x] + Total(size, s)
    <3>1. \A j \in t : size[j] \in Int
      BY <2>6
    <3> HIDE DEF t
    <3> QED
      BY <2>6, <3>1, TotalWithout
  <2>8. Total(size, s) \in Nat /\ size[x] \in Nat
    BY <2>4, FS_CardinalityType
  <2> HIDE DEF t
  <2>9. t \in P
    BY <2>5, <2>6, <2>7, <2>8
  <2> QED
    BY <2>9 DEF t
<1>3. P = SUBSET S
  <2> HIDE DEF P
  <2>1. P \in SUBSET SUBSET S
    BY DEF P
  <2> QED
    BY <1>1, <1>2, <2>1, FiniteInduction
<1>4. IsFiniteSet(Of(S)) /\ Cardinality(Of(S)) = Total(size, S)
  BY <1>3
<1>5. Of(S) \in SUBSET (a .. b - 1)
  <2>1. ASSUME NEW j \in S, NEW e \in Bytes(j) PROVE e \in a .. b - 1
    <3>1. /\ lo[j] \in Int /\ size[j] \in Nat
          /\ a <= lo[j] /\ lo[j] + size[j] <= b
      OBVIOUS
    <3> QED
      BY <2>1, <3>1
  <2> HIDE DEF Bytes
  <2> QED
    BY <2>1
<1>6. IsFiniteSet(a .. b - 1) /\ Cardinality(a .. b - 1) = b - a
  <2>1. IsFiniteSet(a .. b - 1) /\ Cardinality(a .. b - 1) = IF a > b - 1 THEN 0 ELSE (b - 1) - a + 1
    BY FS_Interval
  <2> QED
    BY <2>1
<1> HIDE DEF Of
<1>7. Cardinality(Of(S)) <= Cardinality(a .. b - 1)
  BY <1>5, <1>6, FS_Subset
<1> QED
  BY <1>4, <1>6, <1>7
=============================================================================
