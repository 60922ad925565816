----------------------------- MODULE DataLemmas -----------------------------
(***************************************************************************)
(* Lemmas about naturals, finite sets and sums that the invariants of the  *)
(* other modules rest on.  Each is an induction, stated for a set and not  *)
(* for a predicate: a set of naturals or of subsets that contains the      *)
(* first element and is closed under the step contains all of them.        *)
(***************************************************************************)
EXTENDS Integers, FiniteSets, Functions, FiniteSetTheorems, WellFoundedInduction, TLAPS

Less == OpToRel(<, Nat)

LEMMA LessDef == \A x, y \in Nat : x < y => <<x, y>> \in Less
  BY Zenon DEF Less, OpToRel

\* A set of naturals that is not empty has a least element.
LEMMA LeastNat ==
  ASSUME NEW T, T \subseteq Nat, T # {}
  PROVE  \E x \in T : \A y \in T : x <= y
<1>1. IsWellFoundedOn(Less, Nat)
  BY NatLessThanWellFounded DEF Less
<1>2. PICK x \in T : \A y \in T : ~(<<y, x>> \in Less)
  BY <1>1, WFMin
<1>3. \A y \in T : ~(y < x)
  BY <1>2, LessDef
<1> QED  BY <1>3

LEMMA SetInduction ==
  ASSUME NEW S, 0 \in S, \A n \in Nat : n \in S => n + 1 \in S
  PROVE  Nat \subseteq S
<1> SUFFICES ASSUME Nat \ S # {} PROVE FALSE
  OBVIOUS
<1>1. PICK x \in Nat \ S : \A y \in Nat \ S : x <= y
  BY LeastNat
<1>2. x - 1 \in Nat /\ x - 1 \in S
  BY <1>1
<1> QED  BY <1>1, <1>2

\* From m on, a finite set leaves a number free that no gap precedes.
LEMMA FirstFree ==
  ASSUME NEW S, IsFiniteSet(S), NEW m \in Nat
  PROVE  \E n \in m..(m + Cardinality(S)) :
           n \notin S /\ \A k \in m..(n - 1) : k \in S
<1> DEFINE c == Cardinality(S)
           T == {n \in m..(m + c) : n \notin S}
<1>1. c \in Nat
  BY FS_CardinalityType
<1>2. Cardinality(m..(m + c)) = c + 1
  BY <1>1, FS_Interval
<1>3. ~(m..(m + c) \subseteq S)
  BY <1>1, <1>2, FS_Subset
<1>4. T # {} /\ T \subseteq Nat
  BY <1>1, <1>3
<1>5. PICK n \in T : \A y \in T : n <= y
  BY <1>4, LeastNat
<1>6. \A k \in m..(n - 1) : k \in S
  BY <1>1, <1>5
<1> QED  BY <1>5, <1>6

-----------------------------------------------------------------------------
(* Finite sets, taken apart the way the folds of the library do *)

Chosen(s) == CHOOSE x \in s : TRUE
Rest(s) == s \ {Chosen(s)}

LEMMA RestIsSmaller ==
  ASSUME NEW s, IsFiniteSet(s), s # {}
  PROVE  /\ Chosen(s) \in s
         /\ IsFiniteSet(Rest(s)) /\ Cardinality(Rest(s)) = Cardinality(s) - 1
         /\ Cardinality(s) \in Nat \ {0}
<1>1. Chosen(s) \in s
  BY DEF Chosen
<1> QED  BY <1>1, FS_RemoveElement, FS_CardinalityType, FS_EmptySet DEF Rest

\* A set of subsets of D that has the empty one, and each one whose rest it
\* has, has them all.
LEMMA SubsetInduction ==
  ASSUME NEW D, IsFiniteSet(D), NEW G,
         {} \in G,
         \A s \in SUBSET D : s # {} /\ Rest(s) \in G => s \in G
  PROVE  SUBSET D \subseteq G
<1> DEFINE S == {n \in Nat : \A s \in SUBSET D : Cardinality(s) = n => s \in G}
<1>1. \A s \in SUBSET D : IsFiniteSet(s) /\ Cardinality(s) \in Nat
  BY FS_Subset, FS_CardinalityType
<1>2. 0 \in S
  BY <1>1, FS_EmptySet
<1>3. ASSUME NEW n \in Nat, n \in S, NEW s \in SUBSET D, Cardinality(s) = n + 1
      PROVE  s \in G
  <2>1. s # {}
    BY <1>3, FS_EmptySet
  <2>2. Rest(s) \in SUBSET D /\ Cardinality(Rest(s)) = n
    BY <1>1, <1>3, <2>1, RestIsSmaller DEF Rest
  <2> QED  BY <1>3, <2>1, <2>2
<1>4. \A n \in Nat : n \in S => n + 1 \in S
  BY <1>3
<1>5. Nat \subseteq S
  <2> HIDE DEF S
  <2> QED  BY <1>2, <1>4, SetInduction
<1> QED  BY <1>1, <1>5

-----------------------------------------------------------------------------
(* SumFunction of the community modules *)

\* The recursion it is defined by: g[s] is the sum of f over s.
SumsOver(f, D, g) ==
  g = [s \in SUBSET D |-> IF s = {} THEN 0 ELSE f[Chosen(s)] + g[Rest(s)]]

LEMMA SumIsChosen ==
  ASSUME NEW f, NEW D
  PROVE  SumFunctionOnSet(f, D) = (CHOOSE g : SumsOver(f, D, g))[D]
  BY DEF SumFunctionOnSet, FoldFunctionOnSet, MapThenFoldSet, SumsOver, Chosen, Rest

\* A function that sums the sets of up to n elements right.
LEMMA SumsExist ==
  ASSUME NEW D, IsFiniteSet(D), NEW f \in [D -> Int]
  PROVE  \E g : SumsOver(f, D, g)
<1> DEFINE Over(g, s) == IF s = {} THEN 0 ELSE f[Chosen(s)] + g[Rest(s)]
           Right(n, g) == \A s \in SUBSET D : Cardinality(s) <= n => g[s] = Over(g, s)
           S == {n \in Nat : \E g \in [SUBSET D -> Int] : Right(n, g)}
<1>1. \A s \in SUBSET D : IsFiniteSet(s) /\ Cardinality(s) \in Nat
  BY FS_Subset, FS_CardinalityType
<1>2. \A s \in SUBSET D : s # {} =>
         /\ Chosen(s) \in D /\ Rest(s) \in SUBSET D
         /\ Cardinality(Rest(s)) = Cardinality(s) - 1
  BY <1>1, RestIsSmaller DEF Rest
<1>3. 0 \in S
  <2> DEFINE z == [s \in SUBSET D |-> 0]
  <2>1. ASSUME NEW s \in SUBSET D, Cardinality(s) <= 0 PROVE s = {}
    BY <1>1, <2>1, FS_EmptySet
  <2>2. Right(0, z)
    BY <2>1
  <2>3. z \in [SUBSET D -> Int]
    OBVIOUS
  <2> HIDE DEF z
  <2> QED  BY <2>2, <2>3
<1>4. ASSUME NEW n \in Nat, n \in S PROVE n + 1 \in S
  <2>1. PICK g \in [SUBSET D -> Int] : Right(n, g)
    BY <1>4
  <2> DEFINE h == [s \in SUBSET D |-> Over(g, s)]
  <2>2. \A s \in SUBSET D : Over(g, s) \in Int
    BY <1>2
  <2>3. h \in [SUBSET D -> Int]
    BY <2>2
  <2>4. ASSUME NEW s \in SUBSET D, Cardinality(s) <= n + 1
        PROVE  h[s] = Over(h, s)
    <3>1. CASE s = {}
      BY <3>1
    <3>2. CASE s # {}
      <4>1. Rest(s) \in SUBSET D /\ Cardinality(Rest(s)) <= n
        BY <1>1, <1>2, <2>4, <3>2
      <4>2. g[Rest(s)] = h[Rest(s)]
        BY <2>1, <4>1
      <4>3. h[s] = f[Chosen(s)] + g[Rest(s)]
        BY <3>2
      <4> QED  BY <3>2, <4>2, <4>3
    <3> QED  BY <3>1, <3>2
  <2> HIDE DEF h, Over
  <2> QED  BY <2>3, <2>4
<1>5. Nat \subseteq S
  <2> HIDE DEF S
  <2> QED  BY <1>3, <1>4, SetInduction
<1>6. Cardinality(D) \in S
  BY <1>5, FS_CardinalityType
<1>7. PICK g \in [SUBSET D -> Int] : Right(Cardinality(D), g)
  BY <1>6
<1>8. \A s \in SUBSET D : g[s] = Over(g, s)
  BY <1>1, <1>7, FS_Subset
<1>9. g = [s \in SUBSET D |-> Over(g, s)]
  BY <1>8
<1> QED  BY <1>9 DEF SumsOver

LEMMA SumRecursion ==
  ASSUME NEW D, IsFiniteSet(D), NEW f \in [D -> Int]
  PROVE  \E g : /\ SumFunction(f) = g[D]
                /\ g[{}] = 0
                /\ \A s \in SUBSET D : s # {} => g[s] = f[Chosen(s)] + g[Rest(s)]
<1> DEFINE g == CHOOSE g : SumsOver(f, D, g)
<1>1. SumsOver(f, D, g)
  BY SumsExist
<1>2. SumFunction(f) = g[D]
  BY SumIsChosen DEF SumFunction
<1> HIDE DEF g
<1>3. /\ g[{}] = 0
      /\ \A s \in SUBSET D : s # {} => g[s] = f[Chosen(s)] + g[Rest(s)]
  BY <1>1 DEF SumsOver
<1> QED  BY <1>2, <1>3

LEMMA SumType ==
  ASSUME NEW D, IsFiniteSet(D), NEW f \in [D -> Int]
  PROVE  /\ SumFunction(f) \in Int
         /\ f \in [D -> Nat] => SumFunction(f) \in Nat
         /\ (\A x \in D : f[x] = 0) => SumFunction(f) = 0
<1>1. PICK g : /\ SumFunction(f) = g[D]
               /\ g[{}] = 0
               /\ \A s \in SUBSET D : s # {} => g[s] = f[Chosen(s)] + g[Rest(s)]
  BY SumRecursion
<1>2. \A s \in SUBSET D : s # {} => Chosen(s) \in D /\ Rest(s) \in SUBSET D
  BY DEF Chosen, Rest
<1>3. g[D] \in Int
  <2> DEFINE G == {s \in SUBSET D : g[s] \in Int}
  <2>1. {} \in G /\ \A s \in SUBSET D : s # {} /\ Rest(s) \in G => s \in G
    BY <1>1, <1>2
  <2> HIDE DEF G
  <2>2. SUBSET D \subseteq G
    BY <2>1, SubsetInduction
  <2> QED  BY <2>2 DEF G
<1>4. ASSUME f \in [D -> Nat] PROVE g[D] \in Nat
  <2> DEFINE G == {s \in SUBSET D : g[s] \in Nat}
  <2>1. {} \in G /\ \A s \in SUBSET D : s # {} /\ Rest(s) \in G => s \in G
    BY <1>1, <1>2, <1>4
  <2> HIDE DEF G
  <2>2. SUBSET D \subseteq G
    BY <2>1, SubsetInduction
  <2> QED  BY <2>2 DEF G
<1>5. ASSUME \A x \in D : f[x] = 0 PROVE g[D] = 0
  <2> DEFINE G == {s \in SUBSET D : g[s] = 0}
  <2>1. {} \in G /\ \A s \in SUBSET D : s # {} /\ Rest(s) \in G => s \in G
    BY <1>1, <1>2, <1>5
  <2> HIDE DEF G
  <2>2. SUBSET D \subseteq G
    BY <2>1, SubsetInduction
  <2> QED  BY <2>2 DEF G
<1> QED  BY <1>1, <1>3, <1>4, <1>5

\* A change at one place changes the sum by as much.
LEMMA SumUpdate ==
  ASSUME NEW D, IsFiniteSet(D), NEW f \in [D -> Int], NEW h \in [D -> Int], NEW p \in D,
         \A x \in D \ {p} : h[x] = f[x]
  PROVE  SumFunction(h) = SumFunction(f) + (h[p] - f[p])
<1> DEFINE d == h[p] - f[p]
<1>1. d \in Int /\ h[p] = f[p] + d /\ \A x \in D \ {p} : h[x] = f[x]
  OBVIOUS
<1> HIDE DEF d
<1>2. PICK g : /\ SumFunction(f) = g[D]
               /\ g[{}] = 0
               /\ \A s \in SUBSET D : s # {} => g[s] = f[Chosen(s)] + g[Rest(s)]
  BY SumRecursion
<1>3. PICK k : /\ SumFunction(h) = k[D]
               /\ k[{}] = 0
               /\ \A s \in SUBSET D : s # {} => k[s] = h[Chosen(s)] + k[Rest(s)]
  BY SumRecursion
<1> DEFINE G == {s \in SUBSET D : g[s] \in Int /\ k[s] = g[s] + (IF p \in s THEN d ELSE 0)}
<1>4. {} \in G
  BY <1>2, <1>3
<1>5. ASSUME NEW s \in SUBSET D, s # {}, Rest(s) \in G
      PROVE  s \in G
  <2>1. Chosen(s) \in s /\ Chosen(s) \in D
    BY <1>5 DEF Chosen
  <2>2. g[s] = f[Chosen(s)] + g[Rest(s)] /\ k[s] = h[Chosen(s)] + k[Rest(s)]
    BY <1>2, <1>3, <1>5
  <2>3. g[Rest(s)] \in Int /\ k[Rest(s)] = g[Rest(s)] + (IF p \in Rest(s) THEN d ELSE 0)
    BY <1>5
  <2>4. f[Chosen(s)] \in Int
    BY <2>1
  <2>5. CASE Chosen(s) = p
    <3>1. p \in s /\ p \notin Rest(s)
      BY <2>1, <2>5 DEF Rest
    <3>2. h[Chosen(s)] = f[Chosen(s)] + d
      BY <1>1, <2>5
    <3> QED  BY <1>1, <2>2, <2>3, <2>4, <3>1, <3>2
  <2>6. CASE Chosen(s) # p
    <3>1. p \in s <=> p \in Rest(s)
      BY <2>6 DEF Rest
    <3>2. h[Chosen(s)] = f[Chosen(s)]
      BY <1>1, <2>1, <2>6
    <3> QED  BY <1>1, <2>2, <2>3, <2>4, <3>1, <3>2
  <2> QED  BY <2>5, <2>6
<1>6. SUBSET D \subseteq G
  <2> HIDE DEF G
  <2> QED  BY <1>4, <1>5, SubsetInduction
<1>7. k[D] = g[D] + d
  BY <1>6
<1> QED  BY <1>2, <1>3, <1>7 DEF d

=============================================================================
