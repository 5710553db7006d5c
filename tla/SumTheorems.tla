------------------------------- MODULE SumTheorems -------------------------------
EXTENDS Integers, Sequences, FiniteSets, Functions, FiniteSetsExt, SequencesExt, FiniteSetTheorems, WellFoundedInduction, TLAPS

(* Sums of natural numbers over finite sets.  Induction is by the smallest counterexample. *)

\* A set of naturals that is not empty has a least element.
LEMMA LeastElement ==
  ASSUME NEW T \in SUBSET Nat, T # {}
  PROVE  \E x \in T : \A y \in T : x <= y
<1> DEFINE R == OpToRel(<, Nat)
<1>1. IsWellFoundedOn(R, Nat)
  BY NatLessThanWellFounded
<1>2. \A y, x \in Nat : y < x => <<y, x>> \in R
  BY DEF OpToRel
<1> HIDE DEF R
<1>3. PICK x \in T : \A y \in T : ~ (<<y, x>> \in R)
  BY <1>1, WFMin
<1>4. ASSUME NEW y \in T PROVE x <= y
  <2>1. x \in Nat /\ y \in Nat
    OBVIOUS
  <2>2. ~(y < x)
    BY <1>2, <1>3, <2>1
  <2>3. QED
    BY <2>1, <2>2
<1>5. QED
  BY <1>4

\* A set of subsets of a finite set that is not empty has a smallest one.
LEMMA SmallestSet ==
  ASSUME NEW S, IsFiniteSet(S), NEW T \in SUBSET (SUBSET S), T # {}
  PROVE  \E x \in T : \A y \in T : y \subseteq x => y = x
<1>1. IsWellFoundedOn(StrictSubsetOrdering(S), SUBSET S)
  BY FS_StrictSubsetOrderingWellFounded, FS_FiniteSubsetsOfFinite
<1>2. PICK x \in T : \A y \in T : ~ (<<y, x>> \in StrictSubsetOrdering(S))
  BY <1>1, WFMin
<1>3. QED
  BY <1>2 DEF StrictSubsetOrdering

\* The element that a sum takes next, and a function that sums every subset of S.
SumStep(f, S, g) ==
    g = [s \in SUBSET S |-> IF s = {} THEN 0 ELSE f[CHOOSE x \in s : TRUE] + g[s \ {CHOOSE x \in s : TRUE}]]

\* The sum of the library, as the function that sums every subset.
LEMMA SumUnfolds ==
  ASSUME NEW f, NEW S
  PROVE  SumFunctionOnSet(f, S) = (CHOOSE g : SumStep(f, S, g))[S]
  BY DEF SumFunctionOnSet, FoldFunctionOnSet, MapThenFoldSet, SumStep

UpTo(S, n) == {s \in SUBSET S : Cardinality(s) <= n}
SumsUpTo(f, S, n, g) ==
    /\ DOMAIN g = UpTo(S, n)
    /\ \A s \in UpTo(S, n) :
        g[s] = IF s = {} THEN 0 ELSE f[CHOOSE x \in s : TRUE] + g[s \ {CHOOSE x \in s : TRUE}]

\* Taking the chosen element away makes a finite set smaller by one.
LEMMA SmallerSet ==
  ASSUME NEW S, IsFiniteSet(S), NEW s \in SUBSET S, s # {}
  PROVE  /\ s \ {CHOOSE x \in s : TRUE} \in SUBSET S
         /\ Cardinality(s) \in Nat /\ Cardinality(s \ {CHOOSE x \in s : TRUE}) = Cardinality(s) - 1
         /\ (CHOOSE x \in s : TRUE) \in s
<1>1. IsFiniteSet(s) /\ (CHOOSE x \in s : TRUE) \in s
  BY FS_Subset
<1>2. Cardinality(s) \in Nat
  BY <1>1, FS_CardinalityType
<1>3. Cardinality(s \ {CHOOSE x \in s : TRUE}) = Cardinality(s) - 1
  BY <1>1, FS_RemoveElement
<1>4. QED
  BY <1>1, <1>2, <1>3

\* Such a function exists up to any size: no size is the first without one.
LEMMA SumsExist ==
  ASSUME NEW f, NEW S, IsFiniteSet(S), NEW n \in Nat
  PROVE  \E g : SumsUpTo(f, S, n, g)
<1> DEFINE Missing == {k \in Nat : ~ \E g : SumsUpTo(f, S, k, g)}
<1>1. SUFFICES ASSUME Missing # {} PROVE FALSE
  OBVIOUS
<1>2. PICK k \in Missing : \A j \in Missing : k <= j
  <2>1. Missing \in SUBSET Nat
    OBVIOUS
  <2> HIDE DEF Missing
  <2>2. QED
    BY <1>1, <2>1, LeastElement
<1>3. CASE k = 0
  <2> DEFINE g == [s \in UpTo(S, 0) |-> 0]
  <2>1. ASSUME NEW s \in UpTo(S, 0) PROVE s = {}
    <3>1. IsFiniteSet(s)
      BY FS_Subset DEF UpTo
    <3>2. Cardinality(s) = 0
      BY <3>1, FS_CardinalityType DEF UpTo
    <3>3. QED
      BY <3>1, <3>2, FS_EmptySet
  <2>2. SumsUpTo(f, S, 0, g)
    BY <2>1 DEF SumsUpTo
  <2>3. QED
    BY <1>3, <2>2
<1>4. CASE k # 0
  <2>1. k - 1 \in Nat /\ k - 1 \notin Missing /\ k \in Nat
    BY <1>2, <1>4
  <2>2. PICK h : SumsUpTo(f, S, k - 1, h)
    BY <2>1
  <2> DEFINE pick(s) == CHOOSE x \in s : TRUE
             rest(s) == s \ {pick(s)}
             g == [s \in UpTo(S, k) |-> IF s = {} THEN 0 ELSE f[pick(s)] + h[rest(s)]]
  <2>3. ASSUME NEW s \in UpTo(S, k), s # {} PROVE rest(s) \in UpTo(S, k - 1) /\ rest(s) \in UpTo(S, k)
    <3>1. s \in SUBSET S /\ Cardinality(s) <= k
      BY DEF UpTo
    <3>2. rest(s) \in SUBSET S /\ Cardinality(s) \in Nat /\ Cardinality(rest(s)) = Cardinality(s) - 1
      BY <2>3, <3>1, SmallerSet
    <3>3. QED
      BY <2>1, <3>1, <3>2 DEF UpTo
  <2>4. ASSUME NEW s \in UpTo(S, k - 1) PROVE s \in UpTo(S, k) /\ g[s] = h[s]
    <3>1. s \in UpTo(S, k)
      <4>1. IsFiniteSet(s)
        BY FS_Subset DEF UpTo
      <4>2. QED
        BY <2>1, <4>1, FS_CardinalityType DEF UpTo
    <3>2. QED
      BY <2>2, <3>1 DEF SumsUpTo
  <2>5. ASSUME NEW s \in UpTo(S, k) PROVE g[s] = IF s = {} THEN 0 ELSE f[pick(s)] + g[rest(s)]
    <3>1. CASE s = {}
      BY <3>1
    <3>2. CASE s # {}
      <4>1. g[rest(s)] = h[rest(s)]
        BY <2>3, <2>4, <3>2
      <4>2. g[s] = f[pick(s)] + h[rest(s)]
        BY <3>2
      <4>3. QED
        BY <3>2, <4>1, <4>2
    <3>3. QED
      BY <3>1, <3>2
  <2>6. SumsUpTo(f, S, k, g)
    BY <2>5 DEF SumsUpTo
  <2>7. QED
    BY <1>2, <2>6
<1>5. QED
  BY <1>3, <1>4

\* Hence it exists for a whole finite set.
LEMMA SumStepExists ==
  ASSUME NEW f, NEW S, IsFiniteSet(S)
  PROVE  \E g : SumStep(f, S, g)
<1> DEFINE n == Cardinality(S)
<1>1. n \in Nat
  BY FS_CardinalityType
<1>2. PICK g : SumsUpTo(f, S, n, g)
  BY <1>1, SumsExist
<1>3. UpTo(S, n) = SUBSET S
  <2>1. ASSUME NEW s \in SUBSET S PROVE Cardinality(s) <= n
    BY FS_Subset
  <2>2. QED
    BY <2>1 DEF UpTo
<1> DEFINE h == [s \in SUBSET S |-> g[s]]
<1>4. ASSUME NEW s \in SUBSET S
      PROVE  h[s] = IF s = {} THEN 0 ELSE f[CHOOSE x \in s : TRUE] + h[s \ {CHOOSE x \in s : TRUE}]
  BY <1>2, <1>3 DEF SumsUpTo
<1>5. h = [s \in SUBSET S |-> IF s = {} THEN 0 ELSE f[CHOOSE x \in s : TRUE] + h[s \ {CHOOSE x \in s : TRUE}]]
  BY <1>4
<1>6. QED
  BY <1>5 DEF SumStep

\* Two such functions agree on the subsets they share.
LEMMA SumsAgree ==
  ASSUME NEW f, NEW S, IsFiniteSet(S), NEW T \in SUBSET S, NEW g, NEW h, SumStep(f, S, g), SumStep(f, T, h)
  PROVE  \A s \in SUBSET T : g[s] = h[s]
<1> DEFINE Odd == {s \in SUBSET T : g[s] # h[s]}
<1>1. SUFFICES ASSUME Odd # {} PROVE FALSE
  OBVIOUS
<1>2. IsFiniteSet(T) /\ Odd \in SUBSET (SUBSET T)
  BY FS_Subset
<1>3. PICK s \in Odd : \A r \in Odd : r \subseteq s => r = s
  <2> HIDE DEF Odd
  <2>1. QED
    BY <1>1, <1>2, SmallestSet
<1>4. s \in SUBSET T /\ s \in SUBSET S /\ g[s] # h[s]
  OBVIOUS
<1>5. /\ g[s] = IF s = {} THEN 0 ELSE f[CHOOSE x \in s : TRUE] + g[s \ {CHOOSE x \in s : TRUE}]
      /\ h[s] = IF s = {} THEN 0 ELSE f[CHOOSE x \in s : TRUE] + h[s \ {CHOOSE x \in s : TRUE}]
  BY <1>4 DEF SumStep
<1>6. s # {}
  BY <1>4, <1>5
<1> DEFINE r == s \ {CHOOSE x \in s : TRUE}
<1>7. r \in SUBSET T /\ r # s /\ r \subseteq s
  BY <1>4, <1>6
<1>8. g[r] = h[r]
  BY <1>3, <1>7
<1>9. QED
  BY <1>4, <1>5, <1>6, <1>8

\* A sum takes an element and goes on with the rest.
LEMMA SumTakes ==
  ASSUME NEW f, NEW S, IsFiniteSet(S)
  PROVE  SumFunctionOnSet(f, S) =
           IF S = {} THEN 0
           ELSE f[CHOOSE x \in S : TRUE] + SumFunctionOnSet(f, S \ {CHOOSE x \in S : TRUE})
<1> DEFINE T == S \ {CHOOSE x \in S : TRUE}
           g == CHOOSE k : SumStep(f, S, k)
           h == CHOOSE k : SumStep(f, T, k)
<1>1. IsFiniteSet(T) /\ T \in SUBSET S
  BY FS_Subset
<1>2. SumStep(f, S, g)
  BY SumStepExists
<1>3. SumStep(f, T, h)
  BY <1>1, SumStepExists
<1>4. g[T] = h[T]
  <2> HIDE DEF g, h, T
  <2>1. QED
    BY <1>1, <1>2, <1>3, SumsAgree
<1>5. g[S] = IF S = {} THEN 0 ELSE f[CHOOSE x \in S : TRUE] + g[T]
  <2> HIDE DEF g
  <2>1. QED
    BY <1>2 DEF SumStep
<1>6. SumFunctionOnSet(f, S) = g[S] /\ SumFunctionOnSet(f, T) = h[T]
  BY SumUnfolds
<1>7. QED
  BY <1>4, <1>5, <1>6

\* The sum over nothing is nothing.
LEMMA SumOfNone ==
  ASSUME NEW f
  PROVE  SumFunctionOnSet(f, {}) = 0
  BY SumTakes, FS_EmptySet

\* Sums of naturals are naturals.
LEMMA SumIsNatural ==
  ASSUME NEW f, NEW S, IsFiniteSet(S), \A x \in S : f[x] \in Nat
  PROVE  SumFunctionOnSet(f, S) \in Nat
<1> DEFINE Odd == {s \in SUBSET S : SumFunctionOnSet(f, s) \notin Nat}
<1>1. SUFFICES ASSUME Odd # {} PROVE FALSE
  OBVIOUS
<1>2. PICK s \in Odd : \A r \in Odd : r \subseteq s => r = s
  <2>1. Odd \in SUBSET (SUBSET S)
    OBVIOUS
  <2> HIDE DEF Odd
  <2>2. QED
    BY <1>1, <2>1, SmallestSet
<1>3. s \in SUBSET S /\ IsFiniteSet(s) /\ SumFunctionOnSet(f, s) \notin Nat
  BY FS_Subset
<1>4. s # {}
  BY <1>3, SumOfNone
<1> DEFINE r == s \ {CHOOSE x \in s : TRUE}
<1>5. r \in SUBSET S /\ r # s /\ r \subseteq s
  BY <1>3, <1>4
<1>6. SumFunctionOnSet(f, r) \in Nat
  BY <1>2, <1>5
<1>7. SumFunctionOnSet(f, s) = f[CHOOSE x \in s : TRUE] + SumFunctionOnSet(f, r) /\ f[CHOOSE x \in s : TRUE] \in Nat
  BY <1>3, <1>4, SumTakes
<1>8. QED
  BY <1>3, <1>6, <1>7

\* The element may be any.
LEMMA SumRemoves ==
  ASSUME NEW f, NEW S, IsFiniteSet(S), \A x \in S : f[x] \in Nat, NEW x \in S
  PROVE  SumFunctionOnSet(f, S) = f[x] + SumFunctionOnSet(f, S \ {x})
<1> DEFINE Odd == {s \in SUBSET S : \E y \in s : SumFunctionOnSet(f, s) # f[y] + SumFunctionOnSet(f, s \ {y})}
<1>1. SUFFICES ASSUME Odd # {} PROVE FALSE
  OBVIOUS
<1>2. PICK s \in Odd : \A r \in Odd : r \subseteq s => r = s
  <2>1. Odd \in SUBSET (SUBSET S)
    OBVIOUS
  <2> HIDE DEF Odd
  <2>2. QED
    BY <1>1, <2>1, SmallestSet
<1>3. PICK y \in s : SumFunctionOnSet(f, s) # f[y] + SumFunctionOnSet(f, s \ {y})
  OBVIOUS
<1> DEFINE z == CHOOSE v \in s : TRUE
<1>4. s \in SUBSET S /\ s # {} /\ z \in s /\ IsFiniteSet(s)
  BY FS_Subset
<1> HIDE DEF z
<1>5. SumFunctionOnSet(f, s) = f[z] + SumFunctionOnSet(f, s \ {z})
  BY <1>4, SumTakes DEF z
<1>6. y # z
  BY <1>3, <1>5
<1>7. s \ {z} \notin Odd /\ s \ {y} \notin Odd
  BY <1>2, <1>4
<1>8. SumFunctionOnSet(f, s \ {z}) = f[y] + SumFunctionOnSet(f, (s \ {z}) \ {y})
  BY <1>4, <1>6, <1>7
<1>9. SumFunctionOnSet(f, s \ {y}) = f[z] + SumFunctionOnSet(f, (s \ {y}) \ {z})
  BY <1>4, <1>6, <1>7
<1>10. (s \ {z}) \ {y} = (s \ {y}) \ {z}
  OBVIOUS
<1>11. /\ SumFunctionOnSet(f, (s \ {y}) \ {z}) \in Nat /\ f[y] \in Nat /\ f[z] \in Nat
  <2>1. IsFiniteSet((s \ {y}) \ {z}) /\ \A v \in (s \ {y}) \ {z} : f[v] \in Nat
    BY <1>4, FS_Subset
  <2>2. QED
    BY <1>4, <2>1, SumIsNatural
<1>12. QED
  BY <1>3, <1>5, <1>8, <1>9, <1>10, <1>11

\* The sum over two disjoint sets.
LEMMA SumOfUnion ==
  ASSUME NEW f, NEW S, IsFiniteSet(S), NEW T, IsFiniteSet(T), S \cap T = {}, \A x \in S \cup T : f[x] \in Nat
  PROVE  SumFunctionOnSet(f, S \cup T) = SumFunctionOnSet(f, S) + SumFunctionOnSet(f, T)
<1> DEFINE Odd == {s \in SUBSET S : SumFunctionOnSet(f, s \cup T) # SumFunctionOnSet(f, s) + SumFunctionOnSet(f, T)}
<1>1. SUFFICES ASSUME Odd # {} PROVE FALSE
  OBVIOUS
<1>2. PICK s \in Odd : \A r \in Odd : r \subseteq s => r = s
  <2>1. Odd \in SUBSET (SUBSET S)
    OBVIOUS
  <2> HIDE DEF Odd
  <2>2. QED
    BY <1>1, <2>1, SmallestSet
<1>3. /\ s \in SUBSET S /\ IsFiniteSet(s) /\ IsFiniteSet(s \cup T) /\ SumFunctionOnSet(f, T) \in Nat
      /\ SumFunctionOnSet(f, s \cup T) # SumFunctionOnSet(f, s) + SumFunctionOnSet(f, T)
  BY FS_Subset, FS_Union, SumIsNatural
<1>4. s # {}
  <2>1. SUFFICES ASSUME s = {} PROVE FALSE
    OBVIOUS
  <2>2. s \cup T = T
    BY <2>1
  <2>3. QED
    BY <1>3, <2>1, <2>2, SumOfNone
<1>5. PICK y : y \in s
  BY <1>4
<1>6. s \ {y} \notin Odd /\ s \ {y} \in SUBSET S
  BY <1>2, <1>5
<1>7. SumFunctionOnSet(f, (s \ {y}) \cup T) = SumFunctionOnSet(f, s \ {y}) + SumFunctionOnSet(f, T)
  BY <1>6
<1>8. (s \cup T) \ {y} = (s \ {y}) \cup T
  BY <1>3, <1>5
<1>9. SumFunctionOnSet(f, s \cup T) = f[y] + SumFunctionOnSet(f, (s \cup T) \ {y})
  <2>1. \A x \in s \cup T : f[x] \in Nat
    OBVIOUS
  <2>2. QED
    BY <1>3, <1>5, <2>1, SumRemoves
<1>10. SumFunctionOnSet(f, s) = f[y] + SumFunctionOnSet(f, s \ {y})
  BY <1>3, <1>5, SumRemoves
<1>11. f[y] \in Nat /\ SumFunctionOnSet(f, s \ {y}) \in Nat
  BY <1>3, <1>5, <1>6, FS_Subset, SumIsNatural
<1>12. \A a, b, c \in Nat : a + (b + c) = (a + b) + c
  OBVIOUS
<1>13. SumFunctionOnSet(f, s \cup T) = f[y] + (SumFunctionOnSet(f, s \ {y}) + SumFunctionOnSet(f, T))
  BY <1>7, <1>8, <1>9
<1>14. SumFunctionOnSet(f, s) + SumFunctionOnSet(f, T)
       = (f[y] + SumFunctionOnSet(f, s \ {y})) + SumFunctionOnSet(f, T)
  BY <1>10
<1>15. QED
  BY <1>3, <1>11, <1>12, <1>13, <1>14

\* A sum splits at any part of its set, and a part sums to no more than the whole.
LEMMA SumGrows ==
  ASSUME NEW f, NEW S, IsFiniteSet(S), \A x \in S : f[x] \in Nat, NEW T \in SUBSET S
  PROVE  /\ SumFunctionOnSet(f, T) \in Nat /\ SumFunctionOnSet(f, S) \in Nat
         /\ SumFunctionOnSet(f, S) = SumFunctionOnSet(f, T) + SumFunctionOnSet(f, S \ T)
         /\ SumFunctionOnSet(f, S \ T) \in Nat /\ SumFunctionOnSet(f, T) <= SumFunctionOnSet(f, S)
<1>1. IsFiniteSet(T) /\ IsFiniteSet(S \ T) /\ T \cap (S \ T) = {} /\ T \cup (S \ T) = S
  BY FS_Subset
<1>2. SumFunctionOnSet(f, T) \in Nat /\ SumFunctionOnSet(f, S \ T) \in Nat
  BY <1>1, SumIsNatural
<1>3. SumFunctionOnSet(f, T \cup (S \ T)) = SumFunctionOnSet(f, T) + SumFunctionOnSet(f, S \ T)
  <2>1. \A x \in T \cup (S \ T) : f[x] \in Nat
    OBVIOUS
  <2>2. QED
    BY <1>1, <2>1, SumOfUnion
<1>4. QED
  BY <1>1, <1>2, <1>3

\* Sums of functions that agree, and of functions that add up.
LEMMA SumOfBoth ==
  ASSUME NEW S, IsFiniteSet(S), NEW f, NEW g, NEW h,
         \A x \in S : f[x] \in Nat /\ g[x] \in Nat /\ h[x] = f[x] + g[x]
  PROVE  SumFunctionOnSet(h, S) = SumFunctionOnSet(f, S) + SumFunctionOnSet(g, S)
<1> DEFINE Odd == {s \in SUBSET S : SumFunctionOnSet(h, s) # SumFunctionOnSet(f, s) + SumFunctionOnSet(g, s)}
<1>1. SUFFICES ASSUME Odd # {} PROVE FALSE
  OBVIOUS
<1>2. PICK s \in Odd : \A r \in Odd : r \subseteq s => r = s
  <2>1. Odd \in SUBSET (SUBSET S)
    OBVIOUS
  <2> HIDE DEF Odd
  <2>2. QED
    BY <1>1, <2>1, SmallestSet
<1>3. /\ s \in SUBSET S /\ IsFiniteSet(s)
      /\ SumFunctionOnSet(h, s) # SumFunctionOnSet(f, s) + SumFunctionOnSet(g, s)
  BY FS_Subset
<1>4. s # {}
  <2>1. SumFunctionOnSet(h, {}) = 0 /\ SumFunctionOnSet(f, {}) = 0 /\ SumFunctionOnSet(g, {}) = 0
    BY SumOfNone
  <2>2. QED
    BY <1>3, <2>1
<1> DEFINE y == CHOOSE x \in s : TRUE
           r == s \ {y}
<1>5. r \in SUBSET S /\ r # s /\ r \subseteq s /\ y \in S /\ IsFiniteSet(r)
  BY <1>3, <1>4, FS_Subset
<1>6. SumFunctionOnSet(h, r) = SumFunctionOnSet(f, r) + SumFunctionOnSet(g, r)
  BY <1>2, <1>5
<1>7. /\ SumFunctionOnSet(h, s) = h[y] + SumFunctionOnSet(h, r)
      /\ SumFunctionOnSet(f, s) = f[y] + SumFunctionOnSet(f, r)
      /\ SumFunctionOnSet(g, s) = g[y] + SumFunctionOnSet(g, r)
  BY <1>3, <1>4, SumTakes
<1>8. f[y] \in Nat /\ g[y] \in Nat /\ h[y] = f[y] + g[y]
  BY <1>5
<1>9. SumFunctionOnSet(f, r) \in Nat /\ SumFunctionOnSet(g, r) \in Nat
  BY <1>5, SumIsNatural
<1>10. QED
  <2> HIDE DEF y, r
  <2>1. QED
    BY <1>3, <1>6, <1>7, <1>8, <1>9

\* A sum of zeros is zero.
LEMMA SumOfNothing ==
  ASSUME NEW S, IsFiniteSet(S), NEW f, \A x \in S : f[x] = 0
  PROVE  SumFunctionOnSet(f, S) = 0
<1>1. SumFunctionOnSet(f, S) = SumFunctionOnSet(f, S) + SumFunctionOnSet(f, S)
  BY SumOfBoth
<1>2. SumFunctionOnSet(f, S) \in Nat
  BY SumIsNatural
<1>3. \A a \in Nat : a = a + a => a = 0
  OBVIOUS
<1>4. QED
  BY <1>1, <1>2, <1>3

\* Equal terms have equal sums.
LEMMA SumOfSame ==
  ASSUME NEW S, IsFiniteSet(S), NEW f, NEW g, \A x \in S : f[x] \in Nat /\ g[x] = f[x]
  PROVE  SumFunctionOnSet(g, S) = SumFunctionOnSet(f, S)
<1> DEFINE z == [x \in S |-> 0]
<1>1. SumFunctionOnSet(z, S) = 0
  BY SumOfNothing
<1>2. SumFunctionOnSet(g, S) = SumFunctionOnSet(f, S) + SumFunctionOnSet(z, S)
  <2>1. \A x \in S : f[x] \in Nat /\ z[x] \in Nat /\ g[x] = f[x] + z[x]
    OBVIOUS
  <2> HIDE DEF z
  <2>2. QED
    BY <2>1, SumOfBoth
<1>3. SumFunctionOnSet(f, S) \in Nat
  BY SumIsNatural
<1>4. QED
  BY <1>1, <1>2, <1>3

\* The sum over a set is the sum over its parts.
LEMMA SumOfParts ==
  ASSUME NEW S, IsFiniteSet(S), NEW f, \A x \in S : f[x] \in Nat,
         NEW M, IsFiniteSet(M), NEW part, \A x \in S : part[x] \in M
  PROVE  SumFunctionOnSet(f, S) =
           SumFunctionOnSet([m \in M |-> SumFunctionOnSet(f, {x \in S : part[x] = m})], M)
<1> DEFINE P(s) == [m \in M |-> SumFunctionOnSet(f, {x \in s : part[x] = m})]
           Odd == {s \in SUBSET S : SumFunctionOnSet(f, s) # SumFunctionOnSet(P(s), M)}
<1>1. SUFFICES ASSUME Odd # {} PROVE FALSE
  OBVIOUS
<1>2. PICK s \in Odd : \A r \in Odd : r \subseteq s => r = s
  <2>1. Odd \in SUBSET (SUBSET S)
    OBVIOUS
  <2> HIDE DEF Odd
  <2>2. QED
    BY <1>1, <2>1, SmallestSet
<1>3. s \in SUBSET S /\ IsFiniteSet(s) /\ SumFunctionOnSet(f, s) # SumFunctionOnSet(P(s), M)
  BY FS_Subset
<1>4. ASSUME NEW r \in SUBSET S, NEW m \in M PROVE P(r)[m] \in Nat
  <2>1. IsFiniteSet({x \in r : part[x] = m}) /\ \A x \in {x \in r : part[x] = m} : f[x] \in Nat
    BY FS_Subset
  <2>2. QED
    BY <2>1, SumIsNatural
<1>5. s # {}
  <2>1. SUFFICES ASSUME s = {} PROVE FALSE
    OBVIOUS
  <2>2. \A m \in M : P(s)[m] = 0
    <3>1. \A m \in M : {x \in s : part[x] = m} = {}
      BY <2>1
    <3>2. QED
      BY <3>1, SumOfNone
  <2>3. SumFunctionOnSet(P(s), M) = 0
    BY <2>2, SumOfNothing
  <2>4. QED
    BY <1>3, <2>1, <2>3, SumOfNone
<1>6. PICK y : y \in s
  BY <1>5
<1> DEFINE r == s \ {y}
           n == part[y]
<1>7. r \in SUBSET S /\ r # s /\ r \subseteq s /\ y \in S /\ n \in M /\ f[y] \in Nat /\ IsFiniteSet(r)
  BY <1>3, <1>6, FS_Subset
<1>8. SumFunctionOnSet(f, r) = SumFunctionOnSet(P(r), M)
  BY <1>2, <1>7
<1>9. SumFunctionOnSet(f, s) = f[y] + SumFunctionOnSet(f, r)
  BY <1>3, <1>6, SumRemoves
<1>10. P(s)[n] = f[y] + P(r)[n]
  <2> DEFINE A == {x \in s : part[x] = n}
             B == {x \in r : part[x] = n}
  <2>1. IsFiniteSet(A) /\ y \in A /\ A \ {y} = B /\ \A x \in A : f[x] \in Nat
    BY <1>3, <1>6, FS_Subset
  <2>2. SumFunctionOnSet(f, A) = f[y] + SumFunctionOnSet(f, B)
    <3> HIDE DEF A, B
    <3>1. QED
      BY <2>1, SumRemoves
  <2>3. P(s)[n] = SumFunctionOnSet(f, A) /\ P(r)[n] = SumFunctionOnSet(f, B)
    BY <1>7
  <2>4. QED
    BY <2>2, <2>3
<1>11. \A m \in M \ {n} : P(s)[m] = P(r)[m]
  <2>1. \A m \in M \ {n} : {x \in s : part[x] = m} = {x \in r : part[x] = m}
    OBVIOUS
  <2>2. QED
    BY <2>1
<1>12. /\ SumFunctionOnSet(P(s), M) = P(s)[n] + SumFunctionOnSet(P(s), M \ {n})
       /\ SumFunctionOnSet(P(r), M) = P(r)[n] + SumFunctionOnSet(P(r), M \ {n})
  <2>1. \A m \in M : P(s)[m] \in Nat /\ P(r)[m] \in Nat
    BY <1>3, <1>4, <1>7
  <2> HIDE DEF P, r, n
  <2>2. QED
    BY <1>7, <2>1, SumRemoves
<1>13. SumFunctionOnSet(P(s), M \ {n}) = SumFunctionOnSet(P(r), M \ {n})
       /\ SumFunctionOnSet(P(r), M \ {n}) \in Nat
  <2>1. IsFiniteSet(M \ {n}) /\ \A m \in M \ {n} : P(r)[m] \in Nat /\ P(s)[m] = P(r)[m]
    BY <1>4, <1>7, <1>11, FS_Subset
  <2> HIDE DEF P, r, n
  <2>2. QED
    BY <2>1, SumOfSame, SumIsNatural
<1>14. P(r)[n] \in Nat
  BY <1>4, <1>7
<1>15. QED
  <2> HIDE DEF P, r, n
  <2>1. QED
    BY <1>3, <1>7, <1>8, <1>9, <1>10, <1>12, <1>13, <1>14

\* A sum of naturals that is zero has no other terms.
LEMMA NothingInSum ==
  ASSUME NEW S, IsFiniteSet(S), NEW h, \A x \in S : h[x] \in Nat, SumFunctionOnSet(h, S) = 0, NEW x \in S
  PROVE  h[x] = 0
<1>1. SumFunctionOnSet(h, S) = h[x] + SumFunctionOnSet(h, S \ {x})
  BY SumRemoves
<1>2. SumFunctionOnSet(h, S \ {x}) \in Nat
  <2>1. IsFiniteSet(S \ {x}) /\ \A y \in S \ {x} : h[y] \in Nat
    BY FS_Subset
  <2>2. QED
    BY <2>1, SumIsNatural
<1>3. \A a, b \in Nat : a + b = 0 => a = 0
  OBVIOUS
<1>4. QED
  BY <1>1, <1>2, <1>3


\* A function that is nothing outside a part sums to the sum of the part.
LEMMA SumOfFilled ==
  ASSUME NEW S, IsFiniteSet(S), NEW T \in SUBSET S, NEW t, \A x \in T : t[x] \in Nat,
         NEW f, \A x \in S : f[x] = IF x \in T THEN t[x] ELSE 0
  PROVE  SumFunctionOnSet(f, S) = SumFunctionOnSet(t, T)
<1>1. IsFiniteSet(T) /\ IsFiniteSet(S \ T) /\ T \cup (S \ T) = S /\ T \cap (S \ T) = {}
  BY FS_Subset
<1>2. /\ \A x \in T \cup (S \ T) : f[x] \in Nat
      /\ \A x \in S \ T : f[x] = 0
      /\ \A x \in T : t[x] \in Nat /\ f[x] = t[x]
  BY <1>1
<1>3. SumFunctionOnSet(f, T \cup (S \ T)) = SumFunctionOnSet(f, T) + SumFunctionOnSet(f, S \ T)
  BY <1>1, <1>2, SumOfUnion
<1>4. SumFunctionOnSet(f, S \ T) = 0
  BY <1>1, <1>2, SumOfNothing
<1>5. SumFunctionOnSet(f, T) = SumFunctionOnSet(t, T)
  BY <1>1, <1>2, SumOfSame
<1>6. SumFunctionOnSet(f, T) \in Nat
  BY <1>1, <1>2, SumIsNatural
<1>7. \A a \in Nat : a + 0 = a
  OBVIOUS
<1>8. QED
  BY <1>1, <1>3, <1>4, <1>5, <1>6, <1>7

\* Two functions that differ at one place.
LEMMA SumDiffers ==
  ASSUME NEW S, IsFiniteSet(S), NEW f, NEW g, \A x \in S : f[x] \in Nat /\ g[x] \in Nat,
         NEW y \in S, \A x \in S \ {y} : g[x] = f[x]
  PROVE  /\ SumFunctionOnSet(f, S) \in Nat /\ SumFunctionOnSet(g, S) \in Nat
         /\ SumFunctionOnSet(g, S) + f[y] = SumFunctionOnSet(f, S) + g[y]
<1> DEFINE T == S \ {y}
<1>1. IsFiniteSet(T) /\ \A x \in T : f[x] \in Nat /\ g[x] = f[x]
  BY FS_Subset
<1>2. SumFunctionOnSet(f, S) = f[y] + SumFunctionOnSet(f, T)
  BY SumRemoves
<1>3. SumFunctionOnSet(g, S) = g[y] + SumFunctionOnSet(g, T)
  BY SumRemoves
<1> HIDE DEF T
<1>4. SumFunctionOnSet(g, T) = SumFunctionOnSet(f, T) /\ SumFunctionOnSet(f, T) \in Nat
  BY <1>1, SumOfSame, SumIsNatural
<1>5. \A a, b, c \in Nat : /\ a + b \in Nat /\ c + b \in Nat
                           /\ (c + b) + a = (a + b) + c
  OBVIOUS
<1>6. f[y] \in Nat /\ g[y] \in Nat
  OBVIOUS
<1>7. QED
  BY <1>2, <1>3, <1>4, <1>5, <1>6

\* The sum of a sequence's values grows by what is appended.
LEMMA SumOfLonger ==
  ASSUME NEW n \in Nat, NEW f, NEW g, \A i \in 1 .. n : f[i] \in Nat /\ g[i] = f[i], g[n + 1] \in Nat
  PROVE  /\ SumFunctionOnSet(f, 1 .. n) \in Nat
         /\ SumFunctionOnSet(g, 1 .. n + 1) = SumFunctionOnSet(f, 1 .. n) + g[n + 1]
<1> DEFINE S == 1 .. n + 1
           T == 1 .. n
<1>1. IsFiniteSet(S) /\ IsFiniteSet(T)
  BY FS_Interval
<1>2. S \ {n + 1} = T /\ n + 1 \in S
  OBVIOUS
<1>3. \A i \in S : g[i] \in Nat
  <2>1. \A i \in S : i \in T \/ i = n + 1
    OBVIOUS
  <2>2. QED
    BY <2>1
<1>4. \A i \in T : f[i] \in Nat /\ g[i] = f[i]
  OBVIOUS
<1> HIDE DEF S, T
<1>5. SumFunctionOnSet(g, S) = g[n + 1] + SumFunctionOnSet(g, T)
  BY <1>1, <1>2, <1>3, SumRemoves
<1>6. SumFunctionOnSet(g, T) = SumFunctionOnSet(f, T) /\ SumFunctionOnSet(f, T) \in Nat
  BY <1>1, <1>4, SumOfSame, SumIsNatural
<1>7. \A a, b \in Nat : a + b = b + a
  OBVIOUS
<1>8. QED
  BY <1>5, <1>6, <1>7 DEF S, T

--------------------------------------------------------------------------------
(* Folds over sequences.  The library defines one as a function of sets of positions. *)

\* A set of positions that is not empty has a last one.
LEMMA LastPosition ==
  ASSUME NEW n \in Nat, NEW s \in SUBSET (1 .. n), s # {}
  PROVE  Max(s) \in s /\ \A y \in s : y <= Max(s)
<1> DEFINE back == {n - x : x \in s}
<1>1. back \in SUBSET Nat /\ back # {}
  <2>1. \A x \in s : x \in 1 .. n
    OBVIOUS
  <2>2. \A x \in s : n - x \in Nat
    BY <2>1
  <2>3. PICK x \in s : TRUE
    OBVIOUS
  <2>4. n - x \in back
    BY <2>3
  <2>5. QED
    BY <2>2, <2>4
<1>2. PICK b \in back : \A c \in back : b <= c
  <2> HIDE DEF back
  <2>1. QED
    BY <1>1, LeastElement
<1>3. PICK x \in s : b = n - x
  OBVIOUS
<1>4. \A y \in s : x >= y
  <2>1. ASSUME NEW y \in s PROVE x >= y
    <3>1. n - y \in back /\ y \in Nat /\ x \in Nat
      OBVIOUS
    <3>2. n - x <= n - y
      BY <1>2, <1>3, <3>1
    <3>3. QED
      BY <3>1, <3>2
  <2>2. QED
    BY <2>1
<1>5. Max(s) \in s /\ \A y \in s : Max(s) >= y
  BY <1>4 DEF Max
<1>6. QED
  BY <1>5

\* A function that folds up to n positions of a sequence.
FoldsUpTo(step, base, seq, T, n, g) ==
    /\ g \in [UpTo(DOMAIN seq, n) -> T]
    /\ \A s \in UpTo(DOMAIN seq, n) :
        g[s] = IF s = {} THEN base ELSE step[<<g[s \ {Max(s)}], seq[Max(s)]>>]

\* A function that folds every prefix, and the whole.
FoldsAll(step, base, seq, T, g) ==
    /\ g \in [SUBSET (DOMAIN seq) -> T]
    /\ \A s \in SUBSET (DOMAIN seq) :
        g[s] = IF s = {} THEN base ELSE step[<<g[s \ {Max(s)}], seq[Max(s)]>>]

\* A step that stays within a set of states can be folded over every sequence.
LEMMA FoldExists ==
  ASSUME NEW T, NEW X, NEW step \in [T \X X -> T], NEW base \in T, NEW seq \in Seq(X)
  PROVE  \E g : FoldsAll(step, base, seq, T, g)
<1> DEFINE D == DOMAIN seq
           Missing == {k \in Nat : ~ \E g : FoldsUpTo(step, base, seq, T, k, g)}
<1>1. /\ Len(seq) \in Nat /\ D = 1 .. Len(seq) /\ IsFiniteSet(D) /\ Cardinality(D) \in Nat
      /\ \A i \in D : seq[i] \in X
  <2>1. Len(seq) \in Nat /\ D = 1 .. Len(seq) /\ \A i \in D : seq[i] \in X
    OBVIOUS
  <2>2. QED
    BY <2>1, FS_Interval, FS_CardinalityType
<1>2. ASSUME NEW s \in SUBSET D, s # {}
      PROVE  /\ Max(s) \in s /\ s \ {Max(s)} \in SUBSET D
             /\ Cardinality(s) \in Nat /\ Cardinality(s \ {Max(s)}) = Cardinality(s) - 1
  <2>1. Max(s) \in s
    BY <1>1, <1>2, LastPosition
  <2>2. IsFiniteSet(s)
    BY <1>1, FS_Subset
  <2>3. QED
    BY <2>1, <2>2, FS_CardinalityType, FS_RemoveElement
<1>3. Missing = {}
  <2>1. SUFFICES ASSUME Missing # {} PROVE FALSE
    OBVIOUS
  <2>2. PICK k \in Missing : \A j \in Missing : k <= j
    <3>1. Missing \in SUBSET Nat
      OBVIOUS
    <3> HIDE DEF Missing
    <3>2. QED
      BY <2>1, <3>1, LeastElement
  <2>3. CASE k = 0
    <3> DEFINE g == [s \in UpTo(D, 0) |-> base]
    <3>1. ASSUME NEW s \in UpTo(D, 0) PROVE s = {}
      <4>1. CASE s # {}
        <5>1. s \in SUBSET D /\ Cardinality(s) <= 0
          BY DEF UpTo
        <5>2. Cardinality(s \ {Max(s)}) \in Nat
          <6>1. IsFiniteSet(s \ {Max(s)})
            BY <1>1, <5>1, FS_Subset
          <6>2. QED
            BY <6>1, FS_CardinalityType
        <5>3. Cardinality(s) \in Nat /\ Cardinality(s \ {Max(s)}) = Cardinality(s) - 1
          BY <1>2, <4>1, <5>1
        <5>4. QED
          BY <5>1, <5>2, <5>3
      <4>2. QED
        BY <4>1
    <3>2. g \in [UpTo(D, 0) -> T] /\ \A s \in UpTo(D, 0) : g[s] = base
      OBVIOUS
    <3>3. FoldsUpTo(step, base, seq, T, 0, g)
      BY <3>1, <3>2 DEF FoldsUpTo
    <3>4. QED
      BY <2>3, <3>3
  <2>4. CASE k # 0
    <3>1. k - 1 \in Nat /\ k - 1 \notin Missing /\ k \in Nat
      BY <2>2, <2>4
    <3>2. PICK h : FoldsUpTo(step, base, seq, T, k - 1, h)
      BY <3>1
    <3> DEFINE g == [s \in UpTo(D, k) |-> IF s = {} THEN base ELSE step[<<h[s \ {Max(s)}], seq[Max(s)]>>]]
    <3>3. ASSUME NEW s \in UpTo(D, k), s # {}
          PROVE  /\ s \ {Max(s)} \in UpTo(D, k - 1) /\ s \ {Max(s)} \in UpTo(D, k)
                 /\ Max(s) \in D
      <4>1. s \in SUBSET D /\ Cardinality(s) <= k
        BY DEF UpTo
      <4>2. /\ Max(s) \in s /\ s \ {Max(s)} \in SUBSET D
            /\ Cardinality(s) \in Nat /\ Cardinality(s \ {Max(s)}) = Cardinality(s) - 1
        BY <1>2, <3>3, <4>1
      <4>3. QED
        BY <3>1, <4>1, <4>2 DEF UpTo
    <3>4. ASSUME NEW s \in UpTo(D, k - 1) PROVE s \in UpTo(D, k) /\ g[s] = h[s]
      <4>1. s \in UpTo(D, k)
        <5>1. s \in SUBSET D /\ Cardinality(s) <= k - 1
          BY DEF UpTo
        <5>2. Cardinality(s) \in Nat
          BY <1>1, <5>1, FS_Subset, FS_CardinalityType
        <5>3. QED
          BY <3>1, <5>1, <5>2 DEF UpTo
      <4>2. QED
        BY <3>2, <4>1 DEF FoldsUpTo
    <3>5. g \in [UpTo(D, k) -> T]
      <4>1. ASSUME NEW s \in UpTo(D, k), s # {}
            PROVE  step[<<h[s \ {Max(s)}], seq[Max(s)]>>] \in T
        <5>1. h[s \ {Max(s)}] \in T /\ seq[Max(s)] \in X
          BY <1>1, <3>2, <3>3, <4>1 DEF FoldsUpTo
        <5>2. QED
          BY <5>1
      <4>2. QED
        BY <4>1
    <3>6. ASSUME NEW s \in UpTo(D, k)
          PROVE  g[s] = IF s = {} THEN base ELSE step[<<g[s \ {Max(s)}], seq[Max(s)]>>]
      <4>1. CASE s = {}
        BY <4>1
      <4>2. CASE s # {}
        <5>1. g[s \ {Max(s)}] = h[s \ {Max(s)}]
          BY <3>3, <3>4, <4>2
        <5>2. g[s] = step[<<h[s \ {Max(s)}], seq[Max(s)]>>]
          BY <4>2
        <5> HIDE DEF g
        <5>3. QED
          BY <4>2, <5>1, <5>2
      <4>3. QED
        BY <4>1, <4>2
    <3>7. FoldsUpTo(step, base, seq, T, k, g)
      <4> HIDE DEF g
      <4>1. QED
        BY <3>5, <3>6 DEF FoldsUpTo
    <3>8. QED
      BY <2>2, <3>7
  <2>5. QED
    BY <2>3, <2>4
<1>4. PICK g : FoldsUpTo(step, base, seq, T, Cardinality(D), g)
  BY <1>1, <1>3
<1>5. UpTo(D, Cardinality(D)) = SUBSET D
  <2>1. ASSUME NEW s \in SUBSET D PROVE Cardinality(s) <= Cardinality(D)
    BY <1>1, FS_Subset
  <2>2. QED
    BY <2>1 DEF UpTo
<1>6. QED
  BY <1>4, <1>5 DEF FoldsUpTo, FoldsAll

\* What holds at first and is passed on from one number to the next holds of all.
LEMMA Stepwise ==
  ASSUME NEW n \in Nat, NEW G, 0 \in G, \A k \in 1 .. n : k - 1 \in G => k \in G
  PROVE  \A k \in 0 .. n : k \in G
<1> DEFINE Bad == {k \in 0 .. n : k \notin G}
<1>1. SUFFICES ASSUME Bad # {} PROVE FALSE
  OBVIOUS
<1>2. PICK k \in Bad : \A j \in Bad : k <= j
  <2>1. Bad \in SUBSET Nat
    OBVIOUS
  <2> HIDE DEF Bad
  <2>2. QED
    BY <1>1, <2>1, LeastElement
<1>3. k \in 1 .. n /\ k - 1 \in 0 .. n /\ ~(k <= k - 1)
  OBVIOUS
<1>4. k - 1 \in G
  BY <1>2, <1>3
<1>5. QED
  BY <1>2, <1>3, <1>4

\* The last position of a prefix, and the prefix before it.
LEMMA PrefixEnds ==
  ASSUME NEW n \in Nat, NEW k \in 1 .. n
  PROVE  /\ 1 .. k \in SUBSET (1 .. n) /\ 1 .. k # {} /\ Max(1 .. k) = k
         /\ (1 .. k) \ {k} = 1 .. (k - 1)
<1> DEFINE s == 1 .. k
<1>1. s \in SUBSET (1 .. n) /\ k \in s /\ \A y \in s : y <= k
  OBVIOUS
<1>2. s \ {k} = 1 .. (k - 1)
  OBVIOUS
<1> HIDE DEF s
<1>3. Max(s) \in s /\ \A y \in s : y <= Max(s)
  BY <1>1, LastPosition
<1>4. Max(s) = k
  <2>1. Max(s) <= k /\ k <= Max(s) /\ Max(s) \in 1 .. n
    BY <1>1, <1>3
  <2>2. QED
    BY <2>1
<1>5. QED
  BY <1>1, <1>2, <1>4 DEF s

\* A finite set as a sequence: every element once.
LEMMA EachOnce ==
  ASSUME NEW S, IsFiniteSet(S)
  PROVE  /\ Cardinality(S) \in Nat
         /\ SetToSeq(S) \in [1 .. Cardinality(S) -> S]
         /\ \A i, j \in 1 .. Cardinality(S) : SetToSeq(S)[i] = SetToSeq(S)[j] => i = j
         /\ \A x \in S : \E i \in 1 .. Cardinality(S) : SetToSeq(S)[i] = x
<1> DEFINE n == Cardinality(S)
           f == SetToSeq(S)
<1>1. n \in Nat /\ ExistsBijection(1..n, S)
  BY FS_CardinalityType
<1>2. \E g \in [1..n -> S] : IsInjective(g)
  BY <1>1 DEF ExistsBijection, Bijection, Injection
<1>3. f \in [1..n -> S] /\ IsInjective(f)
  BY <1>2 DEF SetToSeq
<1>4. IsFiniteSet(1..n) /\ Cardinality(1..n) = n
  BY <1>1, FS_Interval
<1>5. f \in Surjection(1..n, S)
  BY <1>3, <1>4, FS_Injection DEF Injection
<1>6. QED
  BY <1>1, <1>3, <1>5 DEF IsInjective, Surjection
================================================================================
