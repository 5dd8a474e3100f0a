----------------------------- MODULE SumTheorems -----------------------------
(***************************************************************************)
(* What the sums over finite sets of the community modules compute.  They  *)
(* are folds, recursive functions on the subsets of a set; the facts are   *)
(* proved from a smallest set for which they would fail.                   *)
(***************************************************************************)
EXTENDS Integers, FiniteSets, Functions, FiniteSetTheorems, WellFoundedInduction, TLAPS

-----------------------------------------------------------------------------
(* Induction *)

\* A set of natural numbers has a least one.
LEMMA LeastNatural ==
    ASSUME NEW T \in SUBSET Nat, T # {}
    PROVE  \E m \in T : \A n \in T : m <= n
<1>1. PICK m \in T : \A n \in T : <<n, m>> \notin OpToRel(<, Nat)
  BY NatLessThanWellFounded, WFMin
<1>2. m \in Nat /\ \A n \in T : n \in Nat /\ ~(n < m)
  BY <1>1 DEF OpToRel
<1>3. \A n \in T : m <= n
  BY <1>2
<1>. QED
  BY <1>3

\* A set of subsets of a finite set has one that no other of them lies in.
LEMMA SmallestSubset ==
    ASSUME NEW S, IsFiniteSet(S), NEW T, T \subseteq SUBSET S, T # {}
    PROVE  \E s \in T : \A r \in T : r \subseteq s => r = s
<1>1. T \subseteq FiniteSubsetsOf(S)
  BY FS_FiniteSubsetsOfFinite
<1>2. PICK s \in T : \A r \in T : <<r, s>> \notin StrictSubsetOrdering(S)
  BY <1>1, FS_StrictSubsetOrderingWellFounded, WFMin
<1>3. ASSUME NEW r \in T, r \subseteq s, r # s PROVE FALSE
  BY <1>2, <1>3 DEF StrictSubsetOrdering
<1>. QED
  BY <1>3

-----------------------------------------------------------------------------
(* The fold is defined *)

Chosen(s) == CHOOSE x \in s : TRUE

\* One step of the recursion.
Unrolled(g, f, s) == IF s = {} THEN 0 ELSE f[Chosen(s)] + g[s \ {Chosen(s)}]

Solves(g, f, S) == g = [s \in SUBSET S |-> Unrolled(g, f, s)]

LEMMA ChosenIn == ASSUME NEW s, s # {} PROVE Chosen(s) \in s
  BY DEF Chosen

LEMMA SumIsSolution ==
    ASSUME NEW f, NEW S, \E g : Solves(g, f, S)
    PROVE  \E g : Solves(g, f, S) /\ SumFunctionOnSet(f, S) = g[S]
  BY DEF SumFunctionOnSet, FoldFunctionOnSet, MapThenFoldSet, Solves, Unrolled, Chosen

\* What solves the recursion for the sets of up to n elements, unrolled once, solves
\* it for those of n + 1.
LEMMA SolutionExists ==
    ASSUME NEW f, NEW S, IsFiniteSet(S)
    PROVE  \E g : Solves(g, f, S)
<1>. DEFINE Upto(g, n) == /\ g = [s \in SUBSET S |-> g[s]]
                          /\ \A s \in SUBSET S : Cardinality(s) <= n => g[s] = Unrolled(g, f, s)
            Bad == {n \in Nat : ~\E g : Upto(g, n)}
<1>0. \A s \in SUBSET S : IsFiniteSet(s) /\ Cardinality(s) \in Nat /\ Cardinality(s) <= Cardinality(S)
  BY FS_Subset, FS_CardinalityType
<1>1. 0 \notin Bad
  <2>. DEFINE g == [s \in SUBSET S |-> 0]
  <2>1. ASSUME NEW s \in SUBSET S, Cardinality(s) <= 0 PROVE s = {}
    BY <1>0, <2>1, FS_EmptySet
  <2>2. Upto(g, 0)
    BY <2>1 DEF Unrolled
  <2>. QED
    BY <2>2
<1>2. ASSUME NEW n \in Nat, n \notin Bad PROVE n + 1 \notin Bad
  <2>1. PICK g : Upto(g, n)
    BY <1>2
  <2>. DEFINE h == [s \in SUBSET S |-> Unrolled(g, f, s)]
  <2>2. ASSUME NEW s \in SUBSET S, Cardinality(s) <= n PROVE h[s] = g[s]
    BY <2>1, <2>2
  <2>3. ASSUME NEW s \in SUBSET S, Cardinality(s) <= n + 1 PROVE h[s] = Unrolled(h, f, s)
    <3>1. CASE s = {}
      BY <3>1 DEF Unrolled
    <3>2. CASE s # {}
      <4>. DEFINE r == s \ {Chosen(s)}
      <4>1. r \in SUBSET S /\ Cardinality(r) = Cardinality(s) - 1
        BY <1>0, <3>2, ChosenIn, FS_RemoveElement
      <4>2. Cardinality(r) <= n
        BY <1>0, <2>3, <4>1
      <4>3. h[r] = g[r]
        BY <2>2, <4>1, <4>2
      <4>. HIDE DEF h
      <4>4. h[s] = f[Chosen(s)] + g[r]
        BY <3>2 DEF h, Unrolled
      <4>. QED
        BY <3>2, <4>3, <4>4 DEF Unrolled
    <3>. QED
      BY <3>1, <3>2
  <2>4. Upto(h, n + 1)
    <3>1. h = [s \in SUBSET S |-> h[s]]
      OBVIOUS
    <3>. HIDE DEF h
    <3>. QED
      BY <2>3, <3>1
  <2>. HIDE DEF Upto
  <2>. QED
    BY <2>4
<1>. HIDE DEF Bad
<1>3. Bad = {}
  <2>. SUFFICES ASSUME Bad # {} PROVE FALSE
    OBVIOUS
  <2>0. Bad \in SUBSET Nat
    BY DEF Bad
  <2>1. PICK m \in Bad : \A n \in Bad : m <= n
    BY <2>0, LeastNatural
  <2>2. m \in Nat /\ m # 0
    BY <1>1, <2>0
  <2>3. m - 1 \in Nat /\ m - 1 \notin Bad
    BY <2>1, <2>2
  <2>4. (m - 1) + 1 \notin Bad
    BY <1>2, <2>3
  <2>. QED
    BY <2>2, <2>4
<1>4. Cardinality(S) \in Nat
  BY FS_CardinalityType
<1>5. PICK g : Upto(g, Cardinality(S))
  BY <1>3, <1>4 DEF Bad
<1>6. \A s \in SUBSET S : g[s] = Unrolled(g, f, s)
  BY <1>0, <1>5
<1>. QED
  BY <1>5, <1>6 DEF Solves

\* A solution for a set agrees with one for a set around it.
LEMMA SolutionUnique ==
    ASSUME NEW f, NEW S, IsFiniteSet(S), NEW T \in SUBSET S, NEW g, NEW h,
           Solves(g, f, S), Solves(h, f, T)
    PROVE  \A s \in SUBSET T : g[s] = h[s]
<1>. DEFINE Bad == {s \in SUBSET T : g[s] # h[s]}
<1>. SUFFICES ASSUME Bad # {} PROVE FALSE
  OBVIOUS
<1>1. IsFiniteSet(T)
  BY FS_Subset
<1>2. PICK s \in Bad : \A r \in Bad : r \subseteq s => r = s
  <2>1. Bad \subseteq SUBSET T
    OBVIOUS
  <2>. HIDE DEF Bad
  <2>. QED
    BY <1>1, <2>1, SmallestSubset
<1>3. g[s] = Unrolled(g, f, s) /\ h[s] = Unrolled(h, f, s)
  BY DEF Solves
<1>4. s # {}
  BY <1>3 DEF Unrolled
<1>5. s \ {Chosen(s)} \in SUBSET T /\ s \ {Chosen(s)} \notin Bad
  BY <1>2, <1>4, ChosenIn
<1>. QED
  BY <1>3, <1>4, <1>5 DEF Unrolled

-----------------------------------------------------------------------------
(* Sums *)

LEMMA SumEmpty == ASSUME NEW f PROVE SumFunctionOnSet(f, {}) = 0
<1>1. PICK g : Solves(g, f, {}) /\ SumFunctionOnSet(f, {}) = g[{}]
  BY FS_EmptySet, SolutionExists, SumIsSolution
<1>. QED
  BY <1>1 DEF Solves, Unrolled

LEMMA SumStep ==
    ASSUME NEW f, NEW S, IsFiniteSet(S), S # {}
    PROVE  SumFunctionOnSet(f, S) = f[Chosen(S)] + SumFunctionOnSet(f, S \ {Chosen(S)})
<1>. DEFINE T == S \ {Chosen(S)}
<1>1. IsFiniteSet(T) /\ T \in SUBSET S
  BY FS_RemoveElement
<1>2. PICK g : Solves(g, f, S) /\ SumFunctionOnSet(f, S) = g[S]
  BY SolutionExists, SumIsSolution
<1>3. PICK h : Solves(h, f, T) /\ SumFunctionOnSet(f, T) = h[T]
  BY <1>1, SolutionExists, SumIsSolution
<1>4. g[T] = h[T]
  BY <1>1, <1>2, <1>3, SolutionUnique
<1>5. g[S] = f[Chosen(S)] + g[T]
  BY <1>2 DEF Solves, Unrolled
<1>. QED
  BY <1>2, <1>3, <1>4, <1>5

\* A sum of integers is one.
LEMMA SumType ==
    ASSUME NEW f, NEW S, IsFiniteSet(S), \A x \in S : f[x] \in Int
    PROVE  SumFunctionOnSet(f, S) \in Int
<1>. DEFINE Bad == {s \in SUBSET S : SumFunctionOnSet(f, s) \notin Int}
<1>. SUFFICES ASSUME Bad # {} PROVE FALSE
  OBVIOUS
<1>1. PICK s \in Bad : \A r \in Bad : r \subseteq s => r = s
  <2>1. Bad \subseteq SUBSET S
    OBVIOUS
  <2>. HIDE DEF Bad
  <2>. QED
    BY <2>1, SmallestSubset
<1>2. s # {}
  BY SumEmpty
<1>3. IsFiniteSet(s) /\ Chosen(s) \in s
  BY <1>2, ChosenIn, FS_Subset
<1>4. s \ {Chosen(s)} \notin Bad
  BY <1>1, <1>3
<1>. QED
  BY <1>2, <1>3, <1>4, SumStep

\* Any element can be taken out first.
LEMMA SumWithout ==
    ASSUME NEW f, NEW S, IsFiniteSet(S), \A x \in S : f[x] \in Int, NEW x \in S
    PROVE  SumFunctionOnSet(f, S) = f[x] + SumFunctionOnSet(f, S \ {x})
<1>. DEFINE Total(s) == SumFunctionOnSet(f, s)
            Bad == {s \in SUBSET S : \E y \in s : Total(s) # f[y] + Total(s \ {y})}
<1>. SUFFICES ASSUME Bad # {} PROVE FALSE
  OBVIOUS
<1>1. PICK s \in Bad : \A r \in Bad : r \subseteq s => r = s
  <2>1. Bad \subseteq SUBSET S
    OBVIOUS
  <2>. HIDE DEF Bad
  <2>. QED
    BY <2>1, SmallestSubset
<1>2. PICK y \in s : Total(s) # f[y] + Total(s \ {y})
  OBVIOUS
<1>. DEFINE c == Chosen(s)
<1>3. c \in s
  BY ChosenIn
<1>. HIDE DEF c
<1>4. /\ IsFiniteSet(s) /\ IsFiniteSet(s \ {y}) /\ IsFiniteSet(s \ {c})
      /\ IsFiniteSet((s \ {c}) \ {y})
  BY FS_Subset
<1>5. Total(s) = f[c] + Total(s \ {c})
  BY <1>2, <1>4, SumStep DEF c
<1>6. y # c
  BY <1>2, <1>5
<1>7. s \ {c} \notin Bad /\ s \ {y} \notin Bad /\ s \ {c} \in SUBSET S /\ s \ {y} \in SUBSET S
  BY <1>1, <1>2, <1>3
<1>8. Total(s \ {c}) = f[y] + Total((s \ {c}) \ {y})
  BY <1>2, <1>6, <1>7
<1>9. Total(s \ {y}) = f[c] + Total((s \ {y}) \ {c})
  BY <1>3, <1>6, <1>7
<1>10. (s \ {y}) \ {c} = (s \ {c}) \ {y}
  OBVIOUS
<1>11. /\ f[y] \in Int /\ f[c] \in Int
       /\ Total((s \ {c}) \ {y}) \in Int
  BY <1>2, <1>3, <1>4, SumType
<1>12. Total(s) = f[y] + Total(s \ {y})
  <2>. DEFINE rest == Total((s \ {c}) \ {y})
  <2>1. Total(s \ {y}) = f[c] + rest
    BY <1>9, <1>10
  <2>2. f[c] + (f[y] + rest) = f[y] + (f[c] + rest)
    <3>1. \A i, j, k \in Int : i + (j + k) = j + (i + k)
      OBVIOUS
    <3>. HIDE DEF rest
    <3>. QED
      BY <1>11, <3>1 DEF rest
  <2>. HIDE DEF Total
  <2>. QED
    BY <1>5, <1>8, <2>1, <2>2
<1>. QED
  BY <1>2, <1>12

\* One element more.
LEMMA SumWith ==
    ASSUME NEW f, NEW S, IsFiniteSet(S), NEW x, x \notin S, \A y \in S \cup {x} : f[y] \in Int
    PROVE  SumFunctionOnSet(f, S \cup {x}) = f[x] + SumFunctionOnSet(f, S)
<1>1. IsFiniteSet(S \cup {x}) /\ (S \cup {x}) \ {x} = S
  BY FS_AddElement
<1>. QED
  BY <1>1, SumWithout

\* Only the summands count.
LEMMA SumOfSame ==
    ASSUME NEW f, NEW g, NEW S, IsFiniteSet(S), \A x \in S : f[x] = g[x]
    PROVE  SumFunctionOnSet(f, S) = SumFunctionOnSet(g, S)
<1>. DEFINE Bad == {s \in SUBSET S : SumFunctionOnSet(f, s) # SumFunctionOnSet(g, s)}
<1>. SUFFICES ASSUME Bad # {} PROVE FALSE
  OBVIOUS
<1>1. PICK s \in Bad : \A r \in Bad : r \subseteq s => r = s
  <2>1. Bad \subseteq SUBSET S
    OBVIOUS
  <2>. HIDE DEF Bad
  <2>. QED
    BY <2>1, SmallestSubset
<1>2. s # {}
  BY SumEmpty
<1>3. IsFiniteSet(s) /\ Chosen(s) \in s
  BY <1>2, ChosenIn, FS_Subset
<1>4. s \ {Chosen(s)} \notin Bad
  BY <1>1, <1>3
<1>. QED
  BY <1>2, <1>3, <1>4, SumStep

\* More summands, and greater ones, make a greater sum.
LEMMA SumMonotonic ==
    ASSUME NEW f, NEW g, NEW T, IsFiniteSet(T), NEW S \in SUBSET T,
           \A x \in S : f[x] \in Int /\ f[x] <= g[x], \A x \in T : g[x] \in Nat
    PROVE  SumFunctionOnSet(f, S) <= SumFunctionOnSet(g, T)
<1>. DEFINE Less(t) == SumFunctionOnSet(f, S \cap t) <= SumFunctionOnSet(g, t)
            Bad == {t \in SUBSET T : ~Less(t)}
<1>. SUFFICES ASSUME Bad # {} PROVE FALSE
  BY S \cap T = S
<1>1. PICK t \in Bad : \A r \in Bad : r \subseteq t => r = t
  <2>1. Bad \subseteq SUBSET T
    OBVIOUS
  <2>. HIDE DEF Bad
  <2>. QED
    BY <2>1, SmallestSubset
<1>2. t # {}
  <2>1. S \cap {} = {}
    OBVIOUS
  <2>. QED
    BY <2>1, SumEmpty
<1>. DEFINE c == Chosen(t)
<1>3. c \in t
  BY <1>2, ChosenIn
<1>. HIDE DEF c
<1>4. /\ IsFiniteSet(t) /\ IsFiniteSet(t \ {c}) /\ IsFiniteSet(S \cap t) /\ IsFiniteSet(S \cap (t \ {c}))
  BY FS_Subset
<1>5. Less(t \ {c})
  BY <1>1, <1>3
<1>6. SumFunctionOnSet(g, t) = g[c] + SumFunctionOnSet(g, t \ {c})
  BY <1>3, <1>4, SumWithout
<1>7. /\ SumFunctionOnSet(f, S \cap (t \ {c})) \in Int /\ SumFunctionOnSet(g, t \ {c}) \in Int
      /\ g[c] \in Nat
  BY <1>3, <1>4, SumType
<1>8. CASE c \in S
  <2>1. (S \cap t) \ {c} = S \cap (t \ {c}) /\ c \in S \cap t
    BY <1>3, <1>8
  <2>2. SumFunctionOnSet(f, S \cap t) = f[c] + SumFunctionOnSet(f, S \cap (t \ {c}))
    BY <1>4, <2>1, SumWithout
  <2>3. f[c] \in Int /\ f[c] <= g[c]
    BY <1>8
  <2>. QED
    BY <1>5, <1>6, <1>7, <2>2, <2>3
<1>9. CASE c \notin S
  <2>. DEFINE low == SumFunctionOnSet(f, S \cap (t \ {c}))
              high == SumFunctionOnSet(g, t \ {c})
  <2>1. SumFunctionOnSet(f, S \cap t) = low
    <3>1. S \cap t = S \cap (t \ {c})
      BY <1>9
    <3>. QED
      BY <3>1
  <2>2. low \in Int /\ high \in Int /\ low <= high /\ SumFunctionOnSet(g, t) = g[c] + high
    BY <1>5, <1>6, <1>7
  <2>. HIDE DEF low, high
  <2>3. low <= g[c] + high
    BY <1>7, <2>2
  <2>. QED
    BY <2>1, <2>2, <2>3
<1>. QED
  BY <1>8, <1>9

\* Summands that are 0 do not count.
LEMMA SumOfZeros ==
    ASSUME NEW f, NEW T, IsFiniteSet(T), NEW S \in SUBSET T,
           \A x \in T : f[x] \in Int, \A x \in T \ S : f[x] = 0
    PROVE  SumFunctionOnSet(f, T) = SumFunctionOnSet(f, S)
<1>. DEFINE Bad == {t \in SUBSET T : S \subseteq t /\ SumFunctionOnSet(f, t) # SumFunctionOnSet(f, S)}
<1>. SUFFICES ASSUME Bad # {} PROVE FALSE
  OBVIOUS
<1>1. PICK t \in Bad : \A r \in Bad : r \subseteq t => r = t
  <2>1. Bad \subseteq SUBSET T
    OBVIOUS
  <2>. HIDE DEF Bad
  <2>. QED
    BY <2>1, SmallestSubset
<1>2. PICK x \in t : x \notin S
  OBVIOUS
<1>3. t \ {x} \notin Bad /\ S \subseteq t \ {x} /\ t \ {x} \in SUBSET T
  BY <1>1, <1>2
<1>4. SumFunctionOnSet(f, t \ {x}) = SumFunctionOnSet(f, S)
  BY <1>3
<1>5. IsFiniteSet(t) /\ IsFiniteSet(t \ {x})
  BY FS_Subset
<1>6. SumFunctionOnSet(f, t) = f[x] + SumFunctionOnSet(f, t \ {x})
  BY <1>5, SumWithout
<1>7. f[x] = 0 /\ SumFunctionOnSet(f, t \ {x}) \in Int
  BY <1>2, <1>5, SumType
<1>8. SumFunctionOnSet(f, t) = SumFunctionOnSet(f, t \ {x})
  BY <1>6, <1>7
<1>. QED
  BY <1>4, <1>8
=============================================================================
