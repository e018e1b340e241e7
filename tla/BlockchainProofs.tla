-------------------------- MODULE BlockchainProofs --------------------------
(***************************************************************************)
(* What the operators of Blockchain compute, for every chain, block and    *)
(* pool: the lemmas the proofs about one node and about a network share.   *)
(***************************************************************************)
EXTENDS Blockchain, FiniteSetTheorems, WellFoundedInduction, TLAPS

-----------------------------------------------------------------------------
(***************************************************************************)
(* Sums over finite sets.  The library folds with a recursive function on  *)
(* the subsets of a set, chosen among those that satisfy its equation.     *)
(* What such a sum is worth takes an induction: it is had here from the    *)
(* least number of a set, so that it is about sets and needs no predicate  *)
(* as a parameter.                                                         *)
(***************************************************************************)

\* A set of numbers has a least one.
LEMMA LeastNat ==
    ASSUME NEW T \in SUBSET Nat, T # {}
    PROVE  \E n \in T : \A m \in T : ~ (m < n)
<1> DEFINE Less == {p \in Nat \X Nat : p[1] < p[2]}
<1>1. IsWellFoundedOn(Less, Nat)
  BY NatLessThanWellFounded DEF OpToRel
<1>2. \A m, n \in T : m < n => <<m, n>> \in Less
  OBVIOUS
<1> HIDE DEF Less
<1>3. \E n \in T : \A m \in T : ~ (<<m, n>> \in Less)
  BY <1>1, WFMin
<1> QED  BY <1>2, <1>3

\* Induction on Nat, for a set of numbers.
LEMMA NumbersInduction ==
    ASSUME NEW C, 0 \in C, \A n \in Nat : n \in C => n + 1 \in C
    PROVE  \A n \in Nat : n \in C
<1> SUFFICES ASSUME Nat \ C # {} PROVE FALSE
  OBVIOUS
<1>1. PICK n \in Nat \ C : \A m \in Nat \ C : ~ (m < n)
  BY LeastNat
<1>2. n # 0 /\ n - 1 \in Nat
  BY <1>1
<1>3. n - 1 \in C
  BY <1>1, <1>2
<1>4. (n - 1) + 1 \in C
  BY <1>2, <1>3
<1> QED  BY <1>1, <1>2, <1>4

\* Induction on the subsets of a finite set, for a set C of them: a subset is
\* in C when it is so without any one of its elements.
LEMMA SubsetsInduction ==
    ASSUME NEW U, IsFiniteSet(U), NEW C,
           \A s \in SUBSET U : (\A x \in s : s \ {x} \in C) => s \in C
    PROVE  \A s \in SUBSET U : s \in C
<1> SUFFICES ASSUME NEW bad \in SUBSET U, bad \notin C PROVE FALSE
  OBVIOUS
<1> DEFINE T == {Cardinality(s) : s \in {r \in SUBSET U : r \notin C}}
<1>1. \A s \in SUBSET U : IsFiniteSet(s) /\ Cardinality(s) \in Nat
  BY FS_Subset, FS_CardinalityType
<1>2. T \in SUBSET Nat /\ T # {}
  BY <1>1
<1>3. PICK n \in T : \A m \in T : ~ (m < n)
  BY <1>2, LeastNat
<1>4. PICK s \in SUBSET U : s \notin C /\ Cardinality(s) = n
  BY <1>3
<1>5. PICK x \in s : s \ {x} \notin C
  BY <1>4
<1>6. Cardinality(s \ {x}) = Cardinality(s) - 1
  BY <1>1, <1>5, FS_RemoveElement
<1>7. s \ {x} \in SUBSET U
  OBVIOUS
<1>8. Cardinality(s \ {x}) \in T
  BY <1>5, <1>7
<1>9. n \in Nat /\ n - 1 \in T
  <2>1. Cardinality(s) \in Nat
    BY <1>1
  <2> HIDE DEF T
  <2> QED  BY <2>1, <1>4, <1>6, <1>8
<1> HIDE DEF T
<1>10. ~ (n - 1 < n)
  BY <1>3, <1>9
<1> QED  BY <1>9, <1>10

-----------------------------------------------------------------------------
\* the recursion of a sum
SumStep(f, g, s) ==
    IF s = {} THEN 0
    ELSE LET x == CHOOSE x \in s : TRUE IN f[x] + g[s \ {x}]

Recursion(f, S, g) == g = [s \in SUBSET S |-> SumStep(f, g, s)]

\* The library's sum is the value at S of a solution of the recursion.
LEMMA SumUnfold ==
    ASSUME NEW f, NEW S
    PROVE  SumFunctionOnSet(f, S) = (CHOOSE g : Recursion(f, S, g))[S]
BY DEF SumFunctionOnSet, FoldFunctionOnSet, MapThenFoldSet, SumStep, Recursion

\* Up to n elements, the recursion has a solution.
LEMMA RecursionSolved ==
    ASSUME NEW f, NEW S, IsFiniteSet(S)
    PROVE  \E g : Recursion(f, S, g)
<1> DEFINE Small(n) == {s \in SUBSET S : Cardinality(s) <= n}
           Solves(g, n) == /\ g = [s \in SUBSET S |-> g[s]]
                           /\ \A s \in Small(n) : g[s] = SumStep(f, g, s)
           C == {n \in Nat : \E g : Solves(g, n)}
<1>0. \A s \in SUBSET S : IsFiniteSet(s) /\ Cardinality(s) \in Nat
  BY FS_Subset, FS_CardinalityType
<1>1. 0 \in C
  <2> DEFINE g == [s \in SUBSET S |-> 0]
  <2>1. \A s \in Small(0) : s = {}
    BY <1>0, FS_EmptySet
  <2>2. Solves(g, 0)
    BY <2>1 DEF SumStep
  <2> HIDE DEF Solves, g
  <2> QED  BY <2>2
<1>2. ASSUME NEW n \in Nat, n \in C PROVE n + 1 \in C
  <2>1. PICK g : Solves(g, n)
    BY <1>2
  <2> DEFINE h == [s \in SUBSET S |-> IF s \in Small(n) THEN g[s] ELSE SumStep(f, g, s)]
  <2>2. ASSUME NEW s \in Small(n + 1) PROVE h[s] = SumStep(f, h, s)
    <3>1. h[s] = SumStep(f, g, s)
      BY <2>1
    <3>2. CASE s = {}
      BY <3>1, <3>2 DEF SumStep
    <3>3. CASE s # {}
      <4> DEFINE x == CHOOSE x \in s : TRUE
      <4>1. x \in s
        BY <3>3
      <4>2. Cardinality(s \ {x}) = Cardinality(s) - 1
        BY <1>0, <4>1, FS_RemoveElement
      <4>3. s \ {x} \in Small(n)
        BY <1>0, <4>2
      <4>4. h[s \ {x}] = g[s \ {x}]
        BY <4>3
      <4> HIDE DEF h
      <4> QED  BY <3>1, <3>3, <4>4 DEF SumStep
    <3> QED  BY <3>2, <3>3
  <2>3. Solves(h, n + 1)
    BY <2>2
  <2> HIDE DEF Solves, h
  <2> QED  BY <2>3
<1>3. \A n \in Nat : n \in C
  <2> HIDE DEF C
  <2> QED  BY <1>1, <1>2, NumbersInduction
<1>4. PICK g : Solves(g, Cardinality(S))
  BY <1>0, <1>3
<1>5. \A s \in SUBSET S : s \in Small(Cardinality(S))
  BY FS_Subset
<1> QED  BY <1>4, <1>5 DEF Recursion

\* Two solutions agree wherever both are defined.
LEMMA RecursionUnique ==
    ASSUME NEW f, NEW S, IsFiniteSet(S), NEW R \in SUBSET S, NEW g, NEW h,
           Recursion(f, S, g), Recursion(f, R, h)
    PROVE  \A s \in SUBSET R : g[s] = h[s]
<1> DEFINE C == {s \in SUBSET R : g[s] = h[s]}
<1>1. ASSUME NEW s \in SUBSET R, \A x \in s : s \ {x} \in C PROVE s \in C
  <2>1. g[s] = SumStep(f, g, s) /\ h[s] = SumStep(f, h, s)
    BY DEF Recursion
  <2>2. CASE s = {}
    BY <2>1, <2>2 DEF SumStep
  <2>3. CASE s # {}
    <3> DEFINE x == CHOOSE x \in s : TRUE
    <3>1. x \in s
      BY <2>3
    <3>2. g[s \ {x}] = h[s \ {x}]
      BY <1>1, <3>1
    <3> QED  BY <2>1, <2>3, <3>2 DEF SumStep
  <2> QED  BY <2>2, <2>3
<1>2. IsFiniteSet(R)
  BY FS_Subset
<1> HIDE DEF C
<1>3. \A s \in SUBSET R : s \in C
  BY <1>1, <1>2, SubsetsInduction
<1> QED  BY <1>3 DEF C

-----------------------------------------------------------------------------
(***************************************************************************)
(* Sums of integers over finite sets.                                      *)
(***************************************************************************)
\* Nothing sums to zero.
LEMMA SumEmpty == \A f : SumFunctionOnSet(f, {}) = 0
<1> SUFFICES ASSUME NEW f PROVE SumFunctionOnSet(f, {}) = 0
  OBVIOUS
<1> DEFINE g == CHOOSE g : Recursion(f, {}, g)
<1>1. \E h : Recursion(f, {}, h)
  BY FS_EmptySet, RecursionSolved
<1>2. Recursion(f, {}, g)
  BY <1>1
<1>3. SumFunctionOnSet(f, {}) = g[{}]
  BY SumUnfold
<1> HIDE DEF g
<1> QED  BY <1>2, <1>3 DEF Recursion, SumStep

\* The recursion takes some element out first.
LEMMA SumChosen ==
    ASSUME NEW f, NEW S, IsFiniteSet(S), S # {}
    PROVE  \E x \in S :
             SumFunctionOnSet(f, S) = f[x] + SumFunctionOnSet(f, S \ {x})
<1> DEFINE x == CHOOSE x \in S : TRUE
           R == S \ {x}
           g == CHOOSE g : Recursion(f, S, g)
           h == CHOOSE h : Recursion(f, R, h)
<1>1. x \in S
  OBVIOUS
<1>2. IsFiniteSet(R) /\ R \in SUBSET S
  BY FS_Subset
<1>3. (\E k : Recursion(f, S, k)) /\ (\E k : Recursion(f, R, k))
  <2> HIDE DEF R
  <2> QED  BY <1>2, RecursionSolved
<1>4. Recursion(f, S, g) /\ Recursion(f, R, h)
  BY <1>3
<1>5. SumFunctionOnSet(f, S) = g[S] /\ SumFunctionOnSet(f, R) = h[R]
  BY SumUnfold
<1>6. g[S] = f[x] + g[R]
  <2> HIDE DEF g
  <2> QED  BY <1>4 DEF Recursion, SumStep
<1>7. g[R] = h[R]
  <2> HIDE DEF g, h, R
  <2> QED  BY <1>2, <1>4, RecursionUnique
<1> HIDE DEF x, g, h
<1> QED  BY <1>1, <1>5, <1>6, <1>7

\* A sum of integers is an integer.
LEMMA SumType ==
    ASSUME NEW S, IsFiniteSet(S), NEW f, \A x \in S : f[x] \in Int
    PROVE  SumFunctionOnSet(f, S) \in Int
<1> DEFINE C == {s \in SUBSET S : SumFunctionOnSet(f, s) \in Int}
<1>1. ASSUME NEW s \in SUBSET S, \A x \in s : s \ {x} \in C PROVE s \in C
  <2>1. CASE s = {}
    BY <2>1, SumEmpty
  <2>2. CASE s # {}
    <3>1. PICK x \in s : SumFunctionOnSet(f, s) = f[x] + SumFunctionOnSet(f, s \ {x})
      BY <2>2, FS_Subset, SumChosen
    <3>2. SumFunctionOnSet(f, s \ {x}) \in Int
      BY <1>1
    <3> QED  BY <3>1, <3>2
  <2> QED  BY <2>1, <2>2
<1> HIDE DEF C
<1>2. \A s \in SUBSET S : (\A x \in s : s \ {x} \in C) => s \in C
  BY <1>1
<1>3. \A s \in SUBSET S : s \in C
  BY <1>2, SubsetsInduction
<1> QED  BY <1>3 DEF C

\* Any element may be taken out first.
LEMMA SumRemove ==
    ASSUME NEW S, IsFiniteSet(S), NEW f, \A x \in S : f[x] \in Int, NEW x \in S
    PROVE  SumFunctionOnSet(f, S) = f[x] + SumFunctionOnSet(f, S \ {x})
<1> DEFINE sum(s) == SumFunctionOnSet(f, s)
           C == {s \in SUBSET S : \A y \in s : sum(s) = f[y] + sum(s \ {y})}
<1>0. \A s \in SUBSET S : sum(s) \in Int
  BY FS_Subset, SumType
<1>1. ASSUME NEW s \in SUBSET S, \A y \in s : s \ {y} \in C,
             NEW y \in s
      PROVE  sum(s) = f[y] + sum(s \ {y})
  <2>1. PICK c \in s : sum(s) = f[c] + sum(s \ {c})
    BY FS_Subset, SumChosen
  <2>2. CASE c = y
    BY <2>1, <2>2
  <2>3. CASE c # y
    <3>1. y \in s \ {c} /\ c \in s \ {y}
      BY <2>3
    <3>2. sum(s \ {c}) = f[y] + sum((s \ {c}) \ {y})
      BY <1>1, <3>1
    <3>3. sum(s \ {y}) = f[c] + sum((s \ {y}) \ {c})
      BY <1>1, <3>1
    <3>4. (s \ {c}) \ {y} = (s \ {y}) \ {c}
      OBVIOUS
    <3>5. f[c] \in Int /\ f[y] \in Int /\ sum((s \ {y}) \ {c}) \in Int
      BY <1>0
    <3>6. sum(s) = f[c] + (f[y] + sum((s \ {y}) \ {c}))
      BY <2>1, <3>2, <3>4
    <3> QED  BY <3>3, <3>5, <3>6
  <2> QED  BY <2>2, <2>3
<1>2. \A s \in SUBSET S : (\A y \in s : s \ {y} \in C) => s \in C
  BY <1>1
<1> HIDE DEF C
<1>3. \A s \in SUBSET S : s \in C
  BY <1>2, SubsetsInduction
<1> QED  BY <1>3 DEF C

\* One more element adds what it is worth.
LEMMA SumAdd ==
    ASSUME NEW S, IsFiniteSet(S), NEW x, x \notin S,
           NEW f, f[x] \in Int, \A y \in S : f[y] \in Int
    PROVE  SumFunctionOnSet(f, S \cup {x}) = SumFunctionOnSet(f, S) + f[x]
<1> DEFINE R == S \cup {x}
<1>1. IsFiniteSet(R) /\ x \in R /\ R \ {x} = S
  BY FS_AddElement
<1>2. \A y \in R : f[y] \in Int
  OBVIOUS
<1>3. SumFunctionOnSet(f, S) \in Int
  BY SumType
<1> HIDE DEF R
<1>4. SumFunctionOnSet(f, R) = f[x] + SumFunctionOnSet(f, R \ {x})
  BY <1>1, <1>2, SumRemove
<1>5. SumFunctionOnSet(f, R) = f[x] + SumFunctionOnSet(f, S)
  BY <1>1, <1>4
<1>6. SumFunctionOnSet(f, R) = SumFunctionOnSet(f, S) + f[x]
  BY <1>3, <1>5
<1> QED  BY <1>6 DEF R

\* A sum of natural numbers is one.
LEMMA SumNat ==
    ASSUME NEW S, IsFiniteSet(S), NEW f, \A x \in S : f[x] \in Nat
    PROVE  SumFunctionOnSet(f, S) \in Nat
<1> DEFINE C == {s \in SUBSET S : SumFunctionOnSet(f, s) \in Nat}
<1>1. ASSUME NEW s \in SUBSET S, \A x \in s : s \ {x} \in C PROVE s \in C
  <2>1. CASE s = {}
    BY <2>1, SumEmpty
  <2>2. CASE s # {}
    <3>1. PICK x \in s : SumFunctionOnSet(f, s) = f[x] + SumFunctionOnSet(f, s \ {x})
      BY <2>2, FS_Subset, SumChosen
    <3>2. SumFunctionOnSet(f, s \ {x}) \in Nat
      BY <1>1
    <3> QED  BY <3>1, <3>2
  <2> QED  BY <2>1, <2>2
<1>2. \A s \in SUBSET S : (\A x \in s : s \ {x} \in C) => s \in C
  BY <1>1
<1> HIDE DEF C
<1>3. \A s \in SUBSET S : s \in C
  BY <1>2, SubsetsInduction
<1> QED  BY <1>3 DEF C

\* The sum over two disjoint sets is that of their sums.
LEMMA SumUnion ==
    ASSUME NEW S, IsFiniteSet(S), NEW T, IsFiniteSet(T), S \cap T = {},
           NEW f, \A x \in S \cup T : f[x] \in Int
    PROVE  SumFunctionOnSet(f, S \cup T) = SumFunctionOnSet(f, S) + SumFunctionOnSet(f, T)
<1> DEFINE sum(s) == SumFunctionOnSet(f, s)
           C == {s \in SUBSET T : sum(S \cup s) = sum(S) + sum(s)}
<1>0. sum(S) \in Int /\ \A s \in SUBSET T : IsFiniteSet(s) /\ sum(s) \in Int
  BY FS_Subset, SumType
<1>1. ASSUME NEW s \in SUBSET T, \A x \in s : s \ {x} \in C PROVE s \in C
  <2>1. CASE s = {}
    BY <1>0, <2>1, SumEmpty
  <2>2. CASE s # {}
    <3>1. PICK x \in s : TRUE
      BY <2>2
    <3> DEFINE r == s \ {x}
    <3>2. sum(S \cup r) = sum(S) + sum(r)
      BY <1>1
    <3>3. sum(s) = f[x] + sum(r)
      BY <1>0, SumRemove
    <3>4. IsFiniteSet(S \cup s) /\ x \in S \cup s /\ (S \cup s) \ {x} = S \cup r
      BY <1>0, FS_Union
    <3>5. sum(S \cup s) = f[x] + sum(S \cup r)
      <4> DEFINE W == S \cup s
      <4>1. \A y \in W : f[y] \in Int
        OBVIOUS
      <4>2. IsFiniteSet(W) /\ x \in W /\ W \ {x} = S \cup r
        BY <3>4
      <4> HIDE DEF W, r
      <4>3. sum(W) = f[x] + sum(W \ {x})
        BY <4>1, <4>2, SumRemove
      <4> QED  BY <4>2, <4>3 DEF W
    <3>6. sum(r) \in Int /\ f[x] \in Int
      BY <1>0
    <3>7. sum(S \cup s) = sum(S) + sum(s)
      BY <1>0, <3>2, <3>3, <3>5, <3>6
    <3> QED  BY <3>7
  <2> QED  BY <2>1, <2>2
<1>2. \A s \in SUBSET T : (\A x \in s : s \ {x} \in C) => s \in C
  BY <1>1
<1> HIDE DEF C
<1>3. \A s \in SUBSET T : s \in C
  BY <1>2, SubsetsInduction
<1> QED  BY <1>3 DEF C

\* Fewer summands do not sum to more.
LEMMA SumSubset ==
    ASSUME NEW S, IsFiniteSet(S), NEW R \in SUBSET S, NEW f, \A x \in S : f[x] \in Nat
    PROVE  SumFunctionOnSet(f, R) <= SumFunctionOnSet(f, S)
<1> DEFINE D == S \ R
<1>1. IsFiniteSet(R) /\ IsFiniteSet(D) /\ R \cap D = {} /\ R \cup D = S
  BY FS_Subset
<1>2. \A x \in R \cup D : f[x] \in Int
  BY <1>1
<1>3. (\A x \in R : f[x] \in Nat) /\ (\A x \in D : f[x] \in Nat)
  OBVIOUS
<1> HIDE DEF D
<1>4. SumFunctionOnSet(f, R \cup D) = SumFunctionOnSet(f, R) + SumFunctionOnSet(f, D)
  BY <1>1, <1>2, SumUnion
<1>5. SumFunctionOnSet(f, R) \in Nat /\ SumFunctionOnSet(f, D) \in Nat
  BY <1>1, <1>3, SumNat
<1>6. SumFunctionOnSet(f, R \cup D) = SumFunctionOnSet(f, S)
  BY <1>1
<1> QED  BY <1>4, <1>5, <1>6

\* No summand is more than the sum.
LEMMA SumMember ==
    ASSUME NEW S, IsFiniteSet(S), NEW x \in S, NEW f, \A y \in S : f[y] \in Nat
    PROVE  f[x] <= SumFunctionOnSet(f, S)
<1> DEFINE R == S \ {x}
<1>1. IsFiniteSet(R)
  BY FS_Subset
<1>2. \A y \in S : f[y] \in Int
  OBVIOUS
<1>3. SumFunctionOnSet(f, S) = f[x] + SumFunctionOnSet(f, R)
  BY <1>2, SumRemove
<1>4. SumFunctionOnSet(f, R) \in Nat
  BY <1>1, SumNat
<1> HIDE DEF R
<1> QED  BY <1>3, <1>4

\* The same summands, under other names: h renames S to T.
LEMMA SumRenamed ==
    ASSUME NEW S, IsFiniteSet(S), NEW T, NEW h \in Bijection(S, T),
           NEW f, NEW g, \A x \in S : f[x] \in Int /\ g[h[x]] = f[x]
    PROVE  SumFunctionOnSet(g, T) = SumFunctionOnSet(f, S)
<1> DEFINE image(s) == {h[x] : x \in s}
           C == {s \in SUBSET S : SumFunctionOnSet(g, image(s)) = SumFunctionOnSet(f, s)}
<1>h. h \in [S -> T] /\ (\A x, y \in S : h[x] = h[y] => x = y) /\ T = image(S)
  BY DEF Bijection, Injection, Surjection, IsInjective
<1>1. ASSUME NEW s \in SUBSET S, \A x \in s : s \ {x} \in C PROVE s \in C
  <2>1. CASE s = {}
    <3>1. image(s) = {}
      BY <2>1
    <3> HIDE DEF image
    <3> QED  BY <2>1, <3>1, SumEmpty
  <2>2. CASE s # {}
    <3>1. PICK x \in s : TRUE
      BY <2>2
    <3> DEFINE r == s \ {x}
    <3>2. SumFunctionOnSet(g, image(r)) = SumFunctionOnSet(f, r)
      BY <1>1
    <3>3. IsFiniteSet(s) /\ IsFiniteSet(r)
      BY FS_Subset
    <3>4. SumFunctionOnSet(f, s) = f[x] + SumFunctionOnSet(f, r)
      BY <3>3, SumRemove
    <3>5. h[x] \in image(s) /\ image(s) \ {h[x]} = image(r)
      BY <1>h
    <3>6. IsFiniteSet(image(s))
      <4>1. [y \in s |-> h[y]] \in Surjection(s, image(s))
        BY DEF Surjection
      <4> HIDE DEF image
      <4> QED  BY <3>3, <4>1, FS_Surjection
    <3>7. \A y \in image(s) : g[y] \in Int
      OBVIOUS
    <3> HIDE DEF image, r
    <3>8. SumFunctionOnSet(g, image(s)) = g[h[x]] + SumFunctionOnSet(g, image(r))
      BY <3>5, <3>6, <3>7, SumRemove
    <3> QED  BY <3>2, <3>4, <3>8 DEF C
  <2> QED  BY <2>1, <2>2
<1>2. \A s \in SUBSET S : (\A x \in s : s \ {x} \in C) => s \in C
  BY <1>1
<1> HIDE DEF C
<1>3. \A s \in SUBSET S : s \in C
  BY <1>2, SubsetsInduction
<1>4. SumFunctionOnSet(g, image(S)) = SumFunctionOnSet(f, S)
  BY <1>3 DEF C
<1> QED  BY <1>4, <1>h

\* Functions that agree on S have the same sum over it.
LEMMA SumEqual ==
    ASSUME NEW S, IsFiniteSet(S), NEW f, NEW g,
           \A x \in S : f[x] \in Int /\ g[x] = f[x]
    PROVE  SumFunctionOnSet(g, S) = SumFunctionOnSet(f, S)
<1> DEFINE h == [x \in S |-> x]
<1>1. h \in Bijection(S, S)
  BY DEF Bijection, Injection, Surjection, IsInjective
<1>2. \A x \in S : f[x] \in Int /\ g[h[x]] = f[x]
  OBVIOUS
<1> HIDE DEF h
<1> QED  BY <1>1, <1>2, SumRenamed

\* A sum may be taken group by group: G lists the groups, one for each element
\* of T, and k says which group an element is in.
LEMMA SumByGroups ==
    ASSUME NEW S, IsFiniteSet(S), NEW T, IsFiniteSet(T),
           NEW f, \A x \in S : f[x] \in Int,
           NEW k, \A x \in S : k[x] \in T,
           NEW G, \A y \in T : G[y] \in SUBSET S /\ \A x \in S : x \in G[y] <=> k[x] = y,
           NEW F, \A y \in T : F[y] = SumFunctionOnSet(f, G[y])
    PROVE  SumFunctionOnSet(F, T) = SumFunctionOnSet(f, S)
<1> DEFINE group(t) == {x \in S : k[x] \in t}
           C == {t \in SUBSET T : SumFunctionOnSet(F, t) = SumFunctionOnSet(f, group(t))}
<1>f. \A s \in SUBSET S : IsFiniteSet(s) /\ SumFunctionOnSet(f, s) \in Int
  BY FS_Subset, SumType
<1>1. ASSUME NEW t \in SUBSET T, \A y \in t : t \ {y} \in C PROVE t \in C
  <2>1. CASE t = {}
    <3>1. group(t) = {}
      BY <2>1
    <3> HIDE DEF group
    <3> QED  BY <2>1, <3>1, SumEmpty
  <2>2. CASE t # {}
    <3>1. PICK y \in t : TRUE
      BY <2>2
    <3> DEFINE r == t \ {y}
               A == G[y]
               B == group(r)
    <3>2. SumFunctionOnSet(F, r) = SumFunctionOnSet(f, B)
      BY <1>1
    <3>3. F[y] = SumFunctionOnSet(f, A) /\ \A z \in t : F[z] \in Int
      <4>1. \A z \in t : F[z] = SumFunctionOnSet(f, G[z]) /\ G[z] \in SUBSET S
        OBVIOUS
      <4> QED  BY <4>1, <1>f
    <3>4. IsFiniteSet(t)
      BY FS_Subset
    <3>5. SumFunctionOnSet(F, t) = F[y] + SumFunctionOnSet(F, r)
      BY <3>3, <3>4, SumRemove
    <3>6. group(t) = A \cup B /\ A \cap B = {} /\ A \in SUBSET S /\ B \in SUBSET S
      OBVIOUS
    <3> HIDE DEF group, A, B
    <3>7. IsFiniteSet(A) /\ IsFiniteSet(B) /\ \A x \in A \cup B : f[x] \in Int
      BY <1>f, <3>6
    <3>8. SumFunctionOnSet(f, A \cup B) = SumFunctionOnSet(f, A) + SumFunctionOnSet(f, B)
      BY <3>6, <3>7, SumUnion
    <3>9. SumFunctionOnSet(f, group(t)) = SumFunctionOnSet(F, t)
      BY <3>2, <3>3, <3>5, <3>6, <3>8
    <3> QED  BY <3>9
  <2> QED  BY <2>1, <2>2
<1>2. \A t \in SUBSET T : (\A y \in t : t \ {y} \in C) => t \in C
  BY <1>1
<1> HIDE DEF C
<1>3. \A t \in SUBSET T : t \in C
  BY <1>2, SubsetsInduction
<1>4. SumFunctionOnSet(F, T) = SumFunctionOnSet(f, group(T)) /\ group(T) = S
  BY <1>3 DEF C
<1> HIDE DEF group
<1> QED  BY <1>4

\* Sums can be added and subtracted summand by summand.
LEMMA SumBalance ==
    ASSUME NEW S, IsFiniteSet(S), NEW f, NEW g, NEW h, NEW F,
           \A x \in S : /\ f[x] \in Int /\ g[x] \in Int /\ h[x] \in Int
                        /\ F[x] = f[x] + g[x] - h[x]
    PROVE  SumFunctionOnSet(F, S) =
             SumFunctionOnSet(f, S) + SumFunctionOnSet(g, S) - SumFunctionOnSet(h, S)
<1> DEFINE C == {s \in SUBSET S : SumFunctionOnSet(F, s) =
                   SumFunctionOnSet(f, s) + SumFunctionOnSet(g, s) - SumFunctionOnSet(h, s)}
<1>1. ASSUME NEW s \in SUBSET S, \A x \in s : s \ {x} \in C PROVE s \in C
  <2>1. CASE s = {}
    BY <2>1, SumEmpty
  <2>2. CASE s # {}
    <3>1. PICK x \in s : TRUE
      BY <2>2
    <3> DEFINE r == s \ {x}
    <3>2. SumFunctionOnSet(F, r) =
            SumFunctionOnSet(f, r) + SumFunctionOnSet(g, r) - SumFunctionOnSet(h, r)
      BY <1>1
    <3>3. IsFiniteSet(s) /\ IsFiniteSet(r)
      BY FS_Subset
    <3>4. \A y \in S : F[y] \in Int
      OBVIOUS
    <3>5. /\ SumFunctionOnSet(F, s) = F[x] + SumFunctionOnSet(F, r)
          /\ SumFunctionOnSet(f, s) = f[x] + SumFunctionOnSet(f, r)
          /\ SumFunctionOnSet(g, s) = g[x] + SumFunctionOnSet(g, r)
          /\ SumFunctionOnSet(h, s) = h[x] + SumFunctionOnSet(h, r)
      BY <3>3, <3>4, SumRemove
    <3>6. /\ SumFunctionOnSet(f, r) \in Int /\ SumFunctionOnSet(g, r) \in Int
          /\ SumFunctionOnSet(h, r) \in Int
      BY <3>3, SumType
    <3> HIDE DEF r
    <3>7. SumFunctionOnSet(F, s) =
            SumFunctionOnSet(f, s) + SumFunctionOnSet(g, s) - SumFunctionOnSet(h, s)
      BY <3>2, <3>5, <3>6
    <3> QED  BY <3>7
  <2> QED  BY <2>1, <2>2
<1>2. \A s \in SUBSET S : (\A x \in s : s \ {x} \in C) => s \in C
  BY <1>1
<1> HIDE DEF C
<1>3. \A s \in SUBSET S : s \in C
  BY <1>2, SubsetsInduction
<1> QED  BY <1>3 DEF C

-----------------------------------------------------------------------------
(***************************************************************************)
(* Types of what the operators give.                                       *)
(***************************************************************************)
LEMMA SlotsFinite ==
    ASSUME NEW bs \in Seq(Block)
    PROVE  IsFiniteSet(Slots(bs))
<1> DEFINE row(n) == {n} \X DOMAIN bs[n].txs
           rows   == {row(n) : n \in DOMAIN bs}
           f      == [n \in DOMAIN bs |-> row(n)]
<1>1. IsFiniteSet(DOMAIN bs)
  BY FS_Interval
<1>2. f \in Surjection(DOMAIN bs, rows)
  BY DEF Surjection
<1>3. IsFiniteSet(rows)
  BY <1>1, <1>2, FS_Surjection
<1>4. ASSUME NEW n \in DOMAIN bs
      PROVE  IsFiniteSet(row(n))
  <2>0. bs[n] \in Block
    OBVIOUS
  <2>1. DOMAIN bs[n].txs = 1 .. Len(bs[n].txs) /\ Len(bs[n].txs) \in Nat
    BY <2>0 DEF Block
  <2>2. IsFiniteSet(DOMAIN bs[n].txs)
    BY <2>1, FS_Interval
  <2>3. IsFiniteSet({n})
    BY FS_Singleton
  <2> QED  BY <2>2, <2>3, FS_Product
<1> QED  BY <1>3, <1>4, FS_UNION DEF Slots

LEMMA StateAfterType ==
    ASSUME NEW st \in LedgerState, NEW bs \in Seq(Block), NEW keys, NEW seen,
           TransactionsApply(keys, seen, st, bs)
    PROVE  StateAfter(st, bs) \in LedgerState
<1>1. \A a \in Accounts : BalanceAfter(st, bs, Slots(bs), a) \in 0 .. MaxAmount
  BY DEF TransactionsApply, WithinWidth
<1>2. ASSUME NEW a \in Accounts
      PROVE  NonceAfter(st, bs, Slots(bs), a) \in Nat
  <2>1. IsFiniteSet(SentBy(bs, Slots(bs), a))
    BY SlotsFinite, FS_Subset DEF SentBy
  <2>2. Cardinality(SentBy(bs, Slots(bs), a)) \in Nat
    BY <2>1, FS_CardinalityType
  <2> QED  BY <2>2 DEF NonceAfter, LedgerState
<1> QED  BY <1>1, <1>2 DEF StateAfter, LedgerState

LEMMA IdsType ==
    ASSUME NEW bs \in Seq(Block)
    PROVE  Ids(bs) \subseteq {Id(t) : t \in Txs}
<1> SUFFICES ASSUME NEW p \in Slots(bs)
             PROVE  TxAt(bs, p) \in Txs
  BY DEF Ids
<1>1. PICK n \in DOMAIN bs : p \in {n} \X DOMAIN bs[n].txs
  BY DEF Slots
<1>2. p[1] = n /\ p[2] \in DOMAIN bs[n].txs
  BY <1>1
<1>3. bs[n] \in Block
  OBVIOUS
<1>4. bs[n].txs \in Seq(Txs)
  BY <1>3 DEF Block
<1> QED  BY <1>2, <1>4 DEF TxAt

LEMMA DrainedType ==
    ASSUME NEW S, IsFiniteSet(S), S \subseteq Txs, NEW batch \in Drained(S)
    PROVE  batch \in Seq(Txs)
<1>1. Cardinality(S) \in Nat
  BY FS_CardinalityType
<1> QED  BY <1>1 DEF Drained

LEMMA InitialStateType == InitialState \in LedgerState
BY AllocationAssumption DEF InitialState, LedgerState

LEMMA GenesisType == Genesis \in Block
BY AccountAssumption DEF Genesis, Block

LEMMA RequeuedSubset ==
    ASSUME NEW keys, NEW seen, NEW st, NEW S
    PROVE  Requeued(keys, seen, st, S) \subseteq S
BY DEF Requeued

-----------------------------------------------------------------------------
(***************************************************************************)
(* Nothing is applied twice, on any chain the node ever holds.  The proof  *)
(* orders the positions of a chain and counts: the nonce asked of a        *)
(* transaction is the number its sender had sent before, and that grows.   *)
(***************************************************************************)

LEMMA SlotForm ==
    ASSUME NEW bs \in Seq(Block), NEW p \in Slots(bs)
    PROVE  /\ p[1] \in 1 .. Len(bs) /\ p[2] \in 1 .. Len(bs[p[1]].txs)
           /\ p = <<p[1], p[2]>> /\ p[1] \in Nat /\ p[2] \in Nat
           /\ bs[p[1]] \in Block /\ bs[p[1]].txs \in Seq(Txs)
           /\ TxAt(bs, p) \in Txs
<1>1. PICK n \in DOMAIN bs : p \in {n} \X DOMAIN bs[n].txs
  BY DEF Slots
<1>2. p[1] = n /\ p[2] \in DOMAIN bs[n].txs /\ p = <<p[1], p[2]>>
  BY <1>1
<1>3. n \in 1 .. Len(bs) /\ n \in Nat /\ bs[n] \in Block
  OBVIOUS
<1>4. bs[n].txs \in Seq(Txs)
  BY <1>3 DEF Block
<1>5. p[2] \in 1 .. Len(bs[n].txs) /\ p[2] \in Nat
  BY <1>2, <1>4
<1>6. bs[n].txs[p[2]] \in Txs
  BY <1>4, <1>5
<1> QED  BY <1>2, <1>3, <1>4, <1>5, <1>6 DEF TxAt

LEMMA SlotsOrdered ==
    ASSUME NEW bs \in Seq(Block), NEW p \in Slots(bs), NEW q \in Slots(bs), p # q
    PROVE  Precedes(p, q) \/ Precedes(q, p)
<1>1. /\ p = <<p[1], p[2]>> /\ p[1] \in Nat /\ p[2] \in Nat
      /\ q = <<q[1], q[2]>> /\ q[1] \in Nat /\ q[2] \in Nat
  BY SlotForm
<1>2. p[1] # q[1] \/ p[2] # q[2]
  BY <1>1
<1> QED  BY <1>1, <1>2 DEF Precedes

\* A sender has sent more before a later position than before one of its own.
LEMMA SentMore ==
    ASSUME NEW bs \in Seq(Block), NEW p \in Slots(bs), NEW a,
           TxAt(bs, p).sender = a,
           NEW P, P \subseteq Slots(bs), p \in P, SlotsBefore(bs, p) \subseteq P
    PROVE  /\ Cardinality(SentBy(bs, SlotsBefore(bs, p), a)) \in Nat
           /\ Cardinality(SentBy(bs, P, a)) \in Nat
           /\ Cardinality(SentBy(bs, SlotsBefore(bs, p), a)) < Cardinality(SentBy(bs, P, a))
<1> DEFINE S == SentBy(bs, SlotsBefore(bs, p), a)
           T == SentBy(bs, P, a)
<1>1. p \in T /\ S \subseteq T
  BY DEF SentBy
<1>2. p \notin S
  <2>1. ~ Precedes(p, p)
    BY SlotForm DEF Precedes
  <2> QED  BY <2>1 DEF SentBy, SlotsBefore
<1>3. IsFiniteSet(T)
  BY SlotsFinite, FS_Subset DEF SentBy
<1>4. IsFiniteSet(S) /\ Cardinality(S) <= Cardinality(T) /\ Cardinality(S) # Cardinality(T)
  BY <1>1, <1>2, <1>3, FS_Subset
<1>5. Cardinality(S) \in Nat /\ Cardinality(T) \in Nat
  BY <1>3, <1>4, FS_CardinalityType
<1> QED  BY <1>4, <1>5

LEMMA BeforeGrows ==
    ASSUME NEW bs \in Seq(Block), NEW p \in Slots(bs), NEW q \in Slots(bs), Precedes(p, q)
    PROVE  /\ p \in SlotsBefore(bs, q)
           /\ SlotsBefore(bs, p) \subseteq SlotsBefore(bs, q)
<1>1. p[1] \in Nat /\ p[2] \in Nat /\ q[1] \in Nat /\ q[2] \in Nat
  BY SlotForm
<1>2. ASSUME NEW r \in Slots(bs), Precedes(r, p) PROVE Precedes(r, q)
  <2>1. r[1] \in Nat /\ r[2] \in Nat
    BY SlotForm
  <2> QED  BY <1>1, <1>2, <2>1 DEF Precedes
<1> QED  BY <1>2 DEF SlotsBefore

-----------------------------------------------------------------------------
\* No id twice, no nonce of a sender twice, and all of them consumed in ns.
Unique(bs, ns) ==
    /\ \A p, q \in Slots(bs) :
        LET t == TxAt(bs, p)
            u == TxAt(bs, q)
        IN  p # q => /\ Id(t) # Id(u)
                     /\ t.sender = u.sender /\ t.sender # Mint => t.nonce # u.nonce
    /\ \A p \in Slots(bs) :
        TxAt(bs, p).sender # Mint => TxAt(bs, p).nonce < ns[TxAt(bs, p).sender]

\* What applies to a state is unique in itself, and new with respect to it.
LEMMA AppliedUnique ==
    ASSUME NEW bs \in Seq(Block), NEW st \in LedgerState, NEW keys, NEW seen,
           TransactionsApply(keys, seen, st, bs)
    PROVE  /\ Unique(bs, StateAfter(st, bs).nonces)
           /\ \A p \in Slots(bs) :
                /\ Id(TxAt(bs, p)) \notin seen
                /\ TxAt(bs, p).sender # Mint =>
                     st.nonces[TxAt(bs, p).sender] <= TxAt(bs, p).nonce
           /\ \A a \in Accounts : st.nonces[a] <= StateAfter(st, bs).nonces[a]
<1>1. \A p \in Slots(bs) : Fresh(seen, bs, p) /\ Authorized(keys, st, bs, p)
  BY DEF TransactionsApply
<1>2. ASSUME NEW p \in Slots(bs)
      PROVE  TxAt(bs, p) \in TxRecord /\ st.nonces[TxAt(bs, p).sender] \in Nat
  BY SlotForm, TxAssumption DEF TxRecord, LedgerState
<1>3. ASSUME NEW p \in Slots(bs), TxAt(bs, p).sender # Mint
      PROVE  TxAt(bs, p).nonce = st.nonces[TxAt(bs, p).sender]
               + Cardinality(SentBy(bs, SlotsBefore(bs, p), TxAt(bs, p).sender))
  BY <1>1, <1>3 DEF Authorized, NonceAfter
<1>4. ASSUME NEW p \in Slots(bs), NEW q \in Slots(bs), Precedes(p, q)
      PROVE  LET t == TxAt(bs, p)
                 u == TxAt(bs, q)
             IN  /\ Id(t) # Id(u)
                 /\ t.sender = u.sender /\ t.sender # Mint => t.nonce # u.nonce
  <2>1. p \in SlotsBefore(bs, q) /\ SlotsBefore(bs, p) \subseteq SlotsBefore(bs, q)
    BY <1>4, BeforeGrows
  <2>2. Id(TxAt(bs, p)) # Id(TxAt(bs, q))
    BY <1>1, <2>1 DEF Fresh
  <2>3. ASSUME TxAt(bs, p).sender = TxAt(bs, q).sender, TxAt(bs, p).sender # Mint
        PROVE  TxAt(bs, p).nonce # TxAt(bs, q).nonce
    <3> DEFINE a == TxAt(bs, p).sender
               x == Cardinality(SentBy(bs, SlotsBefore(bs, p), a))
               y == Cardinality(SentBy(bs, SlotsBefore(bs, q), a))
    <3>1. SlotsBefore(bs, q) \subseteq Slots(bs)
      BY DEF SlotsBefore
    <3>2. x \in Nat /\ y \in Nat /\ x < y
      BY <2>1, <3>1, SentMore
    <3>3. TxAt(bs, p).nonce = st.nonces[a] + x /\ TxAt(bs, q).nonce = st.nonces[a] + y
      BY <1>3, <2>3
    <3>4. st.nonces[a] \in Nat
      BY <1>2
    <3> HIDE DEF x, y, a
    <3> QED  BY <3>2, <3>3, <3>4
  <2> QED  BY <2>2, <2>3
<1>5. ASSUME NEW p \in Slots(bs), TxAt(bs, p).sender # Mint
      PROVE  /\ TxAt(bs, p).nonce < StateAfter(st, bs).nonces[TxAt(bs, p).sender]
             /\ st.nonces[TxAt(bs, p).sender] <= TxAt(bs, p).nonce
  <2> DEFINE a == TxAt(bs, p).sender
             x == Cardinality(SentBy(bs, SlotsBefore(bs, p), a))
             y == Cardinality(SentBy(bs, Slots(bs), a))
  <2>1. SlotsBefore(bs, p) \subseteq Slots(bs)
    BY DEF SlotsBefore
  <2>2. x \in Nat /\ y \in Nat /\ x < y
    BY <2>1, SentMore
  <2>3. a \in Accounts /\ st.nonces[a] \in Nat
    BY <1>2 DEF TxRecord
  <2>4. StateAfter(st, bs).nonces[a] = st.nonces[a] + y
    BY <1>5, <2>3 DEF StateAfter, NonceAfter
  <2>5. TxAt(bs, p).nonce = st.nonces[a] + x
    BY <1>3, <1>5
  <2> HIDE DEF x, y, a
  <2>6. st.nonces[a] + x < st.nonces[a] + y /\ st.nonces[a] <= st.nonces[a] + x
    BY <2>2, <2>3
  <2> QED  BY <2>4, <2>5, <2>6 DEF a
<1>6. ASSUME NEW a \in Accounts PROVE st.nonces[a] <= StateAfter(st, bs).nonces[a]
  <2>1. IsFiniteSet(SentBy(bs, Slots(bs), a))
    BY SlotsFinite, FS_Subset DEF SentBy
  <2>2. Cardinality(SentBy(bs, Slots(bs), a)) \in Nat /\ st.nonces[a] \in Nat
    BY <2>1, FS_CardinalityType DEF LedgerState
  <2> QED  BY <2>2 DEF StateAfter, NonceAfter
<1>7. Unique(bs, StateAfter(st, bs).nonces)
  BY <1>4, <1>5, SlotsOrdered DEF Unique
<1>8. \A p \in Slots(bs) : Id(TxAt(bs, p)) \notin seen
  BY <1>1 DEF Fresh
<1> QED  BY <1>5, <1>6, <1>7, <1>8

-----------------------------------------------------------------------------
\* A position of a chain with one more block is an old one or one of the block.
LEMMA AppendSlots ==
    ASSUME NEW bs \in Seq(Block), NEW b \in Block, NEW p \in Slots(Append(bs, b))
    PROVE  \/ p \in Slots(bs) /\ TxAt(Append(bs, b), p) = TxAt(bs, p)
           \/ /\ p[1] = Len(bs) + 1
              /\ <<1, p[2]>> \in Slots(<<b>>)
              /\ TxAt(Append(bs, b), p) = TxAt(<<b>>, <<1, p[2]>>)
<1> DEFINE cs == Append(bs, b)
<1>1. cs \in Seq(Block) /\ Len(cs) = Len(bs) + 1
  OBVIOUS
<1>2. p[1] \in 1 .. Len(cs) /\ p[2] \in 1 .. Len(cs[p[1]].txs) /\ p = <<p[1], p[2]>>
  BY <1>1, SlotForm
<1>3. CASE p[1] \in 1 .. Len(bs)
  <2>1. cs[p[1]] = bs[p[1]] /\ p[1] \in DOMAIN bs /\ bs[p[1]] \in Block
    BY <1>3
  <2>2. p[2] \in DOMAIN bs[p[1]].txs
    BY <1>2, <2>1 DEF Block
  <2>3. p \in {p[1]} \X DOMAIN bs[p[1]].txs
    BY <1>2, <2>2
  <2> QED  BY <2>1, <2>3 DEF Slots, TxAt
<1>4. CASE p[1] = Len(bs) + 1
  <2>1. cs[p[1]] = b
    BY <1>4
  <2>2. p[2] \in DOMAIN b.txs
    BY <1>2, <2>1 DEF Block
  <2>3. 1 \in DOMAIN <<b>> /\ <<b>>[1] = b
    OBVIOUS
  <2>4. <<1, p[2]>> \in {1} \X DOMAIN <<b>>[1].txs
    BY <2>2, <2>3
  <2>5. <<1, p[2]>> \in Slots(<<b>>)
    BY <2>3, <2>4 DEF Slots
  <2> QED  BY <1>4, <2>1, <2>3, <2>5 DEF TxAt
<1> QED  BY <1>1, <1>2, <1>3, <1>4

\* The same the other way round.
LEMMA SlotsAppend ==
    ASSUME NEW bs \in Seq(Block), NEW b \in Block
    PROVE  /\ \A p \in Slots(bs) :
                p \in Slots(Append(bs, b)) /\ TxAt(Append(bs, b), p) = TxAt(bs, p)
           /\ \A p \in Slots(<<b>>) :
                /\ <<Len(bs) + 1, p[2]>> \in Slots(Append(bs, b))
                /\ TxAt(Append(bs, b), <<Len(bs) + 1, p[2]>>) = TxAt(<<b>>, p)
<1> DEFINE cs == Append(bs, b)
<1>1. ASSUME NEW p \in Slots(bs) PROVE p \in Slots(cs) /\ TxAt(cs, p) = TxAt(bs, p)
  <2>1. p[1] \in DOMAIN bs /\ p \in {p[1]} \X DOMAIN bs[p[1]].txs
    BY DEF Slots
  <2>2. p[1] \in DOMAIN cs /\ cs[p[1]] = bs[p[1]]
    BY <2>1
  <2> QED  BY <2>1, <2>2 DEF Slots, TxAt
<1>2. ASSUME NEW p \in Slots(<<b>>)
      PROVE  <<Len(bs) + 1, p[2]>> \in Slots(cs)
             /\ TxAt(cs, <<Len(bs) + 1, p[2]>>) = TxAt(<<b>>, p)
  <2>1. <<b>> \in Seq(Block) /\ Len(<<b>>) = 1 /\ <<b>>[1] = b
    OBVIOUS
  <2>2. p[1] = 1 /\ p[2] \in 1 .. Len(b.txs)
    <3> DEFINE one == <<b>>
    <3>1. one \in Seq(Block) /\ Len(one) = 1 /\ one[1] = b
      BY <2>1
    <3> HIDE DEF one
    <3>2. \A q \in Slots(one) : q[1] \in 1 .. 1 /\ q[2] \in 1 .. Len(one[q[1]].txs)
      BY <3>1, SlotForm
    <3>3. \A q \in Slots(one) : q[1] = 1 /\ q[2] \in 1 .. Len(b.txs)
      BY <3>1, <3>2
    <3> QED  BY <3>3 DEF one
  <2>3. Len(bs) + 1 \in DOMAIN cs /\ cs[Len(bs) + 1] = b
    OBVIOUS
  <2>4. p[2] \in DOMAIN b.txs
    BY <2>2 DEF Block
  <2>5. <<Len(bs) + 1, p[2]>> \in {Len(bs) + 1} \X DOMAIN cs[Len(bs) + 1].txs
    BY <2>3, <2>4
  <2>6. <<Len(bs) + 1, p[2]>> \in Slots(cs)
    BY <2>3, <2>5 DEF Slots
  <2> QED  BY <2>1, <2>2, <2>3, <2>6 DEF TxAt
<1> QED  BY <1>1, <1>2

LEMMA AppendIds ==
    ASSUME NEW bs \in Seq(Block), NEW b \in Block
    PROVE  Ids(Append(bs, b)) = Ids(bs) \cup Ids(<<b>>)
<1>1. ASSUME NEW p \in Slots(Append(bs, b))
      PROVE  Id(TxAt(Append(bs, b), p)) \in Ids(bs) \cup Ids(<<b>>)
  <2>1. CASE p \in Slots(bs) /\ TxAt(Append(bs, b), p) = TxAt(bs, p)
    BY <2>1 DEF Ids
  <2>2. CASE /\ <<1, p[2]>> \in Slots(<<b>>)
             /\ TxAt(Append(bs, b), p) = TxAt(<<b>>, <<1, p[2]>>)
    BY <2>2 DEF Ids
  <2> QED  BY <2>1, <2>2, AppendSlots
<1>2. ASSUME NEW p \in Slots(bs) PROVE Id(TxAt(bs, p)) \in Ids(Append(bs, b))
  BY SlotsAppend DEF Ids
<1>3. ASSUME NEW p \in Slots(<<b>>) PROVE Id(TxAt(<<b>>, p)) \in Ids(Append(bs, b))
  <2>1. PICK q \in Slots(Append(bs, b)) : TxAt(Append(bs, b), q) = TxAt(<<b>>, p)
    BY SlotsAppend
  <2> QED  BY <2>1 DEF Ids
<1>4. Ids(bs) \subseteq Ids(Append(bs, b)) /\ Ids(<<b>>) \subseteq Ids(Append(bs, b))
  BY <1>2, <1>3 DEF Ids
<1>5. Ids(Append(bs, b)) \subseteq Ids(bs) \cup Ids(<<b>>)
  BY <1>1 DEF Ids
<1> QED  BY <1>4, <1>5

\* A block that is unique in itself and new to the chain keeps it unique.
LEMMA AppendUnique ==
    ASSUME NEW bs \in Seq(Block), NEW b \in Block,
           NEW ns \in [Accounts -> Nat], NEW ms \in [Accounts -> Nat],
           Unique(bs, ns), Unique(<<b>>, ms), \A a \in Accounts : ns[a] <= ms[a],
           \A q \in Slots(<<b>>) :
                /\ Id(TxAt(<<b>>, q)) \notin Ids(bs)
                /\ TxAt(<<b>>, q).sender # Mint =>
                     ns[TxAt(<<b>>, q).sender] <= TxAt(<<b>>, q).nonce
    PROVE  Unique(Append(bs, b), ms)
<1> DEFINE cs == Append(bs, b)
           old(p) == p \in Slots(bs) /\ TxAt(cs, p) = TxAt(bs, p)
           new(p) == /\ p[1] = Len(bs) + 1 /\ <<1, p[2]>> \in Slots(<<b>>)
                     /\ TxAt(cs, p) = TxAt(<<b>>, <<1, p[2]>>)
           differ(p, q) == /\ Id(TxAt(cs, p)) # Id(TxAt(cs, q))
                           /\ TxAt(cs, p).sender = TxAt(cs, q).sender
                                /\ TxAt(cs, p).sender # Mint
                              => TxAt(cs, p).nonce # TxAt(cs, q).nonce
<1>1. \A p \in Slots(cs) : old(p) \/ new(p)
  BY AppendSlots
<1>2. ASSUME NEW p \in Slots(cs)
      PROVE  /\ TxAt(cs, p).nonce \in Nat /\ TxAt(cs, p).sender \in Accounts
             /\ p = <<p[1], p[2]>>
  <2>1. cs \in Seq(Block)
    OBVIOUS
  <2> QED  BY <2>1, SlotForm, TxAssumption DEF TxRecord
<1>3. ASSUME NEW p \in Slots(cs), NEW q \in Slots(cs), old(p), old(q), p # q
      PROVE  differ(p, q)
  BY <1>3 DEF Unique
<1>4. ASSUME NEW p \in Slots(cs), NEW q \in Slots(cs), old(p), new(q)
      PROVE  differ(p, q)
  <2>1. Id(TxAt(cs, p)) \in Ids(bs) /\ Id(TxAt(cs, q)) \notin Ids(bs)
    BY <1>4 DEF Ids
  <2>2. TxAt(cs, p).sender # Mint => TxAt(cs, p).nonce < ns[TxAt(cs, p).sender]
    BY <1>4 DEF Unique
  <2>3. TxAt(cs, q).sender # Mint => ns[TxAt(cs, q).sender] <= TxAt(cs, q).nonce
    BY <1>4
  <2> HIDE DEF cs
  <2>4. ns[TxAt(cs, p).sender] \in Nat
    BY <1>2
  <2>5. TxAt(cs, p).nonce \in Nat /\ TxAt(cs, q).nonce \in Nat
    BY <1>2
  <2> QED  BY <2>1, <2>2, <2>3, <2>4, <2>5
<1>5. ASSUME NEW p \in Slots(cs), NEW q \in Slots(cs), new(p), new(q), p # q
      PROVE  differ(p, q)
  <2>1. <<1, p[2]>> # <<1, q[2]>>
    BY <1>2, <1>5
  <2> QED  BY <1>5, <2>1 DEF Unique
<1>6. \A p, q \in Slots(cs) : differ(p, q) <=> differ(q, p)
  OBVIOUS
<1>7. \A p, q \in Slots(cs) : p # q => differ(p, q)
  <2> HIDE DEF cs, old, new, differ
  <2> QED  BY <1>1, <1>3, <1>4, <1>5, <1>6
<1>8. ASSUME NEW p \in Slots(cs), TxAt(cs, p).sender # Mint
      PROVE  TxAt(cs, p).nonce < ms[TxAt(cs, p).sender]
  <2>1. CASE old(p)
    <3>1. TxAt(cs, p).nonce < ns[TxAt(cs, p).sender]
      BY <1>8, <2>1 DEF Unique
    <3> HIDE DEF cs
    <3>2. TxAt(cs, p).nonce \in Nat /\ TxAt(cs, p).sender \in Accounts
      BY <1>2
    <3> QED  BY <3>1, <3>2
  <2>2. CASE new(p)
    BY <1>8, <2>2 DEF Unique
  <2> QED  BY <1>1, <2>1, <2>2
<1> QED  BY <1>7, <1>8 DEF Unique


-----------------------------------------------------------------------------
(***************************************************************************)
(* Amounts moved at some positions of a chain.                             *)
(***************************************************************************)
LEMMA PositionsFinite ==
    ASSUME NEW bs \in Seq(Block), NEW P \in SUBSET Slots(bs)
    PROVE  /\ IsFiniteSet(P)
           /\ \A p \in P : TxAt(bs, p) \in Txs /\ TxAt(bs, p).amount \in Nat
           /\ \A p \in P : TxAt(bs, p).sender \in Accounts /\ TxAt(bs, p).receiver \in Accounts
<1>1. IsFiniteSet(P)
  BY SlotsFinite, FS_Subset
<1>2. \A p \in P : TxAt(bs, p) \in Txs
  BY SlotForm
<1> QED  BY <1>1, <1>2, TxAssumption DEF TxRecord

LEMMA AmountAtSum ==
    ASSUME NEW bs, NEW P
    PROVE  AmountAt(bs, P) = SumFunctionOnSet([p \in P |-> TxAt(bs, p).amount], P)
BY DEF AmountAt, SumFunction

LEMMA AmountAtType ==
    ASSUME NEW bs \in Seq(Block), NEW P \in SUBSET Slots(bs)
    PROVE  AmountAt(bs, P) \in Nat
<1> DEFINE f == [p \in P |-> TxAt(bs, p).amount]
<1>1. IsFiniteSet(P) /\ \A p \in P : f[p] \in Nat
  BY PositionsFinite
<1> HIDE DEF f
<1>2. SumFunctionOnSet(f, P) \in Nat
  BY <1>1, SumNat
<1> QED  BY <1>2, AmountAtSum DEF f

LEMMA AmountAtNone == \A bs : AmountAt(bs, {}) = 0
BY AmountAtSum, SumEmpty

LEMMA AmountAtSame ==
    ASSUME NEW bs, NEW cs, NEW P, \A p \in P : TxAt(cs, p) = TxAt(bs, p)
    PROVE  AmountAt(cs, P) = AmountAt(bs, P)
<1>1. [p \in P |-> TxAt(cs, p).amount] = [p \in P |-> TxAt(bs, p).amount]
  OBVIOUS
<1> QED  BY <1>1 DEF AmountAt

\* The same positions, numbered as those of another chain by h.
LEMMA AmountAtMoved ==
    ASSUME NEW bs \in Seq(Block), NEW P \in SUBSET Slots(bs), NEW cs, NEW Q,
           NEW h \in Bijection(P, Q), \A p \in P : TxAt(cs, h[p]) = TxAt(bs, p)
    PROVE  AmountAt(cs, Q) = AmountAt(bs, P)
<1> DEFINE f == [p \in P |-> TxAt(bs, p).amount]
           g == [q \in Q |-> TxAt(cs, q).amount]
<1>0. IsFiniteSet(P) /\ \A p \in P : f[p] \in Nat
  BY PositionsFinite
<1>1. \A p \in P : f[p] \in Int
  BY <1>0
<1>2. \A p \in P : h[p] \in Q
  BY DEF Bijection, Injection, Surjection, IsInjective
<1>3. \A p \in P : f[p] \in Int /\ g[h[p]] = f[p]
  BY <1>1, <1>2
<1> HIDE DEF f, g
<1>4. SumFunctionOnSet(g, Q) = SumFunctionOnSet(f, P)
  BY <1>0, <1>3, SumRenamed
<1> QED  BY <1>4, AmountAtSum DEF f, g

LEMMA AmountAtUnion ==
    ASSUME NEW bs \in Seq(Block), NEW P \in SUBSET Slots(bs), NEW Q \in SUBSET Slots(bs),
           P \cap Q = {}
    PROVE  AmountAt(bs, P \cup Q) = AmountAt(bs, P) + AmountAt(bs, Q)
<1> DEFINE R == P \cup Q
           f == [p \in P |-> TxAt(bs, p).amount]
           g == [p \in Q |-> TxAt(bs, p).amount]
           h == [p \in R |-> TxAt(bs, p).amount]
<1>1. /\ IsFiniteSet(P) /\ \A p \in P : f[p] \in Int /\ h[p] = f[p]
      /\ IsFiniteSet(Q) /\ \A p \in Q : g[p] \in Int /\ h[p] = g[p]
  BY PositionsFinite
<1>2. \A p \in P \cup Q : h[p] \in Int
  BY <1>1
<1> HIDE DEF f, g, h
<1>3. SumFunctionOnSet(h, P \cup Q) = SumFunctionOnSet(h, P) + SumFunctionOnSet(h, Q)
  BY <1>1, <1>2, SumUnion
<1>4. /\ SumFunctionOnSet(h, P) = SumFunctionOnSet(f, P)
      /\ SumFunctionOnSet(h, Q) = SumFunctionOnSet(g, Q)
  BY <1>1, SumEqual
<1> QED  BY <1>3, <1>4, AmountAtSum DEF f, g, h, R

\* The amounts at P, summed over some positions of P only.
LEMMA AmountOfPart ==
    ASSUME NEW bs \in Seq(Block), NEW P \in SUBSET Slots(bs), NEW Q, Q \subseteq P
    PROVE  SumFunctionOnSet([p \in P |-> TxAt(bs, p).amount], Q) = AmountAt(bs, Q)
<1> DEFINE f == [p \in P |-> TxAt(bs, p).amount]
           g == [p \in Q |-> TxAt(bs, p).amount]
<1>1. IsFiniteSet(Q) /\ \A p \in Q : g[p] \in Int /\ f[p] = g[p]
  <2>1. Q \in SUBSET Slots(bs)
    OBVIOUS
  <2> QED  BY <2>1, PositionsFinite
<1> HIDE DEF f, g
<1>2. SumFunctionOnSet(f, Q) = SumFunctionOnSet(g, Q)
  BY <1>1, SumEqual
<1> QED  BY <1>2, AmountAtSum DEF f, g

LEMMA AmountAtLess ==
    ASSUME NEW bs \in Seq(Block), NEW P \in SUBSET Slots(bs), NEW Q \in SUBSET P
    PROVE  AmountAt(bs, Q) <= AmountAt(bs, P)
<1> DEFINE R == P \ Q
<1>1. Q \cup R = P /\ Q \cap R = {} /\ Q \in SUBSET Slots(bs) /\ R \in SUBSET Slots(bs)
  OBVIOUS
<1> HIDE DEF R
<1>2. AmountAt(bs, Q \cup R) = AmountAt(bs, Q) + AmountAt(bs, R)
  BY <1>1, AmountAtUnion
<1>3. AmountAt(bs, Q) \in Nat /\ AmountAt(bs, R) \in Nat
  BY <1>1, AmountAtType
<1>4. AmountAt(bs, Q \cup R) = AmountAt(bs, P)
  BY <1>1
<1> QED  BY <1>2, <1>3, <1>4

LEMMA SenderPositions ==
    ASSUME NEW bs, NEW P, NEW a
    PROVE  SentBy(bs, P, a) \subseteq P /\ ReceivedBy(bs, P, a) \subseteq P
BY DEF SentBy, ReceivedBy

LEMMA BalanceType ==
    ASSUME NEW bs \in Seq(Block), NEW P \in SUBSET Slots(bs), NEW st \in LedgerState,
           NEW a \in Accounts
    PROVE  /\ BalanceAfter(st, bs, P, a) \in Int
           /\ AmountAt(bs, SentBy(bs, P, a)) \in Nat
           /\ AmountAt(bs, ReceivedBy(bs, P, a)) \in Nat
           /\ st.balances[a] \in Nat /\ st.nonces[a] \in Nat
           /\ Cardinality(SentBy(bs, P, a)) \in Nat
<1>1. SentBy(bs, P, a) \in SUBSET Slots(bs) /\ ReceivedBy(bs, P, a) \in SUBSET Slots(bs)
  BY SenderPositions
<1>2. AmountAt(bs, SentBy(bs, P, a)) \in Nat /\ AmountAt(bs, ReceivedBy(bs, P, a)) \in Nat
  BY <1>1, AmountAtType
<1>3. st.balances[a] \in Nat /\ st.nonces[a] \in Nat
  BY AllocationAssumption DEF LedgerState
<1>4. Cardinality(SentBy(bs, P, a)) \in Nat
  BY <1>1, PositionsFinite, FS_CardinalityType
<1> QED  BY <1>2, <1>3, <1>4 DEF BalanceAfter

-----------------------------------------------------------------------------
(***************************************************************************)
(* One block more: its positions are those of the block alone, moved       *)
(* behind the chain.                                                       *)
(***************************************************************************)
Moved(bs, Q) == {<<Len(bs) + 1, q[2]>> : q \in Q}

LEMMA OneBlock ==
    ASSUME NEW b \in Block
    PROVE  /\ <<b>> \in Seq(Block)
           /\ \A q \in Slots(<<b>>) : q = <<1, q[2]>> /\ q[2] \in 1 .. Len(b.txs)
           /\ \A i \in 1 .. Len(b.txs) :
                <<1, i>> \in Slots(<<b>>) /\ TxAt(<<b>>, <<1, i>>) = b.txs[i]
<1> DEFINE one == <<b>>
<1>1. one \in Seq(Block) /\ Len(one) = 1 /\ one[1] = b /\ DOMAIN one = {1}
  OBVIOUS
<1>2. DOMAIN b.txs = 1 .. Len(b.txs)
  BY DEF Block
<1> HIDE DEF one
<1>3. \A q \in Slots(one) : q = <<1, q[2]>> /\ q[2] \in 1 .. Len(b.txs)
  BY <1>1, SlotForm
<1>4. ASSUME NEW i \in 1 .. Len(b.txs)
      PROVE  <<1, i>> \in Slots(one) /\ TxAt(one, <<1, i>>) = b.txs[i]
  <2>1. <<1, i>> \in {1} \X DOMAIN one[1].txs
    BY <1>1, <1>2
  <2> QED  BY <1>1, <2>1 DEF Slots, TxAt
<1> QED  BY <1>1, <1>3, <1>4 DEF one

LEMMA SlotsOfAppend ==
    ASSUME NEW bs \in Seq(Block), NEW b \in Block
    PROVE  /\ Slots(Append(bs, b)) = Slots(bs) \cup Moved(bs, Slots(<<b>>))
           /\ Slots(bs) \cap Moved(bs, Slots(<<b>>)) = {}
<1>1. ASSUME NEW p \in Slots(Append(bs, b)), p \notin Slots(bs)
      PROVE  p \in Moved(bs, Slots(<<b>>))
  <2>1. p[1] = Len(bs) + 1 /\ <<1, p[2]>> \in Slots(<<b>>)
    BY <1>1, AppendSlots
  <2>2. Append(bs, b) \in Seq(Block)
    OBVIOUS
  <2>3. p = <<p[1], p[2]>>
    BY <2>2, SlotForm
  <2>4. p = <<Len(bs) + 1, <<1, p[2]>>[2]>>
    BY <2>1, <2>3
  <2> QED  BY <2>1, <2>4 DEF Moved
<1>2. ASSUME NEW p \in Slots(bs) PROVE p \in Slots(Append(bs, b)) /\ p[1] # Len(bs) + 1
  <2>1. p[1] \in 1 .. Len(bs) /\ Len(bs) \in Nat
    BY SlotForm
  <2>2. p[1] # Len(bs) + 1
    BY <2>1
  <2>3. p \in Slots(Append(bs, b))
    BY SlotsAppend
  <2> QED  BY <2>2, <2>3
<1>3. \A p \in Moved(bs, Slots(<<b>>)) : p \in Slots(Append(bs, b)) /\ p[1] = Len(bs) + 1
  BY SlotsAppend DEF Moved
<1> QED  BY <1>1, <1>2, <1>3

LEMMA BeforeInAppend ==
    ASSUME NEW bs \in Seq(Block), NEW b \in Block
    PROVE  /\ \A p \in Slots(bs) : SlotsBefore(Append(bs, b), p) = SlotsBefore(bs, p)
           /\ \A q \in Slots(<<b>>) :
                SlotsBefore(Append(bs, b), <<Len(bs) + 1, q[2]>>)
                  = Slots(bs) \cup Moved(bs, SlotsBefore(<<b>>, q))
<1> DEFINE cs == Append(bs, b)
           new == Moved(bs, Slots(<<b>>))
<1>1. Slots(cs) = Slots(bs) \cup new /\ Len(bs) \in Nat
  BY SlotsOfAppend
<1>2. \A p \in Slots(bs) : p[1] \in 1 .. Len(bs) /\ p[2] \in Nat
  BY SlotForm
<1>3. \A q \in Slots(<<b>>) : q = <<1, q[2]>> /\ q[2] \in Nat
  BY OneBlock
<1>4. \A r \in new : r[1] = Len(bs) + 1
  BY DEF Moved
<1>5. ASSUME NEW p \in Slots(bs) PROVE SlotsBefore(cs, p) = SlotsBefore(bs, p)
  <2>1. \A r \in new : ~ Precedes(r, p)
    BY <1>1, <1>2, <1>4 DEF Precedes
  <2> HIDE DEF new, cs
  <2> QED  BY <1>1, <2>1 DEF SlotsBefore
<1>6. ASSUME NEW q \in Slots(<<b>>)
      PROVE  SlotsBefore(cs, <<Len(bs) + 1, q[2]>>)
               = Slots(bs) \cup Moved(bs, SlotsBefore(<<b>>, q))
  <2> DEFINE p == <<Len(bs) + 1, q[2]>>
  <2>1. p[1] = Len(bs) + 1 /\ p[2] = q[2] /\ q[1] = 1
    BY <1>3
  <2>2. \A r \in Slots(bs) : Precedes(r, p)
    BY <1>1, <1>2, <2>1 DEF Precedes
  <2>3. ASSUME NEW r \in Slots(<<b>>)
        PROVE  Precedes(<<Len(bs) + 1, r[2]>>, p) <=> Precedes(r, q)
    <3>1. r[1] = 1
      BY <1>3
    <3> QED  BY <1>1, <2>1, <3>1 DEF Precedes
  <2> HIDE DEF p
  <2>4. {r \in new : Precedes(r, p)} = Moved(bs, SlotsBefore(<<b>>, q))
    BY <2>3 DEF Moved, SlotsBefore
  <2>5. SlotsBefore(cs, p) = {r \in Slots(bs) : Precedes(r, p)} \cup {r \in new : Precedes(r, p)}
    <3> HIDE DEF new, cs
    <3> QED  BY <1>1 DEF SlotsBefore
  <2>6. {r \in Slots(bs) : Precedes(r, p)} = Slots(bs)
    BY <2>2
  <2>7. SlotsBefore(cs, p) = Slots(bs) \cup Moved(bs, SlotsBefore(<<b>>, q))
    BY <2>4, <2>5, <2>6
  <2> QED  BY <2>7 DEF p
<1> QED  BY <1>5, <1>6

LEMMA MovedRenames ==
    ASSUME NEW bs \in Seq(Block), NEW b \in Block, NEW Q \in SUBSET Slots(<<b>>)
    PROVE  /\ [q \in Q |-> <<Len(bs) + 1, q[2]>>] \in Bijection(Q, Moved(bs, Q))
           /\ \A q \in Q : TxAt(Append(bs, b), <<Len(bs) + 1, q[2]>>) = TxAt(<<b>>, q)
           /\ Moved(bs, Q) \in SUBSET Slots(Append(bs, b))
           /\ Slots(bs) \in SUBSET Slots(Append(bs, b))
           /\ Slots(bs) \cap Moved(bs, Q) = {}
<1> DEFINE h == [q \in Q |-> <<Len(bs) + 1, q[2]>>]
<1>1. h \in [Q -> Moved(bs, Q)] /\ \A r \in Moved(bs, Q) : \E q \in Q : h[q] = r
  BY DEF Moved
<1>2. ASSUME NEW q \in Q, NEW r \in Q, h[q] = h[r] PROVE q = r
  <2>1. q[2] = r[2]
    BY <1>2
  <2>2. q = <<1, q[2]>> /\ r = <<1, r[2]>>
    BY OneBlock
  <2> QED  BY <2>1, <2>2
<1>3. h \in Bijection(Q, Moved(bs, Q))
  BY <1>1, <1>2 DEF Bijection, Injection, Surjection, IsInjective
<1>4. Moved(bs, Q) \subseteq Moved(bs, Slots(<<b>>))
  BY DEF Moved
<1> QED  BY <1>3, <1>4, SlotsAppend, SlotsOfAppend

\* Replaying part of a block after a chain is replaying the chain, then it.
LEMMA BalanceSplits ==
    ASSUME NEW bs \in Seq(Block), NEW b \in Block, NEW Q \in SUBSET Slots(<<b>>),
           NEW st \in LedgerState, NEW a \in Accounts
    PROVE  /\ BalanceAfter(st, Append(bs, b), Slots(bs) \cup Moved(bs, Q), a)
                = BalanceAfter(StateAfter(st, bs), <<b>>, Q, a)
           /\ NonceAfter(st, Append(bs, b), Slots(bs) \cup Moved(bs, Q), a)
                = NonceAfter(StateAfter(st, bs), <<b>>, Q, a)
<1> DEFINE cs == Append(bs, b)
           one == <<b>>
           P == Slots(bs)
           M == Moved(bs, Q)
<1>0. cs \in Seq(Block) /\ one \in Seq(Block)
  OBVIOUS
<1>1. /\ M \in SUBSET Slots(cs) /\ P \in SUBSET Slots(cs) /\ P \cap M = {}
      /\ \A q \in Q : TxAt(cs, <<Len(bs) + 1, q[2]>>) = TxAt(one, q)
      /\ \A p \in P : TxAt(cs, p) = TxAt(bs, p)
  <2>1. \A p \in P : TxAt(cs, p) = TxAt(bs, p)
    BY SlotsAppend
  <2>2. /\ M \in SUBSET Slots(cs) /\ P \in SUBSET Slots(cs) /\ P \cap M = {}
        /\ \A q \in Q : TxAt(cs, <<Len(bs) + 1, q[2]>>) = TxAt(one, q)
    BY MovedRenames
  <2> QED  BY <2>1, <2>2
<1>2. /\ SentBy(cs, P \cup M, a) = SentBy(bs, P, a) \cup Moved(bs, SentBy(one, Q, a))
      /\ ReceivedBy(cs, P \cup M, a) = ReceivedBy(bs, P, a) \cup Moved(bs, ReceivedBy(one, Q, a))
  <2>1. \A p \in M : \E q \in Q : p = <<Len(bs) + 1, q[2]>>
    BY DEF Moved
  <2>2. \A q \in Q : <<Len(bs) + 1, q[2]>> \in M
    BY DEF Moved
  <2> HIDE DEF cs, one, P, M
  <2> QED  BY <1>1, <2>1, <2>2 DEF SentBy, ReceivedBy, Moved
<1>3. ASSUME NEW A \in SUBSET P, NEW R \in SUBSET Q
      PROVE  AmountAt(cs, A \cup Moved(bs, R)) = AmountAt(bs, A) + AmountAt(one, R)
  <2>1. /\ A \in SUBSET Slots(cs) /\ Moved(bs, R) \in SUBSET Slots(cs)
        /\ A \cap Moved(bs, R) = {}
    <3>1. Moved(bs, R) \subseteq M
      BY DEF Moved
    <3> HIDE DEF cs, P, M
    <3> QED  BY <1>1, <3>1
  <2>2. AmountAt(cs, A \cup Moved(bs, R)) = AmountAt(cs, A) + AmountAt(cs, Moved(bs, R))
    <3> HIDE DEF cs
    <3> QED  BY <1>0, <2>1, AmountAtUnion
  <2>3. AmountAt(cs, A) = AmountAt(bs, A)
    <3> HIDE DEF cs, P
    <3> QED  BY <1>1, AmountAtSame
  <2>4. AmountAt(cs, Moved(bs, R)) = AmountAt(one, R)
    <3> DEFINE h == [q \in R |-> <<Len(bs) + 1, q[2]>>]
    <3>1. h \in Bijection(R, Moved(bs, R)) /\ \A q \in R : TxAt(cs, h[q]) = TxAt(one, q)
      BY MovedRenames
    <3>2. R \in SUBSET Slots(one)
      OBVIOUS
    <3> HIDE DEF cs, one, h
    <3> QED  BY <1>0, <3>1, <3>2, AmountAtMoved
  <2> QED  BY <2>2, <2>3, <2>4
<1>4. /\ SentBy(bs, P, a) \in SUBSET P /\ ReceivedBy(bs, P, a) \in SUBSET P
      /\ SentBy(one, Q, a) \in SUBSET Q /\ ReceivedBy(one, Q, a) \in SUBSET Q
  BY SenderPositions
<1>5. /\ AmountAt(bs, SentBy(bs, P, a)) \in Nat /\ AmountAt(bs, ReceivedBy(bs, P, a)) \in Nat
      /\ AmountAt(one, SentBy(one, Q, a)) \in Nat /\ AmountAt(one, ReceivedBy(one, Q, a)) \in Nat
      /\ st.balances[a] \in Nat /\ st.nonces[a] \in Nat
      /\ Cardinality(SentBy(bs, P, a)) \in Nat /\ Cardinality(SentBy(one, Q, a)) \in Nat
  <2>1. P \in SUBSET Slots(bs) /\ Q \in SUBSET Slots(one)
    OBVIOUS
  <2> HIDE DEF one, P
  <2> QED  BY <1>0, <2>1, BalanceType
<1>6. /\ AmountAt(cs, SentBy(cs, P \cup M, a))
            = AmountAt(bs, SentBy(bs, P, a)) + AmountAt(one, SentBy(one, Q, a))
      /\ AmountAt(cs, ReceivedBy(cs, P \cup M, a))
            = AmountAt(bs, ReceivedBy(bs, P, a)) + AmountAt(one, ReceivedBy(one, Q, a))
  <2> HIDE DEF cs, one, P, M
  <2> QED  BY <1>2, <1>3, <1>4
<1>7. Cardinality(SentBy(cs, P \cup M, a))
        = Cardinality(SentBy(bs, P, a)) + Cardinality(SentBy(one, Q, a))
  <2> DEFINE A == SentBy(bs, P, a)
             R == SentBy(one, Q, a)
  <2>1. [q \in R |-> <<Len(bs) + 1, q[2]>>] \in Bijection(R, Moved(bs, R))
        /\ A \cap Moved(bs, R) = {}
    <3>1. R \in SUBSET Slots(<<b>>) /\ A \in SUBSET Slots(bs)
      BY <1>4
    <3> HIDE DEF A, R
    <3> QED  BY <3>1, MovedRenames
  <2>2. IsFiniteSet(A) /\ IsFiniteSet(R)
    <3>1. A \in SUBSET Slots(bs) /\ R \in SUBSET Slots(one)
      BY <1>4
    <3> HIDE DEF A, R, one
    <3> QED  BY <1>0, <3>1, PositionsFinite
  <2>3. IsFiniteSet(Moved(bs, R)) /\ Cardinality(Moved(bs, R)) = Cardinality(R)
    <3> HIDE DEF R
    <3> QED  BY <2>1, <2>2, FS_Bijection DEF ExistsBijection
  <2>4. Cardinality(A \cup Moved(bs, R)) = Cardinality(A) + Cardinality(Moved(bs, R))
    <3> HIDE DEF A, R
    <3>1. Cardinality(A \cap Moved(bs, R)) = 0
      BY <2>1, FS_EmptySet
    <3>2. Cardinality(A) \in Nat /\ Cardinality(Moved(bs, R)) \in Nat
      BY <2>2, <2>3, FS_CardinalityType
    <3>3. Cardinality(A \cup Moved(bs, R))
            = Cardinality(A) + Cardinality(Moved(bs, R)) - Cardinality(A \cap Moved(bs, R))
      BY <2>2, <2>3, FS_Union
    <3> QED  BY <3>1, <3>2, <3>3
  <2>5. Cardinality(SentBy(cs, P \cup M, a)) = Cardinality(A \cup Moved(bs, R))
    BY <1>2
  <2> HIDE DEF cs, P, M, one
  <2> QED  BY <2>3, <2>4, <2>5
<1>8. /\ StateAfter(st, bs).balances[a] = BalanceAfter(st, bs, P, a)
      /\ StateAfter(st, bs).nonces[a] = NonceAfter(st, bs, P, a)
  BY DEF StateAfter
<1> HIDE DEF cs, one, P, M
<1>9. BalanceAfter(st, cs, P \cup M, a) = BalanceAfter(StateAfter(st, bs), one, Q, a)
  BY <1>5, <1>6, <1>8 DEF BalanceAfter
<1>10. NonceAfter(st, cs, P \cup M, a) = NonceAfter(StateAfter(st, bs), one, Q, a)
  BY <1>5, <1>7, <1>8 DEF NonceAfter
<1> QED  BY <1>9, <1>10 DEF cs, one, P, M

\* The same on positions of the chain only: the new block is not looked at.
LEMMA BalanceBefore ==
    ASSUME NEW bs \in Seq(Block), NEW b \in Block, NEW P \in SUBSET Slots(bs),
           NEW st, NEW a
    PROVE  /\ BalanceAfter(st, Append(bs, b), P, a) = BalanceAfter(st, bs, P, a)
           /\ NonceAfter(st, Append(bs, b), P, a) = NonceAfter(st, bs, P, a)
<1> DEFINE cs == Append(bs, b)
<1>1. \A p \in P : TxAt(cs, p) = TxAt(bs, p)
  BY SlotsAppend
<1> HIDE DEF cs
<1>2. SentBy(cs, P, a) = SentBy(bs, P, a) /\ ReceivedBy(cs, P, a) = ReceivedBy(bs, P, a)
  BY <1>1 DEF SentBy, ReceivedBy
<1>3. /\ AmountAt(cs, SentBy(bs, P, a)) = AmountAt(bs, SentBy(bs, P, a))
      /\ AmountAt(cs, ReceivedBy(bs, P, a)) = AmountAt(bs, ReceivedBy(bs, P, a))
  <2>1. /\ \A p \in SentBy(bs, P, a) : TxAt(cs, p) = TxAt(bs, p)
        /\ \A p \in ReceivedBy(bs, P, a) : TxAt(cs, p) = TxAt(bs, p)
    BY <1>1, SenderPositions
  <2> QED  BY <2>1, AmountAtSame
<1>4. /\ BalanceAfter(st, cs, P, a) = BalanceAfter(st, bs, P, a)
      /\ NonceAfter(st, cs, P, a) = NonceAfter(st, bs, P, a)
  BY <1>2, <1>3 DEF BalanceAfter, NonceAfter
<1> QED  BY <1>4 DEF cs

LEMMA ReplayAppend ==
    ASSUME NEW bs \in Seq(Block), NEW b \in Block, NEW st \in LedgerState
    PROVE  StateAfter(st, Append(bs, b)) = StateAfter(StateAfter(st, bs), <<b>>)
<1> DEFINE cs == Append(bs, b)
           one == <<b>>
           mid == StateAfter(st, bs)
<1>1. Slots(cs) = Slots(bs) \cup Moved(bs, Slots(one))
  BY SlotsOfAppend
<1>2. ASSUME NEW a \in Accounts
      PROVE  /\ BalanceAfter(st, cs, Slots(cs), a) = BalanceAfter(mid, one, Slots(one), a)
             /\ NonceAfter(st, cs, Slots(cs), a) = NonceAfter(mid, one, Slots(one), a)
  BY <1>1, BalanceSplits
<1> HIDE DEF cs, one, mid
<1>3. StateAfter(st, cs) = StateAfter(mid, one)
  BY <1>2 DEF StateAfter
<1> QED  BY <1>3 DEF cs, one, mid

\* A block that applies behind a chain that applies makes a chain that applies.
LEMMA ApplyAppend ==
    ASSUME NEW bs \in Seq(Block), NEW b \in Block, NEW st \in LedgerState,
           NEW keys, NEW seen,
           TransactionsApply(keys, seen, st, bs),
           TransactionsApply(keys, seen \cup Ids(bs), StateAfter(st, bs), <<b>>)
    PROVE  TransactionsApply(keys, seen, st, Append(bs, b))
<1> DEFINE cs == Append(bs, b)
           one == <<b>>
           mid == StateAfter(st, bs)
           at(q) == <<Len(bs) + 1, q[2]>>
<1>1. /\ cs \in Seq(Block) /\ one \in Seq(Block)
      /\ Slots(cs) = Slots(bs) \cup Moved(bs, Slots(one))
      /\ \A p \in Slots(bs) : TxAt(cs, p) = TxAt(bs, p)
      /\ \A p \in Slots(bs) : SlotsBefore(cs, p) = SlotsBefore(bs, p)
      /\ \A q \in Slots(one) : TxAt(cs, at(q)) = TxAt(one, q)
      /\ \A q \in Slots(one) :
            SlotsBefore(cs, at(q)) = Slots(bs) \cup Moved(bs, SlotsBefore(one, q))
  BY SlotsOfAppend, SlotsAppend, BeforeInAppend
<1>2. \A p \in Slots(bs) : SlotsBefore(bs, p) \in SUBSET Slots(bs)
  BY DEF SlotsBefore
<1>3. \A q \in Slots(one) : SlotsBefore(one, q) \in SUBSET Slots(one)
  BY DEF SlotsBefore
<1>4. \A p \in Slots(bs) : TxAt(bs, p) \in Txs /\ TxAt(bs, p).sender \in Accounts
  BY SlotForm, TxAssumption DEF TxRecord
<1>5. \A p \in Slots(one) : TxAt(one, p) \in Txs /\ TxAt(one, p).sender \in Accounts
  BY <1>1, SlotForm, TxAssumption DEF TxRecord
<1>6. ASSUME NEW p \in Slots(bs)
      PROVE  Fresh(seen, cs, p) /\ Authorized(keys, st, cs, p)
             /\ WithinWidth(st, cs, SlotsBefore(cs, p))
  <2> DEFINE P == SlotsBefore(bs, p)
  <2>1. Fresh(seen, bs, p) /\ Authorized(keys, st, bs, p) /\ WithinWidth(st, bs, P)
    BY DEF TransactionsApply
  <2>2. \A a \in Accounts : /\ BalanceAfter(st, cs, P, a) = BalanceAfter(st, bs, P, a)
                            /\ NonceAfter(st, cs, P, a) = NonceAfter(st, bs, P, a)
    BY <1>2, BalanceBefore
  <2>3. SlotsBefore(cs, p) = P /\ TxAt(cs, p) = TxAt(bs, p)
        /\ P \in SUBSET Slots(bs)
    BY <1>1, <1>2
  <2>4. \A q \in P : TxAt(cs, q) = TxAt(bs, q)
    BY <1>1, <2>3
  <2>5. Fresh(seen, cs, p)
    <3> HIDE DEF cs
    <3> QED  BY <2>1, <2>3, <2>4 DEF Fresh
  <2> HIDE DEF cs, P
  <2>6. Authorized(keys, st, cs, p)
    BY <1>4, <2>1, <2>2, <2>3 DEF Authorized, P
  <2>7. WithinWidth(st, cs, P)
    BY <2>1, <2>2 DEF WithinWidth
  <2> QED  BY <2>3, <2>5, <2>6, <2>7
<1>7. ASSUME NEW q \in Slots(one)
      PROVE  Fresh(seen, cs, at(q)) /\ Authorized(keys, st, cs, at(q))
             /\ WithinWidth(st, cs, SlotsBefore(cs, at(q)))
  <2> DEFINE Q == SlotsBefore(one, q)
             P == Slots(bs) \cup Moved(bs, Q)
             p == at(q)
  <2>1. /\ Fresh(seen \cup Ids(bs), one, q) /\ Authorized(keys, mid, one, q)
        /\ WithinWidth(mid, one, Q)
    BY DEF TransactionsApply
  <2>2. ASSUME NEW a \in Accounts
        PROVE  /\ BalanceAfter(st, cs, P, a) = BalanceAfter(mid, one, Q, a)
               /\ NonceAfter(st, cs, P, a) = NonceAfter(mid, one, Q, a)
    BY <1>3, BalanceSplits
  <2>3. SlotsBefore(cs, p) = P /\ TxAt(cs, p) = TxAt(one, q)
    BY <1>1
  <2>4. \A r \in P : \/ r \in Slots(bs) /\ TxAt(cs, r) = TxAt(bs, r)
                     \/ \E u \in Q : TxAt(cs, r) = TxAt(one, u)
    BY <1>1, <1>3 DEF Moved
  <2>5. Fresh(seen, cs, p)
    <3>1. Id(TxAt(one, q)) \notin Ids(bs) /\ Id(TxAt(one, q)) \notin seen
          /\ TxAt(one, q).wellFormed
      BY <2>1 DEF Fresh
    <3>2. \A u \in Q : Id(TxAt(one, u)) # Id(TxAt(one, q))
      BY <2>1 DEF Fresh
    <3>3. \A r \in Slots(bs) : Id(TxAt(bs, r)) # Id(TxAt(one, q))
      BY <3>1 DEF Ids
    <3> HIDE DEF cs, P, p, Q, one
    <3> QED  BY <2>3, <2>4, <3>1, <3>2, <3>3 DEF Fresh
  <2> HIDE DEF cs, P, p, one, mid, Q
  <2>6. Authorized(keys, st, cs, p)
    BY <1>5, <2>1, <2>2, <2>3 DEF Authorized, Q
  <2>7. WithinWidth(st, cs, P)
    BY <2>1, <2>2 DEF WithinWidth
  <2>8. Fresh(seen, cs, p) /\ Authorized(keys, st, cs, p) /\ WithinWidth(st, cs, SlotsBefore(cs, p))
    BY <2>3, <2>5, <2>6, <2>7
  <2> QED  BY <2>8 DEF p
<1>8. WithinWidth(st, cs, Slots(cs))
  <2>1. WithinWidth(mid, one, Slots(one))
    BY DEF TransactionsApply
  <2>2. \A a \in Accounts :
          BalanceAfter(st, cs, Slots(cs), a) = BalanceAfter(mid, one, Slots(one), a)
    BY <1>1, BalanceSplits
  <2> HIDE DEF cs, one, mid
  <2> QED  BY <2>1, <2>2 DEF WithinWidth
<1>9. \A p \in Slots(cs) : p \in Slots(bs) \/ \E q \in Slots(one) : p = at(q)
  BY <1>1 DEF Moved
<1> HIDE DEF cs, one, mid, at
<1>10. TransactionsApply(keys, seen, st, cs)
  BY <1>6, <1>7, <1>8, <1>9 DEF TransactionsApply
<1> QED  BY <1>10 DEF cs

\* Every name that old knows, new knows with the same key.
KeepsKeys(old, new) == \A a \in Accounts : old[a] # NoKey => new[a] = old[a]

\* Learning names never invalidates a chain.
LEMMA ValidWithMore ==
    ASSUME NEW bs \in Seq(Block), NEW old, NEW new, KeepsKeys(old, new),
           NEW auths, NEW more, auths \subseteq more, ChainValid(auths, old, bs)
    PROVE  ChainValid(more, new, bs)
<1>1. ASSUME NEW n \in DOMAIN bs \ {1} PROVE SealedBy(more, new, bs[n])
  <2>1. SealedBy(auths, old, bs[n])
    BY DEF ChainValid
  <2>2. bs[n] \in Block
    OBVIOUS
  <2>3. bs[n].author \in Accounts
    BY <2>2 DEF Block
  <2> QED  BY <2>1, <2>3 DEF SealedBy, KeepsKeys
<1>2. ASSUME NEW p \in Slots(bs)
      PROVE  Authorized(old, InitialState, bs, p) => Authorized(new, InitialState, bs, p)
  <2>1. TxAt(bs, p).sender \in Accounts
    BY SlotForm, TxAssumption DEF TxRecord
  <2> QED  BY <2>1 DEF Authorized, Signed, KeepsKeys
<1>3. TransactionsApply(new, {}, InitialState, bs)
  BY <1>2 DEF ChainValid, TransactionsApply
<1> QED  BY <1>1, <1>3 DEF ChainValid

LEMMA ValidAppend ==
    ASSUME NEW bs \in Seq(Block), NEW b \in Block, NEW keys, NEW auths,
           ChainValid(auths, keys, bs),
           BlockValid(auths, keys, Ids(bs), StateAfter(InitialState, bs), b)
    PROVE  ChainValid(auths, keys, Append(bs, b))
<1>1. ASSUME NEW n \in DOMAIN Append(bs, b) \ {1}
      PROVE  SealedBy(auths, keys, Append(bs, b)[n])
  <2>1. CASE n \in DOMAIN bs
    BY <2>1 DEF ChainValid
  <2>2. CASE n = Len(bs) + 1
    BY <2>2 DEF BlockValid
  <2> QED  BY <2>1, <2>2
<1>2. TransactionsApply(keys, {} \cup Ids(bs), StateAfter(InitialState, bs), <<b>>)
  <2>1. {} \cup Ids(bs) = Ids(bs)
    OBVIOUS
  <2> QED  BY <2>1 DEF BlockValid
<1>3. TransactionsApply(keys, {}, InitialState, Append(bs, b))
  BY <1>2, ApplyAppend, InitialStateType DEF ChainValid
<1> QED  BY <1>1, <1>3 DEF ChainValid

-----------------------------------------------------------------------------
(***************************************************************************)
(* Value: what one account is credited another is debited, but for the     *)
(* mint.                                                                   *)
(***************************************************************************)
LEMMA SupplyAfter ==
    ASSUME NEW bs \in Seq(Block), NEW P \in SUBSET Slots(bs), NEW st \in LedgerState
    PROVE  SumFunctionOnSet([a \in Accounts |-> BalanceAfter(st, bs, P, a)], Accounts)
             = SumFunction(st.balances) + AmountAt(bs, SentBy(bs, P, Mint))
<1> DEFINE f    == [p \in P |-> TxAt(bs, p).amount]
           had  == st.balances
           in   == [a \in Accounts |-> AmountAt(bs, ReceivedBy(bs, P, a))]
           out  == [a \in Accounts |-> AmountAt(bs, SentBy(bs, P, a))]
           paid == [a \in Accounts |-> IF a = Mint THEN 0 ELSE out[a]]
           now  == [a \in Accounts |-> BalanceAfter(st, bs, P, a)]
           Rest == Accounts \ {Mint}
           sum(g, S) == SumFunctionOnSet(g, S)
<1>1. IsFiniteSet(Accounts) /\ Mint \in Accounts /\ IsFiniteSet(Rest)
  BY AccountAssumption, FS_Subset
<1>2. IsFiniteSet(P) /\ \A p \in P : f[p] \in Int
  <2>1. IsFiniteSet(P) /\ \A p \in P : TxAt(bs, p).amount \in Nat
    BY PositionsFinite
  <2> QED  BY <2>1
<1>3. \A a \in Accounts : had[a] \in Int /\ in[a] \in Int /\ out[a] \in Int /\ paid[a] \in Int
  <2>1. ASSUME NEW a \in Accounts
        PROVE  had[a] \in Int /\ in[a] \in Int /\ out[a] \in Int
    <3>1. /\ AmountAt(bs, SentBy(bs, P, a)) \in Nat
          /\ AmountAt(bs, ReceivedBy(bs, P, a)) \in Nat
          /\ st.balances[a] \in Nat
      <4> HIDE DEF had, in, out, paid, now, f, Rest, sum
      <4> QED  BY BalanceType
    <3> QED  BY <3>1
  <2> QED  BY <2>1
<1>4. sum(in, Accounts) = sum(f, P)
  <2> DEFINE k == [p \in P |-> TxAt(bs, p).receiver]
             G == [a \in Accounts |-> ReceivedBy(bs, P, a)]
  <2>1. \A p \in P : k[p] \in Accounts
    BY PositionsFinite
  <2>2. ASSUME NEW a \in Accounts
        PROVE  /\ G[a] \in SUBSET P /\ \A p \in P : p \in G[a] <=> k[p] = a
               /\ in[a] = SumFunctionOnSet(f, G[a])
    <3>1. G[a] \in SUBSET P
      BY SenderPositions
    <3>2. \A p \in P : p \in G[a] <=> k[p] = a
      BY DEF ReceivedBy
    <3>3. SumFunctionOnSet(f, G[a]) = AmountAt(bs, G[a])
      BY <3>1, AmountOfPart
    <3> QED  BY <3>1, <3>2, <3>3
  <2>3. IsFiniteSet(Accounts) /\ IsFiniteSet(P) /\ \A p \in P : f[p] \in Int
    BY <1>1, <1>2
  <2>4. \A a \in Accounts : G[a] \in SUBSET P /\ \A p \in P : p \in G[a] <=> k[p] = a
    BY <2>2
  <2>5. \A a \in Accounts : in[a] = SumFunctionOnSet(f, G[a])
    BY <2>2
  <2> HIDE DEF f, in, k, G
  <2>6. SumFunctionOnSet(in, Accounts) = SumFunctionOnSet(f, P)
    BY <2>1, <2>3, <2>4, <2>5, SumByGroups
  <2> QED  BY <2>6
<1>5. sum(out, Accounts) = sum(f, P)
  <2> DEFINE k == [p \in P |-> TxAt(bs, p).sender]
             G == [a \in Accounts |-> SentBy(bs, P, a)]
  <2>1. \A p \in P : k[p] \in Accounts
    BY PositionsFinite
  <2>2. ASSUME NEW a \in Accounts
        PROVE  /\ G[a] \in SUBSET P /\ \A p \in P : p \in G[a] <=> k[p] = a
               /\ out[a] = SumFunctionOnSet(f, G[a])
    <3>1. G[a] \in SUBSET P
      BY SenderPositions
    <3>2. \A p \in P : p \in G[a] <=> k[p] = a
      BY DEF SentBy
    <3>3. SumFunctionOnSet(f, G[a]) = AmountAt(bs, G[a])
      BY <3>1, AmountOfPart
    <3> QED  BY <3>1, <3>2, <3>3
  <2>3. IsFiniteSet(Accounts) /\ IsFiniteSet(P) /\ \A p \in P : f[p] \in Int
    BY <1>1, <1>2
  <2>4. \A a \in Accounts : G[a] \in SUBSET P /\ \A p \in P : p \in G[a] <=> k[p] = a
    BY <2>2
  <2>5. \A a \in Accounts : out[a] = SumFunctionOnSet(f, G[a])
    BY <2>2
  <2> HIDE DEF f, out, k, G
  <2>6. SumFunctionOnSet(out, Accounts) = SumFunctionOnSet(f, P)
    BY <2>1, <2>3, <2>4, <2>5, SumByGroups
  <2> QED  BY <2>6
<1>6. sum(out, Accounts) = out[Mint] + sum(paid, Accounts)
  <2>1. sum(out, Accounts) = out[Mint] + sum(out, Rest)
    <3> HIDE DEF out
    <3> QED  BY <1>1, <1>3, SumRemove
  <2>2. sum(paid, Accounts) = paid[Mint] + sum(paid, Rest)
    <3> HIDE DEF paid
    <3> QED  BY <1>1, <1>3, SumRemove
  <2>3. \A a \in Rest : out[a] \in Int /\ paid[a] = out[a]
    BY <1>3
  <2>4. paid[Mint] = 0
    BY <1>1
  <2>5. sum(paid, Rest) = sum(out, Rest)
    <3> HIDE DEF paid, out, Rest
    <3> QED  BY <1>1, <2>3, SumEqual
  <2>6. sum(out, Rest) \in Int
    <3>1. \A a \in Rest : out[a] \in Int
      BY <2>3
    <3> HIDE DEF out, Rest
    <3> QED  BY <1>1, <3>1, SumType
  <2>7. out[Mint] \in Int
    BY <1>1, <1>3
  <2> HIDE DEF paid, out, Rest, sum
  <2> QED  BY <2>1, <2>2, <2>4, <2>5, <2>6, <2>7
<1>7. \A a \in Accounts : now[a] = had[a] + in[a] - paid[a]
  BY DEF BalanceAfter
<1>8. sum(now, Accounts) = sum(had, Accounts) + sum(in, Accounts) - sum(paid, Accounts)
  <2> HIDE DEF now, had, in, paid
  <2> QED  BY <1>1, <1>3, <1>7, SumBalance
<1>9. /\ sum(had, Accounts) \in Int /\ sum(paid, Accounts) \in Int
      /\ sum(in, Accounts) \in Int /\ out[Mint] \in Int
  <2> HIDE DEF had, in, paid, out
  <2> QED  BY <1>1, <1>3, SumType
<1>10. sum(had, Accounts) = SumFunction(had)
  <2>1. DOMAIN had = Accounts
    BY DEF LedgerState
  <2> QED  BY <2>1 DEF SumFunction
<1>11. out[Mint] = AmountAt(bs, SentBy(bs, P, Mint))
  BY <1>1
<1> HIDE DEF had, in, paid, out, now, f
<1>12. sum(now, Accounts) = SumFunction(had) + out[Mint]
  <2>1. sum(in, Accounts) = out[Mint] + sum(paid, Accounts)
    BY <1>4, <1>5, <1>6
  <2>2. sum(now, Accounts) = sum(had, Accounts) + out[Mint]
    BY <1>8, <1>9, <2>1
  <2> QED  BY <1>10, <2>2
<1> QED  BY <1>11, <1>12 DEF now, had

-----------------------------------------------------------------------------
(***************************************************************************)
(* Runs of nonces, and what Requeued keeps of a pool.                      *)
(***************************************************************************)
LEMMA RunEmpty == \A n \in Nat : IsRun({}, n)
BY FS_EmptySet DEF IsRun

LEMMA RunExtends ==
    ASSUME NEW n \in Nat, NEW S, IsFiniteSet(S), IsRun(S, n),
           NEW t, t \notin S, t.nonce = n + Cardinality(S)
    PROVE  IsRun(S \cup {t}, n)
<1> DEFINE k == Cardinality(S)
<1>1. k \in Nat
  BY FS_CardinalityType
<1>2. Cardinality(S \cup {t}) = k + 1
  BY FS_AddElement
<1>3. {u.nonce : u \in S \cup {t}} = {u.nonce : u \in S} \cup {n + k}
  OBVIOUS
<1>4. {u.nonce : u \in S} = n .. n + k - 1
  BY DEF IsRun
<1>5. (n .. n + k - 1) \cup {n + k} = n .. n + (k + 1) - 1
  BY <1>1
<1>6. \A u \in S : u.nonce # n + k
  <2>1. n + k \notin n .. n + k - 1
    BY <1>1
  <2> QED  BY <1>4, <2>1
<1> QED  BY <1>2, <1>3, <1>4, <1>5, <1>6 DEF IsRun

\* A finite set of distinct nonces, none below n and with no gap above n, is
\* the run that starts at n: counting is enough, no maximum is needed.
LEMMA GaplessIsRun ==
    ASSUME NEW n \in Nat, NEW S, IsFiniteSet(S),
           \A t \in S : t.nonce \in Nat /\ n <= t.nonce,
           \A t, u \in S : t.nonce = u.nonce => t = u,
           \A t \in S : \A m \in n .. t.nonce : \E u \in S : u.nonce = m
    PROVE  IsRun(S, n)
<1> DEFINE M == {t.nonce : t \in S}
           f == [t \in S |-> t.nonce]
           k == Cardinality(S)
<1>1. f \in Bijection(S, M)
  BY DEF Bijection, Injection, Surjection, IsInjective
<1>2. IsFiniteSet(M) /\ Cardinality(M) = k
  BY <1>1, FS_Bijection DEF ExistsBijection
<1>3. k \in Nat
  BY FS_CardinalityType
<1>4. ASSUME NEW m \in M PROVE m \in n .. n + k - 1
  <2>1. PICK t \in S : m = t.nonce
    OBVIOUS
  <2>2. m \in Nat /\ n <= m
    BY <2>1
  <2>3. n .. m \subseteq M
    BY <2>1
  <2>4. Cardinality(n .. m) = m - n + 1
    BY <2>2, FS_Interval
  <2>5. Cardinality(n .. m) <= k
    BY <1>2, <2>3, FS_Subset
  <2> QED  BY <1>3, <2>2, <2>4, <2>5
<1>5. IsFiniteSet(n .. n + k - 1) /\ Cardinality(n .. n + k - 1) = k
  <2>1. n \in Int /\ n + k - 1 \in Int
    BY <1>3
  <2>2. /\ IsFiniteSet(n .. n + k - 1)
        /\ Cardinality(n .. n + k - 1) = IF n > n + k - 1 THEN 0 ELSE (n + k - 1) - n + 1
    BY <2>1, FS_Interval
  <2> QED  BY <1>3, <2>2
<1>6. M = n .. n + k - 1
  <2> DEFINE X == n .. n + k - 1
  <2>1. M \in SUBSET X
    BY <1>4
  <2>2. IsFiniteSet(X) /\ Cardinality(X) = Cardinality(M)
    BY <1>2, <1>5
  <2> HIDE DEF X, M
  <2>3. M = X
    BY <2>1, <2>2, FS_Subset
  <2> QED  BY <2>3 DEF X
<1> QED  BY <1>6 DEF IsRun

LEMMA RequeuedIsRun ==
    ASSUME NEW keys, NEW seen, NEW st \in LedgerState, NEW S \in SUBSET Txs,
           IsFiniteSet(S), NEW a \in Accounts,
           \A t, u \in QueuedBy(S, a) : t.nonce = u.nonce => t = u
    PROVE  IsRun(QueuedBy(Requeued(keys, seen, st, S), a), st.nonces[a])
<1> DEFINE R == QueuedBy(Requeued(keys, seen, st, S), a)
           n == st.nonces[a]
<1>1. n \in Nat
  BY DEF LedgerState
<1>2. R \subseteq QueuedBy(S, a) /\ R \subseteq S
  BY DEF QueuedBy, Requeued
<1>3. IsFiniteSet(R)
  BY <1>2, FS_Subset
<1>4. \A t \in R : t.nonce \in Nat /\ n <= t.nonce
  BY <1>2, TxAssumption DEF QueuedBy, Requeued, TxRecord
<1>5. ASSUME NEW t \in R, NEW m \in n .. t.nonce
      PROVE  \E u \in R : u.nonce = m
  <2> DEFINE Fits(u) == /\ Signed(keys, u)
                        /\ Id(u) \notin seen
                        /\ TotalAmount(Lead(st, S, u)) <= st.balances[u.sender]
  <2>1. \A i \in n .. t.nonce : \E u \in QueuedBy(S, a) : u.nonce = i /\ Fits(u)
    BY DEF QueuedBy, Requeued
  <2>2. PICK u \in QueuedBy(S, a) : u.nonce = m /\ Fits(u)
    BY <2>1
  <2>3. u \in S /\ u.sender = a /\ n <= u.nonce
    BY <1>1, <1>4, <2>2 DEF QueuedBy
  <2>4. n .. u.nonce \subseteq n .. t.nonce
    BY <1>1, <1>4, <2>2
  <2>5. \A i \in n .. u.nonce : \E v \in QueuedBy(S, a) : v.nonce = i /\ Fits(v)
    BY <2>1, <2>4
  <2>6. u \in Requeued(keys, seen, st, S)
    BY <2>3, <2>5 DEF Requeued
  <2> QED  BY <2>2, <2>3, <2>6 DEF QueuedBy
<1>6. \A t, u \in R : t.nonce = u.nonce => t = u
  BY <1>2
<1> HIDE DEF R, n
<1>7. IsRun(R, n)
  BY <1>1, <1>3, <1>4, <1>5, <1>6, GaplessIsRun
<1> QED  BY <1>7 DEF R, n

LEMMA TxFields ==
    ASSUME NEW t \in Txs
    PROVE  /\ t.sender \in Accounts /\ t.receiver \in Accounts /\ t.key \in Keys
           /\ t.amount \in Nat /\ t.weight \in Nat /\ t.nonce \in Nat
BY TxAssumption DEF TxRecord

LEMMA TotalsType ==
    ASSUME NEW S, IsFiniteSet(S), S \subseteq Txs
    PROVE  TotalWeight(S) \in Nat /\ TotalAmount(S) \in Nat
<1> DEFINE f == [t \in S |-> t.weight]
           g == [t \in S |-> t.amount]
<1>1. \A t \in S : f[t] \in Nat /\ g[t] \in Nat
  BY TxFields
<1> HIDE DEF f, g
<1>2. SumFunctionOnSet(f, S) \in Nat /\ SumFunctionOnSet(g, S) \in Nat
  BY <1>1, SumNat
<1> QED  BY <1>2 DEF TotalWeight, TotalAmount, SumFunction, f, g

LEMMA TotalsNone == TotalWeight({}) = 0 /\ TotalAmount({}) = 0
BY SumEmpty DEF TotalWeight, TotalAmount, SumFunction

LEMMA TotalsAdd ==
    ASSUME NEW S, IsFiniteSet(S), S \subseteq Txs, NEW t \in Txs, t \notin S
    PROVE  /\ TotalWeight(S \cup {t}) = TotalWeight(S) + t.weight
           /\ TotalAmount(S \cup {t}) = TotalAmount(S) + t.amount
<1> DEFINE R  == S \cup {t}
           f  == [u \in S |-> u.weight]
           f1 == [u \in R |-> u.weight]
           g  == [u \in S |-> u.amount]
           g1 == [u \in R |-> u.amount]
<1>1. /\ \A u \in S : f[u] \in Int /\ f1[u] = f[u] /\ f1[u] \in Int
      /\ \A u \in S : g[u] \in Int /\ g1[u] = g[u] /\ g1[u] \in Int
      /\ f1[t] = t.weight /\ f1[t] \in Int /\ g1[t] = t.amount /\ g1[t] \in Int
  <2>1. \A u \in R : u.weight \in Int /\ u.amount \in Int
    BY TxFields
  <2> QED  BY <2>1
<1> HIDE DEF f, f1, g, g1
<1>2. /\ SumFunctionOnSet(f1, R) = SumFunctionOnSet(f1, S) + f1[t]
      /\ SumFunctionOnSet(g1, R) = SumFunctionOnSet(g1, S) + g1[t]
  BY <1>1, SumAdd
<1>3. /\ SumFunctionOnSet(f1, S) = SumFunctionOnSet(f, S)
      /\ SumFunctionOnSet(g1, S) = SumFunctionOnSet(g, S)
  BY <1>1, SumEqual
<1>4. /\ TotalWeight(R) = SumFunctionOnSet(f1, R) /\ TotalWeight(S) = SumFunctionOnSet(f, S)
      /\ TotalAmount(R) = SumFunctionOnSet(g1, R) /\ TotalAmount(S) = SumFunctionOnSet(g, S)
  BY DEF TotalWeight, TotalAmount, SumFunction, f, f1, g, g1
<1> QED  BY <1>1, <1>2, <1>3, <1>4

LEMMA TotalsLess ==
    ASSUME NEW S, IsFiniteSet(S), S \subseteq Txs, NEW R \in SUBSET S
    PROVE  TotalWeight(R) <= TotalWeight(S) /\ TotalAmount(R) <= TotalAmount(S)
<1> DEFINE f  == [u \in S |-> u.weight]
           f1 == [u \in R |-> u.weight]
           g  == [u \in S |-> u.amount]
           g1 == [u \in R |-> u.amount]
<1>1. /\ \A u \in S : f[u] \in Nat /\ g[u] \in Nat
      /\ \A u \in R : f[u] \in Int /\ f1[u] = f[u] /\ g[u] \in Int /\ g1[u] = g[u]
      /\ IsFiniteSet(R)
  <2>1. \A u \in S : u.weight \in Nat /\ u.amount \in Nat
    BY TxFields
  <2> QED  BY <2>1, FS_Subset
<1> HIDE DEF f, f1, g, g1
<1>2. /\ SumFunctionOnSet(f, R) <= SumFunctionOnSet(f, S)
      /\ SumFunctionOnSet(g, R) <= SumFunctionOnSet(g, S)
  BY <1>1, SumSubset
<1>3. /\ SumFunctionOnSet(f1, R) = SumFunctionOnSet(f, R)
      /\ SumFunctionOnSet(g1, R) = SumFunctionOnSet(g, R)
  BY <1>1, SumEqual
<1>4. /\ TotalWeight(R) = SumFunctionOnSet(f1, R) /\ TotalWeight(S) = SumFunctionOnSet(f, S)
      /\ TotalAmount(R) = SumFunctionOnSet(g1, R) /\ TotalAmount(S) = SumFunctionOnSet(g, S)
  BY DEF TotalWeight, TotalAmount, SumFunction, f, f1, g, g1
<1> QED  BY <1>2, <1>3, <1>4

LEMMA QueuedType ==
    ASSUME NEW S, IsFiniteSet(S), S \subseteq Txs, NEW a
    PROVE  /\ QueuedBy(S, a) \subseteq S /\ QueuedBy(S, a) \subseteq Txs
           /\ IsFiniteSet(QueuedBy(S, a))
BY FS_Subset DEF QueuedBy

LEMMA SignedKept ==
    ASSUME NEW old, NEW new, KeepsKeys(old, new), NEW t \in Txs, Signed(old, t)
    PROVE  Signed(new, t)
BY TxFields DEF KeepsKeys, Signed

\* Of distinct nonces, the transaction that fits at its own nonce is itself.
LEMMA RequeuedFits ==
    ASSUME NEW keys, NEW seen, NEW st \in LedgerState, NEW S \in SUBSET Txs,
           \A a \in Accounts : \A t, u \in QueuedBy(S, a) : t.nonce = u.nonce => t = u,
           NEW t \in Requeued(keys, seen, st, S)
    PROVE  /\ t \in S /\ Signed(keys, t) /\ Id(t) \notin seen
           /\ TotalAmount(Lead(st, S, t)) <= st.balances[t.sender]
<1>1. t \in S /\ t.sender \in Accounts /\ t.nonce \in Nat /\ t \in QueuedBy(S, t.sender)
  BY TxFields DEF Requeued, QueuedBy
<1>2. st.nonces[t.sender] \in Nat /\ st.nonces[t.sender] <= t.nonce
  BY <1>1 DEF Requeued, LedgerState
<1>3. t.nonce \in st.nonces[t.sender] .. t.nonce
  BY <1>1, <1>2
<1>4. \E u \in QueuedBy(S, t.sender) :
        /\ u.nonce = t.nonce /\ Signed(keys, u) /\ Id(u) \notin seen
        /\ TotalAmount(Lead(st, S, u)) <= st.balances[u.sender]
  BY <1>3 DEF Requeued
<1> QED  BY <1>1, <1>4

LEMMA DrainedOrder ==
    ASSUME NEW S, IsFiniteSet(S), S \subseteq Txs, NEW batch \in Drained(S)
    PROVE  /\ batch \in Seq(Txs) /\ Len(batch) \in Nat
           /\ \A i \in 1 .. Len(batch) : batch[i] \in S
           /\ \A t \in S : \E i \in 1 .. Len(batch) : batch[i] = t
           /\ \A i, j \in 1 .. Len(batch) : batch[i] = batch[j] => i = j
           /\ \A i, j \in 1 .. Len(batch) :
                batch[i].sender = batch[j].sender =>
                    (i < j <=> batch[i].nonce < batch[j].nonce)
<1> DEFINE n == Cardinality(S)
<1>1. n \in Nat /\ batch \in [1 .. n -> S]
  BY FS_CardinalityType DEF Drained
<1>2. batch \in Seq(Txs) /\ Len(batch) = n
  <2>1. batch \in Seq(Txs)
    BY DrainedType
  <2>2. DOMAIN batch = 1 .. Len(batch) /\ DOMAIN batch = 1 .. n /\ Len(batch) \in Nat
    BY <1>1, <2>1
  <2> HIDE DEF n
  <2> QED  BY <1>1, <2>1, <2>2
<1>3. \A i \in 1 .. n : /\ batch[i] \in S /\ batch[i].nonce \in Nat
                        /\ Rank[batch[i].sender] \in Nat
  BY <1>1, TxFields, AccountAssumption
<1>4. \A i, j \in 1 .. n : i < j =>
        \/ Rank[batch[i].sender] < Rank[batch[j].sender]
        \/ /\ batch[i].sender = batch[j].sender
           /\ batch[i].nonce < batch[j].nonce
  BY <1>1 DEF Drained
<1> HIDE DEF n
<1>5. ASSUME NEW i \in 1 .. n, NEW j \in 1 .. n, i < j
      PROVE  /\ batch[i] # batch[j]
             /\ batch[i].sender = batch[j].sender => batch[i].nonce < batch[j].nonce
  <2>1. Rank[batch[i].sender] \in Nat /\ batch[i].nonce \in Nat
    BY <1>3
  <2>2. \/ Rank[batch[i].sender] < Rank[batch[j].sender]
        \/ /\ batch[i].sender = batch[j].sender
           /\ batch[i].nonce < batch[j].nonce
    BY <1>4, <1>5
  <2>3. ~ (Rank[batch[i].sender] < Rank[batch[i].sender])
        /\ ~ (batch[i].nonce < batch[i].nonce)
    BY <2>1
  <2>4. batch[i] # batch[j]
    BY <2>2, <2>3
  <2>5. batch[i].sender = batch[j].sender => batch[i].nonce < batch[j].nonce
    BY <2>2, <2>3
  <2> QED  BY <2>4, <2>5
<1>6. \A i, j \in 1 .. n : i < j \/ j < i \/ i = j
  BY <1>1
<1>7. \A i, j \in 1 .. n : batch[i] = batch[j] => i = j
  BY <1>5, <1>6
<1>8. \A i, j \in 1 .. n : batch[i].sender = batch[j].sender =>
        (i < j <=> batch[i].nonce < batch[j].nonce)
  <2> SUFFICES ASSUME NEW i \in 1 .. n, NEW j \in 1 .. n,
                      batch[i].sender = batch[j].sender
               PROVE  i < j <=> batch[i].nonce < batch[j].nonce
    OBVIOUS
  <2>1. i < j => batch[i].nonce < batch[j].nonce
    BY <1>5
  <2>2. j < i => batch[j].nonce < batch[i].nonce
    BY <1>5
  <2>3. i = j => batch[i].nonce = batch[j].nonce
    OBVIOUS
  <2>4. batch[i].nonce \in Nat /\ batch[j].nonce \in Nat
    BY <1>3
  <2>5. i \in Nat /\ j \in Nat
    BY <1>1
  <2> QED  BY <2>1, <2>2, <2>3, <2>4, <2>5
<1>9. \A t \in S : \E i \in 1 .. n : batch[i] = t
  <2>1. batch \in Injection(1 .. n, S)
    BY <1>1, <1>7 DEF Injection, IsInjective
  <2>2. Cardinality(1 .. n) = n
    BY <1>1, FS_Interval
  <2>3. batch \in Surjection(1 .. n, S)
    BY <2>1, <2>2, FS_Injection DEF n
  <2> QED  BY <2>3 DEF Surjection
<1> QED  BY <1>1, <1>2, <1>3, <1>7, <1>8, <1>9

\* What some positions of the block move is the total of their transactions.
LEMMA BlockAmount ==
    ASSUME NEW bs \in Seq(Block), NEW P \in SUBSET Slots(bs),
           \A p, q \in P : TxAt(bs, p) = TxAt(bs, q) => p = q
    PROVE  AmountAt(bs, P) = TotalAmount({TxAt(bs, p) : p \in P})
<1> DEFINE R == {TxAt(bs, p) : p \in P}
           h == [p \in P |-> TxAt(bs, p)]
           f == [p \in P |-> TxAt(bs, p).amount]
           g == [t \in R |-> t.amount]
<1>0. IsFiniteSet(P) /\ \A p \in P : TxAt(bs, p).amount \in Nat
  BY PositionsFinite
<1>1. IsFiniteSet(P) /\ \A p \in P : f[p] \in Int
  BY <1>0
<1>2. h \in Bijection(P, R)
  BY DEF Bijection, Injection, Surjection, IsInjective
<1>3. \A p \in P : f[p] \in Int /\ g[h[p]] = f[p]
  BY <1>1
<1> HIDE DEF f, g, h, R
<1>4. SumFunctionOnSet(g, R) = SumFunctionOnSet(f, P)
  BY <1>1, <1>2, <1>3, SumRenamed
<1>5. TotalAmount(R) = SumFunctionOnSet(g, R) /\ AmountAt(bs, P) = SumFunctionOnSet(f, P)
  BY AmountAtSum DEF TotalAmount, SumFunction, f, g
<1> QED  BY <1>4, <1>5 DEF R

\* Admission asks for the nonce after the sender's run, which it extends.
LEMMA QueuedRun ==
    ASSUME NEW S, IsFiniteSet(S), S \subseteq Txs, NEW st \in LedgerState,
           NEW t \in Txs, NEW keys, NEW seen, ~ Refused(keys, seen, st, S, t),
           NEW a \in Accounts, IsRun(QueuedBy(S, a), st.nonces[a])
    PROVE  IsRun(QueuedBy(S \cup {t}, a), st.nonces[a])
<1> DEFINE Q == QueuedBy(S, a)
           n == st.nonces[a]
<1>1. t \notin S /\ t.nonce = st.nonces[t.sender] + Cardinality(QueuedBy(S, t.sender))
  BY DEF Refused, ExpectedNonce
<1>2. IsFiniteSet(Q) /\ t \notin Q
  BY <1>1, QueuedType DEF QueuedBy
<1>3. n \in Nat
  BY DEF LedgerState
<1>4. CASE t.sender # a
  <2>1. QueuedBy(S \cup {t}, a) = Q
    BY <1>4 DEF QueuedBy
  <2> QED  BY <2>1
<1>5. CASE t.sender = a
  <2>1. QueuedBy(S \cup {t}, a) = Q \cup {t}
    BY <1>5 DEF QueuedBy
  <2>2. t.nonce = n + Cardinality(Q)
    BY <1>1, <1>5
  <2>3. IsRun(Q, n)
    OBVIOUS
  <2> HIDE DEF Q, n
  <2>4. IsRun(Q \cup {t}, n)
    BY <1>2, <1>3, <2>2, <2>3, RunExtends
  <2> QED  BY <2>1, <2>4 DEF n
<1> QED  BY <1>4, <1>5

\* Admission asks for funds for all that is pending of the sender.
LEMMA QueuedFunded ==
    ASSUME NEW S, IsFiniteSet(S), S \subseteq Txs, NEW st \in LedgerState,
           NEW t \in Txs, NEW keys, NEW seen, ~ Refused(keys, seen, st, S, t),
           NEW a \in Accounts, TotalAmount(QueuedBy(S, a)) <= st.balances[a]
    PROVE  TotalAmount(QueuedBy(S \cup {t}, a)) <= st.balances[a]
<1> DEFINE Q == QueuedBy(S, a)
<1>1. t \notin S /\ Affordable(st, S, t)
  BY DEF Refused
<1>2. /\ IsFiniteSet(Q) /\ Q \subseteq Txs /\ t \notin Q
      /\ TotalAmount(Q) \in Nat /\ st.balances[a] \in Nat /\ t.amount \in Nat
  <2>1. IsFiniteSet(Q) /\ Q \subseteq Txs /\ Q \subseteq S
    BY QueuedType
  <2>2. TotalAmount(Q) \in Nat
    BY <2>1, TotalsType
  <2>3. st.balances[a] \in Nat
    BY AllocationAssumption DEF LedgerState
  <2> QED  BY <1>1, <2>1, <2>2, <2>3, TxFields
<1>3. CASE t.sender # a
  <2>1. QueuedBy(S \cup {t}, a) = Q
    BY <1>3 DEF QueuedBy
  <2> QED  BY <2>1
<1>4. CASE t.sender = a
  <2>1. QueuedBy(S \cup {t}, a) = Q \cup {t}
    BY <1>4 DEF QueuedBy
  <2>2. TotalAmount(Q \cup {t}) = TotalAmount(Q) + t.amount
    <3> HIDE DEF Q
    <3> QED  BY <1>2, TotalsAdd
  <2>3. t.amount <= st.balances[a] - TotalAmount(Q)
    BY <1>1, <1>2, <1>4 DEF Affordable
  <2>4. TotalAmount(QueuedBy(S \cup {t}, a)) = TotalAmount(Q) + t.amount
    BY <2>1, <2>2
  <2>5. TotalAmount(Q) \in Nat /\ st.balances[a] \in Nat /\ t.amount \in Nat
    BY <1>2
  <2> HIDE DEF Q
  <2> QED  BY <2>3, <2>4, <2>5
<1> QED  BY <1>3, <1>4

\* What is queued again is a run, and its last transaction was looked at with
\* all before it, so the account pays for the whole.
LEMMA RequeuedFunded ==
    ASSUME NEW keys, NEW seen, NEW st \in LedgerState, NEW S \in SUBSET Txs,
           IsFiniteSet(S), NEW a \in Accounts,
           \A c \in Accounts : \A t, u \in QueuedBy(S, c) : t.nonce = u.nonce => t = u
    PROVE  TotalAmount(QueuedBy(Requeued(keys, seen, st, S), a)) <= st.balances[a]
<1> DEFINE R == Requeued(keys, seen, st, S)
           Q == QueuedBy(R, a)
           n == st.nonces[a]
           k == Cardinality(Q)
<1>1. \A t \in R : TotalAmount(Lead(st, S, t)) <= st.balances[t.sender]
  BY RequeuedFits
<1>2. /\ Q \subseteq R /\ Q \subseteq Txs /\ IsFiniteSet(Q)
      /\ n \in Nat /\ st.balances[a] \in Nat /\ k \in Nat
  <2>1. R \subseteq S
    BY RequeuedSubset
  <2>2. IsFiniteSet(R) /\ R \subseteq Txs
    BY <2>1, FS_Subset
  <2>3. Q \subseteq R /\ Q \subseteq Txs /\ IsFiniteSet(Q)
    BY <2>2, QueuedType
  <2>4. n \in Nat /\ st.balances[a] \in Nat
    BY AllocationAssumption DEF LedgerState
  <2> QED  BY <2>3, <2>4, FS_CardinalityType
<1>3. {t.nonce : t \in Q} = n .. n + k - 1
  BY RequeuedIsRun DEF IsRun
<1>4. CASE Q = {}
  BY <1>2, <1>4, TotalsNone
<1>5. CASE Q # {}
  <2>1. k # 0
    BY <1>2, <1>5, FS_EmptySet
  <2>2. n + k - 1 \in n .. n + k - 1
    <3> HIDE DEF n, k
    <3> QED  BY <1>2, <2>1
  <2>3. PICK t \in Q : t.nonce = n + k - 1
    BY <1>3, <2>2
  <2>4. t \in R /\ t.sender = a
    <3>1. t.sender = a
      BY <2>3 DEF QueuedBy
    <3> HIDE DEF Q, R
    <3> QED  BY <1>2, <2>3, <3>1
  <2> DEFINE L == Lead(st, S, t)
  <2>5. TotalAmount(L) <= st.balances[a]
    BY <1>1, <2>4
  <2>6. Q \subseteq L
    <3>1. \A u \in Q : u.nonce \in n .. t.nonce
      BY <1>3, <2>3
    <3>2. \A u \in Q : u \in QueuedBy(S, t.sender)
      BY <2>4, RequeuedSubset DEF QueuedBy
    <3>3. st.nonces[t.sender] = n
      BY <2>4
    <3> HIDE DEF Q, n
    <3> QED  BY <3>1, <3>2, <3>3 DEF Lead
  <2>7. L \subseteq Txs /\ IsFiniteSet(L)
    <3>1. L \subseteq S
      BY DEF Lead, QueuedBy
    <3> QED  BY <3>1, FS_Subset
  <2> HIDE DEF Q, L
  <2>8. TotalAmount(Q) <= TotalAmount(L)
    BY <2>6, <2>7, TotalsLess
  <2>9. TotalAmount(Q) \in Nat /\ TotalAmount(L) \in Nat
    BY <1>2, <2>7, TotalsType
  <2>10. TotalAmount(Q) <= st.balances[a]
    BY <1>2, <2>5, <2>8, <2>9
  <2> QED  BY <2>10 DEF Q
<1> QED  BY <1>4, <1>5

-----------------------------------------------------------------------------
(***************************************************************************)
(* Clients that sign no two transactions with the same nonce.  A chain     *)
(* that grows can then overtake a pool only by what is in the pool.        *)
(***************************************************************************)
HonestClients == \A t, u \in Txs : t.sender = u.sender /\ t.nonce = u.nonce => t = u

\* A pool as admission builds it, over the state st of the chain.
Admitted(keys, st, S) ==
    /\ \A t \in S : t.sender # Mint /\ t.wellFormed /\ Signed(keys, t)
    /\ \A a \in Accounts : IsRun(QueuedBy(S, a), st.nonces[a])
    /\ \A a \in Accounts : TotalAmount(QueuedBy(S, a)) <= st.balances[a]

LEMMA AdmittedEmpty ==
    ASSUME NEW keys, NEW st \in LedgerState
    PROVE  Admitted(keys, st, {})
<1> SUFFICES ASSUME NEW a \in Accounts
             PROVE  /\ IsRun(QueuedBy({}, a), st.nonces[a])
                    /\ TotalAmount(QueuedBy({}, a)) <= st.balances[a]
  BY DEF Admitted
<1>1. QueuedBy({}, a) = {}
  BY DEF QueuedBy
<1>2. st.nonces[a] \in Nat /\ st.balances[a] \in Nat
  BY AllocationAssumption DEF LedgerState
<1> QED  BY <1>1, <1>2, RunEmpty, TotalsNone

LEMMA AdmittedMore ==
    ASSUME NEW S, IsFiniteSet(S), S \subseteq Txs, NEW st \in LedgerState,
           NEW old, NEW new, KeepsKeys(old, new), Admitted(old, st, S),
           NEW t \in Txs, NEW seen, ~ Refused(new, seen, st, S, t)
    PROVE  Admitted(new, st, S \cup {t})
<1>1. t.sender # Mint /\ t.wellFormed /\ Signed(new, t)
  BY DEF Refused
<1>2. \A u \in S : u.sender # Mint /\ u.wellFormed /\ Signed(new, u)
  BY SignedKept DEF Admitted
<1>3. \A a \in Accounts : IsRun(QueuedBy(S \cup {t}, a), st.nonces[a])
  BY QueuedRun DEF Admitted
<1>4. \A a \in Accounts : TotalAmount(QueuedBy(S \cup {t}, a)) <= st.balances[a]
  BY QueuedFunded DEF Admitted
<1> QED  BY <1>1, <1>2, <1>3, <1>4 DEF Admitted

LEMMA TotalsUnion ==
    ASSUME NEW S, IsFiniteSet(S), S \subseteq Txs, NEW R, IsFiniteSet(R), R \subseteq Txs,
           S \cap R = {}
    PROVE  TotalAmount(S \cup R) = TotalAmount(S) + TotalAmount(R)
<1> DEFINE f == [t \in S \cup R |-> t.amount]
           g == [t \in S |-> t.amount]
           h == [t \in R |-> t.amount]
<1>1. /\ \A t \in S : g[t] \in Int /\ f[t] = g[t]
      /\ \A t \in R : h[t] \in Int /\ f[t] = h[t]
  BY TxFields
<1>2. /\ TotalAmount(S \cup R) = SumFunctionOnSet(f, S \cup R)
      /\ TotalAmount(S) = SumFunctionOnSet(g, S) /\ TotalAmount(R) = SumFunctionOnSet(h, R)
  BY DEF TotalAmount, SumFunction
<1> HIDE DEF f, g, h
<1>3. SumFunctionOnSet(f, S) = SumFunctionOnSet(g, S)
  BY <1>1, SumEqual
<1>4. SumFunctionOnSet(f, R) = SumFunctionOnSet(h, R)
  BY <1>1, SumEqual
<1>5. \A t \in S \cup R : f[t] \in Int
  BY <1>1
<1>6. SumFunctionOnSet(f, S \cup R) = SumFunctionOnSet(f, S) + SumFunctionOnSet(f, R)
  BY <1>5, SumUnion
<1> QED  BY <1>2, <1>3, <1>4, <1>6

\* The nonces of an account on a chain are 0, 1, ... up to the next expected:
\* all are different and below it, and there are as many of them.
LEMMA NoncesOnChain ==
    ASSUME NEW bs \in Seq(Block), NEW keys, TransactionsApply(keys, {}, InitialState, bs),
           NEW a \in Accounts, a # Mint
    PROVE  LET P == SentBy(bs, Slots(bs), a)
               n == StateAfter(InitialState, bs).nonces[a]
           IN  /\ n \in Nat
               /\ \A p \in P : TxAt(bs, p).nonce \in 0 .. n - 1
               /\ \A p, q \in P : TxAt(bs, p).nonce = TxAt(bs, q).nonce => p = q
               /\ \A k \in 0 .. n - 1 : \E p \in P : TxAt(bs, p).nonce = k
<1> DEFINE P == SentBy(bs, Slots(bs), a)
           n == StateAfter(InitialState, bs).nonces[a]
           f == [p \in P |-> TxAt(bs, p).nonce]
<1>1. n = Cardinality(P)
  <2>1. n = NonceAfter(InitialState, bs, Slots(bs), a)
    BY DEF StateAfter
  <2>2. InitialState.nonces[a] = 0
    BY DEF InitialState
  <2>3. n = 0 + Cardinality(P)
    BY <2>1, <2>2 DEF NonceAfter
  <2>4. Cardinality(P) \in Nat
    <3>1. P \subseteq Slots(bs)
      BY SenderPositions
    <3> QED  BY <3>1, PositionsFinite, FS_CardinalityType
  <2> HIDE DEF P, n
  <2> QED  BY <2>3, <2>4
<1>2. P \subseteq Slots(bs) /\ IsFiniteSet(P) /\ n \in Nat
  <2>1. P \subseteq Slots(bs)
    BY SenderPositions
  <2>2. IsFiniteSet(P)
    BY <2>1, PositionsFinite
  <2> QED  BY <1>1, <2>1, <2>2, FS_CardinalityType
<1>3. Unique(bs, StateAfter(InitialState, bs).nonces)
  BY AppliedUnique, InitialStateType
<1>4. \A p \in P : TxAt(bs, p).sender = a /\ TxAt(bs, p).nonce \in Nat
  BY <1>2, SlotForm, TxFields DEF SentBy
<1>5. \A p \in P : TxAt(bs, p).nonce < n
  BY <1>2, <1>3, <1>4 DEF Unique
<1>6. \A p, q \in P : TxAt(bs, p).nonce = TxAt(bs, q).nonce => p = q
  BY <1>2, <1>3, <1>4 DEF Unique
<1> HIDE DEF P, n
<1>7. \A p \in P : TxAt(bs, p).nonce \in 0 .. n - 1
  BY <1>2, <1>4, <1>5
<1>8. f \in Injection(P, 0 .. n - 1)
  BY <1>6, <1>7 DEF Injection, IsInjective
<1>9. IsFiniteSet(0 .. n - 1) /\ Cardinality(0 .. n - 1) = n
  <2>1. /\ IsFiniteSet(0 .. n - 1)
        /\ Cardinality(0 .. n - 1) = IF 0 > n - 1 THEN 0 ELSE (n - 1) - 0 + 1
    BY <1>2, FS_Interval
  <2> QED  BY <1>2, <2>1
<1>10. f \in Surjection(P, 0 .. n - 1)
  <2> HIDE DEF f
  <2> QED  BY <1>1, <1>8, <1>9, FS_Injection
<1>11. \A k \in 0 .. n - 1 : \E p \in P : TxAt(bs, p).nonce = k
  BY <1>10 DEF Surjection
<1> QED  BY <1>2, <1>6, <1>7, <1>11 DEF P, n

\* cs holds what bs holds, at the same positions.
Prolongs(cs, bs) ==
    /\ Slots(bs) \subseteq Slots(cs)
    /\ \A p \in Slots(bs) : TxAt(cs, p) = TxAt(bs, p)

\* An account has at most lost what it has sent since.
LEMMA BalanceProlonged ==
    ASSUME NEW bs \in Seq(Block), NEW cs \in Seq(Block), Prolongs(cs, bs),
           NEW st \in LedgerState, NEW a \in Accounts, a # Mint
    PROVE  LET P == SentBy(bs, Slots(bs), a)
               Q == SentBy(cs, Slots(cs), a)
           IN  /\ P \subseteq Q /\ AmountAt(cs, Q \ P) \in Nat
               /\ StateAfter(st, bs).balances[a] \in Int
               /\ StateAfter(st, cs).balances[a] \in Int
               /\ StateAfter(st, bs).balances[a] - AmountAt(cs, Q \ P)
                    <= StateAfter(st, cs).balances[a]
<1> DEFINE P == SentBy(bs, Slots(bs), a)
           Q == SentBy(cs, Slots(cs), a)
           R == ReceivedBy(bs, Slots(bs), a)
           T == ReceivedBy(cs, Slots(cs), a)
<1>1. P \subseteq Q /\ R \subseteq T
  BY DEF Prolongs, SentBy, ReceivedBy
<1>2. /\ P \subseteq Slots(bs) /\ R \subseteq Slots(bs)
      /\ Q \subseteq Slots(cs) /\ T \subseteq Slots(cs)
      /\ P \subseteq Slots(cs) /\ Q \ P \subseteq Slots(cs)
  BY SenderPositions DEF Prolongs
<1>3. /\ \A p \in P : TxAt(cs, p) = TxAt(bs, p)
      /\ \A p \in R : TxAt(cs, p) = TxAt(bs, p)
  BY <1>2 DEF Prolongs
<1>4. /\ StateAfter(st, bs).balances[a] = st.balances[a] + AmountAt(bs, R) - AmountAt(bs, P)
      /\ StateAfter(st, cs).balances[a] = st.balances[a] + AmountAt(cs, T) - AmountAt(cs, Q)
  BY DEF StateAfter, BalanceAfter
<1>5. st.balances[a] \in Nat
  BY AllocationAssumption DEF LedgerState
<1> HIDE DEF P, Q, R, T
<1>6. /\ AmountAt(bs, P) \in Nat /\ AmountAt(bs, R) \in Nat /\ AmountAt(cs, Q \ P) \in Nat
      /\ AmountAt(cs, Q) \in Nat /\ AmountAt(cs, T) \in Nat
  BY <1>2, AmountAtType
<1>7. AmountAt(cs, P) = AmountAt(bs, P) /\ AmountAt(cs, R) = AmountAt(bs, R)
  BY <1>3, AmountAtSame
<1>8. AmountAt(cs, R) <= AmountAt(cs, T)
  BY <1>1, <1>2, AmountAtLess
<1>9. AmountAt(cs, Q) = AmountAt(cs, P) + AmountAt(cs, Q \ P)
  <2>1. P \cup (Q \ P) = Q /\ P \cap (Q \ P) = {}
    BY <1>1
  <2>2. AmountAt(cs, P \cup (Q \ P)) = AmountAt(cs, P) + AmountAt(cs, Q \ P)
    BY <1>2, <2>1, AmountAtUnion
  <2> QED  BY <2>1, <2>2
<1>10. StateAfter(st, bs).balances[a] \in Int /\ StateAfter(st, cs).balances[a] \in Int
  BY <1>4, <1>5, <1>6
<1>11. /\ AmountAt(bs, R) <= AmountAt(cs, T)
       /\ AmountAt(cs, Q) = AmountAt(bs, P) + AmountAt(cs, Q \ P)
  BY <1>7, <1>8, <1>9
<1>12. StateAfter(st, bs).balances[a] - AmountAt(cs, Q \ P) <= StateAfter(st, cs).balances[a]
  BY <1>4, <1>5, <1>6, <1>11
<1> QED  BY <1>1, <1>6, <1>10, <1>12 DEF P, Q

\* What an account has sent only grows.
LEMMA NoncesProlonged ==
    ASSUME NEW bs \in Seq(Block), NEW cs \in Seq(Block), Prolongs(cs, bs),
           NEW a \in Accounts, a # Mint
    PROVE  /\ StateAfter(InitialState, bs).nonces[a] \in Nat
           /\ StateAfter(InitialState, cs).nonces[a] \in Nat
           /\ StateAfter(InitialState, bs).nonces[a] <= StateAfter(InitialState, cs).nonces[a]
<1> DEFINE P == SentBy(bs, Slots(bs), a)
           Q == SentBy(cs, Slots(cs), a)
           n == StateAfter(InitialState, bs).nonces[a]
           m == StateAfter(InitialState, cs).nonces[a]
<1>1. n = 0 + Cardinality(P) /\ m = 0 + Cardinality(Q)
  BY DEF StateAfter, NonceAfter, InitialState
<1>2. P \subseteq Q
  BY DEF Prolongs, SentBy
<1>3. IsFiniteSet(Q)
  BY SenderPositions, PositionsFinite
<1> HIDE DEF n, m, P, Q
<1>4. Cardinality(P) \in Nat /\ Cardinality(Q) \in Nat /\ Cardinality(P) <= Cardinality(Q)
  BY <1>2, <1>3, FS_Subset, FS_CardinalityType
<1> QED  BY <1>1, <1>4 DEF n, m

\* What a growing chain has confirmed of a sender since the pool looked is, up
\* to any transaction still pending, the front of the sender's queue.
LEMMA ConfirmedWasPending ==
    ASSUME HonestClients, NEW bs \in Seq(Block), NEW cs \in Seq(Block), Prolongs(cs, bs),
           NEW k1, TransactionsApply(k1, {}, InitialState, bs),
           NEW k2, TransactionsApply(k2, {}, InitialState, cs),
           NEW S \in SUBSET Txs, IsFiniteSet(S), NEW t \in S, t.sender # Mint,
           IsRun(QueuedBy(S, t.sender), StateAfter(InitialState, bs).nonces[t.sender]),
           StateAfter(InitialState, cs).nonces[t.sender] <= t.nonce,
           NEW p \in SentBy(cs, Slots(cs), t.sender) \ SentBy(bs, Slots(bs), t.sender)
    PROVE  TxAt(cs, p) \in QueuedBy(S, t.sender)
<1> DEFINE a == t.sender
           P == SentBy(bs, Slots(bs), a)
           Q == SentBy(cs, Slots(cs), a)
           n == StateAfter(InitialState, bs).nonces[a]
           m == StateAfter(InitialState, cs).nonces[a]
           u == TxAt(cs, p)
           W == QueuedBy(S, a)
<1>1. a \in Accounts /\ t.nonce \in Nat /\ a # Mint /\ t \in W
  BY TxFields DEF QueuedBy
<1>2. u \in Txs /\ u.sender = a /\ u.nonce \in Nat
  BY SlotForm, TxFields DEF SentBy
<1>3. /\ m \in Nat /\ u.nonce \in 0 .. m - 1
      /\ \A q \in Q : TxAt(cs, q).nonce = u.nonce => q = p
  <2> HIDE DEF a
  <2>1. p \in Q
    BY DEF a
  <2> QED  BY <1>1, <2>1, NoncesOnChain
<1>4. /\ n \in Nat /\ \A k \in 0 .. n - 1 : \E q \in P : TxAt(bs, q).nonce = k
  <2> HIDE DEF a
  <2> QED  BY <1>1, NoncesOnChain
<1>5. \A q \in P : q \in Q /\ TxAt(cs, q) = TxAt(bs, q)
  BY DEF Prolongs, SentBy
<1>6. p \notin P
  OBVIOUS
<1> HIDE DEF P, Q
<1>7. u.nonce >= n
  <2>1. ASSUME u.nonce \in 0 .. n - 1 PROVE FALSE
    <3>1. PICK q \in P : TxAt(bs, q).nonce = u.nonce
      BY <1>4, <2>1
    <3> QED  BY <1>3, <1>5, <1>6, <3>1
  <2> HIDE DEF n, u
  <2> QED  BY <1>2, <1>4, <2>1
<1>8. \E v \in W : v.nonce = u.nonce
  <2>1. {w.nonce : w \in W} = n .. n + Cardinality(W) - 1
    BY DEF IsRun
  <2> DEFINE top == n + Cardinality(W) - 1
  <2>2. t.nonce \in n .. top
    BY <1>1, <2>1
  <2>3. m <= t.nonce
    OBVIOUS
  <2>5. top \in Int
    <3>1. Cardinality(W) \in Nat
      BY QueuedType, FS_CardinalityType
    <3> HIDE DEF W, n
    <3> QED  BY <1>4, <3>1
  <2> HIDE DEF W, n, m, u, top
  <2>4. u.nonce \in n .. top
    BY <1>1, <1>2, <1>3, <1>4, <1>7, <2>2, <2>3, <2>5
  <2> QED  BY <2>1, <2>4 DEF top
<1>9. PICK v \in W : v.nonce = u.nonce
  BY <1>8
<1>10. v \in Txs /\ v.sender = a
  BY DEF QueuedBy
<1>11. v = u
  BY <1>2, <1>9, <1>10 DEF HonestClients
<1> QED  BY <1>9, <1>11

\* Behind the nonce a chain expects, the transaction is the one on the chain.
LEMMA OvertakenIsConfirmed ==
    ASSUME HonestClients, NEW cs \in Seq(Block), NEW keys,
           TransactionsApply(keys, {}, InitialState, cs),
           NEW t \in Txs, t.sender # Mint,
           t.nonce < StateAfter(InitialState, cs).nonces[t.sender]
    PROVE  Id(t) \in Ids(cs)
<1> DEFINE a == t.sender
           n == StateAfter(InitialState, cs).nonces[a]
           Q == SentBy(cs, Slots(cs), a)
<1>1. a \in Accounts /\ t.nonce \in Nat /\ a # Mint /\ t.nonce < n
  BY TxFields
<1>2. n \in Nat /\ \A k \in 0 .. n - 1 : \E q \in Q : TxAt(cs, q).nonce = k
  <2> HIDE DEF a
  <2> QED  BY <1>1, NoncesOnChain
<1>3. t.nonce \in 0 .. n - 1
  <2> HIDE DEF n
  <2> QED  BY <1>1, <1>2
<1>4. PICK q \in Q : TxAt(cs, q).nonce = t.nonce
  BY <1>2, <1>3
<1>5. q \in Slots(cs) /\ TxAt(cs, q).sender = a
  BY DEF SentBy
<1>6. TxAt(cs, q) \in Txs
  BY <1>5, SlotForm
<1>7. TxAt(cs, q) = t
  BY <1>4, <1>5, <1>6 DEF HonestClients
<1> QED  BY <1>5, <1>7 DEF Ids

\* From the expected nonce on, nothing is on the chain yet.
LEMMA AheadIsFresh ==
    ASSUME NEW cs \in Seq(Block), NEW keys, TransactionsApply(keys, {}, InitialState, cs),
           NEW t \in Txs, t.sender # Mint,
           StateAfter(InitialState, cs).nonces[t.sender] <= t.nonce
    PROVE  Id(t) \notin Ids(cs)
<1> DEFINE a == t.sender
           n == StateAfter(InitialState, cs).nonces[a]
           Q == SentBy(cs, Slots(cs), a)
<1>1. a \in Accounts /\ t.nonce \in Nat /\ a # Mint /\ n <= t.nonce
  BY TxFields
<1>2. n \in Nat /\ \A q \in Q : TxAt(cs, q).nonce \in 0 .. n - 1
  <2> HIDE DEF a
  <2> QED  BY <1>1, NoncesOnChain
<1>3. ASSUME NEW q \in Slots(cs), Id(TxAt(cs, q)) = Id(t) PROVE FALSE
  <2>1. TxAt(cs, q).sender = a /\ TxAt(cs, q).nonce = t.nonce
    BY <1>3 DEF Id
  <2>2. q \in Q
    BY <2>1 DEF SentBy
  <2>3. t.nonce \in 0 .. n - 1
    BY <1>2, <2>1, <2>2
  <2> HIDE DEF n
  <2> QED  BY <1>1, <1>2, <2>3
<1> QED  BY <1>3 DEF Ids

\* What the sender still has to pay, once part of it is confirmed, is no more
\* than what it still has.
LEMMA LeadStaysFunded ==
    ASSUME HonestClients, NEW bs \in Seq(Block), NEW cs \in Seq(Block), Prolongs(cs, bs),
           NEW k1, TransactionsApply(k1, {}, InitialState, bs),
           NEW k2, TransactionsApply(k2, {}, InitialState, cs),
           NEW S \in SUBSET Txs, IsFiniteSet(S), NEW t \in S, t.sender # Mint,
           IsRun(QueuedBy(S, t.sender), StateAfter(InitialState, bs).nonces[t.sender]),
           StateAfter(InitialState, cs).nonces[t.sender] <= t.nonce,
           TotalAmount(QueuedBy(S, t.sender)) <= StateAfter(InitialState, bs).balances[t.sender],
           NEW L, L \subseteq Lead(StateAfter(InitialState, cs), S, t)
    PROVE  TotalAmount(L) <= StateAfter(InitialState, cs).balances[t.sender]
<1> DEFINE a == t.sender
           P == SentBy(bs, Slots(bs), a)
           Q == SentBy(cs, Slots(cs), a)
           D == Q \ P
           R == {TxAt(cs, p) : p \in D}
           W == QueuedBy(S, a)
           m == StateAfter(InitialState, cs).nonces[a]
           b == StateAfter(InitialState, bs).balances[a]
           c == StateAfter(InitialState, cs).balances[a]
<1>1. a \in Accounts /\ a # Mint
  BY TxFields
<1>2. W \subseteq Txs /\ IsFiniteSet(W)
  BY QueuedType
<1>3. R \subseteq W
  <2>1. \A p \in D : TxAt(cs, p) \in W
    BY ConfirmedWasPending
  <2> HIDE DEF D, W
  <2> QED  BY <2>1
<1>4. L \subseteq W /\ \A v \in L : v.nonce \in m .. t.nonce
  BY DEF Lead
<1>5. /\ m \in Nat /\ \A p \in Q : TxAt(cs, p).nonce \in 0 .. m - 1
      /\ \A p, q \in Q : TxAt(cs, p).nonce = TxAt(cs, q).nonce => p = q
  <2> HIDE DEF a
  <2> QED  BY <1>1, NoncesOnChain
<1>6. D \subseteq Slots(cs) /\ \A p, q \in D : TxAt(cs, p) = TxAt(cs, q) => p = q
  <2>1. Q \subseteq Slots(cs)
    BY SenderPositions
  <2> QED  BY <1>5, <2>1
<1>7. /\ b \in Int /\ c \in Int /\ AmountAt(cs, D) \in Nat /\ b - AmountAt(cs, D) <= c
  <2> HIDE DEF a
  <2> QED  BY <1>1, BalanceProlonged, InitialStateType
<1>8. TotalAmount(W) <= b
  OBVIOUS
<1>9. ASSUME NEW v \in L PROVE v \notin R
  <2>1. v.nonce \in m .. t.nonce
    BY <1>4
  <2>2. \A p \in D : TxAt(cs, p).nonce \in 0 .. m - 1
    BY <1>5
  <2>3. ASSUME NEW p \in D, v = TxAt(cs, p) PROVE FALSE
    <3>1. v.nonce \in 0 .. m - 1
      BY <2>2, <2>3
    <3> HIDE DEF m
    <3> QED  BY <1>5, <2>1, <3>1
  <2> HIDE DEF D
  <2> QED  BY <2>3
<1> HIDE DEF D, W, m, b, c
<1>10. AmountAt(cs, D) = TotalAmount(R)
  BY <1>6, BlockAmount
<1> HIDE DEF R
<1>11. /\ IsFiniteSet(L) /\ L \subseteq Txs /\ IsFiniteSet(R) /\ R \subseteq Txs
       /\ L \cap R = {} /\ L \cup R \in SUBSET W
  BY <1>2, <1>3, <1>4, <1>9, FS_Subset
<1>12. TotalAmount(L \cup R) = TotalAmount(L) + TotalAmount(R)
  BY <1>11, TotalsUnion
<1>13. TotalAmount(L \cup R) <= TotalAmount(W)
  BY <1>2, <1>11, TotalsLess
<1>14. TotalAmount(L) \in Nat /\ TotalAmount(W) \in Nat
  BY <1>2, <1>11, TotalsType
<1>15. TotalAmount(L) <= c
  BY <1>7, <1>8, <1>10, <1>12, <1>13, <1>14
<1> QED  BY <1>15 DEF c

\* A pool loses nothing to a longer chain but what the chain holds.
LEMMA NothingLost ==
    ASSUME HonestClients, NEW bs \in Seq(Block), NEW cs \in Seq(Block), Prolongs(cs, bs),
           NEW k1, TransactionsApply(k1, {}, InitialState, bs),
           NEW k2, TransactionsApply(k2, {}, InitialState, cs),
           NEW S \in SUBSET Txs, IsFiniteSet(S), NEW old, NEW new, KeepsKeys(old, new),
           Admitted(old, StateAfter(InitialState, bs), S), NEW t \in S
    PROVE  \/ Id(t) \in Ids(cs)
           \/ t \in Requeued(new, Ids(cs), StateAfter(InitialState, cs), S)
<1> DEFINE a == t.sender
           st == StateAfter(InitialState, bs)
           su == StateAfter(InitialState, cs)
           n == st.nonces[a]
           m == su.nonces[a]
           W == QueuedBy(S, a)
<1>1. a \in Accounts /\ t.nonce \in Nat /\ a # Mint /\ t \in W /\ t \in Txs
  BY TxFields DEF Admitted, QueuedBy
<1>2. /\ IsRun(W, n) /\ TotalAmount(W) <= st.balances[a]
  BY <1>1 DEF Admitted
<1>3. m \in Nat /\ n \in Nat /\ n <= m
  BY <1>1, NoncesProlonged
<1>4. CASE t.nonce < m
  BY <1>1, <1>4, OvertakenIsConfirmed
<1>5. CASE m <= t.nonce
  <2>1. ASSUME NEW k \in m .. t.nonce
        PROVE  \E u \in W : /\ u.nonce = k /\ Signed(new, u) /\ Id(u) \notin Ids(cs)
                            /\ TotalAmount(Lead(su, S, u)) <= su.balances[u.sender]
    <3>1. \E u \in W : u.nonce = k
      <4>1. {w.nonce : w \in W} = n .. n + Cardinality(W) - 1
        BY <1>2 DEF IsRun
      <4>2. Cardinality(W) \in Nat
        BY QueuedType, FS_CardinalityType
      <4> DEFINE top == n + Cardinality(W) - 1
      <4>3. top \in Int
        <5> HIDE DEF n, W
        <5> QED  BY <1>3, <4>2
      <4>4. t.nonce \in n .. top
        BY <1>1, <4>1
      <4> HIDE DEF n, m, W, top
      <4>5. k \in n .. top
        BY <1>1, <1>3, <4>3, <4>4
      <4> QED  BY <4>1, <4>5 DEF top
    <3>2. PICK u \in W : u.nonce = k
      BY <3>1
    <3>3. u \in S /\ u \in Txs /\ u.sender = a
      BY DEF QueuedBy
    <3>4. Signed(new, u)
      BY <3>3, SignedKept DEF Admitted
    <3>5. m <= u.nonce /\ k \in Nat /\ k <= t.nonce
      <4> HIDE DEF m
      <4> QED  BY <1>1, <1>3, <3>2
    <3>6. Id(u) \notin Ids(cs)
      BY <1>1, <3>3, <3>5, AheadIsFresh
    <3>7. TotalAmount(Lead(su, S, u)) <= su.balances[u.sender]
      <4>1. /\ u.sender # Mint /\ IsRun(QueuedBy(S, u.sender), st.nonces[u.sender])
            /\ su.nonces[u.sender] <= u.nonce
            /\ TotalAmount(QueuedBy(S, u.sender)) <= st.balances[u.sender]
        BY <1>1, <1>2, <3>3, <3>5
      <4> QED  BY <3>3, <4>1, LeadStaysFunded
    <3> QED  BY <3>2, <3>4, <3>6, <3>7
  <2>2. t \in Requeued(new, Ids(cs), su, S)
    <3> HIDE DEF su
    <3> QED  BY <1>5, <2>1 DEF Requeued
  <2> QED  BY <2>2
<1>6. t.nonce < m \/ m <= t.nonce
  <2> HIDE DEF m
  <2> QED  BY <1>1, <1>3
<1> QED  BY <1>4, <1>5, <1>6

\* What a pool keeps of what was admitted over one chain is what would be
\* admitted over the next.
LEMMA AdmittedAgain ==
    ASSUME NEW st \in LedgerState, NEW S \in SUBSET Txs, IsFiniteSet(S),
           NEW old, NEW before, Admitted(old, before, S), NEW new, NEW seen
    PROVE  Admitted(new, st, Requeued(new, seen, st, S))
<1>1. \A a \in Accounts : \A t, u \in QueuedBy(S, a) : t.nonce = u.nonce => t = u
  BY DEF Admitted, IsRun
<1>2. \A t \in Requeued(new, seen, st, S) : t \in S /\ Signed(new, t)
  BY <1>1, RequeuedFits
<1>3. ASSUME NEW a \in Accounts
      PROVE  IsRun(QueuedBy(Requeued(new, seen, st, S), a), st.nonces[a])
  BY <1>1, RequeuedIsRun
<1>4. ASSUME NEW a \in Accounts
      PROVE  TotalAmount(QueuedBy(Requeued(new, seen, st, S), a)) <= st.balances[a]
  BY <1>1, RequeuedFunded
<1>5. \A t \in Requeued(new, seen, st, S) : t.sender # Mint /\ t.wellFormed
  BY <1>2 DEF Admitted
<1> QED  BY <1>2, <1>3, <1>4, <1>5 DEF Admitted

\* A chain that is no shorter, with a pool that knows the transactions before t
\* in the queue of its sender, does not refuse t.
LEMMA InLineIsWelcome ==
    ASSUME HonestClients, NEW bs \in Seq(Block), NEW cs \in Seq(Block), Prolongs(cs, bs),
           NEW k1, TransactionsApply(k1, {}, InitialState, bs),
           NEW k2, TransactionsApply(k2, {}, InitialState, cs),
           NEW S \in SUBSET Txs, IsFiniteSet(S), NEW t \in S, t.sender # Mint,
           IsRun(QueuedBy(S, t.sender), StateAfter(InitialState, bs).nonces[t.sender]),
           TotalAmount(QueuedBy(S, t.sender)) <= StateAfter(InitialState, bs).balances[t.sender],
           NEW R \in SUBSET Txs, IsFiniteSet(R), NEW old,
           Admitted(old, StateAfter(InitialState, cs), R),
           \A u \in QueuedBy(S, t.sender) :
               u.nonce < t.nonce => u \in R \/ Id(u) \in Ids(cs),
           Id(t) \notin Ids(cs), \A u \in R : Id(u) # Id(t),
           NEW keys, Signed(keys, t), t.wellFormed
    PROVE  ~ Refused(keys, Ids(cs), StateAfter(InitialState, cs), R, t)
<1> DEFINE a == t.sender
           su == StateAfter(InitialState, cs)
           n == StateAfter(InitialState, bs).nonces[a]
           m == su.nonces[a]
           W == QueuedBy(S, a)
           V == QueuedBy(R, a)
           top == n + Cardinality(W) - 1
           end == m + Cardinality(V)
<1>1. a \in Accounts /\ t.nonce \in Nat /\ t.amount \in Nat /\ a # Mint /\ t \in W
  BY TxFields DEF QueuedBy
<1>2. /\ m \in Nat /\ n \in Nat /\ n <= m
      /\ su.balances[a] \in Nat
  <2>1. su \in LedgerState
    BY StateAfterType, InitialStateType
  <2> HIDE DEF a
  <2>2. su.balances[a] \in Nat
    BY <1>1, <2>1, AllocationAssumption DEF LedgerState
  <2> QED  BY <1>1, <2>2, NoncesProlonged
<1>3. Cardinality(W) \in Nat /\ Cardinality(V) \in Nat
  BY QueuedType, FS_CardinalityType
<1>4. {w.nonce : w \in W} = n .. top /\ {v.nonce : v \in V} = m .. end - 1
  <2>1. IsRun(W, n) /\ IsRun(V, m)
    BY <1>1 DEF Admitted
  <2> HIDE DEF W, V, n, m
  <2>2. {w.nonce : w \in W} = n .. n + Cardinality(W) - 1
    BY <2>1 DEF IsRun
  <2>3. {v.nonce : v \in V} = m .. m + Cardinality(V) - 1
    BY <2>1 DEF IsRun
  <2>4. m + Cardinality(V) - 1 = end - 1
    BY <1>2, <1>3
  <2> QED  BY <2>2, <2>3, <2>4
<1>5. m <= t.nonce
  <2>1. ASSUME t.nonce < m PROVE FALSE
    BY <2>1, OvertakenIsConfirmed
  <2> HIDE DEF m
  <2> QED  BY <1>1, <1>2, <2>1
<1>6. \A u \in S, v \in R : u.sender = v.sender /\ u.nonce = v.nonce => u = v
  BY DEF HonestClients
<1>7. t.nonce = end
  <2>1. ASSUME t.nonce \in m .. end - 1 PROVE FALSE
    <3>1. PICK v \in V : v.nonce = t.nonce
      BY <1>4, <2>1
    <3>2. v \in R /\ v.sender = t.sender
      BY DEF QueuedBy
    <3> QED  BY <1>6, <3>1, <3>2
  <2>2. ASSUME end < t.nonce PROVE FALSE
    <3>1. t.nonce \in n .. top
      BY <1>1, <1>4
    <3>2. end \in n .. top /\ end \notin m .. end - 1 /\ m <= end
      <4> HIDE DEF n, m, W, V
      <4> QED  BY <1>1, <1>2, <1>3, <2>2, <3>1
    <3>3. PICK u \in W : u.nonce = end
      BY <1>4, <3>2
    <3>4. u \in S /\ u \in Txs /\ u.sender = a
      BY DEF QueuedBy
    <3>5. u \in R \/ Id(u) \in Ids(cs)
      BY <2>2, <3>3
    <3>6. Id(u) \notin Ids(cs)
      BY <1>1, <3>2, <3>3, <3>4, AheadIsFresh
    <3>7. u \in V
      BY <3>4, <3>5, <3>6 DEF QueuedBy
    <3> QED  BY <1>4, <3>2, <3>3, <3>7
  <2>3. end \in Int
    <3> HIDE DEF m, V
    <3> QED  BY <1>2, <1>3
  <2> HIDE DEF m, end
  <2> QED  BY <1>1, <1>2, <1>5, <2>1, <2>2, <2>3
<1>8. V \cup {t} \subseteq Lead(su, S, t)
  <2>1. ASSUME NEW v \in V PROVE v \in W /\ v.nonce \in m .. t.nonce
    <3>1. v.nonce \in m .. end - 1
      BY <1>4, <2>1
    <3>2. t.nonce \in n .. top
      BY <1>1, <1>4
    <3>3. v.nonce \in n .. top /\ v.nonce \in m .. t.nonce
      <4> HIDE DEF n, m, W, V
      <4> QED  BY <1>1, <1>2, <1>3, <1>7, <3>1, <3>2
    <3>4. PICK w \in W : w.nonce = v.nonce
      BY <1>4, <3>3
    <3>5. w \in S /\ v \in R /\ w.sender = v.sender
      BY DEF QueuedBy
    <3> QED  BY <1>6, <3>3, <3>4, <3>5
  <2>2. t.nonce \in m .. t.nonce
    <3> HIDE DEF m
    <3> QED  BY <1>1, <1>2, <1>5
  <2> QED  BY <1>1, <2>1, <2>2 DEF Lead
<1>9. TotalAmount(V \cup {t}) <= su.balances[a]
  BY <1>5, <1>8, LeadStaysFunded
<1>10. V \subseteq Txs /\ IsFiniteSet(V) /\ t \notin V
  <2>1. t \notin V
    BY DEF QueuedBy
  <2> QED  BY <2>1, QueuedType
<1>11. TotalAmount(V \cup {t}) = TotalAmount(V) + t.amount /\ TotalAmount(V) \in Nat
  BY <1>10, TotalsAdd, TotalsType
<1>12. Affordable(su, R, t)
  <2> HIDE DEF V, su
  <2> QED  BY <1>1, <1>2, <1>9, <1>11 DEF Affordable, V
<1> QED  BY <1>7, <1>12 DEF Refused, ExpectedNonce
=============================================================================
