-------------------------------- MODULE Sums --------------------------------
(***************************************************************************)
(* What SumFunctionOnSet(f, S), the sum of f over a finite set S, does     *)
(* when S grows, when f changes, and what it is compared with.             *)
(***************************************************************************)
EXTENDS FiniteSetsExt, FiniteSetTheorems, TLAPS

\* A set of numbers has a least one.
LEMMA LeastNumber ==
  ASSUME NEW T, T \subseteq Nat, T # {}
  PROVE  \E n \in T : \A m \in T : n <= m
  <1>1. PICK n \in T : \A m \in T : ~ (<<m, n>> \in OpToRel(<, Nat))
    BY WFMin, NatLessThanWellFounded, Zenon
  <1>2. \A m \in T : ~(m < n)
    BY <1>1 DEF OpToRel
  <1>3. QED
    BY <1>2

\* A property of sets, given by the subsets of S that have it, is one of S
\* when a set has it as soon as the sets with one element less do.
LEMMA SubsetInduction ==
  ASSUME NEW S, IsFiniteSet(S), NEW Good,
         \A s \in SUBSET S : (\A x \in s : s \ {x} \in Good) => s \in Good
  PROVE  \A s \in SUBSET S : s \in Good
  <1> DEFINE Bad == {n \in Nat : \E s \in SUBSET S : Cardinality(s) = n /\ s \notin Good}
  <1>1. \A s \in SUBSET S : IsFiniteSet(s) /\ Cardinality(s) \in Nat
    BY FS_Subset, FS_CardinalityType
  <1>2. ASSUME Bad # {} PROVE FALSE
    <2>1. PICK n \in Bad : \A m \in Bad : n <= m
      <3> HIDE DEF Bad
      <3>1. Bad \subseteq Nat
        BY DEF Bad
      <3> QED
        BY <1>2, <3>1, LeastNumber
    <2>2. n \in Nat /\ ~(n - 1 \in Bad)
      <3> HIDE DEF Bad
      <3>1. n \in Nat
        BY DEF Bad
      <3> QED
        BY <2>1, <3>1
    <2>3. PICK s \in SUBSET S : Cardinality(s) = n /\ s \notin Good
      OBVIOUS
    <2>4. ASSUME NEW x \in s PROVE s \ {x} \in Good
      <3>1. Cardinality(s \ {x}) = n - 1
        BY <1>1, <2>3, FS_RemoveElement
      <3>2. s \ {x} \in SUBSET S /\ n - 1 \in Nat
        BY <1>1, <2>3, <3>1
      <3> QED
        BY <2>2, <3>1, <3>2
    <2> QED
      BY <2>3, <2>4
  <1> QED
    BY <1>1, <1>2

\* g sums f over the sets in D, as MapThenFoldSet does.
AddsOver(g, f, D) ==
    g = [s \in D |-> IF s = {} THEN 0
                     ELSE f[CHOOSE x \in s : TRUE] + g[s \ {CHOOSE x \in s : TRUE}]]

Summing(g, f, S) == AddsOver(g, f, SUBSET S)

\* The definition of the sum over S.
LEMMA SumIs ==
  ASSUME NEW f, NEW S
  PROVE  SumFunctionOnSet(f, S) = (CHOOSE g : Summing(g, f, S))[S]
  BY DEF SumFunctionOnSet, FoldFunctionOnSet, MapThenFoldSet, AddsOver, Summing

\* The recursion is sound ...
LEMMA SummingExists ==
  ASSUME NEW f, NEW S, IsFiniteSet(S)
  PROVE  \E g : Summing(g, f, S)
  <1> DEFINE Small(n) == {s \in SUBSET S : Cardinality(s) <= n}
             Bad == {n \in Nat : ~ \E g : AddsOver(g, f, Small(n))}
  <1>1. \A s \in SUBSET S : IsFiniteSet(s) /\ Cardinality(s) \in Nat
    BY FS_Subset, FS_CardinalityType
  <1>2. ASSUME Bad # {} PROVE FALSE
    <2>1. PICK n \in Bad : \A m \in Bad : n <= m
      <3> HIDE DEF Bad
      <3>1. Bad \subseteq Nat
        BY DEF Bad
      <3> QED
        BY <1>2, <3>1, LeastNumber
    <2>2. CASE n = 0
      <3>1. \A s \in Small(0) : s = {}
        BY <1>1, FS_EmptySet
      <3>2. AddsOver([s \in Small(0) |-> 0], f, Small(0))
        BY <3>1 DEF AddsOver
      <3> QED
        BY <2>2, <3>2
    <2>3. CASE n # 0
      <3>1. n - 1 \in Nat /\ n - 1 \notin Bad
        <4> HIDE DEF Bad
        <4>1. n \in Nat
          BY DEF Bad
        <4> QED
          BY <2>1, <2>3, <4>1
      <3>2. PICK g : AddsOver(g, f, Small(n - 1))
        BY <3>1
      <3> DEFINE h == [s \in Small(n) |-> IF s = {} THEN 0
                          ELSE f[CHOOSE x \in s : TRUE] + g[s \ {CHOOSE x \in s : TRUE}]]
      <3>3. ASSUME NEW s \in Small(n), s # {}
            PROVE  g[s \ {CHOOSE x \in s : TRUE}] = h[s \ {CHOOSE x \in s : TRUE}]
        <4> DEFINE c == CHOOSE x \in s : TRUE
        <4>1. c \in s
          BY <3>3
        <4> HIDE DEF c
        <4>2. Cardinality(s \ {c}) = Cardinality(s) - 1
          BY <1>1, <4>1, FS_RemoveElement
        <4>3. s \ {c} \in Small(n - 1) /\ s \ {c} \in Small(n)
          BY <1>1, <4>2
        <4>4. g[s \ {c}] = h[s \ {c}]
          BY <3>2, <4>3 DEF AddsOver
        <4> QED
          BY <4>4 DEF c
      <3>4. AddsOver(h, f, Small(n))
        <4> DEFINE After(e, s) == IF s = {} THEN 0
                     ELSE f[CHOOSE x \in s : TRUE] + e[s \ {CHOOSE x \in s : TRUE}]
        <4> HIDE DEF h
        <4>1. \A s \in Small(n) : After(g, s) = After(h, s)
          BY <3>3
        <4>2. h = [s \in Small(n) |-> After(g, s)]
          BY DEF h
        <4>3. h = [s \in Small(n) |-> After(h, s)]
          <5> HIDE DEF After, Small
          <5> QED
            BY <4>1, <4>2
        <4> QED
          BY <4>3 DEF AddsOver
      <3> QED
        BY <3>4
    <2> QED
      BY <2>2, <2>3
  <1>3. \E g : AddsOver(g, f, Small(Cardinality(S)))
    BY <1>1, <1>2
  <1>4. Small(Cardinality(S)) = SUBSET S
    BY FS_Subset
  <1> QED
    BY <1>3, <1>4 DEF Summing

\* ... and has one result.
LEMMA SummingUnique ==
  ASSUME NEW f, NEW S, IsFiniteSet(S), NEW T \in SUBSET S,
         NEW g, Summing(g, f, S), NEW h, Summing(h, f, T)
  PROVE  g[T] = h[T]
  <1> DEFINE Good == {s \in SUBSET T : g[s] = h[s]}
  <1>1. ASSUME NEW s \in SUBSET T, \A x \in s : s \ {x} \in Good
        PROVE  s \in Good
    <2>1. CASE s = {}
      BY <2>1 DEF AddsOver, Summing
    <2>2. CASE s # {}
      <3> DEFINE c == CHOOSE x \in s : TRUE
      <3>1. c \in s
        BY <2>2
      <3>2. g[s] = f[c] + g[s \ {c}] /\ h[s] = f[c] + h[s \ {c}]
        BY <2>2 DEF AddsOver, Summing
      <3> HIDE DEF c
      <3>3. g[s \ {c}] = h[s \ {c}]
        BY <1>1, <3>1
      <3> QED
        BY <3>2, <3>3
    <2> QED
      BY <2>1, <2>2
  <1>2. IsFiniteSet(T)
    BY FS_Subset
  <1>3. \A s \in SUBSET T : s \in Good
    <2> HIDE DEF Good
    <2> QED
      BY <1>1, <1>2, SubsetInduction
  <1> QED
    BY <1>3

LEMMA SumIsSumming ==
  ASSUME NEW f, NEW S, IsFiniteSet(S)
  PROVE  \E g : Summing(g, f, S) /\ SumFunctionOnSet(f, S) = g[S]
  <1>1. Summing(CHOOSE g : Summing(g, f, S), f, S)
    BY SummingExists
  <1> QED
    BY <1>1, SumIs

LEMMA SumIsRecursive ==
  ASSUME NEW f, NEW S, IsFiniteSet(S)
  PROVE  \A s \in SUBSET S :
           SumFunctionOnSet(f, s) =
             IF s = {} THEN 0
             ELSE f[CHOOSE x \in s : TRUE] + SumFunctionOnSet(f, s \ {CHOOSE x \in s : TRUE})
  <1>1. PICK g : Summing(g, f, S)
    BY SummingExists
  <1>2. ASSUME NEW s \in SUBSET S PROVE SumFunctionOnSet(f, s) = g[s]
    <2>1. IsFiniteSet(s)
      BY FS_Subset
    <2>2. PICK h : Summing(h, f, s) /\ SumFunctionOnSet(f, s) = h[s]
      BY <2>1, SumIsSumming
    <2>3. g[s] = h[s]
      BY <1>1, <2>2, SummingUnique
    <2> QED
      BY <2>2, <2>3
  <1>3. ASSUME NEW s \in SUBSET S, s # {}
        PROVE  SumFunctionOnSet(f, s) =
                 f[CHOOSE x \in s : TRUE] + SumFunctionOnSet(f, s \ {CHOOSE x \in s : TRUE})
    <2> DEFINE c == CHOOSE x \in s : TRUE
    <2>1. g[s] = f[c] + g[s \ {c}]
      BY <1>1, <1>3 DEF AddsOver, Summing
    <2> HIDE DEF c
    <2>2. SumFunctionOnSet(f, s) = f[c] + SumFunctionOnSet(f, s \ {c})
      BY <1>2, <2>1
    <2> QED
      BY <2>2 DEF c
  <1>4. SumFunctionOnSet(f, {}) = 0
    BY <1>1, <1>2 DEF AddsOver, Summing
  <1> QED
    BY <1>3, <1>4

-----------------------------------------------------------------------------
(* What the models use                                                     *)

Numeric(f, S) == \A x \in S : f[x] \in Int

LEMMA SumOfNothing == ASSUME NEW f PROVE SumFunctionOnSet(f, {}) = 0
  BY SumIsRecursive, FS_EmptySet

LEMMA SumIsInt ==
  ASSUME NEW f, NEW S, IsFiniteSet(S), Numeric(f, S)
  PROVE  SumFunctionOnSet(f, S) \in Int
  <1> DEFINE Good == {s \in SUBSET S : SumFunctionOnSet(f, s) \in Int}
  <1>1. ASSUME NEW s \in SUBSET S, \A x \in s : s \ {x} \in Good
        PROVE  s \in Good
    <2>1. CASE s = {}
      BY <2>1, SumOfNothing
    <2>2. CASE s # {}
      <3> DEFINE c == CHOOSE x \in s : TRUE
      <3>1. c \in s
        BY <2>2
      <3>2. SumFunctionOnSet(f, s) = f[c] + SumFunctionOnSet(f, s \ {c})
        BY <2>2, SumIsRecursive
      <3> HIDE DEF c
      <3>3. SumFunctionOnSet(f, s \ {c}) \in Int /\ f[c] \in Int
        BY <1>1, <3>1 DEF Numeric
      <3> QED
        BY <3>2, <3>3
    <2> QED
      BY <2>1, <2>2
  <1> HIDE DEF Good
  <1>2. \A s \in SUBSET S : s \in Good
    BY <1>1, SubsetInduction
  <1> QED
    BY <1>2 DEF Good

\* Any element may be taken out first.
LEMMA SumWithout ==
  ASSUME NEW f, NEW S, IsFiniteSet(S), Numeric(f, S), NEW e \in S
  PROVE  SumFunctionOnSet(f, S) = f[e] + SumFunctionOnSet(f, S \ {e})
  <1> DEFINE Good == {s \in SUBSET S : \A x \in s :
                        SumFunctionOnSet(f, s) = f[x] + SumFunctionOnSet(f, s \ {x})}
  <1>1. ASSUME NEW s \in SUBSET S, \A x \in s : s \ {x} \in Good
        PROVE  s \in Good
    <2> SUFFICES ASSUME NEW x \in s
                 PROVE  SumFunctionOnSet(f, s) = f[x] + SumFunctionOnSet(f, s \ {x})
      OBVIOUS
    <2> DEFINE c == CHOOSE y \in s : TRUE
    <2>1. c \in s
      OBVIOUS
    <2>2. SumFunctionOnSet(f, s) = f[c] + SumFunctionOnSet(f, s \ {c})
      BY SumIsRecursive
    <2> HIDE DEF c
    <2> DEFINE rest == s \ {c, x}
    <2>3. CASE c # x
      <3>1. SumFunctionOnSet(f, s \ {c}) = f[x] + SumFunctionOnSet(f, rest)
        <4>1. (s \ {c}) \ {x} = rest /\ x \in s \ {c}
          BY <2>3
        <4> QED
          BY <1>1, <2>1, <4>1
      <3>2. SumFunctionOnSet(f, s \ {x}) = f[c] + SumFunctionOnSet(f, rest)
        <4>1. (s \ {x}) \ {c} = rest /\ c \in s \ {x}
          BY <2>1, <2>3
        <4> QED
          BY <1>1, <4>1
      <3>3. SumFunctionOnSet(f, rest) \in Int /\ f[c] \in Int /\ f[x] \in Int
        BY SumIsInt, FS_Subset, <2>1 DEF Numeric
      <3> HIDE DEF rest
      <3> QED
        BY <2>2, <3>1, <3>2, <3>3
    <2> QED
      BY <2>2, <2>3
  <1>2. \A s \in SUBSET S : s \in Good
    <2> HIDE DEF Good
    <2> QED
      BY <1>1, SubsetInduction
  <1> QED
    BY <1>2

LEMMA SumWith ==
  ASSUME NEW f, NEW S, IsFiniteSet(S), NEW e, e \notin S, Numeric(f, S), f[e] \in Int
  PROVE  SumFunctionOnSet(f, S \cup {e}) = f[e] + SumFunctionOnSet(f, S)
  <1> DEFINE T == S \cup {e}
  <1>1. IsFiniteSet(T)
    BY FS_AddElement
  <1>2. Numeric(f, T) /\ e \in T /\ T \ {e} = S
    BY DEF Numeric
  <1> HIDE DEF T
  <1>3. SumFunctionOnSet(f, T) = f[e] + SumFunctionOnSet(f, T \ {e})
    BY <1>1, <1>2, SumWithout
  <1> QED
    BY <1>2, <1>3 DEF T

LEMMA SumOfOne ==
  ASSUME NEW f, NEW e, f[e] \in Int
  PROVE  SumFunctionOnSet(f, {e}) = f[e]
  <1>1. Numeric(f, {}) /\ IsFiniteSet({}) /\ {} \cup {e} = {e}
    BY FS_EmptySet DEF Numeric
  <1>2. SumFunctionOnSet(f, {} \cup {e}) = f[e] + SumFunctionOnSet(f, {})
    BY <1>1, SumWith
  <1> QED
    BY <1>1, <1>2, SumOfNothing

\* Only what f is on S matters.
LEMMA SumAgrees ==
  ASSUME NEW f, NEW g, NEW S, IsFiniteSet(S), \A x \in S : f[x] = g[x]
  PROVE  SumFunctionOnSet(f, S) = SumFunctionOnSet(g, S)
  <1> DEFINE Good == {s \in SUBSET S : SumFunctionOnSet(f, s) = SumFunctionOnSet(g, s)}
  <1>1. ASSUME NEW s \in SUBSET S, \A x \in s : s \ {x} \in Good
        PROVE  s \in Good
    <2>1. CASE s = {}
      BY <2>1, SumOfNothing
    <2>2. CASE s # {}
      <3> DEFINE c == CHOOSE x \in s : TRUE
      <3>1. c \in s
        BY <2>2
      <3>2. SumFunctionOnSet(f, s) = f[c] + SumFunctionOnSet(f, s \ {c})
        BY <2>2, SumIsRecursive
      <3>3. SumFunctionOnSet(g, s) = g[c] + SumFunctionOnSet(g, s \ {c})
        BY <2>2, SumIsRecursive
      <3> HIDE DEF c
      <3> QED
        BY <1>1, <3>1, <3>2, <3>3
    <2> QED
      BY <2>1, <2>2
  <1>2. \A s \in SUBSET S : s \in Good
    <2> HIDE DEF Good
    <2> QED
      BY <1>1, SubsetInduction
  <1> QED
    BY <1>2

\* A sum changes by what changes.
LEMMA SumChangesAt ==
  ASSUME NEW f, NEW g, NEW S, IsFiniteSet(S), Numeric(f, S), NEW e \in S, g[e] \in Int,
         \A x \in S \ {e} : f[x] = g[x]
  PROVE  SumFunctionOnSet(g, S) = SumFunctionOnSet(f, S) - f[e] + g[e]
  <1>1. Numeric(g, S) /\ Numeric(f, S \ {e}) /\ f[e] \in Int
    BY DEF Numeric
  <1>2. IsFiniteSet(S \ {e})
    BY FS_RemoveElement
  <1>3. SumFunctionOnSet(f, S) = f[e] + SumFunctionOnSet(f, S \ {e})
    BY SumWithout
  <1>4. SumFunctionOnSet(g, S) = g[e] + SumFunctionOnSet(g, S \ {e})
    BY <1>1, SumWithout
  <1>5. SumFunctionOnSet(f, S \ {e}) = SumFunctionOnSet(g, S \ {e})
    BY <1>2, SumAgrees
  <1>6. SumFunctionOnSet(f, S \ {e}) \in Int
    BY <1>1, <1>2, SumIsInt
  <1> QED
    BY <1>1, <1>3, <1>4, <1>5, <1>6

LEMMA SumIsNat ==
  ASSUME NEW f, NEW S, IsFiniteSet(S), \A x \in S : f[x] \in Nat
  PROVE  SumFunctionOnSet(f, S) \in Nat
  <1> DEFINE Good == {s \in SUBSET S : SumFunctionOnSet(f, s) \in Nat}
  <1>1. ASSUME NEW s \in SUBSET S, \A x \in s : s \ {x} \in Good
        PROVE  s \in Good
    <2>1. CASE s = {}
      BY <2>1, SumOfNothing
    <2>2. ASSUME NEW c \in s
          PROVE  s \in Good
      <3>1. SumFunctionOnSet(f, s) = f[c] + SumFunctionOnSet(f, s \ {c})
        BY SumWithout, FS_Subset DEF Numeric
      <3>2. SumFunctionOnSet(f, s \ {c}) \in Nat
        BY <1>1
      <3> QED
        BY <3>1, <3>2
    <2> QED
      BY <2>1, <2>2
  <1>2. \A s \in SUBSET S : s \in Good
    <2> HIDE DEF Good
    <2> QED
      BY <1>1, SubsetInduction
  <1> QED
    BY <1>2

LEMMA SumOfZeros ==
  ASSUME NEW f, NEW S, IsFiniteSet(S), \A x \in S : f[x] = 0
  PROVE  SumFunctionOnSet(f, S) = 0
  <1>1. Numeric(f, S)
    BY DEF Numeric
  <1> DEFINE Good == {s \in SUBSET S : SumFunctionOnSet(f, s) = 0}
  <1>2. ASSUME NEW s \in SUBSET S, \A x \in s : s \ {x} \in Good
        PROVE  s \in Good
    <2>1. CASE s = {}
      BY <2>1, SumOfNothing
    <2>2. ASSUME NEW c \in s
          PROVE  s \in Good
      <3>1. SumFunctionOnSet(f, s) = f[c] + SumFunctionOnSet(f, s \ {c})
        BY <1>1, SumWithout, FS_Subset DEF Numeric
      <3> QED
        BY <1>2, <3>1
    <2> QED
      BY <2>1, <2>2
  <1>3. \A s \in SUBSET S : s \in Good
    <2> HIDE DEF Good
    <2> QED
      BY <1>2, SubsetInduction
  <1> QED
    BY <1>3

\* Two sums are compared element by element.
LEMMA SumAtMost ==
  ASSUME NEW f, NEW g, NEW S, IsFiniteSet(S), Numeric(f, S), Numeric(g, S),
         \A x \in S : f[x] <= g[x]
  PROVE  SumFunctionOnSet(f, S) <= SumFunctionOnSet(g, S)
  <1> DEFINE Good == {s \in SUBSET S : SumFunctionOnSet(f, s) <= SumFunctionOnSet(g, s)}
  <1>1. ASSUME NEW s \in SUBSET S, \A x \in s : s \ {x} \in Good
        PROVE  s \in Good
    <2>1. CASE s = {}
      BY <2>1, SumOfNothing
    <2>2. ASSUME NEW c \in s
          PROVE  s \in Good
      <3>0. /\ IsFiniteSet(s) /\ IsFiniteSet(s \ {c}) /\ Numeric(f, s) /\ Numeric(g, s)
            /\ Numeric(f, s \ {c}) /\ Numeric(g, s \ {c})
        BY FS_Subset DEF Numeric
      <3>1. /\ SumFunctionOnSet(f, s) = f[c] + SumFunctionOnSet(f, s \ {c})
            /\ SumFunctionOnSet(g, s) = g[c] + SumFunctionOnSet(g, s \ {c})
        BY <3>0, SumWithout
      <3>2. SumFunctionOnSet(f, s \ {c}) <= SumFunctionOnSet(g, s \ {c})
        BY <1>1
      <3>3. /\ f[c] \in Int /\ g[c] \in Int /\ f[c] <= g[c]
            /\ SumFunctionOnSet(f, s \ {c}) \in Int /\ SumFunctionOnSet(g, s \ {c}) \in Int
        BY <3>0, SumIsInt DEF Numeric
      <3> QED
        BY <3>1, <3>2, <3>3
    <2> QED
      BY <2>1, <2>2
  <1>2. \A s \in SUBSET S : s \in Good
    <2> HIDE DEF Good
    <2> QED
      BY <1>1, SubsetInduction
  <1> QED
    BY <1>2

\* The sum over a set in two parts.
LEMMA SumInParts ==
  ASSUME NEW f, NEW S, IsFiniteSet(S), Numeric(f, S), NEW T, T \subseteq S
  PROVE  SumFunctionOnSet(f, S) = SumFunctionOnSet(f, T) + SumFunctionOnSet(f, S \ T)
  <1> DEFINE Good == {s \in SUBSET T : SumFunctionOnSet(f, S)
                        = SumFunctionOnSet(f, s) + SumFunctionOnSet(f, S \ s)}
  <1>0. IsFiniteSet(T) /\ SumFunctionOnSet(f, S) \in Int
    BY FS_Subset, SumIsInt
  <1>1. ASSUME NEW s \in SUBSET T, \A x \in s : s \ {x} \in Good
        PROVE  s \in Good
    <2>1. CASE s = {}
      <3>1. S \ s = S
        BY <2>1
      <3> QED
        BY <1>0, <2>1, <3>1, SumOfNothing
    <2>2. ASSUME NEW c \in s
          PROVE  s \in Good
      <3> DEFINE r == s \ {c}
                 q == S \ s
      <3>1. S \ r = q \cup {c} /\ c \notin q /\ c \in S
        OBVIOUS
      <3>2. IsFiniteSet(s) /\ IsFiniteSet(r) /\ IsFiniteSet(q)
        BY FS_Subset
      <3>3. Numeric(f, s) /\ Numeric(f, r) /\ Numeric(f, q) /\ f[c] \in Int
        BY DEF Numeric
      <3>4. SumFunctionOnSet(f, s) = f[c] + SumFunctionOnSet(f, r)
        BY <3>2, <3>3, SumWithout
      <3>5. SumFunctionOnSet(f, q \cup {c}) = f[c] + SumFunctionOnSet(f, q)
        <4> HIDE DEF q
        <4> QED
          BY <3>1, <3>2, <3>3, SumWith
      <3>6. SumFunctionOnSet(f, r) \in Int /\ SumFunctionOnSet(f, q) \in Int
        BY <3>2, <3>3, SumIsInt
      <3>7. SumFunctionOnSet(f, S) = SumFunctionOnSet(f, r) + SumFunctionOnSet(f, q \cup {c})
        BY <1>1, <3>1
      <3>8. SumFunctionOnSet(f, S) = SumFunctionOnSet(f, s) + SumFunctionOnSet(f, q)
        BY <3>3, <3>4, <3>5, <3>6, <3>7
      <3> QED
        BY <3>8
    <2> QED
      BY <2>1, <2>2
  <1>2. \A s \in SUBSET T : s \in Good
    <2> HIDE DEF Good
    <2> QED
      BY <1>0, <1>1, SubsetInduction
  <1> QED
    BY <1>2

Named(h, S) == {h[x] : x \in S}

\* Renaming what is summed does not change the sum.
LEMMA SumRenamed ==
  ASSUME NEW f, NEW g, NEW h, NEW S, IsFiniteSet(S), Numeric(f, S),
         \A x, y \in S : h[x] = h[y] => x = y,
         \A x \in S : g[h[x]] = f[x]
  PROVE  /\ IsFiniteSet(Named(h, S))
         /\ SumFunctionOnSet(g, Named(h, S)) = SumFunctionOnSet(f, S)
  <1> DEFINE Good == {s \in SUBSET S : /\ IsFiniteSet(Named(h, s))
                                       /\ SumFunctionOnSet(g, Named(h, s)) = SumFunctionOnSet(f, s)}
  <1>1. ASSUME NEW s \in SUBSET S, \A x \in s : s \ {x} \in Good
        PROVE  s \in Good
    <2>1. CASE s = {}
      <3>1. Named(h, s) = {}
        BY <2>1 DEF Named
      <3> QED
        BY <2>1, <3>1, SumOfNothing, FS_EmptySet
    <2>2. ASSUME NEW c \in s
          PROVE  s \in Good
      <3> DEFINE r == s \ {c}
      <3>1. IsFiniteSet(Named(h, r)) /\ SumFunctionOnSet(g, Named(h, r)) = SumFunctionOnSet(f, r)
        BY <1>1
      <3>2. /\ Named(h, s) = Named(h, r) \cup {h[c]} /\ h[c] \notin Named(h, r)
            /\ Numeric(g, Named(h, r)) /\ g[h[c]] = f[c] /\ f[c] \in Int
        BY DEF Numeric, Named
      <3>3. SumFunctionOnSet(f, s) = f[c] + SumFunctionOnSet(f, r)
        BY SumWithout, FS_Subset DEF Numeric
      <3> HIDE DEF r
      <3>4. IsFiniteSet(Named(h, r) \cup {h[c]})
        BY <3>1, FS_AddElement
      <3>5. SumFunctionOnSet(g, Named(h, r) \cup {h[c]}) = g[h[c]] + SumFunctionOnSet(g, Named(h, r))
        BY <3>1, <3>2, SumWith
      <3> QED
        BY <3>1, <3>2, <3>3, <3>4, <3>5
    <2> QED
      BY <2>1, <2>2
  <1>2. \A s \in SUBSET S : s \in Good
    <2> HIDE DEF Good
    <2> QED
      BY <1>1, SubsetInduction
  <1> QED
    BY <1>2

\* The sum of two functions.
LEMMA SumPlus ==
  ASSUME NEW f, NEW g, NEW h, NEW S, IsFiniteSet(S), Numeric(f, S), Numeric(g, S),
         \A x \in S : h[x] = f[x] + g[x]
  PROVE  SumFunctionOnSet(h, S) = SumFunctionOnSet(f, S) + SumFunctionOnSet(g, S)
  <1> DEFINE Good == {s \in SUBSET S : SumFunctionOnSet(h, s)
                        = SumFunctionOnSet(f, s) + SumFunctionOnSet(g, s)}
  <1>1. ASSUME NEW s \in SUBSET S, \A x \in s : s \ {x} \in Good
        PROVE  s \in Good
    <2>1. CASE s = {}
      BY <2>1, SumOfNothing
    <2>2. ASSUME NEW c \in s
          PROVE  s \in Good
      <3> DEFINE r == s \ {c}
      <3>0. /\ IsFiniteSet(s) /\ IsFiniteSet(r)
            /\ Numeric(f, s) /\ Numeric(g, s) /\ Numeric(h, s) /\ Numeric(f, r) /\ Numeric(g, r)
        BY FS_Subset DEF Numeric
      <3>1. /\ SumFunctionOnSet(f, s) = f[c] + SumFunctionOnSet(f, r)
            /\ SumFunctionOnSet(g, s) = g[c] + SumFunctionOnSet(g, r)
            /\ SumFunctionOnSet(h, s) = h[c] + SumFunctionOnSet(h, r)
        BY <3>0, SumWithout
      <3>2. SumFunctionOnSet(h, r) = SumFunctionOnSet(f, r) + SumFunctionOnSet(g, r)
        BY <1>1
      <3>3. /\ f[c] \in Int /\ g[c] \in Int /\ h[c] = f[c] + g[c]
            /\ SumFunctionOnSet(f, r) \in Int /\ SumFunctionOnSet(g, r) \in Int
        BY <3>0, SumIsInt DEF Numeric
      <3> QED
        BY <3>1, <3>2, <3>3
    <2> QED
      BY <2>1, <2>2
  <1>2. \A s \in SUBSET S : s \in Good
    <2> HIDE DEF Good
    <2> QED
      BY <1>1, SubsetInduction
  <1> QED
    BY <1>2

\* What h sends to a.
Fibre(h, S, a) == {x \in S : h[x] = a}

\* Summing by groups: the sums over the fibres of h add up.
LEMMA SumByFibres ==
  ASSUME NEW f, NEW h, NEW S, NEW A, NEW g, IsFiniteSet(S), IsFiniteSet(A), Numeric(f, S),
         \A x \in S : h[x] \in A,
         \A a \in A : g[a] = SumFunctionOnSet(f, Fibre(h, S, a))
  PROVE  SumFunctionOnSet(g, A) = SumFunctionOnSet(f, S)
  <1> DEFINE By(s) == [a \in A |-> SumFunctionOnSet(f, Fibre(h, s, a))]
             Good == {s \in SUBSET S : SumFunctionOnSet(By(s), A) = SumFunctionOnSet(f, s)}
  <1>1. ASSUME NEW s \in SUBSET S, \A x \in s : s \ {x} \in Good
        PROVE  s \in Good
    <2>1. CASE s = {}
      <3>1. \A a \in A : Fibre(h, s, a) = {}
        BY <2>1 DEF Fibre
      <3>2. \A a \in A : By(s)[a] = 0
        BY <3>1, SumOfNothing
      <3> HIDE DEF By
      <3> QED
        BY <2>1, <3>2, SumOfNothing, SumOfZeros
    <2>2. ASSUME NEW c \in s
          PROVE  s \in Good
      <3> DEFINE r == s \ {c}
                 u == By(r)
                 v == By(s)
      <3>1. IsFiniteSet(s) /\ IsFiniteSet(r) /\ Numeric(f, s) /\ Numeric(f, r) /\ f[c] \in Int
        BY FS_Subset DEF Numeric
      <3>2. \A a \in A : /\ Fibre(h, r, a) \subseteq r /\ c \notin Fibre(h, r, a)
                         /\ Fibre(h, s, a) = IF a = h[c] THEN Fibre(h, r, a) \cup {c}
                                             ELSE Fibre(h, r, a)
        BY DEF Fibre
      <3>3. \A a \in A : IsFiniteSet(Fibre(h, r, a)) /\ Numeric(f, Fibre(h, r, a))
        BY <3>1, <3>2, FS_Subset DEF Numeric
      <3>4. \A a \in A : u[a] \in Int
        BY <3>3, SumIsInt
      <3>5. \A a \in A \ {h[c]} : u[a] = v[a]
        BY <3>2
      <3>6. h[c] \in A /\ v[h[c]] = f[c] + u[h[c]] /\ v[h[c]] \in Int
        <4> PICK a \in A : a = h[c]
          OBVIOUS
        <4> DEFINE F == Fibre(h, r, a)
        <4>1. v[a] = SumFunctionOnSet(f, F \cup {c}) /\ u[a] = SumFunctionOnSet(f, F)
          BY <3>2
        <4>2. c \notin F /\ IsFiniteSet(F) /\ Numeric(f, F)
          BY <3>2, <3>3
        <4> HIDE DEF F, u, v, r
        <4>3. SumFunctionOnSet(f, F \cup {c}) = f[c] + SumFunctionOnSet(f, F)
          BY <3>1, <4>2, SumWith
        <4> QED
          BY <3>1, <3>4, <4>1, <4>3
      <3>7. SumFunctionOnSet(u, A) = SumFunctionOnSet(f, r)
        BY <1>1
      <3>8. SumFunctionOnSet(f, s) = f[c] + SumFunctionOnSet(f, r) /\ SumFunctionOnSet(f, r) \in Int
        BY <3>1, SumWithout, SumIsInt
      <3> HIDE DEF u, v, r
      <3>9. SumFunctionOnSet(v, A) = SumFunctionOnSet(u, A) - u[h[c]] + v[h[c]]
        BY <3>4, <3>5, <3>6, SumChangesAt DEF Numeric
      <3>10. SumFunctionOnSet(v, A) = SumFunctionOnSet(f, s)
        BY <3>1, <3>4, <3>6, <3>7, <3>8, <3>9
      <3> QED
        BY <3>10 DEF v
    <2> QED
      BY <2>1, <2>2
  <1>2. \A s \in SUBSET S : s \in Good
    <2> HIDE DEF Good
    <2> QED
      BY <1>1, SubsetInduction
  <1>3. SumFunctionOnSet(By(S), A) = SumFunctionOnSet(f, S)
    BY <1>2
  <1>4. \A a \in A : By(S)[a] = g[a]
    OBVIOUS
  <1> HIDE DEF By
  <1> QED
    BY <1>3, <1>4, SumAgrees

\* A set has as many elements as there are ones to sum over it.
LEMMA SumOfOnes ==
  ASSUME NEW f, NEW S, IsFiniteSet(S), \A x \in S : f[x] = 1
  PROVE  SumFunctionOnSet(f, S) = Cardinality(S)
  <1> DEFINE Good == {s \in SUBSET S : SumFunctionOnSet(f, s) = Cardinality(s)}
  <1>1. ASSUME NEW s \in SUBSET S, \A x \in s : s \ {x} \in Good
        PROVE  s \in Good
    <2>1. CASE s = {}
      BY <2>1, SumOfNothing, FS_EmptySet
    <2>2. ASSUME NEW c \in s
          PROVE  s \in Good
      <3>1. IsFiniteSet(s) /\ Numeric(f, s) /\ f[c] = 1
        BY FS_Subset DEF Numeric
      <3>2. SumFunctionOnSet(f, s) = f[c] + SumFunctionOnSet(f, s \ {c})
        BY <3>1, SumWithout
      <3>3. Cardinality(s \ {c}) = Cardinality(s) - 1 /\ Cardinality(s) \in Nat
        BY <3>1, FS_RemoveElement, FS_CardinalityType
      <3> QED
        BY <1>1, <3>1, <3>2, <3>3
    <2> QED
      BY <2>1, <2>2
  <1>2. \A s \in SUBSET S : s \in Good
    <2> HIDE DEF Good
    <2> QED
      BY <1>1, SubsetInduction
  <1> QED
    BY <1>2
=============================================================================
