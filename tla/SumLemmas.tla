------------------------------- MODULE SumLemmas -------------------------------
(***************************************************************************)
(* Sums over finite sets, as SumFunctionOnSet of the module Functions      *)
(* defines them: an element chosen by CHOOSE is added to the sum of the    *)
(* others.  The lemmas say that the order does not matter, how a sum       *)
(* grows by an element, and that it is monotonic.  Induction is by least   *)
(* counterexample: a non-empty set of finite sets has a minimal one.       *)
(***************************************************************************)
EXTENDS Integers, FiniteSetsExt, FiniteSetTheorems, TLAPS

\* A non-empty set of natural numbers has a least element.
LEMMA LeastNatural ==
  ASSUME NEW B \in SUBSET Nat, B # {}
  PROVE  \E n \in B : \A m \in B : n <= m
<1> DEFINE D == {1 .. n : n \in B}
<1>1. IsWellFoundedOn(StrictSubsetOrdering(Nat), FiniteSubsetsOf(Nat))
  BY FS_StrictSubsetOrderingWellFounded
<1>2. D \subseteq FiniteSubsetsOf(Nat) /\ D # {}
  <2>1. \A n \in Nat : IsFiniteSet(1 .. n) /\ 1 .. n \in SUBSET Nat
    BY FS_Interval
  <2> QED BY <2>1 DEF FiniteSubsetsOf
<1>3. PICK d \in D : \A e \in D : <<e, d>> \notin StrictSubsetOrdering(Nat)
  BY <1>1, <1>2, WFMin
<1>4. PICK n \in B : d = 1 .. n
  OBVIOUS
<1>5. ASSUME NEW m \in B, m < n
      PROVE  FALSE
  <2>1. 1 .. m \subseteq 1 .. n /\ n \in 1 .. n /\ n \notin 1 .. m
    BY <1>5
  <2>2. <<1 .. m, 1 .. n>> \in StrictSubsetOrdering(Nat)
    BY <2>1 DEF StrictSubsetOrdering
  <2> QED BY <1>3, <1>4, <2>2
<1> QED BY <1>5

\* A non-empty set of subsets of a finite set has a minimal element.
LEMMA MinimalSet ==
  ASSUME NEW S, IsFiniteSet(S), NEW D \in SUBSET SUBSET S, D # {}
  PROVE  \E T \in D : \A U \in D : U \subseteq T => U = T
<1>1. IsWellFoundedOn(StrictSubsetOrdering(S), SUBSET S)
  BY FS_StrictSubsetOrderingWellFounded, FS_FiniteSubsetsOfFinite
<1>2. PICK T \in D : \A U \in D : <<U, T>> \notin StrictSubsetOrdering(S)
  BY <1>1, WFMin
<1> QED BY <1>2 DEF StrictSubsetOrdering

Chosen(s) == CHOOSE x \in s : TRUE

\* g sums f over every subset of S.
Sums(g, f, S) ==
  g = [s \in SUBSET S |-> IF s = {} THEN 0 ELSE f[Chosen(s)] + g[s \ {Chosen(s)}]]

LEMMA SumsExist ==
  ASSUME NEW S, IsFiniteSet(S), NEW f
  PROVE  \E g : Sums(g, f, S)
<1> DEFINE Small(n) == {s \in SUBSET S : Cardinality(s) <= n}
           P(n) == \E g : g = [s \in Small(n) |->
                                 IF s = {} THEN 0 ELSE f[Chosen(s)] + g[s \ {Chosen(s)}]]
           Bad == {n \in Nat : ~P(n)}
<1>1. \A s \in SUBSET S : IsFiniteSet(s) /\ Cardinality(s) \in Nat
  BY FS_Subset, FS_CardinalityType
<1>2. \A s \in SUBSET S : s # {} =>
        Chosen(s) \in s /\ Cardinality(s \ {Chosen(s)}) = Cardinality(s) - 1
  BY <1>1, FS_RemoveElement DEF Chosen
<1>3. SUFFICES Bad = {}
  <2>1. Cardinality(S) \in Nat
    BY <1>1
  <2>2. P(Cardinality(S))
    BY <1>3, <2>1
  <2>3. \A s \in SUBSET S : Cardinality(s) <= Cardinality(S)
    BY FS_Subset
  <2>4. Small(Cardinality(S)) = SUBSET S
    BY <2>3
  <2> QED BY <2>2, <2>4 DEF Sums
<1>4. P(0)
  <2>1. \A s \in Small(0) : s = {}
    BY <1>1, FS_EmptySet
  <2> WITNESS [s \in Small(0) |-> 0]
  <2> QED BY <2>1
<1>5. ASSUME NEW n \in Nat, P(n) PROVE P(n + 1)
  <2>1. PICK g : g = [s \in Small(n) |->
                        IF s = {} THEN 0 ELSE f[Chosen(s)] + g[s \ {Chosen(s)}]]
    BY <1>5
  <2> DEFINE h == [s \in Small(n + 1) |->
                     IF s = {} THEN 0 ELSE f[Chosen(s)] + g[s \ {Chosen(s)}]]
  <2>2. \A s \in Small(n + 1) : s # {} => s \ {Chosen(s)} \in Small(n)
    BY <1>1, <1>2
  <2>3. Small(n) \subseteq Small(n + 1)
    BY <1>1
  <2>4. \A s \in Small(n) : h[s] = g[s]
    BY <2>1, <2>3
  <2>5. \A s \in Small(n + 1) : s # {} => h[s \ {Chosen(s)}] = g[s \ {Chosen(s)}]
    BY <2>2, <2>4
  <2>6. h = [s \in Small(n + 1) |->
               IF s = {} THEN 0 ELSE f[Chosen(s)] + h[s \ {Chosen(s)}]]
    BY <2>5
  <2> QED BY <2>6
<1>6. SUFFICES ASSUME Bad # {} PROVE FALSE
  OBVIOUS
<1> HIDE DEF P
<1>7. PICK n \in Bad : \A m \in Bad : n <= m
  BY <1>6, LeastNatural
<1>8. n # 0 /\ n - 1 \in Nat
  BY <1>4, <1>7
<1>9. P(n - 1)
  BY <1>7, <1>8
<1> QED BY <1>5, <1>7, <1>8, <1>9

LEMMA SumsUnique ==
  ASSUME NEW S, IsFiniteSet(S), NEW T \in SUBSET S, NEW f, NEW g, NEW h,
         Sums(g, f, S), Sums(h, f, T)
  PROVE  g[T] = h[T]
<1> DEFINE D == {U \in SUBSET T : g[U] # h[U]}
<1>1. SUFFICES ASSUME D # {} PROVE FALSE
  OBVIOUS
<1>2. IsFiniteSet(T) /\ D \in SUBSET SUBSET T
  BY FS_Subset
<1>3. PICK U \in D : \A V \in D : V \subseteq U => V = U
  <2> HIDE DEF D
  <2> QED BY <1>1, <1>2, MinimalSet
<1>4. CASE U = {}
  BY <1>4, <1>3 DEF Sums
<1>5. CASE U # {}
  <2>1. Chosen(U) \in U
    BY <1>5 DEF Chosen
  <2>2. g[U \ {Chosen(U)}] = h[U \ {Chosen(U)}]
    BY <1>3, <2>1
  <2>3. g[U] = f[Chosen(U)] + g[U \ {Chosen(U)}]
    BY <1>3, <1>5 DEF Sums
  <2>4. h[U] = f[Chosen(U)] + h[U \ {Chosen(U)}]
    BY <1>3, <1>5 DEF Sums
  <2> QED BY <1>3, <2>2, <2>3, <2>4
<1> QED BY <1>4, <1>5

LEMMA SumDefined ==
  ASSUME NEW S, IsFiniteSet(S), NEW f
  PROVE  \E g : Sums(g, f, S) /\ SumFunctionOnSet(f, S) = g[S]
<1>1. SumFunctionOnSet(f, S) = (CHOOSE g : Sums(g, f, S))[S]
  BY DEF Sums, SumFunctionOnSet, FoldFunctionOnSet, MapThenFoldSet, Chosen
<1> QED BY <1>1, SumsExist

-----------------------------------------------------------------------------
(* What a sum is.                                                          *)

LEMMA SumEmpty == \A f : SumFunctionOnSet(f, {}) = 0
<1> SUFFICES ASSUME NEW f PROVE SumFunctionOnSet(f, {}) = 0
  OBVIOUS
<1>1. PICK g : Sums(g, f, {}) /\ SumFunctionOnSet(f, {}) = g[{}]
  BY SumDefined, FS_EmptySet
<1> QED BY <1>1 DEF Sums

LEMMA SumStep ==
  ASSUME NEW S, IsFiniteSet(S), S # {}, NEW f
  PROVE  /\ Chosen(S) \in S
         /\ SumFunctionOnSet(f, S) = f[Chosen(S)] + SumFunctionOnSet(f, S \ {Chosen(S)})
<1> DEFINE T == S \ {Chosen(S)}
<1>1. Chosen(S) \in S /\ T \in SUBSET S /\ IsFiniteSet(T)
  BY FS_Subset DEF Chosen
<1> HIDE DEF T
<1>2. PICK g : Sums(g, f, S) /\ SumFunctionOnSet(f, S) = g[S]
  BY SumDefined
<1>3. PICK h : Sums(h, f, T) /\ SumFunctionOnSet(f, T) = h[T]
  BY <1>1, SumDefined
<1>4. g[T] = h[T]
  BY <1>1, <1>2, <1>3, SumsUnique
<1>5. g[S] = f[Chosen(S)] + g[T]
  BY <1>2 DEF Sums, T
<1> QED BY <1>1, <1>2, <1>3, <1>4, <1>5 DEF T

\* Numbers, however restricted, if what is added is so.
LEMMA SumType ==
  ASSUME NEW S, IsFiniteSet(S), NEW f, NEW R \in {Nat, Int}, \A x \in S : f[x] \in R
  PROVE  SumFunctionOnSet(f, S) \in R
<1> DEFINE D == {U \in SUBSET S : SumFunctionOnSet(f, U) \notin R}
<1>1. SUFFICES ASSUME D # {} PROVE FALSE
  OBVIOUS
<1>2. PICK U \in D : \A V \in D : V \subseteq U => V = U
  <2>1. D \in SUBSET SUBSET S
    OBVIOUS
  <2> HIDE DEF D
  <2> QED BY <1>1, <2>1, MinimalSet
<1>3. IsFiniteSet(U) /\ U # {}
  <2>1. SumFunctionOnSet(f, {}) \in R
    BY SumEmpty
  <2>2. U # {}
    BY <1>2, <2>1
  <2>3. IsFiniteSet(U)
    BY <1>2, FS_Subset
  <2> QED BY <2>2, <2>3
<1>4. /\ Chosen(U) \in U
      /\ SumFunctionOnSet(f, U) = f[Chosen(U)] + SumFunctionOnSet(f, U \ {Chosen(U)})
  BY <1>3, SumStep
<1>5. SumFunctionOnSet(f, U \ {Chosen(U)}) \in R
  BY <1>2, <1>4
<1>6. f[Chosen(U)] \in R
  BY <1>2, <1>4
<1> QED BY <1>2, <1>4, <1>5, <1>6

\* Any element can be the first.
LEMMA SumRemove ==
  ASSUME NEW S, IsFiniteSet(S), NEW f, \A x \in S : f[x] \in Int, NEW x \in S
  PROVE  SumFunctionOnSet(f, S) = f[x] + SumFunctionOnSet(f, S \ {x})
<1> DEFINE Fine(U) == \A y \in U :
             SumFunctionOnSet(f, U) = f[y] + SumFunctionOnSet(f, U \ {y})
           D == {U \in SUBSET S : ~Fine(U)}
<1>1. SUFFICES ASSUME D # {} PROVE FALSE
  OBVIOUS
<1>2. PICK U \in D : \A V \in D : V \subseteq U => V = U
  <2>1. D \in SUBSET SUBSET S
    OBVIOUS
  <2> HIDE DEF D
  <2> QED BY <1>1, <2>1, MinimalSet
<1>3. PICK y \in U : SumFunctionOnSet(f, U) # f[y] + SumFunctionOnSet(f, U \ {y})
  BY <1>2
<1> DEFINE c == Chosen(U)
<1>4. IsFiniteSet(U) /\ U # {}
  BY <1>2, <1>3, FS_Subset
<1>5. c \in U /\ SumFunctionOnSet(f, U) = f[c] + SumFunctionOnSet(f, U \ {c})
  BY <1>4, SumStep
<1> HIDE DEF c
<1>6. c # y
  BY <1>3, <1>5
<1>7. Fine(U \ {c}) /\ Fine(U \ {y})
  BY <1>2, <1>3, <1>5
<1>8. /\ SumFunctionOnSet(f, U \ {c}) = f[y] + SumFunctionOnSet(f, (U \ {c}) \ {y})
      /\ SumFunctionOnSet(f, U \ {y}) = f[c] + SumFunctionOnSet(f, (U \ {y}) \ {c})
  BY <1>3, <1>5, <1>6, <1>7
<1>9. (U \ {c}) \ {y} = (U \ {y}) \ {c} /\ IsFiniteSet((U \ {y}) \ {c})
  BY <1>4, FS_Subset
<1>10. SumFunctionOnSet(f, (U \ {y}) \ {c}) \in Int
  <2>1. \A z \in (U \ {y}) \ {c} : f[z] \in Int
    BY <1>2
  <2> HIDE DEF Fine, D
  <2> QED BY <1>9, <2>1, SumType
<1>11. f[c] \in Int /\ f[y] \in Int
  BY <1>2, <1>3, <1>5
<1> HIDE DEF Fine, D
<1>12. SumFunctionOnSet(f, U \ {c}) = f[y] + SumFunctionOnSet(f, (U \ {y}) \ {c})
  BY <1>8, <1>9
<1>13. SumFunctionOnSet(f, U) = f[c] + (f[y] + SumFunctionOnSet(f, (U \ {y}) \ {c}))
  BY <1>5, <1>12
<1>14. f[y] + SumFunctionOnSet(f, U \ {y})
         = f[y] + (f[c] + SumFunctionOnSet(f, (U \ {y}) \ {c}))
  BY <1>8
<1> QED BY <1>3, <1>10, <1>11, <1>13, <1>14

LEMMA SumAdd ==
  ASSUME NEW S, IsFiniteSet(S), NEW f, NEW x, x \notin S, \A y \in S \cup {x} : f[y] \in Int
  PROVE  SumFunctionOnSet(f, S \cup {x}) = f[x] + SumFunctionOnSet(f, S)
<1>1. IsFiniteSet(S \cup {x}) /\ (S \cup {x}) \ {x} = S
  BY FS_AddElement
<1> QED BY <1>1, SumRemove

\* A sum over functions that are ordered is ordered.
LEMMA SumMonotonic ==
  ASSUME NEW S, IsFiniteSet(S), NEW f, NEW g,
         \A x \in S : f[x] \in Int /\ g[x] \in Int /\ f[x] <= g[x]
  PROVE  SumFunctionOnSet(f, S) <= SumFunctionOnSet(g, S)
<1> DEFINE D == {U \in SUBSET S : ~(SumFunctionOnSet(f, U) <= SumFunctionOnSet(g, U))}
<1>1. SUFFICES ASSUME D # {} PROVE FALSE
  OBVIOUS
<1>2. PICK U \in D : \A V \in D : V \subseteq U => V = U
  <2>1. D \in SUBSET SUBSET S
    OBVIOUS
  <2> HIDE DEF D
  <2> QED BY <1>1, <2>1, MinimalSet
<1>3. IsFiniteSet(U) /\ U # {}
  <2>1. SumFunctionOnSet(f, {}) = 0 /\ SumFunctionOnSet(g, {}) = 0
    BY SumEmpty
  <2>2. U # {}
    <3> SUFFICES ASSUME U = {} PROVE FALSE
      OBVIOUS
    <3>1. ~(SumFunctionOnSet(f, {}) <= SumFunctionOnSet(g, {}))
      BY <1>2
    <3> QED BY <2>1, <3>1
  <2>3. IsFiniteSet(U)
    BY <1>2, FS_Subset
  <2> QED BY <2>2, <2>3
<1> DEFINE c == Chosen(U)
           T == U \ {c}
<1>4. /\ c \in U
      /\ SumFunctionOnSet(f, U) = f[c] + SumFunctionOnSet(f, T)
      /\ SumFunctionOnSet(g, U) = g[c] + SumFunctionOnSet(g, T)
  BY <1>3, SumStep
<1>5. SumFunctionOnSet(f, T) <= SumFunctionOnSet(g, T)
  BY <1>2, <1>4
<1> HIDE DEF c
<1>6. IsFiniteSet(T) /\ \A x \in T : f[x] \in Int /\ g[x] \in Int
  BY <1>2, <1>3, FS_Subset
<1> HIDE DEF T
<1>7. SumFunctionOnSet(f, T) \in Int /\ SumFunctionOnSet(g, T) \in Int
  BY <1>6, SumType
<1>8. f[c] \in Int /\ g[c] \in Int /\ f[c] <= g[c]
  BY <1>2, <1>4
<1> QED BY <1>2, <1>4, <1>5, <1>7, <1>8

\* Only the values on the set count.
LEMMA SumEqual ==
  ASSUME NEW S, IsFiniteSet(S), NEW f, NEW g,
         \A x \in S : f[x] \in Int /\ f[x] = g[x]
  PROVE  SumFunctionOnSet(f, S) = SumFunctionOnSet(g, S)
<1>1. SumFunctionOnSet(f, S) \in Int /\ SumFunctionOnSet(g, S) \in Int
  BY SumType
<1>2. SumFunctionOnSet(f, S) <= SumFunctionOnSet(g, S)
  BY SumMonotonic
<1>3. SumFunctionOnSet(g, S) <= SumFunctionOnSet(f, S)
  BY SumMonotonic
<1> QED BY <1>1, <1>2, <1>3

\* The sum over a part of what is not negative.
LEMMA SumPart ==
  ASSUME NEW S, IsFiniteSet(S), NEW T \in SUBSET S, NEW f, \A x \in S : f[x] \in Nat
  PROVE  SumFunctionOnSet(f, T) <= SumFunctionOnSet(f, S)
<1> DEFINE D == {U \in SUBSET S : T \subseteq U /\ ~(SumFunctionOnSet(f, T) <= SumFunctionOnSet(f, U))}
<1>1. SUFFICES ASSUME D # {} PROVE FALSE
  OBVIOUS
<1>2. PICK U \in D : \A V \in D : V \subseteq U => V = U
  <2>1. D \in SUBSET SUBSET S
    OBVIOUS
  <2> HIDE DEF D
  <2> QED BY <1>1, <2>1, MinimalSet
<1>3. IsFiniteSet(T) /\ IsFiniteSet(U) /\ \A V \in SUBSET U : IsFiniteSet(V)
  BY <1>2, FS_Subset
<1>4. SumFunctionOnSet(f, T) \in Nat
  BY <1>3, SumType
<1>5. PICK x \in U : x \notin T
  BY <1>2, <1>4
<1>6. SumFunctionOnSet(f, U) = f[x] + SumFunctionOnSet(f, U \ {x})
  BY <1>2, <1>3, SumRemove
<1>7. SumFunctionOnSet(f, T) <= SumFunctionOnSet(f, U \ {x})
  BY <1>2, <1>5
<1>8. SumFunctionOnSet(f, U \ {x}) \in Nat /\ f[x] \in Nat
  <2>1. f[x] \in Nat /\ IsFiniteSet(U \ {x}) /\ \A y \in U \ {x} : f[y] \in Nat
    BY <1>2, <1>3
  <2> HIDE DEF D
  <2> QED BY <2>1, SumType
<1> QED BY <1>2, <1>4, <1>6, <1>7, <1>8

\* The sum over two sets that have nothing in common.
LEMMA SumUnion ==
  ASSUME NEW S, IsFiniteSet(S), NEW T, IsFiniteSet(T), S \cap T = {},
         NEW f, \A x \in S \cup T : f[x] \in Int
  PROVE  SumFunctionOnSet(f, S \cup T) = SumFunctionOnSet(f, S) + SumFunctionOnSet(f, T)
<1> DEFINE D == {U \in SUBSET T : SumFunctionOnSet(f, S \cup U)
                                   # SumFunctionOnSet(f, S) + SumFunctionOnSet(f, U)}
<1>1. SUFFICES ASSUME D # {} PROVE FALSE
  OBVIOUS
<1>2. PICK U \in D : \A V \in D : V \subseteq U => V = U
  <2>1. D \in SUBSET SUBSET T
    OBVIOUS
  <2> HIDE DEF D
  <2> QED BY <1>1, <2>1, MinimalSet
<1>3. SumFunctionOnSet(f, S) \in Int /\ IsFiniteSet(U)
  BY <1>2, SumType, FS_Subset
<1>4. PICK x \in U : TRUE
  <2> SUFFICES ASSUME U = {} PROVE FALSE
    OBVIOUS
  <2>1. SumFunctionOnSet(f, S \cup {}) # SumFunctionOnSet(f, S) + SumFunctionOnSet(f, {})
    BY <1>2
  <2>2. S \cup {} = S /\ SumFunctionOnSet(f, {}) = 0
    BY SumEmpty
  <2> QED BY <1>3, <2>1, <2>2
<1> DEFINE V == U \ {x}
<1>5. /\ x \in T /\ x \notin S /\ V \in SUBSET T /\ U = V \cup {x} /\ x \notin V
      /\ IsFiniteSet(V) /\ IsFiniteSet(S \cup V) /\ f[x] \in Int
      /\ \A y \in V : f[y] \in Int
  BY <1>2, <1>3, <1>4, FS_Subset, FS_Union
<1>6. SumFunctionOnSet(f, S \cup V) = SumFunctionOnSet(f, S) + SumFunctionOnSet(f, V)
  BY <1>2, <1>5
<1>7. SumFunctionOnSet(f, S \cup U)
        # SumFunctionOnSet(f, S) + SumFunctionOnSet(f, U)
  BY <1>2
<1> HIDE DEF D, V
<1>8. S \cup U = (S \cup V) \cup {x}
  BY <1>5
<1>9. SumFunctionOnSet(f, S \cup U) = f[x] + SumFunctionOnSet(f, S \cup V)
  <2>1. x \notin S \cup V /\ \A y \in (S \cup V) \cup {x} : f[y] \in Int
    BY <1>5
  <2>2. SumFunctionOnSet(f, (S \cup V) \cup {x}) = f[x] + SumFunctionOnSet(f, S \cup V)
    BY <1>5, <2>1, SumAdd
  <2> QED BY <1>8, <2>2
<1>10. SumFunctionOnSet(f, U) = f[x] + SumFunctionOnSet(f, V)
  <2>1. SumFunctionOnSet(f, V \cup {x}) = f[x] + SumFunctionOnSet(f, V)
    BY <1>5, SumAdd
  <2> QED BY <1>5, <2>1
<1>11. SumFunctionOnSet(f, V) \in Int
  BY <1>5, SumType
<1> QED BY <1>3, <1>5, <1>6, <1>7, <1>9, <1>10, <1>11
=============================================================================
