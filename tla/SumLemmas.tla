----------------------------- MODULE SumLemmas -----------------------------
(***************************************************************************)
(* What SumFunctionOnSet, with which the models add up the counters of a   *)
(* trailing hour and the bytes of a tenant, returns for every finite set.  *)
(*                                                                         *)
(* The community modules define it by recursion over the subsets of a set, *)
(* in the order of a CHOOSE.  Each induction below is by a minimal         *)
(* counterexample: a family of subsets of a finite set has a least member. *)
(***************************************************************************)
EXTENDS Integers, Functions, FiniteSetTheorems, TLAPS

\* A family of subsets of a finite set has a member that contains no other.
LEMMA LeastSet ==
  ASSUME NEW S, IsFiniteSet(S), NEW F \in SUBSET SUBSET S, F # {}
  PROVE  \E T \in F : \A U \in F : U \subseteq T => U = T
<1> DEFINE R == StrictSubsetOrdering(S)
<1>1. IsWellFoundedOn(R, SUBSET S)
  BY FS_StrictSubsetOrderingWellFounded, FS_FiniteSubsetsOfFinite
<1>2. \E T \in F : \A U \in F : <<U, T>> \notin R
  <2> HIDE DEF R
  <2> QED
    BY <1>1, WFMin
<1> QED
  BY <1>2 DEF StrictSubsetOrdering

-----------------------------------------------------------------------------
(* The recursion is well defined *)

\* The element that the recursion takes first, and the rest.
FirstOf(s) == CHOOSE x \in s : TRUE
RestOf(s) == s \ {FirstOf(s)}

\* g adds up the subsets of S.
AddsUp(g, f, S) == g = [s \in SUBSET S |-> IF s = {} THEN 0 ELSE f[FirstOf(s)] + g[RestOf(s)]]

\* What it adds S up to.
Added(f, S) == (CHOOSE g : AddsUp(g, f, S))[S]

\* What is left after the first element is a smaller set.
LEMMA RestSmaller == ASSUME NEW s, s # {} PROVE FirstOf(s) \in s /\ RestOf(s) \subseteq s /\ RestOf(s) # s
BY DEF FirstOf, RestOf

\* Two functions that add up agree wherever both are defined.
LEMMA AddsUpOnce ==
  ASSUME NEW f, NEW S, NEW T, IsFiniteSet(S), NEW g, NEW h, AddsUp(g, f, S), AddsUp(h, f, T)
  PROVE  \A s \in SUBSET S : s \subseteq T => g[s] = h[s]
<1> DEFINE F == {s \in SUBSET S : s \subseteq T /\ g[s] # h[s]}
<1>1. ASSUME F # {} PROVE FALSE
  <2>1. PICK s \in F : \A u \in F : u \subseteq s => u = s
    <3> HIDE DEF F
    <3>1. F \in SUBSET SUBSET S
      BY DEF F
    <3> QED
      BY <1>1, <3>1, LeastSet
  <2>2. s \in SUBSET S /\ s \in SUBSET T
    OBVIOUS
  <2>3. g[s] = IF s = {} THEN 0 ELSE f[FirstOf(s)] + g[RestOf(s)]
    BY <2>2 DEF AddsUp
  <2>4. h[s] = IF s = {} THEN 0 ELSE f[FirstOf(s)] + h[RestOf(s)]
    BY <2>2 DEF AddsUp
  <2>5. s # {}
    BY <2>3, <2>4
  <2>6. RestOf(s) \notin F /\ RestOf(s) \in SUBSET S /\ RestOf(s) \subseteq T
    BY <2>1, <2>2, <2>5, RestSmaller
  <2>7. g[RestOf(s)] = h[RestOf(s)]
    BY <2>6
  <2> QED
    BY <2>3, <2>4, <2>7
<1> QED
  BY <1>1

\* Over every finite set something adds up.
LEMMA AddsUpExists == ASSUME NEW f, NEW S, IsFiniteSet(S) PROVE \E g : AddsUp(g, f, S)
<1> DEFINE F == {T \in SUBSET S : ~ \E g : AddsUp(g, f, T)}
<1>1. ASSUME F # {} PROVE FALSE
  <2>1. PICK T \in F : \A U \in F : U \subseteq T => U = T
    <3> HIDE DEF F
    <3>1. F \in SUBSET SUBSET S
      BY DEF F
    <3> QED
      BY <1>1, <3>1, LeastSet
  <2> DEFINE h == [s \in SUBSET T |-> IF s = {} THEN 0 ELSE f[FirstOf(s)] + Added(f, RestOf(s))]
  <2>2. ASSUME NEW u, u \subseteq T, u # T
        PROVE  AddsUp(CHOOSE g : AddsUp(g, f, u), f, u)
    <3>1. \E g : AddsUp(g, f, u)
      BY <2>1, <2>2
    <3> QED
      BY <3>1
  <2>3. ASSUME NEW s \in SUBSET T, s # T PROVE h[s] = Added(f, s)
    <3> DEFINE gs == CHOOSE g : AddsUp(g, f, s)
               gr == CHOOSE g : AddsUp(g, f, RestOf(s))
    <3>1. AddsUp(gs, f, s)
      BY <2>2, <2>3
    <3> HIDE DEF gs
    <3>2. gs[s] = IF s = {} THEN 0 ELSE f[FirstOf(s)] + gs[RestOf(s)]
      BY <3>1 DEF AddsUp
    <3>3. CASE s = {}
      BY <3>2, <3>3 DEF gs, Added
    <3>4. CASE s # {}
      <4>1. RestOf(s) \subseteq T /\ RestOf(s) # T /\ RestOf(s) \subseteq s
        BY <2>3, <3>4, RestSmaller
      <4>2. AddsUp(gr, f, RestOf(s))
        BY <2>2, <4>1
      <4>3. IsFiniteSet(s)
        BY <2>1, FS_Subset
      <4>4. gs[RestOf(s)] = gr[RestOf(s)]
        <5> HIDE DEF gr
        <5> QED
          BY <3>1, <4>1, <4>2, <4>3, AddsUpOnce
      <4>5. h[s] = f[FirstOf(s)] + gr[RestOf(s)]
        BY <3>4 DEF Added
      <4> QED
        BY <3>2, <3>4, <4>4, <4>5 DEF gs, Added
    <3> QED
      BY <3>3, <3>4
  <2>4. ASSUME NEW s \in SUBSET T, s # {} PROVE h[RestOf(s)] = Added(f, RestOf(s))
    <3>1. RestOf(s) \in SUBSET T /\ RestOf(s) # T
      BY <2>4, RestSmaller
    <3> HIDE DEF h
    <3> QED
      BY <2>3, <3>1
  <2>5. AddsUp(h, f, T)
    BY <2>4 DEF AddsUp
  <2> QED
    BY <2>1, <2>5
<1>2. S \notin F
  BY <1>1
<1> QED
  BY <1>2

-----------------------------------------------------------------------------
(* The sum *)

\* The sum of a finite set is what the recursion adds up.
LEMMA SumAddsUp ==
  ASSUME NEW f, NEW S, IsFiniteSet(S)
  PROVE  SumFunctionOnSet(f, S) = Added(f, S)
BY DEF SumFunctionOnSet, FoldFunctionOnSet, MapThenFoldSet, Added, AddsUp, FirstOf, RestOf

\* The recursion equation, for the sum itself.
LEMMA SumUnfolds ==
  ASSUME NEW f, NEW S, IsFiniteSet(S)
  PROVE  SumFunctionOnSet(f, S) = IF S = {} THEN 0 ELSE f[FirstOf(S)] + SumFunctionOnSet(f, RestOf(S))
<1> DEFINE g == CHOOSE g : AddsUp(g, f, S)
           h == CHOOSE h : AddsUp(h, f, RestOf(S))
<1>1. AddsUp(g, f, S)
  BY AddsUpExists
<1>2. SumFunctionOnSet(f, S) = g[S]
  BY SumAddsUp DEF Added
<1> HIDE DEF g
<1>3. g[S] = IF S = {} THEN 0 ELSE f[FirstOf(S)] + g[RestOf(S)]
  BY <1>1 DEF AddsUp
<1>4. CASE S = {}
  BY <1>2, <1>3, <1>4
<1>5. CASE S # {}
  <2>1. IsFiniteSet(RestOf(S)) /\ RestOf(S) \subseteq S
    BY <1>5, RestSmaller, FS_Subset
  <2>2. AddsUp(h, f, RestOf(S))
    BY <2>1, AddsUpExists
  <2>3. SumFunctionOnSet(f, RestOf(S)) = h[RestOf(S)]
    BY <2>1, SumAddsUp DEF Added
  <2> HIDE DEF h
  <2>4. g[RestOf(S)] = h[RestOf(S)]
    <3> DEFINE rest == RestOf(S)
    <3>1. AddsUp(h, f, rest)
      BY <2>2
    <3> HIDE DEF rest
    <3>2. \A s \in SUBSET S : s \subseteq rest => g[s] = h[s]
      BY <1>1, <3>1, AddsUpOnce
    <3>3. g[rest] = h[rest]
      BY <2>1, <3>2 DEF rest
    <3> QED
      BY <3>3 DEF rest
  <2> QED
    BY <1>2, <1>3, <1>5, <2>3, <2>4
<1> QED
  BY <1>4, <1>5

\* A sum of naturals is a natural.
LEMMA SumType ==
  ASSUME NEW D, NEW f \in [D -> Nat], NEW S \in SUBSET D, IsFiniteSet(S)
  PROVE  SumFunctionOnSet(f, S) \in Nat
<1> DEFINE F == {T \in SUBSET S : SumFunctionOnSet(f, T) \notin Nat}
<1>1. ASSUME F # {} PROVE FALSE
  <2>1. PICK T \in F : \A U \in F : U \subseteq T => U = T
    <3> HIDE DEF F
    <3>1. F \in SUBSET SUBSET S
      BY DEF F
    <3> QED
      BY <1>1, <3>1, LeastSet
  <2>2. IsFiniteSet(T) /\ T \subseteq S
    BY FS_Subset
  <2>3. SumFunctionOnSet(f, T) = IF T = {} THEN 0 ELSE f[FirstOf(T)] + SumFunctionOnSet(f, RestOf(T))
    BY <2>2, SumUnfolds
  <2>4. CASE T # {}
    <3>1. FirstOf(T) \in D /\ RestOf(T) \in SUBSET S /\ RestOf(T) \notin F
      BY <2>1, <2>2, <2>4, RestSmaller
    <3>2. SumFunctionOnSet(f, RestOf(T)) \in Nat /\ f[FirstOf(T)] \in Nat
      BY <3>1
    <3> QED
      BY <2>3, <2>4, <3>2
  <2> QED
    BY <2>3, <2>4
<1> QED
  BY <1>1

\* Nothing adds up to nothing.
LEMMA SumEmpty == \A f : SumFunctionOnSet(f, {}) = 0
<1>1. IsFiniteSet({})
  BY FS_EmptySet
<1> QED
  BY <1>1, SumUnfolds

\* Any element may be taken first.
LEMMA SumTakes ==
  ASSUME NEW D, NEW f \in [D -> Nat], NEW S \in SUBSET D, IsFiniteSet(S), NEW x \in S
  PROVE  SumFunctionOnSet(f, S) = f[x] + SumFunctionOnSet(f, S \ {x})
<1> DEFINE F == {T \in SUBSET S : \E y \in T : SumFunctionOnSet(f, T) # f[y] + SumFunctionOnSet(f, T \ {y})}
<1>1. ASSUME F # {} PROVE FALSE
  <2>1. PICK T \in F : \A U \in F : U \subseteq T => U = T
    <3> HIDE DEF F
    <3>1. F \in SUBSET SUBSET S
      BY DEF F
    <3> QED
      BY <1>1, <3>1, LeastSet
  <2>2. PICK y \in T : SumFunctionOnSet(f, T) # f[y] + SumFunctionOnSet(f, T \ {y})
    OBVIOUS
  <2>3. T \subseteq S /\ IsFiniteSet(T)
    BY FS_Subset
  <2> DEFINE c == FirstOf(T)
             both == T \ {c, y}
  <2>4. c \in T /\ SumFunctionOnSet(f, T) = f[c] + SumFunctionOnSet(f, T \ {c})
    BY <2>2, <2>3, SumUnfolds, RestSmaller DEF RestOf
  <2> HIDE DEF c
  <2>5. y # c
    BY <2>2, <2>4
  <2>6. T \ {c} \notin F /\ T \ {y} \notin F
    BY <2>1, <2>2, <2>3, <2>4
  <2>7. SumFunctionOnSet(f, T \ {c}) = f[y] + SumFunctionOnSet(f, (T \ {c}) \ {y})
    BY <2>2, <2>3, <2>5, <2>6
  <2>8. SumFunctionOnSet(f, T \ {y}) = f[c] + SumFunctionOnSet(f, (T \ {y}) \ {c})
    BY <2>3, <2>4, <2>5, <2>6
  <2>9. (T \ {c}) \ {y} = both /\ (T \ {y}) \ {c} = both
    OBVIOUS
  <2>10. SumFunctionOnSet(f, both) \in Nat /\ f[c] \in Nat /\ f[y] \in Nat
    <3>1. both \in SUBSET D /\ IsFiniteSet(both)
      BY <2>3, FS_Subset
    <3> HIDE DEF both
    <3> QED
      BY <2>3, <2>4, <3>1, SumType
  <2>11. /\ SumFunctionOnSet(f, T \ {c}) = f[y] + SumFunctionOnSet(f, both)
         /\ SumFunctionOnSet(f, T \ {y}) = f[c] + SumFunctionOnSet(f, both)
    BY <2>7, <2>8, <2>9
  <2> HIDE DEF both, F
  <2> QED
    BY <2>2, <2>4, <2>10, <2>11
<1>2. S \notin F
  BY <1>1
<1> QED
  BY <1>2

\* A function that is nowhere greater has no greater sum; one that agrees has the same.
LEMMA SumGrows ==
  ASSUME NEW D, NEW f \in [D -> Nat], NEW g \in [D -> Nat], NEW S \in SUBSET D, IsFiniteSet(S),
         \A x \in S : f[x] <= g[x]
  PROVE  SumFunctionOnSet(f, S) <= SumFunctionOnSet(g, S)
<1> DEFINE F == {T \in SUBSET S : ~ (SumFunctionOnSet(f, T) <= SumFunctionOnSet(g, T))}
<1>1. ASSUME F # {} PROVE FALSE
  <2>1. PICK T \in F : \A U \in F : U \subseteq T => U = T
    <3> HIDE DEF F
    <3>1. F \in SUBSET SUBSET S
      BY DEF F
    <3> QED
      BY <1>1, <3>1, LeastSet
  <2>2. T \subseteq S /\ IsFiniteSet(T) /\ IsFiniteSet(RestOf(T))
    BY FS_Subset DEF RestOf
  <2>3. /\ SumFunctionOnSet(f, T) = IF T = {} THEN 0 ELSE f[FirstOf(T)] + SumFunctionOnSet(f, RestOf(T))
        /\ SumFunctionOnSet(g, T) = IF T = {} THEN 0 ELSE g[FirstOf(T)] + SumFunctionOnSet(g, RestOf(T))
    BY <2>2, SumUnfolds
  <2>4. T # {}
    BY <2>3
  <2>5. FirstOf(T) \in S /\ RestOf(T) \subseteq S /\ RestOf(T) \notin F
    BY <2>1, <2>2, <2>4, RestSmaller
  <2>6. SumFunctionOnSet(f, RestOf(T)) <= SumFunctionOnSet(g, RestOf(T))
    BY <2>5
  <2>7. /\ SumFunctionOnSet(f, RestOf(T)) \in Nat /\ SumFunctionOnSet(g, RestOf(T)) \in Nat
        /\ f[FirstOf(T)] \in Nat /\ g[FirstOf(T)] \in Nat /\ f[FirstOf(T)] <= g[FirstOf(T)]
    BY <2>2, <2>5, SumType
  <2>8. ~ (SumFunctionOnSet(f, T) <= SumFunctionOnSet(g, T))
    OBVIOUS
  <2> HIDE DEF F
  <2> QED
    BY <2>3, <2>4, <2>6, <2>7, <2>8
<1>2. S \notin F
  BY <1>1
<1> QED
  BY <1>2

\* Functions that agree on a set have the same sum over it.
LEMMA SumSame ==
  ASSUME NEW D, NEW f \in [D -> Nat], NEW g \in [D -> Nat], NEW S \in SUBSET D, IsFiniteSet(S),
         \A x \in S : f[x] = g[x]
  PROVE  SumFunctionOnSet(f, S) = SumFunctionOnSet(g, S)
<1>1. \A x \in S : f[x] <= g[x] /\ g[x] <= f[x]
  OBVIOUS
<1>2. SumFunctionOnSet(f, S) <= SumFunctionOnSet(g, S) /\ SumFunctionOnSet(g, S) <= SumFunctionOnSet(f, S)
  BY <1>1, SumGrows
<1> QED
  BY <1>2, SumType

\* One counter that changes changes the sum by as much.
LEMMA SumOneChanges ==
  ASSUME NEW D, NEW f \in [D -> Nat], NEW g \in [D -> Nat], NEW S \in SUBSET D, IsFiniteSet(S), NEW x \in S,
         \A y \in S \ {x} : g[y] = f[y]
  PROVE  SumFunctionOnSet(g, S) = (SumFunctionOnSet(f, S) - f[x]) + g[x]
<1> DEFINE rest == S \ {x}
<1>1. rest \in SUBSET D /\ IsFiniteSet(rest)
  BY FS_Subset
<1>2. SumFunctionOnSet(f, S) = f[x] + SumFunctionOnSet(f, rest) /\ SumFunctionOnSet(g, S) = g[x] + SumFunctionOnSet(g, rest)
  BY SumTakes
<1> HIDE DEF rest
<1>3. \A y \in rest : f[y] = g[y]
  BY DEF rest
<1>4. SumFunctionOnSet(f, rest) = SumFunctionOnSet(g, rest) /\ SumFunctionOnSet(f, rest) \in Nat
  BY <1>1, <1>3, SumSame, SumType
<1>5. f[x] \in Nat /\ g[x] \in Nat
  OBVIOUS
<1> QED
  BY <1>2, <1>4, <1>5

\* Fewer counters have no greater sum.
LEMMA SumOfPart ==
  ASSUME NEW D, NEW f \in [D -> Nat], NEW S \in SUBSET D, IsFiniteSet(S), NEW P \in SUBSET S
  PROVE  SumFunctionOnSet(f, P) <= SumFunctionOnSet(f, S)
<1> DEFINE F == {T \in SUBSET S : P \subseteq T /\ ~ (SumFunctionOnSet(f, P) <= SumFunctionOnSet(f, T))}
<1>1. ASSUME F # {} PROVE FALSE
  <2>1. PICK T \in F : \A U \in F : U \subseteq T => U = T
    <3> HIDE DEF F
    <3>1. F \in SUBSET SUBSET S
      BY DEF F
    <3> QED
      BY <1>1, <3>1, LeastSet
  <2>2. T \subseteq S /\ P \subseteq T /\ IsFiniteSet(T) /\ ~ (SumFunctionOnSet(f, P) <= SumFunctionOnSet(f, T))
    BY FS_Subset
  <2>3. IsFiniteSet(P)
    BY FS_Subset
  <2>4. SumFunctionOnSet(f, P) \in Nat
    BY <2>3, SumType
  <2>5. T # P
    BY <2>2, <2>4
  <2>6. PICK x \in T : x \notin P
    BY <2>2, <2>5
  <2> DEFINE less == T \ {x}
  <2>7. SumFunctionOnSet(f, T) = f[x] + SumFunctionOnSet(f, less)
    BY <2>2, SumTakes
  <2>8. less \notin F /\ less \in SUBSET S /\ P \subseteq less /\ IsFiniteSet(less)
    BY <2>1, <2>2, <2>6, FS_Subset
  <2>9. SumFunctionOnSet(f, P) <= SumFunctionOnSet(f, less)
    BY <2>8
  <2>10. SumFunctionOnSet(f, less) \in Nat /\ f[x] \in Nat
    <3> HIDE DEF less
    <3> QED
      BY <2>2, <2>8, SumType
  <2> HIDE DEF less, F
  <2> QED
    BY <2>2, <2>4, <2>7, <2>9, <2>10
<1>2. S \notin F
  BY <1>1
<1> QED
  BY <1>2

\* Counters at zero do not count.
LEMMA SumIgnoresZeros ==
  ASSUME NEW D, NEW f \in [D -> Nat], NEW S \in SUBSET D, IsFiniteSet(S), NEW P \in SUBSET S,
         \A x \in S \ P : f[x] = 0
  PROVE  SumFunctionOnSet(f, P) = SumFunctionOnSet(f, S)
<1> DEFINE F == {T \in SUBSET S : P \subseteq T /\ SumFunctionOnSet(f, P) # SumFunctionOnSet(f, T)}
<1>1. ASSUME F # {} PROVE FALSE
  <2>1. PICK T \in F : \A U \in F : U \subseteq T => U = T
    <3> HIDE DEF F
    <3>1. F \in SUBSET SUBSET S
      BY DEF F
    <3> QED
      BY <1>1, <3>1, LeastSet
  <2>2. T \subseteq S /\ P \subseteq T /\ IsFiniteSet(T) /\ SumFunctionOnSet(f, P) # SumFunctionOnSet(f, T)
    BY FS_Subset
  <2>3. PICK x \in T : x \notin P
    BY <2>2
  <2> DEFINE less == T \ {x}
  <2>4. SumFunctionOnSet(f, T) = f[x] + SumFunctionOnSet(f, less)
    BY <2>2, SumTakes
  <2>5. less \notin F /\ less \in SUBSET S /\ P \subseteq less /\ IsFiniteSet(less)
    BY <2>1, <2>2, <2>3, FS_Subset
  <2>6. SumFunctionOnSet(f, P) = SumFunctionOnSet(f, less)
    BY <2>5
  <2>7. SumFunctionOnSet(f, less) \in Nat /\ f[x] = 0
    <3> HIDE DEF less
    <3> QED
      BY <2>2, <2>3, <2>5, SumType
  <2> HIDE DEF less, F
  <2> QED
    BY <2>2, <2>4, <2>6, <2>7
<1>2. S \notin F
  BY <1>1
<1> QED
  BY <1>2

\* Counters that are all within a bound add up to no more than that many times the bound.
LEMMA SumBounded ==
  ASSUME NEW D, NEW f \in [D -> Nat], NEW S \in SUBSET D, IsFiniteSet(S), NEW most \in Nat,
         \A x \in S : f[x] <= most
  PROVE  SumFunctionOnSet(f, S) <= Cardinality(S) * most
<1> DEFINE F == {T \in SUBSET S : ~ (SumFunctionOnSet(f, T) <= Cardinality(T) * most)}
<1>1. ASSUME F # {} PROVE FALSE
  <2>1. PICK T \in F : \A U \in F : U \subseteq T => U = T
    <3> HIDE DEF F
    <3>1. F \in SUBSET SUBSET S
      BY DEF F
    <3> QED
      BY <1>1, <3>1, LeastSet
  <2>2. T \subseteq S /\ IsFiniteSet(T) /\ IsFiniteSet(RestOf(T)) /\ ~ (SumFunctionOnSet(f, T) <= Cardinality(T) * most)
    BY FS_Subset DEF RestOf
  <2>3. SumFunctionOnSet(f, T) = IF T = {} THEN 0 ELSE f[FirstOf(T)] + SumFunctionOnSet(f, RestOf(T))
    BY <2>2, SumUnfolds
  <2>4. T # {}
    <3> SUFFICES ASSUME T = {} PROVE FALSE
      OBVIOUS
    <3>1. SumFunctionOnSet(f, T) = 0 /\ Cardinality(T) = 0 /\ 0 * most = 0
      BY <2>3, FS_EmptySet
    <3> HIDE DEF F
    <3> QED
      BY <2>2, <3>1
  <2>5. FirstOf(T) \in S /\ FirstOf(T) \in T /\ RestOf(T) \subseteq S /\ RestOf(T) \notin F
    BY <2>1, <2>2, <2>4, RestSmaller
  <2>6. SumFunctionOnSet(f, RestOf(T)) <= Cardinality(RestOf(T)) * most
    BY <2>5
  <2>7. Cardinality(RestOf(T)) = Cardinality(T) - 1 /\ Cardinality(T) \in Nat /\ Cardinality(RestOf(T)) \in Nat
    BY <2>2, <2>5, FS_RemoveElement, FS_CardinalityType DEF RestOf
  <2>8. Cardinality(T) * most = Cardinality(RestOf(T)) * most + most
    <3>1. \A n \in Nat : (n - 1) * most + most = n * most
      OBVIOUS
    <3> QED
      BY <2>7, <3>1
  <2>9. SumFunctionOnSet(f, RestOf(T)) \in Nat /\ f[FirstOf(T)] \in Nat /\ f[FirstOf(T)] <= most
    BY <2>2, <2>5, SumType
  <2>10. Cardinality(RestOf(T)) * most \in Nat
    BY <2>7
  <2> HIDE DEF F
  <2> QED
    BY <2>2, <2>3, <2>4, <2>6, <2>8, <2>9, <2>10
<1>2. S \notin F
  BY <1>1
<1> QED
  BY <1>2

-----------------------------------------------------------------------------
(* Sums of figures, which may be of either sign *)

\* A sum of integers is an integer.
LEMMA FiguresType ==
  ASSUME NEW f, NEW S, IsFiniteSet(S), \A x \in S : f[x] \in Int
  PROVE  SumFunctionOnSet(f, S) \in Int
<1> DEFINE F == {T \in SUBSET S : SumFunctionOnSet(f, T) \notin Int}
<1>1. ASSUME F # {} PROVE FALSE
  <2>1. PICK T \in F : \A U \in F : U \subseteq T => U = T
    <3> HIDE DEF F
    <3>1. F \in SUBSET SUBSET S
      BY DEF F
    <3> QED
      BY <1>1, <3>1, LeastSet
  <2>2. IsFiniteSet(T) /\ T \subseteq S
    BY FS_Subset
  <2>3. SumFunctionOnSet(f, T) = IF T = {} THEN 0 ELSE f[FirstOf(T)] + SumFunctionOnSet(f, RestOf(T))
    BY <2>2, SumUnfolds
  <2>4. CASE T # {}
    <3>1. FirstOf(T) \in S /\ RestOf(T) \in SUBSET S /\ RestOf(T) \notin F
      BY <2>1, <2>2, <2>4, RestSmaller
    <3>2. SumFunctionOnSet(f, RestOf(T)) \in Int /\ f[FirstOf(T)] \in Int
      BY <3>1
    <3> QED
      BY <2>3, <2>4, <3>2
  <2> QED
    BY <2>3, <2>4
<1> QED
  BY <1>1

\* Any element may be taken first.
LEMMA FiguresTake ==
  ASSUME NEW f, NEW S, IsFiniteSet(S), \A x \in S : f[x] \in Int, NEW x \in S
  PROVE  SumFunctionOnSet(f, S) = f[x] + SumFunctionOnSet(f, S \ {x})
<1> DEFINE F == {T \in SUBSET S : \E y \in T : SumFunctionOnSet(f, T) # f[y] + SumFunctionOnSet(f, T \ {y})}
<1>1. ASSUME F # {} PROVE FALSE
  <2>1. PICK T \in F : \A U \in F : U \subseteq T => U = T
    <3> HIDE DEF F
    <3>1. F \in SUBSET SUBSET S
      BY DEF F
    <3> QED
      BY <1>1, <3>1, LeastSet
  <2>2. PICK y \in T : SumFunctionOnSet(f, T) # f[y] + SumFunctionOnSet(f, T \ {y})
    OBVIOUS
  <2>3. T \subseteq S /\ IsFiniteSet(T)
    BY FS_Subset
  <2> DEFINE c == FirstOf(T)
             both == T \ {c, y}
  <2>4. c \in T /\ SumFunctionOnSet(f, T) = f[c] + SumFunctionOnSet(f, T \ {c})
    BY <2>2, <2>3, SumUnfolds, RestSmaller DEF RestOf
  <2> HIDE DEF c
  <2>5. y # c
    BY <2>2, <2>4
  <2>6. T \ {c} \notin F /\ T \ {y} \notin F
    BY <2>1, <2>2, <2>3, <2>4
  <2>7. SumFunctionOnSet(f, T \ {c}) = f[y] + SumFunctionOnSet(f, (T \ {c}) \ {y})
    BY <2>2, <2>3, <2>5, <2>6
  <2>8. SumFunctionOnSet(f, T \ {y}) = f[c] + SumFunctionOnSet(f, (T \ {y}) \ {c})
    BY <2>3, <2>4, <2>5, <2>6
  <2>9. (T \ {c}) \ {y} = both /\ (T \ {y}) \ {c} = both
    OBVIOUS
  <2>10. SumFunctionOnSet(f, both) \in Int /\ f[c] \in Int /\ f[y] \in Int
    <3>1. both \in SUBSET S /\ IsFiniteSet(both)
      BY <2>3, FS_Subset
    <3> HIDE DEF both
    <3> QED
      BY <2>3, <2>4, <3>1, FiguresType
  <2>11. /\ SumFunctionOnSet(f, T \ {c}) = f[y] + SumFunctionOnSet(f, both)
         /\ SumFunctionOnSet(f, T \ {y}) = f[c] + SumFunctionOnSet(f, both)
    BY <2>7, <2>8, <2>9
  <2> HIDE DEF both, F
  <2> QED
    BY <2>2, <2>4, <2>10, <2>11
<1>2. S \notin F
  BY <1>1
<1> QED
  BY <1>2

\* One element more.
LEMMA FiguresAdd ==
  ASSUME NEW f, NEW S, IsFiniteSet(S), NEW x, x \notin S, \A y \in S \cup {x} : f[y] \in Int
  PROVE  SumFunctionOnSet(f, S \cup {x}) = f[x] + SumFunctionOnSet(f, S)
<1> DEFINE more == S \cup {x}
<1>1. IsFiniteSet(more) /\ x \in more /\ more \ {x} = S
  BY FS_AddElement
<1> HIDE DEF more
<1>2. \A y \in more : f[y] \in Int
  BY DEF more
<1>3. SumFunctionOnSet(f, more) = f[x] + SumFunctionOnSet(f, more \ {x})
  BY <1>1, <1>2, FiguresTake
<1> QED
  BY <1>1, <1>3 DEF more

\* Figures under other names have the same sum.
LEMMA FiguresRenamed ==
  ASSUME NEW f, NEW S, IsFiniteSet(S), NEW g, NEW h,
         \A x \in S : f[x] \in Int /\ g[h[x]] = f[x],
         \A x, y \in S : h[x] = h[y] => x = y
  PROVE  /\ IsFiniteSet({h[x] : x \in S})
         /\ SumFunctionOnSet(g, {h[x] : x \in S}) = SumFunctionOnSet(f, S)
<1> DEFINE Named(T) == {h[x] : x \in T}
           Same(T) == IsFiniteSet(Named(T)) /\ SumFunctionOnSet(g, Named(T)) = SumFunctionOnSet(f, T)
           F == {T \in SUBSET S : ~ Same(T)}
<1>1. ASSUME F # {} PROVE FALSE
  <2>1. PICK T \in F : \A U \in F : U \subseteq T => U = T
    <3> HIDE DEF F
    <3>1. F \in SUBSET SUBSET S
      BY DEF F
    <3> QED
      BY <1>1, <3>1, LeastSet
  <2>2. IsFiniteSet(T) /\ T \subseteq S
    BY FS_Subset
  <2>3. T # {}
    <3>1. Named({}) = {}
      OBVIOUS
    <3>2. Same({})
      BY <3>1, FS_EmptySet, SumEmpty
    <3> QED
      BY <2>1, <3>2
  <2>4. PICK x \in T : TRUE
    BY <2>3
  <2> DEFINE less == T \ {x}
  <2>5. Same(less)
    <3>1. less \subseteq T /\ less # T /\ less \in SUBSET S
      BY <2>2, <2>4
    <3> QED
      BY <2>1, <3>1
  <2>6. Named(T) = Named(less) \cup {h[x]}
    BY <2>4
  <2>7. h[x] \notin Named(less)
    BY <2>2, <2>4
  <2>8. IsFiniteSet(less) /\ x \notin less /\ less \cup {x} = T
    BY <2>2, <2>4, FS_RemoveElement
  <2>9. \A y \in less \cup {x} : f[y] \in Int
    BY <2>2, <2>8
  <2>10. \A y \in Named(less) \cup {h[x]} : g[y] \in Int
    BY <2>2, <2>4
  <2>11. f[x] = g[h[x]]
    BY <2>2, <2>4
  <2> DEFINE names == Named(less)
  <2>12. IsFiniteSet(names) /\ SumFunctionOnSet(g, names) = SumFunctionOnSet(f, less)
    BY <2>5
  <2>13. h[x] \notin names /\ Named(T) = names \cup {h[x]} /\ \A y \in names \cup {h[x]} : g[y] \in Int
    BY <2>6, <2>7, <2>10
  <2> HIDE DEF names, less
  <2>14. SumFunctionOnSet(f, less \cup {x}) = f[x] + SumFunctionOnSet(f, less)
    BY <2>8, <2>9, FiguresAdd
  <2>15. SumFunctionOnSet(g, names \cup {h[x]}) = g[h[x]] + SumFunctionOnSet(g, names)
    BY <2>12, <2>13, FiguresAdd
  <2>16. IsFiniteSet(names \cup {h[x]})
    BY <2>12, FS_AddElement
  <2> QED
    BY <2>1, <2>8, <2>11, <2>12, <2>13, <2>14, <2>15, <2>16
<1>2. S \notin F
  BY <1>1
<1> QED
  BY <1>2

\* Figures that agree have the same sum.
LEMMA FiguresSame ==
  ASSUME NEW f, NEW S, IsFiniteSet(S), NEW g, \A x \in S : f[x] \in Int /\ g[x] = f[x]
  PROVE  SumFunctionOnSet(g, S) = SumFunctionOnSet(f, S)
<1> DEFINE h == [x \in S |-> x]
<1>1. {h[x] : x \in S} = S
  OBVIOUS
<1>2. \A x, y \in S : h[x] = h[y] => x = y
  OBVIOUS
<1>3. \A x \in S : f[x] \in Int /\ g[h[x]] = f[x]
  OBVIOUS
<1> HIDE DEF h
<1>4. SumFunctionOnSet(g, {h[x] : x \in S}) = SumFunctionOnSet(f, S)
  BY <1>2, <1>3, FiguresRenamed
<1> QED
  BY <1>1, <1>4

\* A part and the rest add up to the whole.
LEMMA FiguresSplit ==
  ASSUME NEW f, NEW S, IsFiniteSet(S), \A x \in S : f[x] \in Int, NEW P \in SUBSET S
  PROVE  SumFunctionOnSet(f, S) = SumFunctionOnSet(f, P) + SumFunctionOnSet(f, S \ P)
<1> DEFINE F == {T \in SUBSET S : SumFunctionOnSet(f, S) # SumFunctionOnSet(f, T) + SumFunctionOnSet(f, S \ T)}
<1>1. ASSUME F # {} PROVE FALSE
  <2>1. PICK T \in F : \A U \in F : U \subseteq T => U = T
    <3> HIDE DEF F
    <3>1. F \in SUBSET SUBSET S
      BY DEF F
    <3> QED
      BY <1>1, <3>1, LeastSet
  <2>2. T \subseteq S /\ IsFiniteSet(T) /\ IsFiniteSet(S \ T)
    BY FS_Subset, FS_Difference
  <2>3. T # {}
    <3>1. S \ {} = S
      OBVIOUS
    <3>2. SumFunctionOnSet(f, S) \in Int
      BY FiguresType
    <3>3. {} \notin F
      BY <3>1, <3>2, SumEmpty
    <3> QED
      BY <2>1, <3>3
  <2>4. PICK x \in T : TRUE
    BY <2>3
  <2> DEFINE less == T \ {x}
             more == S \ T
  <2>5. SumFunctionOnSet(f, S) = SumFunctionOnSet(f, less) + SumFunctionOnSet(f, S \ less)
    <3>1. less \subseteq T /\ less # T /\ less \in SUBSET S
      BY <2>2, <2>4
    <3> QED
      BY <2>1, <3>1
  <2>6. S \ less = more \cup {x} /\ x \notin more /\ x \notin less /\ T = less \cup {x}
    BY <2>2, <2>4
  <2>7. IsFiniteSet(less) /\ IsFiniteSet(more) /\ less \subseteq S /\ more \subseteq S /\ x \in S
    BY <2>2, <2>4, FS_RemoveElement
  <2> HIDE DEF less, F
  <2>8. SumFunctionOnSet(f, T) = f[x] + SumFunctionOnSet(f, less)
    BY <2>6, <2>7, FiguresAdd
  <2>9. SumFunctionOnSet(f, more \cup {x}) = f[x] + SumFunctionOnSet(f, more)
    <3> HIDE DEF more
    <3> QED BY <2>6, <2>7, FiguresAdd
  <2>10. SumFunctionOnSet(f, less) \in Int /\ SumFunctionOnSet(f, more) \in Int /\ f[x] \in Int
    BY <2>7, FiguresType
  <2>11. SumFunctionOnSet(f, S) # SumFunctionOnSet(f, T) + SumFunctionOnSet(f, more)
    BY <2>1 DEF F
  <2> HIDE DEF more
  <2>12. SumFunctionOnSet(f, S \ less) = f[x] + SumFunctionOnSet(f, more)
    BY <2>6, <2>9
  <2> QED
    BY <2>5, <2>8, <2>10, <2>11, <2>12
<1>2. P \notin F
  BY <1>1
<1> QED
  BY <1>2

\* Figures with the other sign.
LEMMA FiguresNegate ==
  ASSUME NEW f, NEW S, IsFiniteSet(S), NEW g, \A x \in S : f[x] \in Int /\ g[x] = -f[x]
  PROVE  SumFunctionOnSet(g, S) = -SumFunctionOnSet(f, S)
<1> DEFINE F == {T \in SUBSET S : SumFunctionOnSet(g, T) # -SumFunctionOnSet(f, T)}
<1>1. ASSUME F # {} PROVE FALSE
  <2>1. PICK T \in F : \A U \in F : U \subseteq T => U = T
    <3> HIDE DEF F
    <3>1. F \in SUBSET SUBSET S
      BY DEF F
    <3> QED
      BY <1>1, <3>1, LeastSet
  <2>2. T \subseteq S /\ IsFiniteSet(T)
    BY FS_Subset
  <2>3. PICK x \in T : TRUE
    BY <2>1, SumEmpty
  <2> DEFINE less == T \ {x}
  <2>4. IsFiniteSet(less) /\ less \subseteq S /\ x \in S /\ less \subseteq T /\ less # T
    BY <2>2, <2>3, FS_RemoveElement
  <2>5. SumFunctionOnSet(g, less) = -SumFunctionOnSet(f, less)
    BY <2>1, <2>4
  <2>6. SumFunctionOnSet(f, T) = f[x] + SumFunctionOnSet(f, less)
    BY <2>2, <2>3, FiguresTake
  <2>7. SumFunctionOnSet(g, T) = g[x] + SumFunctionOnSet(g, less)
    BY <2>2, <2>3, FiguresTake
  <2>8. SumFunctionOnSet(f, less) \in Int /\ f[x] \in Int
    BY <2>4, FiguresType
  <2> QED
    BY <2>1, <2>4, <2>5, <2>6, <2>7, <2>8
<1>2. S \notin F
  BY <1>1
<1> QED
  BY <1>2

\* Figures none of which is positive.
LEMMA FiguresNotPositive ==
  ASSUME NEW f, NEW S, IsFiniteSet(S), \A x \in S : f[x] \in Int /\ f[x] <= 0
  PROVE  SumFunctionOnSet(f, S) <= 0
<1> DEFINE F == {T \in SUBSET S : ~ SumFunctionOnSet(f, T) <= 0}
<1>1. ASSUME F # {} PROVE FALSE
  <2>1. PICK T \in F : \A U \in F : U \subseteq T => U = T
    <3> HIDE DEF F
    <3>1. F \in SUBSET SUBSET S
      BY DEF F
    <3> QED
      BY <1>1, <3>1, LeastSet
  <2>2. T \subseteq S /\ IsFiniteSet(T)
    BY FS_Subset
  <2>3. PICK x \in T : TRUE
    <3>1. {} \notin F
      BY SumEmpty
    <3> QED
      BY <2>1, <3>1
  <2> DEFINE less == T \ {x}
  <2>4. IsFiniteSet(less) /\ less \subseteq S /\ x \in S /\ less \subseteq T /\ less # T
    BY <2>2, <2>3, FS_RemoveElement
  <2>5. SumFunctionOnSet(f, less) <= 0
    BY <2>1, <2>4
  <2>6. SumFunctionOnSet(f, T) = f[x] + SumFunctionOnSet(f, less)
    BY <2>2, <2>3, FiguresTake
  <2>7. SumFunctionOnSet(f, less) \in Int /\ f[x] \in Int
    BY <2>4, FiguresType
  <2> QED
    BY <2>1, <2>4, <2>5, <2>6, <2>7
<1>2. S \notin F
  BY <1>1
<1> QED
  BY <1>2

\* As many ones as there are elements.
LEMMA FiguresCount ==
  ASSUME NEW f, NEW S, IsFiniteSet(S), \A x \in S : f[x] = 1
  PROVE  SumFunctionOnSet(f, S) = Cardinality(S)
<1> DEFINE F == {T \in SUBSET S : SumFunctionOnSet(f, T) # Cardinality(T)}
<1>1. ASSUME F # {} PROVE FALSE
  <2>1. PICK T \in F : \A U \in F : U \subseteq T => U = T
    <3> HIDE DEF F
    <3>1. F \in SUBSET SUBSET S
      BY DEF F
    <3> QED
      BY <1>1, <3>1, LeastSet
  <2>2. T \subseteq S /\ IsFiniteSet(T)
    BY FS_Subset
  <2>3. PICK x \in T : TRUE
    BY <2>1, SumEmpty, FS_EmptySet
  <2> DEFINE less == T \ {x}
  <2>4. IsFiniteSet(less) /\ Cardinality(less) = Cardinality(T) - 1
        /\ less \subseteq S /\ x \in S /\ less \subseteq T /\ less # T
    BY <2>2, <2>3, FS_RemoveElement
  <2>5. SumFunctionOnSet(f, less) = Cardinality(less)
    BY <2>1, <2>4
  <2>6. SumFunctionOnSet(f, T) = f[x] + SumFunctionOnSet(f, less)
    BY <2>2, <2>3, FiguresTake
  <2>7. Cardinality(T) \in Nat
    BY <2>2, FS_CardinalityType
  <2> QED
    BY <2>1, <2>4, <2>5, <2>6, <2>7
<1>2. S \notin F
  BY <1>1
<1> QED
  BY <1>2

\* f on S falls into classes by k; g adds up those in B, all of which are in "all".
Classed(f, S, k, B, class, g, all) ==
  /\ IsFiniteSet(S) /\ \A x \in S : f[x] \in Int
  /\ IsFiniteSet(B)
  /\ \A b \in B : class[b] \in SUBSET S /\ \A x \in S : x \in class[b] <=> k[x] = b
  /\ \A b \in B : g[b] = SumFunctionOnSet(f, class[b])
  /\ all \in SUBSET S /\ \A x \in S : x \in all <=> k[x] \in B

\* The sum over some classes of the sum of each is the sum over them all.
LEMMA FiguresByClass ==
  ASSUME NEW f, NEW S, NEW k, NEW B, NEW class, NEW g, NEW all, Classed(f, S, k, B, class, g, all)
  PROVE  SumFunctionOnSet(g, B) = SumFunctionOnSet(f, all)
<1> /\ IsFiniteSet(S) /\ \A x \in S : f[x] \in Int
    /\ IsFiniteSet(B)
    /\ \A b \in B : class[b] \in SUBSET S /\ \A x \in S : x \in class[b] <=> k[x] = b
    /\ \A b \in B : g[b] = SumFunctionOnSet(f, class[b])
    /\ all \in SUBSET S /\ \A x \in S : x \in all <=> k[x] \in B
  BY DEF Classed
<1> DEFINE Of(C) == {x \in S : k[x] \in C}
           F == {C \in SUBSET B : SumFunctionOnSet(g, C) # SumFunctionOnSet(f, Of(C))}
<1>0. \A b \in B : g[b] \in Int
  <2> SUFFICES ASSUME NEW b \in B PROVE g[b] \in Int
    OBVIOUS
  <2>1. class[b] \subseteq S /\ IsFiniteSet(class[b])
    BY FS_Subset
  <2> QED
    BY <2>1, FiguresType
<1>1. ASSUME F # {} PROVE FALSE
  <2>1. PICK C \in F : \A D \in F : D \subseteq C => D = C
    <3> HIDE DEF F
    <3>1. F \in SUBSET SUBSET B
      BY DEF F
    <3> QED
      BY <1>1, <3>1, LeastSet
  <2>2. C \subseteq B /\ IsFiniteSet(C)
    BY FS_Subset
  <2>3. C # {}
    <3>1. Of({}) = {}
      OBVIOUS
    <3>2. SumFunctionOnSet(f, Of({})) = SumFunctionOnSet(g, {})
      BY <3>1, SumEmpty
    <3>3. {} \notin F
      BY <3>2
    <3> QED
      BY <2>1, <3>3
  <2>4. PICK b \in C : TRUE
    BY <2>3
  <2> DEFINE less == C \ {b}
             part == Of(less)
             whole == Of(C)
  <2>5. IsFiniteSet(less) /\ less \subseteq B /\ b \in B /\ less \subseteq C /\ less # C
    BY <2>2, <2>4, FS_RemoveElement
  <2>6. SumFunctionOnSet(g, less) = SumFunctionOnSet(f, part)
    BY <2>1, <2>5
  <2>7. SumFunctionOnSet(g, C) = g[b] + SumFunctionOnSet(g, less)
    BY <1>0, <2>2, <2>4, FiguresTake
  <2>8. part \subseteq whole /\ whole \subseteq S /\ whole \ part = class[b]
    BY <2>2, <2>4
  <2>9. SumFunctionOnSet(f, whole) = SumFunctionOnSet(f, part) + SumFunctionOnSet(f, class[b])
    <3> HIDE DEF part, whole
    <3>1. IsFiniteSet(whole) /\ \A x \in whole : f[x] \in Int
      BY <2>8, FS_Subset
    <3> QED
      BY <2>8, <3>1, FiguresSplit
  <2>10. g[b] = SumFunctionOnSet(f, class[b])
    BY <2>5
  <2>11. SumFunctionOnSet(f, part) \in Int /\ g[b] \in Int
    <3>1. g[b] \in Int
      BY <1>0, <2>5
    <3> HIDE DEF part, whole
    <3>2. IsFiniteSet(part) /\ \A x \in part : f[x] \in Int
      BY <2>8, FS_Subset
    <3> QED
      BY <3>1, <3>2, FiguresType
  <2>12. SumFunctionOnSet(g, C) # SumFunctionOnSet(f, whole)
    BY <2>1
  <2> HIDE DEF part, whole, less, F
  <2> QED
    BY <2>6, <2>7, <2>9, <2>10, <2>11, <2>12
<1>2. B \notin F
  BY <1>1
<1>3. Of(B) = all
  OBVIOUS
<1> QED
  BY <1>2, <1>3

\* What a function takes on a finite set is a finite set.
LEMMA ImageFinite == ASSUME NEW S, IsFiniteSet(S), NEW h PROVE IsFiniteSet({h[x] : x \in S})
<1> DEFINE T == {h[x] : x \in S}
           f == [x \in S |-> h[x]]
<1>1. f \in Surjection(S, T)
  BY DEF Surjection
<1> HIDE DEF f, T
<1>2. IsFiniteSet(T)
  BY <1>1, FS_Surjection
<1> QED
  BY <1>2 DEF T

\* What adds up the subsets of a set gives its sum.
LEMMA SumIs ==
  ASSUME NEW f, NEW S, IsFiniteSet(S), NEW g, AddsUp(g, f, S)
  PROVE  g[S] = SumFunctionOnSet(f, S)
<1>1. PICK h : AddsUp(h, f, S) /\ Added(f, S) = h[S]
  <2>1. \E h : AddsUp(h, f, S)
    BY AddsUpExists
  <2>2. AddsUp(CHOOSE h : AddsUp(h, f, S), f, S)
    BY <2>1
  <2> QED BY <2>2 DEF Added
<1>2. g[S] = h[S]
  BY <1>1, AddsUpOnce
<1>3. SumFunctionOnSet(f, S) = Added(f, S)
  BY SumAddsUp
<1> QED BY <1>1, <1>2, <1>3
=============================================================================
