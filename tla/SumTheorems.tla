----------------------------- MODULE SumTheorems -----------------------------
(***************************************************************************)
(* The sum of a function over a finite set does not depend on the order in *)
(* which the elements are added: any one of them can be taken out.  This   *)
(* is what the ledger and aggregate invariants need of SumFunction, which  *)
(* adds the elements in an order fixed by CHOOSE.                          *)
(***************************************************************************)
EXTENDS Naturals, FiniteSets, Functions, FiniteSetTheorems, WellFoundedInduction, TLAPS

\* A non-empty set of subsets of a finite set has a member minimal by inclusion.
LEMMA MinimalSubset ==
  ASSUME NEW S, IsFiniteSet(S), NEW B, B \subseteq SUBSET S, B # {}
  PROVE  \E w \in B : \A v \in B : v \subseteq w => v = w
<1> DEFINE C == {n \in Nat : \E w \in B : Cardinality(w) = n}
<1>1. \A w \in SUBSET S : IsFiniteSet(w) /\ Cardinality(w) \in Nat
  BY FS_Subset, FS_CardinalityType
<1>2. C \subseteq Nat /\ C # {}
  BY <1>1
<1>3. PICK n \in C : \A m \in C : ~ (<<m, n>> \in OpToRel(<, Nat))
  <2> HIDE DEF C
  <2> QED BY <1>2, WFMin, NatLessThanWellFounded
<1>4. \A m \in C : ~(m < n)
  BY <1>3 DEF OpToRel
<1>5. PICK w \in B : Cardinality(w) = n
  OBVIOUS
<1>6. ASSUME NEW v \in B, v \subseteq w PROVE v = w
  <2>1. IsFiniteSet(w) /\ v \in SUBSET w
    BY <1>1, <1>6
  <2>2. Cardinality(v) <= Cardinality(w) /\ (Cardinality(w) = Cardinality(v) => w = v)
    BY <2>1, FS_Subset
  <2>3. Cardinality(v) \in C /\ Cardinality(v) \in Nat /\ n \in Nat
    BY <1>1
  <2> QED BY <1>4, <1>5, <2>2, <2>3
<1> QED BY <1>6

\* The element CHOOSE takes out next, and the recursion of SumFunction.
FirstOf(s) == CHOOSE x \in s : TRUE
Unfold(f, S, g) ==
  [s \in SUBSET S |-> IF s = {} THEN 0 ELSE f[FirstOf(s)] + g[s \ {FirstOf(s)}]]
PartialSums(f, S) == CHOOSE g : g = Unfold(f, S, g)
SumOn(f, S) == PartialSums(f, S)[S]

\* The element folds take first is one of the set.
LEMMA FirstIn == \A s : s # {} => FirstOf(s) \in s
BY DEF FirstOf

\* Two solutions of the recursion agree wherever both are defined.
LEMMA PartialSumsAgree ==
  ASSUME NEW S, IsFiniteSet(S), NEW f, NEW T \in SUBSET S, NEW U \in SUBSET S,
         NEW g, g = Unfold(f, T, g), NEW h, h = Unfold(f, U, h)
  PROVE  \A w \in SUBSET (T \cap U) : g[w] = h[w]
<1> DEFINE B == {w \in SUBSET (T \cap U) : g[w] # h[w]}
<1>1. SUFFICES ASSUME B # {} PROVE FALSE
  OBVIOUS
<1>2. PICK w \in B : \A v \in B : v \subseteq w => v = w
  <2>1. B \subseteq SUBSET S
    OBVIOUS
  <2> HIDE DEF B
  <2> QED BY <1>1, <2>1, MinimalSubset
<1>3. w # {}
  BY DEF Unfold
<1> DEFINE v == w \ {FirstOf(w)}
<1>4. v \in SUBSET (T \cap U) /\ v \subseteq w /\ v # w
  BY <1>3, FirstIn
<1>5. g[v] = h[v]
  BY <1>2, <1>4
<1>6. g[w] = f[FirstOf(w)] + g[v] /\ h[w] = f[FirstOf(w)] + h[v]
  BY <1>3 DEF Unfold
<1> QED BY <1>5, <1>6

\* The recursion has a solution on every finite set.
LEMMA PartialSumsExist ==
  ASSUME NEW S, IsFiniteSet(S), NEW f \in [S -> Nat]
  PROVE  \A T \in SUBSET S : \E g \in [SUBSET T -> Nat] : g = Unfold(f, T, g)
<1> DEFINE B == {T \in SUBSET S : ~ \E g \in [SUBSET T -> Nat] : g = Unfold(f, T, g)}
<1>1. SUFFICES ASSUME B # {} PROVE FALSE
  OBVIOUS
<1>2. PICK T \in B : \A v \in B : v \subseteq T => v = T
  <2>1. B \subseteq SUBSET S
    OBVIOUS
  <2> HIDE DEF B
  <2> QED BY <1>1, <2>1, MinimalSubset
<1> DEFINE G(U) == CHOOSE g \in [SUBSET U -> Nat] : g = Unfold(f, U, g)
           rest(s) == s \ {FirstOf(s)}
           h == [s \in SUBSET T |-> IF s = {} THEN 0 ELSE f[FirstOf(s)] + G(rest(s))[rest(s)]]
<1>3. ASSUME NEW U \in SUBSET T, U # T
      PROVE  G(U) \in [SUBSET U -> Nat] /\ G(U) = Unfold(f, U, G(U))
  <2>1. \E g \in [SUBSET U -> Nat] : g = Unfold(f, U, g)
    BY <1>2, <1>3
  <2> QED BY <2>1
<1>4. ASSUME NEW s \in SUBSET T, s # {}
      PROVE  /\ FirstOf(s) \in s /\ FirstOf(s) \in S
             /\ rest(s) \in SUBSET T /\ rest(s) # T /\ rest(s) \subseteq s
  BY <1>4, FirstIn
<1> HIDE DEF G
<1>5. h \in [SUBSET T -> Nat]
  <2>1. ASSUME NEW s \in SUBSET T, s # {} PROVE f[FirstOf(s)] + G(rest(s))[rest(s)] \in Nat
    <3>1. G(rest(s)) \in [SUBSET rest(s) -> Nat]
      BY <1>3, <1>4, <2>1
    <3>2. G(rest(s))[rest(s)] \in Nat
      BY <3>1
    <3>3. f[FirstOf(s)] \in Nat
      BY <1>4, <2>1
    <3> QED BY <3>2, <3>3
  <2> QED BY <2>1
<1>6. ASSUME NEW s \in SUBSET T, s # {} PROVE h[rest(s)] = G(rest(s))[rest(s)]
  <2> DEFINE u == rest(s)
  <2>1. u \in SUBSET T /\ u # T
    BY <1>4, <1>6
  <2>2. G(u) = Unfold(f, u, G(u)) /\ u \in SUBSET S
    BY <1>3, <2>1
  <2> HIDE DEF u
  <2>3. CASE u = {}
    <3>1. G(u)[u] = 0
      BY <2>2, <2>3 DEF Unfold
    <3> QED BY <2>1, <2>3, <3>1 DEF u
  <2>4. CASE u # {}
    <3> DEFINE v == rest(u)
    <3>1. v \in SUBSET T /\ v # T /\ v \in SUBSET u /\ v \in SUBSET S
      BY <1>4, <2>1, <2>4
    <3>2. G(v) = Unfold(f, v, G(v))
      BY <1>3, <3>1
    <3>3. h[u] = f[FirstOf(u)] + G(v)[v]
      BY <2>1, <2>4
    <3>4. G(u)[u] = f[FirstOf(u)] + G(u)[v]
      BY <2>2, <2>4 DEF Unfold
    <3> HIDE DEF v
    <3>5. v \in SUBSET (u \cap v)
      BY <3>1
    <3>6. G(u)[v] = G(v)[v]
      BY <2>2, <3>1, <3>2, <3>5, PartialSumsAgree
    <3> QED BY <3>3, <3>4, <3>6 DEF u
  <2> QED BY <2>3, <2>4
<1>7. h = Unfold(f, T, h)
  BY <1>6 DEF Unfold
<1> QED BY <1>2, <1>5, <1>7

-----------------------------------------------------------------------------
(* The sum over a set, and the order of addition.                          *)

\* The sum on a set is the first value and the sum on the rest.
LEMMA SumOnUnfolds ==
  ASSUME NEW S, IsFiniteSet(S), NEW f \in [S -> Nat], NEW T \in SUBSET S
  PROVE  /\ SumOn(f, T) \in Nat
         /\ SumOn(f, T) = IF T = {} THEN 0
                          ELSE f[FirstOf(T)] + SumOn(f, T \ {FirstOf(T)})
<1> DEFINE g == PartialSums(f, T)
           v == T \ {FirstOf(T)}
           h == PartialSums(f, v)
<1> HIDE DEF g, h, v
<1>0. \A U \in SUBSET S : \E k \in [SUBSET U -> Nat] : k = Unfold(f, U, k)
  BY PartialSumsExist
<1>1. PICK k \in [SUBSET T -> Nat] : k = Unfold(f, T, k)
  BY <1>0
<1>2. g = Unfold(f, T, g)
  BY <1>1 DEF PartialSums, g
<1>3. v \in SUBSET S
  BY DEF v
<1>4. h = Unfold(f, v, h)
  BY <1>0, <1>3 DEF PartialSums, h
<1>5. g[T] = k[T]
  <2>1. T \in SUBSET (T \cap T)
    OBVIOUS
  <2> QED BY <1>1, <1>2, <2>1, PartialSumsAgree
<1>6. SumOn(f, T) = g[T]
  BY DEF SumOn, g
<1>7. SumOn(f, v) = h[v]
  BY DEF SumOn, h
<1>8. CASE T = {}
  <2>1. g[T] = 0
    BY <1>2, <1>8 DEF Unfold
  <2> QED BY <1>6, <1>8, <2>1
<1>9. CASE T # {}
  <2>1. g[T] = f[FirstOf(T)] + g[v]
    BY <1>2, <1>9 DEF Unfold, v
  <2>2. g[v] = h[v]
    <3>1. v \in SUBSET (T \cap v)
      BY DEF v
    <3>2. \A w \in SUBSET (T \cap v) : g[w] = h[w]
      BY <1>2, <1>3, <1>4, PartialSumsAgree
    <3> QED BY <3>1, <3>2
  <2>3. g[T] \in Nat
    BY <1>1, <1>5
  <2> QED BY <1>6, <1>7, <1>9, <2>1, <2>2, <2>3 DEF v
<1> QED BY <1>8, <1>9

\* Any element, not only the first, can be taken out of a sum.
LEMMA SumOnRemove ==
  ASSUME NEW S, IsFiniteSet(S), NEW f \in [S -> Nat]
  PROVE  \A T \in SUBSET S : \A x \in T : SumOn(f, T) = f[x] + SumOn(f, T \ {x})
<1> DEFINE B == {T \in SUBSET S : \E x \in T : SumOn(f, T) # f[x] + SumOn(f, T \ {x})}
<1>1. SUFFICES ASSUME B # {} PROVE FALSE
  OBVIOUS
<1>2. PICK T \in B : \A v \in B : v \subseteq T => v = T
  <2>1. B \subseteq SUBSET S
    OBVIOUS
  <2> HIDE DEF B
  <2> QED BY <1>1, <2>1, MinimalSubset
<1>3. PICK x \in T : SumOn(f, T) # f[x] + SumOn(f, T \ {x})
  BY <1>2
<1> DEFINE p == FirstOf(T)
           P == T \ {p}
           X == T \ {x}
           R == T \ {p, x}
<1>4. p \in T /\ T # {}
  BY FirstIn
<1>5. SumOn(f, T) = f[p] + SumOn(f, P)
  BY <1>4, SumOnUnfolds
<1>6. x # p
  BY <1>3, <1>5
<1>7. P \in SUBSET S /\ P \subseteq T /\ P # T /\ x \in P
      /\ X \in SUBSET S /\ X \subseteq T /\ X # T /\ p \in X
      /\ P \ {x} = R /\ X \ {p} = R /\ R \in SUBSET S
  BY <1>4, <1>6
<1>8. SumOn(f, P) = f[x] + SumOn(f, P \ {x})
  BY <1>2, <1>7
<1>9. SumOn(f, X) = f[p] + SumOn(f, X \ {p})
  BY <1>2, <1>7
<1>10. SumOn(f, R) \in Nat /\ f[p] \in Nat /\ f[x] \in Nat
  BY <1>4, <1>7, SumOnUnfolds
<1> HIDE DEF P, X, R
<1>11. SumOn(f, P) = f[x] + SumOn(f, R) /\ SumOn(f, X) = f[p] + SumOn(f, R)
  BY <1>7, <1>8, <1>9
<1>12. SumOn(f, T) = f[x] + SumOn(f, X)
  BY <1>5, <1>10, <1>11
<1> QED BY <1>3, <1>12 DEF X

\* Only the values on the set matter.
LEMMA SumOnCongruence ==
  ASSUME NEW S, IsFiniteSet(S), NEW f \in [S -> Nat],
         NEW U \in SUBSET S, NEW g \in [U -> Nat], \A x \in U : g[x] = f[x]
  PROVE  \A T \in SUBSET U : SumOn(g, T) = SumOn(f, T)
<1> DEFINE B == {T \in SUBSET U : SumOn(g, T) # SumOn(f, T)}
<1>1. SUFFICES ASSUME B # {} PROVE FALSE
  OBVIOUS
<1>2. IsFiniteSet(U)
  BY FS_Subset
<1>3. PICK T \in B : \A v \in B : v \subseteq T => v = T
  <2>1. B \subseteq SUBSET U
    OBVIOUS
  <2> HIDE DEF B
  <2> QED BY <1>1, <1>2, <2>1, MinimalSubset
<1>4. T \in SUBSET U /\ T \in SUBSET S
  OBVIOUS
<1>5. CASE T = {}
  <2>1. SumOn(g, T) = 0 /\ SumOn(f, T) = 0
    BY <1>2, <1>4, <1>5, SumOnUnfolds
  <2> QED BY <2>1
<1>6. CASE T # {}
  <2> DEFINE v == T \ {FirstOf(T)}
  <2>1. FirstOf(T) \in T /\ v \in SUBSET U /\ v \subseteq T /\ v # T
    BY <1>4, <1>6, FirstIn
  <2>2. SumOn(g, v) = SumOn(f, v)
    BY <1>3, <2>1
  <2>3. SumOn(g, T) = g[FirstOf(T)] + SumOn(g, v)
    BY <1>2, <1>4, <1>6, SumOnUnfolds
  <2>4. SumOn(f, T) = f[FirstOf(T)] + SumOn(f, v)
    BY <1>4, <1>6, SumOnUnfolds
  <2>5. g[FirstOf(T)] = f[FirstOf(T)]
    BY <1>4, <2>1
  <2> QED BY <2>2, <2>3, <2>4, <2>5
<1> QED BY <1>5, <1>6

\* SumFunction of the community modules is the sum on the domain.
LEMMA SumIsSumOn ==
  ASSUME NEW S, NEW f \in [S -> Nat]
  PROVE  SumFunction(f) = SumOn(f, S)
<1>1. DOMAIN f = S
  OBVIOUS
<1> QED BY <1>1 DEF SumFunction, SumFunctionOnSet, FoldFunctionOnSet, MapThenFoldSet,
           SumOn, PartialSums, Unfold, FirstOf

\* The sum of nothing.
LEMMA SumOfNone == ASSUME NEW f \in [{} -> Nat] PROVE SumFunction(f) = 0
<1>1. SumOn(f, {}) = 0
  BY FS_EmptySet, SumOnUnfolds
<1> QED BY <1>1, SumIsSumOn

\* A sum of naturals is a natural, and any element can be taken out of it.
THEOREM SumTakeOut ==
  ASSUME NEW S, IsFiniteSet(S), NEW f \in [S -> Nat]
  PROVE  /\ SumFunction(f) \in Nat
         /\ \A x \in S : SumFunction(f) = f[x] + SumFunction([y \in S \ {x} |-> f[y]])
<1>1. SumFunction(f) = SumOn(f, S) /\ SumOn(f, S) \in Nat
  BY SumIsSumOn, SumOnUnfolds
<1>2. ASSUME NEW x \in S
      PROVE  SumFunction(f) = f[x] + SumFunction([y \in S \ {x} |-> f[y]])
  <2> DEFINE T == S \ {x}
             g == [y \in T |-> f[y]]
  <2>1. T \in SUBSET S /\ g \in [T -> Nat] /\ \A y \in T : g[y] = f[y]
    OBVIOUS
  <2>2. SumOn(f, S) = f[x] + SumOn(f, T)
    BY SumOnRemove
  <2> HIDE DEF T, g
  <2>3. SumOn(g, T) = SumOn(f, T)
    BY <2>1, SumOnCongruence
  <2>4. SumFunction(g) = SumOn(g, T)
    BY <2>1, SumIsSumOn
  <2>5. SumFunction(f) = f[x] + SumFunction(g)
    BY <1>1, <2>2, <2>3, <2>4
  <2> QED BY <2>5 DEF g, T
<1> QED BY <1>1, <1>2

\* The sum of a single value.
LEMMA SumSingleton ==
  ASSUME NEW y, NEW n \in Nat
  PROVE  SumFunction([x \in {y} |-> n]) = n
<1> DEFINE f == [x \in {y} |-> n]
           g == [x \in {y} \ {y} |-> f[x]]
<1>1. IsFiniteSet({y}) /\ f \in [{y} -> Nat] /\ f[y] = n
  BY FS_Singleton
<1>2. {y} \ {y} = {}
  OBVIOUS
<1>3. g \in [{} -> Nat]
  BY <1>2
<1> HIDE DEF f
<1>4. SumFunction(f) = f[y] + SumFunction(g)
  BY <1>1, SumTakeOut
<1>5. SumFunction(g) = 0
  <2> HIDE DEF g
  <2> QED BY <1>3, SumOfNone
<1> QED BY <1>1, <1>4, <1>5 DEF f
=============================================================================
