-------------------------------- MODULE Sums --------------------------------
(***************************************************************************)
(* Facts about finite sums, for the ledgers of the other modules: the sums *)
(* of the community modules are folds, that is recursive functions over    *)
(* the subsets of a set.                                                   *)
(*                                                                         *)
(* Induction is by a smallest counterexample, which the well-foundedness   *)
(* of strict inclusion gives: the sets a fact holds for are collected in a *)
(* set of sets, so nothing is quantified over predicates.                  *)
(***************************************************************************)
EXTENDS Integers, Functions, FiniteSetTheorems, TLAPS

-----------------------------------------------------------------------------
(* Induction over finite sets.                                             *)

\* What holds for a finite set whenever it holds for all smaller ones holds for all.
LEMMA SetInduction ==
  ASSUME NEW S, IsFiniteSet(S), NEW Good,
         \A T \in SUBSET S : (\A U \in SUBSET T : U # T => U \in Good) => T \in Good
  PROVE  S \in Good
<1> DEFINE Bad == {T \in SUBSET S : T \notin Good}
<1> SUFFICES ASSUME Bad # {} PROVE FALSE
  OBVIOUS
<1>1. Bad \subseteq FiniteSubsetsOf(S)
  BY FS_Subset DEF FiniteSubsetsOf
<1>2. IsWellFoundedOn(StrictSubsetOrdering(S), FiniteSubsetsOf(S))
  BY FS_StrictSubsetOrderingWellFounded
<1>3. PICK T \in Bad : \A U \in Bad : <<U, T>> \notin StrictSubsetOrdering(S)
  <2> HIDE DEF Bad
  <2>1. PICK R : R = StrictSubsetOrdering(S)
    OBVIOUS
  <2>2. PICK F : F = FiniteSubsetsOf(S)
    OBVIOUS
  <2>3. IsWellFoundedOn(R, F) /\ Bad \subseteq F
    BY <1>1, <1>2, <2>1, <2>2
  <2>4. \E x \in Bad : \A y \in Bad : ~ (<<y, x>> \in R)
    BY <2>3, WFMin
  <2> QED
    BY <2>1, <2>4
<1>4. ASSUME NEW U \in SUBSET T, U # T PROVE U \in Good
  BY <1>3, <1>4 DEF StrictSubsetOrdering
<1> QED
  BY <1>3, <1>4

-----------------------------------------------------------------------------
(* The recursive function behind a sum.                                    *)

Leader(s) == CHOOSE x \in s : TRUE

\* The recursive function that the fold of f over S takes its value from.
IsFold(it, f, S) ==
  it = [s \in SUBSET S |-> IF s = {} THEN 0 ELSE f[Leader(s)] + it[s \ {Leader(s)}]]

\* The element that is taken first is one.
LEMMA LeaderIsIn ==
  ASSUME NEW s, s # {} PROVE Leader(s) \in s
BY DEF Leader

\* Two such functions agree where both are defined.
LEMMA SumsAgree ==
  ASSUME NEW f, NEW S, NEW T, NEW g, NEW h, IsFold(g, f, S), IsFold(h, f, T),
         NEW s, s \subseteq S, s \subseteq T, IsFiniteSet(s)
  PROVE  g[s] = h[s]
<1> DEFINE Good == {u \in SUBSET s : g[u] = h[u]}
<1>1. ASSUME NEW u \in SUBSET s, \A v \in SUBSET u : v # u => v \in Good
      PROVE  u \in Good
  <2>1. /\ g[u] = IF u = {} THEN 0 ELSE f[Leader(u)] + g[u \ {Leader(u)}]
        /\ h[u] = IF u = {} THEN 0 ELSE f[Leader(u)] + h[u \ {Leader(u)}]
    BY DEF IsFold
  <2>2. CASE u = {}
    BY <2>1, <2>2
  <2>3. CASE u # {}
    <3>1. u \ {Leader(u)} \in SUBSET u /\ u \ {Leader(u)} # u
      BY <2>3, LeaderIsIn
    <3>2. g[u \ {Leader(u)}] = h[u \ {Leader(u)}]
      BY <1>1, <3>1
    <3> QED
      BY <2>1, <2>3, <3>2
  <2> QED
    BY <2>2, <2>3
<1>2. s \in Good
  <2> HIDE DEF Good
  <2> QED
    BY <1>1, SetInduction
<1> QED
  BY <1>2

\* There is one for every finite set.
LEMMA SumsExist ==
  ASSUME NEW f, NEW S, IsFiniteSet(S)
  PROVE  \E it : IsFold(it, f, S)
<1> DEFINE Good == {T \in SUBSET S : \E it : IsFold(it, f, T)}
<1>1. ASSUME NEW T \in SUBSET S, \A U \in SUBSET T : U # T => U \in Good
      PROVE  T \in Good
  <2> DEFINE Of(U) == CHOOSE it : IsFold(it, f, U)
             it == [s \in SUBSET T |-> IF s = {} THEN 0
                      ELSE f[Leader(s)] + Of(s \ {Leader(s)})[s \ {Leader(s)}]]
  <2>1. ASSUME NEW U \in SUBSET T, U # T
        PROVE  IsFold(Of(U), f, U)
    BY <1>1, <2>1
  <2>2. ASSUME NEW s \in SUBSET T, s # {}
        PROVE  it[s \ {Leader(s)}] = Of(s \ {Leader(s)})[s \ {Leader(s)}]
    <3> DEFINE u == s \ {Leader(s)}
    <3>1. Leader(s) \in s
      BY <2>2, LeaderIsIn
    <3>2. u \in SUBSET T /\ u # T
      BY <3>1
    <3>3. IsFold(Of(u), f, u)
      BY <2>1, <3>2
    <3>4. Of(u)[u] = IF u = {} THEN 0 ELSE f[Leader(u)] + Of(u)[u \ {Leader(u)}]
      <4>1. u \in SUBSET u
        OBVIOUS
      <4> HIDE DEF u, Of
      <4> QED
        BY <3>3, <4>1 DEF IsFold
    <3>5. CASE u = {}
      BY <3>2, <3>4, <3>5
    <3>6. CASE u # {}
      <4> DEFINE v == u \ {Leader(u)}
      <4>1. Leader(u) \in u
        BY <3>6, LeaderIsIn
      <4>2. v \in SUBSET T /\ v # T /\ v \subseteq u
        BY <3>2, <4>1
      <4>3. IsFold(Of(v), f, v)
        BY <2>1, <4>2
      <4>4. IsFiniteSet(v)
        BY <4>2, FS_Subset
      <4>5. Of(u)[v] = Of(v)[v]
        <5> HIDE DEF u, v, Of
        <5> QED
          BY <3>3, <4>2, <4>3, <4>4, SumsAgree
      <4>6. it[u] = f[Leader(u)] + Of(v)[v]
        BY <3>2, <3>6
      <4> QED
        BY <3>4, <3>6, <4>5, <4>6
    <3> QED
      BY <3>5, <3>6
  <2>3. IsFold(it, f, T)
    <3>1. \A s \in SUBSET T :
            it[s] = IF s = {} THEN 0 ELSE f[Leader(s)] + Of(s \ {Leader(s)})[s \ {Leader(s)}]
      OBVIOUS
    <3>2. \A s \in SUBSET T :
            it[s] = IF s = {} THEN 0 ELSE f[Leader(s)] + it[s \ {Leader(s)}]
      <4> HIDE DEF it, Of
      <4> QED
        BY <2>2, <3>1
    <3>3. it = [s \in SUBSET T |-> it[s]]
      OBVIOUS
    <3> HIDE DEF it
    <3> QED
      BY <3>2, <3>3 DEF IsFold
  <2> QED
    BY <2>3
<1>2. S \in Good
  <2> HIDE DEF Good
  <2> QED
    BY <1>1, SetInduction
<1> QED
  BY <1>2

-----------------------------------------------------------------------------
(* SumFunctionOnSet.                                                       *)

\* The fold's own equation, with the element it happens to take first.
LEMMA SumUnfolds ==
  ASSUME NEW f, NEW S, IsFiniteSet(S), S # {}
  PROVE  SumFunctionOnSet(f, S)
           = f[Leader(S)] + SumFunctionOnSet(f, S \ {Leader(S)})
<1> DEFINE Fold(T) == CHOOSE it : IsFold(it, f, T)
           R == S \ {Leader(S)}
<1>1. Leader(S) \in S
  BY LeaderIsIn
<1>2. R \subseteq S /\ IsFiniteSet(R)
  BY FS_Subset
<1>3. IsFold(Fold(S), f, S) /\ IsFold(Fold(R), f, R)
  BY <1>2, SumsExist
<1>4. SumFunctionOnSet(f, S) = Fold(S)[S] /\ SumFunctionOnSet(f, R) = Fold(R)[R]
  BY DEF SumFunctionOnSet, FoldFunctionOnSet, MapThenFoldSet, IsFold, Leader
<1>5. Fold(S)[R] = Fold(R)[R]
  <2> HIDE DEF R, Fold
  <2> QED
    BY <1>2, <1>3, SumsAgree
<1>6. Fold(S)[S] = f[Leader(S)] + Fold(S)[R]
  <2> HIDE DEF Fold
  <2> QED
    BY <1>3 DEF IsFold
<1> QED
  BY <1>4, <1>5, <1>6

\* The sum over no elements is zero.
LEMMA SumOfNone ==
  ASSUME NEW f PROVE SumFunctionOnSet(f, {}) = 0
<1> DEFINE Fold == CHOOSE it : IsFold(it, f, {})
<1>1. IsFold(Fold, f, {})
  BY FS_EmptySet, SumsExist
<1>2. SumFunctionOnSet(f, {}) = Fold[{}]
  BY DEF SumFunctionOnSet, FoldFunctionOnSet, MapThenFoldSet, IsFold, Leader
<1>3. Fold[{}] = 0
  <2> HIDE DEF Fold
  <2> QED
    BY <1>1 DEF IsFold
<1> QED
  BY <1>2, <1>3

\* A sum of integers is one, and a sum of natural numbers is one.
LEMMA SumIsInt ==
  ASSUME NEW f, NEW S, IsFiniteSet(S), \A x \in S : f[x] \in Int
  PROVE  SumFunctionOnSet(f, S) \in Int
<1> DEFINE Good == {T \in SUBSET S : SumFunctionOnSet(f, T) \in Int}
<1>1. ASSUME NEW T \in SUBSET S, \A U \in SUBSET T : U # T => U \in Good
      PROVE  T \in Good
  <2>1. CASE T = {}
    BY <2>1, SumOfNone
  <2>2. CASE T # {}
    <3>1. Leader(T) \in T /\ IsFiniteSet(T)
      BY <2>2, LeaderIsIn, FS_Subset
    <3>2. SumFunctionOnSet(f, T \ {Leader(T)}) \in Int
      BY <1>1, <3>1
    <3>3. SumFunctionOnSet(f, T) = f[Leader(T)] + SumFunctionOnSet(f, T \ {Leader(T)})
      BY <2>2, <3>1, SumUnfolds
    <3> QED
      BY <3>1, <3>2, <3>3
  <2> QED
    BY <2>1, <2>2
<1>2. S \in Good
  <2> HIDE DEF Good
  <2> QED
    BY <1>1, SetInduction
<1> QED
  BY <1>2

\* A sum of naturals is one.
LEMMA SumIsNat ==
  ASSUME NEW f, NEW S, IsFiniteSet(S), \A x \in S : f[x] \in Nat
  PROVE  SumFunctionOnSet(f, S) \in Nat
<1> DEFINE Good == {T \in SUBSET S : SumFunctionOnSet(f, T) \in Nat}
<1>1. ASSUME NEW T \in SUBSET S, \A U \in SUBSET T : U # T => U \in Good
      PROVE  T \in Good
  <2>1. CASE T = {}
    BY <2>1, SumOfNone
  <2>2. CASE T # {}
    <3>1. Leader(T) \in T /\ IsFiniteSet(T)
      BY <2>2, LeaderIsIn, FS_Subset
    <3>2. SumFunctionOnSet(f, T \ {Leader(T)}) \in Nat
      BY <1>1, <3>1
    <3>3. SumFunctionOnSet(f, T) = f[Leader(T)] + SumFunctionOnSet(f, T \ {Leader(T)})
      BY <2>2, <3>1, SumUnfolds
    <3> QED
      BY <3>1, <3>2, <3>3
  <2> QED
    BY <2>1, <2>2
<1>2. S \in Good
  <2> HIDE DEF Good
  <2> QED
    BY <1>1, SetInduction
<1> QED
  BY <1>2

\* Any element may be taken apart, not only the one the fold takes first.
LEMMA SumWithout ==
  ASSUME NEW f, NEW S, IsFiniteSet(S), \A x \in S : f[x] \in Int, NEW a \in S
  PROVE  SumFunctionOnSet(f, S) = f[a] + SumFunctionOnSet(f, S \ {a})
<1> DEFINE Sum(T) == SumFunctionOnSet(f, T)
           Good == {T \in SUBSET S : \A x \in T : Sum(T) = f[x] + Sum(T \ {x})}
<1>1. ASSUME NEW T \in SUBSET S, \A U \in SUBSET T : U # T => U \in Good
      PROVE  T \in Good
  <2> SUFFICES ASSUME NEW x \in T PROVE Sum(T) = f[x] + Sum(T \ {x})
    OBVIOUS
  <2> DEFINE y == Leader(T)
  <2>1. y \in T /\ IsFiniteSet(T)
    BY LeaderIsIn, FS_Subset
  <2>2. Sum(T) = f[y] + Sum(T \ {y})
    BY <2>1, SumUnfolds
  <2>3. CASE x = y
    BY <2>2, <2>3
  <2>4. CASE x # y
    <3> DEFINE R == T \ {x, y}
    <3>1. (T \ {y}) \ {x} = R /\ (T \ {x}) \ {y} = R
      OBVIOUS
    <3>2. Sum(T \ {y}) = f[x] + Sum(R)
      BY <1>1, <2>1, <2>4, <3>1
    <3>3. Sum(T \ {x}) = f[y] + Sum(R)
      BY <1>1, <2>1, <2>4, <3>1
    <3>4. Sum(R) \in Int /\ f[x] \in Int /\ f[y] \in Int
      <4>1. IsFiniteSet(R) /\ \A z \in R : f[z] \in Int
        BY <2>1, FS_Subset
      <4> QED
        BY <2>1, <4>1, SumIsInt
    <3> HIDE DEF Sum, y
    <3> QED
      BY <2>2, <3>2, <3>3, <3>4
  <2> QED
    BY <2>3, <2>4
<1>2. S \in Good
  <2> HIDE DEF Good
  <2> QED
    BY <1>1, SetInduction
<1> QED
  BY <1>2

\* A further element adds what it has.
LEMMA SumWith ==
  ASSUME NEW f, NEW S, IsFiniteSet(S), NEW a, a \notin S,
         \A x \in S \cup {a} : f[x] \in Int
  PROVE  SumFunctionOnSet(f, S \cup {a}) = SumFunctionOnSet(f, S) + f[a]
<1>1. IsFiniteSet(S \cup {a}) /\ (S \cup {a}) \ {a} = S
  BY FS_AddElement
<1>2. SumFunctionOnSet(f, S \cup {a}) = f[a] + SumFunctionOnSet(f, S)
  BY <1>1, SumWithout
<1>3. SumFunctionOnSet(f, S) \in Int
  BY SumIsInt
<1> QED
  BY <1>2, <1>3

\* Sums of functions that agree are the same.
LEMMA SumOfSame ==
  ASSUME NEW f, NEW g, NEW S, IsFiniteSet(S), \A x \in S : f[x] = g[x]
  PROVE  SumFunctionOnSet(f, S) = SumFunctionOnSet(g, S)
<1> DEFINE Good == {T \in SUBSET S : SumFunctionOnSet(f, T) = SumFunctionOnSet(g, T)}
<1>1. ASSUME NEW T \in SUBSET S, \A U \in SUBSET T : U # T => U \in Good
      PROVE  T \in Good
  <2>1. CASE T = {}
    BY <2>1, SumOfNone
  <2>2. CASE T # {}
    <3>1. Leader(T) \in T /\ IsFiniteSet(T)
      BY <2>2, LeaderIsIn, FS_Subset
    <3>2. SumFunctionOnSet(f, T \ {Leader(T)}) = SumFunctionOnSet(g, T \ {Leader(T)})
      BY <1>1, <3>1
    <3>3. /\ SumFunctionOnSet(f, T) = f[Leader(T)] + SumFunctionOnSet(f, T \ {Leader(T)})
          /\ SumFunctionOnSet(g, T) = g[Leader(T)] + SumFunctionOnSet(g, T \ {Leader(T)})
      BY <2>2, <3>1, SumUnfolds
    <3> QED
      BY <3>1, <3>2, <3>3
  <2> QED
    BY <2>1, <2>2
<1>2. S \in Good
  <2> HIDE DEF Good
  <2> QED
    BY <1>1, SetInduction
<1> QED
  BY <1>2

\* Changing one element changes the sum by as much.
LEMMA SumOfChanged ==
  ASSUME NEW f, NEW g, NEW S, IsFiniteSet(S), NEW a \in S,
         \A x \in S : f[x] \in Int /\ g[x] \in Int,
         \A x \in S \ {a} : g[x] = f[x]
  PROVE  SumFunctionOnSet(g, S) = SumFunctionOnSet(f, S) - f[a] + g[a]
<1> DEFINE R == S \ {a}
<1>1. IsFiniteSet(R)
  BY FS_Subset
<1>2. SumFunctionOnSet(f, S) = f[a] + SumFunctionOnSet(f, R)
  BY SumWithout
<1>3. SumFunctionOnSet(g, S) = g[a] + SumFunctionOnSet(g, R)
  BY SumWithout
<1>4. SumFunctionOnSet(g, R) = SumFunctionOnSet(f, R)
  BY <1>1, SumOfSame
<1>5. SumFunctionOnSet(f, R) \in Int
  BY <1>1, SumIsInt
<1> QED
  BY <1>2, <1>3, <1>4, <1>5

\* The sum of two functions' sums.
LEMMA SumOfSums ==
  ASSUME NEW f, NEW g, NEW h, NEW S, IsFiniteSet(S),
         \A x \in S : f[x] \in Int /\ g[x] \in Int /\ h[x] = f[x] + g[x]
  PROVE  SumFunctionOnSet(h, S) = SumFunctionOnSet(f, S) + SumFunctionOnSet(g, S)
<1> DEFINE Sum(k, T) == SumFunctionOnSet(k, T)
           Good == {T \in SUBSET S : Sum(h, T) = Sum(f, T) + Sum(g, T)}
<1>1. ASSUME NEW T \in SUBSET S, \A U \in SUBSET T : U # T => U \in Good
      PROVE  T \in Good
  <2>1. CASE T = {}
    BY <2>1, SumOfNone
  <2>2. CASE T # {}
    <3> DEFINE x == Leader(T)
               R == T \ {x}
    <3>1. x \in T /\ IsFiniteSet(T) /\ IsFiniteSet(R)
      BY <2>2, LeaderIsIn, FS_Subset
    <3>2. Sum(h, R) = Sum(f, R) + Sum(g, R)
      BY <1>1, <3>1
    <3>3. /\ Sum(f, T) = f[x] + Sum(f, R)
          /\ Sum(g, T) = g[x] + Sum(g, R)
          /\ Sum(h, T) = h[x] + Sum(h, R)
      BY <2>2, <3>1, SumUnfolds
    <3>4. Sum(f, R) \in Int /\ Sum(g, R) \in Int
      BY <3>1, SumIsInt
    <3>5. f[x] \in Int /\ g[x] \in Int /\ h[x] = f[x] + g[x]
      BY <3>1
    <3> HIDE DEF Sum, x, R
    <3>6. Sum(h, T) = Sum(f, T) + Sum(g, T)
      BY <3>2, <3>3, <3>4, <3>5
    <3> QED
      BY <3>6
  <2> QED
    BY <2>1, <2>2
<1>2. S \in Good
  <2> HIDE DEF Good
  <2> QED
    BY <1>1, SetInduction
<1> QED
  BY <1>2

\* What is larger everywhere sums to no less.
LEMMA SumIsMonotonic ==
  ASSUME NEW f, NEW g, NEW S, IsFiniteSet(S),
         \A x \in S : f[x] \in Int /\ g[x] \in Int /\ f[x] <= g[x]
  PROVE  SumFunctionOnSet(f, S) <= SumFunctionOnSet(g, S)
<1> DEFINE d == [x \in S |-> g[x] - f[x]]
<1>1. \A x \in S : d[x] \in Nat /\ d[x] \in Int /\ g[x] = f[x] + d[x]
  OBVIOUS
<1> HIDE DEF d
<1>2. SumFunctionOnSet(g, S) = SumFunctionOnSet(f, S) + SumFunctionOnSet(d, S)
  BY <1>1, SumOfSums
<1>3. SumFunctionOnSet(d, S) \in Nat /\ SumFunctionOnSet(f, S) \in Int
  BY <1>1, SumIsNat, SumIsInt
<1> QED
  BY <1>2, <1>3

\* A sum over two sets that share nothing is the sum over one and then the other.
LEMMA SumOverUnion ==
  ASSUME NEW f, NEW S, NEW T, IsFiniteSet(S), IsFiniteSet(T), S \cap T = {},
         \A x \in S \cup T : f[x] \in Int
  PROVE  SumFunctionOnSet(f, S \cup T) = SumFunctionOnSet(f, S) + SumFunctionOnSet(f, T)
<1> DEFINE Sum(U) == SumFunctionOnSet(f, U)
           Good == {U \in SUBSET T : Sum(S \cup U) = Sum(S) + Sum(U)}
<1>0. Sum(S) \in Int
  BY SumIsInt
<1>1. ASSUME NEW U \in SUBSET T, \A V \in SUBSET U : V # U => V \in Good
      PROVE  U \in Good
  <2>1. CASE U = {}
    <3>1. S \cup U = S /\ Sum(U) = 0
      BY <2>1, SumOfNone
    <3> HIDE DEF Sum
    <3> QED
      BY <1>0, <2>1, <3>1
  <2>2. CASE U # {}
    <3> DEFINE x == Leader(U)
               R == U \ {x}
    <3>1. x \in U /\ x \notin S /\ IsFiniteSet(U) /\ IsFiniteSet(R)
      BY <2>2, LeaderIsIn, FS_Subset
    <3>2. Sum(S \cup R) = Sum(S) + Sum(R)
      BY <1>1, <3>1
    <3>3. IsFiniteSet(S \cup R) /\ x \notin S \cup R /\ S \cup U = (S \cup R) \cup {x}
      BY <3>1, FS_Union
    <3>4. \A z \in (S \cup R) \cup {x} : f[z] \in Int
      BY <3>1
    <3>5. Sum(S \cup U) = Sum(S \cup R) + f[x]
      <4> HIDE DEF x, R
      <4> QED
        BY <3>3, <3>4, SumWith
    <3>6. R \cup {x} = U /\ x \notin R
      BY <3>1
    <3>7. Sum(U) = Sum(R) + f[x]
      <4> HIDE DEF x, R
      <4> QED
        BY <3>1, <3>4, <3>6, SumWith
    <3>8. Sum(R) \in Int /\ f[x] \in Int
      BY <3>1, <3>4, SumIsInt
    <3> HIDE DEF Sum, x, R
    <3>9. Sum(S \cup U) = Sum(S) + Sum(U)
      BY <1>0, <3>2, <3>5, <3>7, <3>8
    <3> QED
      BY <3>9
  <2> QED
    BY <2>1, <2>2
<1>2. T \in Good
  <2> HIDE DEF Good
  <2> QED
    BY <1>1, SetInduction
<1> QED
  BY <1>2

\* A sum of nothings is nothing.
LEMMA SumOfNothings ==
  ASSUME NEW S, IsFiniteSet(S)
  PROVE  SumFunctionOnSet([x \in S |-> 0], S) = 0
<1> DEFINE zero == [x \in S |-> 0]
<1>1. SumFunctionOnSet(zero, S) = SumFunctionOnSet(zero, S) + SumFunctionOnSet(zero, S)
  BY SumOfSums
<1>2. SumFunctionOnSet(zero, S) \in Int
  BY SumIsInt
<1> HIDE DEF zero
<1>3. PICK n \in Int : n = SumFunctionOnSet(zero, S)
  BY <1>2
<1>4. n = n + n
  BY <1>1, <1>3
<1>5. n = 0
  BY <1>4
<1>6. SumFunctionOnSet(zero, S) = 0
  BY <1>3, <1>5
<1> QED
  BY <1>6 DEF zero

\* Where the rest has nothing, the sum over a part is the sum over the whole.
LEMMA SumOverPart ==
  ASSUME NEW f, NEW S, NEW T, IsFiniteSet(S), T \subseteq S,
         \A x \in T : f[x] \in Int, \A x \in S \ T : f[x] = 0
  PROVE  SumFunctionOnSet(f, S) = SumFunctionOnSet(f, T)
<1> DEFINE R == S \ T
           zero == [x \in R |-> 0]
<1>1. IsFiniteSet(T) /\ IsFiniteSet(R) /\ T \cup R = S /\ T \cap R = {}
  BY FS_Subset
<1>2. \A x \in T \cup R : f[x] \in Int
  OBVIOUS
<1>3. SumFunctionOnSet(f, T \cup R) = SumFunctionOnSet(f, T) + SumFunctionOnSet(f, R)
  <2> HIDE DEF R
  <2> QED
    BY <1>1, <1>2, SumOverUnion
<1>4. SumFunctionOnSet(f, R) = SumFunctionOnSet(zero, R)
  BY <1>1, SumOfSame
<1>5. SumFunctionOnSet(zero, R) = 0
  BY <1>1, SumOfNothings
<1>6. SumFunctionOnSet(f, T) \in Int
  BY <1>1, <1>2, SumIsInt
<1>7. SumFunctionOnSet(f, S) = SumFunctionOnSet(f, T) + SumFunctionOnSet(f, R)
  BY <1>1, <1>3
<1> HIDE DEF R, zero
<1>8. SumFunctionOnSet(f, R) = 0
  BY <1>4, <1>5
<1> QED
  BY <1>6, <1>7, <1>8

\* One element that joins, leaves or changes, and the sum follows it.
LEMMA SumMoves ==
  ASSUME NEW f, NEW g, NEW S, NEW T, NEW a, IsFiniteSet(S), IsFiniteSet(T),
         \A x \in S : f[x] \in Int, \A x \in T : g[x] \in Int,
         S \ {a} = T \ {a}, \A x \in S \ {a} : g[x] = f[x]
  PROVE  SumFunctionOnSet(g, T) = SumFunctionOnSet(f, S)
           - (IF a \in S THEN f[a] ELSE 0) + (IF a \in T THEN g[a] ELSE 0)
<1> DEFINE R == S \ {a}
<1>1. IsFiniteSet(R)
  BY FS_Subset
<1>2. SumFunctionOnSet(f, R) \in Int /\ SumFunctionOnSet(g, R) = SumFunctionOnSet(f, R)
  BY <1>1, SumIsInt, SumOfSame
<1>3. SumFunctionOnSet(f, S) = (IF a \in S THEN f[a] ELSE 0) + SumFunctionOnSet(f, R)
  <2>1. CASE a \in S
    BY <2>1, SumWithout
  <2>2. CASE a \notin S
    <3>1. R = S
      BY <2>2
    <3> HIDE DEF R
    <3> QED
      BY <1>2, <2>2, <3>1
  <2> QED
    BY <2>1, <2>2
<1>4. SumFunctionOnSet(g, T) = (IF a \in T THEN g[a] ELSE 0) + SumFunctionOnSet(g, R)
  <2>1. CASE a \in T
    BY <2>1, SumWithout
  <2>2. CASE a \notin T
    <3>1. R = T
      BY <2>2
    <3> HIDE DEF R
    <3> QED
      BY <1>2, <2>2, <3>1
  <2> QED
    BY <2>1, <2>2
<1> HIDE DEF R
<1> QED
  BY <1>2, <1>3, <1>4

\* Leaving elements out of a sum of natural numbers does not make it larger.
LEMMA SumOfLess ==
  ASSUME NEW f, NEW g, NEW S, NEW T, IsFiniteSet(S), T \subseteq S,
         \A x \in S : f[x] \in Nat, \A x \in T : g[x] = f[x]
  PROVE  SumFunctionOnSet(g, T) <= SumFunctionOnSet(f, S)
<1> DEFINE R == S \ T
<1>1. IsFiniteSet(T) /\ IsFiniteSet(R) /\ T \cup R = S /\ T \cap R = {}
  BY FS_Subset
<1>2. SumFunctionOnSet(g, T) = SumFunctionOnSet(f, T)
  BY <1>1, SumOfSame
<1>3. SumFunctionOnSet(f, T) \in Nat /\ SumFunctionOnSet(f, R) \in Nat
  BY <1>1, SumIsNat
<1>4. SumFunctionOnSet(f, T \cup R) = SumFunctionOnSet(f, T) + SumFunctionOnSet(f, R)
  <2>1. \A x \in T \cup R : f[x] \in Int
    OBVIOUS
  <2> HIDE DEF R
  <2> QED
    BY <1>1, <2>1, SumOverUnion
<1>5. SumFunctionOnSet(f, S) = SumFunctionOnSet(f, T) + SumFunctionOnSet(f, R)
  BY <1>1, <1>4
<1> HIDE DEF R
<1> QED
  BY <1>2, <1>3, <1>5

\* A sum of positive numbers is at least how many they are.
LEMMA SumOfPositive ==
  ASSUME NEW f, NEW S, IsFiniteSet(S), \A x \in S : f[x] \in Nat \ {0}
  PROVE  Cardinality(S) \in Nat /\ Cardinality(S) <= SumFunctionOnSet(f, S)
<1> DEFINE Sum(T) == SumFunctionOnSet(f, T)
           Good == {T \in SUBSET S : Cardinality(T) <= Sum(T)}
<1>1. ASSUME NEW T \in SUBSET S, \A U \in SUBSET T : U # T => U \in Good
      PROVE  T \in Good
  <2>1. CASE T = {}
    BY <2>1, SumOfNone, FS_EmptySet
  <2>2. CASE T # {}
    <3>1. PICK x : x \in T
      BY <2>2
    <3>2. IsFiniteSet(T) /\ T \ {x} \in Good
      BY <1>1, <3>1, FS_Subset
    <3>3. Cardinality(T \ {x}) = Cardinality(T) - 1 /\ Cardinality(T) \in Nat
      BY <3>1, <3>2, FS_RemoveElement, FS_CardinalityType
    <3>4. Sum(T) = f[x] + Sum(T \ {x})
      BY <3>1, <3>2, SumWithout
    <3>5. Sum(T \ {x}) \in Int /\ f[x] \in Nat \ {0}
      BY <3>1, <3>2, FS_Subset, SumIsInt
    <3>6. Cardinality(T \ {x}) <= Sum(T \ {x})
      BY <3>2
    <3> HIDE DEF Sum
    <3>7. Cardinality(T) <= Sum(T)
      BY <3>3, <3>4, <3>5, <3>6
    <3> QED
      BY <3>7
  <2> QED
    BY <2>1, <2>2
<1> HIDE DEF Good
<1>2. S \in Good
  BY <1>1, SetInduction
<1> QED
  BY <1>2, FS_CardinalityType DEF Good

\* Ones sum up to how many they are.
LEMMA SumOfOnes ==
  ASSUME NEW f, NEW S, IsFiniteSet(S), \A x \in S : f[x] = 1
  PROVE  SumFunctionOnSet(f, S) = Cardinality(S)
<1> DEFINE Sum(T) == SumFunctionOnSet(f, T)
           Good == {T \in SUBSET S : Sum(T) = Cardinality(T)}
<1>1. ASSUME NEW T \in SUBSET S, \A U \in SUBSET T : U # T => U \in Good
      PROVE  T \in Good
  <2>1. CASE T = {}
    BY <2>1, SumOfNone, FS_EmptySet
  <2>2. CASE T # {}
    <3>1. PICK x : x \in T
      BY <2>2
    <3>2. IsFiniteSet(T) /\ T \ {x} \in Good
      BY <1>1, <3>1, FS_Subset
    <3>3. Cardinality(T \ {x}) = Cardinality(T) - 1 /\ Cardinality(T) \in Nat
      BY <3>1, <3>2, FS_RemoveElement, FS_CardinalityType
    <3>4. Sum(T) = f[x] + Sum(T \ {x})
      BY <3>1, <3>2, SumWithout
    <3>5. Sum(T \ {x}) = Cardinality(T \ {x}) /\ f[x] = 1
      BY <3>1, <3>2
    <3> HIDE DEF Sum
    <3>6. Sum(T) = Cardinality(T)
      BY <3>3, <3>4, <3>5
    <3> QED
      BY <3>6
  <2> QED
    BY <2>1, <2>2
<1> HIDE DEF Good
<1>2. S \in Good
  BY <1>1, SetInduction
<1> QED
  BY <1>2 DEF Good

\* A factor may be taken out of a sum.
LEMMA SumScales ==
  ASSUME NEW f, NEW g, NEW c \in Int, NEW S, IsFiniteSet(S),
         \A x \in S : f[x] \in Int /\ g[x] = c * f[x]
  PROVE  SumFunctionOnSet(g, S) = c * SumFunctionOnSet(f, S)
<1> DEFINE F(T) == SumFunctionOnSet(f, T)
           G(T) == SumFunctionOnSet(g, T)
           Good == {T \in SUBSET S : G(T) = c * F(T)}
<1>0. \A x \in S : g[x] \in Int
  OBVIOUS
<1>1. ASSUME NEW T \in SUBSET S, \A U \in SUBSET T : U # T => U \in Good
      PROVE  T \in Good
  <2>1. CASE T = {}
    BY <2>1, SumOfNone
  <2>2. CASE T # {}
    <3>1. PICK x : x \in T
      BY <2>2
    <3>2. IsFiniteSet(T) /\ IsFiniteSet(T \ {x}) /\ T \ {x} \in Good
      BY <1>1, <3>1, FS_Subset
    <3>3. F(T) = f[x] + F(T \ {x})
      BY <3>1, <3>2, SumWithout
    <3>4. G(T) = g[x] + G(T \ {x})
      BY <1>0, <3>1, <3>2, SumWithout
    <3>5. F(T \ {x}) \in Int
      BY <3>2, SumIsInt
    <3>6. G(T \ {x}) = c * F(T \ {x}) /\ f[x] \in Int /\ g[x] = c * f[x]
      BY <3>1, <3>2
    <3> HIDE DEF F, G
    <3>7. G(T) = c * F(T)
      <4>1. \A a, d \in Int : c * a + c * d = c * (a + d)
        OBVIOUS
      <4> QED
        BY <3>3, <3>4, <3>5, <3>6, <4>1
    <3> QED
      BY <3>7
  <2> QED
    BY <2>1, <2>2
<1> HIDE DEF Good
<1>2. S \in Good
  BY <1>1, SetInduction
<1> QED
  BY <1>2 DEF Good

\* A table sums to the same by rows and by columns.
LEMMA SumByColumns ==
  ASSUME NEW F, NEW S, NEW T, IsFiniteSet(S), IsFiniteSet(T),
         \A x \in S : \A y \in T : F[x][y] \in Int
  PROVE  SumFunctionOnSet([y \in T |-> SumFunctionOnSet([x \in S |-> F[x][y]], S)], T)
           = SumFunctionOnSet([x \in S |-> SumFunctionOnSet(F[x], T)], S)
<1> DEFINE Column(y, U) == SumFunctionOnSet([x \in S |-> F[x][y]], U)
           Columns(U) == [y \in T |-> Column(y, U)]
           row == [x \in S |-> SumFunctionOnSet(F[x], T)]
           Good == {U \in SUBSET S :
                      SumFunctionOnSet(Columns(U), T) = SumFunctionOnSet(row, U)}
<1>0. \A x \in S : row[x] \in Int /\ row[x] = SumFunctionOnSet(F[x], T)
  BY SumIsInt
<1>1. ASSUME NEW U \in SUBSET S, \A V \in SUBSET U : V # U => V \in Good
      PROVE  U \in Good
  <2>1. CASE U = {}
    <3>1. \A y \in T \ {} : Columns(U)[y] = 0
      BY <2>1, SumOfNone
    <3>2. SumFunctionOnSet(Columns(U), T) = SumFunctionOnSet(Columns(U), {})
      <4> HIDE DEF Columns
      <4> QED
        BY <3>1, SumOverPart
    <3> QED
      BY <2>1, <3>2, SumOfNone
  <2>2. CASE U # {}
    <3>1. PICK x : x \in U
      BY <2>2
    <3>2. IsFiniteSet(U) /\ IsFiniteSet(U \ {x}) /\ U \ {x} \in Good
      BY <1>1, <3>1, FS_Subset
    <3>3. \A y \in T : /\ Column(y, U) = F[x][y] + Column(y, U \ {x})
                       /\ Column(y, U \ {x}) \in Int
      <4> TAKE y \in T
      <4> DEFINE f == [z \in S |-> F[z][y]]
      <4>1. \A z \in U : f[z] \in Int
        OBVIOUS
      <4>2. f[x] = F[x][y]
        BY <3>1
      <4> HIDE DEF f
      <4>3. SumFunctionOnSet(f, U) = f[x] + SumFunctionOnSet(f, U \ {x})
        BY <3>1, <3>2, <4>1, SumWithout
      <4>4. SumFunctionOnSet(f, U \ {x}) \in Int
        BY <3>2, <4>1, SumIsInt
      <4> QED
        BY <4>2, <4>3, <4>4 DEF f
    <3>4. SumFunctionOnSet(Columns(U), T)
            = SumFunctionOnSet(F[x], T) + SumFunctionOnSet(Columns(U \ {x}), T)
      <4>1. PICK f : f = F[x]
        OBVIOUS
      <4>2. PICK h : h = Columns(U)
        OBVIOUS
      <4>3. PICK g : g = Columns(U \ {x})
        OBVIOUS
      <4>4. \A y \in T : f[y] \in Int /\ g[y] \in Int /\ h[y] = f[y] + g[y]
        BY <3>1, <3>3, <4>1, <4>2, <4>3
      <4>5. SumFunctionOnSet(h, T) = SumFunctionOnSet(f, T) + SumFunctionOnSet(g, T)
        BY <4>4, SumOfSums
      <4> QED
        BY <4>1, <4>2, <4>3, <4>5
    <3>5. SumFunctionOnSet(row, U) = row[x] + SumFunctionOnSet(row, U \ {x})
      <4> HIDE DEF row
      <4> QED
        BY <1>0, <3>1, <3>2, SumWithout
    <3>6. SumFunctionOnSet(Columns(U \ {x}), T) = SumFunctionOnSet(row, U \ {x})
      BY <3>2
    <3>7. row[x] = SumFunctionOnSet(F[x], T)
      BY <1>0, <3>1
    <3> HIDE DEF row, Columns
    <3>8. SumFunctionOnSet(Columns(U), T) = SumFunctionOnSet(row, U)
      BY <3>4, <3>5, <3>6, <3>7
    <3> QED
      BY <3>8
  <2> QED
    BY <2>1, <2>2
<1> HIDE DEF Good
<1>2. S \in Good
  BY <1>1, SetInduction
<1> QED
  BY <1>2 DEF Good

=============================================================================
