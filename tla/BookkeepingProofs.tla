-------------------------- MODULE BookkeepingProofs -------------------------
(***************************************************************************)
(* Proofs about the two components that keep accounts: Economy, what the   *)
(* players of a match own, and Persistence, what the server remembers of   *)
(* matches.  They share no state.  The theory of sums over finite sets     *)
(* that Economy needs stands first.                                        *)
(*                                                                         *)
(* Economy.  EconomyInv is inductive.  A step's effect on the goods is     *)
(* summed up by Balanced: what the players carry and stash and what lies   *)
(* about, less the ledger, is the same before and after it, unless an      *)
(* inventory is over its limit.  One lemma for each action shows Balanced  *)
(* for that action and Kept, that it preserves the invariant and satisfies *)
(* the two action properties.                                              *)
(***************************************************************************)
EXTENDS Persistence, Economy, FiniteSetTheorems, TLAPS

-----------------------------------------------------------------------------
(* Folds over a finite set *)

\* Induction over the subsets of a finite set, for a set G of those it holds of.
LEMMA SubsetInduction ==
    ASSUME NEW S, IsFiniteSet(S), NEW G,
           \A U \in SUBSET S : (\A V \in SUBSET U : V # U => V \in G) => U \in G
    PROVE  \A U \in SUBSET S : U \in G
<1> DEFINE rest == {U \in SUBSET S : U \notin G}
<1>1. SUFFICES ASSUME rest # {} PROVE FALSE
  BY <1>1
<1>2. IsWellFoundedOn(StrictSubsetOrdering(S), SUBSET S)
  BY FS_StrictSubsetOrderingWellFounded, FS_FiniteSubsetsOfFinite
<1>3. rest \subseteq SUBSET S
  OBVIOUS
<1>4. PICK U \in rest : \A V \in rest : ~(<<V, U>> \in StrictSubsetOrdering(S))
  <2> HIDE DEF rest
  <2>. QED
    BY <1>1, <1>2, <1>3, WFMin
<1>5. ASSUME NEW V \in SUBSET U, V # U, V \notin G
      PROVE  FALSE
  <2>1. V \in rest
    BY <1>3, <1>5
  <2>2. <<V, U>> \in StrictSubsetOrdering(S)
    BY <1>3, <1>5, <2>1 DEF StrictSubsetOrdering
  <2>. QED
    BY <1>4, <2>1, <2>2
<1>. QED
  BY <1>4, <1>5

\* f folds the subsets of S: base for the empty one, and for another what op makes of the
\* element that is picked from it and of the fold of the rest.
IsFold(f, S, base, op, pick) ==
    f = [s \in SUBSET S |-> IF s = {} THEN base ELSE op[<<pick[s], f[s \ {pick[s]}]>>]]

\* Folds of two sets agree on what is a subset of both.
LEMMA FoldUnique ==
    ASSUME NEW S, IsFiniteSet(S), NEW base, NEW op, NEW pick,
           \A s \in SUBSET S : s # {} => pick[s] \in s,
           NEW T \in SUBSET S, NEW f, NEW g,
           IsFold(f, S, base, op, pick), IsFold(g, T, base, op, pick)
    PROVE  \A s \in SUBSET T : f[s] = g[s]
<1> DEFINE G == {s \in SUBSET T : f[s] = g[s]}
<1>1. IsFiniteSet(T)
  BY FS_Subset
<1>2. ASSUME NEW U \in SUBSET T, \A V \in SUBSET U : V # U => V \in G
      PROVE  U \in G
  <2>1. CASE U = {}
    BY <2>1 DEF IsFold
  <2>2. CASE U # {}
    <3>1. pick[U] \in U
      BY <2>2
    <3>2. U \ {pick[U]} \in G
      BY <1>2, <3>1
    <3>3. f[U] = op[<<pick[U], f[U \ {pick[U]}]>>]
      BY <2>2 DEF IsFold
    <3>4. g[U] = op[<<pick[U], g[U \ {pick[U]}]>>]
      BY <2>2 DEF IsFold
    <3>. QED
      BY <3>2, <3>3, <3>4
  <2>. QED
    BY <2>1, <2>2
<1>3. \A U \in SUBSET T : U \in G
  <2> HIDE DEF G
  <2>. QED
    BY <1>1, <1>2, SubsetInduction
<1>. QED
  BY <1>3

\* A fold exists.
LEMMA FoldExists ==
    ASSUME NEW S, IsFiniteSet(S), NEW base, NEW op, NEW pick,
           \A s \in SUBSET S : s # {} => pick[s] \in s
    PROVE  \E f : IsFold(f, S, base, op, pick)
<1> DEFINE Has(T) == \E f : IsFold(f, T, base, op, pick)
           F(T) == CHOOSE f : IsFold(f, T, base, op, pick)
           G == {T \in SUBSET S : Has(T)}
<1>1. ASSUME NEW T \in SUBSET S, \A V \in SUBSET T : V # T => V \in G
      PROVE  T \in G
  <2> DEFINE Val(s) == F(s)[s]
             Body(s, v) == IF s = {} THEN base ELSE op[<<pick[s], v>>]
             g == [s \in SUBSET T |-> IF s = T THEN Body(s, Val(s \ {pick[s]})) ELSE Val(s)]
  <2>1. ASSUME NEW V \in SUBSET T, V # T
        PROVE  IsFold(F(V), V, base, op, pick)
    BY <1>1, <2>1
  <2>2. ASSUME NEW V \in SUBSET T, V # T
        PROVE  Val(V) = Body(V, Val(V \ {pick[V]}))
    <3>1. CASE V = {}
      BY <2>1, <2>2, <3>1 DEF IsFold
    <3>2. CASE V # {}
      <4> DEFINE W == V \ {pick[V]}
      <4>1. pick[V] \in V
        BY <3>2
      <4>2. W \in SUBSET V /\ W # T /\ W \in SUBSET T
        BY <4>1
      <4>3. IsFold(F(V), V, base, op, pick) /\ IsFold(F(W), W, base, op, pick)
        BY <2>1, <2>2, <4>2
      <4>4. IsFiniteSet(V) /\ \A s \in SUBSET V : s # {} => pick[s] \in s
        BY FS_Subset
      <4>5. F(V)[W] = F(W)[W]
        <5> HIDE DEF F, W
        <5>. QED
          BY <4>2, <4>3, <4>4, FoldUnique
      <4>6. F(V)[V] = op[<<pick[V], F(V)[W]>>]
        <5> HIDE DEF F
        <5>. QED
          BY <3>2, <4>3 DEF IsFold
      <4>. QED
        <5> HIDE DEF F
        <5>. QED
          BY <3>2, <4>5, <4>6
    <3>. QED
      BY <3>1, <3>2
  <2>3. ASSUME NEW s \in SUBSET T
        PROVE  g[s] = Body(s, g[s \ {pick[s]}])
    <3>1. CASE s = {}
      BY <2>2, <3>1
    <3>2. CASE s # {}
      <4>1. pick[s] \in s
        BY <3>2
      <4>2. s \ {pick[s]} \in SUBSET T /\ s \ {pick[s]} # T
        BY <4>1
      <4>3. g[s \ {pick[s]}] = Val(s \ {pick[s]})
        BY <4>2
      <4>4. g[s] = Body(s, Val(s \ {pick[s]}))
        <5> HIDE DEF Val, Body
        <5>. QED
          BY <2>2
      <4>. QED
        BY <4>3, <4>4
    <3>. QED
      BY <3>1, <3>2
  <2>4. IsFold(g, T, base, op, pick)
    <3>1. g = [s \in SUBSET T |-> g[s]]
      OBVIOUS
    <3>2. g = [s \in SUBSET T |-> Body(s, g[s \ {pick[s]}])]
      <4> HIDE DEF g, Body
      <4>. QED
        BY <2>3, <3>1
    <3> HIDE DEF g
    <3>. QED
      BY <3>2 DEF IsFold
  <2>. QED
    <3> HIDE DEF g
    <3>. QED
      BY <2>4
<1>2. \A T \in SUBSET S : T \in G
  <2> HIDE DEF G
  <2>. QED
    BY <1>1, SubsetInduction
<1>. QED
  BY <1>2

\* A fold has the type of its base and of its operation.
LEMMA FoldType ==
    ASSUME NEW S, IsFiniteSet(S), NEW A, NEW base \in A, NEW op, NEW pick,
           \A x \in S, a \in A : op[<<x, a>>] \in A,
           \A s \in SUBSET S : s # {} => pick[s] \in s,
           NEW f, IsFold(f, S, base, op, pick)
    PROVE  f \in [SUBSET S -> A]
<1> DEFINE G == {s \in SUBSET S : f[s] \in A}
<1>1. ASSUME NEW U \in SUBSET S, \A V \in SUBSET U : V # U => V \in G
      PROVE  U \in G
  <2>1. CASE U = {}
    BY <2>1 DEF IsFold
  <2>2. CASE U # {}
    <3>1. pick[U] \in U
      BY <2>2
    <3>2. U \ {pick[U]} \in G
      BY <1>1, <3>1
    <3>3. f[U] = op[<<pick[U], f[U \ {pick[U]}]>>]
      BY <2>2 DEF IsFold
    <3>. QED
      BY <3>1, <3>2, <3>3
  <2>. QED
    BY <2>1, <2>2
<1>2. \A U \in SUBSET S : U \in G
  <2> HIDE DEF G
  <2>. QED
    BY <1>1, SubsetInduction
<1>3. f = [s \in SUBSET S |-> f[s]]
  BY DEF IsFold
<1>. QED
  BY <1>2, <1>3

-----------------------------------------------------------------------------
(* Sums over a finite set *)

\* The recursive function behind SumFunctionOnSet.
SumOver(f, S) ==
    CHOOSE g : g = [s \in SUBSET S |-> IF s = {} THEN 0
                                       ELSE f[CHOOSE x \in s : TRUE] + g[s \ {CHOOSE x \in s : TRUE}]]

LEMMA SumIsFold ==
    ASSUME NEW S, IsFiniteSet(S), NEW f, \A x \in S : f[x] \in Int
    PROVE  LET op == [xa \in S \X Int |-> f[xa[1]] + xa[2]]
               pick == [s \in SUBSET S |-> CHOOSE x \in s : TRUE]
           IN /\ SumOver(f, S) \in [SUBSET S -> Int]
              /\ \A s \in SUBSET S : s # {} => pick[s] \in s
              /\ IsFold(SumOver(f, S), S, 0, op, pick)
              /\ SumFunctionOnSet(f, S) = SumOver(f, S)[S]
<1> DEFINE op == [xa \in S \X Int |-> f[xa[1]] + xa[2]]
           pick == [s \in SUBSET S |-> CHOOSE x \in s : TRUE]
           Eq(g) == g = [s \in SUBSET S |-> IF s = {} THEN 0
                                       ELSE f[CHOOSE x \in s : TRUE] + g[s \ {CHOOSE x \in s : TRUE}]]
<1>1. \A s \in SUBSET S : s # {} => pick[s] \in s
  OBVIOUS
<1>2. \A x \in S, a \in Int : op[<<x, a>>] = f[x] + a /\ op[<<x, a>>] \in Int
  OBVIOUS
<1>3. ASSUME NEW g, IsFold(g, S, 0, op, pick)
      PROVE  Eq(g) /\ g \in [SUBSET S -> Int]
  <2>1. g \in [SUBSET S -> Int]
    <3>1. 0 \in Int /\ \A x \in S, a \in Int : op[<<x, a>>] \in Int
      BY <1>2
    <3> HIDE DEF op, pick, Eq
    <3>. QED
      BY <1>1, <1>3, <3>1, FoldType
  <2>2. ASSUME NEW s \in SUBSET S, s # {}
        PROVE  op[<<pick[s], g[s \ {pick[s]}]>>] = f[pick[s]] + g[s \ {pick[s]}]
    <3> HIDE DEF op
    <3>. QED
      BY <1>1, <1>2, <2>1, <2>2
  <2>3. g = [s \in SUBSET S |-> IF s = {} THEN 0 ELSE op[<<pick[s], g[s \ {pick[s]}]>>]]
    BY <1>3 DEF IsFold
  <2>4. g = [s \in SUBSET S |-> IF s = {} THEN 0 ELSE f[pick[s]] + g[s \ {pick[s]}]]
    <3> HIDE DEF op, pick
    <3>. QED
      BY <2>2, <2>3
  <2>. QED
    BY <2>1, <2>4
<1>4. ASSUME NEW g, Eq(g)
      PROVE  IsFold(g, S, 0, op, pick)
  <2>1. g = [s \in SUBSET S |-> IF s = {} THEN 0 ELSE f[pick[s]] + g[s \ {pick[s]}]]
    BY <1>4
  <2> DEFINE G == {s \in SUBSET S : g[s] \in Int}
  <2>2. ASSUME NEW U \in SUBSET S, \A V \in SUBSET U : V # U => V \in G
        PROVE  U \in G
    <3>1. CASE U = {}
      BY <2>1, <3>1
    <3>2. CASE U # {}
      <4>1. pick[U] \in U
        BY <1>1, <3>2
      <4> HIDE DEF pick
      <4>2. U \ {pick[U]} \in G
        BY <2>2, <4>1
      <4>3. g[U] = f[pick[U]] + g[U \ {pick[U]}]
        BY <2>1, <3>2
      <4>. QED
        BY <4>1, <4>2, <4>3
    <3>. QED
      BY <3>1, <3>2
  <2>3. \A U \in SUBSET S : U \in G
    <3> HIDE DEF G
    <3>. QED
      BY <2>2, SubsetInduction
  <2>4. ASSUME NEW s \in SUBSET S, s # {}
        PROVE  op[<<pick[s], g[s \ {pick[s]}]>>] = f[pick[s]] + g[s \ {pick[s]}]
    <3> HIDE DEF op, pick
    <3>. QED
      BY <1>1, <1>2, <2>3, <2>4
  <2> HIDE DEF op, pick
  <2>5. g = [s \in SUBSET S |-> IF s = {} THEN 0 ELSE op[<<pick[s], g[s \ {pick[s]}]>>]]
    BY <2>1, <2>4
  <2>. QED
    BY <2>5 DEF IsFold
<1>5. \E g : Eq(g)
  <2>1. \E g : IsFold(g, S, 0, op, pick)
    <3> HIDE DEF op, pick
    <3>. QED
      BY <1>1, FoldExists
  <2>. QED
    <3> HIDE DEF op, pick, Eq
    <3>. QED
      BY <1>3, <2>1
<1>6. Eq(SumOver(f, S))
  BY <1>5 DEF SumOver
<1>7. SumFunctionOnSet(f, S) = SumOver(f, S)[S]
  BY DEF SumFunctionOnSet, FoldFunctionOnSet, MapThenFoldSet, SumOver
<1>8. IsFold(SumOver(f, S), S, 0, op, pick) /\ SumOver(f, S) \in [SUBSET S -> Int]
  <2> HIDE DEF Eq, op, pick
  <2>. QED
    BY <1>3, <1>4, <1>6
<1>. QED
  BY <1>1, <1>7, <1>8


Ints(f, S) == \A x \in S : f[x] \in Int

LEMMA SumEmpty ==
    ASSUME NEW f
    PROVE  SumFunctionOnSet(f, {}) = 0
<1>1. SUFFICES ASSUME NEW S, S = {}
               PROVE  SumFunctionOnSet(f, S) = 0
  BY <1>1
<1> DEFINE op == [xa \in S \X Int |-> f[xa[1]] + xa[2]]
           pick == [s \in SUBSET S |-> CHOOSE x \in s : TRUE]
<1>2. IsFiniteSet(S) /\ \A x \in S : f[x] \in Int
  BY <1>1, FS_EmptySet
<1>3. IsFold(SumOver(f, S), S, 0, op, pick) /\ SumFunctionOnSet(f, S) = SumOver(f, S)[S]
  BY <1>2, SumIsFold
<1>4. SumOver(f, S)[S] = 0
  <2> HIDE DEF op, pick
  <2>. QED
    BY <1>1, <1>3 DEF IsFold
<1>. QED
  BY <1>3, <1>4

\* The sum of a set that is not empty: the element picked, and the rest.
LEMMA SumPick ==
    ASSUME NEW S, IsFiniteSet(S), S # {}, NEW f, Ints(f, S)
    PROVE  LET x == CHOOSE x \in S : TRUE
           IN /\ x \in S
              /\ SumFunctionOnSet(f, S) = f[x] + SumFunctionOnSet(f, S \ {x})
<1> DEFINE op(U) == [xa \in U \X Int |-> f[xa[1]] + xa[2]]
           pick(U) == [s \in SUBSET U |-> CHOOSE x \in s : TRUE]
           x == CHOOSE x \in S : TRUE
           T == S \ {x}
<1>1. x \in S
  OBVIOUS
<1>2. IsFiniteSet(T) /\ Ints(f, T) /\ T \in SUBSET S
  BY FS_Subset DEF Ints
<1>3. /\ SumOver(f, S) \in [SUBSET S -> Int]
      /\ \A s \in SUBSET S : s # {} => pick(S)[s] \in s
      /\ IsFold(SumOver(f, S), S, 0, op(S), pick(S))
      /\ SumFunctionOnSet(f, S) = SumOver(f, S)[S]
  BY SumIsFold DEF Ints
<1>4. /\ SumOver(f, T) \in [SUBSET T -> Int]
      /\ IsFold(SumOver(f, T), T, 0, op(T), pick(T))
      /\ SumFunctionOnSet(f, T) = SumOver(f, T)[T]
  BY <1>2, SumIsFold DEF Ints
<1>5. IsFold(SumOver(f, T), T, 0, op(S), pick(S))
  <2> DEFINE g == SumOver(f, T)
  <2>1. g = [s \in SUBSET T |-> IF s = {} THEN 0
                                ELSE op(T)[<<pick(T)[s], g[s \ {pick(T)[s]}]>>]]
    BY <1>4 DEF IsFold
  <2>2. ASSUME NEW s \in SUBSET T, s # {}
        PROVE  op(T)[<<pick(T)[s], g[s \ {pick(T)[s]}]>>] = op(S)[<<pick(S)[s], g[s \ {pick(S)[s]}]>>]
    <3>1. s \in SUBSET S
      BY <1>2
    <3>2. pick(T)[s] = pick(S)[s] /\ pick(S)[s] \in s
      BY <2>2, <3>1
    <3> HIDE DEF pick
    <3>3. pick(S)[s] \in T /\ pick(S)[s] \in S
      BY <1>2, <3>2
    <3>4. g[s \ {pick(S)[s]}] \in Int
      BY <1>4
    <3> HIDE DEF g, T
    <3>5. \A y \in Int, z \in S : z \in T => op(T)[<<z, y>>] = op(S)[<<z, y>>]
      OBVIOUS
    <3> HIDE DEF op
    <3>. QED
      BY <3>2, <3>3, <3>4, <3>5
  <2> HIDE DEF g, op, pick, T
  <2>3. g = [s \in SUBSET T |-> IF s = {} THEN 0
                                ELSE op(S)[<<pick(S)[s], g[s \ {pick(S)[s]}]>>]]
    BY <2>1, <2>2
  <2>. QED
    BY <2>3 DEF IsFold, g
<1>6. SumOver(f, S)[T] = SumOver(f, T)[T]
  <2> HIDE DEF op, pick, T
  <2>. QED
    BY <1>2, <1>3, <1>5, FoldUnique
<1>7. SumOver(f, S)[S] = op(S)[<<pick(S)[S], SumOver(f, S)[S \ {pick(S)[S]}]>>]
  <2> HIDE DEF op, pick, T
  <2>. QED
    BY <1>3 DEF IsFold
<1>8. pick(S)[S] = x /\ SumOver(f, S)[T] \in Int
  BY <1>2, <1>3
<1>9. op(S)[<<x, SumOver(f, S)[T]>>] = f[x] + SumOver(f, S)[T]
  <2> HIDE DEF x, T
  <2>. QED
    BY <1>1, <1>8
<1>. QED
  <2> HIDE DEF op, pick
  <2>. QED
    BY <1>1, <1>3, <1>4, <1>6, <1>7, <1>8, <1>9

LEMMA SumInt ==
    ASSUME NEW S, IsFiniteSet(S), NEW f, Ints(f, S)
    PROVE  SumFunctionOnSet(f, S) \in Int
<1>1. SumFunctionOnSet(f, S) = SumOver(f, S)[S] /\ SumOver(f, S) \in [SUBSET S -> Int]
  BY SumIsFold DEF Ints
<1>. QED
  BY <1>1

\* The order of a sum does not matter: any element may be taken out.
LEMMA SumRemove ==
    ASSUME NEW S, IsFiniteSet(S), NEW f, Ints(f, S), NEW x \in S
    PROVE  SumFunctionOnSet(f, S) = f[x] + SumFunctionOnSet(f, S \ {x})
<1> DEFINE G == {s \in SUBSET S : \A y \in s : SumFunctionOnSet(f, s) = f[y] + SumFunctionOnSet(f, s \ {y})}
<1>1. ASSUME NEW U \in SUBSET S, \A V \in SUBSET U : V # U => V \in G
      PROVE  U \in G
  <2>1. SUFFICES ASSUME NEW y \in U
                 PROVE  SumFunctionOnSet(f, U) = f[y] + SumFunctionOnSet(f, U \ {y})
    OBVIOUS
  <2>2. IsFiniteSet(U) /\ Ints(f, U)
    BY FS_Subset DEF Ints
  <2>3. PICK c \in U : SumFunctionOnSet(f, U) = f[c] + SumFunctionOnSet(f, U \ {c})
    BY <2>2, SumPick
  <2>4. CASE y = c
    BY <2>3, <2>4
  <2>5. CASE y # c
    <3>1. U \ {c} \in G /\ U \ {y} \in G
      BY <1>1
    <3> DEFINE W == (U \ {y}) \ {c}
    <3>2. SumFunctionOnSet(f, U \ {c}) = f[y] + SumFunctionOnSet(f, W)
      <4>1. W = (U \ {c}) \ {y}
        OBVIOUS
      <4>. QED
        BY <2>5, <3>1, <4>1
    <3>3. SumFunctionOnSet(f, U \ {y}) = f[c] + SumFunctionOnSet(f, W)
      BY <2>5, <3>1
    <3>4. IsFiniteSet(W) /\ Ints(f, W)
      BY <2>2, FS_Subset DEF Ints
    <3> HIDE DEF W
    <3>5. SumFunctionOnSet(f, W) \in Int /\ f[y] \in Int /\ f[c] \in Int
      BY <2>2, <3>4, SumInt DEF Ints
    <3>. QED
      BY <2>3, <3>2, <3>3, <3>5
  <2>. QED
    BY <2>4, <2>5
<1>2. \A U \in SUBSET S : U \in G
  <2> HIDE DEF G
  <2>. QED
    BY <1>1, SubsetInduction
<1>3. S \in G
  BY <1>2
<1>. QED
  BY <1>3

\* A sum depends on the values of its elements only.
LEMMA SumSame ==
    ASSUME NEW S, IsFiniteSet(S), NEW f, NEW g, Ints(f, S), \A x \in S : g[x] = f[x]
    PROVE  SumFunctionOnSet(g, S) = SumFunctionOnSet(f, S)
<1> DEFINE G == {s \in SUBSET S : SumFunctionOnSet(g, s) = SumFunctionOnSet(f, s)}
<1>1. ASSUME NEW U \in SUBSET S, \A V \in SUBSET U : V # U => V \in G
      PROVE  U \in G
  <2>1. IsFiniteSet(U) /\ Ints(f, U) /\ Ints(g, U)
    BY FS_Subset DEF Ints
  <2>2. CASE U = {}
    BY <2>2, SumEmpty
  <2>3. CASE U # {}
    <3>1. PICK c \in U : TRUE
      BY <2>3
    <3>2. U \ {c} \in G
      BY <1>1, <3>1
    <3>. QED
      BY <2>1, <3>1, <3>2, SumRemove
  <2>. QED
    BY <2>2, <2>3
<1>2. \A U \in SUBSET S : U \in G
  <2> HIDE DEF G
  <2>. QED
    BY <1>1, SubsetInduction
<1>. QED
  BY <1>2


\* What is added to a part of the values is added to their sum.
LEMMA SumDifference ==
    ASSUME NEW S, IsFiniteSet(S), NEW f \in [S -> Int], NEW g \in [S -> Int],
           NEW A \in SUBSET S, \A x \in S \ A : g[x] = f[x]
    PROVE  SumFunction(g) = SumFunction(f) + SumFunction([x \in A |-> g[x] - f[x]])
<1> DEFINE h == [x \in A |-> g[x] - f[x]]
           Sum(e, s) == SumFunctionOnSet(e, s)
           G == {s \in SUBSET S : Sum(g, s) = Sum(f, s) + Sum(h, s \cap A)}
<1>1. ASSUME NEW U \in SUBSET S, \A V \in SUBSET U : V # U => V \in G
      PROVE  U \in G
  <2>1. CASE U = {}
    <3>1. U \cap A = {}
      BY <2>1
    <3>. QED
      BY <2>1, <3>1, SumEmpty
  <2>2. CASE U # {}
    <3>1. PICK c \in U : TRUE
      BY <2>2
    <3> DEFINE V == U \ {c}
    <3>2. Sum(g, V) = Sum(f, V) + Sum(h, V \cap A)
      BY <1>1, <3>1
    <3>3. IsFiniteSet(U) /\ IsFiniteSet(V) /\ IsFiniteSet(U \cap A) /\ IsFiniteSet(V \cap A)
      BY FS_Subset
    <3>4. /\ Ints(f, U) /\ Ints(g, U) /\ Ints(f, V) /\ Ints(g, V)
          /\ Ints(h, U \cap A) /\ Ints(h, V \cap A)
      BY DEF Ints
    <3>5. Sum(f, U) = f[c] + Sum(f, V) /\ Sum(g, U) = g[c] + Sum(g, V)
      BY <3>3, <3>4, SumRemove
    <3>6. Sum(f, V) \in Int /\ Sum(h, V \cap A) \in Int
      <4> HIDE DEF V, h
      <4>. QED
        BY <3>3, <3>4, SumInt
    <3>7. f[c] \in Int /\ g[c] \in Int
      BY <3>4 DEF Ints
    <3>8. CASE c \in A
      <4>1. V \cap A = (U \cap A) \ {c}
        OBVIOUS
      <4>2. Sum(h, U \cap A) = h[c] + Sum(h, V \cap A)
        <5> HIDE DEF h, V
        <5>. QED
          BY <3>3, <3>4, <3>8, <4>1, SumRemove
      <4>3. h[c] = g[c] - f[c]
        BY <3>8
      <4>. QED
        <5> HIDE DEF h, V, Sum
        <5>. QED
          BY <3>2, <3>5, <3>6, <3>7, <4>2, <4>3
    <3>9. CASE c \notin A
      <4>1. V \cap A = U \cap A
        BY <3>9
      <4>2. g[c] = f[c]
        BY <3>9
      <4>3. Sum(h, U \cap A) = Sum(h, V \cap A)
        BY <4>1
      <4>. QED
        <5> HIDE DEF h, V, Sum
        <5>. QED
          BY <3>2, <3>5, <3>6, <3>7, <4>2, <4>3
    <3>. QED
      BY <3>8, <3>9
  <2>. QED
    BY <2>1, <2>2
<1>2. \A U \in SUBSET S : U \in G
  <2> HIDE DEF G
  <2>. QED
    BY <1>1, SubsetInduction
<1>3. Sum(g, S) = Sum(f, S) + Sum(h, A)
  <2>1. S \cap A = A
    OBVIOUS
  <2>. QED
    BY <1>2, <2>1
<1>4. DOMAIN f = S /\ DOMAIN g = S /\ DOMAIN h = A
  OBVIOUS
<1>. QED
  <2> HIDE DEF h
  <2>1. SumFunction(g) = SumFunction(f) + SumFunction(h)
    BY <1>3, <1>4 DEF SumFunction
  <2>. QED
    BY <2>1 DEF h

LEMMA SumFunctionInt ==
    ASSUME NEW S, IsFiniteSet(S), NEW f \in [S -> Int]
    PROVE  SumFunction(f) \in Int
<1>1. Ints(f, S) /\ DOMAIN f = S
  BY DEF Ints
<1>. QED
  BY <1>1, SumInt DEF SumFunction

LEMMA SumSingle ==
    ASSUME NEW x, NEW f, f[x] \in Int, DOMAIN f = {x}
    PROVE  SumFunction(f) = f[x]
<1>1. IsFiniteSet({x}) /\ Ints(f, {x})
  BY FS_Singleton DEF Ints
<1>2. {x} \ {x} = {}
  OBVIOUS
<1>3. SumFunctionOnSet(f, {x}) = f[x] + SumFunctionOnSet(f, {x} \ {x})
  BY <1>1, SumRemove
<1>4. SumFunctionOnSet(f, {x} \ {x}) = 0
  BY <1>2, SumEmpty
<1>. QED
  BY <1>3, <1>4 DEF SumFunction

\* One value changes.
LEMMA SumChange ==
    ASSUME NEW S, IsFiniteSet(S), NEW f \in [S -> Int], NEW g \in [S -> Int],
           NEW x \in S, \A y \in S : y # x => g[y] = f[y]
    PROVE  SumFunction(g) = SumFunction(f) + g[x] - f[x]
<1> DEFINE h == [y \in {x} |-> g[y] - f[y]]
<1>1. SumFunction(g) = SumFunction(f) + SumFunction(h)
  BY SumDifference
<1>2. h[x] = g[x] - f[x] /\ DOMAIN h = {x} /\ g[x] - f[x] \in Int
  OBVIOUS
<1>3. SumFunction(h) = g[x] - f[x]
  <2> HIDE DEF h
  <2>. QED
    BY <1>2, SumSingle
<1>4. SumFunction(f) \in Int
  BY SumFunctionInt
<1>. QED
  <2> HIDE DEF h
  <2>. QED
    BY <1>1, <1>3, <1>4

\* Two values change.
LEMMA SumChangeTwo ==
    ASSUME NEW S, IsFiniteSet(S), NEW f \in [S -> Int], NEW g \in [S -> Int],
           NEW x \in S, NEW z \in S, x # z, \A y \in S : y \notin {x, z} => g[y] = f[y]
    PROVE  SumFunction(g) = SumFunction(f) + (g[x] - f[x]) + (g[z] - f[z])
<1> DEFINE m == [f EXCEPT ![x] = g[x]]
<1>1. m \in [S -> Int] /\ m[x] = g[x] /\ m[z] = f[z] /\ \A y \in S : y # x => m[y] = f[y]
  OBVIOUS
<1>2. \A y \in S : y # z => g[y] = m[y]
  BY <1>1
<1> HIDE DEF m
<1>3. SumFunction(m) = SumFunction(f) + g[x] - f[x]
  BY <1>1, SumChange
<1>4. SumFunction(g) = SumFunction(m) + g[z] - f[z]
  BY <1>1, <1>2, SumChange
<1>5. SumFunction(f) \in Int
  BY SumFunctionInt
<1>. QED
  BY <1>3, <1>4, <1>5

LEMMA SumNotPositive ==
    ASSUME NEW S, IsFiniteSet(S), NEW f \in [S -> Int], \A x \in S : f[x] <= 0
    PROVE  SumFunction(f) <= 0
<1> DEFINE Sum(s) == SumFunctionOnSet(f, s)
           G == {s \in SUBSET S : Sum(s) <= 0}
<1>1. ASSUME NEW U \in SUBSET S, \A V \in SUBSET U : V # U => V \in G
      PROVE  U \in G
  <2>1. CASE U = {}
    BY <2>1, SumEmpty
  <2>2. CASE U # {}
    <3>1. PICK c \in U : TRUE
      BY <2>2
    <3> DEFINE V == U \ {c}
    <3>2. Sum(V) <= 0
      BY <1>1, <3>1
    <3>3. IsFiniteSet(U) /\ IsFiniteSet(V) /\ Ints(f, U) /\ Ints(f, V)
      BY FS_Subset DEF Ints
    <3>4. Sum(U) = f[c] + Sum(V)
      BY <3>3, SumRemove
    <3>5. Sum(V) \in Int
      <4> HIDE DEF V
      <4>. QED
        BY <3>3, SumInt
    <3>6. f[c] \in Int /\ f[c] <= 0
      OBVIOUS
    <3>. QED
      <4> HIDE DEF V, Sum
      <4>. QED
        BY <3>2, <3>4, <3>5, <3>6
  <2>. QED
    BY <2>1, <2>2
<1>2. \A U \in SUBSET S : U \in G
  <2> HIDE DEF G
  <2>. QED
    BY <1>1, SubsetInduction
<1>3. Sum(S) <= 0 /\ DOMAIN f = S
  BY <1>2
<1>. QED
  BY <1>3 DEF SumFunction

LEMMA SumZero ==
    ASSUME NEW S, IsFiniteSet(S), NEW f \in [S -> Int], \A x \in S : f[x] = 0
    PROVE  SumFunction(f) = 0
<1> DEFINE Sum(s) == SumFunctionOnSet(f, s)
           G == {s \in SUBSET S : Sum(s) = 0}
<1>1. ASSUME NEW U \in SUBSET S, \A V \in SUBSET U : V # U => V \in G
      PROVE  U \in G
  <2>1. CASE U = {}
    BY <2>1, SumEmpty
  <2>2. CASE U # {}
    <3>1. PICK c \in U : TRUE
      BY <2>2
    <3>2. Sum(U \ {c}) = 0
      BY <1>1, <3>1
    <3>3. IsFiniteSet(U) /\ Ints(f, U)
      BY FS_Subset DEF Ints
    <3>4. Sum(U) = f[c] + Sum(U \ {c})
      BY <3>3, SumRemove
    <3>. QED
      BY <3>2, <3>4
  <2>. QED
    BY <2>1, <2>2
<1>2. \A U \in SUBSET S : U \in G
  <2> HIDE DEF G
  <2>. QED
    BY <1>1, SubsetInduction
<1>3. Sum(S) = 0 /\ DOMAIN f = S
  BY <1>2
<1>. QED
  BY <1>3 DEF SumFunction

\* The sum of ones is how many there are.
LEMMA SumOfOnes ==
    ASSUME NEW S, IsFiniteSet(S), NEW f \in [S -> Int], \A x \in S : f[x] = 1
    PROVE  SumFunction(f) = Cardinality(S)
<1> DEFINE Sum(s) == SumFunctionOnSet(f, s)
           G == {s \in SUBSET S : Sum(s) = Cardinality(s)}
<1>1. ASSUME NEW U \in SUBSET S, \A V \in SUBSET U : V # U => V \in G
      PROVE  U \in G
  <2>1. CASE U = {}
    BY <2>1, SumEmpty, FS_EmptySet
  <2>2. CASE U # {}
    <3>1. PICK c \in U : TRUE
      BY <2>2
    <3>2. Sum(U \ {c}) = Cardinality(U \ {c})
      BY <1>1, <3>1
    <3>3. IsFiniteSet(U) /\ Ints(f, U)
      BY FS_Subset DEF Ints
    <3>4. Sum(U) = 1 + Sum(U \ {c})
      BY <3>3, SumRemove
    <3>5. Cardinality(U \ {c}) = Cardinality(U) - 1 /\ Cardinality(U) \in Nat
      BY <3>1, <3>3, FS_RemoveElement, FS_CardinalityType
    <3>. QED
      BY <3>2, <3>4, <3>5
  <2>. QED
    BY <2>1, <2>2
<1>2. \A U \in SUBSET S : U \in G
  <2> HIDE DEF G
  <2>. QED
    BY <1>1, SubsetInduction
<1>3. Sum(S) = Cardinality(S) /\ DOMAIN f = S
  BY <1>2
<1>. QED
  BY <1>3 DEF SumFunction

-----------------------------------------------------------------------------
(* Constants, inventories and weapons *)

LEMMA Constants ==
    /\ BaseSlots \in Nat /\ BaseSlots >= 3 /\ StashSlots \in Nat /\ SatchelBonus \in Nat
    /\ MaxStack \in Nat /\ MaxStack >= 1 /\ AmmoMax \in 0 .. MaxStack /\ MaxCardsHeld \in Nat
    /\ Amounts \subseteq 1 .. MaxStack
    /\ MoneyCardCost \in [Items -> Nat]
    /\ {"baton", "bullet", "golden_bullet", "metal_slab", "pistol", "satchel", "wood"} \subseteq Items
    /\ TaskItems \subseteq Items
BY EconomyAssumption

LEMMA ItemsFinite ==
    /\ IsFiniteSet(Items)
    /\ DOMAIN ItemOrder = 1 .. Len(ItemOrder) /\ Len(ItemOrder) \in Nat
    /\ \A k \in DOMAIN ItemOrder : ItemOrder[k] \in Items
<1>1. ItemOrder \in Seq(STRING)
  BY EconomyAssumption
<1>2. DOMAIN ItemOrder = 1 .. Len(ItemOrder) /\ Len(ItemOrder) \in Nat
  BY <1>1
<1>3. ItemOrder \in Surjection(1 .. Len(ItemOrder), Items)
  BY <1>1, <1>2 DEF Surjection, Items, ToSet
<1>4. IsFiniteSet(1 .. Len(ItemOrder))
  BY <1>2, FS_Interval
<1>. QED
  BY <1>2, <1>3, <1>4, FS_Surjection DEF Items, ToSet

LEMMA PlayersFinite ==
    ASSUME match \in Matches
    PROVE  IsFiniteSet(Players) /\ Authority \subseteq Players
BY EconomyAssumption DEF Players, Authority

\* The least of some numbers is one of them.
LEMMA MinIsIn ==
    ASSUME NEW S \in SUBSET Nat, S # {}
    PROVE  Min(S) \in S
<1>1. PICK m \in S : \A y \in S : ~(<<y, m>> \in OpToRel(<, Nat))
  BY NatLessThanWellFounded, WFMin
<1>2. ASSUME NEW y \in S
      PROVE  m <= y
  <2>1. y \in Nat /\ m \in Nat /\ <<y, m>> \in Nat \X Nat
    OBVIOUS
  <2>2. y < m => <<y, m>> \in OpToRel(<, Nat)
    BY <2>1 DEF OpToRel
  <2>3. ~(y < m)
    BY <1>1, <2>2, Zenon
  <2>. QED
    BY <2>1, <2>3
<1>. QED
  BY <1>2 DEF Min

\* The greatest of finitely many numbers is one of them.
LEMMA MaxIsIn ==
    ASSUME NEW S \in SUBSET Int, IsFiniteSet(S), S # {}
    PROVE  Max(S) \in S /\ \A y \in S : Max(S) >= y
<1> DEFINE G == {s \in SUBSET S : s = {} \/ \E m \in s : \A y \in s : m >= y}
<1>1. ASSUME NEW U \in SUBSET S, \A V \in SUBSET U : V # U => V \in G
      PROVE  U \in G
  <2>1. SUFFICES ASSUME NEW c \in U
                 PROVE  \E m \in U : \A y \in U : m >= y
    OBVIOUS
  <2>2. U \ {c} \in G
    BY <1>1
  <2>3. CASE U \ {c} = {}
    BY <2>3
  <2>4. ASSUME NEW m \in U \ {c}, \A y \in U \ {c} : m >= y
        PROVE  \E n \in U : \A y \in U : n >= y
    <3>1. CASE m >= c
      BY <2>4, <3>1
    <3>2. CASE ~(m >= c)
      BY <2>4, <3>2
    <3>. QED
      BY <3>1, <3>2
  <2>. QED
    BY <2>2, <2>3, <2>4
<1>2. \A U \in SUBSET S : U \in G
  <2> HIDE DEF G
  <2>. QED
    BY <1>1, SubsetInduction
<1>3. \E m \in S : \A y \in S : m >= y
  BY <1>2
<1>. QED
  BY <1>3 DEF Max

LEMMA StacksFinite ==
    ASSUME NEW inv
    PROVE  IsFiniteSet(Stacks(inv)) /\ Cardinality(Stacks(inv)) \in Nat
<1>1. Stacks(inv) \subseteq Items
  BY DEF Stacks
<1>. QED
  BY <1>1, ItemsFinite, FS_Subset, FS_CardinalityType

LEMMA TimesGrows ==
    ASSUME NEW a \in Nat, NEW b \in Nat, NEW c \in Nat, a <= b
    PROVE  a * c <= b * c /\ a * c \in Nat /\ b * c \in Nat
<1>1. PICK d \in Nat : b = a + d
  <2>1. b - a \in Nat /\ b = a + (b - a)
    OBVIOUS
  <2>. QED
    BY <2>1
<1>2. b * c = a * c + d * c
  BY <1>1
<1>3. a * c \in Nat /\ d * c \in Nat
  OBVIOUS
<1>. QED
  BY <1>2, <1>3

\* An inventory with no more stacks and no fewer satchels is within its limit too.
LEMMA LimitKept ==
    ASSUME NEW inv \in Inventories, NEW jnv \in Inventories, NEW base \in Nat,
           WithinLimit(inv, base),
           \A i \in Items : jnv[i] > 0 => inv[i] > 0,
           jnv["satchel"] >= inv["satchel"]
    PROVE  WithinLimit(jnv, base)
<1>1. Stacks(jnv) \subseteq Stacks(inv)
  BY DEF Stacks
<1>2. Cardinality(Stacks(jnv)) <= Cardinality(Stacks(inv))
  BY <1>1, StacksFinite, FS_Subset
<1>3. inv["satchel"] \in Nat /\ jnv["satchel"] \in Nat
  BY Constants DEF Inventories
<1>4. /\ inv["satchel"] * SatchelBonus <= jnv["satchel"] * SatchelBonus
      /\ inv["satchel"] * SatchelBonus \in Nat /\ jnv["satchel"] * SatchelBonus \in Nat
  BY <1>3, Constants, TimesGrows
<1>. QED
  BY <1>2, <1>4, StacksFinite DEF WithinLimit, stackLimitForBase

LEMMA EmptyFits ==
    EmptyInventory \in Inventories /\ \A base \in Nat : WithinLimit(EmptyInventory, base)
<1>1. EmptyInventory \in Inventories
  BY Constants DEF EmptyInventory, Inventories
<1>2. Stacks(EmptyInventory) = {}
  BY DEF Stacks, EmptyInventory
<1>3. EmptyInventory["satchel"] * SatchelBonus = 0
  BY Constants DEF EmptyInventory
<1>. QED
  BY <1>1, <1>2, <1>3, FS_EmptySet DEF WithinLimit, stackLimitForBase

\* addToInventory: one stack grows, or nothing changes; the limit is kept either way.
LEMMA AddFacts ==
    ASSUME NEW inv \in Inventories, NEW i \in Items, NEW n \in Nat, NEW base \in Nat
    PROVE  LET jnv == AddItem(inv, i, n, base)
           IN /\ jnv \in Inventories
              /\ \A j \in Items : j # i => jnv[j] = inv[j]
              /\ CanAdd(inv, i, n, base) => jnv[i] = inv[i] + n /\ WithinLimit(jnv, base)
              /\ ~CanAdd(inv, i, n, base) => jnv = inv
<1>1. CASE CanAdd(inv, i, n, base)
  <2>1. AddItem(inv, i, n, base) = [inv EXCEPT ![i] = @ + n]
    BY <1>1 DEF AddItem
  <2>2. inv[i] + n \in 0 .. MaxStack
    BY <1>1, Constants DEF CanAdd, Inventories
  <2>3. WithinLimit([inv EXCEPT ![i] = @ + n], base)
    BY <1>1 DEF CanAdd
  <2>. QED
    BY <1>1, <2>1, <2>2, <2>3 DEF Inventories
<1>2. CASE ~CanAdd(inv, i, n, base)
  BY <1>2 DEF AddItem
<1>. QED
  BY <1>1, <1>2

\* RemoveItem, and what gifts and thefts do without its check.
LEMMA WithoutFacts ==
    ASSUME NEW inv \in Inventories, NEW i \in Items, NEW n \in Nat, inv[i] >= n
    PROVE  LET jnv == Without(inv, i, n)
           IN /\ jnv \in Inventories
              /\ \A j \in Items : j # i => jnv[j] = inv[j]
              /\ jnv[i] = inv[i] - n
              /\ \A base \in Nat : WithinLimit(inv, base) /\ CanRemove(inv, i, n, base)
                                      => WithinLimit(jnv, base)
              /\ \A base \in Nat : WithinLimit(inv, base) /\ i # "satchel" => WithinLimit(jnv, base)
<1> DEFINE jnv == Without(inv, i, n)
<1>1. jnv = [inv EXCEPT ![i] = @ - n]
  BY DEF Without
<1>2. inv[i] \in 0 .. MaxStack /\ inv[i] - n \in 0 .. MaxStack
  BY Constants DEF Inventories
<1>3. jnv \in Inventories /\ jnv[i] = inv[i] - n /\ \A j \in Items : j # i => jnv[j] = inv[j]
  BY <1>1, <1>2 DEF Inventories
<1> HIDE DEF jnv
<1>4. ASSUME NEW base \in Nat, WithinLimit(inv, base), i # "satchel"
      PROVE  WithinLimit(jnv, base)
  <2>1. \A j \in Items : jnv[j] > 0 => inv[j] > 0
    BY <1>2, <1>3
  <2>2. jnv["satchel"] = inv["satchel"] /\ inv["satchel"] \in Nat
    BY <1>3, <1>4, Constants DEF Inventories
  <2>. QED
    BY <1>3, <1>4, <2>1, <2>2, LimitKept
<1>5. ASSUME NEW base \in Nat, WithinLimit(inv, base), CanRemove(inv, i, n, base)
      PROVE  WithinLimit(jnv, base)
  <2>1. CASE i = "satchel"
    BY <1>1, <1>5, <2>1 DEF CanRemove
  <2>. QED
    BY <1>4, <1>5, <2>1
<1>. QED
  BY <1>3, <1>4, <1>5 DEF jnv

-----------------------------------------------------------------------------
(* One player *)

\* The weapon in hand, of a player who lives, is carried.
Held(q) == q.alive /\ q.equipped # "none" => CanUseWeapon(q, q.equipped)

\* No more stacks than slots.
Fine(q) == WithinLimit(q.inv, BaseSlots)

LEMMA PreferredFacts ==
    ASSUME NEW q
    PROVE  LET w == preferredEquippedWeapon(q)
           IN w = "none" \/ (w \in ToSet(WeaponPriority) /\ CanUseWeapon(q, w))
<1> DEFINE usable == {k \in DOMAIN WeaponPriority : CanUseWeapon(q, WeaponPriority[k])}
<1>1. DOMAIN WeaponPriority \subseteq Nat
  BY DEF WeaponPriority
<1>2. CASE usable = {}
  BY <1>2 DEF preferredEquippedWeapon
<1>3. CASE usable # {}
  <2>1. Min(usable) \in usable
    BY <1>1, <1>3, MinIsIn
  <2>2. preferredEquippedWeapon(q) = WeaponPriority[Min(usable)]
    BY <1>3 DEF preferredEquippedWeapon
  <2>3. /\ CanUseWeapon(q, WeaponPriority[Min(usable)])
        /\ WeaponPriority[Min(usable)] \in ToSet(WeaponPriority)
    BY <2>1 DEF ToSet
  <2>. QED
    BY <2>2, <2>3
<1>. QED
  BY <1>2, <1>3

\* ensureEquippedItem changes the weapon in hand and nothing else.
LEMMA EnsureFacts ==
    ASSUME NEW q \in PlayerStates
    PROVE  LET r == ensureEquippedItem(q)
           IN /\ r \in PlayerStates
              /\ r.alive = q.alive /\ r.inv = q.inv /\ r.bullets = q.bullets
              /\ r.cards = q.cards /\ r.offered = q.offered
              /\ Held(r)
<1>1. CASE CanUseWeapon(q, q.equipped)
  BY <1>1 DEF ensureEquippedItem, Held
<1>2. CASE ~CanUseWeapon(q, q.equipped)
  <2> DEFINE w == preferredEquippedWeapon(q)
             r == [q EXCEPT !.equipped = w]
  <2>1. ensureEquippedItem(q) = r
    BY <1>2 DEF ensureEquippedItem
  <2>2. w = "none" \/ (w \in ToSet(WeaponPriority) /\ CanUseWeapon(q, w))
    BY PreferredFacts
  <2> HIDE DEF w
  <2>3. /\ r \in PlayerStates /\ r.equipped = w
        /\ r.alive = q.alive /\ r.inv = q.inv /\ r.bullets = q.bullets
        /\ r.cards = q.cards /\ r.offered = q.offered
    BY <2>2 DEF PlayerStates
  <2>4. CanUseWeapon(r, w) <=> CanUseWeapon(q, w)
    BY <2>3 DEF CanUseWeapon
  <2>. QED
    BY <2>1, <2>2, <2>3, <2>4 DEF Held
<1>. QED
  BY <1>1, <1>2

\* syncAuthorityBulletStackLocked changes the bullets and nothing else.
LEMMA SyncFacts ==
    ASSUME NEW q \in PlayerStates
    PROVE  LET r == SyncBullets(q)
           IN /\ r \in PlayerStates
              /\ r.alive = q.alive /\ r.equipped = q.equipped
              /\ r.cards = q.cards /\ r.offered = q.offered
              /\ \A i \in Items \ {"bullet"} : r.inv[i] = q.inv[i]
              /\ Fine(q) => Fine(r)
<1> DEFINE b == Min({q.bullets, AmmoMax})
           bare == [q.inv EXCEPT !["bullet"] = 0]
           inv == IF b = 0 THEN bare ELSE AddItem(bare, "bullet", b, BaseSlots)
           r == [q EXCEPT !.bullets = b, !.inv = inv]
<1>1. SyncBullets(q) = r
  BY DEF SyncBullets
<1>2. b \in 0 .. MaxStack /\ b \in Nat
  <2>1. {q.bullets, AmmoMax} \in SUBSET Nat /\ {q.bullets, AmmoMax} # {}
    BY Constants DEF PlayerStates
  <2>2. b \in {q.bullets, AmmoMax}
    BY <2>1, MinIsIn
  <2>. QED
    BY <2>2, Constants DEF PlayerStates
<1>3. q.inv \in Inventories
  BY DEF PlayerStates
<1>4. bare \in Inventories /\ bare["bullet"] = 0 /\ \A i \in Items : i # "bullet" => bare[i] = q.inv[i]
  BY <1>3, Constants DEF Inventories
<1> HIDE DEF b, bare
<1>5. Fine(q) => WithinLimit(bare, BaseSlots)
  <2>1. bare["satchel"] = q.inv["satchel"] /\ q.inv["satchel"] \in Nat
    BY <1>3, <1>4, Constants DEF Inventories
  <2>2. \A i \in Items : bare[i] > 0 => q.inv[i] > 0
    BY <1>4
  <2>. QED
    BY <1>3, <1>4, <2>1, <2>2, LimitKept, Constants DEF Fine
<1>6. /\ inv \in Inventories
      /\ \A i \in Items \ {"bullet"} : inv[i] = q.inv[i]
      /\ Fine(q) => WithinLimit(inv, BaseSlots)
  <2>1. CASE b = 0
    BY <1>4, <1>5, <2>1
  <2>2. CASE b # 0
    <3> DEFINE jnv == AddItem(bare, "bullet", b, BaseSlots)
    <3>1. inv = jnv
      BY <2>2
    <3>2. "bullet" \in Items /\ BaseSlots \in Nat
      BY Constants
    <3>3. /\ jnv \in Inventories
          /\ \A j \in Items : j # "bullet" => jnv[j] = bare[j]
          /\ WithinLimit(bare, BaseSlots) => WithinLimit(jnv, BaseSlots)
      <4> HIDE DEF inv
      <4>. QED
        BY <1>2, <1>4, <3>2, AddFacts
    <3> HIDE DEF inv, jnv
    <3>. QED
      BY <1>4, <1>5, <3>1, <3>3
  <2>. QED
    BY <2>1, <2>2
<1> HIDE DEF inv
<1>7. /\ r \in PlayerStates /\ r.inv = inv
      /\ r.alive = q.alive /\ r.equipped = q.equipped
      /\ r.cards = q.cards /\ r.offered = q.offered
  BY <1>2, <1>6 DEF PlayerStates
<1>. QED
  BY <1>1, <1>6, <1>7 DEF Fine

LEMMA EvictFacts ==
    ASSUME NEW inv \in Inventories
    PROVE  /\ Evict(inv) \in Inventories
           /\ \A i \in Items : Evict(inv)[i] <= inv[i]
           /\ WithinLimit(inv, BaseSlots) => WithinLimit(Evict(inv), BaseSlots)
<1> DEFINE Evictable(i) == /\ i \notin {"baton", "pistol", "bullet"} /\ inv[i] > 0
                           /\ CanRemove(inv, i, inv[i], BaseSlots)
           evictable == {k \in DOMAIN ItemOrder : Evictable(ItemOrder[k])}
           victim == IF evictable = {} THEN "bullet" ELSE ItemOrder[Min(evictable)]
           e == [inv EXCEPT ![victim] = 0]
<1>1. Evict(inv) = e
  BY DEF Evict
<1>2. victim \in Items /\ (victim = "bullet" \/ Evictable(victim))
  <2>1. CASE evictable = {}
    BY <2>1, Constants
  <2>2. CASE evictable # {}
    <3>1. evictable \in SUBSET Nat
      BY ItemsFinite
    <3>2. Min(evictable) \in evictable
      BY <2>2, <3>1, MinIsIn
    <3>. QED
      BY <2>2, <3>2, ItemsFinite
  <2>. QED
    BY <2>1, <2>2
<1> HIDE DEF victim, evictable
<1>3. /\ e \in Inventories /\ e[victim] = 0
      /\ \A i \in Items : e[i] <= inv[i] /\ (i # victim => e[i] = inv[i])
  BY <1>2, Constants DEF Inventories
<1>4. ASSUME WithinLimit(inv, BaseSlots)
      PROVE  WithinLimit(e, BaseSlots)
  <2>1. CASE victim = "satchel"
    <3>1. CanRemove(inv, victim, inv[victim], BaseSlots)
      BY <1>2, <2>1
    <3>2. inv[victim] - inv[victim] = 0
      BY <1>2, Constants DEF Inventories
    <3>3. [inv EXCEPT ![victim] = @ - inv[victim]] = e
      BY <3>2
    <3>. QED
      BY <2>1, <3>1, <3>3 DEF CanRemove
  <2>2. CASE victim # "satchel"
    <3> HIDE DEF e
    <3>1. \A i \in Items : e[i] > 0 => inv[i] > 0
      BY <1>3, <1>2 DEF Inventories
    <3>2. e["satchel"] = inv["satchel"] /\ inv["satchel"] \in Nat
      BY <1>3, <2>2, Constants DEF Inventories
    <3>. QED
      BY <1>3, <1>4, <3>1, <3>2, LimitKept, Constants
  <2>. QED
    BY <2>1, <2>2
<1>. QED
  BY <1>1, <1>3, <1>4

\* The recursive function behind normalizeInventoryToPlayerSlots: what is kept of the
\* stacks at some places of the order.
Keep(inv, s, kept) ==
    LET i == ItemOrder[Max(s)]
    IN IF inv[i] = 0 THEN kept ELSE AddItem(kept, i, inv[i], BaseSlots)

KeptOver(inv) ==
    CHOOSE g : g = [s \in SUBSET (DOMAIN ItemOrder) |->
                       IF s = {} THEN EmptyInventory ELSE Keep(inv, s, g[s \ {Max(s)}])]

LEMMA KeptIsFold ==
    ASSUME NEW inv \in Inventories
    PROVE  /\ KeptOver(inv) = [s \in SUBSET (DOMAIN ItemOrder) |->
                                  IF s = {} THEN EmptyInventory
                                  ELSE Keep(inv, s, KeptOver(inv)[s \ {Max(s)}])]
           /\ \A s \in SUBSET (DOMAIN ItemOrder) : s # {} => Max(s) \in s
           /\ normalizeInventoryToPlayerSlots(inv) = KeptOver(inv)[DOMAIN ItemOrder]
<1> DEFINE D == DOMAIN ItemOrder
           One(i, kept) == IF inv[i] = 0 THEN kept ELSE AddItem(kept, i, inv[i], BaseSlots)
           op == [xa \in D \X Inventories |-> One(ItemOrder[xa[1]], xa[2])]
           pick == [s \in SUBSET D |-> Max(s)]
           Eq(g) == g = [s \in SUBSET D |->
                            IF s = {} THEN EmptyInventory ELSE Keep(inv, s, g[s \ {Max(s)}])]
<1>1. IsFiniteSet(D) /\ D \subseteq Int
  BY ItemsFinite, FS_Interval
<1>2. \A s \in SUBSET D : s # {} => Max(s) \in s
  <2> HIDE DEF D
  <2>1. ASSUME NEW s \in SUBSET D, s # {}
        PROVE  Max(s) \in s
    <3>1. IsFiniteSet(s) /\ s \in SUBSET Int
      BY <1>1, FS_Subset
    <3>. QED
      BY <2>1, <3>1, MaxIsIn
  <2>. QED
    BY <2>1
<1>3. \A s \in SUBSET D : s # {} => pick[s] \in s
  BY <1>2
<1>4. ASSUME NEW x \in D, NEW a \in Inventories
      PROVE  op[<<x, a>>] = One(ItemOrder[x], a) /\ op[<<x, a>>] \in Inventories
  <2>1. op[<<x, a>>] = One(ItemOrder[x], a)
    OBVIOUS
  <2>2. ItemOrder[x] \in Items /\ inv[ItemOrder[x]] \in Nat /\ BaseSlots \in Nat
    BY ItemsFinite, Constants DEF Inventories
  <2> HIDE DEF op, D
  <2>3. AddItem(a, ItemOrder[x], inv[ItemOrder[x]], BaseSlots) \in Inventories
    BY <2>2, AddFacts
  <2>. QED
    BY <2>1, <2>3
<1>5. PICK g : IsFold(g, D, EmptyInventory, op, pick)
  <2> HIDE DEF D, op, pick
  <2>. QED
    BY <1>1, <1>3, FoldExists
<1>6. g \in [SUBSET D -> Inventories]
  <2>1. \A x \in D, a \in Inventories : op[<<x, a>>] \in Inventories
    BY <1>4
  <2> HIDE DEF D, op, pick
  <2>. QED
    BY <1>1, <1>3, <1>5, <2>1, EmptyFits, FoldType
<1>7. Eq(g)
  <2>1. ASSUME NEW s \in SUBSET D, s # {}
        PROVE  op[<<pick[s], g[s \ {pick[s]}]>>] = Keep(inv, s, g[s \ {Max(s)}])
    <3>1. pick[s] = Max(s) /\ Max(s) \in D
      BY <1>2, <2>1
    <3>2. g[s \ {Max(s)}] \in Inventories
      BY <1>6
    <3>3. op[<<Max(s), g[s \ {Max(s)}]>>] = One(ItemOrder[Max(s)], g[s \ {Max(s)}])
      <4> HIDE DEF op, One, D
      <4>. QED
        BY <1>4, <3>1, <3>2
    <3>. QED
      BY <3>1, <3>3 DEF Keep
  <2>2. g = [s \in SUBSET D |-> IF s = {} THEN EmptyInventory
                                ELSE op[<<pick[s], g[s \ {pick[s]}]>>]]
    BY <1>5 DEF IsFold
  <2> HIDE DEF D, op, pick
  <2>. QED
    BY <2>1, <2>2
<1>8. Eq(KeptOver(inv))
  <2>1. KeptOver(inv) = CHOOSE h : Eq(h)
    BY DEF KeptOver
  <2>2. \E h : Eq(h)
    BY <1>7
  <2> HIDE DEF Eq
  <2>. QED
    BY <2>1, <2>2
<1>9. normalizeInventoryToPlayerSlots(inv) = KeptOver(inv)[D]
  BY DEF normalizeInventoryToPlayerSlots, FoldLeft, MapThenFoldSet, KeptOver, Keep
<1>. QED
  BY <1>2, <1>8, <1>9

\* normalizeInventoryToPlayerSlotsLocked adds nothing and leaves what fits.
LEMMA NormalizeFacts ==
    ASSUME NEW inv \in Inventories
    PROVE  LET kept == normalizeInventoryToPlayerSlots(inv)
           IN /\ kept \in Inventories
              /\ \A i \in Items : kept[i] <= inv[i]
              /\ WithinLimit(kept, BaseSlots)
<1> DEFINE D == DOMAIN ItemOrder
           K == KeptOver(inv)
           Good(s, k) == /\ k \in Inventories /\ WithinLimit(k, BaseSlots)
                         /\ \A i \in Items : /\ k[i] <= inv[i]
                                             /\ (\A x \in s : ItemOrder[x] # i) => k[i] = 0
           G == {s \in SUBSET D : Good(s, K[s])}
<1>1. IsFiniteSet(D)
  BY ItemsFinite, FS_Interval
<1>2. /\ K = [s \in SUBSET D |-> IF s = {} THEN EmptyInventory ELSE Keep(inv, s, K[s \ {Max(s)}])]
      /\ \A s \in SUBSET D : s # {} => Max(s) \in s
      /\ normalizeInventoryToPlayerSlots(inv) = K[D]
  BY KeptIsFold
<1>3. \A i \in Items : inv[i] \in Nat
  BY DEF Inventories
<1>4. ASSUME NEW U \in SUBSET D, \A V \in SUBSET U : V # U => V \in G
      PROVE  U \in G
  <2>1. CASE U = {}
    <3>1. K[U] = EmptyInventory
      <4> HIDE DEF K
      <4>. QED
        BY <1>2, <2>1
    <3>2. \A i \in Items : EmptyInventory[i] = 0
      BY DEF EmptyInventory
    <3> HIDE DEF K
    <3>. QED
      BY <1>3, <3>1, <3>2, EmptyFits, Constants
  <2>2. CASE U # {}
    <3> DEFINE m == Max(U)
               V == U \ {m}
               o == ItemOrder[m]
               k == K[V]
               a == AddItem(k, o, inv[o], BaseSlots)
    <3>1. m \in U
      BY <1>2, <2>2
    <3>2. K[U] = Keep(inv, U, K[U \ {Max(U)}])
      <4> HIDE DEF K
      <4>. QED
        BY <1>2, <2>2
    <3>3. K[U] = IF inv[o] = 0 THEN k ELSE a
      BY <3>2 DEF Keep
    <3>4. V \in G
      BY <1>4, <3>1
    <3>5. Good(V, k)
      BY <3>4
    <3>6. o \in Items /\ inv[o] \in Nat /\ BaseSlots \in Nat
      BY <1>3, <3>1, ItemsFinite, Constants
    <3>7. k[o] = 0
      <4>1. \A x \in V : ItemOrder[x] # o
        <5>1. IsInjective(ItemOrder)
          BY EconomyAssumption
        <5>. QED
          BY <3>1, <5>1 DEF IsInjective
      <4> HIDE DEF K, k, V, o
      <4>. QED
        BY <3>5, <3>6, <4>1
    <3> HIDE DEF K
    <3>8. Good(U, a)
      <4>1. /\ a \in Inventories
            /\ \A j \in Items : j # o => a[j] = k[j]
            /\ a[o] = k[o] + inv[o] \/ a[o] = k[o]
            /\ WithinLimit(a, BaseSlots)
        <5> DEFINE n == inv[o]
        <5>1. k \in Inventories /\ WithinLimit(k, BaseSlots) /\ n \in Nat
          BY <3>5, <3>6
        <5> HIDE DEF k, o, n, Good, G
        <5>2. LET b == AddItem(k, o, n, BaseSlots)
              IN /\ b \in Inventories
                 /\ \A j \in Items : j # o => b[j] = k[j]
                 /\ b[o] = k[o] + n \/ b[o] = k[o]
                 /\ WithinLimit(b, BaseSlots)
          BY <3>6, <5>1, AddFacts
        <5>. QED
          BY <5>2 DEF n
      <4>2. ASSUME NEW i \in Items, \A x \in U : ItemOrder[x] # i
            PROVE  i # o /\ \A x \in V : ItemOrder[x] # i
        BY <3>1, <4>2
      <4> HIDE DEF a, k, V, o
      <4>3. ASSUME NEW i \in Items
            PROVE  a[i] <= inv[i] /\ ((\A x \in U : ItemOrder[x] # i) => a[i] = 0)
        <5>1. CASE i = o
          BY <1>3, <3>6, <3>7, <4>1, <4>2, <5>1
        <5>2. CASE i # o
          BY <3>5, <4>1, <4>2, <5>2
        <5>. QED
          BY <5>1, <5>2
      <4>. QED
        BY <4>1, <4>3
    <3>9. Good(U, k)
      <4> HIDE DEF k
      <4>. QED
        BY <3>5
    <3> HIDE DEF a, k, o, Good
    <3>. QED
      BY <3>3, <3>8, <3>9
  <2>. QED
    BY <2>1, <2>2
<1>5. \A U \in SUBSET D : U \in G
  <2> HIDE DEF G, D
  <2>. QED
    BY <1>1, <1>4, SubsetInduction
<1>6. Good(D, K[D])
  BY <1>5
<1>. QED
  <2> HIDE DEF K, D
  <2>. QED
    BY <1>2, <1>6

\* restoreAuthoritySidearmsForNewDayLocked makes batons, pistols and bullets only.
LEMMA RestoreFacts ==
    ASSUME NEW q \in PlayerStates
    PROVE  LET r == RestoreSidearms(q)
           IN /\ r \in PlayerStates
              /\ r.alive = q.alive /\ r.cards = q.cards /\ r.offered = q.offered
              /\ \A i \in Items \ {"baton", "pistol", "bullet"} : r.inv[i] <= q.inv[i]
              /\ Fine(r) /\ Held(r)
<1> DEFINE kept == normalizeInventoryToPlayerSlots(q.inv)
           baton == IF kept["baton"] > 0 THEN kept ELSE AddItem(kept, "baton", 1, BaseSlots)
           pistol == IF baton["pistol"] > 0 THEN baton
                     ELSE IF CanAdd(baton, "pistol", 1, BaseSlots)
                     THEN AddItem(baton, "pistol", 1, BaseSlots)
                     ELSE AddItem(Evict(baton), "pistol", 1, BaseSlots)
           others == Items \ {"baton", "pistol", "bullet"}
           s == [q EXCEPT !.inv = pistol]
<1>1. q.inv \in Inventories /\ \A i \in Items : q.inv[i] \in Nat
  BY DEF PlayerStates, Inventories
<1>2. {"baton", "pistol"} \subseteq Items /\ BaseSlots \in Nat
  BY Constants
<1>3. kept \in Inventories /\ WithinLimit(kept, BaseSlots) /\ \A i \in Items : kept[i] <= q.inv[i]
  BY <1>1, NormalizeFacts
<1> HIDE DEF kept
<1>4. baton \in Inventories /\ WithinLimit(baton, BaseSlots) /\ \A i \in others : baton[i] <= q.inv[i]
  <2> DEFINE a == AddItem(kept, "baton", 1, BaseSlots)
  <2>1. a \in Inventories /\ WithinLimit(a, BaseSlots) /\ \A i \in Items : i # "baton" => a[i] = kept[i]
    BY <1>2, <1>3, AddFacts
  <2> HIDE DEF a
  <2>2. CASE kept["baton"] > 0
    BY <1>3, <2>2
  <2>3. CASE ~(kept["baton"] > 0)
    BY <1>3, <2>1, <2>3 DEF a
  <2>. QED
    BY <2>2, <2>3
<1> HIDE DEF baton
<1>5. pistol \in Inventories /\ WithinLimit(pistol, BaseSlots) /\ \A i \in others : pistol[i] <= q.inv[i]
  <2> DEFINE a == AddItem(baton, "pistol", 1, BaseSlots)
             v == Evict(baton)
             b == AddItem(v, "pistol", 1, BaseSlots)
  <2>1. a \in Inventories /\ WithinLimit(a, BaseSlots) /\ \A i \in Items : i # "pistol" => a[i] = baton[i]
    BY <1>2, <1>4, AddFacts
  <2>2. v \in Inventories /\ WithinLimit(v, BaseSlots) /\ \A i \in Items : v[i] <= baton[i]
    BY <1>4, EvictFacts
  <2> HIDE DEF v
  <2>3. b \in Inventories /\ WithinLimit(b, BaseSlots) /\ \A i \in Items : i # "pistol" => b[i] = v[i]
    BY <1>2, <2>2, AddFacts
  <2>4. pistol = baton \/ pistol = a \/ pistol = b
    BY DEF v
  <2> HIDE DEF a, b, pistol
  <2>5. \A i \in others : a[i] <= q.inv[i]
    BY <1>4, <2>1
  <2>6. \A i \in others : b[i] <= q.inv[i]
    <3>1. ASSUME NEW i \in others
          PROVE  b[i] <= q.inv[i]
      <4>1. b[i] = v[i] /\ v[i] <= baton[i] /\ baton[i] <= q.inv[i]
        BY <1>4, <2>2, <2>3
      <4>2. v[i] \in Int /\ baton[i] \in Int /\ q.inv[i] \in Int
        BY <1>1, <1>4, <2>2 DEF Inventories
      <4>. QED
        BY <4>1, <4>2
    <3>. QED
      BY <3>1
  <2>. QED
    BY <1>4, <2>1, <2>3, <2>4, <2>5, <2>6
<1>6. RestoreSidearms(q) = ensureEquippedItem(SyncBullets(s))
  BY DEF RestoreSidearms, pistol, baton, kept
<1> HIDE DEF pistol
<1>7. /\ s \in PlayerStates /\ s.inv = pistol /\ s.alive = q.alive /\ s.cards = q.cards
      /\ s.offered = q.offered
  BY <1>5 DEF PlayerStates
<1>8. Fine(s)
  BY <1>5, <1>7 DEF Fine
<1> HIDE DEF s
<1> DEFINE t == SyncBullets(s)
<1>9. /\ t \in PlayerStates /\ t.alive = s.alive /\ t.cards = s.cards /\ t.offered = s.offered
      /\ \A i \in Items \ {"bullet"} : t.inv[i] = s.inv[i]
      /\ Fine(t)
  BY <1>7, <1>8, SyncFacts
<1> HIDE DEF t
<1> DEFINE r == ensureEquippedItem(t)
<1>10. /\ r \in PlayerStates /\ r.alive = t.alive /\ r.cards = t.cards /\ r.offered = t.offered
       /\ r.inv = t.inv /\ Held(r)
  BY <1>9, EnsureFacts
<1>11. r = RestoreSidearms(q)
  BY <1>6 DEF t
<1> HIDE DEF r
<1>12. Fine(r) /\ \A i \in others : r.inv[i] <= q.inv[i]
  BY <1>5, <1>7, <1>9, <1>10 DEF Fine
<1>. QED
  BY <1>7, <1>9, <1>10, <1>11, <1>12

-----------------------------------------------------------------------------
(* Units of an item *)

LEMMA SumGrows ==
    ASSUME NEW S, IsFiniteSet(S), NEW x, x \notin S,
           NEW f \in [S \cup {x} -> Int], NEW g \in [S -> Int], \A y \in S : f[y] = g[y]
    PROVE  SumFunction(f) = SumFunction(g) + f[x]
<1> DEFINE T == S \cup {x}
<1>1. IsFiniteSet(T) /\ Ints(f, T) /\ Ints(g, S) /\ x \in T
  BY FS_AddElement DEF Ints
<1>2. T \ {x} = S
  OBVIOUS
<1>3. DOMAIN f = T /\ DOMAIN g = S
  OBVIOUS
<1> HIDE DEF T
<1>4. SumFunctionOnSet(f, T) = f[x] + SumFunctionOnSet(f, S)
  BY <1>1, <1>2, SumRemove
<1>5. SumFunctionOnSet(f, S) = SumFunctionOnSet(g, S)
  BY <1>1, SumSame
<1>6. SumFunctionOnSet(g, S) \in Int /\ f[x] \in Int
  BY <1>1, SumInt DEF Ints
<1>. QED
  BY <1>3, <1>4, <1>5, <1>6 DEF SumFunction

\* What the players carry and stash of an item, and what lies about of it.
Carry(ps, st, i) == [p \in Players |-> ps[p].inv[i] + st[p][i]]

Lie(dr, i) == [d \in DOMAIN dr |-> IF d[1] = i THEN d[2] * dr[d] ELSE 0]

DroppedBag(dr) ==
    /\ DOMAIN dr \subseteq Items \X Amounts /\ IsFiniteSet(DOMAIN dr)
    /\ dr \in [DOMAIN dr -> Nat \ {0}]

LEMMA CarryType ==
    ASSUME match \in Matches, NEW i \in Items,
           NEW ps \in [Players -> PlayerStates], NEW st \in [Players -> Inventories]
    PROVE  /\ Carry(ps, st, i) \in [Players -> Int]
           /\ \A p \in Players : /\ ps[p].inv[i] \in Int /\ st[p][i] \in Int
                                 /\ Carry(ps, st, i)[p] = ps[p].inv[i] + st[p][i]
           /\ SumFunction(Carry(ps, st, i)) \in Int
<1>1. \A p \in Players : ps[p].inv[i] \in Int /\ st[p][i] \in Int
  BY DEF PlayerStates, Inventories
<1>2. Carry(ps, st, i) \in [Players -> Int]
  BY <1>1 DEF Carry
<1>3. SumFunction(Carry(ps, st, i)) \in Int
  BY <1>2, PlayersFinite, SumFunctionInt
<1>. QED
  BY <1>1, <1>2, <1>3 DEF Carry

LEMMA CarryOne ==
    ASSUME match \in Matches, NEW i \in Items,
           players \in [Players -> PlayerStates], stash \in [Players -> Inventories],
           NEW qs \in [Players -> PlayerStates], NEW tt \in [Players -> Inventories],
           NEW p \in Players,
           \A x \in Players : x # p => qs[x].inv[i] = players[x].inv[i],
           \A x \in Players : x # p => tt[x][i] = stash[x][i]
    PROVE  SumFunction(Carry(qs, tt, i)) = SumFunction(Carry(players, stash, i))
              + (qs[p].inv[i] - players[p].inv[i]) + (tt[p][i] - stash[p][i])
<1> DEFINE f == Carry(players, stash, i)
           g == Carry(qs, tt, i)
<1>1. /\ f \in [Players -> Int] /\ g \in [Players -> Int]
      /\ SumFunction(f) \in Int
      /\ \A x \in Players : /\ f[x] = players[x].inv[i] + stash[x][i] /\ g[x] = qs[x].inv[i] + tt[x][i]
                            /\ players[x].inv[i] \in Int /\ stash[x][i] \in Int
                            /\ qs[x].inv[i] \in Int /\ tt[x][i] \in Int
  BY CarryType
<1> HIDE DEF f, g
<1>2. \A x \in Players : x # p => g[x] = f[x]
  BY <1>1
<1>3. SumFunction(g) = SumFunction(f) + g[p] - f[p]
  BY <1>1, <1>2, PlayersFinite, SumChange
<1>4. g[p] - f[p] = (qs[p].inv[i] - players[p].inv[i]) + (tt[p][i] - stash[p][i])
  BY <1>1
<1>5. SumFunction(g) = SumFunction(f) + (qs[p].inv[i] - players[p].inv[i]) + (tt[p][i] - stash[p][i])
  BY <1>1, <1>3, <1>4
<1>. QED
  BY <1>5 DEF f, g

LEMMA CarryTwo ==
    ASSUME match \in Matches, NEW i \in Items,
           NEW ps \in [Players -> PlayerStates], NEW st \in [Players -> Inventories],
           NEW qs \in [Players -> PlayerStates],
           NEW p \in Players, NEW q \in Players, p # q,
           \A x \in Players : x \notin {p, q} => qs[x].inv[i] = ps[x].inv[i]
    PROVE  SumFunction(Carry(qs, st, i)) = SumFunction(Carry(ps, st, i))
              + (qs[p].inv[i] - ps[p].inv[i]) + (qs[q].inv[i] - ps[q].inv[i])
<1> DEFINE f == Carry(ps, st, i)
           g == Carry(qs, st, i)
<1>1. /\ f \in [Players -> Int] /\ g \in [Players -> Int]
      /\ SumFunction(f) \in Int
      /\ \A x \in Players : /\ f[x] = ps[x].inv[i] + st[x][i] /\ g[x] = qs[x].inv[i] + st[x][i]
                            /\ ps[x].inv[i] \in Int /\ qs[x].inv[i] \in Int /\ st[x][i] \in Int
  BY CarryType
<1> HIDE DEF f, g
<1>2. \A x \in Players : x \notin {p, q} => g[x] = f[x]
  BY <1>1
<1>3. SumFunction(g) = SumFunction(f) + (g[p] - f[p]) + (g[q] - f[q])
  BY <1>1, <1>2, PlayersFinite, SumChangeTwo
<1>4. g[p] - f[p] = qs[p].inv[i] - ps[p].inv[i] /\ g[q] - f[q] = qs[q].inv[i] - ps[q].inv[i]
  BY <1>1
<1>. QED
  BY <1>3, <1>4 DEF f, g

LEMMA LieType ==
    ASSUME NEW i, NEW B, DroppedBag(B)
    PROVE  /\ Lie(B, i) \in [DOMAIN B -> Int]
           /\ SumFunction(Lie(B, i)) \in Int
           /\ \A d \in DOMAIN B : /\ d[2] \in Nat /\ B[d] \in Nat /\ B[d] > 0
                                  /\ Lie(B, i)[d] = IF d[1] = i THEN d[2] * B[d] ELSE 0
<1>1. \A d \in DOMAIN B : d[2] \in Nat /\ B[d] \in Nat /\ B[d] > 0
  BY Constants DEF DroppedBag
<1>2. \A d \in DOMAIN B : d[2] * B[d] \in Int
  BY <1>1
<1>3. Lie(B, i) \in [DOMAIN B -> Int]
  BY <1>2 DEF Lie
<1>4. SumFunction(Lie(B, i)) \in Int
  BY <1>3, SumFunctionInt DEF DroppedBag
<1>. QED
  BY <1>1, <1>3, <1>4 DEF Lie

LEMMA TimesOneMore ==
    ASSUME NEW n \in Nat, NEW k \in Nat
    PROVE  n * (k + 1) = n * k + n /\ n * k \in Nat
OBVIOUS

\* Something is dropped.
LEMMA LieMore ==
    ASSUME NEW B, DroppedBag(B), NEW i \in Items, NEW n \in Amounts
    PROVE  LET C == B (+) SetToBag({<<i, n>>})
           IN /\ DroppedBag(C)
              /\ \A j : SumFunction(Lie(C, j)) = SumFunction(Lie(B, j)) + IF j = i THEN n ELSE 0
<1> DEFINE d == <<i, n>>
           C == B (+) SetToBag({d})
<1>1. d \in Items \X Amounts /\ n \in Nat /\ d[1] = i /\ d[2] = n
  BY Constants
<1> HIDE DEF d
<1>2. /\ DOMAIN C = DOMAIN B \cup {d}
      /\ \A e \in DOMAIN B : e # d => C[e] = B[e]
      /\ C = [e \in DOMAIN C |-> C[e]]
      /\ C[d] = (IF d \in DOMAIN B THEN B[d] ELSE 0) + 1
  <2>1. /\ DOMAIN C = DOMAIN B \cup {d}
        /\ C = [e \in DOMAIN C |-> C[e]]
    BY DEF (+), SetToBag
  <2>2. \A e \in DOMAIN B : B[e] \in Nat
    BY DEF DroppedBag
  <2>3. \A e \in DOMAIN B : e # d => C[e] = B[e]
    BY <2>2 DEF (+), SetToBag
  <2>4. C[d] = (IF d \in DOMAIN B THEN B[d] ELSE 0) + 1
    BY DEF (+), SetToBag
  <2>. QED
    BY <2>1, <2>3, <2>4
<1> HIDE DEF C
<1>3. DroppedBag(C)
  <2>1. IsFiniteSet(DOMAIN C) /\ DOMAIN C \subseteq Items \X Amounts
    BY <1>1, <1>2, FS_AddElement DEF DroppedBag
  <2>2. \A e \in DOMAIN C : C[e] \in Nat \ {0}
    <3>1. \A e \in DOMAIN B : B[e] \in Nat \ {0}
      BY DEF DroppedBag
    <3>2. C[d] \in Nat \ {0}
      BY <1>2, <3>1
    <3>. QED
      BY <1>2, <3>1, <3>2
  <2>3. C \in [DOMAIN C -> Nat \ {0}]
    BY <1>2, <2>2
  <2>. QED
    BY <2>1, <2>3 DEF DroppedBag
<1>4. ASSUME NEW j
      PROVE  SumFunction(Lie(C, j)) = SumFunction(Lie(B, j)) + IF j = i THEN n ELSE 0
  <2> DEFINE f == Lie(B, j)
             g == Lie(C, j)
  <2>1. /\ f \in [DOMAIN B -> Int] /\ g \in [DOMAIN C -> Int] /\ SumFunction(f) \in Int
        /\ \A e \in DOMAIN B : /\ f[e] = (IF e[1] = j THEN e[2] * B[e] ELSE 0)
                               /\ e[2] \in Nat /\ B[e] \in Nat
        /\ \A e \in DOMAIN C : g[e] = (IF e[1] = j THEN e[2] * C[e] ELSE 0) /\ C[e] \in Nat
    BY <1>3, LieType
  <2> HIDE DEF f, g
  <2>2. \A e \in DOMAIN B : e # d => g[e] = f[e]
    BY <1>2, <2>1
  <2>3. IsFiniteSet(DOMAIN B) /\ IsFiniteSet(DOMAIN C)
    BY <1>3 DEF DroppedBag
  <2>4. CASE d \in DOMAIN B
    <3>1. DOMAIN C = DOMAIN B
      BY <1>2, <2>4
    <3>2. SumFunction(g) = SumFunction(f) + g[d] - f[d]
      BY <2>1, <2>2, <2>3, <2>4, <3>1, SumChange
    <3>3. g[d] - f[d] = IF j = i THEN n ELSE 0
      <4>1. C[d] = B[d] + 1 /\ B[d] \in Nat
        BY <1>2, <2>1, <2>4
      <4>2. f[d] = IF i = j THEN n * B[d] ELSE 0
        BY <1>1, <2>1, <2>4
      <4>3. g[d] = IF i = j THEN n * C[d] ELSE 0
        BY <1>1, <2>1, <2>4, <3>1
      <4>4. n * (B[d] + 1) = n * B[d] + n /\ n * B[d] \in Nat
        BY <1>1, <4>1, TimesOneMore
      <4>5. n * C[d] - n * B[d] = n
        BY <1>1, <4>1, <4>4
      <4>. QED
        BY <4>2, <4>3, <4>5
    <3>4. f[d] \in Int /\ g[d] \in Int
      BY <2>1, <2>4, <3>1
    <3>. QED
      BY <2>1, <3>2, <3>3, <3>4 DEF f, g
  <2>5. CASE d \notin DOMAIN B
    <3>1. SumFunction(g) = SumFunction(f) + g[d]
      <4> DEFINE S == DOMAIN B
      <4>1. g \in [S \cup {d} -> Int] /\ f \in [S -> Int] /\ \A e \in S : g[e] = f[e]
        BY <1>2, <2>1, <2>2, <2>5
      <4> HIDE DEF S
      <4>2. IsFiniteSet(S) /\ d \notin S
        BY <2>3, <2>5 DEF S
      <4>. QED
        BY <4>1, <4>2, SumGrows
    <3>2. C[d] = 1 /\ d \in DOMAIN C
      BY <1>2, <2>5
    <3>3. g[d] = IF j = i THEN n ELSE 0
      BY <1>1, <2>1, <3>2
    <3>. QED
      BY <3>1, <3>3 DEF f, g
  <2>. QED
    BY <2>4, <2>5
<1>. QED
  BY <1>3, <1>4 DEF C, d

\* Something that lies about is picked up.
LEMMA LieFewer ==
    ASSUME NEW B, DroppedBag(B), NEW i \in Items, NEW n \in Amounts, BagIn(<<i, n>>, B)
    PROVE  LET C == B (-) SetToBag({<<i, n>>})
           IN /\ DroppedBag(C)
              /\ \A j : SumFunction(Lie(C, j)) = SumFunction(Lie(B, j)) - IF j = i THEN n ELSE 0
<1> DEFINE d == <<i, n>>
           C == B (-) SetToBag({d})
<1>1. d \in DOMAIN B /\ n \in Nat /\ d[1] = i /\ d[2] = n
  BY Constants DEF BagIn, BagToSet
<1> HIDE DEF d
<1>2. \A e \in DOMAIN B : B[e] \in Nat /\ B[e] > 0
  BY DEF DroppedBag
<1>3. /\ DOMAIN C = {e \in DOMAIN B : e # d \/ B[d] > 1}
      /\ C = [e \in DOMAIN C |-> C[e]]
      /\ \A e \in DOMAIN C : C[e] = IF e = d THEN B[d] - 1 ELSE B[e]
  <2> DEFINE A == [e \in DOMAIN B |-> IF e \in DOMAIN SetToBag({d}) THEN B[e] - SetToBag({d})[e] ELSE B[e]]
  <2>1. C = [e \in {x \in DOMAIN A : A[x] > 0} |-> A[e]]
    BY DEF (-)
  <2>2. \A e \in DOMAIN B : A[e] = IF e = d THEN B[d] - 1 ELSE B[e]
    BY DEF SetToBag
  <2>3. DOMAIN A = DOMAIN B
    OBVIOUS
  <2> HIDE DEF A, C
  <2>4. {x \in DOMAIN A : A[x] > 0} = {e \in DOMAIN B : e # d \/ B[d] > 1}
    BY <1>1, <1>2, <2>2, <2>3
  <2>. QED
    BY <2>1, <2>2, <2>3, <2>4
<1> HIDE DEF C
<1>4. DroppedBag(C)
  <2>1. IsFiniteSet(DOMAIN C) /\ DOMAIN C \subseteq Items \X Amounts
    BY <1>3, FS_Subset DEF DroppedBag
  <2>2. \A e \in DOMAIN C : C[e] \in Nat \ {0}
    BY <1>2, <1>3
  <2>3. C \in [DOMAIN C -> Nat \ {0}]
    BY <1>3, <2>2
  <2>. QED
    BY <2>1, <2>3 DEF DroppedBag
<1>5. ASSUME NEW j
      PROVE  SumFunction(Lie(C, j)) = SumFunction(Lie(B, j)) - IF j = i THEN n ELSE 0
  <2> DEFINE f == Lie(B, j)
             g == Lie(C, j)
             S == DOMAIN C
  <2>1. /\ f \in [DOMAIN B -> Int] /\ g \in [S -> Int]
        /\ SumFunction(f) \in Int /\ SumFunction(g) \in Int
        /\ \A e \in DOMAIN B : /\ f[e] = (IF e[1] = j THEN e[2] * B[e] ELSE 0)
                               /\ e[2] \in Nat /\ B[e] \in Nat
        /\ \A e \in S : g[e] = (IF e[1] = j THEN e[2] * C[e] ELSE 0) /\ C[e] \in Nat
    BY <1>4, LieType
  <2>2. IsFiniteSet(DOMAIN B) /\ IsFiniteSet(S)
    BY <1>4 DEF DroppedBag
  <2> HIDE DEF f, g
  <2>3. \A e \in S : e \in DOMAIN B /\ (e # d => f[e] = g[e])
    BY <1>3, <2>1
  <2>4. f[d] = IF j = i THEN n * B[d] ELSE 0
    BY <1>1, <2>1
  <2>5. CASE B[d] > 1
    <3>1. S = DOMAIN B /\ d \in S /\ C[d] = B[d] - 1
      BY <1>1, <1>3, <2>5
    <3> HIDE DEF S
    <3>2. SumFunction(g) = SumFunction(f) + g[d] - f[d]
      <4>1. /\ f \in [S -> Int] /\ g \in [S -> Int] /\ d \in S /\ IsFiniteSet(S)
            /\ \A e \in S : e # d => g[e] = f[e]
        BY <2>1, <2>2, <2>3, <3>1
      <4>. QED
        BY <4>1, SumChange
    <3>3. C[d] \in Nat /\ B[d] = C[d] + 1
      BY <1>1, <1>2, <2>1, <3>1
    <3>4. n * (C[d] + 1) = n * C[d] + n /\ n * C[d] \in Nat
      BY <1>1, <3>3, TimesOneMore
    <3>5. g[d] = IF j = i THEN n * C[d] ELSE 0
      BY <1>1, <2>1, <3>1
    <3>6. n * B[d] = n * C[d] + n
      BY <3>3, <3>4
    <3>7. g[d] - f[d] = 0 - IF j = i THEN n ELSE 0
      BY <1>1, <2>4, <3>4, <3>5, <3>6
    <3>8. f[d] \in Int /\ g[d] \in Int
      BY <1>1, <2>1, <3>1
    <3>9. SumFunction(g) = SumFunction(f) - IF j = i THEN n ELSE 0
      BY <1>1, <2>1, <3>2, <3>7, <3>8
    <3>. QED
      BY <3>9 DEF f, g
  <2>6. CASE ~(B[d] > 1)
    <3>1. d \notin S /\ DOMAIN B = S \cup {d} /\ B[d] = 1
      <4>1. B[d] = 1
        BY <1>1, <1>2, <2>6
      <4>2. S = {e \in DOMAIN B : e # d}
        BY <1>3, <2>6
      <4> HIDE DEF S
      <4>3. d \notin S /\ DOMAIN B = S \cup {d}
        BY <1>1, <4>2
      <4>. QED
        BY <4>1, <4>3
    <3> HIDE DEF S
    <3>2. f \in [S \cup {d} -> Int] /\ g \in [S -> Int] /\ IsFiniteSet(S) /\ d \notin S
      BY <2>1, <2>2, <3>1
    <3>3. SumFunction(f) = SumFunction(g) + f[d]
      <4>1. \A e \in S : f[e] = g[e]
        BY <2>3, <3>1
      <4>. QED
        BY <3>2, <4>1, SumGrows
    <3>4. f[d] = IF j = i THEN n ELSE 0
      BY <1>1, <2>4, <3>1
    <3>5. SumFunction(g) = SumFunction(f) - IF j = i THEN n ELSE 0
      BY <1>1, <2>1, <3>3, <3>4
    <3>. QED
      BY <3>5 DEF f, g
  <2>. QED
    BY <2>5, <2>6
<1>. QED
  BY <1>4, <1>5 DEF C, d

-----------------------------------------------------------------------------
(* What a step does to the goods *)

Units(ps, st, dr, i) == SumFunction(Carry(ps, st, i)) + SumFunction(Lie(dr, i))

LEMMA UnitsNow ==
    ASSUME NEW i
    PROVE  UnitsOf(i) = Units(players, stash, dropped, i)
BY DEF UnitsOf, Units, Carry, Lie

LEMMA UnitsNext ==
    ASSUME match' = match, NEW i
    PROVE  UnitsOf(i)' = Units(players', stash', dropped', i)
BY DEF UnitsOf, Units, Carry, Lie, Players

LEMMA UnitsType ==
    ASSUME match \in Matches, NEW i \in Items, NEW dr, DroppedBag(dr),
           NEW ps \in [Players -> PlayerStates], NEW st \in [Players -> Inventories]
    PROVE  /\ SumFunction(Carry(ps, st, i)) \in Int
           /\ SumFunction(Lie(dr, i)) \in Int
           /\ Units(ps, st, dr, i) \in Int
<1>1. SumFunction(Carry(ps, st, i)) \in Int
  BY CarryType
<1>2. SumFunction(Lie(dr, i)) \in Int
  BY LieType
<1>. QED
  BY <1>1, <1>2 DEF Units

\* How the goods move in every step: the types are kept, a step that leaves no inventory
\* over its limit leaves every weapon in hand carried, what disappears is entered in the
\* ledger, unless an inventory was overfull, and a golden bullet comes with its sale only.
Balanced ==
    /\ players' \in [Players -> PlayerStates]
    /\ stash' \in [Players -> Inventories]
    /\ DroppedBag(dropped')
    /\ ledger' \in [Items -> Int]
    /\ overfull' \in BOOLEAN
    /\ overfull => overfull'
    /\ ~overfull' => \A p \in Players : Fine(players'[p]) /\ Held(players'[p])
    /\ \A i \in Items \ {"bullet"} :
          /\ Units(players', stash', dropped', i) - ledger'[i]
                <= Units(players, stash, dropped, i) - ledger[i]
          /\ ~overfull' => Units(players', stash', dropped', i) - ledger'[i]
                              = Units(players, stash, dropped, i) - ledger[i]
    /\ sold' \in BOOLEAN
    /\ sold => sold'
    /\ ledger'["golden_bullet"] <= ledger["golden_bullet"] + IF sold' /\ ~sold THEN 1 ELSE 0

\* The types of the rest.
RestTypeOK ==
    /\ npc \in [item : NPCOffers, stock : {0, 1}, payer : Players \cup {"none"}, paid : Nat]
    /\ task \in [Players -> [day : Nat, kind : {"none", "visit_room", "hold_item"},
                             item : TaskItems \cup {"none"}]]
    /\ restocking \subseteq Authority
    /\ period \in Nat
    /\ handled \in [Players -> Nat]
    /\ given \in [Players -> Nat]
    /\ income \in [Players -> Nat]

LEMMA TypesSplit ==
    EconomyTypeOK <=>
        /\ match \in Matches
        /\ players \in [Players -> PlayerStates] /\ stash \in [Players -> Inventories]
        /\ DroppedBag(dropped) /\ ledger \in [Items -> Int]
        /\ sold \in BOOLEAN /\ overfull \in BOOLEAN
        /\ RestTypeOK
BY DEF EconomyTypeOK, RestTypeOK, DroppedBag

LEMMA TypesSplitNext ==
    ASSUME match' = match, match \in Matches,
           players' \in [Players -> PlayerStates], stash' \in [Players -> Inventories],
           DroppedBag(dropped'), ledger' \in [Items -> Int],
           sold' \in BOOLEAN, overfull' \in BOOLEAN, RestTypeOK'
    PROVE  EconomyTypeOK'
BY DEF EconomyTypeOK, RestTypeOK, DroppedBag, Players, Authority

\* One step of OneGoldenBullet and of BribePaidInFull.
GoldenStep ==
    /\ UnitsOf("golden_bullet")' <= 1
    /\ sold => UnitsOf("golden_bullet")' <= UnitsOf("golden_bullet")

BribeStep ==
    npc'.stock < npc.stock =>
        \E p \in Players : /\ players'[p].inv[npc.item] = players[p].inv[npc.item] + 1
                           /\ given'[p] >= MoneyCardCost[npc.item]

LEMMA BalancedKeeps ==
    ASSUME EconomyInv, match' = match, Balanced
    PROVE  CapacityInv' /\ EquippedIsHeld' /\ ItemsConserved' /\ GoldenInv' /\ GoldenStep
<1>1. /\ match \in Matches /\ DroppedBag(dropped) /\ ledger \in [Items -> Int]
      /\ players \in [Players -> PlayerStates] /\ stash \in [Players -> Inventories]
      /\ sold \in BOOLEAN
  BY TypesSplit DEF EconomyInv
<1>2. Players' = Players
  BY DEF Players
<1>3. CapacityInv'
  BY <1>2 DEF CapacityInv, CapacityHolds, Balanced, Fine
<1>4. EquippedIsHeld'
  BY <1>2 DEF EquippedIsHeld, Balanced, Held
<1> DEFINE u(i) == Units(players, stash, dropped, i)
           v(i) == Units(players', stash', dropped', i)
<1>5. \A i \in Items : u(i) \in Int /\ v(i) \in Int /\ ledger[i] \in Int /\ ledger'[i] \in Int
  <2>1. \A i \in Items : u(i) \in Int
    BY <1>1, UnitsType
  <2>2. \A i \in Items : v(i) \in Int
    BY <1>1, UnitsType DEF Balanced
  <2>. QED
    BY <1>1, <2>1, <2>2 DEF Balanced
<1>6. \A i \in Items \ {"bullet"} : u(i) <= ledger[i] /\ (~overfull => u(i) = ledger[i])
  BY UnitsNow DEF EconomyInv, ItemsConserved
<1>7. /\ \A i \in Items \ {"bullet"} : /\ v(i) - ledger'[i] <= u(i) - ledger[i]
                                       /\ ~overfull' => v(i) - ledger'[i] = u(i) - ledger[i]
      /\ overfull => overfull'
      /\ sold' \in BOOLEAN /\ (sold => sold')
      /\ ledger'["golden_bullet"] <= ledger["golden_bullet"] + IF sold' /\ ~sold THEN 1 ELSE 0
  BY DEF Balanced
<1>8. \A i : UnitsOf(i) = u(i) /\ UnitsOf(i)' = v(i)
  BY UnitsNow, UnitsNext
<1>9. ledger["golden_bullet"] <= IF sold THEN 1 ELSE 0
  BY DEF EconomyInv, GoldenInv
<1>10. "golden_bullet" \in Items \ {"bullet"}
  BY Constants
<1> HIDE DEF u, v
<1>11. \A i \in Items \ {"bullet"} : v(i) <= ledger'[i] /\ (~overfull' => v(i) = ledger'[i])
  BY <1>5, <1>6, <1>7
<1>12. ItemsConserved'
  BY <1>8, <1>11 DEF ItemsConserved
<1> DEFINE g == "golden_bullet"
<1> HIDE DEF g
<1>13. /\ u(g) \in Int /\ v(g) \in Int /\ ledger[g] \in Int /\ ledger'[g] \in Int
       /\ v(g) - ledger'[g] <= u(g) - ledger[g] /\ v(g) <= ledger'[g]
       /\ ledger'[g] <= ledger[g] + IF sold' /\ ~sold THEN 1 ELSE 0
       /\ ledger[g] <= IF sold THEN 1 ELSE 0
  BY <1>5, <1>7, <1>9, <1>10, <1>11 DEF g
<1>14. CASE sold
  <2>1. sold'
    BY <1>7, <1>14
  <2>2. ledger'[g] <= 1 /\ v(g) <= 1 /\ v(g) <= u(g)
    BY <1>13, <1>14
  <2>. QED
    BY <1>3, <1>4, <1>8, <1>12, <2>1, <2>2 DEF GoldenInv, GoldenStep, g
<1>15. CASE ~sold
  <2>1. ledger'[g] <= (IF sold' THEN 1 ELSE 0) /\ v(g) <= 1
    BY <1>7, <1>13, <1>15
  <2>. QED
    BY <1>3, <1>4, <1>8, <1>12, <1>15, <2>1 DEF GoldenInv, GoldenStep, g
<1>. QED
  BY <1>14, <1>15

\* A step that leaves the NPC prisoner, the tasks and the cards gained alone.
Quiet ==
    /\ UNCHANGED <<npc, task, given, income, period>>
    /\ restocking' \subseteq Authority
    /\ handled' \in [Players -> Nat]
    /\ \A p \in Players : players'[p].offered = players[p].offered

\* What every step keeps.
Kept == EconomyInv' /\ GoldenStep /\ BribeStep

LEMMA QuietKeeps ==
    ASSUME EconomyInv, match' = match, Balanced, Quiet
    PROVE  Kept
<1>1. match \in Matches /\ RestTypeOK
  BY TypesSplit DEF EconomyInv
<1>2. Players' = Players /\ Authority' = Authority /\ (IsDay' <=> IsDay)
  BY DEF Players, Authority, IsDay, Quiet
<1>3. RestTypeOK'
  BY <1>1, <1>2 DEF RestTypeOK, Quiet
<1>4. EconomyTypeOK'
  BY <1>1, <1>3, TypesSplitNext DEF Balanced
<1>5. OneCardAPeriod'
  BY <1>2 DEF EconomyInv, OneCardAPeriod, Quiet
<1>6. IncomeInv'
  <2>1. \A p \in Players : players'[p].offered = players[p].offered
    BY DEF Quiet
  <2>2. task' = task /\ income' = income /\ period' = period
    BY DEF Quiet
  <2>. QED
    BY <1>2, <2>1, <2>2 DEF EconomyInv, IncomeInv
<1>7. BribeInv'
  BY <1>2 DEF EconomyInv, BribeInv, Quiet
<1>8. BribeStep
  <2>1. npc' = npc /\ npc.stock \in {0, 1}
    BY <1>1 DEF Quiet, RestTypeOK
  <2>. QED
    BY <2>1 DEF BribeStep
<1>. QED
  BY <1>4, <1>5, <1>6, <1>7, <1>8, BalancedKeeps DEF EconomyInv, Kept

-----------------------------------------------------------------------------
(* Steps of one player and of two *)

\* What one player carries and stashes of an item with what lies about, and the ledger.
Balance(q, s, dr, led, i) == q.inv[i] + s[i] + SumFunction(Lie(dr, i)) - led[i]

LEMMA OneMoves ==
    ASSUME EconomyInv, NEW p \in Players,
           players' \in [Players -> PlayerStates], stash' \in [Players -> Inventories],
           \A x \in Players : x # p => players'[x] = players[x] /\ stash'[x] = stash[x],
           DroppedBag(dropped'), ledger' \in [Items -> Int], overfull' = overfull,
           ~overfull => Fine(players'[p]) /\ Held(players'[p]),
           \A i \in Items \ {"bullet"} :
              /\ Balance(players'[p], stash'[p], dropped', ledger', i)
                    <= Balance(players[p], stash[p], dropped, ledger, i)
              /\ ~overfull => Balance(players'[p], stash'[p], dropped', ledger', i)
                                 = Balance(players[p], stash[p], dropped, ledger, i),
           sold' \in BOOLEAN, sold => sold',
           ledger'["golden_bullet"] <= ledger["golden_bullet"] + IF sold' /\ ~sold THEN 1 ELSE 0
    PROVE  Balanced
<1>1. /\ match \in Matches /\ DroppedBag(dropped) /\ ledger \in [Items -> Int]
      /\ players \in [Players -> PlayerStates] /\ stash \in [Players -> Inventories]
      /\ overfull \in BOOLEAN
  BY TypesSplit DEF EconomyInv
<1>2. ~overfull => \A x \in Players : Fine(players'[x]) /\ Held(players'[x])
  BY DEF EconomyInv, CapacityInv, CapacityHolds, EquippedIsHeld, Fine, Held
<1>3. ASSUME NEW i \in Items \ {"bullet"}
      PROVE  /\ Units(players', stash', dropped', i) - ledger'[i]
                   <= Units(players, stash, dropped, i) - ledger[i]
             /\ ~overfull => Units(players', stash', dropped', i) - ledger'[i]
                                = Units(players, stash, dropped, i) - ledger[i]
  <2> DEFINE C == SumFunction(Carry(players, stash, i))
             D == SumFunction(Carry(players', stash', i))
             L == SumFunction(Lie(dropped, i))
             M == SumFunction(Lie(dropped', i))
  <2>1. C \in Int /\ D \in Int /\ L \in Int /\ M \in Int
    BY <1>1, UnitsType
  <2>2. D = C + (players'[p].inv[i] - players[p].inv[i]) + (stash'[p][i] - stash[p][i])
    <3>1. /\ \A x \in Players : x # p => players'[x].inv[i] = players[x].inv[i]
          /\ \A x \in Players : x # p => stash'[x][i] = stash[x][i]
      OBVIOUS
    <3>2. i \in Items
      OBVIOUS
    <3>. QED
      BY <1>1, <3>1, <3>2, CarryOne
  <2>3. /\ Units(players, stash, dropped, i) = C + L
        /\ Units(players', stash', dropped', i) = D + M
    BY DEF Units
  <2>4. /\ players'[p].inv[i] \in Int /\ stash'[p][i] \in Int /\ ledger'[i] \in Int
        /\ players[p].inv[i] \in Int /\ stash[p][i] \in Int /\ ledger[i] \in Int
    BY <1>1, CarryType
  <2>5. /\ players'[p].inv[i] + stash'[p][i] + M - ledger'[i]
              <= players[p].inv[i] + stash[p][i] + L - ledger[i]
        /\ ~overfull => players'[p].inv[i] + stash'[p][i] + M - ledger'[i]
                           = players[p].inv[i] + stash[p][i] + L - ledger[i]
    BY DEF Balance
  <2> HIDE DEF C, D, L, M
  <2>6. (D + M - ledger'[i]) - (C + L - ledger[i])
            = (players'[p].inv[i] + stash'[p][i] + M - ledger'[i])
                 - (players[p].inv[i] + stash[p][i] + L - ledger[i])
    BY <2>1, <2>2, <2>4
  <2> DEFINE a == players'[p].inv[i] + stash'[p][i] + M - ledger'[i]
             b == players[p].inv[i] + stash[p][i] + L - ledger[i]
             y == D + M - ledger'[i]
             z == C + L - ledger[i]
  <2>7. a \in Int /\ b \in Int /\ y \in Int /\ z \in Int /\ y - z = a - b
    BY <2>1, <2>4, <2>6
  <2>8. a <= b /\ (~overfull => a = b)
    BY <2>5
  <2>9. /\ y = Units(players', stash', dropped', i) - ledger'[i]
        /\ z = Units(players, stash, dropped, i) - ledger[i]
    BY <2>1, <2>3, <2>4
  <2> HIDE DEF a, b, y, z
  <2>10. y <= z /\ (~overfull => y = z)
    BY <2>7, <2>8
  <2>. QED
    BY <2>9, <2>10
<1>. QED
  BY <1>1, <1>2, <1>3 DEF Balanced

\* The same when the ledger stays as it is: a player drops, picks up or stashes something.
LEMMA OneShuffles ==
    ASSUME EconomyInv, NEW p \in Players,
           players' \in [Players -> PlayerStates], stash' \in [Players -> Inventories],
           \A x \in Players : x # p => players'[x] = players[x],
           \A x \in Players : x # p => stash'[x] = stash[x],
           DroppedBag(dropped'), ledger' = ledger, overfull' = overfull, sold' = sold,
           ~overfull => Fine(players'[p]) /\ Held(players'[p]),
           \A i \in Items \ {"bullet"} :
              LET before == players[p].inv[i] + stash[p][i] + SumFunction(Lie(dropped, i))
                  after  == players'[p].inv[i] + stash'[p][i] + SumFunction(Lie(dropped', i))
              IN after = before \/ (overfull /\ after <= before)
    PROVE  Balanced
<1>1. /\ match \in Matches /\ DroppedBag(dropped) /\ ledger \in [Items -> Int]
      /\ players \in [Players -> PlayerStates] /\ stash \in [Players -> Inventories]
      /\ sold \in BOOLEAN
  BY TypesSplit DEF EconomyInv
<1>2. ASSUME NEW i \in Items \ {"bullet"}
      PROVE  /\ Balance(players'[p], stash'[p], dropped', ledger', i)
                   <= Balance(players[p], stash[p], dropped, ledger, i)
             /\ ~overfull => Balance(players'[p], stash'[p], dropped', ledger', i)
                                = Balance(players[p], stash[p], dropped, ledger, i)
  <2>1. /\ players'[p].inv[i] \in Int /\ stash'[p][i] \in Int /\ ledger[i] \in Int
        /\ players[p].inv[i] \in Int /\ stash[p][i] \in Int
    BY <1>1, CarryType
  <2>2. SumFunction(Lie(dropped, i)) \in Int /\ SumFunction(Lie(dropped', i)) \in Int
    BY <1>1, UnitsType
  <2> DEFINE before == players[p].inv[i] + stash[p][i] + SumFunction(Lie(dropped, i))
             after == players'[p].inv[i] + stash'[p][i] + SumFunction(Lie(dropped', i))
  <2>3. before \in Int /\ after \in Int
    BY <2>1, <2>2
  <2>4. after = before \/ (overfull /\ after <= before)
    OBVIOUS
  <2>5. /\ Balance(players'[p], stash'[p], dropped', ledger', i) = after - ledger[i]
        /\ Balance(players[p], stash[p], dropped, ledger, i) = before - ledger[i]
    BY <2>1, <2>2 DEF Balance
  <2> HIDE DEF before, after
  <2>. QED
    BY <2>1, <2>3, <2>4, <2>5
<1>3. ledger'["golden_bullet"] <= ledger["golden_bullet"] + IF sold' /\ ~sold THEN 1 ELSE 0
  BY <1>1, Constants
<1>. QED
  BY <1>1, <1>2, <1>3, OneMoves

\* The same when nothing is stashed, dropped or picked up.
LEMMA OneChanges ==
    ASSUME EconomyInv, NEW p \in Players,
           players' \in [Players -> PlayerStates], stash' = stash, dropped' = dropped,
           \A x \in Players : x # p => players'[x] = players[x],
           ledger' \in [Items -> Int], overfull' = overfull,
           ~overfull => Fine(players'[p]) /\ Held(players'[p]),
           \A i \in Items \ {"bullet"} :
              players'[p].inv[i] - ledger'[i] = players[p].inv[i] - ledger[i],
           sold' \in BOOLEAN, sold => sold',
           ledger'["golden_bullet"] <= ledger["golden_bullet"] + IF sold' /\ ~sold THEN 1 ELSE 0
    PROVE  Balanced
<1>1. /\ match \in Matches /\ DroppedBag(dropped) /\ ledger \in [Items -> Int]
      /\ players \in [Players -> PlayerStates] /\ stash \in [Players -> Inventories]
  BY TypesSplit DEF EconomyInv
<1>2. ASSUME NEW i \in Items \ {"bullet"}
      PROVE  /\ Balance(players'[p], stash'[p], dropped', ledger', i)
                   <= Balance(players[p], stash[p], dropped, ledger, i)
             /\ Balance(players'[p], stash'[p], dropped', ledger', i)
                   = Balance(players[p], stash[p], dropped, ledger, i)
  <2>1. /\ players'[p].inv[i] \in Int /\ ledger'[i] \in Int
        /\ players[p].inv[i] \in Int /\ stash[p][i] \in Int /\ ledger[i] \in Int
    BY <1>1, CarryType
  <2>2. SumFunction(Lie(dropped, i)) \in Int
    BY <1>1, UnitsType
  <2>. QED
    BY <2>1, <2>2 DEF Balance
<1>. QED
  BY <1>1, <1>2, OneMoves

\* Two players, and nothing but their inventories: a gift, a theft, a shot.
LEMMA TwoChange ==
    ASSUME EconomyInv, NEW p \in Players, NEW q \in Players, p # q,
           players' \in [Players -> PlayerStates], stash' = stash, dropped' = dropped,
           \A x \in Players : x \notin {p, q} => players'[x] = players[x],
           ledger' \in [Items -> Int], overfull' \in BOOLEAN, overfull => overfull',
           ~overfull' => \A x \in {p, q} : Fine(players'[x]) /\ Held(players'[x]),
           \A i \in Items \ {"bullet"} :
              (players'[p].inv[i] - players[p].inv[i]) + (players'[q].inv[i] - players[q].inv[i])
                 = ledger'[i] - ledger[i],
           sold' = sold, ledger'["golden_bullet"] <= ledger["golden_bullet"]
    PROVE  Balanced
<1>1. /\ match \in Matches /\ DroppedBag(dropped) /\ ledger \in [Items -> Int]
      /\ players \in [Players -> PlayerStates] /\ stash \in [Players -> Inventories]
      /\ overfull \in BOOLEAN /\ sold \in BOOLEAN
  BY TypesSplit DEF EconomyInv
<1>2. ~overfull' => \A x \in Players : Fine(players'[x]) /\ Held(players'[x])
  BY DEF EconomyInv, CapacityInv, CapacityHolds, EquippedIsHeld, Fine, Held
<1>3. ASSUME NEW i \in Items \ {"bullet"}
      PROVE  /\ Units(players', stash', dropped', i) - ledger'[i]
                   <= Units(players, stash, dropped, i) - ledger[i]
             /\ Units(players', stash', dropped', i) - ledger'[i]
                   = Units(players, stash, dropped, i) - ledger[i]
  <2> DEFINE C == SumFunction(Carry(players, stash, i))
             D == SumFunction(Carry(players', stash, i))
             L == SumFunction(Lie(dropped, i))
  <2>1. C \in Int /\ D \in Int /\ L \in Int
    BY <1>1, UnitsType
  <2>2. D = C + (players'[p].inv[i] - players[p].inv[i]) + (players'[q].inv[i] - players[q].inv[i])
    <3>1. \A x \in Players : x \notin {p, q} => players'[x].inv[i] = players[x].inv[i]
      OBVIOUS
    <3>2. i \in Items
      OBVIOUS
    <3>3. ASSUME NEW qs \in [Players -> PlayerStates],
                 \A x \in Players : x \notin {p, q} => qs[x].inv[i] = players[x].inv[i]
          PROVE  SumFunction(Carry(qs, stash, i)) = SumFunction(Carry(players, stash, i))
                    + (qs[p].inv[i] - players[p].inv[i]) + (qs[q].inv[i] - players[q].inv[i])
      BY <1>1, <3>2, <3>3, CarryTwo
    <3>. QED
      BY <1>1, <3>1, <3>3
  <2>3. /\ Units(players, stash, dropped, i) = C + L
        /\ Units(players', stash', dropped', i) = D + L
    BY DEF Units
  <2>4. /\ players'[p].inv[i] \in Int /\ players'[q].inv[i] \in Int /\ ledger'[i] \in Int
        /\ players[p].inv[i] \in Int /\ players[q].inv[i] \in Int /\ ledger[i] \in Int
    BY <1>1, CarryType
  <2> HIDE DEF C, D, L
  <2>. QED
    BY <2>1, <2>2, <2>3, <2>4
<1>4. ledger'["golden_bullet"] <= ledger["golden_bullet"] + IF sold' /\ ~sold THEN 1 ELSE 0
  BY <1>1, Constants
<1>. QED
  BY <1>1, <1>2, <1>3, <1>4 DEF Balanced

-----------------------------------------------------------------------------
(* Commands that move items *)

LEMMA WellFormed ==
    ASSUME EconomyInv
    PROVE  /\ match \in Matches /\ DroppedBag(dropped) /\ ledger \in [Items -> Int]
           /\ players \in [Players -> PlayerStates] /\ stash \in [Players -> Inventories]
           /\ overfull \in BOOLEAN /\ sold \in BOOLEAN /\ RestTypeOK
           /\ \A p \in Players : /\ players[p] \in PlayerStates /\ players[p].inv \in Inventories
                                 /\ ~overfull => Fine(players[p]) /\ Held(players[p])
           /\ \A i \in Items : /\ ledger[i] \in Int
                               /\ \A p \in Players : players[p].inv[i] \in Nat /\ stash[p][i] \in Nat
<1>1. /\ match \in Matches /\ DroppedBag(dropped) /\ ledger \in [Items -> Int]
      /\ players \in [Players -> PlayerStates] /\ stash \in [Players -> Inventories]
      /\ overfull \in BOOLEAN /\ sold \in BOOLEAN /\ RestTypeOK
  BY TypesSplit DEF EconomyInv
<1>2. \A p \in Players : players[p] \in PlayerStates /\ players[p].inv \in Inventories
  BY <1>1 DEF PlayerStates
<1>3. \A p \in Players : ~overfull => Fine(players[p]) /\ Held(players[p])
  BY DEF EconomyInv, CapacityInv, CapacityHolds, EquippedIsHeld, Fine, Held
<1>4. \A inv \in Inventories : \A i \in Items : inv[i] \in Nat
  BY DEF Inventories
<1>. QED
  BY <1>1, <1>2, <1>3, <1>4

\* A command counts, and leaves the phase alone.
LEMMA CommandFacts ==
    ASSUME EconomyInv, NEW p \in Players, Command(p)
    PROVE  handled' \in [Players -> Nat] /\ period' = period
<1>1. handled \in [Players -> Nat]
  BY WellFormed DEF RestTypeOK
<1>. QED
  BY <1>1 DEF Command

LEMMA TradeQuiet ==
    ASSUME EconomyInv, NEW p \in Players, Command(p), UNCHANGED trade,
           \A x \in Players : players'[x].offered = players[x].offered
    PROVE  Quiet /\ sold' = sold
<1>1. restocking \subseteq Authority
  BY WellFormed DEF RestTypeOK
<1>. QED
  BY <1>1, CommandFacts DEF Quiet, trade

\* Another inventory, and the weapon that goes with it.
LEMMA Rearm ==
    ASSUME NEW q \in PlayerStates, NEW inv \in Inventories
    PROVE  LET r == WithInventory(q, inv)
           IN /\ r \in PlayerStates /\ r.inv = inv
              /\ r.alive = q.alive /\ r.bullets = q.bullets
              /\ r.cards = q.cards /\ r.offered = q.offered
              /\ Held(r) /\ (WithinLimit(inv, BaseSlots) => Fine(r))
<1> DEFINE s == [q EXCEPT !.inv = inv]
<1>1. /\ s \in PlayerStates /\ s.inv = inv /\ s.alive = q.alive /\ s.bullets = q.bullets
      /\ s.cards = q.cards /\ s.offered = q.offered
  BY DEF PlayerStates
<1> HIDE DEF s
<1>2. LET r == ensureEquippedItem(s)
      IN /\ r \in PlayerStates /\ r.alive = s.alive /\ r.inv = s.inv /\ r.bullets = s.bullets
         /\ r.cards = s.cards /\ r.offered = s.offered /\ Held(r)
  BY <1>1, EnsureFacts
<1>. QED
  BY <1>1, <1>2 DEF Fine, s, WithInventory

LEMMA NewInventory ==
    ASSUME EconomyInv, NEW p \in Players, NEW s \in PlayerStates, NEW inv \in Inventories,
           players' = [players EXCEPT ![p] = WithInventory(s, inv)],
           s.offered = players[p].offered, ~overfull => WithinLimit(inv, BaseSlots)
    PROVE  /\ players' \in [Players -> PlayerStates] /\ players'[p].inv = inv
           /\ \A x \in Players : x # p => players'[x] = players[x]
           /\ \A x \in Players : players'[x].offered = players[x].offered
           /\ ~overfull => Fine(players'[p]) /\ Held(players'[p])
<1> DEFINE r == WithInventory(s, inv)
<1>1. /\ r \in PlayerStates /\ r.inv = inv /\ r.offered = s.offered
      /\ Held(r) /\ (WithinLimit(inv, BaseSlots) => Fine(r))
  BY Rearm
<1>2. players' = [players EXCEPT ![p] = r] /\ players \in [Players -> PlayerStates]
  BY WellFormed
<1> HIDE DEF r
<1>3. players'[p] = r
  BY <1>2
<1>. QED
  BY <1>1, <1>2, <1>3

\* An inventory that gets n pieces of an item, and one that loses them.
LEMMA Gains ==
    ASSUME NEW inv \in Inventories, NEW i \in Items, NEW n \in Nat, NEW base \in Nat,
           CanAdd(inv, i, n, base)
    PROVE  /\ AddItem(inv, i, n, base) \in Inventories
           /\ \A j \in Items : AddItem(inv, i, n, base)[j] = inv[j] + IF j = i THEN n ELSE 0
           /\ WithinLimit(AddItem(inv, i, n, base), base)
<1> DEFINE jnv == AddItem(inv, i, n, base)
<1>1. /\ jnv \in Inventories /\ \A j \in Items : j # i => jnv[j] = inv[j]
      /\ jnv[i] = inv[i] + n /\ WithinLimit(jnv, base)
  BY AddFacts
<1>2. \A j \in Items : inv[j] \in Nat
  BY DEF Inventories
<1> HIDE DEF jnv
<1>3. \A j \in Items : jnv[j] = inv[j] + IF j = i THEN n ELSE 0
  BY <1>1, <1>2
<1>. QED
  BY <1>1, <1>3 DEF jnv

LEMMA Loses ==
    ASSUME NEW inv \in Inventories, NEW i \in Items, NEW n \in Nat, inv[i] >= n
    PROVE  /\ Without(inv, i, n) \in Inventories
           /\ \A j \in Items : Without(inv, i, n)[j] = inv[j] - IF j = i THEN n ELSE 0
           /\ \A base \in Nat : WithinLimit(inv, base) /\ CanRemove(inv, i, n, base)
                                   => WithinLimit(Without(inv, i, n), base)
<1> DEFINE jnv == Without(inv, i, n)
<1>1. /\ jnv \in Inventories /\ \A j \in Items : j # i => jnv[j] = inv[j]
      /\ jnv[i] = inv[i] - n
      /\ \A base \in Nat : WithinLimit(inv, base) /\ CanRemove(inv, i, n, base)
                              => WithinLimit(jnv, base)
  BY WithoutFacts
<1>2. \A j \in Items : inv[j] \in Nat
  BY DEF Inventories
<1> HIDE DEF jnv
<1>3. \A j \in Items : jnv[j] = inv[j] - IF j = i THEN n ELSE 0
  BY <1>1, <1>2
<1>. QED
  BY <1>1, <1>3 DEF jnv

LEMMA DropKeeps ==
    ASSUME EconomyInv, match' = match, NEW p \in Players, NEW i \in Items, NEW n \in Amounts,
           DropItem(p, i, n)
    PROVE  Kept
<1> DEFINE q == players[p]
           inv == Without(q.inv, i, n)
           m(j) == IF j = i THEN n ELSE 0
<1>1. q \in PlayerStates /\ q.inv \in Inventories /\ (~overfull => WithinLimit(q.inv, BaseSlots))
  BY WellFormed DEF Fine
<1>2. n \in Nat /\ BaseSlots \in Nat
  BY Constants
<1>3. /\ inv \in Inventories /\ \A j \in Items : inv[j] = q.inv[j] - m(j)
      /\ ~overfull => WithinLimit(inv, BaseSlots)
  <2>1. q.inv[i] >= n /\ CanRemove(q.inv, i, n, BaseSlots)
    BY DEF DropItem, CanRemove
  <2> HIDE DEF q
  <2>. QED
    BY <1>1, <1>2, <2>1, Loses
<1>4. players' = [players EXCEPT ![p] = WithInventory(q, inv)]
  BY DEF DropItem
<1> HIDE DEF inv
<1>5. /\ players' \in [Players -> PlayerStates] /\ players'[p].inv = inv
      /\ \A x \in Players : x # p => players'[x] = players[x]
      /\ \A x \in Players : players'[x].offered = players[x].offered
      /\ ~overfull => Fine(players'[p]) /\ Held(players'[p])
  BY <1>1, <1>3, <1>4, NewInventory
<1>6. DroppedBag(dropped') /\ \A j : SumFunction(Lie(dropped', j)) = SumFunction(Lie(dropped, j)) + m(j)
  <2>1. dropped' = dropped (+) SetToBag({<<i, n>>})
    BY DEF DropItem
  <2>. QED
    BY <2>1, WellFormed, LieMore
<1>7. /\ stash' = stash /\ ledger' = ledger /\ overfull' = overfull
      /\ UNCHANGED trade /\ Command(p)
  BY DEF DropItem, ActionOf
<1>8. Quiet /\ sold' = sold
  BY <1>5, <1>7, TradeQuiet
<1>9. ASSUME NEW j \in Items \ {"bullet"}
      PROVE  players'[p].inv[j] + stash'[p][j] + SumFunction(Lie(dropped', j))
                = players[p].inv[j] + stash[p][j] + SumFunction(Lie(dropped, j))
  <2>1. /\ q.inv[j] \in Int /\ stash[p][j] \in Int /\ SumFunction(Lie(dropped, j)) \in Int
        /\ m(j) \in Int
    BY <1>2, WellFormed, LieType
  <2> HIDE DEF m
  <2>. QED
    BY <1>3, <1>5, <1>6, <1>7, <2>1
<1>10. Balanced
  BY <1>5, <1>6, <1>7, <1>8, <1>9, WellFormed, OneShuffles
<1>. QED
  BY <1>8, <1>10, QuietKeeps

LEMMA PickUpKeeps ==
    ASSUME EconomyInv, match' = match, NEW p \in Players, NEW i \in Items, NEW n \in Amounts,
           PickUpItem(p, i, n)
    PROVE  Kept
<1> DEFINE q == players[p]
           inv == AddItem(q.inv, i, n, BaseSlots)
           m(j) == IF j = i THEN n ELSE 0
<1>1. q \in PlayerStates /\ q.inv \in Inventories
  BY WellFormed
<1>2. n \in Nat /\ BaseSlots \in Nat
  BY Constants
<1>3. /\ inv \in Inventories /\ \A j \in Items : inv[j] = q.inv[j] + m(j)
      /\ WithinLimit(inv, BaseSlots)
  <2>1. CanAdd(q.inv, i, n, BaseSlots)
    BY DEF PickUpItem
  <2> HIDE DEF q
  <2>. QED
    BY <1>1, <1>2, <2>1, Gains
<1>4. players' = [players EXCEPT ![p] = WithInventory(q, inv)]
  BY DEF PickUpItem
<1> HIDE DEF inv
<1>5. /\ players' \in [Players -> PlayerStates] /\ players'[p].inv = inv
      /\ \A x \in Players : x # p => players'[x] = players[x]
      /\ \A x \in Players : players'[x].offered = players[x].offered
      /\ ~overfull => Fine(players'[p]) /\ Held(players'[p])
  BY <1>1, <1>3, <1>4, NewInventory
<1>6. DroppedBag(dropped') /\ \A j : SumFunction(Lie(dropped', j)) = SumFunction(Lie(dropped, j)) - m(j)
  <2>1. dropped' = dropped (-) SetToBag({<<i, n>>}) /\ BagIn(<<i, n>>, dropped)
    BY DEF PickUpItem
  <2>. QED
    BY <2>1, WellFormed, LieFewer
<1>7. /\ stash' = stash /\ ledger' = ledger /\ overfull' = overfull
      /\ UNCHANGED trade /\ Command(p)
  BY DEF PickUpItem, ActionOf
<1>8. Quiet /\ sold' = sold
  BY <1>5, <1>7, TradeQuiet
<1>9. ASSUME NEW j \in Items \ {"bullet"}
      PROVE  players'[p].inv[j] + stash'[p][j] + SumFunction(Lie(dropped', j))
                = players[p].inv[j] + stash[p][j] + SumFunction(Lie(dropped, j))
  <2>1. /\ q.inv[j] \in Int /\ stash[p][j] \in Int /\ SumFunction(Lie(dropped, j)) \in Int
        /\ m(j) \in Int
    BY <1>2, WellFormed, LieType
  <2> HIDE DEF m
  <2>. QED
    BY <1>3, <1>5, <1>6, <1>7, <2>1
<1>10. Balanced
  BY <1>5, <1>6, <1>7, <1>8, <1>9, WellFormed, OneShuffles
<1>. QED
  BY <1>8, <1>10, QuietKeeps

LEMMA WithdrawKeeps ==
    ASSUME EconomyInv, match' = match, NEW p \in Players, NEW i \in Items, NEW n \in Amounts,
           StashWithdraw(p, i, n)
    PROVE  Kept
<1> DEFINE q == players[p]
           inv == AddItem(q.inv, i, n, BaseSlots)
           m(j) == IF j = i THEN n ELSE 0
           left == Without(stash[p], i, n)
<1>1. q \in PlayerStates /\ q.inv \in Inventories /\ stash \in [Players -> Inventories]
  BY WellFormed
<1>2. n \in Nat /\ BaseSlots \in Nat
  BY Constants
<1>3. /\ inv \in Inventories /\ \A j \in Items : inv[j] = q.inv[j] + m(j)
      /\ WithinLimit(inv, BaseSlots)
  <2>1. CanAdd(q.inv, i, n, BaseSlots)
    BY DEF StashWithdraw
  <2> HIDE DEF q
  <2>. QED
    BY <1>1, <1>2, <2>1, Gains
<1>4. left \in Inventories /\ \A j \in Items : left[j] = stash[p][j] - m(j)
  <2>1. stash[p] \in Inventories /\ stash[p][i] >= n
    BY <1>1 DEF StashWithdraw, CanRemove
  <2>. QED
    BY <1>2, <2>1, Loses
<1>5. /\ players' = [players EXCEPT ![p] = WithInventory(q, inv)]
      /\ stash' = [stash EXCEPT ![p] = left]
  BY DEF StashWithdraw
<1> HIDE DEF inv, left
<1>6. /\ players' \in [Players -> PlayerStates] /\ players'[p].inv = inv
      /\ \A x \in Players : x # p => players'[x] = players[x]
      /\ \A x \in Players : players'[x].offered = players[x].offered
      /\ ~overfull => Fine(players'[p]) /\ Held(players'[p])
  BY <1>1, <1>3, <1>5, NewInventory
<1>7. /\ stash' \in [Players -> Inventories] /\ stash'[p] = left
      /\ \A x \in Players : x # p => stash'[x] = stash[x]
  BY <1>1, <1>4, <1>5
<1>8. /\ dropped' = dropped /\ ledger' = ledger /\ overfull' = overfull
      /\ UNCHANGED trade /\ Command(p)
  BY DEF StashWithdraw, ActionOf
<1>9. Quiet /\ sold' = sold
  BY <1>6, <1>8, TradeQuiet
<1>10. ASSUME NEW j \in Items \ {"bullet"}
       PROVE  players'[p].inv[j] + stash'[p][j] + SumFunction(Lie(dropped', j))
                 = players[p].inv[j] + stash[p][j] + SumFunction(Lie(dropped, j))
  <2>1. /\ q.inv[j] \in Int /\ stash[p][j] \in Int /\ SumFunction(Lie(dropped, j)) \in Int
        /\ m(j) \in Int
    BY <1>2, WellFormed, LieType
  <2> HIDE DEF m
  <2>. QED
    BY <1>3, <1>4, <1>6, <1>7, <1>8, <2>1
<1>11. Balanced
  BY <1>6, <1>7, <1>8, <1>9, <1>10, WellFormed, OneShuffles
<1>. QED
  BY <1>9, <1>11, QuietKeeps

\* A deposit that the stash takes.
LEMMA DepositKeeps ==
    ASSUME EconomyInv, match' = match, NEW p \in Players, NEW i \in Items, NEW n \in Amounts,
           StashDeposit(p, i, n), CanAdd(stash[p], i, n, StashSlots)
    PROVE  Kept
<1> DEFINE q == players[p]
           inv == Without(q.inv, i, n)
           m(j) == IF j = i THEN n ELSE 0
           more == AddItem(stash[p], i, n, StashSlots)
<1>1. /\ q \in PlayerStates /\ q.inv \in Inventories /\ stash \in [Players -> Inventories]
      /\ ~overfull => WithinLimit(q.inv, BaseSlots)
  BY WellFormed DEF Fine
<1>2. n \in Nat /\ BaseSlots \in Nat /\ StashSlots \in Nat
  BY Constants
<1>3. /\ inv \in Inventories /\ \A j \in Items : inv[j] = q.inv[j] - m(j)
      /\ ~overfull => WithinLimit(inv, BaseSlots)
  <2>1. q.inv[i] >= n /\ CanRemove(q.inv, i, n, BaseSlots)
    BY DEF StashDeposit, CanRemove
  <2> HIDE DEF q
  <2>. QED
    BY <1>1, <1>2, <2>1, Loses
<1>4. more \in Inventories /\ \A j \in Items : more[j] = stash[p][j] + m(j)
  <2>1. stash[p] \in Inventories
    BY <1>1
  <2>. QED
    BY <1>2, <2>1, Gains
<1>5. /\ players' = [players EXCEPT ![p] = WithInventory(q, inv)]
      /\ stash' = [stash EXCEPT ![p] = more]
  BY DEF StashDeposit
<1> HIDE DEF inv, more
<1>6. /\ players' \in [Players -> PlayerStates] /\ players'[p].inv = inv
      /\ \A x \in Players : x # p => players'[x] = players[x]
      /\ \A x \in Players : players'[x].offered = players[x].offered
      /\ ~overfull => Fine(players'[p]) /\ Held(players'[p])
  BY <1>1, <1>3, <1>5, NewInventory
<1>7. /\ stash' \in [Players -> Inventories] /\ stash'[p] = more
      /\ \A x \in Players : x # p => stash'[x] = stash[x]
  BY <1>1, <1>4, <1>5
<1>8. /\ dropped' = dropped /\ ledger' = ledger /\ overfull' = overfull
      /\ UNCHANGED trade /\ Command(p)
  BY DEF StashDeposit, ActionOf
<1>9. Quiet /\ sold' = sold
  BY <1>6, <1>8, TradeQuiet
<1>10. ASSUME NEW j \in Items \ {"bullet"}
       PROVE  players'[p].inv[j] + stash'[p][j] + SumFunction(Lie(dropped', j))
                 = players[p].inv[j] + stash[p][j] + SumFunction(Lie(dropped, j))
  <2>1. /\ q.inv[j] \in Int /\ stash[p][j] \in Int /\ SumFunction(Lie(dropped, j)) \in Int
        /\ m(j) \in Int
    BY <1>2, WellFormed, LieType
  <2> HIDE DEF m
  <2>. QED
    BY <1>3, <1>4, <1>6, <1>7, <1>8, <2>1
<1>11. Balanced
  BY <1>6, <1>7, <1>8, <1>9, <1>10, WellFormed, OneShuffles
<1>. QED
  BY <1>9, <1>11, QuietKeeps

\* The rollback restores an inventory that was within its limit; of one over it, it may
\* lose what was to be deposited.
LEMMA RefusedFacts ==
    ASSUME EconomyInv, NEW p \in Players, NEW i \in Items, NEW n \in Amounts,
           players[p].inv[i] >= n
    PROVE  LET inv == players[p].inv
               back == StashRefuses(p, i, n)
           IN /\ back \in Inventories
              /\ ~overfull => back = inv
              /\ \A j \in Items : back[j] <= inv[j]
<1> DEFINE inv == players[p].inv
           bare == Without(inv, i, n)
           back == AddItem(bare, i, n, BaseSlots)
<1>1. inv \in Inventories /\ (~overfull => WithinLimit(inv, BaseSlots))
  BY WellFormed DEF Fine
<1>2. n \in Nat /\ BaseSlots \in Nat /\ inv[i] \in 0 .. MaxStack /\ MaxStack \in Nat
  BY <1>1, Constants DEF Inventories
<1>3. inv[i] >= n
  OBVIOUS
<1>4. StashRefuses(p, i, n) = back
  BY DEF StashRefuses
<1> HIDE DEF inv
<1>5. bare \in Inventories /\ \A j \in Items : bare[j] = inv[j] - IF j = i THEN n ELSE 0
  BY <1>1, <1>2, <1>3, Loses
<1>6. \A j \in Items : inv[j] \in Nat /\ bare[j] <= inv[j]
  <2>1. \A j \in Items : inv[j] \in Nat
    BY <1>1 DEF Inventories
  <2>. QED
    BY <1>2, <1>5, <2>1
<1> HIDE DEF bare
<1>7. CASE CanAdd(bare, i, n, BaseSlots)
  <2>1. back \in Inventories /\ \A j \in Items : back[j] = bare[j] + IF j = i THEN n ELSE 0
    BY <1>2, <1>5, <1>7, Gains
  <2> HIDE DEF back
  <2>2. \A j \in Items : back[j] = inv[j]
    BY <1>2, <1>5, <1>6, <2>1
  <2>3. back = inv
    BY <1>1, <2>1, <2>2 DEF Inventories
  <2>. QED
    BY <1>1, <1>4, <1>6, <2>3 DEF inv
<1>8. CASE ~CanAdd(bare, i, n, BaseSlots)
  <2>1. back = bare
    BY <1>8 DEF AddItem
  <2>2. bare[i] + n = inv[i] /\ bare[i] + n <= MaxStack
    BY <1>2, <1>5
  <2>3. [bare EXCEPT ![i] = @ + n] = inv
    <3> DEFINE e == [bare EXCEPT ![i] = @ + n]
    <3>1. \A j \in Items : e[j] = inv[j]
      BY <1>1, <1>5, <1>6, <2>2 DEF Inventories
    <3>2. e = [j \in Items |-> e[j]] /\ inv = [j \in Items |-> inv[j]]
      BY <1>1, <1>5 DEF Inventories
    <3> HIDE DEF e
    <3>3. e = inv
      BY <3>1, <3>2
    <3>. QED
      BY <3>3 DEF e
  <2>4. overfull
    BY <1>1, <1>8, <2>2, <2>3 DEF CanAdd
  <2> HIDE DEF back
  <2>. QED
    BY <1>4, <1>5, <1>6, <2>1, <2>4 DEF inv
<1>. QED
  BY <1>7, <1>8

LEMMA RefusedKeeps ==
    ASSUME EconomyInv, match' = match, NEW p \in Players, NEW i \in Items, NEW n \in Amounts,
           StashDeposit(p, i, n), ~CanAdd(stash[p], i, n, StashSlots)
    PROVE  Kept
<1> DEFINE q == players[p]
           back == StashRefuses(p, i, n)
           r == [q EXCEPT !.inv = back]
<1>1. /\ q \in PlayerStates /\ q.inv \in Inventories
      /\ ~overfull => Fine(q) /\ Held(q)
  BY WellFormed
<1>2. back \in Inventories /\ (~overfull => back = q.inv) /\ \A j \in Items : back[j] <= q.inv[j]
  <2>1. q.inv[i] >= n
    BY DEF StashDeposit, CanRemove
  <2>. QED
    BY <2>1, RefusedFacts
<1>3. players' = [players EXCEPT ![p] = r] /\ stash' = stash
  BY DEF StashDeposit
<1> HIDE DEF back
<1>4. r \in PlayerStates /\ r.inv = back /\ r.offered = q.offered /\ (back = q.inv => r = q)
  BY <1>1, <1>2 DEF PlayerStates
<1> HIDE DEF r
<1>5. /\ players' \in [Players -> PlayerStates] /\ players'[p] = r
      /\ \A x \in Players : x # p => players'[x] = players[x]
      /\ \A x \in Players : players'[x].offered = players[x].offered
  BY <1>3, <1>4, WellFormed
<1>6. ~overfull => Fine(players'[p]) /\ Held(players'[p])
  BY <1>1, <1>2, <1>4, <1>5
<1>7. /\ dropped' = dropped /\ ledger' = ledger /\ overfull' = overfull
      /\ UNCHANGED trade /\ Command(p)
  BY DEF StashDeposit, ActionOf
<1>8. Quiet /\ sold' = sold
  BY <1>5, <1>7, TradeQuiet
<1>9. ASSUME NEW j \in Items \ {"bullet"}
      PROVE  LET before == players[p].inv[j] + stash[p][j] + SumFunction(Lie(dropped, j))
                 after  == players'[p].inv[j] + stash'[p][j] + SumFunction(Lie(dropped', j))
             IN after = before \/ (overfull /\ after <= before)
  <2>1. /\ q.inv[j] \in Int /\ stash[p][j] \in Int /\ SumFunction(Lie(dropped, j)) \in Int
        /\ back[j] \in Int /\ back[j] <= q.inv[j]
    BY <1>2, WellFormed, LieType DEF Inventories
  <2>2. back[j] + stash[p][j] + SumFunction(Lie(dropped, j))
            <= q.inv[j] + stash[p][j] + SumFunction(Lie(dropped, j))
    BY <2>1
  <2>3. players'[p].inv[j] = back[j] /\ (~overfull => back[j] = q.inv[j])
    BY <1>2, <1>4, <1>5
  <2>. QED
    BY <1>3, <1>7, <2>2, <2>3
<1>10. Balanced
  BY <1>3, <1>5, <1>6, <1>7, <1>8, <1>9, WellFormed, OneShuffles
<1>. QED
  BY <1>8, <1>10, QuietKeeps

\* n pieces of an item go from g to t: a gift or a theft.
LEMMA HandOver ==
    ASSUME EconomyInv, match' = match, NEW g \in Players, NEW t \in Players, g # t,
           NEW i \in Items, NEW n \in Nat, NEW s \in PlayerStates,
           s.offered = players[t].offered,
           players[g].inv[i] >= n, CanAdd(players[t].inv, i, n, BaseSlots),
           players' = [players EXCEPT ![g] = WithInventory(players[g], Without(players[g].inv, i, n)),
                                      ![t] = WithInventory(s, AddItem(players[t].inv, i, n, BaseSlots))],
           overfull' = (overfull \/ ~CapacityHolds'),
           UNCHANGED <<stash, dropped, ledger, trade>>,
           NEW p \in Players, Command(p)
    PROVE  Kept
<1> DEFINE inv == Without(players[g].inv, i, n)
           jnv == AddItem(players[t].inv, i, n, BaseSlots)
           rg == WithInventory(players[g], inv)
           rt == WithInventory(s, jnv)
           m(j) == IF j = i THEN n ELSE 0
<1>1. /\ players \in [Players -> PlayerStates]
      /\ players[g] \in PlayerStates /\ players[g].inv \in Inventories
      /\ players[t] \in PlayerStates /\ players[t].inv \in Inventories
      /\ ledger \in [Items -> Int] /\ overfull \in BOOLEAN
  BY WellFormed
<1>2. inv \in Inventories /\ \A j \in Items : inv[j] = players[g].inv[j] - m(j)
  BY <1>1, Loses
<1>3. jnv \in Inventories /\ \A j \in Items : jnv[j] = players[t].inv[j] + m(j)
  BY <1>1, Constants, Gains
<1>4. players' = [players EXCEPT ![g] = rg, ![t] = rt]
  OBVIOUS
<1> HIDE DEF inv, jnv
<1>5. rg \in PlayerStates /\ rg.inv = inv /\ rg.offered = players[g].offered /\ Held(rg)
  BY <1>1, <1>2, Rearm
<1>6. rt \in PlayerStates /\ rt.inv = jnv /\ rt.offered = s.offered /\ Held(rt)
  BY <1>3, Rearm
<1> HIDE DEF rg, rt
<1>7. /\ players' \in [Players -> PlayerStates] /\ players'[g] = rg /\ players'[t] = rt
      /\ \A x \in Players : x \notin {g, t} => players'[x] = players[x]
  BY <1>1, <1>4, <1>5, <1>6
<1>8. \A x \in Players : players'[x].offered = players[x].offered
  BY <1>5, <1>6, <1>7
<1>9. Quiet /\ sold' = sold
  BY <1>8, TradeQuiet
<1>10. Players' = Players
  BY DEF Players
<1>11. overfull' \in BOOLEAN /\ (overfull => overfull')
  OBVIOUS
<1>12. ~overfull' => \A x \in {g, t} : Fine(players'[x]) /\ Held(players'[x])
  BY <1>5, <1>6, <1>7, <1>10 DEF CapacityHolds, Fine
<1>13. ASSUME NEW j \in Items \ {"bullet"}
       PROVE  (players'[g].inv[j] - players[g].inv[j]) + (players'[t].inv[j] - players[t].inv[j])
                 = ledger'[j] - ledger[j]
  <2>1. players[g].inv[j] \in Int /\ players[t].inv[j] \in Int /\ ledger[j] \in Int /\ m(j) \in Int
    BY WellFormed
  <2>2. players'[g].inv[j] = players[g].inv[j] - m(j) /\ players'[t].inv[j] = players[t].inv[j] + m(j)
    BY <1>2, <1>3, <1>5, <1>6, <1>7
  <2> HIDE DEF m
  <2>. QED
    BY <2>1, <2>2
<1>14. ledger'["golden_bullet"] <= ledger["golden_bullet"]
  BY <1>1, Constants
<1>15. Balanced
  BY <1>1, <1>7, <1>9, <1>11, <1>12, <1>13, <1>14, TwoChange
<1>. QED
  BY <1>9, <1>15, QuietKeeps

LEMMA TransferKeeps ==
    ASSUME EconomyInv, match' = match, NEW p \in Players, NEW q \in Players,
           NEW i \in Items, NEW n \in Amounts, TransferItem(p, q, i, n)
    PROVE  Kept
<1>1. players \in [Players -> PlayerStates] /\ n \in Nat
  BY WellFormed, Constants
<1>2. /\ q # p /\ players[p].inv[i] >= n /\ CanAdd(players[q].inv, i, n, BaseSlots)
      /\ overfull' = (overfull \/ ~CapacityHolds')
      /\ UNCHANGED <<stash, dropped, ledger, trade>> /\ Command(p)
  BY DEF TransferItem, ActionOf
<1>3. players' = [players EXCEPT ![p] = WithInventory(players[p], Without(players[p].inv, i, n)),
                                 ![q] = WithInventory(players[q], AddItem(players[q].inv, i, n, BaseSlots))]
  BY <1>1, <1>2 DEF TransferItem
<1>4. players[q] \in PlayerStates
  BY <1>1
<1>. QED
  BY <1>1, <1>2, <1>3, <1>4, HandOver

\* A card of the hand is spent: nothing else of its holder changes.
LEMMA SpendFacts ==
    ASSUME NEW q \in PlayerStates, NEW c \in Cards, NEW n \in Nat, q.cards[c] >= n
    PROVE  LET s == Spend(q, c, n)
           IN /\ s \in PlayerStates
              /\ s.alive = q.alive /\ s.inv = q.inv /\ s.equipped = q.equipped
              /\ s.bullets = q.bullets /\ s.offered = q.offered
<1> DEFINE s == Spend(q, c, n)
<1>1. q.cards \in [Cards -> Nat] /\ q.cards[c] - n \in Nat
  BY DEF PlayerStates
<1>2. s = [q EXCEPT !.cards = [q.cards EXCEPT ![c] = q.cards[c] - n]]
  BY DEF Spend, PlayerStates
<1>3. [q.cards EXCEPT ![c] = q.cards[c] - n] \in [Cards -> Nat]
  BY <1>1
<1>. QED
  BY <1>2, <1>3 DEF PlayerStates

LEMMA StealKeeps ==
    ASSUME EconomyInv, match' = match, NEW p \in Players, NEW q \in Players, NEW i \in Items,
           UseItemSteal(p, q, i)
    PROVE  Kept
<1> DEFINE s == Spend(players[p], "item_steal", 1)
<1>1. players \in [Players -> PlayerStates] /\ players[p] \in PlayerStates /\ 1 \in Nat
  BY WellFormed
<1>2. /\ q # p /\ players[q].inv[i] >= 1 /\ CanAdd(players[p].inv, i, 1, BaseSlots)
      /\ overfull' = (overfull \/ ~CapacityHolds')
      /\ UNCHANGED <<stash, dropped, ledger, trade>> /\ Command(p)
      /\ players[p].cards["item_steal"] > 0
  BY DEF UseItemSteal, Play
<1>3. players' = [players EXCEPT ![q] = WithInventory(players[q], Without(players[q].inv, i, 1)),
                                 ![p] = WithInventory(s, AddItem(players[p].inv, i, 1, BaseSlots))]
  BY <1>1, <1>2 DEF UseItemSteal
<1>4. s \in PlayerStates /\ s.offered = players[p].offered
  <2>1. "item_steal" \in Cards /\ players[p].cards["item_steal"] >= 1
    BY <1>1, <1>2 DEF Cards, PlayerStates
  <2>. QED
    BY <1>1, <2>1, SpendFacts
<1> HIDE DEF s
<1>. QED
  BY <1>1, <1>2, <1>3, <1>4, HandOver

LEMMA RecipeFacts ==
    ASSUME NEW output \in DOMAIN Recipes
    PROVE  /\ \A i \in DOMAIN Recipes[output] : Recipes[output][i] \in Nat
           /\ "golden_bullet" \notin DOMAIN Recipes[output]
           /\ output # "golden_bullet"
<1>1. output \in {"shiv", "door_stop", "ladder", "shovel", "wire_cutters"}
  BY DEF Recipes
<1>2. CASE output = "shiv"
  BY <1>2 DEF Recipes
<1>3. CASE output = "door_stop"
  BY <1>3 DEF Recipes
<1>4. CASE output = "ladder"
  BY <1>4 DEF Recipes
<1>5. CASE output = "shovel"
  BY <1>5 DEF Recipes
<1>6. CASE output = "wire_cutters"
  BY <1>6 DEF Recipes
<1>. QED
  BY <1>1, <1>2, <1>3, <1>4, <1>5, <1>6

LEMMA CraftKeeps ==
    ASSUME EconomyInv, match' = match, NEW p \in Players, NEW output \in DOMAIN Recipes,
           Craft(p, output)
    PROVE  Kept
<1> DEFINE q == players[p]
           inputs == Recipes[output]
           used == [i \in Items |-> IF i \in DOMAIN inputs THEN inputs[i] ELSE 0]
           rest == [i \in Items |-> q.inv[i] - used[i]]
           inv == AddItem(rest, output, 1, BaseSlots)
           m(j) == IF j = output THEN 1 ELSE 0
<1>1. /\ q \in PlayerStates /\ q.inv \in Inventories /\ ledger \in [Items -> Int]
      /\ \A i \in Items : q.inv[i] \in Nat /\ q.inv[i] <= MaxStack /\ ledger[i] \in Int
  <2>1. q \in PlayerStates /\ q.inv \in Inventories /\ ledger \in [Items -> Int]
    BY WellFormed
  <2>. QED
    BY <2>1 DEF Inventories
<1>2. output \in Items /\ CanAdd(rest, output, 1, BaseSlots) /\ \A i \in Items : rest[i] >= 0
  BY DEF Craft
<1>3. \A i \in Items : used[i] \in Nat
  BY RecipeFacts
<1>4. "golden_bullet" \in Items /\ used["golden_bullet"] = 0 /\ m("golden_bullet") = 0
  BY RecipeFacts, Constants
<1>5. /\ players' = [players EXCEPT ![p] = WithInventory(q, inv)]
      /\ ledger' = [i \in Items |-> ledger[i] - used[i] + m(i)]
  BY DEF Craft
<1>6. /\ stash' = stash /\ dropped' = dropped /\ overfull' = overfull
      /\ UNCHANGED trade /\ Command(p)
  BY DEF Craft, ActionOf
<1> HIDE DEF used
<1>7. rest \in Inventories /\ \A i \in Items : rest[i] = q.inv[i] - used[i]
  <2>1. \A i \in Items : rest[i] = q.inv[i] - used[i]
    OBVIOUS
  <2>2. \A i \in Items : rest[i] \in 0 .. MaxStack
    BY <1>1, <1>2, <1>3, <2>1, Constants
  <2>. QED
    BY <2>1, <2>2 DEF Inventories
<1> HIDE DEF rest
<1>8. /\ inv \in Inventories /\ WithinLimit(inv, BaseSlots)
      /\ \A j \in Items : inv[j] = rest[j] + m(j)
  BY <1>2, <1>7, Constants, Gains
<1> HIDE DEF inv
<1>9. /\ players' \in [Players -> PlayerStates] /\ players'[p].inv = inv
      /\ \A x \in Players : x # p => players'[x] = players[x]
      /\ \A x \in Players : players'[x].offered = players[x].offered
      /\ ~overfull => Fine(players'[p]) /\ Held(players'[p])
  BY <1>1, <1>5, <1>8, NewInventory
<1>10. Quiet /\ sold' = sold
  BY <1>6, <1>9, TradeQuiet
<1>11. \A j \in Items : m(j) \in Int
  OBVIOUS
<1> HIDE DEF m
<1>12. \A j \in Items : ledger'[j] = ledger[j] - used[j] + m(j) /\ ledger'[j] \in Int
  BY <1>1, <1>3, <1>5, <1>11
<1>13. \A j \in Items \ {"bullet"} :
          players'[p].inv[j] - ledger'[j] = players[p].inv[j] - ledger[j]
  BY <1>1, <1>3, <1>7, <1>8, <1>9, <1>11, <1>12
<1>14. ledger' \in [Items -> Int]
  BY <1>5, <1>12
<1>15. ledger'["golden_bullet"] <= ledger["golden_bullet"] + IF sold' /\ ~sold THEN 1 ELSE 0
  BY <1>1, <1>4, <1>10, <1>12
<1>16. Balanced
  BY <1>6, <1>9, <1>10, <1>13, <1>14, <1>15, WellFormed, OneChanges
<1>. QED
  BY <1>10, <1>16, QuietKeeps

LEMMA SearchKeeps ==
    ASSUME EconomyInv, match' = match, NEW p \in Players, NEW q \in Players, Search(p, q)
    PROVE  Kept
<1> DEFINE old == players[q].inv
           found == Stacks(old) \cap Contraband
           inv == [i \in Items |-> IF i \in found THEN 0 ELSE old[i]]
<1>1. /\ players[q] \in PlayerStates /\ old \in Inventories /\ ledger \in [Items -> Int]
      /\ ~overfull => WithinLimit(old, BaseSlots)
  BY WellFormed DEF Fine
<1>2. /\ players' = [players EXCEPT ![q] = WithInventory(players[q], inv)]
      /\ ledger' = [i \in Items |-> ledger[i] - IF i \in found THEN old[i] ELSE 0]
      /\ stash' = stash /\ dropped' = dropped /\ overfull' = overfull
      /\ UNCHANGED trade /\ Command(p)
  BY DEF Search, ActionOf
<1>3. "golden_bullet" \notin found /\ "satchel" \notin found
  BY DEF Contraband
<1> HIDE DEF found
<1>4. /\ inv \in Inventories
      /\ \A j \in Items : inv[j] = IF j \in found THEN 0 ELSE old[j]
  BY <1>1, Constants DEF Inventories
<1> HIDE DEF inv
<1>5. ~overfull => WithinLimit(inv, BaseSlots)
  <2>1. \A j \in Items : inv[j] > 0 => old[j] > 0
    BY <1>4
  <2>2. inv["satchel"] >= old["satchel"]
    BY <1>1, <1>3, <1>4, Constants DEF Inventories
  <2> HIDE DEF old
  <2>. QED
    BY <1>1, <1>4, <2>1, <2>2, LimitKept, Constants
<1>6. /\ players' \in [Players -> PlayerStates] /\ players'[q].inv = inv
      /\ \A x \in Players : x # q => players'[x] = players[x]
      /\ \A x \in Players : players'[x].offered = players[x].offered
      /\ ~overfull => Fine(players'[q]) /\ Held(players'[q])
  BY <1>1, <1>2, <1>4, <1>5, NewInventory
<1>7. Quiet /\ sold' = sold
  BY <1>2, <1>6, TradeQuiet
<1>8. \A j \in Items : /\ old[j] \in Int /\ ledger[j] \in Int
                       /\ ledger'[j] = ledger[j] - IF j \in found THEN old[j] ELSE 0
                       /\ ledger'[j] \in Int
  <2>1. \A j \in Items : old[j] \in Int /\ ledger[j] \in Int
    BY WellFormed
  <2>. QED
    BY <1>2, <2>1
<1>9. \A j \in Items \ {"bullet"} :
         players'[q].inv[j] - ledger'[j] = players[q].inv[j] - ledger[j]
  BY <1>4, <1>6, <1>8
<1>10. ledger' \in [Items -> Int]
  BY <1>2, <1>8
<1>11. ledger'["golden_bullet"] <= ledger["golden_bullet"] + IF sold' /\ ~sold THEN 1 ELSE 0
  BY <1>3, <1>7, <1>8, Constants
<1>12. Balanced
  BY <1>2, <1>6, <1>7, <1>9, <1>10, <1>11, WellFormed, OneChanges
<1>. QED
  BY <1>7, <1>12, QuietKeeps

-----------------------------------------------------------------------------
(* Weapons and ammunition *)

\* One player changes, but neither what they have, bullets apart, nor what they may pick.
LEMMA OneStays ==
    ASSUME EconomyInv, match' = match, NEW p \in Players, NEW r \in PlayerStates,
           players' = [players EXCEPT ![p] = r],
           \A i \in Items \ {"bullet"} : r.inv[i] = players[p].inv[i],
           ~overfull => Fine(r) /\ Held(r),
           UNCHANGED <<stash, dropped, ledger, sold, overfull>>
    PROVE  /\ Balanced
           /\ players'[p] = r
           /\ \A x \in Players : x # p => players'[x] = players[x]
<1>1. players \in [Players -> PlayerStates] /\ ledger \in [Items -> Int] /\ sold \in BOOLEAN
  BY WellFormed
<1>2. /\ players' \in [Players -> PlayerStates] /\ players'[p] = r
      /\ \A x \in Players : x # p => players'[x] = players[x]
  BY <1>1
<1>3. \A i \in Items \ {"bullet"} :
         players'[p].inv[i] - ledger'[i] = players[p].inv[i] - ledger[i]
  BY <1>2
<1>4. ledger'["golden_bullet"] <= ledger["golden_bullet"] + IF sold' /\ ~sold THEN 1 ELSE 0
  BY <1>1, Constants
<1>5. ~overfull => Fine(players'[p]) /\ Held(players'[p])
  BY <1>2
<1>6. Balanced
  BY <1>1, <1>2, <1>3, <1>4, <1>5, OneChanges
<1>. QED
  BY <1>2, <1>6

\* A weapon is neither a bullet nor a golden one.
LEMMA WeaponFacts ==
    ASSUME NEW w \in ToSet(WeaponPriority)
    PROVE  w \notin {"bullet", "golden_bullet", "satchel", "none"}
BY DEF ToSet, WeaponPriority

\* A weapon that can be used is one, and can be by whoever has the same.
LEMMA UsableSame ==
    ASSUME NEW q, NEW r, NEW w, CanUseWeapon(q, w), r.alive = q.alive,
           \A i \in Items \ {"bullet", "golden_bullet"} : r.inv[i] = q.inv[i]
    PROVE  w \in ToSet(WeaponPriority) /\ CanUseWeapon(r, w)
<1>1. w \in Items /\ w \in ToSet(WeaponPriority)
  BY DEF CanUseWeapon
<1>2. w \notin {"bullet", "golden_bullet"}
  BY <1>1, WeaponFacts
<1>. QED
  BY <1>1, <1>2 DEF CanUseWeapon

LEMMA EquipKeeps ==
    ASSUME EconomyInv, match' = match, NEW p \in Players, NEW w \in ToSet(WeaponPriority),
           EquipItem(p, w)
    PROVE  Kept
<1> DEFINE q == players[p]
           r == [q EXCEPT !.equipped = w]
<1>1. q \in PlayerStates /\ players \in [Players -> PlayerStates] /\ (~overfull => Fine(q))
  BY WellFormed
<1>2. /\ players' = [players EXCEPT ![p] = r] /\ CanUseWeapon(q, w)
      /\ UNCHANGED <<stash, dropped, ledger, overfull, trade>> /\ Command(p)
  BY DEF EquipItem, ActionOf
<1>3. /\ r \in PlayerStates /\ r.inv = q.inv /\ r.alive = q.alive /\ r.offered = q.offered
      /\ r.equipped = w
  BY <1>1 DEF PlayerStates
<1> HIDE DEF q, r
<1>4. CanUseWeapon(r, w)
  BY <1>2, <1>3 DEF CanUseWeapon
<1>5. Held(r) /\ (~overfull => Fine(r))
  BY <1>1, <1>3, <1>4 DEF Held, Fine
<1>6. /\ Balanced /\ players'[p] = r
      /\ \A x \in Players : x # p => players'[x] = players[x]
  BY <1>2, <1>3, <1>5, OneStays DEF q, trade
<1>7. \A x \in Players : players'[x].offered = players[x].offered
  BY <1>3, <1>6 DEF q
<1>. QED
  BY <1>2, <1>6, <1>7, TradeQuiet, QuietKeeps

LEMMA InVainKeeps ==
    ASSUME EconomyInv, match' = match, NEW p \in Players, NEW w \in ToSet(WeaponPriority),
           FireInVain(p, w)
    PROVE  Kept
<1> DEFINE q == players[p]
           use == WeaponFor(q, w)
           armed == [q EXCEPT !.equipped = use]
           r == IF CanUseWeapon(q, use) THEN armed ELSE ensureEquippedItem(q)
<1>1. q \in PlayerStates /\ (~overfull => Fine(q))
  BY WellFormed
<1>2. /\ players' = [players EXCEPT ![p] = r]
      /\ UNCHANGED <<stash, dropped, ledger, overfull, trade>> /\ Command(p)
  BY DEF FireInVain, ActionOf
<1> HIDE DEF q
<1>3. r \in PlayerStates /\ r.inv = q.inv /\ r.offered = q.offered /\ Held(r)
  <2>1. CASE CanUseWeapon(q, use)
    <3> HIDE DEF use
    <3>1. use \in ToSet(WeaponPriority)
      BY <2>1 DEF CanUseWeapon
    <3>2. /\ armed \in PlayerStates /\ armed.inv = q.inv /\ armed.offered = q.offered
          /\ armed.alive = q.alive /\ armed.equipped = use
      BY <1>1, <3>1 DEF PlayerStates
    <3> HIDE DEF armed
    <3>3. CanUseWeapon(armed, use)
      BY <2>1, <3>2 DEF CanUseWeapon
    <3>. QED
      BY <2>1, <3>2, <3>3 DEF Held
  <2>2. CASE ~CanUseWeapon(q, use)
    BY <1>1, <2>2, EnsureFacts
  <2>. QED
    BY <2>1, <2>2
<1> HIDE DEF r
<1>4. ~overfull => Fine(r)
  BY <1>1, <1>3 DEF Fine
<1>5. /\ Balanced /\ players'[p] = r
      /\ \A x \in Players : x # p => players'[x] = players[x]
  BY <1>2, <1>3, <1>4, OneStays DEF q, trade
<1>6. \A x \in Players : players'[x].offered = players[x].offered
  BY <1>3, <1>5 DEF q
<1>. QED
  BY <1>2, <1>5, <1>6, TradeQuiet, QuietKeeps

LEMMA SyncHeld ==
    ASSUME NEW q \in PlayerStates, Held(q)
    PROVE  Held(SyncBullets(q))
<1> DEFINE r == SyncBullets(q)
<1>1. /\ r.alive = q.alive /\ r.equipped = q.equipped
      /\ \A i \in Items \ {"bullet"} : r.inv[i] = q.inv[i]
  BY SyncFacts
<1> HIDE DEF r
<1>2. SUFFICES ASSUME r.alive, r.equipped # "none"
               PROVE  CanUseWeapon(r, r.equipped)
  BY DEF Held, r
<1>3. CanUseWeapon(q, q.equipped)
  BY <1>1, <1>2 DEF Held
<1>. QED
  BY <1>1, <1>3, UsableSame

LEMMA ReloadKeeps ==
    ASSUME EconomyInv, match' = match, NEW p \in Players, Reload(p)
    PROVE  Kept
<1>1. /\ players \in [Players -> PlayerStates] /\ players[p] \in PlayerStates
      /\ restocking \subseteq Authority /\ (~overfull => Fine(players[p]) /\ Held(players[p]))
  BY WellFormed DEF RestTypeOK
<1>2. /\ UNCHANGED <<players, stash, dropped, ledger, npc, task, sold, given, income, overfull>>
      /\ Command(p) /\ p \in Authority /\ restocking' = restocking \cup {p}
  BY DEF Reload, ActionOf
<1>3. players' = [players EXCEPT ![p] = players[p]]
  BY <1>1, <1>2
<1>4. Balanced
  BY <1>1, <1>2, <1>3, OneStays
<1>5. Quiet
  BY <1>1, <1>2, CommandFacts DEF Quiet
<1>. QED
  BY <1>4, <1>5, QuietKeeps

LEMMA RestockKeeps ==
    ASSUME EconomyInv, match' = match, NEW p \in Players, RestockCompletes(p)
    PROVE  Kept
<1> DEFINE q == players[p]
           s == [q EXCEPT !.bullets = AmmoMax]
           r == IF q.alive THEN SyncBullets(s) ELSE q
<1>1. /\ players \in [Players -> PlayerStates] /\ q \in PlayerStates
      /\ restocking \subseteq Authority /\ handled \in [Players -> Nat]
      /\ ~overfull => Fine(q) /\ Held(q)
  BY WellFormed DEF RestTypeOK
<1>2. /\ restocking' = restocking \ {p}
      /\ players' = IF q.alive THEN [players EXCEPT ![p] = SyncBullets(s)] ELSE players
      /\ UNCHANGED <<stash, dropped, ledger, npc, task, sold, given, income, period, handled, overfull>>
  BY DEF RestockCompletes
<1>3. players' = [players EXCEPT ![p] = r]
  BY <1>1, <1>2
<1> HIDE DEF q
<1>4. /\ s \in PlayerStates /\ s.inv = q.inv /\ s.alive = q.alive /\ s.offered = q.offered
      /\ s.equipped = q.equipped
  BY <1>1, Constants DEF PlayerStates
<1> HIDE DEF s
<1>5. (Held(q) => Held(s)) /\ (Fine(q) => Fine(s))
  BY <1>4 DEF Held, Fine, CanUseWeapon
<1>6. /\ r \in PlayerStates /\ r.offered = q.offered
      /\ \A i \in Items \ {"bullet"} : r.inv[i] = q.inv[i]
      /\ ~overfull => Fine(r) /\ Held(r)
  <2>1. CASE q.alive
    <3>1. /\ r = SyncBullets(s)
          /\ SyncBullets(s) \in PlayerStates /\ SyncBullets(s).offered = s.offered
          /\ \A i \in Items \ {"bullet"} : SyncBullets(s).inv[i] = s.inv[i]
          /\ Fine(s) => Fine(SyncBullets(s))
      BY <1>4, <2>1, SyncFacts
    <3>2. Held(s) => Held(SyncBullets(s))
      BY <1>4, SyncHeld
    <3>. QED
      BY <1>1, <1>4, <1>5, <3>1, <3>2
  <2>2. CASE ~q.alive
    BY <1>1, <2>2
  <2>. QED
    BY <2>1, <2>2
<1> HIDE DEF r
<1>7. /\ Balanced /\ players'[p] = r
      /\ \A x \in Players : x # p => players'[x] = players[x]
  BY <1>2, <1>3, <1>6, OneStays DEF q
<1>8. Quiet
  BY <1>1, <1>2, <1>6, <1>7 DEF Quiet, q
<1>. QED
  BY <1>7, <1>8, QuietKeeps

LEMMA BulletCardKeeps ==
    ASSUME EconomyInv, match' = match, NEW p \in Players, UseBulletCard(p)
    PROVE  Kept
<1> DEFINE q == players[p]
           t == Spend(q, "bullet", 1)
           s == [t EXCEPT !.bullets = q.bullets + 1]
           r == syncAuthorityBulletStack(p, s)
<1>1. q \in PlayerStates /\ (~overfull => Fine(q) /\ Held(q))
  BY WellFormed
<1>2. /\ players' = [players EXCEPT ![p] = r]
      /\ UNCHANGED <<stash, dropped, ledger, overfull, trade>> /\ Command(p)
      /\ q.cards["bullet"] > 0
      /\ q.bullets < IF p \in Authority THEN AmmoMax ELSE MaxStack
  BY DEF UseBulletCard, Play
<1> HIDE DEF q
<1>3. /\ t \in PlayerStates /\ t.inv = q.inv /\ t.alive = q.alive /\ t.offered = q.offered
      /\ t.equipped = q.equipped
  <2>1. "bullet" \in Cards /\ q.cards["bullet"] >= 1 /\ 1 \in Nat
    BY <1>1, <1>2 DEF Cards, PlayerStates
  <2>. QED
    BY <1>1, <2>1, SpendFacts
<1> HIDE DEF t
<1>4. q.bullets + 1 \in 0 .. MaxStack
  <2>1. q.bullets \in Nat
    BY <1>1 DEF PlayerStates
  <2>. QED
    BY <1>2, <2>1, Constants
<1>5. /\ s \in PlayerStates /\ s.inv = q.inv /\ s.alive = q.alive /\ s.offered = q.offered
      /\ s.equipped = q.equipped
  BY <1>3, <1>4 DEF PlayerStates
<1> HIDE DEF s
<1>6. (Held(q) => Held(s)) /\ (Fine(q) => Fine(s))
  BY <1>5 DEF Held, Fine, CanUseWeapon
<1>7. /\ r \in PlayerStates /\ r.offered = q.offered
      /\ \A i \in Items \ {"bullet"} : r.inv[i] = q.inv[i]
      /\ ~overfull => Fine(r) /\ Held(r)
  <2>1. CASE p \in Authority
    <3>1. /\ r = SyncBullets(s)
          /\ SyncBullets(s) \in PlayerStates /\ SyncBullets(s).offered = s.offered
          /\ \A i \in Items \ {"bullet"} : SyncBullets(s).inv[i] = s.inv[i]
          /\ Fine(s) => Fine(SyncBullets(s))
      BY <1>5, <2>1, SyncFacts DEF syncAuthorityBulletStack
    <3>2. Held(s) => Held(SyncBullets(s))
      BY <1>5, SyncHeld
    <3>. QED
      BY <1>1, <1>5, <1>6, <3>1, <3>2
  <2>2. CASE p \notin Authority
    BY <1>1, <1>5, <1>6, <2>2 DEF syncAuthorityBulletStack
  <2>. QED
    BY <2>1, <2>2
<1> HIDE DEF r
<1>8. /\ Balanced /\ players'[p] = r
      /\ \A x \in Players : x # p => players'[x] = players[x]
  BY <1>2, <1>7, OneStays DEF q, trade
<1>9. \A x \in Players : players'[x].offered = players[x].offered
  BY <1>7, <1>8 DEF q
<1>. QED
  BY <1>2, <1>8, <1>9, TradeQuiet, QuietKeeps

\* The shot is paid for with a bullet of the counter, with the golden one, or not at all.
LEMMA PaidFacts ==
    ASSUME NEW a \in PlayerStates, NEW w, NEW golden \in BOOLEAN, CanPay(a, w, golden)
    PROVE  LET s == Paid(a, w, golden)
           IN /\ s \in PlayerStates
              /\ s.alive = a.alive /\ s.equipped = a.equipped /\ s.offered = a.offered
              /\ \A i \in Items : s.inv[i] = a.inv[i] - IF golden /\ i = "golden_bullet" THEN 1 ELSE 0
              /\ Fine(a) => Fine(s)
<1> DEFINE s == Paid(a, w, golden)
<1>1. a.inv \in Inventories /\ a.bullets \in 0 .. MaxStack /\ \A i \in Items : a.inv[i] \in Nat
  BY DEF PlayerStates, Inventories
<1>2. CASE ~golden
  <2>1. CASE w \notin Firearms
    BY <1>1, <1>2, <2>1 DEF Paid
  <2>2. CASE w \in Firearms
    <3>1. s = [a EXCEPT !.bullets = a.bullets - 1]
      BY <1>2, <2>2 DEF Paid
    <3>2. a.bullets - 1 \in 0 .. MaxStack
      BY <1>1, <1>2, <2>2, Constants DEF CanPay
    <3>3. /\ s \in PlayerStates /\ s.inv = a.inv
          /\ s.alive = a.alive /\ s.equipped = a.equipped /\ s.offered = a.offered
      BY <3>1, <3>2 DEF PlayerStates
    <3> HIDE DEF s
    <3>. QED
      BY <1>1, <1>2, <3>3 DEF Fine, s
  <2>. QED
    BY <2>1, <2>2
<1>3. CASE golden
  <2> DEFINE inv == Without(a.inv, "golden_bullet", 1)
  <2>1. w \in Firearms /\ a.inv["golden_bullet"] >= 1 /\ "golden_bullet" \in Items
    BY <1>1, <1>3, Constants DEF CanPay
  <2>2. s = [a EXCEPT !.inv = inv]
    BY <1>3, <2>1 DEF Paid
  <2>3. /\ inv \in Inventories
        /\ inv["golden_bullet"] = a.inv["golden_bullet"] - 1
        /\ \A i \in Items : i # "golden_bullet" => inv[i] = a.inv[i]
        /\ WithinLimit(a.inv, BaseSlots) => WithinLimit(inv, BaseSlots)
    <3>1. 1 \in Nat /\ BaseSlots \in Nat /\ "golden_bullet" # "satchel"
      BY Constants
    <3>. QED
      BY <1>1, <2>1, <3>1, WithoutFacts
  <2> HIDE DEF inv
  <2>4. /\ s \in PlayerStates /\ s.inv = inv
        /\ s.alive = a.alive /\ s.equipped = a.equipped /\ s.offered = a.offered
    BY <2>2, <2>3 DEF PlayerStates
  <2> HIDE DEF s
  <2>5. \A i \in Items : s.inv[i] = a.inv[i] - IF golden /\ i = "golden_bullet" THEN 1 ELSE 0
    BY <1>1, <1>3, <2>3, <2>4
  <2>. QED
    BY <2>3, <2>4, <2>5 DEF Fine, s
<1>. QED
  BY <1>2, <1>3

LEMMA FireKeeps ==
    ASSUME EconomyInv, match' = match, NEW p \in Players, NEW target \in Players,
           NEW w \in ToSet(WeaponPriority), NEW golden \in BOOLEAN, NEW fatal \in BOOLEAN,
           FireWeapon(p, target, w, golden, fatal)
    PROVE  Kept
<1> DEFINE q == players[p]
           use == WeaponFor(q, w)
           armed == [q EXCEPT !.equipped = use]
           s == Paid(armed, use, golden)
           r == syncAuthorityBulletStack(p, s)
           t == [players[target] EXCEPT !.alive = ~fatal]
           m(i) == IF golden /\ i = "golden_bullet" THEN 1 ELSE 0
<1>1. /\ q \in PlayerStates /\ (~overfull => Fine(q))
      /\ players \in [Players -> PlayerStates] /\ players[target] \in PlayerStates
      /\ ~overfull => Fine(players[target]) /\ Held(players[target])
      /\ ledger \in [Items -> Int] /\ overfull \in BOOLEAN
  BY WellFormed
<1>2. /\ target # p /\ players[target].alive
      /\ CanUseWeapon(q, use) /\ CanPay(q, use, golden)
      /\ ledger' = IF golden THEN [ledger EXCEPT !["golden_bullet"] = @ - 1] ELSE ledger
      /\ UNCHANGED <<stash, dropped, trade, overfull>> /\ Command(p)
  BY DEF FireWeapon, ActionOf
<1>3. players' = [players EXCEPT ![p] = r, ![target] = t]
  <2>1. players' = [players EXCEPT ![p] = r, ![target].alive = ~fatal]
    BY DEF FireWeapon
  <2> HIDE DEF r
  <2>. QED
    BY <1>1, <1>2, <2>1
<1> HIDE DEF q, use
<1>4. /\ armed \in PlayerStates /\ armed.inv = q.inv /\ armed.alive = q.alive
      /\ armed.offered = q.offered /\ armed.equipped = use /\ armed.bullets = q.bullets
  <2>1. use \in ToSet(WeaponPriority)
    BY <1>2 DEF CanUseWeapon
  <2>. QED
    BY <1>1, <2>1 DEF PlayerStates
<1> HIDE DEF armed
<1>5. CanPay(armed, use, golden) /\ CanUseWeapon(armed, use) /\ (Fine(q) => Fine(armed))
  BY <1>2, <1>4 DEF CanPay, CanUseWeapon, Fine
<1>6. /\ s \in PlayerStates /\ s.alive = armed.alive /\ s.equipped = use
      /\ s.offered = q.offered
      /\ \A i \in Items : s.inv[i] = q.inv[i] - m(i)
      /\ Fine(armed) => Fine(s)
  BY <1>4, <1>5, PaidFacts
<1> HIDE DEF s
<1>7. \A i \in Items : q.inv[i] \in Int /\ m(i) \in Int /\ ledger[i] \in Int
  BY WellFormed DEF q
<1>8. Held(s)
  <2>1. \A i \in Items \ {"bullet", "golden_bullet"} : s.inv[i] = armed.inv[i]
    BY <1>4, <1>6, <1>7
  <2>2. CanUseWeapon(s, use)
    BY <1>5, <1>6, <2>1, UsableSame
  <2>. QED
    BY <1>6, <2>2 DEF Held
<1> HIDE DEF m
<1>9. /\ r \in PlayerStates /\ r.offered = q.offered
      /\ \A i \in Items \ {"bullet"} : r.inv[i] = q.inv[i] - m(i)
      /\ Held(r) /\ (~overfull => Fine(r))
  <2>1. CASE p \in Authority
    <3>1. /\ r = SyncBullets(s)
          /\ SyncBullets(s) \in PlayerStates /\ SyncBullets(s).offered = s.offered
          /\ \A i \in Items \ {"bullet"} : SyncBullets(s).inv[i] = s.inv[i]
          /\ Fine(s) => Fine(SyncBullets(s))
      BY <1>6, <2>1, SyncFacts DEF syncAuthorityBulletStack
    <3>2. Held(SyncBullets(s))
      BY <1>6, <1>8, SyncHeld
    <3>. QED
      BY <1>1, <1>5, <1>6, <3>1, <3>2
  <2>2. CASE p \notin Authority
    BY <1>1, <1>5, <1>6, <1>8, <2>2 DEF syncAuthorityBulletStack
  <2>. QED
    BY <2>1, <2>2
<1> HIDE DEF r
<1>10. /\ t \in PlayerStates /\ t.inv = players[target].inv
       /\ t.offered = players[target].offered
       /\ t.equipped = players[target].equipped /\ (t.alive => players[target].alive)
  BY <1>1, <1>2 DEF PlayerStates
<1> HIDE DEF t
<1>11. ~overfull => Fine(t) /\ Held(t)
  BY <1>1, <1>10 DEF Fine, Held, CanUseWeapon
<1>12. /\ players' \in [Players -> PlayerStates] /\ players'[p] = r /\ players'[target] = t
       /\ \A x \in Players : x \notin {p, target} => players'[x] = players[x]
  BY <1>1, <1>2, <1>3, <1>9, <1>10
<1>13. \A x \in Players : players'[x].offered = players[x].offered
  BY <1>9, <1>10, <1>12 DEF q
<1>14. Quiet /\ sold' = sold
  BY <1>2, <1>13, TradeQuiet
<1>15. /\ ledger' \in [Items -> Int] /\ \A i \in Items : ledger'[i] = ledger[i] - m(i)
       /\ ledger'["golden_bullet"] <= ledger["golden_bullet"]
  <2>1. CASE golden
    BY <1>1, <1>2, <2>1, Constants DEF m
  <2>2. CASE ~golden
    BY <1>1, <1>2, <2>2, Constants DEF m
  <2>. QED
    BY <2>1, <2>2
<1>16. ASSUME NEW i \in Items \ {"bullet"}
       PROVE  (players'[p].inv[i] - players[p].inv[i])
                 + (players'[target].inv[i] - players[target].inv[i]) = ledger'[i] - ledger[i]
  <2>1. players'[p].inv[i] = players[p].inv[i] - m(i)
    BY <1>9, <1>12 DEF q
  <2>2. players'[target].inv[i] = players[target].inv[i] /\ players[target].inv[i] \in Int
    BY <1>10, <1>12, WellFormed
  <2>3. players[p].inv[i] \in Int /\ m(i) \in Int /\ ledger[i] \in Int /\ ledger'[i] = ledger[i] - m(i)
    BY <1>7, <1>15 DEF q
  <2>. QED
    BY <2>1, <2>2, <2>3
<1>17. /\ overfull' \in BOOLEAN /\ (overfull => overfull')
       /\ ~overfull' => \A x \in {p, target} : Fine(players'[x]) /\ Held(players'[x])
  BY <1>1, <1>2, <1>9, <1>11, <1>12
<1>18. Balanced
  BY <1>2, <1>12, <1>14, <1>15, <1>16, <1>17, TwoChange
<1>. QED
  BY <1>14, <1>18, QuietKeeps

-----------------------------------------------------------------------------
(* The black market, the NPC prisoners and the cards *)

LEMMA BuyKeeps ==
    ASSUME EconomyInv, match' = match, NEW p \in Players, NEW i \in Items, BlackMarketBuy(p, i)
    PROVE  Kept
<1> DEFINE q == players[p]
           s == Spend(q, "money", MoneyCardCost[i])
           inv == AddItem(q.inv, i, 1, BaseSlots)
           m(j) == IF j = i THEN 1 ELSE 0
<1>1. /\ q \in PlayerStates /\ q.inv \in Inventories /\ ledger \in [Items -> Int]
      /\ sold \in BOOLEAN /\ restocking \subseteq Authority
  BY WellFormed DEF RestTypeOK
<1>2. /\ i = "golden_bullet" => ~GoldenBulletGone
      /\ q.cards["money"] >= MoneyCardCost[i] /\ CanAdd(q.inv, i, 1, BaseSlots)
      /\ players' = [players EXCEPT ![p] = WithInventory(s, inv)]
      /\ sold' = (sold \/ i = "golden_bullet")
      /\ ledger' = [ledger EXCEPT ![i] = @ + 1]
      /\ UNCHANGED <<stash, dropped, npc, task, restocking, given, income, overfull>>
      /\ Command(p)
  BY DEF BlackMarketBuy, ActionOf
<1>3. s \in PlayerStates /\ s.offered = q.offered
  <2>1. "money" \in Cards /\ MoneyCardCost[i] \in Nat
    BY Constants DEF Cards
  <2> HIDE DEF q
  <2>. QED
    BY <1>1, <1>2, <2>1, SpendFacts
<1>4. /\ inv \in Inventories /\ WithinLimit(inv, BaseSlots)
      /\ \A j \in Items : inv[j] = q.inv[j] + m(j)
  <2>1. /\ 1 \in Nat /\ BaseSlots \in Nat
        /\ q.inv \in Inventories /\ CanAdd(q.inv, i, 1, BaseSlots)
    BY <1>1, <1>2, Constants
  <2> HIDE DEF q, s
  <2>. QED
    BY <2>1, Gains
<1> HIDE DEF s, inv
<1>5. /\ players' \in [Players -> PlayerStates] /\ players'[p].inv = inv
      /\ \A x \in Players : x # p => players'[x] = players[x]
      /\ \A x \in Players : players'[x].offered = players[x].offered
      /\ ~overfull => Fine(players'[p]) /\ Held(players'[p])
  BY <1>2, <1>3, <1>4, NewInventory
<1>6. Quiet
  BY <1>1, <1>2, <1>5, CommandFacts DEF Quiet
<1>7. \A j \in Items : /\ q.inv[j] \in Int /\ ledger[j] \in Int /\ m(j) \in Int
                       /\ ledger'[j] = ledger[j] + m(j)
  <2>1. \A j \in Items : q.inv[j] \in Int /\ ledger[j] \in Int
    BY WellFormed
  <2>. QED
    BY <1>1, <1>2, <2>1
<1>8. ledger' \in [Items -> Int]
  BY <1>1, <1>2
<1>9. sold' \in BOOLEAN /\ (sold => sold')
  BY <1>1, <1>2
<1>10. ledger'["golden_bullet"] <= ledger["golden_bullet"] + IF sold' /\ ~sold THEN 1 ELSE 0
  <2>1. i = "golden_bullet" => ~sold /\ sold'
    BY <1>2 DEF GoldenBulletGone
  <2>2. /\ ledger["golden_bullet"] \in Int
        /\ ledger'["golden_bullet"] = ledger["golden_bullet"] + IF i = "golden_bullet" THEN 1 ELSE 0
    BY <1>7, Constants
  <2>. QED
    BY <2>1, <2>2
<1> HIDE DEF m
<1>11. \A j \in Items \ {"bullet"} :
         players'[p].inv[j] - ledger'[j] = players[p].inv[j] - ledger[j]
  BY <1>4, <1>5, <1>7
<1>12. Balanced
  BY <1>2, <1>5, <1>8, <1>9, <1>10, <1>11, OneChanges
<1>. QED
  BY <1>6, <1>12, QuietKeeps

LEMMA ScrapKeeps ==
    ASSUME EconomyInv, match' = match, NEW p \in Players, UseScrapBundle(p)
    PROVE  Kept
<1> DEFINE q == players[p]
           before == q.inv
           half == AddItem(before, "wood", 1, BaseSlots)
           after == AddItem(half, "metal_slab", 1, BaseSlots)
           s == Spend(q, "scrap_bundle", 1)
<1>1. /\ q \in PlayerStates /\ before \in Inventories /\ ledger \in [Items -> Int]
      /\ sold \in BOOLEAN /\ (~overfull => WithinLimit(before, BaseSlots))
  BY WellFormed DEF Fine
<1>2. /\ q.cards["scrap_bundle"] > 0
      /\ players' = [players EXCEPT ![p] = WithInventory(s, after)]
      /\ ledger' = [i \in Items |-> ledger[i] + after[i] - before[i]]
      /\ UNCHANGED <<stash, dropped, trade, overfull>> /\ Command(p)
  BY DEF UseScrapBundle, Play
<1>3. s \in PlayerStates /\ s.offered = q.offered
  <2>1. "scrap_bundle" \in Cards /\ q.cards["scrap_bundle"] >= 1 /\ 1 \in Nat
    BY <1>1, <1>2 DEF Cards, PlayerStates
  <2> HIDE DEF q
  <2>. QED
    BY <1>1, <2>1, SpendFacts
<1> HIDE DEF s
<1>4. {"wood", "metal_slab", "golden_bullet"} \subseteq Items /\ BaseSlots \in Nat /\ 1 \in Nat
  BY Constants
<1> HIDE DEF before
<1>5. /\ half \in Inventories /\ half["golden_bullet"] = before["golden_bullet"]
      /\ WithinLimit(before, BaseSlots) => WithinLimit(half, BaseSlots)
  BY <1>1, <1>4, AddFacts
<1> HIDE DEF half
<1>6. /\ after \in Inventories /\ after["golden_bullet"] = before["golden_bullet"]
      /\ WithinLimit(before, BaseSlots) => WithinLimit(after, BaseSlots)
  BY <1>4, <1>5, AddFacts
<1> HIDE DEF after
<1>7. /\ players' \in [Players -> PlayerStates] /\ players'[p].inv = after
      /\ \A x \in Players : x # p => players'[x] = players[x]
      /\ \A x \in Players : players'[x].offered = players[x].offered
      /\ ~overfull => Fine(players'[p]) /\ Held(players'[p])
  BY <1>1, <1>2, <1>3, <1>6, NewInventory
<1>8. Quiet /\ sold' = sold
  BY <1>2, <1>7, TradeQuiet
<1>9. \A j \in Items : /\ before[j] \in Int /\ after[j] \in Int /\ ledger[j] \in Int
                       /\ ledger'[j] = ledger[j] + after[j] - before[j] /\ ledger'[j] \in Int
  <2>1. \A j \in Items : before[j] \in Int /\ after[j] \in Int /\ ledger[j] \in Int
    BY <1>1, <1>6 DEF Inventories
  <2>. QED
    BY <1>2, <2>1
<1>10. \A j \in Items \ {"bullet"} :
         players'[p].inv[j] - ledger'[j] = players[p].inv[j] - ledger[j]
  <2>1. players[p].inv = before
    BY DEF before
  <2>. QED
    BY <1>7, <1>9, <2>1
<1>11. ledger' \in [Items -> Int]
  BY <1>2, <1>9
<1>12. ledger'["golden_bullet"] <= ledger["golden_bullet"] + IF sold' /\ ~sold THEN 1 ELSE 0
  BY <1>1, <1>4, <1>6, <1>8, <1>9
<1>13. Balanced
  BY <1>1, <1>2, <1>7, <1>8, <1>10, <1>11, <1>12, OneChanges
<1>. QED
  BY <1>8, <1>13, QuietKeeps

LEMMA LoudKeeps ==
    ASSUME EconomyInv, match' = match, Balanced, RestTypeOK', OneCardAPeriod', IncomeInv',
           BribeInv', BribeStep
    PROVE  Kept
<1>1. match \in Matches
  BY WellFormed
<1>2. EconomyTypeOK'
  BY <1>1, TypesSplitNext DEF Balanced
<1>. QED
  BY <1>2, BalancedKeeps DEF EconomyInv, Kept

\* Nothing is dealt when the stock of the NPC prisoner stays.
LEMMA NoDeal ==
    ASSUME EconomyInv, npc'.stock = npc.stock
    PROVE  BribeStep
<1>1. npc.stock \in {0, 1}
  BY WellFormed DEF RestTypeOK
<1>. QED
  BY <1>1 DEF BribeStep

LEMMA AssignKeeps ==
    ASSUME EconomyInv, match' = match, NEW p \in Players, AssignTask(p)
    PROVE  Kept
<1>1. /\ players \in [Players -> PlayerStates] /\ players[p] \in PlayerStates
      /\ RestTypeOK /\ (~overfull => Fine(players[p]) /\ Held(players[p]))
  BY WellFormed
<1>2. PICK t \in TasksOf(period) : task' = [task EXCEPT ![p] = t]
  BY DEF AssignTask
<1>3. /\ UNCHANGED <<players, stash, dropped, ledger, npc, restocking, sold, given, income, overfull>>
      /\ Command(p) /\ IsDay /\ task[p].day # period
  BY DEF AssignTask, ActionOf
<1>4. t \in [day : Nat, kind : {"none", "visit_room", "hold_item"}, item : TaskItems \cup {"none"}]
  <2>1. period \in Nat
    BY <1>1 DEF RestTypeOK
  <2>. QED
    BY <1>2, <2>1 DEF TasksOf
<1>5. players' = [players EXCEPT ![p] = players[p]]
  BY <1>1, <1>3
<1>6. Balanced
  BY <1>1, <1>3, <1>5, OneStays
<1>7. handled' \in [Players -> Nat] /\ period' = period
  BY <1>3, CommandFacts
<1>8. Players' = Players /\ Authority' = Authority /\ (IsDay' <=> IsDay)
  BY <1>7 DEF Players, Authority, IsDay
<1>9. RestTypeOK'
  BY <1>1, <1>2, <1>3, <1>4, <1>7, <1>8 DEF RestTypeOK
<1>10. OneCardAPeriod'
  BY <1>3, <1>8 DEF EconomyInv, OneCardAPeriod
<1>11. IncomeInv'
  <2>1. ~(income[p] > 0)
    BY <1>3 DEF EconomyInv, IncomeInv
  <2>2. \A x \in Players : x # p => task'[x] = task[x]
    BY <1>1, <1>2 DEF RestTypeOK
  <2>. QED
    BY <1>3, <1>7, <1>8, <2>1, <2>2 DEF EconomyInv, IncomeInv
<1>12. BribeInv'
  BY <1>3, <1>8 DEF EconomyInv, BribeInv
<1>13. BribeStep
  BY <1>3, NoDeal
<1>. QED
  BY <1>6, <1>9, <1>10, <1>11, <1>12, <1>13, LoudKeeps

\* A card more, or none, and nothing else.
LEMMA AddCardType ==
    ASSUME NEW hand \in [Cards -> Nat], NEW c \in Cards
    PROVE  AddCard(hand, c) \in [Cards -> Nat]
<1>1. CASE HandSize(hand) >= MaxCardsHeld
  BY <1>1 DEF AddCard
<1>2. CASE ~(HandSize(hand) >= MaxCardsHeld)
  BY <1>2 DEF AddCard
<1>. QED
  BY <1>1, <1>2

LEMMA ClaimKeeps ==
    ASSUME EconomyInv, match' = match, NEW p \in Players, ClaimTask(p)
    PROVE  Kept
<1> DEFINE q == players[p]
           r == [q EXCEPT !.cards = AddCard(q.cards, "money")]
           u == [task[p] EXCEPT !.kind = "none", !.item = "none"]
           k == IF players' # players THEN 1 ELSE 0
<1>1. /\ players \in [Players -> PlayerStates] /\ q \in PlayerStates
      /\ RestTypeOK /\ (~overfull => Fine(q) /\ Held(q))
  BY WellFormed
<1>2. /\ IsDay /\ task[p].day = period /\ task[p].kind # "none"
      /\ income' = [income EXCEPT ![p] = @ + k]
      /\ UNCHANGED <<stash, dropped, ledger, npc, restocking, sold, given, overfull>> /\ Command(p)
  BY DEF ClaimTask, ActionOf
<1>3. players' = [players EXCEPT ![p] = r]
  BY <1>1 DEF ClaimTask
<1>4. task' = [task EXCEPT ![p] = u]
  BY <1>1 DEF ClaimTask, RestTypeOK
<1>5. /\ r \in PlayerStates /\ r.inv = q.inv /\ r.offered = q.offered
      /\ r.alive = q.alive /\ r.equipped = q.equipped
  <2>1. q.cards \in [Cards -> Nat] /\ "money" \in Cards
    BY <1>1 DEF PlayerStates, Cards
  <2>2. AddCard(q.cards, "money") \in [Cards -> Nat]
    BY <2>1, AddCardType
  <2>. QED
    BY <1>1, <2>2 DEF PlayerStates
<1>6. k \in {0, 1}
  OBVIOUS
<1> HIDE DEF r, k
<1>7. ~overfull => Fine(r) /\ Held(r)
  BY <1>1, <1>5 DEF Fine, Held, CanUseWeapon
<1>8. /\ Balanced /\ players'[p] = r
      /\ \A x \in Players : x # p => players'[x] = players[x]
  BY <1>2, <1>3, <1>5, <1>7, OneStays
<1>9. handled' \in [Players -> Nat] /\ period' = period
  BY <1>2, CommandFacts
<1>10. Players' = Players /\ Authority' = Authority /\ (IsDay' <=> IsDay)
  BY <1>9 DEF Players, Authority, IsDay
<1>11. /\ income \in [Players -> Nat] /\ income[p] = 0
       /\ task \in [Players -> [day : Nat, kind : {"none", "visit_room", "hold_item"},
                                item : TaskItems \cup {"none"}]]
  <2>1. income \in [Players -> Nat]
    BY <1>1 DEF RestTypeOK
  <2>2. ~(income[p] > 0)
    BY <1>2 DEF EconomyInv, IncomeInv
  <2>. QED
    BY <1>1, <2>1, <2>2 DEF RestTypeOK
<1>12. /\ income' \in [Players -> Nat] /\ income'[p] = k
       /\ \A x \in Players : x # p => income'[x] = income[x]
  BY <1>2, <1>6, <1>11
<1>13. /\ task' \in [Players -> [day : Nat, kind : {"none", "visit_room", "hold_item"},
                                 item : TaskItems \cup {"none"}]]
       /\ task'[p].day = period /\ task'[p].kind = "none"
       /\ \A x \in Players : x # p => task'[x] = task[x]
  BY <1>2, <1>4, <1>11
<1>14. RestTypeOK'
  BY <1>1, <1>2, <1>9, <1>10, <1>12, <1>13 DEF RestTypeOK
<1>15. OneCardAPeriod'
  BY <1>6, <1>10, <1>12 DEF EconomyInv, OneCardAPeriod
<1>16. IncomeInv'
  <2>1. \A x \in Players : players'[x].offered = players[x].offered
    BY <1>5, <1>8
  <2>. QED
    BY <1>2, <1>9, <1>10, <1>12, <1>13, <2>1 DEF EconomyInv, IncomeInv
<1>17. BribeInv'
  BY <1>2, <1>10 DEF EconomyInv, BribeInv
<1>18. BribeStep
  BY <1>2, NoDeal
<1>. QED
  BY <1>8, <1>14, <1>15, <1>16, <1>17, <1>18, LoudKeeps

LEMMA SelectKeeps ==
    ASSUME EconomyInv, match' = match, NEW p \in Players, NEW c \in Cards, SelectNightCard(p, c)
    PROVE  Kept
<1> DEFINE q == players[p]
           r == [q EXCEPT !.cards = AddCard(q.cards, c), !.offered = FALSE]
<1>1. /\ players \in [Players -> PlayerStates] /\ q \in PlayerStates
      /\ RestTypeOK /\ (~overfull => Fine(q) /\ Held(q))
  BY WellFormed
<1>2. /\ q.offered
      /\ income' = [income EXCEPT ![p] = @ + 1]
      /\ UNCHANGED <<stash, dropped, ledger, npc, task, restocking, sold, given, overfull>>
      /\ Command(p)
  BY DEF SelectNightCard, ActionOf
<1>3. players' = [players EXCEPT ![p] = r]
  BY <1>1 DEF SelectNightCard
<1>4. /\ r \in PlayerStates /\ r.inv = q.inv /\ r.offered = FALSE
      /\ r.alive = q.alive /\ r.equipped = q.equipped
  <2>1. q.cards \in [Cards -> Nat]
    BY <1>1 DEF PlayerStates
  <2>2. AddCard(q.cards, c) \in [Cards -> Nat]
    BY <2>1, AddCardType
  <2>. QED
    BY <1>1, <2>2 DEF PlayerStates
<1> HIDE DEF r
<1>5. ~overfull => Fine(r) /\ Held(r)
  BY <1>1, <1>4 DEF Fine, Held, CanUseWeapon
<1>6. /\ Balanced /\ players'[p] = r
      /\ \A x \in Players : x # p => players'[x] = players[x]
  BY <1>2, <1>3, <1>4, <1>5, OneStays
<1>7. handled' \in [Players -> Nat] /\ period' = period
  BY <1>2, CommandFacts
<1>8. Players' = Players /\ Authority' = Authority /\ (IsDay' <=> IsDay)
  BY <1>7 DEF Players, Authority, IsDay
<1>9. income \in [Players -> Nat] /\ income[p] = 0 /\ ~IsDay
  <2>1. income \in [Players -> Nat]
    BY <1>1 DEF RestTypeOK
  <2>2. ~(income[p] > 0) /\ ~IsDay
    BY <1>2 DEF EconomyInv, IncomeInv
  <2>. QED
    BY <2>1, <2>2
<1>10. /\ income' \in [Players -> Nat] /\ income'[p] = 1
       /\ \A x \in Players : x # p => income'[x] = income[x]
  BY <1>2, <1>9
<1>11. RestTypeOK'
  BY <1>1, <1>2, <1>7, <1>8, <1>10 DEF RestTypeOK
<1>12. OneCardAPeriod'
  BY <1>8, <1>10 DEF EconomyInv, OneCardAPeriod
<1>13. IncomeInv'
  BY <1>4, <1>6, <1>8, <1>9, <1>10 DEF EconomyInv, IncomeInv
<1>14. BribeInv'
  BY <1>2, <1>8 DEF EconomyInv, BribeInv
<1>15. BribeStep
  BY <1>2, NoDeal
<1>. QED
  BY <1>6, <1>11, <1>12, <1>13, <1>14, <1>15, LoudKeeps

LEMMA BribeKeeps ==
    ASSUME EconomyInv, match' = match, NEW p \in Players, Bribe(p)
    PROVE  Kept
<1> DEFINE q == players[p]
           s == Spend(q, "money", 1)
           i == npc.item
           cost == MoneyCardCost[i]
<1>1. /\ players \in [Players -> PlayerStates] /\ q \in PlayerStates /\ q.inv \in Inventories
      /\ RestTypeOK /\ (~overfull => Fine(q) /\ Held(q))
      /\ ledger \in [Items -> Int] /\ sold \in BOOLEAN
  BY WellFormed
<1>2. /\ q.cards["money"] > 0 /\ npc.stock > 0
      /\ given' = [given EXCEPT ![p] = @ + 1]
      /\ UNCHANGED <<stash, dropped, task, restocking, sold, income, overfull>> /\ Command(p)
  BY DEF Bribe, ActionOf
<1>3. /\ npc \in [item : NPCOffers, stock : {0, 1}, payer : Players \cup {"none"}, paid : Nat]
      /\ given \in [Players -> Nat]
  BY <1>1 DEF RestTypeOK
<1>4. i \in Items /\ i # "golden_bullet" /\ cost \in Nat /\ npc.stock = 1
  BY <1>2, <1>3, Constants DEF NPCOffers
<1>5. PaidBy(p) \in Nat /\ given[p] >= PaidBy(p)
  BY <1>3 DEF PaidBy, EconomyInv, BribeInv
<1>6. /\ given' \in [Players -> Nat] /\ given'[p] = given[p] + 1
  BY <1>2, <1>3
<1>7. handled' \in [Players -> Nat] /\ period' = period
  BY <1>2, CommandFacts
<1>8. Players' = Players /\ Authority' = Authority /\ (IsDay' <=> IsDay)
  BY <1>7 DEF Players, Authority, IsDay
<1>9. OneCardAPeriod'
  BY <1>2, <1>8 DEF EconomyInv, OneCardAPeriod
<1>10. /\ s \in PlayerStates /\ s.inv = q.inv /\ s.offered = q.offered
       /\ s.alive = q.alive /\ s.equipped = q.equipped
  <2>1. "money" \in Cards /\ q.cards["money"] >= 1 /\ 1 \in Nat
    BY <1>1, <1>2 DEF Cards, PlayerStates
  <2> HIDE DEF q
  <2>. QED
    BY <1>1, <2>1, SpendFacts
<1> HIDE DEF s
<1>11. CASE PaidBy(p) + 1 < cost
  <2>1. /\ npc' = [npc EXCEPT !.payer = p, !.paid = PaidBy(p) + 1]
        /\ players' = [players EXCEPT ![p] = s] /\ ledger' = ledger
    BY <1>11 DEF Bribe, s
  <2>2. ~overfull => Fine(s) /\ Held(s)
    BY <1>1, <1>10 DEF Fine, Held, CanUseWeapon
  <2>3. /\ Balanced /\ players'[p] = s
        /\ \A x \in Players : x # p => players'[x] = players[x]
    BY <1>2, <1>10, <2>1, <2>2, OneStays
  <2>4. /\ npc' \in [item : NPCOffers, stock : {0, 1}, payer : Players \cup {"none"}, paid : Nat]
        /\ npc'.payer = p /\ npc'.paid = PaidBy(p) + 1 /\ npc'.stock = npc.stock
    <3> DEFINE k == PaidBy(p) + 1
    <3>1. k \in Nat /\ npc' = [npc EXCEPT !.payer = p, !.paid = k]
      BY <1>5, <2>1
    <3> HIDE DEF k
    <3>2. /\ npc' \in [item : NPCOffers, stock : {0, 1}, payer : Players \cup {"none"}, paid : Nat]
          /\ npc'.payer = p /\ npc'.paid = k /\ npc'.stock = npc.stock
      BY <1>3, <3>1
    <3>. QED
      BY <3>2 DEF k
  <2>5. RestTypeOK'
    BY <1>1, <1>2, <1>6, <1>7, <1>8, <2>4 DEF RestTypeOK
  <2>6. IncomeInv'
    <3>1. \A x \in Players : players'[x].offered = players[x].offered
      BY <1>10, <2>3
    <3>. QED
      BY <1>2, <1>7, <1>8, <3>1 DEF EconomyInv, IncomeInv
  <2>7. BribeInv'
    <3>1. given[p] \in Nat
      BY <1>3
    <3>2. given'[p] >= npc'.paid
      BY <1>5, <1>6, <2>4, <3>1
    <3>. QED
      BY <2>4, <3>2 DEF BribeInv
  <2>8. BribeStep
    BY <2>4, NoDeal
  <2>. QED
    BY <1>9, <2>3, <2>5, <2>6, <2>7, <2>8, LoudKeeps
<1>12. CASE ~(PaidBy(p) + 1 < cost)
  <2> DEFINE inv == AddItem(q.inv, i, 1, BaseSlots)
             r == [s EXCEPT !.inv = inv]
             m(j) == IF j = i THEN 1 ELSE 0
  <2>1. /\ npc' = [npc EXCEPT !.stock = @ - 1, !.payer = "none", !.paid = 0]
        /\ players' = [players EXCEPT ![p] = r]
        /\ ledger' = [ledger EXCEPT ![i] = @ + 1]
        /\ CanAdd(q.inv, i, 1, BaseSlots)
    BY <1>12 DEF Bribe, s
  <2>2. /\ inv \in Inventories /\ WithinLimit(inv, BaseSlots)
        /\ \A j \in Items : inv[j] = q.inv[j] + m(j)
    <3>1. /\ 1 \in Nat /\ BaseSlots \in Nat /\ q.inv \in Inventories /\ i \in Items
          /\ CanAdd(q.inv, i, 1, BaseSlots)
      BY <1>1, <1>4, <2>1, Constants
    <3> HIDE DEF q, i
    <3>. QED
      BY <3>1, Gains
  <2> HIDE DEF inv
  <2>3. /\ r \in PlayerStates /\ r.inv = inv /\ r.offered = q.offered
        /\ r.alive = q.alive /\ r.equipped = q.equipped
    BY <1>10, <2>2 DEF PlayerStates
  <2> HIDE DEF r
  <2>4. \A j \in Items : /\ q.inv[j] \in Nat /\ ledger[j] \in Int /\ m(j) \in Nat
                         /\ ledger'[j] = ledger[j] + m(j)
    <3>1. \A j \in Items : q.inv[j] \in Nat /\ ledger[j] \in Int
      BY WellFormed
    <3>. QED
      BY <1>1, <1>4, <2>1, <3>1
  <2>5. ~overfull => Fine(r) /\ Held(r)
    <3>1. Held(q) => Held(r)
      <4>1. SUFFICES ASSUME Held(q), r.alive, r.equipped # "none"
                     PROVE  CanUseWeapon(r, r.equipped)
        BY DEF Held
      <4>2. CanUseWeapon(q, q.equipped)
        BY <2>3, <4>1 DEF Held
      <4>3. q.inv[q.equipped] > 0 /\ q.equipped \in Items
        BY <4>2 DEF CanUseWeapon
      <4>4. r.inv[q.equipped] > 0
        <5> HIDE DEF m
        <5>. QED
          BY <2>2, <2>3, <2>4, <4>3
      <4>. QED
        BY <2>3, <4>2, <4>4 DEF CanUseWeapon
    <3>. QED
      BY <1>1, <2>2, <2>3, <3>1 DEF Fine
  <2>6. /\ players' \in [Players -> PlayerStates] /\ players'[p] = r
        /\ \A x \in Players : x # p => players'[x] = players[x]
    BY <1>1, <2>1, <2>3
  <2>7. /\ ledger' \in [Items -> Int]
        /\ ledger'["golden_bullet"] <= ledger["golden_bullet"] + IF sold' /\ ~sold THEN 1 ELSE 0
    <3>1. ledger' \in [Items -> Int]
      BY <1>1, <1>4, <2>1
    <3>2. ledger'["golden_bullet"] = ledger["golden_bullet"] /\ ledger["golden_bullet"] \in Int
      BY <1>4, <2>4, Constants
    <3>. QED
      BY <1>2, <3>1, <3>2
  <2>8. \A j \in Items \ {"bullet"} :
           players'[p].inv[j] - ledger'[j] = players[p].inv[j] - ledger[j]
    <3> HIDE DEF m
    <3>. QED
      BY <2>2, <2>3, <2>4, <2>6
  <2>9. Balanced
    BY <1>1, <1>2, <2>5, <2>6, <2>7, <2>8, OneChanges
  <2>10. /\ npc' \in [item : NPCOffers, stock : {0, 1}, payer : Players \cup {"none"}, paid : Nat]
         /\ npc'.payer = "none" /\ npc'.paid = 0
    <3>1. npc.stock - 1 = 0
      BY <1>4
    <3>2. npc' = [npc EXCEPT !.stock = 0, !.payer = "none", !.paid = 0]
      BY <2>1, <3>1
    <3>. QED
      BY <1>3, <3>2
  <2>11. RestTypeOK'
    BY <1>1, <1>2, <1>6, <1>7, <1>8, <2>10 DEF RestTypeOK
  <2>12. IncomeInv'
    <3>1. \A x \in Players : players'[x].offered = players[x].offered
      BY <2>3, <2>6
    <3>. QED
      BY <1>2, <1>7, <1>8, <3>1 DEF EconomyInv, IncomeInv
  <2>13. BribeInv'
    <3>1. \A x \in Players : given'[x] \in Nat
      BY <1>6
    <3>. QED
      BY <1>8, <2>10, <3>1 DEF BribeInv
  <2>14. BribeStep
    <3>1. players'[p].inv[i] = players[p].inv[i] + 1
      BY <1>4, <2>2, <2>3, <2>6
    <3>2. given'[p] >= cost
      <4>1. given[p] \in Nat
        BY <1>3
      <4> HIDE DEF cost
      <4>. QED
        BY <1>4, <1>5, <1>6, <1>12, <4>1
    <3>. QED
      BY <3>1, <3>2 DEF BribeStep
  <2>. QED
    BY <1>9, <2>9, <2>11, <2>12, <2>13, <2>14, LoudKeeps
<1>. QED
  BY <1>11, <1>12

-----------------------------------------------------------------------------
(* The end of a tick and of a period *)

LEMMA ExpiredFacts ==
    ASSUME EconomyInv, NEW killed
    PROVE  /\ Expired(killed) \in [Players -> PlayerStates]
           /\ \A p \in Players : LET e == Expired(killed)[p]
                                 IN /\ e.inv = players[p].inv /\ e.offered = players[p].offered
                                    /\ Held(e) /\ (~overfull => Fine(e))
<1>1. ASSUME NEW p \in Players
      PROVE  LET e == Expired(killed)[p]
             IN /\ e \in PlayerStates
                /\ e.inv = players[p].inv /\ e.offered = players[p].offered
                /\ Held(e) /\ (~overfull => Fine(e))
  <2> DEFINE q == ensureEquippedItem(players[p])
             e == IF p \in killed THEN [q EXCEPT !.alive = FALSE] ELSE q
  <2>1. players[p] \in PlayerStates /\ (~overfull => Fine(players[p]))
    BY WellFormed
  <2>2. q \in PlayerStates /\ q.inv = players[p].inv /\ q.offered = players[p].offered /\ Held(q)
    BY <2>1, EnsureFacts
  <2>3. Expired(killed)[p] = e
    BY DEF Expired
  <2> HIDE DEF q
  <2>4. e \in PlayerStates /\ e.inv = q.inv /\ e.offered = q.offered /\ Held(e)
    <3>1. CASE p \in killed
      BY <2>2, <3>1 DEF PlayerStates, Held
    <3>2. CASE p \notin killed
      BY <2>2, <3>2
    <3>. QED
      BY <3>1, <3>2
  <2> HIDE DEF e
  <2>. QED
    BY <2>1, <2>2, <2>3, <2>4 DEF Fine
<1>2. Expired(killed) = [p \in Players |-> Expired(killed)[p]]
  BY DEF Expired
<1>. QED
  BY <1>1, <1>2

\* Nobody gains or loses anything.
LEMMA AllStay ==
    ASSUME EconomyInv, match' = match, players' \in [Players -> PlayerStates],
           \A x \in Players : players'[x].inv = players[x].inv,
           ~overfull => \A x \in Players : Fine(players'[x]) /\ Held(players'[x]),
           UNCHANGED <<stash, dropped, ledger, sold, overfull>>
    PROVE  Balanced
<1>1. /\ match \in Matches /\ DroppedBag(dropped) /\ ledger \in [Items -> Int]
      /\ players \in [Players -> PlayerStates] /\ stash \in [Players -> Inventories]
      /\ overfull \in BOOLEAN /\ sold \in BOOLEAN
  BY WellFormed
<1>2. ASSUME NEW i \in Items
      PROVE  /\ Units(players', stash', dropped', i) = Units(players, stash, dropped, i)
             /\ Units(players, stash, dropped, i) \in Int /\ ledger[i] \in Int
  <2>1. Carry(players', stash, i) = Carry(players, stash, i)
    BY DEF Carry
  <2>2. Units(players, stash, dropped, i) \in Int
    BY <1>1, UnitsType
  <2>. QED
    BY <1>1, <2>1, <2>2 DEF Units
<1>3. ledger'["golden_bullet"] <= ledger["golden_bullet"] + IF sold' /\ ~sold THEN 1 ELSE 0
  BY <1>1, Constants
<1>4. \A i \in Items \ {"bullet"} :
         /\ Units(players', stash', dropped', i) - ledger'[i]
               <= Units(players, stash, dropped, i) - ledger[i]
         /\ Units(players', stash', dropped', i) - ledger'[i]
               = Units(players, stash, dropped, i) - ledger[i]
  BY <1>2
<1>. QED
  BY <1>1, <1>3, <1>4 DEF Balanced

LEMMA TickKeeps ==
    ASSUME EconomyInv, match' = match, NEW killed, EndTick(killed)
    PROVE  Kept
<1>1. /\ players' = Expired(killed)
      /\ UNCHANGED <<stash, dropped, npc, task, restocking, sold, period, handled, ledger,
                     given, income, overfull>>
  BY DEF EndTick
<1>2. /\ players' \in [Players -> PlayerStates]
      /\ \A x \in Players : /\ players'[x].inv = players[x].inv
                            /\ players'[x].offered = players[x].offered
                            /\ ~overfull => Fine(players'[x]) /\ Held(players'[x])
  BY <1>1, ExpiredFacts
<1>3. Balanced
  BY <1>1, <1>2, AllStay
<1>4. restocking \subseteq Authority /\ handled \in [Players -> Nat]
  BY WellFormed DEF RestTypeOK
<1>5. Quiet
  BY <1>1, <1>2, <1>4 DEF Quiet
<1>. QED
  BY <1>3, <1>5, QuietKeeps

LEMMA Parity ==
    ASSUME NEW n \in Nat
    PROVE  (n + 1) % 2 = 1 <=> n % 2 # 1
OBVIOUS

\* With the period the incomes start again.
LEMMA NewPeriod ==
    ASSUME EconomyInv, match' = match, period' = period + 1, Balanced,
           income' = [p \in Players |-> 0],
           UNCHANGED <<task, restocking, handled>>,
           npc' \in [item : NPCOffers, stock : {0, 1}, payer : Players \cup {"none"}, paid : Nat],
           given' \in [Players -> Nat], BribeInv', npc'.stock >= npc.stock,
           ~IsDay => \A p \in Players : ~players'[p].offered
    PROVE  Kept
<1>1. RestTypeOK
  BY WellFormed
<1>2. period \in Nat /\ period' \in Nat /\ npc.stock \in {0, 1} /\ npc'.stock \in {0, 1}
  BY <1>1 DEF RestTypeOK
<1>3. Players' = Players /\ Authority' = Authority
  BY DEF Players, Authority
<1>4. IsDay' <=> ~IsDay
  BY <1>2, Parity DEF IsDay
<1>5. income' \in [Players -> Nat] /\ \A p \in Players : income'[p] = 0
  OBVIOUS
<1>6. RestTypeOK'
  BY <1>1, <1>2, <1>3, <1>5 DEF RestTypeOK
<1>7. OneCardAPeriod'
  BY <1>3, <1>5 DEF OneCardAPeriod
<1>8. IncomeInv'
  BY <1>3, <1>4, <1>5 DEF IncomeInv
<1>9. BribeStep
  BY <1>2 DEF BribeStep
<1>. QED
  BY <1>6, <1>7, <1>8, <1>9, LoudKeeps

LEMMA NightKeeps ==
    ASSUME EconomyInv, match' = match, NEW killed, EndPeriod(killed), IsDay
    PROVE  Kept
<1> DEFINE ps == Expired(killed)
           r(p) == [ps[p] EXCEPT !.offered = ps[p].alive /\ HandSize(ps[p].cards) < MaxCardsHeld]
<1>1. /\ period' = period + 1 /\ income' = [p \in Players |-> 0]
      /\ UNCHANGED <<stash, dropped, task, restocking, sold, handled, overfull>>
      /\ NightFalls(ps)
  BY DEF EndPeriod
<1>2. /\ ps \in [Players -> PlayerStates]
      /\ \A p \in Players : /\ ps[p] \in PlayerStates /\ ps[p].inv = players[p].inv
                            /\ Held(ps[p]) /\ (~overfull => Fine(ps[p]))
  BY ExpiredFacts
<1> HIDE DEF ps
<1>3. /\ players' = [p \in Players |-> r(p)]
      /\ npc' \in {NPCOffer(i) : i \in NPCOffers}
      /\ given' = [p \in Players |-> 0] /\ ledger' = ledger
  BY <1>1 DEF NightFalls, WithNightCards
<1>4. ASSUME NEW p \in Players
      PROVE  r(p) \in PlayerStates /\ r(p).inv = players[p].inv /\ Held(r(p)) /\ (~overfull => Fine(r(p)))
  <2> DEFINE b == ps[p].alive /\ HandSize(ps[p].cards) < MaxCardsHeld
  <2>1. b \in BOOLEAN
    OBVIOUS
  <2> HIDE DEF b
  <2> DEFINE e == [ps[p] EXCEPT !.offered = b]
  <2>2. /\ e \in PlayerStates /\ e.inv = ps[p].inv /\ e.alive = ps[p].alive
        /\ e.equipped = ps[p].equipped
    BY <1>2, <2>1 DEF PlayerStates
  <2>3. r(p) = e
    BY DEF b
  <2> HIDE DEF e, r
  <2>4. Held(e)
    BY <1>2, <2>2 DEF Held, CanUseWeapon
  <2>. QED
    BY <1>2, <2>2, <2>3, <2>4 DEF Fine
<1> HIDE DEF r
<1>5. /\ players' \in [Players -> PlayerStates]
      /\ \A p \in Players : players'[p].inv = players[p].inv
      /\ ~overfull => \A p \in Players : Fine(players'[p]) /\ Held(players'[p])
  BY <1>3, <1>4
<1>6. Balanced
  BY <1>1, <1>3, <1>5, AllStay
<1>7. /\ npc' \in [item : NPCOffers, stock : {0, 1}, payer : Players \cup {"none"}, paid : Nat]
      /\ npc'.stock = 1 /\ npc'.paid = 0
  BY <1>3 DEF NPCOffer
<1>8. given' \in [Players -> Nat] /\ \A p \in Players : given'[p] = 0
  BY <1>3
<1>9. BribeInv'
  <2>1. Players' = Players
    BY DEF Players
  <2>. QED
    BY <1>7, <1>8, <2>1 DEF BribeInv
<1>10. npc'.stock >= npc.stock
  <2>1. npc.stock \in {0, 1}
    BY WellFormed DEF RestTypeOK
  <2>. QED
    BY <1>7, <2>1
<1>. QED
  BY <1>1, <1>6, <1>7, <1>8, <1>9, <1>10, NewPeriod

LEMMA DayKeeps ==
    ASSUME EconomyInv, match' = match, NEW killed, EndPeriod(killed), ~IsDay
    PROVE  Kept
<1> DEFINE ps == Expired(killed)
           q(p) == [ps[p] EXCEPT !.offered = FALSE]
           r(p) == IF p \in Authority THEN RestoreSidearms(q(p)) ELSE q(p)
           D(i) == [p \in Authority |-> players'[p].inv[i] - ps[p].inv[i]]
<1>1. /\ period' = period + 1 /\ income' = [p \in Players |-> 0]
      /\ UNCHANGED <<stash, dropped, task, restocking, sold, handled, overfull>>
      /\ DayBreaks(ps)
  BY DEF EndPeriod
<1>2. /\ ps \in [Players -> PlayerStates]
      /\ \A p \in Players : /\ ps[p] \in PlayerStates /\ ps[p].inv = players[p].inv
                            /\ Held(ps[p]) /\ (~overfull => Fine(ps[p]))
  BY ExpiredFacts
<1> HIDE DEF ps
<1>3. /\ players' = [p \in Players |-> r(p)]
      /\ ledger' = [i \in Items |-> ledger[i] + SumFunction(D(i))]
      /\ npc' = npc /\ given' = given
  BY <1>1 DEF DayBreaks
<1>4. ASSUME NEW p \in Players
      PROVE  /\ q(p) \in PlayerStates /\ q(p).inv = players[p].inv /\ ~q(p).offered
             /\ Held(q(p)) /\ (~overfull => Fine(q(p)))
  <2> DEFINE e == q(p)
  <2>1. /\ e \in PlayerStates /\ e.inv = ps[p].inv /\ e.alive = ps[p].alive
        /\ e.equipped = ps[p].equipped /\ e.offered = FALSE
    BY <1>2 DEF PlayerStates
  <2> HIDE DEF e
  <2>2. Held(e)
    BY <1>2, <2>1 DEF Held, CanUseWeapon
  <2>3. e.inv = players[p].inv /\ (~overfull => Fine(e))
    BY <1>2, <2>1 DEF Fine
  <2>. QED
    BY <2>1, <2>2, <2>3 DEF e
<1> HIDE DEF q
<1>5. ASSUME NEW p \in Players
      PROVE  /\ r(p) \in PlayerStates /\ ~r(p).offered /\ Held(r(p)) /\ (~overfull => Fine(r(p)))
             /\ p \notin Authority => r(p).inv = players[p].inv
             /\ \A i \in Items \ {"baton", "pistol", "bullet"} : r(p).inv[i] <= players[p].inv[i]
  <2>1. CASE p \in Authority
    <3>1. r(p) = RestoreSidearms(q(p))
      BY <2>1
    <3>2. LET e == RestoreSidearms(q(p))
          IN /\ e \in PlayerStates /\ e.offered = q(p).offered
             /\ \A i \in Items \ {"baton", "pistol", "bullet"} : e.inv[i] <= q(p).inv[i]
             /\ Fine(e) /\ Held(e)
      BY <1>4, RestoreFacts
    <3> HIDE DEF r
    <3>. QED
      BY <1>4, <2>1, <3>1, <3>2
  <2>2. CASE p \notin Authority
    <3>1. r(p) = q(p)
      BY <2>2
    <3>2. \A i \in Items : q(p).inv[i] \in Int
      BY <1>4 DEF PlayerStates, Inventories
    <3> HIDE DEF r
    <3>. QED
      BY <1>4, <3>1, <3>2
  <2>. QED
    BY <2>1, <2>2
<1> HIDE DEF r
<1>6. /\ players' \in [Players -> PlayerStates]
      /\ \A p \in Players : /\ players'[p] = r(p)
                            /\ p \notin Authority => players'[p].inv = players[p].inv
                            /\ ~players'[p].offered
      /\ ~overfull => \A p \in Players : Fine(players'[p]) /\ Held(players'[p])
  BY <1>3, <1>5
<1>7. /\ match \in Matches /\ DroppedBag(dropped) /\ ledger \in [Items -> Int]
      /\ players \in [Players -> PlayerStates] /\ stash \in [Players -> Inventories]
      /\ overfull \in BOOLEAN /\ sold \in BOOLEAN /\ RestTypeOK
  BY WellFormed
<1>8. IsFiniteSet(Players) /\ Authority \in SUBSET Players /\ IsFiniteSet(Authority)
  BY <1>7, PlayersFinite, FS_Subset
<1>9. ASSUME NEW i \in Items
      PROVE  /\ D(i) \in [Authority -> Int] /\ SumFunction(D(i)) \in Int
             /\ SumFunction(Carry(players', stash, i))
                   = SumFunction(Carry(players, stash, i)) + SumFunction(D(i))
  <2> DEFINE f == Carry(players, stash, i)
             g == Carry(players', stash, i)
  <2>1. /\ f \in [Players -> Int] /\ g \in [Players -> Int]
        /\ \A p \in Players : /\ f[p] = players[p].inv[i] + stash[p][i]
                              /\ g[p] = players'[p].inv[i] + stash[p][i]
                              /\ players[p].inv[i] \in Int /\ players'[p].inv[i] \in Int
                              /\ stash[p][i] \in Int
    BY <1>6, <1>7, CarryType
  <2> HIDE DEF f, g
  <2>2. D(i) = [p \in Authority |-> g[p] - f[p]]
    <3>1. \A p \in Authority : players'[p].inv[i] - ps[p].inv[i] = g[p] - f[p]
      BY <1>2, <1>8, <2>1
    <3>. QED
      BY <3>1
  <2>3. D(i) \in [Authority -> Int]
    BY <1>8, <2>1, <2>2
  <2> HIDE DEF D
  <2>4. SumFunction(D(i)) \in Int
    BY <1>8, <2>3, SumFunctionInt
  <2>5. \A p \in Players \ Authority : g[p] = f[p]
    BY <1>6, <2>1
  <2>6. SumFunction(g) = SumFunction(f) + SumFunction([p \in Authority |-> g[p] - f[p]])
    BY <1>8, <2>1, <2>5, SumDifference
  <2>. QED
    BY <2>2, <2>3, <2>4, <2>6 DEF f, g
<1>10. SumFunction(D("golden_bullet")) <= 0
  <2> DEFINE gold == "golden_bullet"
  <2>1. gold \in Items /\ gold \in Items \ {"baton", "pistol", "bullet"}
    BY Constants
  <2>2. \A p \in Authority : D(gold)[p] <= 0
    <3>1. ASSUME NEW p \in Authority
          PROVE  players'[p].inv[gold] - ps[p].inv[gold] <= 0
      <4>1. /\ players'[p].inv[gold] <= players[p].inv[gold] /\ ps[p].inv[gold] = players[p].inv[gold]
            /\ players[p].inv[gold] \in Int
        BY <1>2, <1>5, <1>6, <1>8, <2>1, WellFormed
      <4>2. players'[p].inv[gold] \in Int
        BY <1>6, <1>8, <2>1 DEF PlayerStates, Inventories
      <4>. QED
        BY <4>1, <4>2
    <3>. QED
      BY <3>1
  <2> HIDE DEF gold, D
  <2>3. D(gold) \in [Authority -> Int]
    BY <1>9, <2>1
  <2>4. SumFunction(D(gold)) <= 0
    BY <1>8, <2>2, <2>3, SumNotPositive
  <2>. QED
    BY <2>4 DEF gold
<1>11. \A i \in Items : ledger'[i] = ledger[i] + SumFunction(D(i)) /\ ledger[i] \in Int /\ ledger'[i] \in Int
  <2>1. SUFFICES ASSUME NEW i \in Items
                 PROVE  ledger'[i] = ledger[i] + SumFunction(D(i)) /\ ledger[i] \in Int /\ ledger'[i] \in Int
    OBVIOUS
  <2>2. ledger'[i] = ledger[i] + SumFunction(D(i))
    BY <1>3
  <2>3. ledger[i] \in Int /\ SumFunction(D(i)) \in Int
    BY <1>7, <1>9
  <2> HIDE DEF D
  <2>. QED
    BY <2>2, <2>3
<1> HIDE DEF D
<1>12. ledger' \in [Items -> Int]
  BY <1>3, <1>11
<1>13. ledger'["golden_bullet"] <= ledger["golden_bullet"] + IF sold' /\ ~sold THEN 1 ELSE 0
  <2>1. "golden_bullet" \in Items
    BY Constants
  <2>2. ledger'["golden_bullet"] <= ledger["golden_bullet"] /\ ledger["golden_bullet"] \in Int
    BY <1>9, <1>10, <1>11, <2>1
  <2>. QED
    BY <1>1, <2>2
<1>14. ASSUME NEW i \in Items
       PROVE  /\ Units(players', stash', dropped', i) - ledger'[i]
                    = Units(players, stash, dropped, i) - ledger[i]
              /\ Units(players', stash', dropped', i) - ledger'[i]
                    <= Units(players, stash, dropped, i) - ledger[i]
  <2> DEFINE A == SumFunction(Carry(players, stash, i))
             B == SumFunction(Carry(players', stash, i))
             L == SumFunction(Lie(dropped, i))
  <2>1. A \in Int /\ L \in Int
    BY <1>7, UnitsType
  <2>2. B = A + SumFunction(D(i)) /\ SumFunction(D(i)) \in Int
    BY <1>9
  <2>3. /\ Units(players, stash, dropped, i) = A + L
        /\ Units(players', stash', dropped', i) = B + L
    BY <1>1 DEF Units
  <2> HIDE DEF A, B, L
  <2>. QED
    BY <1>11, <2>1, <2>2, <2>3
<1>15. Balanced
  BY <1>1, <1>6, <1>7, <1>12, <1>13, <1>14 DEF Balanced
<1>16. /\ npc' \in [item : NPCOffers, stock : {0, 1}, payer : Players \cup {"none"}, paid : Nat]
       /\ given' \in [Players -> Nat]
  BY <1>3, <1>7 DEF RestTypeOK
<1>17. npc'.stock >= npc.stock
  <2>1. npc.stock \in {0, 1}
    BY <1>7 DEF RestTypeOK
  <2>. QED
    BY <1>3, <2>1
<1>18. BribeInv'
  <2>1. Players' = Players
    BY DEF Players
  <2>. QED
    BY <1>3, <2>1 DEF EconomyInv, BribeInv
<1>. QED
  BY <1>1, <1>6, <1>15, <1>16, <1>17, <1>18, NewPeriod

-----------------------------------------------------------------------------
(* The invariant at the start, and in every step *)

LEMMA SidearmsFit ==
    ASSUME NEW inv \in Inventories, \A i \in Items : inv[i] > 0 => i \in {"baton", "pistol"}
    PROVE  WithinLimit(inv, BaseSlots)
<1>1. Stacks(inv) \subseteq {"baton", "pistol"}
  BY DEF Stacks
<1>2. IsFiniteSet({"baton", "pistol"}) /\ Cardinality({"baton", "pistol"}) = 2
  <2>1. IsFiniteSet({"baton"}) /\ Cardinality({"baton"}) = 1
    BY FS_Singleton
  <2>2. "pistol" \notin {"baton"} /\ {"baton"} \cup {"pistol"} = {"baton", "pistol"}
    OBVIOUS
  <2> DEFINE S == {"baton"}
  <2> HIDE DEF S
  <2>3. IsFiniteSet(S \cup {"pistol"}) /\ Cardinality(S \cup {"pistol"}) = 1 + 1
    BY <2>1, <2>2, FS_AddElement DEF S
  <2>. QED
    BY <2>2, <2>3 DEF S
<1>3. Cardinality(Stacks(inv)) <= 2 /\ Cardinality(Stacks(inv)) \in Nat
  BY <1>1, <1>2, FS_Subset, StacksFinite
<1>4. "satchel" \in Items /\ inv["satchel"] \in Nat /\ ~(inv["satchel"] > 0)
  BY Constants DEF Inventories
<1>5. inv["satchel"] * SatchelBonus = 0
  BY <1>4, Constants
<1>. QED
  BY <1>3, <1>5, Constants DEF WithinLimit, stackLimitForBase

LEMMA NewPlayerFacts ==
    ASSUME NEW p \in Players
    PROVE  LET q == NewPlayer(p)
           IN /\ q \in PlayerStates /\ ~q.offered /\ Fine(q) /\ Held(q)
              /\ \A i \in Items \ {"bullet"} :
                    q.inv[i] = IF p \in Authority /\ i \in {"baton", "pistol"} THEN 1 ELSE 0
<1> DEFINE q == [alive |-> TRUE, inv |-> EmptyInventory, equipped |-> "none", bullets |-> 0,
                 cards |-> [c \in Cards |-> 0], offered |-> FALSE]
           inv == [EmptyInventory EXCEPT !["baton"] = 1, !["pistol"] = 1]
           a == [q EXCEPT !.inv = inv, !.bullets = AmmoMax, !.equipped = "pistol"]
<1>1. /\ EmptyInventory \in Inventories /\ WithinLimit(EmptyInventory, BaseSlots)
      /\ \A i \in Items : EmptyInventory[i] = 0
  BY EmptyFits, Constants DEF EmptyInventory
<1>2. "none" \in ToSet(WeaponPriority) \cup {"none"} /\ 0 \in 0 .. MaxStack
      /\ [c \in Cards |-> 0] \in [Cards -> Nat]
  BY Constants
<1>3. q \in PlayerStates
  BY <1>1, <1>2 DEF PlayerStates
<1>4. CASE p \in Prisoners
  <2>1. NewPlayer(p) = q /\ p \notin Authority
    BY <1>4 DEF NewPlayer, Prisoners
  <2>2. ~q.offered /\ Fine(q) /\ Held(q)
    BY <1>1 DEF Fine, Held
  <2>. QED
    BY <1>1, <1>3, <2>1, <2>2
<1>5. CASE p \notin Prisoners
  <2>1. NewPlayer(p) = SyncBullets(a) /\ p \in Authority
    BY <1>5 DEF NewPlayer, Prisoners
  <2>2. /\ inv \in [Items -> 0 .. MaxStack]
        /\ \A i \in Items : inv[i] = IF i \in {"baton", "pistol"} THEN 1 ELSE 0
    <3>1. {"baton", "pistol"} \subseteq Items /\ 1 \in 0 .. MaxStack
      BY Constants
    <3>. QED
      BY <1>1, <3>1 DEF Inventories
  <2> HIDE DEF inv
  <2>3. WithinLimit(inv, BaseSlots)
    BY <2>2, SidearmsFit DEF Inventories
  <2>4. "pistol" \in ToSet(WeaponPriority)
    BY DEF ToSet, WeaponPriority
  <2>5. a \in PlayerStates
    BY <1>3, <2>2, <2>4, Constants DEF PlayerStates, Inventories
  <2>6. a.inv = inv /\ a.equipped = "pistol" /\ a.alive /\ ~a.offered
    OBVIOUS
  <2> HIDE DEF a, q
  <2>7. Fine(a)
    BY <2>3, <2>6 DEF Fine
  <2>8. Held(a)
    <3>1. "pistol" \in Items
      BY Constants
    <3>2. inv["pistol"] > 0
      BY <2>2, <3>1
    <3>. QED
      BY <2>4, <2>6, <3>1, <3>2 DEF Held, CanUseWeapon
  <2> DEFINE r == SyncBullets(a)
  <2>9. /\ r \in PlayerStates /\ r.offered = a.offered /\ Fine(r)
        /\ \A i \in Items \ {"bullet"} : r.inv[i] = a.inv[i]
    BY <2>5, <2>7, SyncFacts
  <2>10. Held(r)
    BY <2>5, <2>8, SyncHeld
  <2> HIDE DEF r
  <2>. QED
    BY <2>1, <2>2, <2>6, <2>9, <2>10 DEF r
<1>. QED
  BY <1>4, <1>5

\* At the start the ledger holds the batons and the pistols of the authority.
LEMMA UnitsAtStart ==
    ASSUME Init, NEW i \in Items \ {"bullet"}
    PROVE  UnitsOf(i) = ledger[i]
<1> DEFINE f == Carry(players, stash, i)
           z == [p \in Players |-> 0]
           sidearm == i \in {"baton", "pistol"}
<1>1. match \in Matches /\ IsFiniteSet(Players) /\ Authority \subseteq Players
  BY PlayersFinite DEF Init
<1>2. \A p \in Players : f[p] = IF p \in Authority /\ sidearm THEN 1 ELSE 0
  <2>1. \A p \in Players : /\ players[p].inv[i] = IF p \in Authority /\ sidearm THEN 1 ELSE 0
                           /\ stash[p][i] = 0
    BY NewPlayerFacts DEF Init, EmptyInventory
  <2>. QED
    BY <2>1 DEF Carry
<1>3. DOMAIN f = Players /\ f \in [Players -> Int] /\ z \in [Players -> Int]
  <2>1. f = [p \in Players |-> f[p]]
    BY DEF Carry
  <2> HIDE DEF f
  <2>. QED
    BY <1>2, <2>1
<1> HIDE DEF f
<1>4. SumFunction(z) = 0
  BY <1>1, <1>3, SumZero
<1>5. SumFunction(f) = IF sidearm THEN Cardinality(Authority) ELSE 0
  <2> DEFINE A == IF sidearm THEN Authority ELSE {}
             g == [p \in A |-> f[p] - z[p]]
  <2>1. A \in SUBSET Players /\ IsFiniteSet(A) /\ \A p \in Players \ A : f[p] = z[p]
    BY <1>1, <1>2, FS_Subset
  <2>2. \A p \in A : g[p] = 1
    BY <1>1, <1>2
  <2>3. g \in [A -> Int]
    BY <1>1, <1>3
  <2>4. SumFunction(f) = SumFunction(z) + SumFunction(g)
    <3> HIDE DEF A, z
    <3>. QED
      BY <1>1, <1>3, <2>1, SumDifference
  <2>5. SumFunction(g) = Cardinality(A)
    <3> HIDE DEF A, g
    <3>. QED
      BY <2>1, <2>2, <2>3, SumOfOnes
  <2>6. Cardinality(A) = (IF sidearm THEN Cardinality(Authority) ELSE 0) /\ Cardinality(A) \in Nat
    BY <2>1, FS_EmptySet, FS_CardinalityType
  <2> HIDE DEF g, z, A
  <2>. QED
    BY <1>4, <2>4, <2>5, <2>6
<1>6. SumFunction(Lie(dropped, i)) = 0
  <2>1. Lie(dropped, i) \in [{} -> Int]
    BY DEF Init, Lie, EmptyBag, SetToBag
  <2>. QED
    BY <2>1, FS_EmptySet, SumZero
<1>7. ledger[i] = IF sidearm THEN Cardinality(Authority) ELSE 0
  BY DEF Init
<1>8. Cardinality(Authority) \in Nat
  BY <1>1, FS_Subset, FS_CardinalityType
<1>9. UnitsOf(i) = SumFunction(f) + SumFunction(Lie(dropped, i))
  BY UnitsNow DEF Units, f
<1>. QED
  BY <1>5, <1>6, <1>7, <1>8, <1>9

LEMMA EconomyStarts ==
    ASSUME Init
    PROVE  EconomyInv
<1>1. match \in Matches /\ IsFiniteSet(Players) /\ Authority \subseteq Players
  BY PlayersFinite DEF Init
<1>2. \A p \in Players : /\ players[p] \in PlayerStates /\ ~players[p].offered
                         /\ Fine(players[p]) /\ Held(players[p])
  BY NewPlayerFacts DEF Init
<1>3. EconomyTypeOK
  <2>1. players \in [Players -> PlayerStates]
    BY <1>2 DEF Init
  <2>2. stash \in [Players -> Inventories]
    BY EmptyFits DEF Init
  <2>3. DroppedBag(dropped)
    <3>1. DOMAIN dropped = {} /\ dropped \in [{} -> Nat \ {0}]
      BY DEF Init, EmptyBag, SetToBag
    <3>. QED
      BY <3>1, FS_EmptySet DEF DroppedBag
  <2>4. ledger \in [Items -> Int]
    <3>1. Cardinality(Authority) \in Nat
      BY <1>1, FS_Subset, FS_CardinalityType
    <3>. QED
      BY <3>1 DEF Init
  <2>5. RestTypeOK
    <3>1. npc \in [item : NPCOffers, stock : {0, 1}, payer : Players \cup {"none"}, paid : Nat]
      BY DEF Init, NPCOffer
    <3>2. task \in [Players -> [day : Nat, kind : {"none", "visit_room", "hold_item"},
                                item : TaskItems \cup {"none"}]]
      BY DEF Init, NoTask
    <3>. QED
      BY <3>1, <3>2 DEF Init, RestTypeOK
  <2>6. sold \in BOOLEAN /\ overfull \in BOOLEAN
    BY DEF Init
  <2>. QED
    BY <1>1, <2>1, <2>2, <2>3, <2>4, <2>5, <2>6, TypesSplit
<1>4. OneCardAPeriod /\ IncomeInv /\ BribeInv
  <2>1. OneCardAPeriod
    BY DEF Init, OneCardAPeriod
  <2>2. IncomeInv
    BY <1>2 DEF Init, IncomeInv
  <2>3. npc.paid = 0 /\ \A p \in Players : given[p] = 0
    BY DEF Init, NPCOffer
  <2>4. BribeInv
    BY <2>3 DEF BribeInv
  <2>. QED
    BY <2>1, <2>2, <2>4
<1>5. CapacityInv
  BY <1>2 DEF CapacityInv, CapacityHolds, Fine
<1>6. EquippedIsHeld
  BY <1>2 DEF EquippedIsHeld, Held
<1>7. ItemsConserved
  <2>1. \A i \in Items \ {"bullet"} : UnitsOf(i) = ledger[i]
    BY UnitsAtStart
  <2>2. \A i \in Items : ledger[i] \in Int
    BY <1>3 DEF EconomyTypeOK
  <2>. QED
    BY <2>1, <2>2 DEF ItemsConserved
<1>8. GoldenInv
  <2>1. ledger["golden_bullet"] = 0
    BY Constants DEF Init
  <2>. QED
    BY <2>1 DEF GoldenInv
<1>. QED
  BY <1>3, <1>4, <1>5, <1>6, <1>7, <1>8 DEF EconomyInv

LEMMA CommandKeeps ==
    ASSUME EconomyInv, match' = match, NEW p \in Players, CommandOf(p)
    PROVE  Kept
<1>1. match.traded \subseteq Items
  BY WellFormed, EconomyAssumption
<1>2. CASE \E i \in match.traded, n \in Amounts :
              \/ \E q \in Players : TransferItem(p, q, i, n)
              \/ DropItem(p, i, n) \/ PickUpItem(p, i, n)
              \/ StashDeposit(p, i, n) \/ StashWithdraw(p, i, n)
  BY <1>1, <1>2, TransferKeeps, DropKeeps, PickUpKeeps, DepositKeeps, RefusedKeeps, WithdrawKeeps
<1>3. CASE \E output \in DOMAIN Recipes : Craft(p, output)
  BY <1>3, CraftKeeps
<1>4. CASE \E q \in Players : Search(p, q)
  BY <1>4, SearchKeeps
<1>5. CASE \E w \in ToSet(WeaponPriority) :
              \/ EquipItem(p, w) \/ FireInVain(p, w)
              \/ \E target \in Players, golden, fatal \in BOOLEAN :
                    FireWeapon(p, target, w, golden, fatal)
  BY <1>5, EquipKeeps, InVainKeeps, FireKeeps
<1>6. CASE Reload(p)
  BY <1>6, ReloadKeeps
<1>7. CASE \E i \in Items : BlackMarketBuy(p, i)
  BY <1>7, BuyKeeps
<1>8. CASE Bribe(p) \/ AssignTask(p) \/ ClaimTask(p)
  BY <1>8, BribeKeeps, AssignKeeps, ClaimKeeps
<1>9. CASE \E c \in Cards : SelectNightCard(p, c)
  BY <1>9, SelectKeeps
<1>10. CASE UseBulletCard(p) \/ UseScrapBundle(p)
  BY <1>10, BulletCardKeeps, ScrapKeeps
<1>11. CASE \E q \in Players, i \in match.traded : UseItemSteal(p, q, i)
  BY <1>1, <1>11, StealKeeps
<1>. QED
  BY <1>2, <1>3, <1>4, <1>5, <1>6, <1>7, <1>8, <1>9, <1>10, <1>11 DEF CommandOf

LEMMA StepKeeps ==
    ASSUME EconomyInv, Next
    PROVE  Kept
<1>1. match' = match
  BY DEF Next
<1>2. CASE \E p \in Players : CommandOf(p) \/ RestockCompletes(p)
  BY <1>1, <1>2, CommandKeeps, RestockKeeps
<1>3. CASE \E killed \in SUBSET Prisoners : EndTick(killed) \/ EndPeriod(killed)
  BY <1>1, <1>3, TickKeeps, NightKeeps, DayKeeps
<1>. QED
  BY <1>2, <1>3 DEF Next, Step

LEMMA EconomyStutters ==
    ASSUME EconomyInv, UNCHANGED vars
    PROVE  EconomyInv'
BY DEF vars, EconomyInv, EconomyTypeOK, OneCardAPeriod, IncomeInv, BribeInv, CapacityInv,
       CapacityHolds, EquippedIsHeld, CanUseWeapon, ItemsConserved, UnitsOf, GoldenInv,
       Players, Authority, IsDay

\* The ledger, the weapons in hand, the cards and the bribes of a match stay consistent
\* through every command of manager.go that moves goods: the inductive invariant of
\* which the theorems below are consequences.
THEOREM EconomyInvariant == Spec => []EconomyInv
<1>1. Init => EconomyInv
  BY EconomyStarts
<1>2. EconomyInv /\ [Next]_vars => EconomyInv'
  BY StepKeeps, EconomyStutters DEF Kept
<1>. QED
  BY <1>1, <1>2, PTL DEF Spec

\* However gifts, thefts, drops, pickups, stash moves, crafts, searches, purchases, shots
\* and new days (manager.go, gamecore/items) follow one another, no item is duplicated,
\* and as long as no inventory was ever over its limit none is lost.
THEOREM ItemsKept == Spec => []ItemsConserved
<1>1. EconomyInv => ItemsConserved
  BY DEF EconomyInv
<1>. QED
  BY <1>1, EconomyInvariant, PTL

\* ensureEquippedItemForPlayerLocked is called wherever it has to be: a living player
\* whose inventory was never over its limit holds no weapon that they do not carry.
THEOREM WeaponsHeld == Spec => []EquippedIsHeld
<1>1. EconomyInv => EquippedIsHeld
  BY DEF EconomyInv
<1>. QED
  BY <1>1, EconomyInvariant, PTL

\* Neither the task of a day (tryHandleNPCPrisonerTaskInteractLocked) nor the card options
\* of a night (trySelectNightCardLocked) can be cashed twice.
THEOREM CardsRationed == Spec => []OneCardAPeriod
<1>1. EconomyInv => OneCardAPeriod
  BY DEF EconomyInv
<1>. QED
  BY <1>1, EconomyInvariant, PTL

\* blackMarketGoldenBulletSold and the scan of inventories and dropped items together
\* allow one golden bullet a match, wherever it is hidden and even after it was fired.
THEOREM GoldenBulletUnique == Spec => OneGoldenBullet
<1>1. EconomyInv /\ [Next]_vars =>
        [/\ UnitsOf("golden_bullet")' <= 1
         /\ sold => UnitsOf("golden_bullet")' <= UnitsOf("golden_bullet")]_vars
  BY StepKeeps DEF Kept, GoldenStep
<1>. QED
  BY <1>1, EconomyInvariant, PTL DEF Spec, OneGoldenBullet

\* tryBribeNPCPrisonerWithMoneyCardLocked starts to count anew with another payer: the
\* goods of an NPC prisoner go to one who gave the whole price in this night.
THEOREM BribesHonest == Spec => BribePaidInFull
<1>1. EconomyInv /\ [Next]_vars =>
        [npc'.stock < npc.stock =>
            \E p \in Players : /\ players'[p].inv[npc.item] = players[p].inv[npc.item] + 1
                               /\ given'[p] >= MoneyCardCost[npc.item]]_vars
  BY StepKeeps DEF Kept, BribeStep
<1>. QED
  BY <1>1, EconomyInvariant, PTL DEF Spec, BribePaidInFull

-----------------------------------------------------------------------------
(* Persistence, for every set of players, cap and bound *)

USE StoreAssumption

\* A player's records are counted once each: the ways of faring split them.
LEMMA FaringSplits ==
    ASSUME NEW p \in PlayerIDs, NEW M \in SUBSET Records, IsFiniteSet(M)
    PROVE  LET mine == {r \in M : r.players[p] # "absent"}
               C(S) == Cardinality({r \in mine : r.players[p] \in S})
           IN /\ IsFiniteSet(mine)
              /\ Cardinality(mine) \in Nat
              /\ C({"won"}) \in Nat /\ C({"won", "survived"}) \in Nat /\ C({"died"}) \in Nat
              /\ C({"won", "survived"}) + C({"died"}) = Cardinality(mine)
<1> DEFINE mine == {r \in M : r.players[p] # "absent"}
           F(S) == {r \in mine : r.players[p] \in S}
<1>1. IsFiniteSet(mine) /\ Cardinality(mine) \in Nat
  BY FS_Subset, FS_CardinalityType
<1>2. \A S : IsFiniteSet(F(S)) /\ Cardinality(F(S)) \in Nat
  BY <1>1, FS_Subset, FS_CardinalityType
<1>3. \A r \in mine : r.players[p] \in {"won", "survived", "died"}
  BY DEF Records, Outcomes
<1>4. F({"won", "survived"}) \cup F({"died"}) = mine
  BY <1>3
<1>5. F({"won", "survived"}) \cap F({"died"}) = {}
  OBVIOUS
<1>6. Cardinality(mine) = Cardinality(F({"won", "survived"})) + Cardinality(F({"died"}))
  <2> DEFINE A == F({"won", "survived"})
             B == F({"died"})
  <2>1. IsFiniteSet(A) /\ IsFiniteSet(B) /\ A \cup B = mine /\ A \cap B = {}
    BY <1>2, <1>4, <1>5
  <2>2. Cardinality(A) \in Nat /\ Cardinality(B) \in Nat
    BY <1>2
  <2> HIDE DEF A, B, mine
  <2>3. Cardinality(A \cup B) = Cardinality(A) + Cardinality(B) - Cardinality({})
    BY <2>1, FS_Union
  <2>4. Cardinality(mine) = Cardinality(A) + Cardinality(B)
    BY <2>1, <2>2, <2>3, FS_EmptySet
  <2>. QED
    BY <2>4 DEF A, B, mine
<1>. QED
  BY <1>1, <1>2, <1>6

\* recomputeStatsLocked gives statistics, and those of the history, whatever the
\* accounts were.
LEMMA RecomputedConsistent ==
    ASSUME NEW A \in [PlayerIDs -> Stats], NEW M \in SUBSET Records, IsFiniteSet(M)
    PROVE  /\ recomputeStats(A, M) \in [PlayerIDs -> Stats]
           /\ Consistent([accounts |-> recomputeStats(A, M), matches |-> M])
<1> DEFINE R == recomputeStats(A, M)
           mine(p) == {r \in M : r.players[p] # "absent"}
           F(p, S) == Cardinality({r \in mine(p) : r.players[p] \in S})
<1>1. ASSUME NEW p \in PlayerIDs
      PROVE  /\ R[p] \in Stats
             /\ IF R[p] = NoAccount THEN mine(p) = {}
                ELSE /\ R[p].played = Cardinality(mine(p))
                     /\ R[p].survived + R[p].deaths = R[p].played
                     /\ R[p].won = F(p, {"won"})
                     /\ R[p].deaths = F(p, {"died"})
  <2>1. /\ Cardinality(mine(p)) \in Nat
        /\ F(p, {"won"}) \in Nat /\ F(p, {"won", "survived"}) \in Nat /\ F(p, {"died"}) \in Nat
        /\ F(p, {"won", "survived"}) + F(p, {"died"}) = Cardinality(mine(p))
    BY FaringSplits
  <2>2. CASE mine(p) = {}
    <3>1. \A S : {r \in mine(p) : r.players[p] \in S} = {}
      BY <2>2
    <3>2. Cardinality(mine(p)) = 0 /\ \A S : F(p, S) = 0
      BY <2>2, <3>1, FS_EmptySet
    <3>3. R[p] = NoAccount \/ R[p] = EmptyStats
      BY <2>2 DEF recomputeStats
    <3> HIDE DEF R, F
    <3>4. CASE R[p] = NoAccount
      BY <2>2, <3>4 DEF NoAccount, Stats
    <3>5. CASE R[p] = EmptyStats
      BY <2>2, <3>2, <3>5 DEF EmptyStats, Stats
    <3>. QED
      BY <3>3, <3>4, <3>5
  <2>3. CASE mine(p) # {}
    <3>1. R[p] = [played |-> Cardinality(mine(p)), won |-> F(p, {"won"}),
                  survived |-> F(p, {"won", "survived"}), deaths |-> F(p, {"died"})]
      BY <2>3 DEF recomputeStats
    <3> HIDE DEF R, mine, F
    <3>2. R[p].played # -1
      BY <2>1, <3>1
    <3>3. R[p] # NoAccount
      BY <3>2 DEF NoAccount
    <3>. QED
      BY <2>1, <3>1, <3>3 DEF Stats
  <2>. QED
    BY <2>2, <2>3
<1>2. R \in [PlayerIDs -> Stats]
  <2>1. R = [p \in PlayerIDs |-> R[p]]
    BY DEF recomputeStats
  <2>. QED
    BY <1>1, <2>1
<1>3. ASSUME NEW p \in PlayerIDs
      PROVE  /\ {r \in mine(p) : r.players[p] \in {"won"}} = {r \in mine(p) : r.players[p] = "won"}
             /\ {r \in mine(p) : r.players[p] \in {"died"}} = {r \in mine(p) : r.players[p] = "died"}
  OBVIOUS
<1>4. Consistent([accounts |-> R, matches |-> M])
  <2> HIDE DEF R
  <2>. QED
    BY <1>1, <1>3 DEF Consistent
<1>. QED
  BY <1>2, <1>4

UniqueIds(M) == \A r, s \in M : r.id = s.id => r = s

\* The cap keeps a part of the history.
LEMMA CapShrinks ==
    ASSUME NEW M, IsFiniteSet(M)
    PROVE  enforceHistoryCap(M) \subseteq M /\ IsFiniteSet(enforceHistoryCap(M))
<1>1. enforceHistoryCap(M) \subseteq M
  BY DEF enforceHistoryCap
<1>. QED
  BY <1>1, FS_Subset

\* Records with ids of their own are sorted one after the other, so that no two have as
\* many before them, and those with fewer than the cap before them are at most the cap.
LEMMA CapBounds ==
    ASSUME NEW M \in SUBSET Records, IsFiniteSet(M), UniqueIds(M), MaxMatchHistory # 0
    PROVE  Cardinality(enforceHistoryCap(M)) <= MaxMatchHistory
<1> DEFINE Before(r) == {s \in M : SortsBefore(s, r)}
           kept == {r \in M : Cardinality(Before(r)) < MaxMatchHistory}
           rank == [r \in kept |-> Cardinality(Before(r))]
           places == 0 .. MaxMatchHistory - 1
<1>1. CASE Cardinality(M) <= MaxMatchHistory
  BY <1>1 DEF enforceHistoryCap
<1>2. CASE ~(Cardinality(M) <= MaxMatchHistory)
  <2>1. enforceHistoryCap(M) = kept
    BY <1>2 DEF enforceHistoryCap
  <2>2. ASSUME NEW r \in M
        PROVE  IsFiniteSet(Before(r)) /\ Cardinality(Before(r)) \in Nat
    BY FS_Subset, FS_CardinalityType
  <2>3. ASSUME NEW r \in M, NEW s \in M, SortsBefore(r, s)
        PROVE  Cardinality(Before(r)) < Cardinality(Before(s))
    <3>1. \A t \in M : t.id \in Int /\ t.endedAt \in Int
      BY DEF Records
    <3>2. Before(r) \subseteq Before(s)
      BY <2>3, <3>1 DEF SortsBefore
    <3>3. r \in Before(s) /\ r \notin Before(r)
      BY <2>3, <3>1 DEF SortsBefore
    <3>4. /\ Cardinality(Before(r)) <= Cardinality(Before(s))
          /\ Cardinality(Before(s)) = Cardinality(Before(r)) => Before(s) = Before(r)
      BY <2>2, <3>2, FS_Subset
    <3>5. Before(s) # Before(r)
      BY <3>3
    <3> HIDE DEF Before
    <3>. QED
      BY <2>2, <3>4, <3>5
  <2>4. ASSUME NEW r \in M, NEW s \in M, r # s
        PROVE  SortsBefore(r, s) \/ SortsBefore(s, r)
    <3>1. r.id # s.id /\ r.id \in Int /\ s.id \in Int /\ r.endedAt \in Int /\ s.endedAt \in Int
      BY <2>4 DEF Records, UniqueIds
    <3>. QED
      BY <3>1 DEF SortsBefore
  <2>5. rank \in [kept -> places]
    <3>1. ASSUME NEW r \in kept PROVE Cardinality(Before(r)) \in places
      <4>1. Cardinality(Before(r)) \in Nat /\ Cardinality(Before(r)) < MaxMatchHistory
        BY <2>2
      <4> HIDE DEF Before
      <4>. QED
        BY <4>1
    <3>. QED
      BY <3>1
  <2>6. \A r, s \in kept : rank[r] = rank[s] => r = s
    <3> SUFFICES ASSUME NEW r \in kept, NEW s \in kept, rank[r] = rank[s], r # s PROVE FALSE
      OBVIOUS
    <3>1. /\ Cardinality(Before(r)) = Cardinality(Before(s))
          /\ Cardinality(Before(r)) \in Nat /\ Cardinality(Before(s)) \in Nat
      BY <2>2
    <3>2. \/ Cardinality(Before(r)) < Cardinality(Before(s))
          \/ Cardinality(Before(s)) < Cardinality(Before(r))
      BY <2>3, <2>4
    <3> HIDE DEF Before
    <3>. QED
      BY <3>1, <3>2
  <2>7. IsFiniteSet(places) /\ Cardinality(places) = MaxMatchHistory
    BY FS_Interval
  <2>8. rank \in Injection(kept, places)
    <3> HIDE DEF rank, kept, places
    <3>. QED
      BY <2>5, <2>6 DEF Injection, IsInjective
  <2>9. Cardinality(kept) <= Cardinality(places)
    BY <2>7, <2>8, FS_Injection
  <2> HIDE DEF kept, places
  <2>. QED
    BY <2>1, <2>7, <2>9
<1>. QED
  BY <1>1, <1>2

\* What Open and RecordMatch leave in memory is consistent.
LEMMA SettledConsistent ==
    ASSUME NEW A \in [PlayerIDs -> Stats], NEW M \in SUBSET Records, IsFiniteSet(M)
    PROVE  /\ Settled(A, M) \in Contents
           /\ IsFiniteSet(Settled(A, M).matches)
           /\ Consistent(Settled(A, M))
           /\ UniqueIds(M) =>
                 /\ UniqueIds(Settled(A, M).matches)
                 /\ MaxMatchHistory # 0 => Cardinality(Settled(A, M).matches) <= MaxMatchHistory
<1>1. /\ enforceHistoryCap(M) \in SUBSET Records /\ IsFiniteSet(enforceHistoryCap(M))
      /\ UniqueIds(M) => UniqueIds(enforceHistoryCap(M))
  BY CapShrinks DEF UniqueIds
<1>2. Settled(A, M).matches = enforceHistoryCap(M)
  BY DEF Settled
<1>. QED
  BY <1>1, <1>2, RecomputedConsistent, CapBounds DEF Settled, Contents

LEMMA EmptyConsistent ==
    EmptyData \in Contents /\ IsFiniteSet(EmptyData.matches) /\ Consistent(EmptyData)
  BY FS_EmptySet DEF EmptyData, Contents, Consistent, Stats, NoAccount

LEMMA StoreStarts == StoreInit => StoreInv
<1> SUFFICES ASSUME StoreInit PROVE StoreInv
  OBVIOUS
<1> USE EmptyConsistent DEF StoreInit
<1>1. file \in [state : {"absent", "whole"}, content : Contents] /\ IsFiniteSet(file.content.matches)
  BY DEF Absent
<1>2. StoreTypeOK
  <2>1. data \in Contents /\ IsFiniteSet(data.matches)
    OBVIOUS
  <2>2. run \in 0 .. MaxRuns /\ now \in 0 .. MaxTime /\ played \subseteq 1 .. MaxMatches
    OBVIOUS
  <2>3. up \in BOOLEAN /\ failed \in BOOLEAN
    BY Zenon
  <2>. QED
    BY <1>1, <2>1, <2>2, <2>3, Zenon DEF StoreTypeOK
<1>3. WritingInv /\ StatsFollowHistory /\ FileNeverTorn /\ MemoryIsDurable
  BY DEF WritingInv, StatsFollowHistory, FileNeverTorn, MemoryIsDurable, Ready
<1>4. data.matches = {} /\ file.content.matches = {}
  BY DEF EmptyData, Absent
<1>5. HistoryWithinCap /\ FileIdsUnique
  BY <1>4, FS_EmptySet DEF HistoryWithinCap, FileIdsUnique
<1>. QED
  BY <1>2, <1>3, <1>5 DEF StoreInv

\* UpsertAccount opens an account with nothing in it, for a player the history does not
\* name or one who has an account already.
LEMMA UpsertKeeps ==
    ASSUME StoreInv, NEW p \in PlayerIDs, UpsertAccount(p)
    PROVE  data' \in Contents /\ IsFiniteSet(data'.matches) /\ Consistent(data')
<1> USE DEF StoreInv, StoreTypeOK
<1>1. /\ data'.matches = data.matches
      /\ data'.accounts = [data.accounts EXCEPT ![p] = IF @ = NoAccount THEN EmptyStats ELSE @]
      /\ data' \in Contents
  BY DEF UpsertAccount, Contents, Stats, EmptyStats
<1>2. ASSUME NEW q \in PlayerIDs, data'.accounts[q] # data.accounts[q]
      PROVE  /\ data'.accounts[q] = EmptyStats
             /\ data.accounts[q] = NoAccount
  BY <1>1, <1>2 DEF Contents
<1>3. Consistent(data)
  BY DEF StatsFollowHistory
<1>4. ASSUME NEW q \in PlayerIDs
      PROVE  LET mine == {r \in data.matches : r.players[q] # "absent"}
                 acct == data'.accounts[q]
             IN IF acct = NoAccount THEN mine = {}
                ELSE /\ acct.played = Cardinality(mine)
                     /\ acct.survived + acct.deaths = acct.played
                     /\ acct.won = Cardinality({r \in mine : r.players[q] = "won"})
                     /\ acct.deaths = Cardinality({r \in mine : r.players[q] = "died"})
  <2>1. CASE data'.accounts[q] = data.accounts[q]
    BY <1>3, <2>1 DEF Consistent
  <2>2. CASE data'.accounts[q] # data.accounts[q]
    <3> DEFINE mine == {r \in data.matches : r.players[q] # "absent"}
    <3>1. mine = {}
      BY <1>2, <1>3, <2>2 DEF Consistent
    <3>2. /\ {r \in mine : r.players[q] = "won"} = {}
          /\ {r \in mine : r.players[q] = "died"} = {}
      BY <3>1
    <3>3. Cardinality({}) = 0
      BY FS_EmptySet
    <3>4. data'.accounts[q] = [played |-> 0, won |-> 0, survived |-> 0, deaths |-> 0]
      BY <1>2, <2>2 DEF EmptyStats
    <3>5. data'.accounts[q] # NoAccount
      BY <3>4 DEF NoAccount
    <3>6. /\ Cardinality(mine) = 0
          /\ Cardinality({r \in mine : r.players[q] = "won"}) = 0
          /\ Cardinality({r \in mine : r.players[q] = "died"}) = 0
      BY <3>1, <3>2, <3>3, Zenon
    <3>. QED
      BY <3>4, <3>5, <3>6
  <2>. QED
    BY <2>1, <2>2
<1>. QED
  BY <1>1, <1>4 DEF Consistent

\* The steps of persistLocked leave the memory alone; the file is untouched, removed or
\* what the memory holds.
LEMMA PersistKeeps ==
    ASSUME StoreInv, persist
    PROVE  StoreInv'
<1> USE DEF StoreInv, StoreTypeOK
<1>1. data' = data /\ run' = run /\ call' = call /\ played' = played /\ now' = now
  BY DEF persist
<1>2. StatsFollowHistory' /\ HistoryWithinCap'
  BY <1>1 DEF StatsFollowHistory, Consistent, HistoryWithinCap
<1>3. Consistent(data)
  BY DEF StatsFollowHistory
<1>4. CASE BeginWrite
  BY <1>1, <1>2, <1>4 DEF BeginWrite, WritingInv, FileNeverTorn, Consistent,
     MemoryIsDurable, Ready, FileIdsUnique
<1>5. CASE EndWrite
  BY <1>1, <1>2, <1>5 DEF EndWrite, Returns, WritingInv, FileNeverTorn, Consistent,
     MemoryIsDurable, Ready, FileIdsUnique
<1>6. CASE RemoveOld
  <2>1. CASE file' = Absent /\ step' = "rename" /\ UNCHANGED <<up, tmp, failed>>
    BY <1>1, <1>2, <1>6, <2>1, EmptyConsistent
       DEF RemoveOld, Absent, EmptyData, WritingInv, FileNeverTorn, MemoryIsDurable, Ready, FileIdsUnique
  <2>2. CASE file' = file /\ tmp' = "absent" /\ Returns(TRUE)
    BY <1>1, <1>2, <1>6, <2>2
       DEF Returns, WritingInv, FileNeverTorn, Consistent, MemoryIsDurable, Ready, FileIdsUnique
  <2>. QED
    BY <1>6, <2>1, <2>2 DEF RemoveOld
<1>7. CASE RenameNew
  <2>1. CASE file' = Whole(data) /\ Returns(FALSE)
    <3>1. StoreTypeOK'
      BY <1>1, <1>7, <2>1 DEF RenameNew, Returns, Whole
    <3>2. file'.state = "whole" /\ file'.content = data
      BY <2>1 DEF Whole
    <3>3. FileNeverTorn'
      BY <1>3, <3>2 DEF FileNeverTorn, Consistent
    <3>5. FileIdsUnique'
      BY <3>2 DEF FileIdsUnique, HistoryWithinCap
    <3>4. WritingInv' /\ MemoryIsDurable'
      BY <1>1, <1>7, <2>1 DEF RenameNew, Returns, WritingInv, MemoryIsDurable, Whole
    <3>. QED
      BY <1>2, <3>1, <3>3, <3>4, <3>5
  <2>2. CASE file' = file /\ Returns(TRUE)
    BY <1>1, <1>2, <1>7, <2>2
       DEF RenameNew, Returns, WritingInv, FileNeverTorn, Consistent, MemoryIsDurable, Ready, FileIdsUnique
  <2>. QED
    BY <1>7, <2>1, <2>2 DEF RenameNew
<1>. QED
  BY <1>4, <1>5, <1>6, <1>7 DEF persist

\* The actions of the store, one by one.
LEMMA StoreStep ==
    ASSUME StoreInv, [StoreNext]_storeVars
    PROVE  StoreInv'
<1> USE DEF StoreInv
<1>1. ASSUME data' \in Contents, IsFiniteSet(data'.matches), Consistent(data'),
             file' = file, step' # "idle" \/ ~up'
      PROVE  StatsFollowHistory' /\ FileNeverTorn' /\ MemoryIsDurable' /\ FileIdsUnique'
  BY <1>1 DEF StatsFollowHistory, FileNeverTorn, MemoryIsDurable, Ready, Consistent, FileIdsUnique
<1>2. CASE Open
  <2>1. file.content.accounts \in [PlayerIDs -> Stats] /\ file.content.matches \in SUBSET Records
    BY DEF StoreTypeOK, Contents
  <2>2. data' \in Contents /\ IsFiniteSet(data'.matches) /\ Consistent(data')
    BY <1>2, <2>1, SettledConsistent DEF Open, StoreTypeOK
  <2>3. StoreTypeOK' /\ WritingInv'
    BY <1>2, <2>2 DEF Open, StoreTypeOK, WritingInv
  <2>4. HistoryWithinCap'
    BY <1>2, <2>1, SettledConsistent DEF Open, StoreTypeOK, FileIdsUnique, UniqueIds, HistoryWithinCap
  <2>. QED
    BY <1>1, <1>2, <2>2, <2>3, <2>4 DEF Open
<1>3. ASSUME NEW p \in PlayerIDs, UpsertAccount(p)
      PROVE  StoreInv'
  <2>1. data' \in Contents /\ IsFiniteSet(data'.matches) /\ Consistent(data')
    BY <1>3, UpsertKeeps
  <2>2. StoreTypeOK' /\ WritingInv'
    BY <1>3, <2>1 DEF UpsertAccount, Ready, StoreTypeOK, WritingInv
  <2>3. data'.matches = data.matches
    BY <1>3 DEF UpsertAccount, StoreTypeOK, Contents
  <2>4. HistoryWithinCap'
    BY <2>3 DEF HistoryWithinCap
  <2>. QED
    BY <1>1, <1>3, <2>1, <2>2, <2>4 DEF UpsertAccount
<1>4. ASSUME NEW id \in 1 .. MaxMatches, NEW outcome \in [PlayerIDs -> Outcomes],
             NEW endedAt \in {now, now + 1} \cap (0 .. MaxTime), RecordMatch(id, outcome, endedAt)
      PROVE  StoreInv'
  <2> DEFINE record == [id |-> id, endedAt |-> endedAt, players |-> outcome]
             M == Upserted(data.matches, record)
  <2>1. M \in SUBSET Records
    BY DEF Upserted, Records, StoreTypeOK, Contents
  <2>2. IsFiniteSet(M)
    BY FS_Subset, FS_AddElement DEF Upserted, StoreTypeOK
  <2>3. data.accounts \in [PlayerIDs -> Stats]
    BY DEF StoreTypeOK, Contents
  <2>4. data' \in Contents /\ IsFiniteSet(data'.matches) /\ Consistent(data')
    BY <1>4, <2>1, <2>2, <2>3, SettledConsistent DEF RecordMatch
  <2>5. StoreTypeOK' /\ WritingInv'
    BY <1>4, <2>4 DEF RecordMatch, Ready, StoreTypeOK, WritingInv
  <2>6. UniqueIds(M)
    BY DEF UniqueIds, Upserted, HistoryWithinCap
  <2>7. HistoryWithinCap'
    BY <1>4, <2>1, <2>2, <2>3, <2>6, SettledConsistent DEF RecordMatch, UniqueIds, HistoryWithinCap
  <2>. QED
    BY <1>1, <1>4, <2>4, <2>5, <2>7 DEF RecordMatch
<1>5. CASE persist
  BY <1>5, PersistKeeps
<1>6. CASE Crash
  <2>1. StoreTypeOK' /\ WritingInv'
    BY <1>6, EmptyConsistent DEF Crash, StoreTypeOK, WritingInv
  <2>2. data'.matches = {}
    BY <1>6 DEF Crash, EmptyData
  <2>3. HistoryWithinCap'
    BY <2>2, FS_EmptySet DEF HistoryWithinCap
  <2>. QED
    BY <1>1, <1>6, <2>1, <2>3, EmptyConsistent DEF Crash
<1>7. CASE UNCHANGED storeVars
  BY <1>7, ZenonT(30) DEF storeVars, StoreTypeOK, WritingInv, StatsFollowHistory, FileNeverTorn, Consistent,
              MemoryIsDurable, Ready, HistoryWithinCap, FileIdsUnique
<1>. QED
  BY <1>2, <1>3, <1>4, <1>5, <1>6, <1>7, SMTT(30) DEF StoreNext

\* The store's types, the order of the steps of a write, and the three properties below
\* hold together in every state.
THEOREM StoreInvariant == StoreSpec => []StoreInv
<1>1. StoreInv /\ [StoreNext]_storeVars => StoreInv'
  BY StoreStep
<1>. QED
  BY <1>1, StoreStarts, PTL DEF StoreSpec

\* The statistics in memory are those of the history in memory, whatever was loaded,
\* replaced and capped (recomputeStatsLocked after enforceHistoryCapLocked).
THEOREM StatisticsCorrect == StoreSpec => []StatsFollowHistory
<1>1. StoreInv => StatsFollowHistory
  BY DEF StoreInv
<1>. QED
  BY <1>1, StoreInvariant, PTL

\* Every crash and every failed step of persistLocked leaves a file that is absent or
\* whole and consistent.
THEOREM FileSound == StoreSpec => []FileNeverTorn
<1>1. StoreInv => FileNeverTorn
  BY DEF StoreInv
<1>. QED
  BY <1>1, StoreInvariant, PTL

\* The history never outgrows its cap, and has one record for a match id.
THEOREM HistoryBounded == StoreSpec => []HistoryWithinCap
<1>1. StoreInv => HistoryWithinCap
  BY DEF StoreInv
<1>. QED
  BY <1>1, StoreInvariant, PTL

\* A call that returned without an error has put the memory on disk.
THEOREM MemoryDurable == StoreSpec => []MemoryIsDurable
<1>1. StoreInv => MemoryIsDurable
  BY DEF StoreInv
<1>. QED
  BY <1>1, StoreInvariant, PTL

=============================================================================
