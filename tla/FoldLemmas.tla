----------------------------- MODULE FoldLemmas -----------------------------
(***************************************************************************)
(* Folds over finite sets, as the models use them: MapThenFoldSet defines a *)
(* fold by a recursive function on the subsets of the set.  That function   *)
(* exists (FoldExists), and what holds of the empty set and is kept by      *)
(* adding an element holds of it everywhere (SubsetInduction).  From these, *)
(* sums; folds over sequences; and what the queue of SimTransport.tla holds *)
(* after copies are handed over and after copies are sent: none is lost,    *)
(* made up or changed.                                                      *)
(***************************************************************************)
EXTENDS FiniteSetsExt, SequencesExt, SimTransport, FiniteSetTheorems, TLAPS

\* Among subsets of a finite set there is a smallest.
LEMMA SmallestSubset ==
  ASSUME NEW S, IsFiniteSet(S), NEW C, C \subseteq SUBSET S, C # {}
  PROVE  \E T \in C : \A U \in C : U \subseteq T => U = T
<1> DEFINE Smaller == StrictSubsetOrdering(S)
<1>1. IsWellFoundedOn(Smaller, SUBSET S)
  <2>1. IsWellFoundedOn(StrictSubsetOrdering(S), FiniteSubsetsOf(S))
    BY FS_StrictSubsetOrderingWellFounded, Zenon
  <2>2. FiniteSubsetsOf(S) = SUBSET S
    BY FS_FiniteSubsetsOfFinite, Zenon
  <2> QED
    BY <2>1, <2>2, Zenon
<1>2. \E T \in C : \A U \in C : <<U, T>> \notin Smaller
  <2> HIDE DEF Smaller
  <2> QED
    BY <1>1, WFMin, Zenon
<1> QED
  BY <1>2 DEF StrictSubsetOrdering

\* Induction over the subsets of a finite set, for a set of good subsets.
LEMMA StrongSubsetInduction ==
  ASSUME NEW S, IsFiniteSet(S), NEW Good,
         \A T \in SUBSET S : (\A U \in SUBSET T : U # T => U \in Good) => T \in Good
  PROVE  \A T \in SUBSET S : T \in Good
<1> DEFINE Bad == {T \in SUBSET S : T \notin Good}
<1>1. SUFFICES ASSUME Bad # {} PROVE FALSE
  OBVIOUS
<1>2. Bad \subseteq SUBSET S
  OBVIOUS
<1>3. \E T \in Bad : \A U \in Bad : U \subseteq T => U = T
  <2> HIDE DEF Bad
  <2> QED
    BY <1>1, <1>2, SmallestSubset
<1> QED
  BY <1>3

\* The same, taking out one element at a time.
LEMMA SubsetInduction ==
  ASSUME NEW S, IsFiniteSet(S), NEW Good, {} \in Good,
         \A T \in SUBSET S :
           T # {} => \E x \in T : T \ {x} \in Good => T \in Good
  PROVE  \A T \in SUBSET S : T \in Good
<1>1. ASSUME NEW T \in SUBSET S, \A U \in SUBSET T : U # T => U \in Good
      PROVE  T \in Good
  <2>1. CASE T = {}
    BY <2>1
  <2>2. CASE T # {}
    <3>1. PICK x \in T : T \ {x} \in Good => T \in Good
      BY <2>2
    <3>2. T \ {x} \in SUBSET T /\ T \ {x} # T
      OBVIOUS
    <3> QED
      BY <1>1, <3>1, <3>2
  <2> QED
    BY <2>1, <2>2
<1> QED
  BY <1>1, StrongSubsetInduction, Zenon

\* A strict order on a finite set has a maximal element.
LEMMA FiniteSetHasMaximal ==
  ASSUME NEW S, IsFiniteSet(S), S # {}, NEW R,
         \A x, y, z \in S : <<x, y>> \in R /\ <<y, z>> \in R => <<x, z>> \in R,
         \A x \in S : <<x, x>> \notin R
  PROVE  \E x \in S : \A y \in S : <<x, y>> \notin R
<1> DEFINE Over(x) == {y \in S : <<x, y>> \in R}
           Overs == {Over(x) : x \in S}
           Smaller == StrictSubsetOrdering(S)
<1>1. IsWellFoundedOn(Smaller, SUBSET S)
  <2>1. IsWellFoundedOn(StrictSubsetOrdering(S), FiniteSubsetsOf(S))
    BY FS_StrictSubsetOrderingWellFounded, Zenon
  <2>2. FiniteSubsetsOf(S) = SUBSET S
    BY FS_FiniteSubsetsOfFinite, Zenon
  <2> QED
    BY <2>1, <2>2, Zenon
<1>2. Overs \subseteq SUBSET S /\ Overs # {}
  <2>1. \A x \in S : Over(x) \in SUBSET S
    OBVIOUS
  <2> HIDE DEF Over
  <2> QED
    BY <2>1
<1> HIDE DEF Smaller
<1>3. \E X \in Overs : \A Y \in Overs : <<Y, X>> \notin Smaller
  <2> HIDE DEF Overs
  <2> QED
    BY <1>1, <1>2, WFMin, Zenon
<1>4. PICK x \in S : \A y \in S : <<Over(y), Over(x)>> \notin Smaller
  <2> HIDE DEF Over
  <2> QED
    BY <1>3
<1>5. ASSUME NEW y \in S, <<x, y>> \in R PROVE FALSE
  <2>1. Over(y) \subseteq Over(x)
    BY <1>5
  <2>2. y \in Over(x) /\ y \notin Over(y)
    BY <1>5
  <2>3. <<Over(y), Over(x)>> \in Smaller
    BY <2>1, <2>2 DEF Smaller, StrictSubsetOrdering
  <2> QED
    BY <2>3, <1>4
<1> QED
  BY <1>5

\* Among finitely many numbers there is a smallest.
LEMMA SmallestNumber ==
  ASSUME NEW S \in SUBSET Nat, IsFiniteSet(S), S # {}
  PROVE  \E x \in S : \A y \in S : x <= y
<1> DEFINE R == {p \in S \X S : p[2] < p[1]}
<1>1. \A x, y \in S : <<x, y>> \in R <=> y < x
  OBVIOUS
<1> HIDE DEF R
<1>2. /\ \A x, y, z \in S : <<x, y>> \in R /\ <<y, z>> \in R => <<x, z>> \in R
      /\ \A x \in S : <<x, x>> \notin R
  BY <1>1
<1>3. \E x \in S : \A y \in S : <<x, y>> \notin R
  BY <1>2, FiniteSetHasMaximal, Zenon
<1>4. PICK x \in S : \A y \in S : <<x, y>> \notin R
  BY <1>3
<1>5. ASSUME NEW y \in S PROVE x <= y
  <2>1. ~ (y < x)
    BY <1>1, <1>4
  <2> QED
    BY <2>1
<1> QED
  BY <1>5

\* Among finitely many values there is a least one.
LEMMA LeastValue ==
  ASSUME NEW T, IsFiniteSet(T), T # {}, NEW row \in [T -> Int]
  PROVE  \E x \in T : \A y \in T : row[x] <= row[y]
<1> DEFINE R == {x \in T \X T : row[x[2]] < row[x[1]]}
<1>1. \A x, y \in T : <<x, y>> \in R <=> row[y] < row[x]
  OBVIOUS
<1> HIDE DEF R
<1>2. /\ \A x, y, z \in T : <<x, y>> \in R /\ <<y, z>> \in R => <<x, z>> \in R
      /\ \A x \in T : <<x, x>> \notin R
  BY <1>1
<1>3. \E x \in T : \A y \in T : <<x, y>> \notin R
  BY <1>2, FiniteSetHasMaximal, Zenon
<1>4. PICK x \in T : \A y \in T : <<x, y>> \notin R
  BY <1>3
<1>5. ASSUME NEW y \in T PROVE row[x] <= row[y]
  <2>1. ~ (row[y] < row[x])
    BY <1>1, <1>4
  <2> QED
    BY <2>1
<1> QED
  BY <1>5

-----------------------------------------------------------------------------
(* The function a fold is defined by *)

\* g is the fold over the subsets of T: pick is the order in which elements are
\* taken out, step[<<x, y>>] what x makes of the result y for the others.
IsFold(g, T, pick, base, step) ==
  \A U \in SUBSET T :
    g[U] = IF U = {} THEN base ELSE step[<<pick[U], g[U \ {pick[U]}]>>]

Picks(pick, S) == \A T \in SUBSET S : T # {} => pick[T] \in T

\* A fold over T and one over a subset of T agree on the latter,
LEMMA FoldUnique ==
  ASSUME NEW T, IsFiniteSet(T), NEW U \in SUBSET T, NEW pick, Picks(pick, T),
         NEW base, NEW step, NEW g, NEW h,
         IsFold(g, T, pick, base, step), IsFold(h, U, pick, base, step)
  PROVE  g[U] = h[U]
<1> DEFINE Same == {V \in SUBSET U : g[V] = h[V]}
<1>1. IsFiniteSet(U)
  BY FS_Subset
<1>2. {} \in Same
  BY DEF IsFold
<1>3. ASSUME NEW V \in SUBSET U, V # {}
      PROVE  \E x \in V : V \ {x} \in Same => V \in Same
  <2>1. pick[V] \in V
    BY <1>3 DEF Picks
  <2>2. /\ g[V] = step[<<pick[V], g[V \ {pick[V]}]>>]
        /\ h[V] = step[<<pick[V], h[V \ {pick[V]}]>>]
    BY <1>3 DEF IsFold
  <2> QED
    BY <2>1, <2>2
<1> HIDE DEF Same
<1>4. \A V \in SUBSET U : V \in Same
  BY <1>1, <1>2, <1>3, SubsetInduction, Zenon
<1> QED
  BY <1>4 DEF Same

\* and there is one.
LEMMA FoldExists ==
  ASSUME NEW S, IsFiniteSet(S), NEW X, NEW base \in X, NEW pick, Picks(pick, S),
         NEW step \in [S \X X -> X]
  PROVE  \E g \in [SUBSET S -> X] : IsFold(g, S, pick, base, step)
<1> DEFINE Solves(T, g) == g \in [SUBSET T -> X] /\ IsFold(g, T, pick, base, step)
           Good == {T \in SUBSET S : \E g : Solves(T, g)}
           h(T) == CHOOSE g : Solves(T, g)
<1>1. ASSUME NEW T \in SUBSET S, \A U \in SUBSET T : U # T => U \in Good
      PROVE  T \in Good
  <2>1. ASSUME NEW U \in SUBSET T, U # T PROVE Solves(U, h(U))
    <3> HIDE DEF Solves
    <3> QED
      BY <1>1, <2>1
  <2>2. ASSUME NEW U \in SUBSET T, U # {}
        PROVE  /\ pick[U] \in S
               /\ U \ {pick[U]} \in SUBSET T
               /\ U \ {pick[U]} # T
               /\ Solves(U \ {pick[U]}, h(U \ {pick[U]}))
    <3>1. pick[U] \in U
      BY <2>2 DEF Picks
    <3>2. U \ {pick[U]} \in SUBSET T /\ U \ {pick[U]} # T
      BY <3>1
    <3> HIDE DEF Solves, h
    <3> QED
      BY <2>1, <3>1, <3>2
  <2> DEFINE k == [U \in SUBSET T |->
                     IF U = {} THEN base
                     ELSE step[<<pick[U], h(U \ {pick[U]})[U \ {pick[U]}]>>]]
  <2>3. ASSUME NEW U \in SUBSET T, U # {} PROVE k[U] \in X
    <3> DEFINE W == U \ {pick[U]}
    <3>1. h(W)[W] \in X
      <4>1. h(W) \in [SUBSET W -> X]
        BY <2>2, <2>3
      <4> HIDE DEF h
      <4> QED
        BY <4>1
    <3>2. k[U] = step[<<pick[U], h(W)[W]>>]
      BY <2>3
    <3> HIDE DEF h, k, Solves
    <3> QED
      BY <2>2, <2>3, <3>1, <3>2
  <2>4. k \in [SUBSET T -> X]
    <3>1. ASSUME NEW U \in SUBSET T PROVE k[U] \in X
      <4>1. CASE U = {}
        BY <4>1
      <4> HIDE DEF k, h, Solves
      <4> QED
        BY <4>1, <2>3
    <3> HIDE DEF h, Solves
    <3> QED
      BY <3>1
  <2>5. ASSUME NEW U \in SUBSET T, U # T PROVE h(U)[U] = k[U]
    <3>1. h(U)[U] = IF U = {} THEN base ELSE step[<<pick[U], h(U)[U \ {pick[U]}]>>]
      BY <2>1, <2>5 DEF IsFold
    <3>2. CASE U = {}
      BY <3>1, <3>2
    <3>3. CASE U # {}
      <4> DEFINE W == U \ {pick[U]}
      <4>1. /\ IsFold(h(U), U, pick, base, step)
            /\ IsFold(h(W), W, pick, base, step)
        BY <2>1, <2>2, <2>5, <3>3
      <4>2. IsFiniteSet(U) /\ Picks(pick, U) /\ W \in SUBSET U
        BY FS_Subset DEF Picks
      <4>3. h(U)[W] = h(W)[W]
        <5> HIDE DEF h, W
        <5> QED
          BY <4>1, <4>2, FoldUnique
      <4>4. k[U] = step[<<pick[U], h(W)[W]>>]
        BY <3>3
      <4> HIDE DEF h, k
      <4> QED
        BY <3>1, <3>3, <4>3, <4>4
    <3> QED
      BY <3>2, <3>3
  <2>6. IsFold(k, T, pick, base, step)
    <3> SUFFICES ASSUME NEW U \in SUBSET T
                 PROVE  k[U] = IF U = {} THEN base
                               ELSE step[<<pick[U], k[U \ {pick[U]}]>>]
      BY DEF IsFold
    <3>1. CASE U = {}
      BY <3>1
    <3>2. CASE U # {}
      <4> DEFINE W == U \ {pick[U]}
      <4>1. h(W)[W] = k[W]
        <5> HIDE DEF h, k
        <5> QED
          BY <2>2, <2>5, <3>2
      <4>2. k[U] = step[<<pick[U], h(W)[W]>>]
        BY <3>2
      <4> HIDE DEF h, k
      <4> QED
        BY <3>2, <4>1, <4>2
    <3> QED
      BY <3>1, <3>2
  <2> HIDE DEF k
  <2> QED
    BY <2>4, <2>6
<1>2. S \in Good
  <2> HIDE DEF Good
  <2> QED
    BY <1>1, StrongSubsetInduction, Zenon
<1> QED
  BY <1>2

-----------------------------------------------------------------------------
(* Sums *)

\* A sum is defined by a recursive function on the subsets.
LEMMA SumDefinition ==
  ASSUME NEW f, NEW K
  PROVE  SumFunctionOnSet(f, K) =
           (CHOOSE iter :
              iter = [s \in SUBSET K |->
                        IF s = {} THEN 0
                        ELSE f[CHOOSE x \in s : TRUE]
                               + iter[s \ {CHOOSE x \in s : TRUE}]])[K]
BY Zenon DEF SumFunctionOnSet, FoldFunctionOnSet, MapThenFoldSet

\* Some element of a set can be summed last,
LEMMA SumSomeElement ==
  ASSUME NEW S, IsFiniteSet(S), NEW f \in [S -> Int], NEW T \in SUBSET S
  PROVE  /\ SumFunctionOnSet(f, T) \in Int
         /\ T = {} => SumFunctionOnSet(f, T) = 0
         /\ T # {} => \E x \in T :
              SumFunctionOnSet(f, T) = f[x] + SumFunctionOnSet(f, T \ {x})
<1> DEFINE pick == [U \in SUBSET S |-> CHOOSE x \in U : TRUE]
           step == [p \in S \X Int |-> f[p[1]] + p[2]]
           Iter(K, i) == i = [s \in SUBSET K |->
                                IF s = {} THEN 0
                                ELSE f[CHOOSE x \in s : TRUE]
                                       + i[s \ {CHOOSE x \in s : TRUE}]]
           iter(K) == CHOOSE i : Iter(K, i)
<1>1. Picks(pick, S)
  BY DEF Picks
<1>2. step \in [S \X Int -> Int]
  OBVIOUS
<1>3. PICK g \in [SUBSET S -> Int] : IsFold(g, S, pick, 0, step)
  <2>1. 0 \in Int
    OBVIOUS
  <2> HIDE DEF pick, step
  <2> QED
    BY <1>1, <1>2, <2>1, FoldExists, Zenon
<1>4. ASSUME NEW U \in SUBSET S, U # {}
      PROVE  /\ pick[U] \in U
             /\ pick[U] = CHOOSE x \in U : TRUE
             /\ g[U] = f[pick[U]] + g[U \ {pick[U]}]
  <2>1. pick[U] \in U
    BY <1>4
  <2>2. g[U] = step[<<pick[U], g[U \ {pick[U]}]>>]
    BY <1>3, <1>4 DEF IsFold
  <2>3. g[U \ {pick[U]}] \in Int
    BY <1>3
  <2> HIDE DEF pick
  <2>4. step[<<pick[U], g[U \ {pick[U]}]>>] = f[pick[U]] + g[U \ {pick[U]}]
    BY <2>1, <2>3
  <2> QED
    BY <2>1, <2>2, <2>4 DEF pick
<1>5. ASSUME NEW K \in SUBSET S PROVE SumFunctionOnSet(f, K) = g[K]
  <2> DEFINE r == [U \in SUBSET K |-> g[U]]
  <2>1. Iter(K, r)
    <3>1. ASSUME NEW U \in SUBSET K
          PROVE  r[U] = IF U = {} THEN 0
                        ELSE f[CHOOSE x \in U : TRUE]
                               + r[U \ {CHOOSE x \in U : TRUE}]
      <4>1. CASE U = {}
        BY <4>1, <1>3 DEF IsFold
      <4>2. CASE U # {}
        <5> HIDE DEF pick, step
        <5>1. pick[U] = CHOOSE x \in U : TRUE
          BY <1>4, <4>2
        <5>2. r[U] = f[pick[U]] + r[U \ {pick[U]}]
          BY <1>4, <4>2
        <5> HIDE DEF r
        <5> QED
          BY <4>2, <5>1, <5>2
      <4> QED
        BY <4>1, <4>2
    <3> QED
      BY <3>1
  <2>2. Iter(K, iter(K))
    <3> HIDE DEF r, Iter
    <3> QED
      BY <2>1
  <2>3. IsFold(iter(K), K, pick, 0, step)
    <3> DEFINE i == iter(K)
    <3>1. i = [s \in SUBSET K |->
                 IF s = {} THEN 0
                 ELSE f[CHOOSE x \in s : TRUE] + i[s \ {CHOOSE x \in s : TRUE}]]
      BY <2>2
    <3> HIDE DEF i
    <3> DEFINE Typed == {U \in SUBSET K : i[U] \in Int}
    <3>2. ASSUME NEW U \in SUBSET K, U # {}
          PROVE  /\ pick[U] \in U
                 /\ i[U] = f[pick[U]] + i[U \ {pick[U]}]
      <4>1. pick[U] \in U /\ pick[U] = CHOOSE x \in U : TRUE
        BY <1>4, <3>2
      <4> HIDE DEF pick
      <4> QED
        BY <3>1, <3>2, <4>1
    <3>3. i[{}] = 0
      BY <3>1
    <3>4. \A U \in SUBSET K : U \in Typed
      <4>1. IsFiniteSet(K)
        BY FS_Subset
      <4>2. {} \in Typed
        BY <3>3
      <4>3. ASSUME NEW U \in SUBSET K, U # {}
            PROVE  \E x \in U : U \ {x} \in Typed => U \in Typed
        <5>1. pick[U] \in U /\ f[pick[U]] \in Int
          BY <3>2, <4>3
        <5>2. i[U] = f[pick[U]] + i[U \ {pick[U]}]
          BY <3>2, <4>3
        <5> HIDE DEF pick
        <5>3. i[U \ {pick[U]}] \in Int => i[U] \in Int
          BY <5>1, <5>2
        <5> QED
          BY <5>1, <5>3
      <4> HIDE DEF Typed
      <4> QED
        BY <4>1, <4>2, <4>3, SubsetInduction, Zenon
    <3>5. ASSUME NEW U \in SUBSET K, U # {}
          PROVE  i[U] = step[<<pick[U], i[U \ {pick[U]}]>>]
      <4>1. i[U \ {pick[U]}] \in Int /\ pick[U] \in S
        BY <3>4, <3>2, <3>5
      <4> HIDE DEF pick
      <4> QED
        BY <3>2, <3>5, <4>1
    <3>6. IsFold(i, K, pick, 0, step)
      <4> HIDE DEF pick, step
      <4> QED
        BY <3>3, <3>5 DEF IsFold
    <3> QED
      BY <3>6 DEF i
  <2>4. g[K] = iter(K)[K]
    <3> HIDE DEF pick, step, iter
    <3> QED
      BY <1>1, <1>3, <2>3, FoldUnique
  <2> QED
    BY <2>4, SumDefinition
<1> HIDE DEF pick, step
<1>6. g[{}] = 0
  BY <1>3 DEF IsFold
<1> QED
  BY <1>3, <1>4, <1>5, <1>6

\* and any can.
LEMMA SumAnyElement ==
  ASSUME NEW S, IsFiniteSet(S), NEW f \in [S -> Int], NEW T \in SUBSET S, NEW x \in T
  PROVE  SumFunctionOnSet(f, T) = f[x] + SumFunctionOnSet(f, T \ {x})
<1> DEFINE Sum(U) == SumFunctionOnSet(f, U)
           Good == {U \in SUBSET S : \A y \in U : Sum(U) = f[y] + Sum(U \ {y})}
<1>1. ASSUME NEW U \in SUBSET S
      PROVE  /\ Sum(U) \in Int
             /\ U # {} => \E y \in U : Sum(U) = f[y] + Sum(U \ {y})
  BY SumSomeElement
<1> HIDE DEF Sum
<1>2. ASSUME NEW U \in SUBSET S, \A V \in SUBSET U : V # U => V \in Good,
             NEW y \in U
      PROVE  Sum(U) = f[y] + Sum(U \ {y})
  <2>1. PICK z \in U : Sum(U) = f[z] + Sum(U \ {z})
    BY <1>1
  <2>2. CASE y # z
    <3>1. U \ {z} \in Good /\ U \ {y} \in Good
      BY <1>2
    <3> DEFINE rest == Sum((U \ {z}) \ {y})
    <3>2. Sum(U \ {z}) = f[y] + rest
      BY <3>1, <2>2
    <3>3. Sum(U \ {y}) = f[z] + rest
      <4>1. Sum(U \ {y}) = f[z] + Sum((U \ {y}) \ {z})
        BY <3>1, <2>2
      <4>2. (U \ {z}) \ {y} = (U \ {y}) \ {z}
        OBVIOUS
      <4> QED
        BY <4>1, <4>2, Zenon
    <3>4. f[y] \in Int /\ f[z] \in Int /\ rest \in Int
      BY <1>1
    <3> HIDE DEF rest, Good
    <3>5. f[z] + (f[y] + rest) = f[y] + (f[z] + rest)
      BY <3>4
    <3> QED
      BY <2>1, <3>2, <3>3, <3>5, Zenon
  <2> QED
    BY <2>1, <2>2
<1>3. \A U \in SUBSET S : U \in Good
  <2>1. ASSUME NEW U \in SUBSET S, \A V \in SUBSET U : V # U => V \in Good
        PROVE  U \in Good
    BY <1>2, <2>1
  <2> HIDE DEF Good
  <2> QED
    BY <2>1, StrongSubsetInduction, Zenon
<1> QED
  BY <1>3 DEF Sum

\* Functions that agree on a set have the same sum over it.
LEMMA SumsAgree ==
  ASSUME NEW S, IsFiniteSet(S), NEW V, IsFiniteSet(V),
         NEW f \in [S -> Int], NEW g \in [V -> Int],
         NEW K, K \subseteq S, K \subseteq V, \A x \in K : f[x] = g[x]
  PROVE  SumFunctionOnSet(f, K) = SumFunctionOnSet(g, K)
<1> DEFINE F(T) == SumFunctionOnSet(f, T)
           G(T) == SumFunctionOnSet(g, T)
           Good == {T \in SUBSET K : F(T) = G(T)}
<1>1. F({}) = 0 /\ G({}) = 0
  BY SumSomeElement
<1>2. ASSUME NEW T \in SUBSET K, NEW x \in T
      PROVE  F(T) = f[x] + F(T \ {x}) /\ G(T) = g[x] + G(T \ {x}) /\ f[x] = g[x]
  <2>1. T \in SUBSET S /\ T \in SUBSET V
    OBVIOUS
  <2> QED
    BY <2>1, SumAnyElement
<1> HIDE DEF F, G
<1>3. {} \in Good
  BY <1>1
<1>4. ASSUME NEW T \in SUBSET K, T # {}
      PROVE  \E x \in T : T \ {x} \in Good => T \in Good
  BY <1>2, <1>4
<1>5. K \in Good
  <2>1. IsFiniteSet(K)
    BY FS_Subset
  <2> HIDE DEF Good
  <2> QED
    BY <1>3, <1>4, <2>1, SubsetInduction, Zenon
<1> QED
  BY <1>5 DEF F, G

\* The one product the comparison needs,
LEMMA ProductNext ==
  ASSUME NEW c \in Nat, NEW e \in Int
  PROVE  (c + 1) * e = c * e + e /\ c * e \in Int
OBVIOUS

\* Term by term, one sum of two functions is at most e per element above another.
LEMMA SumsCompare ==
  ASSUME NEW S, IsFiniteSet(S), NEW e \in Int,
         NEW f \in [S -> Int], NEW p \in [S -> Int],
         NEW g \in [S -> Int], NEW q \in [S -> Int]
  PROVE  (\A x \in S : f[x] + p[x] <= g[x] + q[x] + e) =>
           SumFunctionOnSet(f, S) + SumFunctionOnSet(p, S) <=
             SumFunctionOnSet(g, S) + SumFunctionOnSet(q, S) + Cardinality(S) * e
<1>0. SUFFICES ASSUME \A x \in S : f[x] + p[x] <= g[x] + q[x] + e
               PROVE  SumFunctionOnSet(f, S) + SumFunctionOnSet(p, S) <=
                        SumFunctionOnSet(g, S) + SumFunctionOnSet(q, S)
                          + Cardinality(S) * e
  OBVIOUS
<1> DEFINE F(T) == SumFunctionOnSet(f, T)
           P(T) == SumFunctionOnSet(p, T)
           G(T) == SumFunctionOnSet(g, T)
           Q(T) == SumFunctionOnSet(q, T)
           Good == {T \in SUBSET S : F(T) + P(T) <= G(T) + Q(T) + Cardinality(T) * e}
<1>1. ASSUME NEW T \in SUBSET S
      PROVE  F(T) \in Int /\ P(T) \in Int /\ G(T) \in Int /\ Q(T) \in Int
  BY SumSomeElement
<1>2. F({}) = 0 /\ P({}) = 0 /\ G({}) = 0 /\ Q({}) = 0
  BY SumSomeElement
<1>3. ASSUME NEW T \in SUBSET S, NEW x \in T
      PROVE  /\ F(T) = f[x] + F(T \ {x})
             /\ P(T) = p[x] + P(T \ {x})
             /\ G(T) = g[x] + G(T \ {x})
             /\ Q(T) = q[x] + Q(T \ {x})
  BY SumAnyElement
<1> HIDE DEF F, P, G, Q
<1>4. {} \in Good
  BY <1>2, FS_EmptySet
<1>5. ASSUME NEW T \in SUBSET S, T # {}
      PROVE  \E x \in T : T \ {x} \in Good => T \in Good
  <2>1. PICK x \in T : TRUE
    BY <1>5
  <2> DEFINE R == T \ {x}
             c == Cardinality(R)
  <2>2. SUFFICES ASSUME R \in Good PROVE T \in Good
    OBVIOUS
  <2>3. c \in Nat /\ Cardinality(T) = c + 1
    <3>1. IsFiniteSet(T)
      BY FS_Subset
    <3>2. Cardinality(T) \in Nat /\ Cardinality(R) \in Nat
      BY <3>1, FS_RemoveElement, FS_CardinalityType
    <3>3. Cardinality(R) = Cardinality(T) - 1
      BY <2>1, <3>1, FS_RemoveElement
    <3> QED
      BY <3>2, <3>3
  <2>4. F(R) + P(R) <= G(R) + Q(R) + c * e
    BY <2>2
  <2>5. (c + 1) * e = c * e + e /\ c * e \in Int
    <3> HIDE DEF c
    <3> QED
      BY <2>3, ProductNext
  <2>6. /\ F(R) \in Int /\ P(R) \in Int /\ G(R) \in Int /\ Q(R) \in Int
        /\ f[x] \in Int /\ p[x] \in Int /\ g[x] \in Int /\ q[x] \in Int
    BY <1>1
  <2>7. /\ F(T) = f[x] + F(R)
        /\ P(T) = p[x] + P(R)
        /\ G(T) = g[x] + G(R)
        /\ Q(T) = q[x] + Q(R)
    BY <1>3
  <2>8. f[x] + p[x] <= g[x] + q[x] + e
    BY <1>0
  <2> HIDE DEF Good, R, c
  <2>9. f[x] + F(R) + (p[x] + P(R)) <= g[x] + G(R) + (q[x] + Q(R)) + (c * e + e)
    BY <2>4, <2>5, <2>6, <2>8
  <2>10. F(T) + P(T) <= G(T) + Q(T) + Cardinality(T) * e
    BY <2>3, <2>5, <2>7, <2>9
  <2> QED
    BY <2>10 DEF Good
<1>6. \A T \in SUBSET S : T \in Good
  <2> HIDE DEF Good
  <2> QED
    BY <1>4, <1>5, SubsetInduction, Zenon
<1>7. S \in Good
  BY <1>6, Zenon
<1> QED
  BY <1>7 DEF F, P, G, Q

\* Summing over a set through an injection is summing over its image.
LEMMA SumOfImage ==
  ASSUME NEW S, IsFiniteSet(S), NEW V, IsFiniteSet(V), NEW p \in [V -> Int],
         NEW m \in [S -> V], \A x, y \in S : m[x] = m[y] => x = y
  PROVE  SumFunctionOnSet([x \in S |-> p[m[x]]], S) =
           SumFunctionOnSet(p, {m[x] : x \in S})
<1> DEFINE f == [x \in S |-> p[m[x]]]
           F(T) == SumFunctionOnSet(f, T)
           P(W) == SumFunctionOnSet(p, W)
           Image(T) == {m[x] : x \in T}
           Good == {T \in SUBSET S : F(T) = P(Image(T))}
<1>1. f \in [S -> Int]
  OBVIOUS
<1>2. F({}) = 0 /\ P({}) = 0
  <2> HIDE DEF f
  <2> QED
    BY <1>1, SumSomeElement
<1>3. ASSUME NEW T \in SUBSET S, NEW x \in T
      PROVE  /\ F(T) = p[m[x]] + F(T \ {x})
             /\ P(Image(T)) = p[m[x]] + P(Image(T \ {x}))
  <2>1. F(T) = f[x] + F(T \ {x})
    <3> HIDE DEF f
    <3> QED
      BY <1>1, SumAnyElement
  <2>2. f[x] = p[m[x]]
    OBVIOUS
  <2>3. Image(T) \in SUBSET V /\ m[x] \in Image(T)
    OBVIOUS
  <2>4. Image(T) \ {m[x]} = Image(T \ {x})
    OBVIOUS
  <2>5. P(Image(T)) = p[m[x]] + P(Image(T) \ {m[x]})
    <3> HIDE DEF Image
    <3> QED
      BY <2>3, SumAnyElement
  <2> HIDE DEF f, F, P, Image
  <2> QED
    BY <2>1, <2>2, <2>4, <2>5
<1>4. {} \in Good
  <2>1. Image({}) = {}
    OBVIOUS
  <2> HIDE DEF F, P, Image
  <2> QED
    BY <1>2, <2>1
<1>5. ASSUME NEW T \in SUBSET S, T # {}
      PROVE  \E x \in T : T \ {x} \in Good => T \in Good
  <2> HIDE DEF F, P, Image
  <2> QED
    BY <1>3, <1>5
<1>6. S \in Good
  <2> HIDE DEF Good
  <2> QED
    BY <1>4, <1>5, SubsetInduction, Zenon
<1> QED
  BY <1>6

\* Terms that are not negative: leaving out only zeros does not lower the sum.
LEMMA SumOverMore ==
  ASSUME NEW V, IsFiniteSet(V), NEW p \in [V -> Nat],
         NEW J \in SUBSET V, NEW K \in SUBSET V, \A t \in J \ K : p[t] = 0
  PROVE  SumFunctionOnSet(p, J) <= SumFunctionOnSet(p, K)
<1> DEFINE P(W) == SumFunctionOnSet(p, W)
           Good == {W \in SUBSET V :
                      \A L \in SUBSET V : (\A t \in W \ L : p[t] = 0) => P(W) <= P(L)}
           Whole == {W \in SUBSET V : P(W) \in Nat}
<1>0. p \in [V -> Int]
  OBVIOUS
<1>1. ASSUME NEW W \in SUBSET V
      PROVE  /\ P(W) \in Int
             /\ W = {} => P(W) = 0
             /\ \A x \in W : P(W) = p[x] + P(W \ {x})
  BY <1>0, SumSomeElement, SumAnyElement
<1> HIDE DEF P
<1>2. \A W \in SUBSET V : W \in Whole
  <2>1. {} \in Whole
    BY <1>1
  <2>2. ASSUME NEW W \in SUBSET V, W # {}
        PROVE  \E x \in W : W \ {x} \in Whole => W \in Whole
    <3>1. PICK x \in W : TRUE
      BY <2>2
    <3>2. P(W) = p[x] + P(W \ {x}) /\ p[x] \in Nat
      BY <1>1
    <3> QED
      BY <3>2
  <2> HIDE DEF Whole
  <2> QED
    BY <2>1, <2>2, SubsetInduction, Zenon
<1>3. {} \in Good
  <2>1. \A L \in SUBSET V : P({}) = 0 /\ P(L) \in Nat
    BY <1>1, <1>2
  <2> QED
    BY <2>1
<1>4. ASSUME NEW W \in SUBSET V, W # {}
      PROVE  \E x \in W : W \ {x} \in Good => W \in Good
  <2>1. PICK x \in W : TRUE
    BY <1>4
  <2> SUFFICES ASSUME W \ {x} \in Good, NEW L \in SUBSET V,
                      \A t \in W \ L : p[t] = 0
               PROVE  P(W) <= P(L)
    OBVIOUS
  <2>2. /\ P(W) = p[x] + P(W \ {x})
        /\ p[x] \in Nat
        /\ P(W \ {x}) \in Int
        /\ P(L) \in Int
    BY <1>1
  <2>3. CASE x \in L
    <3>1. \A t \in (W \ {x}) \ (L \ {x}) : p[t] = 0
      OBVIOUS
    <3>2. P(W \ {x}) <= P(L \ {x})
      BY <3>1
    <3>3. P(L) = p[x] + P(L \ {x}) /\ P(L \ {x}) \in Int
      BY <1>1, <2>3
    <3> QED
      BY <2>2, <3>2, <3>3
  <2>4. CASE x \notin L
    <3>1. p[x] = 0
      BY <2>1, <2>4
    <3>2. P(W \ {x}) <= P(L)
      OBVIOUS
    <3> QED
      BY <2>2, <3>1, <3>2
  <2> QED
    BY <2>3, <2>4
<1>5. J \in Good
  <2> HIDE DEF Good
  <2> QED
    BY <1>3, <1>4, SubsetInduction, Zenon
<1> QED
  BY <1>5 DEF P

-----------------------------------------------------------------------------
(* Sequences, from their first element on *)

\* Induction over the prefixes of a sequence of length n.
LEMMA PrefixInduction ==
  ASSUME NEW n \in Nat, NEW Good, 0 \in Good,
         \A k \in 1..n : k - 1 \in Good => k \in Good
  PROVE  \A k \in 0..n : k \in Good
<1> DEFINE C == {1..k : k \in {j \in 0..n : j \notin Good}}
<1>1. SUFFICES ASSUME C # {} PROVE FALSE
  OBVIOUS
<1>2. IsFiniteSet(1..n) /\ C \subseteq SUBSET (1..n)
  <2>1. IsFiniteSet(1..n)
    BY FS_Interval
  <2>2. \A k \in 0..n : 1..k \in SUBSET (1..n)
    OBVIOUS
  <2> QED
    BY <2>1, <2>2
<1>3. PICK T \in C : \A U \in C : U \subseteq T => U = T
  <2> DEFINE S == 1..n
  <2>1. IsFiniteSet(S) /\ C \subseteq SUBSET S
    BY <1>2
  <2> HIDE DEF C, S
  <2>2. \E T \in C : \A U \in C : U \subseteq T => U = T
    BY <1>1, <2>1, SmallestSubset
  <2> QED
    BY <2>2
<1>4. PICK k \in 0..n : k \notin Good /\ T = 1..k
  <2>1. T \in {1..k : k \in {j \in 0..n : j \notin Good}}
    BY DEF C
  <2> QED
    BY <2>1
<1>5. k \in 1..n /\ k - 1 \in 0..n /\ k - 1 \notin Good
  BY <1>4
<1>6. 1..(k - 1) \in C
  BY <1>5
<1>7. k \in 1..k /\ k \notin 1..(k - 1) /\ 1..(k - 1) \subseteq 1..k
  BY <1>5
<1> QED
  BY <1>3, <1>4, <1>6, <1>7

\* g is the function on the prefixes that step defines by recursion,
ByPrefix(g, n, base, step) ==
  \A k \in 0..n : g[k] = IF k = 0 THEN base ELSE step[<<k, g[k - 1]>>]

\* and there is one.
LEMMA PrefixFunction ==
  ASSUME NEW n \in Nat, NEW X, NEW base \in X, NEW step \in [(1..n) \X X -> X]
  PROVE  \E g \in [0..n -> X] : ByPrefix(g, n, base, step)
<1> DEFINE Solves(k, g) ==
             \A j \in 0..k : g[j] = IF j = 0 THEN base ELSE step[<<j, g[j - 1]>>]
           Good == {k \in 0..n : \E g \in [0..k -> X] : Solves(k, g)}
<1>1. 0 \in Good
  <2> DEFINE g == [j \in 0..0 |-> base]
  <2>1. g \in [0..0 -> X]
    OBVIOUS
  <2>2. \A j \in 0..0 : j = 0 /\ g[j] = base
    OBVIOUS
  <2> HIDE DEF g
  <2>3. Solves(0, g)
    BY <2>2
  <2>4. 0 \in 0..n
    OBVIOUS
  <2> QED
    BY <2>1, <2>3, <2>4, Zenon
<1>2. ASSUME NEW k \in 1..n, k - 1 \in Good PROVE k \in Good
  <2>1. PICK g \in [0..(k - 1) -> X] : Solves(k - 1, g)
    BY <1>2
  <2> DEFINE h == [j \in 0..k |-> IF j = k THEN step[<<k, g[k - 1]>>] ELSE g[j]]
  <2>2. g[k - 1] \in X /\ step[<<k, g[k - 1]>>] \in X
    OBVIOUS
  <2>3. h \in [0..k -> X]
    BY <2>2
  <2>4. /\ h[k] = step[<<k, g[k - 1]>>]
        /\ \A j \in 0..(k - 1) : h[j] = g[j]
    OBVIOUS
  <2> HIDE DEF h
  <2>5. ASSUME NEW j \in 0..k
        PROVE  h[j] = IF j = 0 THEN base ELSE step[<<j, h[j - 1]>>]
    <3>1. CASE j = k
      <4>1. k # 0 /\ k - 1 \in 0..(k - 1)
        OBVIOUS
      <4> QED
        BY <2>4, <3>1, <4>1
    <3>2. CASE j # k
      <4>1. j \in 0..(k - 1) /\ (j # 0 => j - 1 \in 0..(k - 1))
        BY <3>2
      <4>2. g[j] = IF j = 0 THEN base ELSE step[<<j, g[j - 1]>>]
        BY <2>1, <4>1
      <4> QED
        BY <2>4, <4>1, <4>2
    <3> QED
      BY <3>1, <3>2
  <2>6. k \in 0..n
    OBVIOUS
  <2> QED
    BY <2>3, <2>5, <2>6
<1>3. n \in Good
  <2> HIDE DEF Good
  <2>1. \A k \in 0..n : k \in Good
    BY <1>1, <1>2, PrefixInduction, Zenon
  <2> QED
    BY <2>1
<1> QED
  BY <1>3 DEF ByPrefix

\* FoldLeft takes the last position out of a prefix,
LEMMA LastOfPrefix ==
  ASSUME NEW n \in Nat
  PROVE  /\ \A U \in SUBSET (1..n) : U # {} => Max(U) \in U
         /\ \A k \in 1..n : Max(1..k) = k /\ (1..k) \ {k} = 1..(k - 1)
<1>1. ASSUME NEW U \in SUBSET (1..n), U # {} PROVE Max(U) \in U
  <2> DEFINE R == {p \in U \X U : p[1] < p[2]}
  <2>1. IsFiniteSet(U)
    <3>1. IsFiniteSet(1..n)
      BY FS_Interval
    <3> QED
      BY <3>1, FS_Subset, Zenon
  <2>2. \A x, y \in U : <<x, y>> \in R <=> x < y
    OBVIOUS
  <2> HIDE DEF R
  <2>3. \A x, y, z \in U : <<x, y>> \in R /\ <<y, z>> \in R => <<x, z>> \in R
    BY <2>2
  <2>4. \A x \in U : <<x, x>> \notin R
    BY <2>2
  <2>5. PICK x \in U : \A y \in U : <<x, y>> \notin R
    <3>1. \E x \in U : \A y \in U : <<x, y>> \notin R
      BY <1>1, <2>1, <2>3, <2>4, FiniteSetHasMaximal, Zenon
    <3> QED
      BY <3>1
  <2>6. ASSUME NEW y \in U PROVE x >= y
    <3>1. ~ (x < y)
      BY <2>2, <2>5
    <3>2. x \in 1..n /\ y \in 1..n
      OBVIOUS
    <3> QED
      BY <3>1, <3>2
  <2> QED
    BY <2>6 DEF Max
<1>2. ASSUME NEW k \in 1..n PROVE Max(1..k) = k /\ (1..k) \ {k} = 1..(k - 1)
  <2>1. k \in 1..k /\ \A y \in 1..k : k >= y
    OBVIOUS
  <2>2. \A x \in 1..k : (\A y \in 1..k : x >= y) => x = k
    OBVIOUS
  <2> QED
    BY <2>1, <2>2 DEF Max
<1> QED
  BY <1>1, <1>2

\* g is the fold from the left that step defines,
ByMax(g, n, base, step) ==
  \A U \in SUBSET (1..n) :
    g[U] = IF U = {} THEN base ELSE step[<<Max(U), g[U \ {Max(U)}]>>]

\* and there is one.
LEMMA LeftFoldExists ==
  ASSUME NEW n \in Nat, NEW X, NEW base \in X, NEW step \in [(1..n) \X X -> X]
  PROVE  \E g \in [SUBSET (1..n) -> X] : ByMax(g, n, base, step)
<1> DEFINE pick == [U \in SUBSET (1..n) |-> Max(U)]
<1>1. Picks(pick, 1..n)
  BY LastOfPrefix DEF Picks
<1>2. IsFiniteSet(1..n)
  BY FS_Interval
<1>3. PICK g \in [SUBSET (1..n) -> X] : IsFold(g, 1..n, pick, base, step)
  <2> HIDE DEF pick
  <2> QED
    BY <1>1, <1>2, FoldExists, Zenon
<1> QED
  BY <1>3 DEF IsFold, ByMax

\* A fold from the left, of which each step is known as long as the values so
\* far are in X,
FoldsFrom(iter, n, X, base, step) ==
  /\ iter[{}] = base
  /\ \A U \in SUBSET (1..n) :
       U # {} /\ iter[U \ {Max(U)}] \in X
       => iter[U] = step[<<Max(U), iter[U \ {Max(U)}]>>]

\* is taken one element after the other.
FoldsInOrder(iter, n, X, base, step) ==
  \E g \in [0..n -> X] : ByPrefix(g, n, base, step) /\ g[n] = iter[1..n]

LEMMA FoldByPrefix ==
  ASSUME NEW n \in Nat, NEW X, NEW base \in X, NEW step \in [(1..n) \X X -> X], NEW iter,
         FoldsFrom(iter, n, X, base, step)
  PROVE  FoldsInOrder(iter, n, X, base, step)
<1>1. PICK g \in [0..n -> X] : ByPrefix(g, n, base, step)
  BY PrefixFunction
<1> DEFINE Good == {k \in 0..n : iter[1..k] = g[k]}
<1>2. 0 \in Good
  <2>1. 1..0 = {} /\ 0 \in 0..n
    OBVIOUS
  <2>2. g[0] = base
    BY <1>1, <2>1 DEF ByPrefix
  <2> QED
    BY <2>1, <2>2 DEF FoldsFrom
<1>3. ASSUME NEW k \in 1..n, k - 1 \in Good PROVE k \in Good
  <2>1. Max(1..k) = k /\ (1..k) \ {k} = 1..(k - 1)
    BY LastOfPrefix
  <2>2. k \in 1..k /\ k \in 0..n /\ k - 1 \in 0..n /\ k # 0 /\ \A j \in 1..k : j \in 1..n
    OBVIOUS
  <2>3. 1..k \in SUBSET (1..n) /\ 1..k # {}
    BY <2>2
  <2>4. iter[1..(k - 1)] = g[k - 1] /\ g[k - 1] \in X
    BY <1>3, <2>2
  <2>5. iter[1..k] = step[<<k, g[k - 1]>>]
    <3> DEFINE U == 1..k
    <3>1. iter[U \ {Max(U)}] = g[k - 1] /\ iter[U \ {Max(U)}] \in X /\ Max(U) = k
      BY <2>1, <2>4
    <3>2. U \in SUBSET (1..n) /\ U # {}
      BY <2>3
    <3> HIDE DEF U
    <3>3. iter[U] = step[<<Max(U), iter[U \ {Max(U)}]>>]
      BY <3>1, <3>2, Zenon DEF FoldsFrom
    <3>4. iter[U] = step[<<k, g[k - 1]>>]
      BY <3>1, <3>3
    <3> QED
      BY <3>4 DEF U
  <2>6. g[k] = step[<<k, g[k - 1]>>]
    BY <1>1, <2>2 DEF ByPrefix
  <2> QED
    BY <2>2, <2>5, <2>6
<1>4. n \in Good
  <2> HIDE DEF Good
  <2>1. \A k \in 0..n : k \in Good
    BY <1>2, <1>3, PrefixInduction, Zenon
  <2> QED
    BY <2>1
<1> QED
  BY <1>1, <1>4 DEF FoldsInOrder

\* SetToSeq lists the elements of a finite set, all of them and no others.
LEMMA SetToSeqLists ==
  ASSUME NEW S, IsFiniteSet(S)
  PROVE  /\ SetToSeq(S) \in Seq(S)
         /\ \A x \in S : \E i \in DOMAIN SetToSeq(S) : SetToSeq(S)[i] = x
<1> DEFINE n == Cardinality(S)
<1>1. n \in Nat /\ ExistsBijection(1..n, S)
  BY FS_CardinalityType
<1>2. PICK f \in Bijection(1..n, S) : TRUE
  BY <1>1 DEF ExistsBijection
<1>3. f \in [1..n -> S] /\ IsInjective(f)
  BY <1>2 DEF Bijection, Injection, IsInjective
<1>4. SetToSeq(S) \in [1..n -> S] /\ IsInjective(SetToSeq(S))
  BY <1>3 DEF SetToSeq
<1>5. SetToSeq(S) \in Injection(1..n, S)
  BY <1>4 DEF Injection, IsInjective
<1>6. Cardinality(1..n) = n
  BY <1>1, FS_Interval
<1>7. SetToSeq(S) \in Surjection(1..n, S)
  BY <1>5, <1>6, FS_Injection
<1> HIDE DEF n
<1> QED
  BY <1>1, <1>4, <1>7 DEF Surjection

\* Appending a sequence.
LEMMA BothInOrder ==
  ASSUME NEW A, NEW s \in Seq(A), NEW u \in Seq(A)
  PROVE  /\ s \o u \in Seq(A)
         /\ DOMAIN (s \o u) = 1..(Len(s) + Len(u))
         /\ \A i \in DOMAIN s : (s \o u)[i] = s[i]
         /\ \A i \in DOMAIN (s \o u) :
              i \notin DOMAIN s => i - Len(s) \in DOMAIN u /\ (s \o u)[i] = u[i - Len(s)]
         /\ ToSet(s \o u) = ToSet(s) \cup ToSet(u)
<1> DEFINE w == s \o u
<1>1. /\ DOMAIN s = 1..Len(s) /\ DOMAIN u = 1..Len(u)
      /\ Len(s) \in Nat /\ Len(u) \in Nat
      /\ w \in Seq(A) /\ DOMAIN w = 1..(Len(s) + Len(u))
  OBVIOUS
<1>2. \A i \in DOMAIN s : i \in DOMAIN w /\ w[i] = s[i]
  OBVIOUS
<1>3. \A i \in DOMAIN u : Len(s) + i \in DOMAIN w /\ w[Len(s) + i] = u[i]
  OBVIOUS
<1>4. \A i \in DOMAIN w :
        i \notin DOMAIN s => i - Len(s) \in DOMAIN u /\ w[i] = u[i - Len(s)]
  OBVIOUS
<1> HIDE DEF w
<1>5. ToSet(w) = ToSet(s) \cup ToSet(u)
  BY <1>1, <1>2, <1>3, <1>4 DEF ToSet
<1> QED
  BY <1>1, <1>2, <1>4, <1>5 DEF w

\* Removing one element.
LEMMA AllButOne ==
  ASSUME NEW A, NEW s \in Seq(A), NEW i \in DOMAIN s
  PROVE  /\ RemoveAt(s, i) \in Seq(A)
         /\ DOMAIN RemoveAt(s, i) = 1..(Len(s) - 1)
         /\ \A j \in DOMAIN RemoveAt(s, i) :
              RemoveAt(s, i)[j] = IF j < i THEN s[j] ELSE s[j + 1]
<1> DEFINE front == SubSeq(s, 1, i - 1)
           back == SubSeq(s, i + 1, Len(s))
           w == front \o back
<1>1. Len(s) \in Nat /\ i \in 1..Len(s) /\ \A j \in 1..Len(s) : s[j] \in A
  OBVIOUS
<1>2. /\ front \in Seq(A) /\ Len(front) = i - 1
      /\ \A j \in 1..(i - 1) : front[j] = s[j]
  BY <1>1
<1>3. /\ back \in Seq(A) /\ Len(back) = Len(s) - i
      /\ \A j \in 1..(Len(s) - i) : back[j] = s[i + j]
  BY <1>1
<1> HIDE DEF front, back
<1>4. /\ w \in Seq(A) /\ DOMAIN w = 1..(Len(s) - 1)
      /\ \A j \in 1..(Len(s) - 1) : w[j] = IF j < i THEN s[j] ELSE s[j + 1]
  <2>1. w \in Seq(A) /\ Len(w) = Len(s) - 1
    BY <1>1, <1>2, <1>3
  <2>2. DOMAIN w = 1..(Len(s) - 1)
    BY <2>1
  <2>3. ASSUME NEW j \in 1..(Len(s) - 1), j < i PROVE w[j] = s[j]
    <3>1. j \in 1..Len(front) /\ j \in 1..(i - 1)
      BY <1>1, <1>2, <2>3
    <3> QED
      BY <1>2, <1>3, <3>1
  <2>4. ASSUME NEW j \in 1..(Len(s) - 1), ~ (j < i) PROVE w[j] = s[j + 1]
    <3>1. j - (i - 1) \in 1..(Len(s) - i) /\ i + (j - (i - 1)) = j + 1
      BY <1>1, <2>4
    <3>2. /\ front \in Seq(A) /\ back \in Seq(A) /\ Len(front) = i - 1
          /\ j \in 1..(Len(front) + Len(back)) /\ j \notin 1..(i - 1)
      BY <1>1, <1>2, <1>3, <2>4
    <3>3. j \in DOMAIN w /\ j \notin DOMAIN front
      BY <3>2, BothInOrder
    <3>4. w[j] = back[j - Len(front)]
      <4>1. \A l \in DOMAIN w : l \notin DOMAIN front => w[l] = back[l - Len(front)]
        BY <3>2, BothInOrder
      <4> HIDE DEF w
      <4> QED
        BY <3>3, <4>1
    <3>5. w[j] = back[j - (i - 1)]
      BY <1>2, <3>4
    <3> QED
      BY <1>3, <3>1, <3>5
  <2> QED
    BY <2>1, <2>2, <2>3, <2>4
<1> QED
  BY <1>4 DEF RemoveAt, front, back

\* A list of a finite set lists each of its elements once.
LEMMA ListsOfSet ==
  ASSUME NEW S, IsFiniteSet(S), NEW q \in SetToSeqs(S)
  PROVE  /\ q \in Seq(S)
         /\ ToSet(q) = S
         /\ \A i, j \in DOMAIN q : q[i] = q[j] => i = j
<1> DEFINE n == Cardinality(S)
<1>1. n \in Nat /\ Cardinality(1..n) = n
  BY FS_CardinalityType, FS_Interval
<1>2. q \in [1..n -> S] /\ \A i, j \in 1..n : i # j => q[i] # q[j]
  BY DEF SetToSeqs
<1>3. q \in Injection(1..n, S)
  BY <1>2 DEF Injection, IsInjective
<1>4. q \in Surjection(1..n, S)
  BY <1>1, <1>3, FS_Injection
<1> HIDE DEF n
<1>5. q \in Seq(S) /\ DOMAIN q = 1..n
  BY <1>1, <1>2
<1>6. ToSet(q) = S
  BY <1>2, <1>4, <1>5 DEF Surjection, ToSet
<1> QED
  BY <1>2, <1>5, <1>6

-----------------------------------------------------------------------------
(* The queue *)

\* The copies a queue holds.
Copies(queue) == {queue[i] : i \in DOMAIN queue}

\* Appending to a queue adds the copies appended.
LEMMA CopiesOfBoth ==
  ASSUME NEW A, NEW queue \in Seq(A), NEW new \in Seq(A)
  PROVE  Copies(queue \o new) = Copies(queue) \cup Copies(new)
<1> DEFINE after == queue \o new
<1>1. /\ DOMAIN queue = 1..Len(queue) /\ DOMAIN new = 1..Len(new)
      /\ Len(queue) \in Nat /\ Len(new) \in Nat
      /\ DOMAIN after = 1..(Len(queue) + Len(new))
  OBVIOUS
<1>2. \A i \in DOMAIN queue : i \in DOMAIN after /\ after[i] = queue[i]
  OBVIOUS
<1>3. \A i \in DOMAIN new : /\ Len(queue) + i \in DOMAIN after
                            /\ after[Len(queue) + i] = new[i]
  OBVIOUS
<1>4. \A i \in DOMAIN after : \/ i \in DOMAIN queue /\ after[i] = queue[i]
                              \/ /\ i - Len(queue) \in DOMAIN new
                                 /\ after[i] = new[i - Len(queue)]
  OBVIOUS
<1> HIDE DEF after
<1>5. Copies(after) = Copies(queue) \cup Copies(new)
  BY <1>2, <1>3, <1>4 DEF Copies
<1> QED
  BY <1>5 DEF after

LEMMA CopiesOfLonger ==
  ASSUME NEW A, NEW queue \in Seq(A), NEW q \in A
  PROVE  Copies(Append(queue, q)) = Copies(queue) \cup {q}
<1> DEFINE after == Append(queue, q)
<1>1. /\ DOMAIN queue = 1..Len(queue) /\ Len(queue) \in Nat
      /\ DOMAIN after = 1..(Len(queue) + 1)
      /\ after[Len(queue) + 1] = q
      /\ \A i \in DOMAIN queue : after[i] = queue[i]
  OBVIOUS
<1> HIDE DEF after
<1>2. Copies(after) = Copies(queue) \cup {q}
  BY <1>1 DEF Copies
<1> QED
  BY <1>2 DEF after

\* The copies at some places of a sequence are the copies at those places.
LEMMA CopiesAtResult ==
  ASSUME NEW A, NEW queue \in Seq(A), NEW places \in SUBSET (DOMAIN queue)
  PROVE  /\ CopiesAt(queue, places) \in Seq(A)
         /\ Copies(CopiesAt(queue, places)) = {queue[i] : i \in places}
<1> DEFINE n == Len(queue)
           more(k) == IF k \in places THEN <<queue[k]>> ELSE <<>>
           Defines(f) == f = [k \in 0..n |-> IF k = 0 THEN <<>> ELSE f[k - 1] \o more(k)]
           upTo == CHOOSE f : Defines(f)
           step == [p \in (1..n) \X Seq(A) |-> p[2] \o more(p[1])]
<1>1. n \in Nat /\ DOMAIN queue = 1..n
  OBVIOUS
<1>2. ASSUME NEW k \in 1..n PROVE queue[k] \in A /\ more(k) \in Seq(A)
  BY <1>1
<1>3. CopiesAt(queue, places) = upTo[n]
  BY DEF CopiesAt
<1> HIDE DEF n, more
<1>4. step \in [(1..n) \X Seq(A) -> Seq(A)]
  BY <1>2
<1>5. \E f : Defines(f)
  <2> DEFINE X == Seq(A)
             empty == <<>>
  <2>1. empty \in X /\ step \in [(1..n) \X X -> X]
    BY <1>4
  <2>2. PICK g \in [0..n -> X] :
          \A k \in 0..n : g[k] = IF k = 0 THEN empty ELSE step[<<k, g[k - 1]>>]
    <3> HIDE DEF step, X, empty
    <3>1. \E g \in [0..n -> X] : ByPrefix(g, n, empty, step)
      BY <1>1, <2>1, PrefixFunction, Zenon
    <3> QED
      BY <3>1, Zenon DEF ByPrefix
  <2>3. ASSUME NEW k \in 0..n, k # 0 PROVE g[k] = g[k - 1] \o more(k)
    <3>1. k \in 1..n /\ g[k - 1] \in Seq(A)
      BY <1>1, <2>3
    <3> QED
      BY <2>2, <2>3, <3>1
  <2>4. g[0] = <<>>
    <3>1. 0 \in 0..n
      BY <1>1
    <3> QED
      BY <2>2, <3>1, Zenon DEF empty
  <2>5. g = [k \in 0..n |-> IF k = 0 THEN <<>> ELSE g[k - 1] \o more(k)]
    BY <2>3, <2>4
  <2> QED
    BY <2>5
<1>6. Defines(upTo)
  <2> HIDE DEF Defines
  <2> QED
    BY <1>5
<1> HIDE DEF upTo
<1>7. upTo[0] = <<>> /\ \A k \in 1..n : upTo[k] = upTo[k - 1] \o more(k)
  <2>1. 0 \in 0..n /\ \A k \in 1..n : k \in 0..n /\ k # 0
    BY <1>1
  <2>2. \A k \in 0..n : upTo[k] = IF k = 0 THEN <<>> ELSE upTo[k - 1] \o more(k)
    BY <1>6, Zenon DEF Defines
  <2> QED
    BY <2>1, <2>2, Zenon
<1> DEFINE Good == {k \in 0..n : /\ upTo[k] \in Seq(A)
                                 /\ Copies(upTo[k]) = {queue[i] : i \in places \cap (1..k)}}
<1>8. 0 \in Good
  <2>1. places \cap (1..0) = {} /\ 0 \in 0..n
    BY <1>1
  <2>2. <<>> \in Seq(A) /\ Copies(<<>>) = {}
    BY DEF Copies
  <2>3. {queue[i] : i \in {}} = {}
    OBVIOUS
  <2> QED
    BY <1>7, <2>1, <2>2, <2>3, Zenon
<1>9. ASSUME NEW k \in 1..n, k - 1 \in Good PROVE k \in Good
  <2> DEFINE before == upTo[k - 1]
  <2>1. /\ before \in Seq(A)
        /\ Copies(before) = {queue[i] : i \in places \cap (1..(k - 1))}
        /\ upTo[k] = before \o more(k)
    BY <1>7, <1>9
  <2>2. k \in 0..n /\ 1..k = (1..(k - 1)) \cup {k}
    BY <1>1
  <2> HIDE DEF before
  <2>3. upTo[k] \in Seq(A)
    BY <1>2, <2>1
  <2>4. CASE k \in places
    <3>1. upTo[k] = Append(before, queue[k])
      BY <1>2, <2>1, <2>4 DEF more
    <3>2. Copies(upTo[k]) = Copies(before) \cup {queue[k]}
      <4>1. before \in Seq(A) /\ queue[k] \in A
        BY <1>2, <2>1
      <4>2. Copies(Append(before, queue[k])) = Copies(before) \cup {queue[k]}
        BY <4>1, CopiesOfLonger
      <4> QED
        BY <3>1, <4>2
    <3>3. {queue[i] : i \in places \cap (1..k)}
            = {queue[i] : i \in places \cap (1..(k - 1))} \cup {queue[k]}
      BY <2>2, <2>4
    <3> QED
      BY <2>1, <2>2, <2>3, <3>2, <3>3
  <2>5. CASE k \notin places
    <3>1. upTo[k] = before
      BY <2>1, <2>5 DEF more
    <3>2. places \cap (1..k) = places \cap (1..(k - 1))
      BY <2>2, <2>5
    <3> QED
      BY <2>1, <2>2, <3>1, <3>2
  <2> QED
    BY <2>4, <2>5
<1>10. n \in Good
  <2> HIDE DEF Good
  <2>1. \A k \in 0..n : k \in Good
    BY <1>1, <1>8, <1>9, PrefixInduction
  <2> QED
    BY <1>1, <2>1
<1>11. places \cap (1..n) = places
  BY <1>1
<1> QED
  BY <1>3, <1>10, <1>11

\* deliver_due hands over the copies that are due, and leaves the others.
LEMMA DueResult ==
  ASSUME NEW A, NEW queue \in Seq(A), NEW now
  PROVE  /\ Due(queue, now) \in Seq(A)
         /\ NotDue(queue, now) \in Seq(A)
         /\ Copies(Due(queue, now)) \subseteq Copies(queue)
         /\ Copies(NotDue(queue, now)) \subseteq Copies(queue)
         /\ \A q \in Copies(queue) : q.at <= now => q \in Copies(Due(queue, now))
         /\ \A q \in Copies(queue) : q.at > now => q \in Copies(NotDue(queue, now))
<1> DEFINE due == {i \in DOMAIN queue : queue[i].at <= now}
           rest == {i \in DOMAIN queue : queue[i].at > now}
<1>1. due \in SUBSET (DOMAIN queue) /\ rest \in SUBSET (DOMAIN queue)
  OBVIOUS
<1>2. /\ CopiesAt(queue, due) \in Seq(A)
      /\ Copies(CopiesAt(queue, due)) = {queue[i] : i \in due}
      /\ CopiesAt(queue, rest) \in Seq(A)
      /\ Copies(CopiesAt(queue, rest)) = {queue[i] : i \in rest}
  <2> HIDE DEF due, rest
  <2> QED
    BY <1>1, CopiesAtResult
<1>3. Due(queue, now) = CopiesAt(queue, due) /\ NotDue(queue, now) = CopiesAt(queue, rest)
  BY DEF Due, NotDue
<1>4. \A q \in Copies(queue) : /\ q.at <= now => q \in {queue[i] : i \in due}
                               /\ q.at > now => q \in {queue[i] : i \in rest}
  BY DEF Copies
<1>5. /\ {queue[i] : i \in due} \subseteq Copies(queue)
      /\ {queue[i] : i \in rest} \subseteq Copies(queue)
  BY DEF Copies
<1> HIDE DEF due, rest
<1> QED
  BY <1>2, <1>3, <1>4, <1>5

\* send_payload adds one copy for each neighbour whose copy survives.
PayloadSent(after, queue, ids, payloads, payload, kept) ==
  /\ after \in Seq(Copy(ids, payloads))
  /\ Copies(queue) \subseteq Copies(after)
  /\ \A q \in Copies(after) : q \in Copies(queue) \/ q.payload = payload
  /\ \A d \in kept : \E q \in Copies(after) : q.dest = d /\ q.payload = payload

LEMMA SendPayloadResult ==
  ASSUME NEW ids, IsFiniteSet(ids), NEW payloads, NEW queue \in Seq(Copy(ids, payloads)),
         NEW payload \in payloads, NEW kept \in SUBSET ids, NEW delay \in [kept -> Int],
         NEW now \in Nat
  PROVE  PayloadSent(SendPayload(queue, payload, kept, delay, now),
                     queue, ids, payloads, payload, kept)
<1> DEFINE copy(d) == [at |-> DeliverAt(now, delay[d]), dest |-> d, payload |-> payload]
           sent == {copy(d) : d \in kept}
<1>1. \A d \in kept : copy(d) \in Copy(ids, payloads)
  BY DEF Copy, DeliverAt
<1>2. sent \subseteq Copy(ids, payloads)
  BY <1>1
<1>3. IsFiniteSet(sent)
  <2>1. IsFiniteSet(kept)
    BY FS_Subset
  <2> DEFINE send == [d \in kept |-> copy(d)]
  <2>2. send \in Surjection(kept, sent)
    BY DEF Surjection
  <2> HIDE DEF copy, sent, send
  <2> QED
    BY <2>1, <2>2, FS_Surjection
<1>4. SendPayload(queue, payload, kept, delay, now) = queue \o SetToSeq(sent)
  BY DEF SendPayload
<1>5. \A q \in sent : q.payload = payload
  OBVIOUS
<1>6. \A d \in kept : copy(d) \in sent /\ copy(d).dest = d /\ copy(d).payload = payload
  OBVIOUS
<1> HIDE DEF copy, sent
<1>7. /\ SetToSeq(sent) \in Seq(sent)
      /\ \A x \in sent : \E i \in DOMAIN SetToSeq(sent) : SetToSeq(sent)[i] = x
  BY <1>3, SetToSeqLists
<1> DEFINE new == SetToSeq(sent)
           after == queue \o new
<1>8. Copies(new) = sent /\ new \in Seq(Copy(ids, payloads))
  BY <1>2, <1>7 DEF Copies
<1> HIDE DEF new
<1>9. after \in Seq(Copy(ids, payloads)) /\ Copies(after) = Copies(queue) \cup Copies(new)
  <2>1. after \in Seq(Copy(ids, payloads))
    BY <1>8
  <2>2. Copies(after) = Copies(queue) \cup Copies(new)
    BY <1>8, CopiesOfBoth DEF after
  <2> QED
    BY <2>1, <2>2
<1> HIDE DEF after
<1> QED
  BY <1>4, <1>5, <1>6, <1>8, <1>9 DEF after, new, PayloadSent

=============================================================================
