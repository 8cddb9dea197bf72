-------------------------- MODULE QaoaSolverProofs --------------------------
(***************************************************************************)
(* Proofs about the lowering, for every problem of the four families: sums *)
(* over sets, the energy of the models the lowering builds, the change     *)
(* from bits to spins, and the size of the penalties.                      *)
(***************************************************************************)
EXTENDS QaoaSolver, QaoaSearchProofs, FiniteSetTheorems, WellFoundedInduction

-----------------------------------------------------------------------------
(* Sums over sets. *)

\* Induction over the subsets of a finite set, for a set of subsets instead of a
\* predicate: a set is good when it is good without any one of its members.
LEMMA SetInduction ==
    ASSUME NEW S, IsFiniteSet(S), NEW Good,
           \A A \in SUBSET S : (\A x \in A : A \ {x} \in Good) => A \in Good
    PROVE  S \in Good
<1> DEFINE wrong == {A \in SUBSET S : A \notin Good}
<1> SUFFICES ASSUME wrong # {} PROVE FALSE
  OBVIOUS
<1>1. IsWellFoundedOn(StrictSubsetOrdering(S), SUBSET S)
  <2>1. FiniteSubsetsOf(S) = SUBSET S
    BY FS_FiniteSubsetsOfFinite
  <2>2. IsWellFoundedOn(StrictSubsetOrdering(S), FiniteSubsetsOf(S))
    BY FS_StrictSubsetOrderingWellFounded
  <2> QED BY <2>1, <2>2
<1>2. wrong \in SUBSET (SUBSET S)
  OBVIOUS
<1>3. PICK A \in wrong : \A B \in wrong : ~ (<<B, A>> \in StrictSubsetOrdering(S))
  <2> HIDE DEF wrong
  <2> QED BY <1>1, <1>2, WFMin
<1>4. \A x \in A : A \ {x} \in Good
  <2> SUFFICES ASSUME NEW x \in A PROVE A \ {x} \in Good
    OBVIOUS
  <2>1. A \in SUBSET S /\ A \ {x} \in SUBSET S /\ A \ {x} \subseteq A /\ A \ {x} # A
    OBVIOUS
  <2> DEFINE B == A \ {x}
  <2> HIDE DEF B
  <2>2. <<B, A>> \in StrictSubsetOrdering(S)
    BY <2>1 DEF B, StrictSubsetOrdering
  <2>3. B \notin wrong
    <3> HIDE DEF wrong
    <3> QED BY <1>3, <2>2
  <2> QED BY <2>1, <2>3 DEF B
<1> QED BY <1>3, <1>4

First(s) == CHOOSE x \in s : TRUE

\* What the recursive definition of a sum asks of its function.
Unfolds(f, S, g) ==
    g = [s \in SUBSET S |-> IF s = {} THEN 0 ELSE f[First(s)] + g[s \ {First(s)}]]

LEMMA FirstIsIn == ASSUME NEW s, s # {} PROVE First(s) \in s
BY DEF First

\* Two such functions agree.
LEMMA SameUnfolding ==
    ASSUME NEW f, NEW A, NEW B, NEW g, NEW h, Unfolds(f, A, g), Unfolds(f, B, h),
           NEW S, IsFiniteSet(S), S \subseteq A, S \subseteq B
    PROVE  g[S] = h[S]
<1> DEFINE Good == {s \in SUBSET S : g[s] = h[s]}
<1>1. ASSUME NEW s \in SUBSET S, \A x \in s : s \ {x} \in Good
      PROVE  s \in Good
  <2>1. /\ g[s] = IF s = {} THEN 0 ELSE f[First(s)] + g[s \ {First(s)}]
        /\ h[s] = IF s = {} THEN 0 ELSE f[First(s)] + h[s \ {First(s)}]
    BY DEF Unfolds
  <2>2. s # {} => g[s \ {First(s)}] = h[s \ {First(s)}]
    BY <1>1, FirstIsIn
  <2> QED BY <2>1, <2>2
<1>2. S \in Good
  <2> HIDE DEF Good
  <2> QED BY <1>1, SetInduction
<1> QED BY <1>2

\* There is such a function for every finite set.
LEMMA UnfoldingExists ==
    ASSUME NEW f, NEW S, IsFiniteSet(S)
    PROVE  \E g : Unfolds(f, S, g)
<1> DEFINE Good == {A \in SUBSET S : \E g : Unfolds(f, A, g)}
           of(A) == CHOOSE g : Unfolds(f, A, g)
<1>1. ASSUME NEW A \in SUBSET S, \A x \in A : A \ {x} \in Good
      PROVE  A \in Good
  <2> DEFINE whole == IF A = {} THEN 0 ELSE f[First(A)] + of(A \ {First(A)})[A \ {First(A)}]
             smaller(s) == CHOOSE B \in Good : B # A /\ s \subseteq B /\ B \subseteq A
             g == [s \in SUBSET A |-> IF s = A THEN whole ELSE of(smaller(s))[s]]
  <2>1. \A B \in Good : Unfolds(f, B, of(B))
    <3>1. \A B \in Good : \E h : Unfolds(f, B, h)
      OBVIOUS
    <3> QED BY <3>1
  <2>2. ASSUME NEW s \in SUBSET A, s # A
        PROVE  /\ smaller(s) \in Good /\ s \subseteq smaller(s) /\ smaller(s) \subseteq A
               /\ smaller(s) # A
    <3>1. PICK x \in A : x \notin s
      BY <2>2
    <3>2. A \ {x} \in Good /\ A \ {x} # A /\ s \subseteq A \ {x} /\ A \ {x} \subseteq A
      <4> HIDE DEF Good
      <4> QED BY <1>1, <3>1
    <3> HIDE DEF Good
    <3>3. \E B \in Good : B # A /\ s \subseteq B /\ B \subseteq A
      BY <3>2
    <3> QED BY <3>3
  <2>3. \A B \in Good : \A s : s \subseteq A /\ IsFiniteSet(s) /\ s \subseteq B /\ s # A => of(B)[s] = g[s]
    <3> SUFFICES ASSUME NEW B \in Good, NEW s, s \subseteq A, IsFiniteSet(s), s \subseteq B, s # A
                 PROVE  of(B)[s] = g[s]
      OBVIOUS
    <3>1. /\ smaller(s) \in Good /\ s \subseteq smaller(s)
      <4> HIDE DEF smaller, Good
      <4> QED BY <2>2
    <3>2. g[s] = of(smaller(s))[s]
      <4> HIDE DEF smaller, Good, of, whole
      <4> QED OBVIOUS
    <3>3. Unfolds(f, B, of(B)) /\ Unfolds(f, smaller(s), of(smaller(s)))
      <4> HIDE DEF smaller, Good, of, whole
      <4> QED BY <2>1, <3>1
    <3> HIDE DEF smaller, Good, of, whole, g
    <3> QED BY <3>1, <3>2, <3>3, SameUnfolding
  <2>4. ASSUME NEW s \in SUBSET A
        PROVE  g[s] = IF s = {} THEN 0 ELSE f[First(s)] + g[s \ {First(s)}]
    <3>f. IsFiniteSet(s) /\ IsFiniteSet(s \ {First(s)})
      BY FS_Subset
    <3>1. CASE s = A
      <4>1. CASE s = {}
        <5> HIDE DEF smaller, Good, of
        <5> QED BY <3>1, <4>1
      <4>2. CASE s # {}
        <5>1. First(A) \in A
          BY <3>1, <4>2, FirstIsIn
        <5>2. A \ {First(A)} \in Good /\ A \ {First(A)} # A /\ A \ {First(A)} \subseteq A
          <6> HIDE DEF Good
          <6> QED BY <1>1, <5>1
        <5>3. of(A \ {First(A)})[A \ {First(A)}] = g[A \ {First(A)}]
          <6> HIDE DEF smaller, Good, of, whole, g
          <6> QED BY <2>3, <5>2, <3>f, <3>1
        <5>4. g[A] = whole
          <6> HIDE DEF smaller, Good, of, whole
          <6> QED OBVIOUS
        <5>5. whole = f[First(A)] + of(A \ {First(A)})[A \ {First(A)}]
          <6> HIDE DEF smaller, Good, of
          <6> QED BY <3>1, <4>2
        <5> HIDE DEF smaller, Good, of, whole, g
        <5> QED BY <3>1, <4>2, <5>3, <5>4, <5>5
      <4> QED BY <4>1, <4>2
    <3>2. CASE s # A
      <4> DEFINE B == smaller(s)
      <4>1. B \in Good /\ s \subseteq B /\ B \subseteq A /\ B # A
        <5> HIDE DEF smaller, Good
        <5> QED BY <2>2, <3>2
      <4> HIDE DEF B
      <4>2. Unfolds(f, B, of(B))
        <5> HIDE DEF smaller, Good, of
        <5> QED BY <2>1, <4>1
      <4>3. of(B)[s] = IF s = {} THEN 0 ELSE f[First(s)] + of(B)[s \ {First(s)}]
        <5> HIDE DEF smaller, Good, of
        <5> QED BY <4>1, <4>2 DEF Unfolds
      <4>4. of(B)[s] = g[s]
        <5> HIDE DEF smaller, Good, of, g, whole
        <5> QED BY <2>3, <4>1, <3>2, <3>f
      <4>5. of(B)[s \ {First(s)}] = g[s \ {First(s)}]
        <5>1. s \ {First(s)} \subseteq A /\ s \ {First(s)} \subseteq B /\ s \ {First(s)} # A
          BY <4>1
        <5> HIDE DEF smaller, Good, of, g, whole
        <5> QED BY <2>3, <4>1, <3>f, <5>1
      <4> HIDE DEF smaller, Good, of, g, whole
      <4> QED BY <4>3, <4>4, <4>5
    <3> QED BY <3>1, <3>2
  <2>5. Unfolds(f, A, g)
    <3>1. g = [s \in SUBSET A |-> g[s]]
      <4> HIDE DEF smaller, Good, of, whole
      <4> QED OBVIOUS
    <3> HIDE DEF g
    <3> QED BY <2>4, <3>1 DEF Unfolds
  <2> HIDE DEF g
  <2> QED BY <2>5
<1>2. S \in Good
  <2> HIDE DEF Good
  <2> QED BY <1>1, SetInduction
<1> QED BY <1>2

\* A sum is the value of such a function.
LEMMA SumUnfolds ==
    ASSUME NEW f, NEW S, IsFiniteSet(S)
    PROVE  \E g : Unfolds(f, S, g) /\ SumOver(f, S) = g[S]
<1> DEFINE g == CHOOSE iter : iter = [s \in SUBSET S |->
                   IF s = {} THEN 0 ELSE f[CHOOSE x \in s : TRUE] + iter[s \ {CHOOSE x \in s : TRUE}]]
<1>1. SumOver(f, S) = g[S]
  BY DEF SumOver, MapThenSumSet, MapThenFoldSet
<1>2. PICK h : Unfolds(f, S, h)
  BY UnfoldingExists
<1>3. g = CHOOSE iter : Unfolds(f, S, iter)
  BY DEF Unfolds, First
<1>4. Unfolds(f, S, g)
  <2> HIDE DEF g
  <2> QED BY <1>2, <1>3
<1> QED
  <2> HIDE DEF g
  <2> QED BY <1>1, <1>4

LEMMA SumFirst ==
    ASSUME NEW f, NEW S, IsFiniteSet(S)
    PROVE  SumOver(f, S) = IF S = {} THEN 0 ELSE f[First(S)] + SumOver(f, S \ {First(S)})
<1>1. PICK g : Unfolds(f, S, g) /\ SumOver(f, S) = g[S]
  BY SumUnfolds
<1>2. g[S] = IF S = {} THEN 0 ELSE f[First(S)] + g[S \ {First(S)}]
  BY <1>1 DEF Unfolds
<1> DEFINE rest == S \ {First(S)}
<1>3. IsFiniteSet(rest)
  BY FS_Subset
<1> HIDE DEF rest
<1>4. PICK h : Unfolds(f, rest, h) /\ SumOver(f, rest) = h[rest]
  BY <1>3, SumUnfolds
<1>5. g[rest] = h[rest]
  <2>1. rest \subseteq S
    BY DEF rest
  <2> QED BY <1>1, <1>3, <1>4, <2>1, SameUnfolding
<1> QED BY <1>1, <1>2, <1>4, <1>5 DEF rest

\* A sum of integers is an integer.
LEMMA SumType ==
    ASSUME NEW f, NEW S, IsFiniteSet(S), \A x \in S : f[x] \in Int
    PROVE  SumOver(f, S) \in Int
<1> DEFINE Good == {A \in SUBSET S : SumOver(f, A) \in Int}
<1>1. ASSUME NEW A \in SUBSET S, \A x \in A : A \ {x} \in Good
      PROVE  A \in Good
  <2>1. SumOver(f, A) = IF A = {} THEN 0 ELSE f[First(A)] + SumOver(f, A \ {First(A)})
    <3>1. IsFiniteSet(A)
      BY FS_Subset
    <3> QED BY <3>1, SumFirst
  <2> QED BY <1>1, <2>1, FirstIsIn
<1>2. S \in Good
  <2> HIDE DEF Good
  <2> QED BY <1>1, SetInduction
<1> QED BY <1>2

LEMMA SumParts ==
    ASSUME NEW f, NEW S, IsFiniteSet(S), \A x \in S : f[x] \in Int
    PROVE  \A T \in SUBSET S : IsFiniteSet(T) /\ SumOver(f, T) \in Int
<1> SUFFICES ASSUME NEW T \in SUBSET S PROVE IsFiniteSet(T) /\ SumOver(f, T) \in Int
  OBVIOUS
<1>1. IsFiniteSet(T)
  BY FS_Subset
<1>2. \A x \in T : f[x] \in Int
  OBVIOUS
<1> QED BY <1>1, <1>2, SumType

\* Any summand can be taken out first.
LEMMA SumPick ==
    ASSUME NEW f, NEW S, IsFiniteSet(S), \A x \in S : f[x] \in Int, NEW y \in S
    PROVE  /\ SumOver(f, S) = f[y] + SumOver(f, S \ {y})
           /\ SumOver(f, S) \in Int /\ SumOver(f, S \ {y}) \in Int
<1> DEFINE Good == {A \in SUBSET S : \A x \in A : SumOver(f, A) = f[x] + SumOver(f, A \ {x})}
<1>t. \A A \in SUBSET S : IsFiniteSet(A) /\ SumOver(f, A) \in Int
  BY SumParts
<1>1. ASSUME NEW A \in SUBSET S, \A x \in A : A \ {x} \in Good
      PROVE  A \in Good
  <2>4. ASSUME NEW x \in A PROVE SumOver(f, A) = f[x] + SumOver(f, A \ {x})
    <3>1. PICK a \in A : a = First(A)
      BY FirstIsIn
    <3>2. SumOver(f, A) = f[a] + SumOver(f, A \ {a})
      BY <1>t, SumFirst, <3>1
    <3>3. CASE x # a
      <4>1. SumOver(f, A \ {a}) = f[x] + SumOver(f, (A \ {a}) \ {x})
        BY <1>1, <3>3
      <4>2. SumOver(f, A \ {x}) = f[a] + SumOver(f, (A \ {x}) \ {a})
        BY <1>1, <3>3
      <4>3. (A \ {a}) \ {x} = (A \ {x}) \ {a}
        OBVIOUS
      <4> DEFINE rest == SumOver(f, (A \ {a}) \ {x})
      <4>4. f[a] \in Int /\ f[x] \in Int /\ rest \in Int
        <5>1. (A \ {a}) \ {x} \in SUBSET S
          OBVIOUS
        <5> QED BY <1>t, <5>1
      <4>5. SumOver(f, A) = f[a] + (f[x] + rest) /\ SumOver(f, A \ {x}) = f[a] + rest
        BY <3>2, <4>1, <4>2, <4>3
      <4> HIDE DEF rest
      <4> QED BY <4>4, <4>5
    <3> QED BY <3>2, <3>3
  <2> QED BY <2>4
<1>2. S \in Good
  <2> HIDE DEF Good
  <2> QED BY <1>1, SetInduction
<1> QED BY <1>2, <1>t

LEMMA SumEmpty == ASSUME NEW f PROVE SumOver(f, {}) = 0
BY SumFirst, FS_EmptySet

\* The sum of the sums of two functions.
LEMMA SumPlus ==
    ASSUME NEW S, IsFiniteSet(S), NEW f, NEW g, NEW h,
           \A x \in S : f[x] \in Int /\ g[x] \in Int /\ h[x] = f[x] + g[x]
    PROVE  SumOver(h, S) = SumOver(f, S) + SumOver(g, S)
<1> DEFINE Good == {A \in SUBSET S : SumOver(h, A) = SumOver(f, A) + SumOver(g, A)}
<1>1. ASSUME NEW A \in SUBSET S, \A x \in A : A \ {x} \in Good
      PROVE  A \in Good
  <2>1. CASE A = {}
    BY <2>1, SumEmpty
  <2>2. ASSUME NEW x \in A PROVE A \in Good
    <3>1. IsFiniteSet(A) /\ \A y \in A : f[y] \in Int /\ g[y] \in Int /\ h[y] \in Int
      BY FS_Subset
    <3>2. SumOver(f, A) = f[x] + SumOver(f, A \ {x})
      BY <3>1, SumPick
    <3>3. SumOver(g, A) = g[x] + SumOver(g, A \ {x})
      BY <3>1, SumPick
    <3>4. SumOver(h, A) = h[x] + SumOver(h, A \ {x})
      BY <3>1, SumPick
    <3>5. SumOver(f, A \ {x}) \in Int /\ SumOver(g, A \ {x}) \in Int
      BY SumParts
    <3>6. SumOver(h, A \ {x}) = SumOver(f, A \ {x}) + SumOver(g, A \ {x})
      BY <1>1
    <3> QED BY <3>2, <3>3, <3>4, <3>5, <3>6
  <2> QED BY <2>1, <2>2
<1>2. S \in Good
  <2> HIDE DEF Good
  <2> QED BY <1>1, SetInduction
<1> QED BY <1>2

\* The sum of the multiples of a function.
LEMMA SumTimes ==
    ASSUME NEW S, IsFiniteSet(S), NEW f, NEW h, NEW k \in Int,
           \A x \in S : f[x] \in Int /\ h[x] = k * f[x]
    PROVE  SumOver(h, S) = k * SumOver(f, S)
<1> DEFINE Good == {A \in SUBSET S : SumOver(h, A) = k * SumOver(f, A)}
<1>1. ASSUME NEW A \in SUBSET S, \A x \in A : A \ {x} \in Good
      PROVE  A \in Good
  <2>1. CASE A = {}
    <3>1. SumOver(f, A) = 0 /\ SumOver(h, A) = 0 /\ k * 0 = 0
      BY <2>1, SumEmpty
    <3> QED BY <3>1
  <2>2. ASSUME NEW x \in A PROVE A \in Good
    <3>1. IsFiniteSet(A) /\ \A y \in A : f[y] \in Int /\ h[y] \in Int
      BY FS_Subset
    <3>2. SumOver(f, A) = f[x] + SumOver(f, A \ {x})
      BY <3>1, SumPick
    <3>3. SumOver(h, A) = h[x] + SumOver(h, A \ {x})
      BY <3>1, SumPick
    <3>4. SumOver(f, A \ {x}) \in Int
      BY SumParts
    <3>5. SumOver(h, A \ {x}) = k * SumOver(f, A \ {x})
      BY <1>1
    <3>6. f[x] \in Int /\ h[x] = k * f[x]
      OBVIOUS
    <3>7. \A a, b \in Int : k * (a + b) = k * a + k * b
      OBVIOUS
    <3>8. SumOver(h, A) = k * SumOver(f, A)
      BY <3>2, <3>3, <3>4, <3>5, <3>6, <3>7
    <3> QED BY <3>8
  <2> QED BY <2>1, <2>2
<1>2. S \in Good
  <2> HIDE DEF Good
  <2> QED BY <1>1, SetInduction
<1> QED BY <1>2

\* Functions that agree on a set have one sum over it.
LEMMA SumSame ==
    ASSUME NEW S, IsFiniteSet(S), NEW f, NEW g, \A x \in S : f[x] \in Int /\ g[x] = f[x]
    PROVE  SumOver(g, S) = SumOver(f, S)
<1>1. \A x \in S : f[x] \in Int /\ g[x] = 1 * f[x]
  OBVIOUS
<1>2. SumOver(g, S) = 1 * SumOver(f, S)
  BY <1>1, SumTimes
<1> QED BY <1>2, SumType

\* Summands of zero can be left out.
LEMMA SumSupport ==
    ASSUME NEW S, IsFiniteSet(S), NEW T \in SUBSET S, NEW f,
           \A x \in S : f[x] \in Int, \A x \in S \ T : f[x] = 0
    PROVE  SumOver(f, S) = SumOver(f, T)
<1> DEFINE Good == {A \in SUBSET S : SumOver(f, A) = SumOver(f, A \cap T)}
<1>1. ASSUME NEW A \in SUBSET S, \A x \in A : A \ {x} \in Good
      PROVE  A \in Good
  <2>1. CASE A = {}
    <3>1. A \cap T = A
      BY <2>1
    <3> QED BY <3>1
  <2>2. ASSUME NEW x \in A PROVE A \in Good
    <3>1. IsFiniteSet(A) /\ IsFiniteSet(A \cap T)
      BY FS_Subset
    <3>2. SumOver(f, A) = f[x] + SumOver(f, A \ {x}) /\ SumOver(f, A) \in Int
      BY <3>1, SumPick
    <3>3. SumOver(f, A \ {x}) = SumOver(f, (A \ {x}) \cap T)
      BY <1>1
    <3>4. CASE x \in T
      <4>1. SumOver(f, A \cap T) = f[x] + SumOver(f, (A \cap T) \ {x})
        <5>1. x \in A \cap T /\ \A y \in A \cap T : f[y] \in Int
          BY <3>4
        <5> DEFINE B == A \cap T
        <5> HIDE DEF B
        <5> QED BY <3>1, <5>1, SumPick DEF B
      <4>2. (A \cap T) \ {x} = (A \ {x}) \cap T
        OBVIOUS
      <4> QED BY <3>2, <3>3, <4>1, <4>2
    <3>5. CASE x \notin T
      <4>1. (A \ {x}) \cap T = A \cap T
        BY <3>5
      <4>2. f[x] = 0
        BY <3>5
      <4>3. SumOver(f, A \ {x}) \in Int
        BY SumParts
      <4>4. SumOver(f, A \ {x}) = SumOver(f, A \cap T)
        BY <3>3, <4>1
      <4>5. SumOver(f, A) = SumOver(f, A \cap T)
        BY <3>2, <4>2, <4>3, <4>4
      <4> QED BY <4>5
    <3> QED BY <3>4, <3>5
  <2> QED BY <2>1, <2>2
<1>2. S \in Good
  <2> HIDE DEF Good
  <2> QED BY <1>1, SetInduction
<1>3. S \cap T = T
  OBVIOUS
<1> QED BY <1>2, <1>3

\* A sum of ones counts.
LEMMA SumCounts ==
    ASSUME NEW S, IsFiniteSet(S), NEW f, NEW k \in Int, \A x \in S : f[x] = k
    PROVE  SumOver(f, S) = k * Cardinality(S)
<1> DEFINE Good == {A \in SUBSET S : SumOver(f, A) = k * Cardinality(A)}
<1>1. ASSUME NEW A \in SUBSET S, \A x \in A : A \ {x} \in Good
      PROVE  A \in Good
  <2>1. CASE A = {}
    BY <2>1, SumEmpty, FS_EmptySet
  <2>2. ASSUME NEW x \in A PROVE A \in Good
    <3>1. IsFiniteSet(A) /\ \A y \in A : f[y] \in Int
      BY FS_Subset
    <3>2. SumOver(f, A) = f[x] + SumOver(f, A \ {x})
      BY <3>1, SumPick
    <3>3. SumOver(f, A \ {x}) = k * Cardinality(A \ {x})
      BY <1>1
    <3>4. Cardinality(A \ {x}) = Cardinality(A) - 1 /\ Cardinality(A) \in Nat
      BY <3>1, FS_RemoveElement, FS_CardinalityType
    <3>5. \A n \in Nat : k + k * (n - 1) = k * n
      OBVIOUS
    <3> QED BY <3>2, <3>3, <3>4, <3>5
  <2> QED BY <2>1, <2>2
<1>2. S \in Good
  <2> HIDE DEF Good
  <2> QED BY <1>1, SetInduction
<1> QED BY <1>2

\* A sum of larger numbers is larger.
LEMMA SumMonotone ==
    ASSUME NEW S, IsFiniteSet(S), NEW f, NEW g,
           \A x \in S : f[x] \in Int /\ g[x] \in Int /\ f[x] <= g[x]
    PROVE  SumOver(f, S) <= SumOver(g, S)
<1> DEFINE Good == {A \in SUBSET S : SumOver(f, A) <= SumOver(g, A)}
<1>1. ASSUME NEW A \in SUBSET S, \A x \in A : A \ {x} \in Good
      PROVE  A \in Good
  <2>1. CASE A = {}
    BY <2>1, SumEmpty
  <2>2. ASSUME NEW x \in A PROVE A \in Good
    <3>1. IsFiniteSet(A)
      BY FS_Subset
    <3>2. /\ SumOver(f, A) = f[x] + SumOver(f, A \ {x}) /\ SumOver(f, A \ {x}) \in Int
          /\ SumOver(g, A) = g[x] + SumOver(g, A \ {x}) /\ SumOver(g, A \ {x}) \in Int
      BY <3>1, SumPick
    <3>3. SumOver(f, A \ {x}) <= SumOver(g, A \ {x})
      BY <1>1
    <3> QED BY <3>2, <3>3
  <2> QED BY <2>1, <2>2
<1>2. S \in Good
  <2> HIDE DEF Good
  <2> QED BY <1>1, SetInduction
<1> QED BY <1>2

\* Two tables with the same numbers, one by rows and one by columns; the sums of the
\* rows of one.
Transposed(row, column, V, E) ==
    \A v \in V, e \in E : row[v][e] \in Int /\ column[e][v] = row[v][e]

RowSums(rows, row, V, E) == \A v \in V : rows[v] = SumOver(row[v], E)

\* Sums over the rows and over the columns of a table are one sum.
LEMMA SumExchange ==
    ASSUME NEW V, NEW E, IsFiniteSet(V), IsFiniteSet(E),
           NEW row, NEW column, Transposed(row, column, V, E),
           NEW rows, RowSums(rows, row, V, E), NEW columns, RowSums(columns, column, E, V)
    PROVE  SumOver(rows, V) = SumOver(columns, E)
<1> DEFINE part(A) == [e \in E |-> SumOver(column[e], A)]
           Good == {A \in SUBSET V : SumOver(rows, A) = SumOver(part(A), E)}
<1>1. \A v \in V, e \in E : /\ row[v][e] = column[e][v]
                            /\ row[v][e] \in Int /\ column[e][v] \in Int
  BY DEF Transposed
<1>2. \A A : \A e \in E : part(A)[e] = SumOver(column[e], A)
  OBVIOUS
<1>3. \A v \in V : rows[v] = SumOver(row[v], E) /\ rows[v] \in Int
  BY <1>1, SumType DEF RowSums
<1>5. \A A \in SUBSET V : \A e \in E : SumOver(column[e], A) \in Int
  BY <1>1, SumParts
<1>6. ASSUME NEW A \in SUBSET V, \A x \in A : A \ {x} \in Good
      PROVE  A \in Good
  <2> HIDE DEF part
  <2>f. IsFiniteSet(A)
    BY FS_Subset
  <2>1. CASE A = {}
    <3>1. \A e \in E : part(A)[e] = 0
      BY <1>2, <2>1, SumEmpty
    <3>2. SumOver(part(A), E) = 0 * Cardinality(E)
      BY <3>1, SumCounts
    <3>3. Cardinality(E) \in Nat
      BY FS_CardinalityType
    <3>4. SumOver(part(A), E) = 0 /\ SumOver(rows, A) = 0
      BY <2>1, <3>2, <3>3, SumEmpty
    <3> QED BY <3>4
  <2>2. ASSUME NEW x \in A PROVE A \in Good
    <3>1. SumOver(rows, A) = rows[x] + SumOver(rows, A \ {x})
      BY <1>3, <2>f, SumPick
    <3>2. SumOver(rows, A \ {x}) = SumOver(part(A \ {x}), E)
      BY <1>6
    <3>3. rows[x] = SumOver(row[x], E)
      BY <1>3
    <3>4. \A e \in E : /\ row[x][e] \in Int /\ part(A \ {x})[e] \in Int
                       /\ part(A)[e] = row[x][e] + part(A \ {x})[e]
      <4> SUFFICES ASSUME NEW e \in E
                   PROVE /\ row[x][e] \in Int /\ part(A \ {x})[e] \in Int
                         /\ part(A)[e] = row[x][e] + part(A \ {x})[e]
        OBVIOUS
      <4>1. SumOver(column[e], A) = column[e][x] + SumOver(column[e], A \ {x})
        BY <1>1, <2>f, SumPick
      <4>2. row[x][e] = column[e][x] /\ row[x][e] \in Int
        BY <1>1
      <4>3. part(A)[e] = SumOver(column[e], A) /\ part(A \ {x})[e] = SumOver(column[e], A \ {x})
        BY <1>2
      <4>4. SumOver(column[e], A \ {x}) \in Int
        BY <1>5
      <4> QED BY <4>1, <4>2, <4>3, <4>4
    <3>5. SumOver(part(A), E) = SumOver(row[x], E) + SumOver(part(A \ {x}), E)
      <4> DEFINE p == part(A)
                 q == part(A \ {x})
                 r == row[x]
      <4>1. \A e \in E : r[e] \in Int /\ q[e] \in Int /\ p[e] = r[e] + q[e]
        BY <3>4
      <4> HIDE DEF p, q, r
      <4>2. SumOver(p, E) = SumOver(r, E) + SumOver(q, E)
        BY <4>1, SumPlus
      <4> QED BY <4>2 DEF p, q, r
    <3>6. SumOver(row[x], E) \in Int /\ SumOver(part(A \ {x}), E) \in Int
      BY <3>4, SumType
    <3>7. SumOver(rows, A) = SumOver(part(A), E)
      BY <3>1, <3>2, <3>3, <3>5, <3>6
    <3> QED BY <3>7
  <2> QED BY <2>1, <2>2
<1>7. V \in Good
  <2> HIDE DEF Good
  <2> QED BY <1>6, SetInduction
<1>8. \A e \in E : part(V)[e] \in Int /\ columns[e] = part(V)[e]
  <2> HIDE DEF part
  <2> QED BY <1>2, <1>5 DEF RowSums
<1>9. SumOver(columns, E) = SumOver(part(V), E)
  <2> HIDE DEF part
  <2> QED BY <1>8, SumSame
<1> QED BY <1>7, <1>9

\* Weights of one side of a relation, times those they are related to on the other.
Upward(f, k, V, c, E, R) ==
    \A v \in V : f[v] = k[v] * SumOver(c, {e \in E : <<v, e>> \in R})

Downward(g, k, V, c, E, R) ==
    \A e \in E : g[e] = c[e] * SumOver(k, {v \in V : <<v, e>> \in R})

\* Counting along a relation from either side.
LEMMA SumIncidence ==
    ASSUME NEW V, NEW E, IsFiniteSet(V), IsFiniteSet(E), NEW R,
           NEW k, \A v \in V : k[v] \in Int, NEW c, \A e \in E : c[e] \in Int,
           NEW f, Upward(f, k, V, c, E, R), NEW g, Downward(g, k, V, c, E, R)
    PROVE  SumOver(f, V) = SumOver(g, E)
<1> DEFINE row == [v \in V |-> [e \in E |-> IF <<v, e>> \in R THEN k[v] * c[e] ELSE 0]]
           column == [e \in E |-> [v \in V |-> IF <<v, e>> \in R THEN k[v] * c[e] ELSE 0]]
           up(v) == {e \in E : <<v, e>> \in R}
           down(e) == {v \in V : <<v, e>> \in R}
<1>1. \A v \in V, e \in E : /\ row[v][e] = IF <<v, e>> \in R THEN k[v] * c[e] ELSE 0
                            /\ column[e][v] = row[v][e] /\ row[v][e] \in Int
  OBVIOUS
<1> HIDE DEF row, column
<1>2. ASSUME NEW v \in V PROVE f[v] = SumOver(row[v], E)
  <2>1. \A e \in E : row[v][e] = (IF e \in up(v) THEN k[v] * c[e] ELSE 0) /\ row[v][e] \in Int
    BY <1>1
  <2>2. up(v) \in SUBSET E /\ \A e \in E \ up(v) : row[v][e] = 0
    BY <2>1
  <2>3. \A e \in up(v) : c[e] \in Int /\ row[v][e] = k[v] * c[e]
    BY <2>1
  <2>4. k[v] \in Int /\ f[v] = k[v] * SumOver(c, up(v))
    BY DEF Upward
  <2>5. IsFiniteSet(up(v)) /\ SumOver(c, up(v)) \in Int
    BY <2>2, SumParts
  <2> HIDE DEF up
  <2>6. SumOver(row[v], E) = SumOver(row[v], up(v))
    BY <2>1, <2>2, SumSupport
  <2>7. SumOver(row[v], up(v)) = k[v] * SumOver(c, up(v))
    BY <2>3, <2>4, <2>5, SumTimes
  <2> QED BY <2>4, <2>5, <2>6, <2>7
<1>3. ASSUME NEW e \in E PROVE g[e] = SumOver(column[e], V)
  <2>1. \A v \in V : column[e][v] = (IF v \in down(e) THEN k[v] * c[e] ELSE 0) /\ column[e][v] \in Int
    BY <1>1
  <2>2. down(e) \in SUBSET V /\ \A v \in V \ down(e) : column[e][v] = 0
    BY <2>1
  <2>3. \A v \in down(e) : k[v] \in Int /\ column[e][v] = c[e] * k[v]
    <3>1. \A a, b \in Int : a * b = b * a
      OBVIOUS
    <3> QED BY <2>1, <3>1
  <2>4. c[e] \in Int /\ g[e] = c[e] * SumOver(k, down(e))
    BY DEF Downward
  <2>5. IsFiniteSet(down(e)) /\ SumOver(k, down(e)) \in Int
    BY <2>2, SumParts
  <2> HIDE DEF down
  <2>6. SumOver(column[e], V) = SumOver(column[e], down(e))
    BY <2>1, <2>2, SumSupport
  <2>7. SumOver(column[e], down(e)) = c[e] * SumOver(k, down(e))
    <3> DEFINE h == column[e]
               n == c[e]
               D == down(e)
    <3>1. n \in Int /\ IsFiniteSet(D) /\ \A v \in D : k[v] \in Int /\ h[v] = n * k[v]
      BY <2>3, <2>5
    <3> HIDE DEF h, n, D
    <3>2. SumOver(h, D) = n * SumOver(k, D)
      BY <3>1, SumTimes
    <3> QED BY <3>2 DEF h, n, D
  <2> QED BY <2>4, <2>6, <2>7
<1>4. Transposed(row, column, V, E)
  BY <1>1 DEF Transposed
<1>5. RowSums(f, row, V, E)
  BY <1>2 DEF RowSums
<1>6. RowSums(g, column, E, V)
  BY <1>3 DEF RowSums
<1> QED BY <1>4, <1>5, <1>6, SumExchange

\* A sum over an image that keeps its arguments apart.
LEMMA SumImage ==
    ASSUME NEW S, IsFiniteSet(S), NEW m, \A x, y \in S : m[x] = m[y] => x = y,
           NEW h, \A x \in S : h[m[x]] \in Int,
           NEW f, \A x \in S : f[x] = h[m[x]]
    PROVE  IsFiniteSet({m[x] : x \in S}) /\ SumOver(h, {m[x] : x \in S}) = SumOver(f, S)
<1> DEFINE image(A) == {m[x] : x \in A}
           Good == {A \in SUBSET S : IsFiniteSet(image(A)) /\ SumOver(h, image(A)) = SumOver(f, A)}
<1>1. ASSUME NEW A \in SUBSET S, \A x \in A : A \ {x} \in Good
      PROVE  A \in Good
  <2>1. CASE A = {}
    <3>1. image(A) = {}
      BY <2>1
    <3> HIDE DEF image
    <3> QED BY <2>1, <3>1, SumEmpty, FS_EmptySet
  <2>2. ASSUME NEW x \in A PROVE A \in Good
    <3>1. SumOver(f, A) = f[x] + SumOver(f, A \ {x})
      <4>1. IsFiniteSet(A) /\ \A y \in A : f[y] \in Int
        BY FS_Subset
      <4> QED BY <4>1, SumPick
    <3>2. image(A) \ {m[x]} = image(A \ {x}) /\ m[x] \in image(A)
      OBVIOUS
    <3>3. IsFiniteSet(image(A \ {x})) /\ SumOver(h, image(A \ {x})) = SumOver(f, A \ {x})
      <4> HIDE DEF image
      <4> QED BY <1>1
    <3>4. image(A) = image(A \ {x}) \cup {m[x]}
      BY <3>2
    <3>5. \A y \in image(A) : h[y] \in Int
      OBVIOUS
    <3> HIDE DEF image
    <3>6. IsFiniteSet(image(A))
      <4> DEFINE B == image(A \ {x})
      <4>1. IsFiniteSet(B) /\ image(A) = B \cup {m[x]}
        BY <3>3, <3>4
      <4> HIDE DEF B
      <4> QED BY <4>1, FS_AddElement
    <3>7. SumOver(h, image(A)) = h[m[x]] + SumOver(h, image(A) \ {m[x]})
      BY <3>2, <3>5, <3>6, SumPick
    <3>8. SumOver(h, image(A)) = SumOver(f, A)
      BY <3>1, <3>2, <3>3, <3>7
    <3> QED BY <3>6, <3>8
  <2> QED BY <2>1, <2>2
<1>2. S \in Good
  <2> HIDE DEF Good
  <2> QED BY <1>1, SetInduction
<1> QED BY <1>2

-----------------------------------------------------------------------------
(* Pairs, spins and the observable. *)

\* The values of f are those of h, taken in another place.
OneToOne(m, S, T) == T = {m[x] : x \in S} /\ \A x, y \in S : m[x] = m[y] => x = y

Reindexed(f, h, m, S) == \A x \in S : h[m[x]] \in Int /\ f[x] = h[m[x]]

LEMMA SumReindexed ==
    ASSUME NEW S, IsFiniteSet(S), NEW T, NEW m, OneToOne(m, S, T),
           NEW f, NEW h, Reindexed(f, h, m, S)
    PROVE  SumOver(h, T) = SumOver(f, S)
<1>1. T = {m[x] : x \in S} /\ \A x, y \in S : m[x] = m[y] => x = y
  BY DEF OneToOne
<1>2. /\ \A x \in S : h[m[x]] \in Int
      /\ \A x \in S : f[x] = h[m[x]]
  BY DEF Reindexed
<1>3. SumOver(h, {m[x] : x \in S}) = SumOver(f, S)
  BY <1>1, <1>2, SumImage
<1> QED BY <1>1, <1>3

LEMMA PairsAre ==
    ASSUME NEW S, NEW e
    PROVE  e \in Pairs(S) <=> \E u, w \in S : u # w /\ e = {u, w}
BY DEF Pairs

LEMMA PairsFinite ==
    ASSUME NEW S, IsFiniteSet(S)
    PROVE  IsFiniteSet(Pairs(S))
<1>1. IsFiniteSet(SUBSET S)
  BY FS_SUBSET
<1>2. Pairs(S) \subseteq SUBSET S
  BY PairsAre
<1> QED BY <1>1, <1>2, FS_Subset

LEMMA PairsWithin ==
    ASSUME NEW S, NEW x \in SUBSET S
    PROVE  Pairs(x) = {e \in Pairs(S) : e \subseteq x}
<1>1. ASSUME NEW e \in Pairs(x) PROVE e \in Pairs(S) /\ e \subseteq x
  BY PairsAre
<1>2. ASSUME NEW e \in Pairs(S), e \subseteq x PROVE e \in Pairs(x)
  BY <1>2, PairsAre
<1> QED BY <1>1, <1>2

\* A sum over the ends of an edge.
LEMMA SumOfTwo ==
    ASSUME NEW u, NEW w, u # w, NEW f, f[u] \in Int, f[w] \in Int
    PROVE  IsFiniteSet({u, w}) /\ SumOver(f, {u, w}) = f[u] + f[w]
<1>1. PICK both : both = {u, w}
  OBVIOUS
<1>2. PICK one : one = {w}
  OBVIOUS
<1>3. /\ both \ {u} = one /\ one \ {w} = {} /\ u \in both /\ w \in one /\ both = one \cup {u}
      /\ (\A x \in both : f[x] \in Int) /\ (\A x \in one : f[x] \in Int)
  BY <1>1, <1>2
<1>4. IsFiniteSet(one)
  BY <1>2, FS_Singleton
<1>5. IsFiniteSet(both)
  BY <1>3, <1>4, FS_AddElement
<1>6. SumOver(f, both) = f[u] + SumOver(f, one)
  BY <1>3, <1>5, SumPick
<1>7. SumOver(f, one) = f[w] + SumOver(f, {})
  BY <1>3, <1>4, SumPick
<1> QED BY <1>1, <1>5, <1>6, <1>7, SumEmpty

LEMMA SpinPairIs ==
    ASSUME NEW x, NEW u, NEW w, u # w
    PROVE  SpinPair(x, {u, w}) = Spin(x, u) * Spin(x, w)
<1> DEFINE v == CHOOSE a \in {u, w} : TRUE
           o == CHOOSE a \in {u, w} : a # v
<1>1. v \in {u, w}
  OBVIOUS
<1>2. o \in {u, w} /\ o # v
  <2> HIDE DEF v
  <2> QED BY <1>1
<1>3. SpinPair(x, {u, w}) = Spin(x, v) * Spin(x, o)
  BY DEF SpinPair
<1>4. Spin(x, u) \in Int /\ Spin(x, w) \in Int
  BY DEF Spin
<1> HIDE DEF v, o
<1>5. CASE v = u
  <2>1. o = w
    BY <1>2, <1>5
  <2> QED BY <1>3, <1>5, <2>1
<1>6. CASE v = w
  <2>1. o = u
    BY <1>2, <1>6
  <2>2. Spin(x, w) * Spin(x, u) = Spin(x, u) * Spin(x, w)
    BY <1>4
  <2> QED BY <1>3, <1>6, <2>1, <2>2
<1> QED BY <1>1, <1>5, <1>6

\* A model whose coefficients can be divided as the conversion divides them.
IsModel(b, V) ==
    /\ IsFiniteSet(V)
    /\ DOMAIN b.linear = V /\ DOMAIN b.quadratic = Pairs(V) /\ b.offset \in Int
    /\ \A v \in V : b.linear[v] \in Int /\ b.linear[v] = 2 * (b.linear[v] \div 2)
    /\ \A e \in Pairs(V) : b.quadratic[e] \in Int /\ b.quadratic[e] = 4 * (b.quadratic[e] \div 4)

\* The share of a variable, and of a pair, in what the observable gives.
LEMMA SpinOf ==
    ASSUME NEW x, NEW v, NEW n \in Int, NEW h \in Int, n = 2 * h
    PROVE  Spin(x, v) \in Int /\ h - h * Spin(x, v) = IF v \in x THEN n ELSE 0
BY DEF Spin

LEMMA SpinsOf ==
    ASSUME NEW x, NEW u, NEW w, NEW n \in Int, NEW c \in Int, n = 4 * c
    PROVE  c - c * (Spin(x, u) + Spin(x, w)) + c * (Spin(x, u) * Spin(x, w))
             = IF u \in x /\ w \in x THEN n ELSE 0
<1>1. CASE u \in x /\ w \in x
  <2>1. Spin(x, u) = -1 /\ Spin(x, w) = -1
    BY <1>1 DEF Spin
  <2> QED BY <1>1, <2>1
<1>2. CASE u \in x /\ w \notin x
  <2>1. Spin(x, u) = -1 /\ Spin(x, w) = 1
    BY <1>2 DEF Spin
  <2> QED BY <1>2, <2>1
<1>3. CASE u \notin x /\ w \in x
  <2>1. Spin(x, u) = 1 /\ Spin(x, w) = -1
    BY <1>3 DEF Spin
  <2> QED BY <1>3, <2>1
<1>4. CASE u \notin x /\ w \notin x
  <2>1. Spin(x, u) = 1 /\ Spin(x, w) = 1
    BY <1>4 DEF Spin
  <2> QED BY <1>4, <2>1
<1> QED BY <1>1, <1>2, <1>3, <1>4

\* The conversion from bits to spins keeps the energy of every model.
THEOREM ObservableIsEnergy ==
    ASSUME NEW b, NEW V, IsModel(b, V), NEW x \in SUBSET V
    PROVE  Observed(Hamiltonian(b), x) = QuadraticEnergy(b, x)
<1> DEFINE E == Pairs(V)
           half == Halves(b)
           c == Quarters(b)
           R == {p \in V \X E : p[1] \in p[2]}
           at(v) == {e \in E : v \in e}
           field == [v \in V |-> -half[v] - SumOver(c, at(v))]
           minus == [v \in V |-> -Spin(x, v)]
           single == [v \in V |-> -(half[v] * Spin(x, v))]
           shares == [v \in V |-> minus[v] * SumOver(c, at(v))]
           ends == [e \in E |-> c[e] * SumOver(minus, e)]
           fields == [v \in V |-> field[v] * Spin(x, v)]
           couplings == [e \in E |-> c[e] * SpinPair(x, e)]
           chosen == [v \in V |-> half[v] + single[v]]
           paired == [e \in E |-> ends[e] + couplings[e]]
           joined == [e \in E |-> c[e] + paired[e]]
<1>1. IsFiniteSet(V) /\ IsFiniteSet(E) /\ b.offset \in Int
  BY PairsFinite DEF IsModel
<1>2. /\ \A v \in V : half[v] \in Int /\ b.linear[v] = 2 * half[v] /\ b.linear[v] \in Int
      /\ \A e \in E : c[e] \in Int /\ b.quadratic[e] = 4 * c[e] /\ b.quadratic[e] \in Int
  BY DEF Halves, Quarters, IsModel
<1>3. DOMAIN half = V /\ DOMAIN c = E /\ DOMAIN field = V
  BY DEF Halves, Quarters, IsModel
<1>4. Observed(Hamiltonian(b), x)
        = b.offset + SumOver(half, V) + SumOver(c, E) + (SumOver(fields, V) + SumOver(couplings, E))
  <2>1. /\ Hamiltonian(b).field = field /\ Hamiltonian(b).coupling = c
        /\ Hamiltonian(b).constant = b.offset + SumOver(half, V) + SumOver(c, E)
    BY <1>3 DEF Hamiltonian, Total, IsModel
  <2>2. OfSpins(field, c, x) = SumOver(fields, V) + SumOver(couplings, E)
    BY <1>3 DEF OfSpins, Total
  <2> HIDE DEF field, fields, c, couplings, half
  <2> QED BY <2>1, <2>2 DEF Observed
<1> HIDE DEF half, c
<1>5. ASSUME NEW v \in V
      PROVE  /\ Spin(x, v) \in Int /\ SumOver(c, at(v)) \in Int
             /\ single[v] \in Int /\ minus[v] \in Int /\ shares[v] \in Int
             /\ fields[v] = single[v] + shares[v]
             /\ chosen[v] \in Int /\ chosen[v] = half[v] + single[v]
             /\ chosen[v] = IF v \in x THEN b.linear[v] ELSE 0
  <2>1. Spin(x, v) \in Int
    BY DEF Spin
  <2>2. SumOver(c, at(v)) \in Int
    BY <1>1, <1>2, SumParts
  <2> DEFINE s == Spin(x, v)
             t == SumOver(c, at(v))
             h == half[v]
  <2>3. s \in Int /\ t \in Int /\ h \in Int
    BY <1>2, <2>1, <2>2
  <2>4. /\ single[v] = -(h * s) /\ minus[v] = -s /\ shares[v] = (-s) * t
        /\ fields[v] = (-h - t) * s /\ chosen[v] = h + -(h * s)
    OBVIOUS
  <2>5. h - h * s = IF v \in x THEN b.linear[v] ELSE 0
    BY <1>2, SpinOf
  <2> HIDE DEF s, t, h, single, minus, shares, fields, chosen
  <2>6. \A a, d, e \in Int : (-a - d) * e = -(a * e) + (-e) * d
    OBVIOUS
  <2>7. (-h - t) * s = -(h * s) + (-s) * t
    BY <2>3, <2>6
  <2>8. h * s \in Int /\ (-s) * t \in Int
    BY <2>3
  <2>9. h + -(h * s) = h - h * s
    BY <2>3, <2>8
  <2> QED BY <2>1, <2>2, <2>3, <2>4, <2>5, <2>7, <2>8, <2>9 DEF h
<1>6. SumOver(fields, V) = SumOver(single, V) + SumOver(shares, V)
  <2> HIDE DEF fields, single, shares
  <2> QED BY <1>1, <1>5, SumPlus
<1>7. SumOver(shares, V) = SumOver(ends, E)
  <2>1. \A v \in V : {e \in E : <<v, e>> \in R} = at(v)
    OBVIOUS
  <2>2. Upward(shares, minus, V, c, E, R)
    <3>1. \A v \in V : shares[v] = minus[v] * SumOver(c, at(v))
      OBVIOUS
    <3> HIDE DEF shares, minus, R, at
    <3> QED BY <2>1, <3>1 DEF Upward
  <2>3. \A e \in E : {v \in V : <<v, e>> \in R} = e
    BY PairsAre
  <2>4. Downward(ends, minus, V, c, E, R)
    <3>1. \A e \in E : ends[e] = c[e] * SumOver(minus, e)
      OBVIOUS
    <3> HIDE DEF ends, minus, R
    <3> QED BY <2>3, <3>1 DEF Downward
  <2>5. \A v \in V : minus[v] \in Int
    BY <1>5
  <2> HIDE DEF shares, ends, minus, R
  <2> QED BY <1>1, <1>2, <2>2, <2>4, <2>5, SumIncidence
<1>8. ASSUME NEW e \in E
      PROVE  /\ ends[e] \in Int /\ couplings[e] \in Int /\ paired[e] \in Int /\ joined[e] \in Int
             /\ paired[e] = ends[e] + couplings[e] /\ joined[e] = c[e] + paired[e]
             /\ joined[e] = IF e \in Pairs(x) THEN b.quadratic[e] ELSE 0
  <2>1. PICK u \in V, w \in V : u # w /\ e = {u, w}
    BY PairsAre
  <2>2. minus[u] \in Int /\ minus[w] \in Int /\ minus[u] = -Spin(x, u) /\ minus[w] = -Spin(x, w)
    BY <1>5
  <2>3. SumOver(minus, e) = minus[u] + minus[w]
    <3> HIDE DEF minus
    <3> QED BY <2>1, <2>2, SumOfTwo
  <2>4. SpinPair(x, e) = Spin(x, u) * Spin(x, w)
    BY <2>1, SpinPairIs
  <2>5. e \in Pairs(x) <=> u \in x /\ w \in x
    BY <2>1, PairsWithin
  <2> DEFINE s == Spin(x, u)
             t == Spin(x, w)
             n == c[e]
  <2>6. s \in Int /\ t \in Int /\ n \in Int
    BY <1>2, <1>5
  <2>7. /\ ends[e] = n * SumOver(minus, e) /\ couplings[e] = n * SpinPair(x, e)
        /\ paired[e] = ends[e] + couplings[e] /\ joined[e] = n + paired[e]
    OBVIOUS
  <2>8. n - n * (s + t) + n * (s * t) = IF u \in x /\ w \in x THEN b.quadratic[e] ELSE 0
    BY <1>2, SpinsOf
  <2> HIDE DEF s, t, n, ends, couplings, paired, joined
  <2>9. ends[e] = n * (-s + -t) /\ couplings[e] = n * (s * t)
    BY <2>2, <2>3, <2>4, <2>7 DEF s, t
  <2>10. n * (-s + -t) = -(n * (s + t)) /\ n * (s + t) \in Int /\ n * (s * t) \in Int
    BY <2>6
  <2>11. PICK m \in Int, k \in Int : m = n * (s + t) /\ k = n * (s * t)
    BY <2>10
  <2>12. /\ n - m + k = IF u \in x /\ w \in x THEN b.quadratic[e] ELSE 0
         /\ ends[e] = -m /\ couplings[e] = k
    BY <2>8, <2>9, <2>10, <2>11
  <2>13. n + (-m + k) = n - m + k
    BY <2>6
  <2>14. n = c[e]
    BY DEF n
  <2> HIDE DEF E
  <2> QED BY <2>5, <2>6, <2>7, <2>12, <2>13, <2>14
<1>9. SumOver(half, V) + SumOver(single, V) = SumOver(b.linear, x)
  <2>1. SumOver(chosen, V) = SumOver(half, V) + SumOver(single, V)
    <3>1. \A v \in V : half[v] \in Int /\ single[v] \in Int /\ chosen[v] = half[v] + single[v]
      BY <1>2, <1>5
    <3> HIDE DEF chosen, single
    <3> QED BY <1>1, <3>1, SumPlus
  <2>2. SumOver(chosen, V) = SumOver(chosen, x)
    <3>1. \A v \in V \ x : chosen[v] = 0
      BY <1>5
    <3> HIDE DEF chosen
    <3> QED BY <1>1, <1>5, <3>1, SumSupport
  <2>3. SumOver(chosen, x) = SumOver(b.linear, x)
    <3>1. \A v \in x : b.linear[v] \in Int /\ chosen[v] = b.linear[v]
      BY <1>2, <1>5
    <3>2. IsFiniteSet(x)
      BY <1>1, FS_Subset
    <3> HIDE DEF chosen
    <3> QED BY <3>1, <3>2, SumSame
  <2> QED BY <2>1, <2>2, <2>3
<1>10. SumOver(c, E) + (SumOver(ends, E) + SumOver(couplings, E)) = SumOver(b.quadratic, Pairs(x))
  <2>1. SumOver(paired, E) = SumOver(ends, E) + SumOver(couplings, E)
    <3> HIDE DEF paired, ends, couplings
    <3> QED BY <1>1, <1>8, SumPlus
  <2>2. SumOver(joined, E) = SumOver(c, E) + SumOver(paired, E)
    <3>1. \A e \in E : c[e] \in Int /\ paired[e] \in Int /\ joined[e] = c[e] + paired[e]
      BY <1>2, <1>8
    <3> HIDE DEF paired, joined
    <3> QED BY <1>1, <3>1, SumPlus
  <2>3. Pairs(x) \in SUBSET E
    BY PairsWithin
  <2>4. SumOver(joined, E) = SumOver(joined, Pairs(x))
    <3>1. \A e \in E \ Pairs(x) : joined[e] = 0
      BY <1>8
    <3> HIDE DEF joined
    <3> QED BY <1>1, <1>8, <2>3, <3>1, SumSupport
  <2>5. SumOver(joined, Pairs(x)) = SumOver(b.quadratic, Pairs(x))
    <3>1. \A e \in Pairs(x) : b.quadratic[e] \in Int /\ joined[e] = b.quadratic[e]
      BY <1>2, <1>8, <2>3
    <3>2. IsFiniteSet(Pairs(x))
      BY <1>1, <2>3, FS_Subset
    <3> HIDE DEF joined
    <3> QED BY <3>1, <3>2, SumSame
  <2> QED BY <2>1, <2>2, <2>4, <2>5
<1>11. /\ SumOver(half, V) \in Int /\ SumOver(single, V) \in Int
       /\ SumOver(c, E) \in Int /\ SumOver(ends, E) \in Int /\ SumOver(couplings, E) \in Int
  <2> HIDE DEF single, ends, couplings
  <2> QED BY <1>1, <1>2, <1>5, <1>8, SumType
<1>12. QuadraticEnergy(b, x) = b.offset + SumOver(b.linear, x) + SumOver(b.quadratic, Pairs(x))
  BY DEF QuadraticEnergy
<1> HIDE DEF single, ends, couplings, fields, shares
<1> QED BY <1>1, <1>4, <1>6, <1>7, <1>9, <1>10, <1>11, <1>12

(***************************************************************************)
(* The lowering produces models.                                           *)
(***************************************************************************)
LEMMA Doubled == ASSUME NEW k \in Int, NEW n, n = 2 * k PROVE n \in Int /\ n = 2 * (n \div 2)
  OBVIOUS

LEMMA Fourfold == ASSUME NEW k \in Int, NEW n, n = 4 * k PROVE n \in Int /\ n = 4 * (n \div 4)
  OBVIOUS

\* The coefficients of a model, as multiples.
LEMMA ModelOf ==
    ASSUME NEW b, NEW V, IsFiniteSet(V), b.offset \in Int,
           DOMAIN b.linear = V, DOMAIN b.quadratic = Pairs(V),
           \A v \in V : \E k \in Int : b.linear[v] = 2 * k,
           \A e \in Pairs(V) : \E k \in Int : b.quadratic[e] = 4 * k
    PROVE  IsModel(b, V)
<1>1. \A v \in V : b.linear[v] \in Int /\ b.linear[v] = 2 * (b.linear[v] \div 2)
  <2> TAKE v \in V
  <2>1. PICK k \in Int : b.linear[v] = 2 * k
    OBVIOUS
  <2> QED BY <2>1, Doubled
<1>2. \A e \in Pairs(V) : b.quadratic[e] \in Int /\ b.quadratic[e] = 4 * (b.quadratic[e] \div 4)
  <2> TAKE e \in Pairs(V)
  <2>1. PICK k \in Int : b.quadratic[e] = 4 * k
    OBVIOUS
  <2> QED BY <2>1, Fourfold
<1> QED BY <1>1, <1>2 DEF IsModel

LEMMA CutIsModel ==
    ASSUME NEW V, IsFiniteSet(V), NEW w, Numbers(w), DOMAIN w \subseteq Pairs(V)
    PROVE  IsModel(CutModel(V, w), V)
<1> DEFINE b == CutModel(V, w)
           at(v) == {e \in DOMAIN w : v \in e}
<1>1. /\ b.offset \in Int /\ DOMAIN b.linear = V /\ DOMAIN b.quadratic = Pairs(V)
      /\ \A v \in V : b.linear[v] = 4 * SumOver(w, at(v))
      /\ \A e \in Pairs(V) : b.quadratic[e] = IF e \in DOMAIN w THEN -8 * w[e] ELSE 0
  BY DEF CutModel, Unit
<1>2. \A e \in DOMAIN w : w[e] \in Int
  BY DEF Numbers
<1>3. IsFiniteSet(DOMAIN w)
  BY PairsFinite, FS_Subset
<1> HIDE DEF b
<1>4. \A v \in V : \E k \in Int : b.linear[v] = 2 * k
  <2> TAKE v \in V
  <2>1. SumOver(w, at(v)) \in Int
    BY <1>2, <1>3, SumParts
  <2>2. PICK s \in Int : s = SumOver(w, at(v))
    BY <2>1
  <2>3. b.linear[v] = 2 * (2 * s)
    BY <1>1, <2>2
  <2> QED BY <2>3
<1>5. \A e \in Pairs(V) : \E k \in Int : b.quadratic[e] = 4 * k
  <2> TAKE e \in Pairs(V)
  <2>1. CASE e \in DOMAIN w
    <3>1. w[e] \in Int /\ b.quadratic[e] = 4 * (-2 * w[e])
      BY <1>1, <1>2, <2>1
    <3> QED BY <3>1
  <2>2. CASE e \notin DOMAIN w
    BY <1>1, <2>2
  <2> QED BY <2>1, <2>2
<1> QED BY <1>1, <1>4, <1>5, ModelOf DEF b

LEMMA ScoreIsModel ==
    ASSUME NEW V, IsFiniteSet(V), NEW score, Numbers(score), NEW interaction, Numbers(interaction)
    PROVE  IsModel(ScoreModel(V, score, interaction), V)
<1> DEFINE b == ScoreModel(V, score, interaction)
<1>1. /\ b.offset \in Int /\ DOMAIN b.linear = V /\ DOMAIN b.quadratic = Pairs(V)
      /\ \A v \in V : b.linear[v] = IF v \in DOMAIN score THEN 4 * score[v] ELSE 0
      /\ \A e \in Pairs(V) : b.quadratic[e] = IF e \in DOMAIN interaction
                                              THEN 4 * interaction[e] ELSE 0
  BY DEF ScoreModel, Unit
<1>2. /\ \A v \in DOMAIN score : score[v] \in Int
      /\ \A e \in DOMAIN interaction : interaction[e] \in Int
  BY DEF Numbers
<1> HIDE DEF b
<1>3. \A v \in V : \E k \in Int : b.linear[v] = 2 * k
  <2> TAKE v \in V
  <2>1. CASE v \in DOMAIN score
    <3>1. score[v] \in Int /\ b.linear[v] = 2 * (2 * score[v])
      BY <1>1, <1>2, <2>1
    <3> QED BY <3>1
  <2>2. CASE v \notin DOMAIN score
    BY <1>1, <2>2
  <2> QED BY <2>1, <2>2
<1>4. \A e \in Pairs(V) : \E k \in Int : b.quadratic[e] = 4 * k
  BY <1>1, <1>2
<1> QED BY <1>1, <1>3, <1>4, ModelOf DEF b

LEMMA SquaredIsModel ==
    ASSUME NEW b, NEW V, IsModel(b, V), NEW k \in Int, NEW target, Numbers(target),
           IsFiniteSet(DOMAIN target)
    PROVE  IsModel(AddSquaredConstraints(b, 2 * k, target), V)
<1> DEFINE c == AddSquaredConstraints(b, 2 * k, target)
           G == DOMAIN target
           share == [g \in G |-> 1 - 2 * target[g]]
           square == [g \in G |-> target[g] * target[g]]
           of(v) == {g \in G : v \in g}
           over(e) == {g \in G : e \subseteq g}
<1>1. /\ DOMAIN c.linear = V /\ DOMAIN c.quadratic = Pairs(V)
      /\ c.offset = b.offset + (2 * k) * SumOver(square, G)
      /\ \A v \in V : c.linear[v] = b.linear[v] + (2 * k) * SumOver(share, of(v))
      /\ \A e \in Pairs(V) : c.quadratic[e] = b.quadratic[e] + 2 * (2 * k) * Cardinality(over(e))
  BY DEF AddSquaredConstraints, IsModel, Total
<1>2. \A g \in G : target[g] \in Int
  BY DEF Numbers
<1>3. \A g \in G : share[g] \in Int /\ square[g] \in Int
  BY <1>2
<1>4. SumOver(square, G) \in Int
  <2> HIDE DEF square
  <2> QED BY <1>3, SumType
<1>5. \A v \in V : SumOver(share, of(v)) \in Int
  <2> HIDE DEF share
  <2>1. \A T \in SUBSET G : SumOver(share, T) \in Int
    BY <1>3, SumParts
  <2> QED BY <2>1
<1>6. \A e \in Pairs(V) : Cardinality(over(e)) \in Int
  <2> TAKE e \in Pairs(V)
  <2>1. IsFiniteSet(over(e))
    BY FS_Subset
  <2> QED BY <2>1, FS_CardinalityType
<1>7. /\ IsFiniteSet(V) /\ b.offset \in Int
      /\ \A v \in V : b.linear[v] \in Int /\ b.linear[v] = 2 * (b.linear[v] \div 2)
      /\ \A e \in Pairs(V) : b.quadratic[e] \in Int /\ b.quadratic[e] = 4 * (b.quadratic[e] \div 4)
  BY DEF IsModel
<1> HIDE DEF c, share, square, of, over, G
<1>8. \A v \in V : \E n \in Int : c.linear[v] = 2 * n
  <2> TAKE v \in V
  <2>1. PICK s \in Int : s = SumOver(share, of(v))
    BY <1>5
  <2>2. PICK h \in Int : b.linear[v] = 2 * h
    BY <1>7
  <2>3. \A l, m, n \in Int : 2 * l + (2 * m) * n = 2 * (l + m * n) /\ l + m * n \in Int
    OBVIOUS
  <2>4. c.linear[v] = 2 * (h + k * s) /\ h + k * s \in Int
    BY <1>1, <2>1, <2>2, <2>3
  <2> QED BY <2>4
<1>9. \A e \in Pairs(V) : \E n \in Int : c.quadratic[e] = 4 * n
  <2> TAKE e \in Pairs(V)
  <2>1. PICK s \in Int : s = Cardinality(over(e))
    BY <1>6
  <2>2. PICK h \in Int : b.quadratic[e] = 4 * h
    BY <1>7
  <2>3. \A l, m, n \in Int : 4 * l + 2 * (2 * m) * n = 4 * (l + m * n) /\ l + m * n \in Int
    OBVIOUS
  <2>4. c.quadratic[e] = 4 * (h + k * s) /\ h + k * s \in Int
    BY <1>1, <2>1, <2>2, <2>3
  <2> QED BY <2>4
<1>10. c.offset \in Int
  <2>1. \A l, m, n \in Int : l + (2 * m) * n \in Int
    OBVIOUS
  <2> QED BY <1>1, <1>4, <1>7, <2>1
<1> QED BY <1>1, <1>7, <1>8, <1>9, <1>10, ModelOf DEF c

LEMMA ImageIsFinite ==
    ASSUME NEW S, IsFiniteSet(S), NEW m
    PROVE  IsFiniteSet({m[x] : x \in S})
<1> DEFINE T == {m[x] : x \in S}
           f == [x \in S |-> m[x]]
<1>1. f \in Surjection(S, T)
  BY DEF Surjection
<1> QED BY <1>1, FS_Surjection

LEMMA CardinalityOfTwo == ASSUME NEW u, NEW t, u # t PROVE Cardinality({u} \cup {t}) = 2
<1>1. IsFiniteSet({u}) /\ Cardinality({u}) = 1
  BY FS_Singleton
<1>2. Cardinality({u} \cup {t}) = IF t \in {u} THEN Cardinality({u}) ELSE Cardinality({u}) + 1
  BY <1>1, FS_AddElement
<1> QED BY <1>1, <1>2

LEMMA MaxIs ==
    ASSUME NEW S, IsFiniteSet(S), S # {}, S \subseteq Int
    PROVE  Max(S) \in S /\ \A y \in S : y <= Max(S)
<1> DEFINE HasTop(A) == A # {} => \E m \in A : \A y \in A : y <= m
           Good == {A \in SUBSET S : HasTop(A)}
<1>1. ASSUME NEW A \in SUBSET S, \A x \in A : A \ {x} \in Good
      PROVE  A \in Good
  <2> SUFFICES ASSUME A # {} PROVE HasTop(A)
    OBVIOUS
  <2>1. PICK x \in A : TRUE
    OBVIOUS
  <2>2. CASE A \ {x} = {}
    BY <2>1, <2>2
  <2>3. CASE A \ {x} # {}
    <3>1. PICK m \in A \ {x} : \A y \in A \ {x} : y <= m
      BY <1>1, <2>1, <2>3
    <3>2. m \in Int /\ x \in Int /\ \A y \in A : y \in Int
      BY <2>1, <3>1
    <3>3. CASE x <= m
      BY <2>1, <3>1, <3>3
    <3>4. CASE ~(x <= m)
      BY <2>1, <3>1, <3>2, <3>4
    <3> QED BY <3>3, <3>4
  <2> QED BY <2>2, <2>3
<1>2. S \in Good
  <2> HIDE DEF Good
  <2> QED BY <1>1, SetInduction
<1>3. PICK m \in S : \A y \in S : m >= y
  BY <1>2
<1> QED BY <1>3 DEF Max

LEMMA MaxOfTwo ==
    ASSUME NEW a \in Int, NEW b \in Int
    PROVE  Max({a, b}) = IF a >= b THEN a ELSE b
<1>1. PICK S : S = {a, b}
  OBVIOUS
<1>2. IsFiniteSet(S) /\ S # {} /\ S \subseteq Int
  <2>1. IsFiniteSet({a} \cup {b})
    BY FS_Singleton, FS_AddElement
  <2>2. S = {a} \cup {b}
    BY <1>1
  <2> QED BY <1>1, <2>1, <2>2
<1>3. Max(S) \in S /\ \A y \in S : y <= Max(S)
  BY <1>2, MaxIs
<1>4. (Max(S) = a \/ Max(S) = b) /\ a <= Max(S) /\ b <= Max(S)
  BY <1>1, <1>3
<1> QED BY <1>1, <1>4

(***************************************************************************)
(* The penalties of an assignment and of a partition.                      *)
(***************************************************************************)
LEMMA LargestScoreIs ==
    ASSUME NEW p, IsFiniteSet(DOMAIN p.score), Numbers(p.score)
    PROVE  /\ LargestScore(p) \in Nat
           /\ \A v \in DOMAIN p.score : /\ p.score[v] <= LargestScore(p)
                                        /\ -p.score[v] <= LargestScore(p)
<1> DEFINE sizes == {Abs(p.score[v]) : v \in DOMAIN p.score}
<1>1. \A v \in DOMAIN p.score : /\ p.score[v] \in Int /\ Abs(p.score[v]) \in Nat
                                /\ p.score[v] <= Abs(p.score[v]) /\ -p.score[v] <= Abs(p.score[v])
  BY DEF Numbers, Abs
<1>2. IsFiniteSet(sizes)
  <2> DEFINE size == [v \in DOMAIN p.score |-> Abs(p.score[v])]
  <2>1. sizes = {size[v] : v \in DOMAIN p.score}
    OBVIOUS
  <2> HIDE DEF size, sizes
  <2> QED BY <2>1, ImageIsFinite
<1>3. PICK S : S = {0} \cup sizes
  OBVIOUS
<1>4. IsFiniteSet(S)
  <2> HIDE DEF sizes
  <2> QED BY <1>2, <1>3, FS_AddElement
<1>5. S # {} /\ S \subseteq Int /\ 0 \in S /\ \A v \in DOMAIN p.score : Abs(p.score[v]) \in S
  BY <1>1, <1>3
<1>6. LargestScore(p) = Max(S)
  BY <1>3 DEF LargestScore
<1>7. Max(S) \in S /\ \A y \in S : y <= Max(S)
  BY <1>4, <1>5, MaxIs
<1>8. LargestScore(p) \in Nat
  <2>1. Max(S) \in Int /\ 0 <= Max(S)
    BY <1>5, <1>7
  <2> QED BY <1>6, <2>1
<1>9. ASSUME NEW v \in DOMAIN p.score
      PROVE  p.score[v] <= LargestScore(p) /\ -p.score[v] <= LargestScore(p)
  <2>1. Abs(p.score[v]) <= LargestScore(p)
    BY <1>5, <1>6, <1>7
  <2> QED BY <1>1, <1>8, <2>1
<1> QED BY <1>8, <1>9

LEMMA AssignmentPenaltyIs ==
    ASSUME NEW p, IsFiniteSet(p.tasks), IsFiniteSet(DOMAIN p.score), Numbers(p.score)
    PROVE  /\ AssignmentPenalty(p) = 4 * (2 * Cardinality(p.tasks) * LargestScore(p) + 1)
           /\ 2 * Cardinality(p.tasks) * LargestScore(p) \in Nat
           /\ ProhibitedPenalty(p) = 8 * LargestScore(p) + AssignmentPenalty(p)
<1>1. Cardinality(p.tasks) \in Nat /\ LargestScore(p) \in Nat
  BY FS_CardinalityType, LargestScoreIs
<1>2. 2 * Cardinality(p.tasks) * LargestScore(p) \in Nat
  BY <1>1
<1>3. PICK n \in Nat : n = 2 * Cardinality(p.tasks) * LargestScore(p)
  BY <1>2
<1>4. Max({1, n + 1}) = n + 1
  BY MaxOfTwo
<1>5. AssignmentPenalty(p) = 4 * (n + 1)
  BY <1>3, <1>4 DEF AssignmentPenalty, Unit
<1>6. ProhibitedPenalty(p) = 8 * LargestScore(p) + AssignmentPenalty(p)
  BY <1>1 DEF ProhibitedPenalty, Unit
<1> QED BY <1>2, <1>3, <1>5, <1>6

LEMMA LargestIncidenceIs ==
    ASSUME NEW p, IsFiniteSet(p.nodes), p.nodes # {}, IsFiniteSet(DOMAIN p.weight),
           Numbers(p.weight)
    PROVE  /\ LargestIncidence(p) \in Int
           /\ \A n \in p.nodes :
                 SumOver(p.weight, {e \in DOMAIN p.weight : n \in e}) <= LargestIncidence(p)
<1> DEFINE at(n) == SumOver(p.weight, {e \in DOMAIN p.weight : n \in e})
           sums == {at(n) : n \in p.nodes}
<1>1. \A e \in DOMAIN p.weight : p.weight[e] \in Int
  BY DEF Numbers
<1>2. \A n \in p.nodes : at(n) \in Int
  BY <1>1, SumParts
<1>3. LargestIncidence(p) = Max(sums)
  BY DEF LargestIncidence
<1> HIDE DEF at
<1>4. IsFiniteSet(sums) /\ sums # {} /\ sums \subseteq Int
  <2> DEFINE value == [n \in p.nodes |-> at(n)]
  <2>1. sums = {value[n] : n \in p.nodes}
    OBVIOUS
  <2>2. sums # {} /\ sums \subseteq Int
    BY <1>2
  <2> HIDE DEF value, sums
  <2> QED BY <2>1, <2>2, ImageIsFinite
<1>5. Max(sums) \in sums /\ \A y \in sums : y <= Max(sums)
  <2> HIDE DEF sums
  <2> QED BY <1>4, MaxIs
<1>6. \A n \in p.nodes : at(n) \in sums
  OBVIOUS
<1> HIDE DEF sums
<1>7. LargestIncidence(p) \in Int /\ \A n \in p.nodes : at(n) <= LargestIncidence(p)
  BY <1>3, <1>4, <1>5, <1>6
<1> QED BY <1>7 DEF at

LEMMA PartitionPenaltyIs ==
    ASSUME NEW p, LargestIncidence(p) \in Int
    PROVE  /\ PartitionPenalty(p) \in Int /\ PartitionPenalty(p) >= 8 * LargestIncidence(p) + 2
           /\ PartitionPenalty(p) >= 4
           /\ \E k \in Int : PartitionPenalty(p) = 2 * k
<1>1. PICK n \in Int : n = LargestIncidence(p)
  OBVIOUS
<1>2. PartitionPenalty(p) = Max({4, 8 * n + 2})
  BY <1>1 DEF PartitionPenalty, Unit
<1>3. Max({4, 8 * n + 2}) = IF 4 >= 8 * n + 2 THEN 4 ELSE 8 * n + 2
  BY MaxOfTwo
<1>4. CASE 4 >= 8 * n + 2
  <2>1. PartitionPenalty(p) = 4 /\ 4 = 2 * 2
    BY <1>2, <1>3, <1>4
  <2> QED BY <1>1, <1>4, <2>1
<1>5. CASE ~(4 >= 8 * n + 2)
  <2>1. PartitionPenalty(p) = 8 * n + 2 /\ 8 * n + 2 = 2 * (4 * n + 1)
    BY <1>2, <1>3, <1>5
  <2> QED BY <1>1, <1>5, <2>1
<1> QED BY <1>4, <1>5

(***************************************************************************)
(* The groups of the squared constraints: the variables of a task, or of a *)
(* node.                                                                   *)
(***************************************************************************)
Groups(A, B) == {{a} \X B : a \in A}

LEMMA GroupOf ==
    ASSUME NEW A, NEW B, B # {}
    PROVE  \A a \in A : (CHOOSE v \in {a} \X B : TRUE)[1] = a
<1> TAKE a \in A
<1>1. PICK c \in B : <<a, c>> \in {a} \X B
  OBVIOUS
<1>2. (CHOOSE v \in {a} \X B : TRUE) \in {a} \X B
  BY <1>1
<1> QED BY <1>2

LEMMA GroupsFinite ==
    ASSUME NEW A, IsFiniteSet(A), NEW B
    PROVE  IsFiniteSet(Groups(A, B))
<1> DEFINE m == [a \in A |-> {a} \X B]
<1>1. Groups(A, B) = {m[a] : a \in A}
  BY DEF Groups
<1> HIDE DEF m
<1> QED BY <1>1, ImageIsFinite

Demands(p) == [g \in Groups(p.tasks, p.resources) |-> p.demand[(CHOOSE v \in g : TRUE)[1]]]

LEMMA DemandsAre ==
    ASSUME NEW p, p.resources # {}, Numbers(p.demand), DOMAIN p.demand = p.tasks
    PROVE  /\ \A t \in p.tasks : Demands(p)[{t} \X p.resources] = p.demand[t]
           /\ Numbers(Demands(p)) /\ DOMAIN Demands(p) = Groups(p.tasks, p.resources)
<1>1. \A t \in p.tasks : Demands(p)[{t} \X p.resources] = p.demand[t]
  <2> TAKE t \in p.tasks
  <2>1. {t} \X p.resources \in Groups(p.tasks, p.resources)
    BY DEF Groups
  <2>2. (CHOOSE v \in {t} \X p.resources : TRUE)[1] = t
    BY GroupOf
  <2> QED BY <2>1, <2>2 DEF Demands
<1>2. \A t \in p.tasks : p.demand[t] \in Int
  BY DEF Numbers
<1>3. \A g \in Groups(p.tasks, p.resources) : Demands(p)[g] \in Int
  BY <1>1, <1>2 DEF Groups
<1>4. DOMAIN Demands(p) = Groups(p.tasks, p.resources)
  BY DEF Demands
<1>5. Numbers(Demands(p))
  <2>1. Demands(p) = [g \in Groups(p.tasks, p.resources) |-> Demands(p)[g]]
    BY DEF Demands
  <2> HIDE DEF Demands
  <2> QED BY <1>3, <1>4, <2>1 DEF Numbers
<1> QED BY <1>1, <1>4, <1>5

LEMMA NoNumbers == Numbers(<<>>)
  BY DEF Numbers

\* The model of an assignment: the scores, the squared constraints of the
\* demands, and the penalties of the prohibited pairs.
Demanding(p) ==
    AddSquaredConstraints(ScoreModel(p.tasks \X p.resources, p.score, <<>>),
                          PenaltySign(p) * AssignmentPenalty(p), Demands(p))

Prohibition(p, v) == IF v \in p.prohibited THEN PenaltySign(p) * ProhibitedPenalty(p) ELSE 0

LEMMA AssignmentModelIs ==
    ASSUME NEW p, p.family = "assignment"
    PROVE  LET b == AssignmentModel(p)
           IN  /\ b.offset = Demanding(p).offset /\ b.quadratic = Demanding(p).quadratic
               /\ DOMAIN b.linear = p.tasks \X p.resources
               /\ \A v \in p.tasks \X p.resources :
                     b.linear[v] = Demanding(p).linear[v] + Prohibition(p, v)
<1>1. Variables(p) = p.tasks \X p.resources
  BY DEF Variables
<1> DEFINE bits == p.tasks \X p.resources
           model == Demanding(p)
<1>2. AssignmentModel(p) = [model EXCEPT !.linear = [v \in bits |-> @[v] + Prohibition(p, v)]]
  BY <1>1 DEF AssignmentModel, Demanding, Demands, Groups, Prohibition
<1>3. model = [linear |-> model.linear, quadratic |-> model.quadratic, offset |-> model.offset]
  BY DEF Demanding, AddSquaredConstraints
<1> HIDE DEF model
<1>4. AssignmentModel(p) = [linear |-> [v \in bits |-> model.linear[v] + Prohibition(p, v)],
                            quadratic |-> model.quadratic, offset |-> model.offset]
  BY <1>2, <1>3
<1> QED BY <1>4 DEF model

LEMMA SignIs == ASSUME NEW p PROVE PenaltySign(p) = 1 \/ PenaltySign(p) = -1
  BY DEF PenaltySign

\* What a validated assignment without capacities owes the lowering.
IsAssignment(p) ==
    /\ p.family = "assignment"
    /\ IsFiniteSet(p.tasks) /\ IsFiniteSet(p.resources) /\ p.tasks # {} /\ p.resources # {}
    /\ Numbers(p.score) /\ DOMAIN p.score \subseteq p.tasks \X p.resources
    /\ IsFiniteSet(DOMAIN p.score)
    /\ Numbers(p.demand) /\ DOMAIN p.demand = p.tasks /\ \A t \in p.tasks : p.demand[t] >= 1
    /\ p.prohibited \subseteq p.tasks \X p.resources
    /\ IsFiniteSet(p.tasks \X p.resources)

LEMMA AssignmentIs ==
    ASSUME NEW p, Validated(p), p.family = "assignment"
    PROVE  IsAssignment(p)
<1>1. WellFormedAssignment(p)
  BY DEF Validated, WellFormed
<1>2. IsFiniteSet(p.tasks \X p.resources)
  BY DEF Validated, Variables
<1>3. DOMAIN p.score \subseteq p.tasks \X p.resources /\ p.prohibited \subseteq p.tasks \X p.resources
  BY <1>1 DEF WellFormedAssignment
<1>4. IsFiniteSet(DOMAIN p.score)
  BY <1>2, <1>3, FS_Subset
<1> QED BY <1>1, <1>2, <1>3, <1>4 DEF Validated, IsAssignment, WellFormedAssignment

LEMMA DemandingIsModel ==
    ASSUME NEW p, IsAssignment(p)
    PROVE  IsModel(Demanding(p), p.tasks \X p.resources)
<1>1. IsModel(ScoreModel(p.tasks \X p.resources, p.score, <<>>), p.tasks \X p.resources)
  BY NoNumbers, ScoreIsModel DEF IsAssignment
<1>2. Numbers(Demands(p)) /\ IsFiniteSet(DOMAIN Demands(p))
  BY DemandsAre, GroupsFinite DEF IsAssignment
<1>3. PICK n \in Nat : AssignmentPenalty(p) = 4 * (n + 1)
  BY AssignmentPenaltyIs DEF IsAssignment
<1>4. PICK k \in Int : PenaltySign(p) * AssignmentPenalty(p) = 2 * k
  <2>1. CASE PenaltySign(p) = 1
    <3>1. /\ PenaltySign(p) * AssignmentPenalty(p) = 2 * (2 * (n + 1))
          /\ 2 * (n + 1) \in Int
      BY <1>3, <2>1
    <3> QED BY <3>1
  <2>2. CASE PenaltySign(p) = -1
    <3>1. /\ PenaltySign(p) * AssignmentPenalty(p) = 2 * (-2 * (n + 1))
          /\ -2 * (n + 1) \in Int
      BY <1>3, <2>2
    <3> QED BY <3>1
  <2> QED BY <2>1, <2>2, SignIs
<1> QED BY <1>1, <1>2, <1>4, SquaredIsModel DEF Demanding

LEMMA AssignmentIsModel ==
    ASSUME NEW p, IsAssignment(p)
    PROVE  IsModel(AssignmentModel(p), p.tasks \X p.resources)
<1> DEFINE V == p.tasks \X p.resources
           d == Demanding(p)
           b == AssignmentModel(p)
<1>1. /\ IsFiniteSet(V) /\ d.offset \in Int /\ DOMAIN d.quadratic = Pairs(V)
      /\ \A v \in V : d.linear[v] \in Int /\ d.linear[v] = 2 * (d.linear[v] \div 2)
      /\ \A e \in Pairs(V) : d.quadratic[e] \in Int /\ d.quadratic[e] = 4 * (d.quadratic[e] \div 4)
  BY DemandingIsModel DEF IsModel
<1>2. /\ b.offset = d.offset /\ b.quadratic = d.quadratic /\ DOMAIN b.linear = V
      /\ \A v \in V : b.linear[v] = d.linear[v] + Prohibition(p, v)
  BY AssignmentModelIs DEF IsAssignment
<1>3. \E n \in Int : ProhibitedPenalty(p) = 2 * n
  <2>1. PICK n \in Nat, l \in Nat : /\ AssignmentPenalty(p) = 4 * (n + 1) /\ LargestScore(p) = l
                                    /\ ProhibitedPenalty(p) = 8 * l + AssignmentPenalty(p)
    BY AssignmentPenaltyIs, LargestScoreIs DEF IsAssignment
  <2>2. ProhibitedPenalty(p) = 2 * (4 * l + 2 * (n + 1)) /\ 4 * l + 2 * (n + 1) \in Int
    BY <2>1
  <2> QED BY <2>2
<1>4. \A v \in V : \E n \in Int : Prohibition(p, v) = 2 * n
  <2> TAKE v \in V
  <2>1. PICK n \in Int : ProhibitedPenalty(p) = 2 * n
    BY <1>3
  <2>2. CASE v \notin p.prohibited
    BY <2>2 DEF Prohibition
  <2>3. CASE v \in p.prohibited /\ PenaltySign(p) = 1
    BY <2>1, <2>3 DEF Prohibition
  <2>4. CASE v \in p.prohibited /\ PenaltySign(p) = -1
    <3>1. Prohibition(p, v) = 2 * (-n)
      BY <2>1, <2>4 DEF Prohibition
    <3> QED BY <3>1
  <2> QED BY <2>2, <2>3, <2>4, SignIs
<1> HIDE DEF V, b, d
<1>5. \A v \in V : \E k \in Int : b.linear[v] = 2 * k
  <2> TAKE v \in V
  <2>1. PICK h \in Int : d.linear[v] = 2 * h
    BY <1>1
  <2>2. PICK n \in Int : Prohibition(p, v) = 2 * n
    BY <1>4
  <2>3. b.linear[v] = 2 * (h + n)
    BY <1>2, <2>1, <2>2
  <2> QED BY <2>3
<1>6. \A e \in Pairs(V) : \E k \in Int : b.quadratic[e] = 4 * k
  BY <1>1, <1>2
<1>7. IsModel(b, V)
  BY <1>1, <1>2, <1>5, <1>6, ModelOf
<1> QED BY <1>7 DEF V, b

(***************************************************************************)
(* The model of a partition: a cut model of the edges' copies in each part *)
(* and the squared constraints of the nodes.                               *)
(***************************************************************************)
Lift(e, k) == {<<n, k>> : n \in e}
Under(l) == {v[1] : v \in l}
Lifts(p) == {Lift(e, k) : e \in DOMAIN p.weight, k \in p.parts}
LiftedWeight(p) == [l \in Lifts(p) |-> p.weight[Under(l)]]
OneEach(p) == [g \in Groups(p.nodes, p.parts) |-> 1]

\* The cut model, above the total weight.
Counting(p) == [CutModel(p.nodes \X p.parts, LiftedWeight(p)) EXCEPT !.offset = Unit * Total(p.weight)]

LEMMA PartitionModelIs ==
    ASSUME NEW p, p.family = "graph-partition"
    PROVE  PartitionModel(p) = AddSquaredConstraints(Counting(p),
                                                     PenaltySign(p) * PartitionPenalty(p), OneEach(p))
<1>1. Variables(p) = p.nodes \X p.parts
  BY DEF Variables
<1> QED BY <1>1 DEF PartitionModel, Counting, OneEach, Groups, LiftedWeight, Lifts, Lift, Under

\* What a validated partition without bounds owes the lowering.
IsPartition(p) ==
    /\ p.family = "graph-partition" /\ p.sense = "minimize"
    /\ IsFiniteSet(p.nodes) /\ IsFiniteSet(p.parts) /\ p.nodes # {} /\ Cardinality(p.parts) >= 2
    /\ Numbers(p.weight) /\ DOMAIN p.weight \subseteq Pairs(p.nodes)
    /\ \A e \in DOMAIN p.weight : p.weight[e] > 0
    /\ IsFiniteSet(DOMAIN p.weight) /\ IsFiniteSet(p.nodes \X p.parts)

LEMMA PartitionIs ==
    ASSUME NEW p, Validated(p), p.family = "graph-partition"
    PROVE  IsPartition(p)
<1>1. WellFormedPartition(p)
  BY DEF Validated, WellFormed
<1>2. IsFiniteSet(p.nodes \X p.parts)
  BY DEF Validated, Variables
<1>3. DOMAIN p.weight \subseteq Pairs(p.nodes) /\ IsFiniteSet(p.nodes)
  BY <1>1 DEF WellFormedPartition, Validated
<1>4. IsFiniteSet(DOMAIN p.weight)
  BY <1>3, FS_Subset, PairsFinite
<1> QED BY <1>1, <1>2, <1>3, <1>4 DEF Validated, IsPartition, WellFormedPartition

LEMMA UnderLift == \A e, k : Under(Lift(e, k)) = e
<1> SUFFICES ASSUME NEW e, NEW k PROVE Under(Lift(e, k)) = e
  OBVIOUS
<1>1. ASSUME NEW n \in e PROVE n \in Under(Lift(e, k))
  <2>1. <<n, k>> \in Lift(e, k)
    BY DEF Lift
  <2> QED BY <2>1 DEF Under
<1>2. ASSUME NEW n \in Under(Lift(e, k)) PROVE n \in e
  BY DEF Under, Lift
<1> QED BY <1>1, <1>2

LEMMA LiftIsPair ==
    ASSUME NEW S, NEW K, NEW e \in Pairs(S), NEW k \in K
    PROVE  Lift(e, k) \in Pairs(S \X K)
<1>1. PICK u \in S, w \in S : u # w /\ e = {u, w}
  BY PairsAre
<1>2. Lift(e, k) = {<<u, k>>, <<w, k>>}
  BY <1>1 DEF Lift
<1>3. <<u, k>> # <<w, k>> /\ <<u, k>> \in S \X K /\ <<w, k>> \in S \X K
  BY <1>1
<1> QED BY <1>2, <1>3, PairsAre

LEMMA LiftSame ==
    ASSUME NEW S, NEW e \in Pairs(S), NEW f, NEW k, NEW l, Lift(e, k) = Lift(f, l)
    PROVE  e = f /\ k = l
<1>1. e = f
  BY UnderLift
<1>2. PICK n \in e : TRUE
  BY PairsAre
<1>3. <<n, k>> \in Lift(f, l)
  BY <1>2 DEF Lift
<1> QED BY <1>1, <1>3 DEF Lift

LEMMA LiftedIs ==
    ASSUME NEW p, IsPartition(p)
    PROVE  /\ Lifts(p) \subseteq Pairs(p.nodes \X p.parts) /\ DOMAIN LiftedWeight(p) = Lifts(p)
           /\ Numbers(LiftedWeight(p)) /\ IsFiniteSet(Lifts(p))
           /\ \A e \in DOMAIN p.weight, k \in p.parts : /\ Lift(e, k) \in Lifts(p)
                                                        /\ LiftedWeight(p)[Lift(e, k)] = p.weight[e]
<1>1. \A e \in DOMAIN p.weight, k \in p.parts : Lift(e, k) \in Lifts(p)
  BY DEF Lifts
<1>2. \A e \in DOMAIN p.weight : e \in Pairs(p.nodes) /\ p.weight[e] \in Int
  BY DEF IsPartition, Numbers
<1>3. Lifts(p) \subseteq Pairs(p.nodes \X p.parts)
  <2> SUFFICES ASSUME NEW l \in Lifts(p) PROVE l \in Pairs(p.nodes \X p.parts)
    OBVIOUS
  <2>1. PICK e \in DOMAIN p.weight, k \in p.parts : l = Lift(e, k)
    BY DEF Lifts
  <2> QED BY <1>2, <2>1, LiftIsPair
<1>4. ASSUME NEW l \in Lifts(p) PROVE LiftedWeight(p)[l] \in Int
  <2>1. PICK e \in DOMAIN p.weight, k \in p.parts : l = Lift(e, k)
    BY DEF Lifts
  <2> QED BY <1>2, <2>1, UnderLift DEF LiftedWeight
<1>5. \A e \in DOMAIN p.weight, k \in p.parts : LiftedWeight(p)[Lift(e, k)] = p.weight[e]
  BY <1>1, UnderLift DEF LiftedWeight
<1>6. DOMAIN LiftedWeight(p) = Lifts(p)
  BY DEF LiftedWeight
<1>7. Numbers(LiftedWeight(p))
  <2>1. LiftedWeight(p) = [l \in Lifts(p) |-> LiftedWeight(p)[l]]
    BY DEF LiftedWeight
  <2> HIDE DEF LiftedWeight
  <2> QED BY <1>4, <1>6, <2>1 DEF Numbers
<1>8. IsFiniteSet(Lifts(p))
  <2>1. IsFiniteSet(Pairs(p.nodes \X p.parts))
    BY PairsFinite DEF IsPartition
  <2> QED BY <1>3, <2>1, FS_Subset
<1> QED BY <1>1, <1>3, <1>5, <1>6, <1>7, <1>8

LEMMA CountingIsModel ==
    ASSUME NEW p, IsPartition(p)
    PROVE  /\ IsModel(Counting(p), p.nodes \X p.parts)
           /\ Counting(p).offset = 4 * Total(p.weight) /\ Total(p.weight) \in Int
           /\ Counting(p).linear = CutModel(p.nodes \X p.parts, LiftedWeight(p)).linear
           /\ Counting(p).quadratic = CutModel(p.nodes \X p.parts, LiftedWeight(p)).quadratic
<1> DEFINE b == CutModel(p.nodes \X p.parts, LiftedWeight(p))
<1>1. IsModel(b, p.nodes \X p.parts)
  BY LiftedIs, CutIsModel DEF IsPartition
<1>2. \A e \in DOMAIN p.weight : p.weight[e] \in Int
  BY DEF IsPartition, Numbers
<1>3. Total(p.weight) \in Int
  BY <1>2, SumType DEF IsPartition, Total
<1>4. b = [linear |-> b.linear, quadratic |-> b.quadratic, offset |-> b.offset]
  BY DEF CutModel
<1>5. Counting(p) = [b EXCEPT !.offset = 4 * Total(p.weight)]
  BY DEF Counting, Unit
<1> HIDE DEF b
<1>6. Counting(p).offset = 4 * Total(p.weight) /\ Counting(p).linear = b.linear
      /\ Counting(p).quadratic = b.quadratic
  BY <1>4, <1>5
<1>7. IsModel(Counting(p), p.nodes \X p.parts)
  <2>1. PICK V, c : V = p.nodes \X p.parts /\ c = Counting(p)
    OBVIOUS
  <2>2. IsModel(b, V) /\ c.offset \in Int /\ c.linear = b.linear /\ c.quadratic = b.quadratic
    BY <1>1, <1>3, <1>6, <2>1
  <2>3. IsModel(c, V)
    BY <2>2 DEF IsModel
  <2> QED BY <2>1, <2>3
<1> QED BY <1>3, <1>6, <1>7 DEF b

LEMMA OneEachIs ==
    ASSUME NEW p, IsPartition(p)
    PROVE  /\ Numbers(OneEach(p)) /\ DOMAIN OneEach(p) = Groups(p.nodes, p.parts)
           /\ IsFiniteSet(DOMAIN OneEach(p))
           /\ \A g \in Groups(p.nodes, p.parts) : OneEach(p)[g] = 1
  BY GroupsFinite DEF OneEach, Numbers, IsPartition

LEMMA PartitionIsModel ==
    ASSUME NEW p, IsPartition(p)
    PROVE  IsModel(PartitionModel(p), p.nodes \X p.parts)
<1>1. PenaltySign(p) * PartitionPenalty(p) = PartitionPenalty(p) /\ PartitionPenalty(p) \in Int
  <2>1. PenaltySign(p) = 1
    BY DEF PenaltySign, IsPartition
  <2>2. PartitionPenalty(p) \in Int
    BY LargestIncidenceIs, PartitionPenaltyIs DEF IsPartition
  <2> QED BY <2>1, <2>2
<1>2. PICK k \in Int : PartitionPenalty(p) = 2 * k
  BY LargestIncidenceIs, PartitionPenaltyIs DEF IsPartition
<1> QED BY <1>1, <1>2, CountingIsModel, OneEachIs, PartitionModelIs, SquaredIsModel DEF IsPartition

\* Every validated problem is lowered to a model over its variables.
LEMMA LoweredIsModel ==
    ASSUME NEW p, Validated(p)
    PROVE  IsModel(Lower(p), Variables(p))
<1>1. p.family \in {"maxcut", "assignment", "subset-selection", "graph-partition"}
  BY DEF Validated
<1>2. IsFiniteSet(Variables(p))
  BY DEF Validated
<1>3. CASE p.family = "maxcut"
  <2>1. Variables(p) = p.nodes /\ Lower(p) = CutModel(p.nodes, p.weight)
    BY <1>3 DEF Variables, Lower
  <2>2. Numbers(p.weight) /\ DOMAIN p.weight \subseteq Pairs(p.nodes)
    BY <1>3 DEF Validated, WellFormed, WellFormedCut
  <2> QED BY <1>2, <2>1, <2>2, CutIsModel
<1>4. CASE p.family = "subset-selection"
  <2>1. Variables(p) = p.candidates /\ Lower(p) = ScoreModel(p.candidates, p.score, p.interaction)
    BY <1>4 DEF Variables, Lower
  <2>2. Numbers(p.score) /\ Numbers(p.interaction)
    BY <1>4 DEF Validated
  <2> QED BY <1>2, <2>1, <2>2, ScoreIsModel
<1>5. CASE p.family = "assignment"
  <2>1. Variables(p) = p.tasks \X p.resources /\ Lower(p) = AssignmentModel(p)
    BY <1>5 DEF Variables, Lower
  <2> QED BY <1>5, <2>1, AssignmentIs, AssignmentIsModel
<1>6. CASE p.family = "graph-partition"
  <2>1. Variables(p) = p.nodes \X p.parts /\ Lower(p) = PartitionModel(p)
    BY <1>6 DEF Variables, Lower
  <2> QED BY <1>6, <2>1, PartitionIs, PartitionIsModel
<1> QED BY <1>1, <1>3, <1>4, <1>5, <1>6

\* The conversion to spins is exact for every problem that is lowered: the
\* observable the CUDA-Q backend measures gives every basis state the energy
\* that the Qiskit backend computes from the bits.
THEOREM LoweredObservable == QaoaSpec => []HamiltonianIsEnergy
<1>1. QaoaTypeOK => HamiltonianIsEnergy
  <2> SUFFICES ASSUME QaoaTypeOK, NEW x \in Solutions(document)
               PROVE  Observed(Hamiltonian(Lower(document)), x) = QuadraticEnergy(Lower(document), x)
    BY DEF HamiltonianIsEnergy
  <2>1. Validated(document)
    BY DocumentAssumption DEF QaoaTypeOK, document
  <2>2. IsModel(Lower(document), Variables(document)) /\ x \in SUBSET Variables(document)
    BY <2>1, LoweredIsModel DEF Solutions
  <2> QED BY <2>2, ObservableIsEnergy
<1> QED BY <1>1, SearchTyped, PTL

(***************************************************************************)
(* The energy of a lowered problem.                                        *)
(***************************************************************************)
\* SumIncidence where every weight of one side is k.
Along(f, k, V, c, E, R) == \A v \in V : f[v] = k * SumOver(c, {e \in E : <<v, e>> \in R})

Across(g, k, V, c, E, R) == \A e \in E : g[e] = c[e] * (k * Cardinality({v \in V : <<v, e>> \in R}))

LEMMA SumCrossing ==
    ASSUME NEW V, NEW E, IsFiniteSet(V), IsFiniteSet(E), NEW R, NEW k \in Int,
           NEW c, \A e \in E : c[e] \in Int,
           NEW f, Along(f, k, V, c, E, R), NEW g, Across(g, k, V, c, E, R)
    PROVE  SumOver(f, V) = SumOver(g, E)
<1> DEFINE same == [v \in V |-> k]
<1>1. \A v \in V : same[v] = k /\ same[v] \in Int
  OBVIOUS
<1> HIDE DEF same
<1>2. Upward(f, same, V, c, E, R)
  BY <1>1 DEF Upward, Along
<1>3. Downward(g, same, V, c, E, R)
  <2> SUFFICES ASSUME NEW e \in E
               PROVE  g[e] = c[e] * SumOver(same, {v \in V : <<v, e>> \in R})
    BY DEF Downward
  <2>1. PICK S \in SUBSET V : S = {v \in V : <<v, e>> \in R}
    OBVIOUS
  <2>2. IsFiniteSet(S)
    BY FS_Subset
  <2>3. SumOver(same, S) = k * Cardinality(S)
    BY <1>1, <2>2, SumCounts
  <2>4. g[e] = c[e] * (k * Cardinality(S))
    BY <2>1 DEF Across
  <2> QED BY <2>1, <2>3, <2>4
<1> QED BY <1>1, <1>2, <1>3, SumIncidence

\* The members of a finite set that some part of it selects.
LEMMA SumWhere ==
    ASSUME NEW S, IsFiniteSet(S), NEW T \in SUBSET S, NEW g, \A x \in T : g[x] \in Int,
           NEW f, \A x \in S : f[x] = IF x \in T THEN g[x] ELSE 0
    PROVE  SumOver(f, S) = SumOver(g, T) /\ SumOver(g, T) \in Int
<1>1. \A x \in S : f[x] \in Int
  OBVIOUS
<1>2. SumOver(f, S) = SumOver(f, T)
  BY <1>1, SumSupport
<1>3. IsFiniteSet(T)
  BY FS_Subset
<1>4. \A x \in T : g[x] \in Int /\ f[x] = g[x]
  OBVIOUS
<1>5. SumOver(f, T) = SumOver(g, T)
  BY <1>3, <1>4, SumSame
<1>6. SumOver(g, T) \in Int
  BY <1>3, SumType
<1> QED BY <1>2, <1>5, <1>6

\* The energy of a cut model is the weight of the edges that are cut.
LEMMA CutEnergy ==
    ASSUME NEW V, IsFiniteSet(V), NEW w, Numbers(w), DOMAIN w \subseteq Pairs(V),
           NEW x \in SUBSET V
    PROVE  LET cut == {e \in DOMAIN w : Separated(e, x)}
           IN  /\ SumOver(w, cut) \in Int
               /\ QuadraticEnergy(CutModel(V, w), x) = 4 * SumOver(w, cut)
<1> DEFINE D == DOMAIN w
           b == CutModel(V, w)
           cut == {e \in D : Separated(e, x)}
           R == {p \in x \X D : p[1] \in p[2]}
           inner == [e \in D |-> IF e \in Pairs(x) THEN -8 * w[e] ELSE 0]
           ends == [e \in D |-> w[e] * (4 * Cardinality({v \in x : <<v, e>> \in R}))]
           all == [e \in D |-> IF e \in cut THEN 4 * w[e] ELSE 0]
           fourfold == [e \in cut |-> 4 * w[e]]
<1>1. IsFiniteSet(x) /\ IsFiniteSet(D) /\ IsFiniteSet(Pairs(x)) /\ cut \in SUBSET D
  BY FS_Subset, PairsFinite
<1>2. \A e \in D : w[e] \in Int
  BY DEF Numbers
<1>3. SumOver(b.linear, x) = SumOver(ends, D)
  <2>1. ASSUME NEW v \in x
        PROVE  b.linear[v] = 4 * SumOver(w, {e \in D : <<v, e>> \in R})
    <3>1. {e \in D : <<v, e>> \in R} = {e \in D : v \in e}
      OBVIOUS
    <3> QED BY <3>1 DEF CutModel, Unit
  <2>2. Along(b.linear, 4, x, w, D, R)
    BY <2>1 DEF Along
  <2>3. Across(ends, 4, x, w, D, R)
    <3>1. \A e \in D : ends[e] = w[e] * (4 * Cardinality({v \in x : <<v, e>> \in R}))
      OBVIOUS
    <3> HIDE DEF ends, R, D
    <3> QED BY <3>1 DEF Across
  <2> HIDE DEF b, ends, R, D
  <2> QED BY <1>1, <1>2, <2>2, <2>3, SumCrossing
<1>4. SumOver(b.quadratic, Pairs(x)) = SumOver(inner, D)
  <2>1. Pairs(x) \subseteq Pairs(V)
    BY PairsWithin
  <2>2. \A e \in Pairs(x) : b.quadratic[e] = IF e \in D THEN -8 * w[e] ELSE 0
    BY <2>1 DEF CutModel, Unit
  <2> DEFINE both == Pairs(x) \cap D
             part == [e \in both |-> -8 * w[e]]
  <2>3. \A e \in both : part[e] \in Int
    BY <1>2
  <2>4. \A e \in Pairs(x) : b.quadratic[e] = IF e \in both THEN part[e] ELSE 0
    BY <2>2
  <2>5. \A e \in D : inner[e] = IF e \in both THEN part[e] ELSE 0
    OBVIOUS
  <2>6. both \in SUBSET Pairs(x) /\ both \in SUBSET D
    OBVIOUS
  <2> HIDE DEF b, part, both, inner, D
  <2>7. SumOver(b.quadratic, Pairs(x)) = SumOver(part, both)
    BY <1>1, <2>3, <2>4, <2>6, SumWhere
  <2>8. SumOver(inner, D) = SumOver(part, both)
    BY <1>1, <2>3, <2>5, <2>6, SumWhere
  <2> QED BY <2>7, <2>8
<1>5. ASSUME NEW e \in D
      PROVE  /\ ends[e] \in Int /\ inner[e] \in Int
             /\ all[e] = ends[e] + inner[e]
  <2>1. PICK u \in V, t \in V : u # t /\ e = {u, t}
    BY PairsAre
  <2>2. e \in Pairs(x) <=> u \in x /\ t \in x
    BY <2>1, PairsWithin
  <2>3. e \in cut <=> (u \in x /\ t \notin x) \/ (t \in x /\ u \notin x)
    BY <2>1 DEF Separated
  <2>4. {v \in x : <<v, e>> \in R} = x \cap {u, t}
    BY <2>1
  <2> DEFINE n == Cardinality({v \in x : <<v, e>> \in R})
  <2>5. CASE u \in x /\ t \in x
    <3>1. x \cap {u, t} = {u} \cup {t}
      BY <2>5
    <3>2. Cardinality({u} \cup {t}) = 2
      BY <2>1, CardinalityOfTwo
    <3>3. n = 2
      BY <2>4, <3>1, <3>2
    <3> HIDE DEF n
    <3>4. ends[e] = w[e] * (4 * n)
      BY DEF n
    <3> QED BY <1>2, <2>2, <2>3, <2>5, <3>3, <3>4
  <2>6. CASE u \notin x /\ t \notin x
    <3>1. x \cap {u, t} = {}
      BY <2>6
    <3>2. n = 0
      BY <2>4, <3>1, FS_EmptySet
    <3> HIDE DEF n
    <3>3. ends[e] = w[e] * (4 * n)
      BY DEF n
    <3> QED BY <1>2, <2>2, <2>3, <2>6, <3>2, <3>3
  <2>7. CASE (u \in x /\ t \notin x) \/ (t \in x /\ u \notin x)
    <3>1. x \cap {u, t} = {u} \/ x \cap {u, t} = {t}
      BY <2>7
    <3>2. n = 1
      BY <2>4, <3>1, FS_Singleton
    <3> HIDE DEF n
    <3>3. ends[e] = w[e] * (4 * n)
      BY DEF n
    <3> QED BY <1>2, <2>2, <2>3, <2>7, <3>2, <3>3
  <2> QED BY <2>5, <2>6, <2>7
<1>6. SumOver(all, D) = SumOver(ends, D) + SumOver(inner, D)
  <2> HIDE DEF all, ends, inner, D
  <2> QED BY <1>1, <1>5, SumPlus
<1>7. SumOver(all, D) = SumOver(fourfold, cut)
  <2>1. \A e \in cut : fourfold[e] \in Int
    BY <1>2
  <2>2. \A e \in D : all[e] = IF e \in cut THEN fourfold[e] ELSE 0
    OBVIOUS
  <2> HIDE DEF all, fourfold, D, cut
  <2> QED BY <1>1, <2>1, <2>2, SumWhere
<1>8. SumOver(fourfold, cut) = 4 * SumOver(w, cut) /\ SumOver(w, cut) \in Int
  <2>1. \A e \in cut : w[e] \in Int /\ fourfold[e] = 4 * w[e]
    BY <1>2
  <2>2. IsFiniteSet(cut)
    BY <1>1, FS_Subset
  <2> HIDE DEF fourfold, cut
  <2> QED BY <2>1, <2>2, SumTimes, SumType
<1>9. /\ SumOver(b.linear, x) \in Int /\ SumOver(b.quadratic, Pairs(x)) \in Int
      /\ QuadraticEnergy(b, x) = SumOver(b.linear, x) + SumOver(b.quadratic, Pairs(x))
  <2>1. SumOver(ends, D) \in Int /\ SumOver(inner, D) \in Int
    <3> HIDE DEF ends, inner, D
    <3> QED BY <1>1, <1>5, SumType
  <2>2. b.offset = 0
    BY DEF CutModel
  <2> HIDE DEF b, ends, inner
  <2>3. QuadraticEnergy(b, x) = 0 + SumOver(b.linear, x) + SumOver(b.quadratic, Pairs(x))
    BY <2>2 DEF QuadraticEnergy
  <2> QED BY <1>3, <1>4, <2>1, <2>3
<1> HIDE DEF b, ends, inner, all, fourfold
<1>10. QuadraticEnergy(b, x) = 4 * SumOver(w, cut) /\ SumOver(w, cut) \in Int
  BY <1>3, <1>4, <1>6, <1>7, <1>8, <1>9
<1> QED BY <1>10 DEF b

\* The energy of a score model is the score of the variables and of the pairs
\* that are chosen.
Single(score, x) == SumOver(score, x \cap DOMAIN score)
Joint(interaction, x) == SumOver(interaction, {e \in DOMAIN interaction : e \subseteq x})

LEMMA ScoreEnergy ==
    ASSUME NEW V, IsFiniteSet(V), NEW score, Numbers(score), NEW interaction, Numbers(interaction),
           DOMAIN interaction \subseteq Pairs(V), NEW x \in SUBSET V
    PROVE  /\ Single(score, x) \in Int /\ Joint(interaction, x) \in Int
           /\ QuadraticEnergy(ScoreModel(V, score, interaction), x)
                = 4 * (Single(score, x) + Joint(interaction, x))
<1> DEFINE b == ScoreModel(V, score, interaction)
           on == x \cap DOMAIN score
           within == {e \in DOMAIN interaction : e \subseteq x}
           singles == [v \in on |-> 4 * score[v]]
           joints == [e \in within |-> 4 * interaction[e]]
<1>1. IsFiniteSet(x) /\ IsFiniteSet(Pairs(x)) /\ on \in SUBSET x /\ IsFiniteSet(on)
  BY FS_Subset, PairsFinite
<1>2. within \in SUBSET Pairs(x) /\ IsFiniteSet(within) /\ within = Pairs(x) \cap DOMAIN interaction
  <2>1. within = Pairs(x) \cap DOMAIN interaction
    BY PairsWithin
  <2> HIDE DEF within
  <2> QED BY <1>1, <2>1, FS_Subset
<1>3. /\ \A v \in on : score[v] \in Int /\ singles[v] \in Int /\ singles[v] = 4 * score[v]
      /\ \A e \in within : /\ interaction[e] \in Int /\ joints[e] \in Int
                           /\ joints[e] = 4 * interaction[e]
  BY DEF Numbers
<1>4. \A v \in x : b.linear[v] = IF v \in on THEN singles[v] ELSE 0
  BY DEF ScoreModel, Unit
<1>5. \A e \in Pairs(x) : b.quadratic[e] = IF e \in within THEN joints[e] ELSE 0
  <2>1. Pairs(x) \subseteq Pairs(V)
    BY PairsWithin
  <2>2. \A e \in Pairs(x) : b.quadratic[e] = IF e \in DOMAIN interaction THEN 4 * interaction[e] ELSE 0
    BY <2>1 DEF ScoreModel, Unit
  <2> HIDE DEF b, within
  <2> QED BY <1>2, <2>2
<1>6. b.offset = 0
  BY DEF ScoreModel
<1> HIDE DEF b, on, within, singles, joints
<1>7. SumOver(b.linear, x) = SumOver(singles, on)
  BY <1>1, <1>3, <1>4, SumWhere
<1>8. SumOver(b.quadratic, Pairs(x)) = SumOver(joints, within)
  BY <1>1, <1>2, <1>3, <1>5, SumWhere
<1>9. SumOver(singles, on) = 4 * SumOver(score, on) /\ SumOver(score, on) \in Int
  BY <1>1, <1>3, SumTimes, SumType
<1>10. SumOver(joints, within) = 4 * SumOver(interaction, within) /\ SumOver(interaction, within) \in Int
  <2>1. \A e \in within : interaction[e] \in Int /\ joints[e] = 4 * interaction[e]
    BY <1>3
  <2>2. SumOver(interaction, within) \in Int
    BY <1>2, <2>1, SumType
  <2>3. SumOver(joints, within) = 4 * SumOver(interaction, within)
    BY <1>2, <2>1, SumTimes
  <2> QED BY <2>2, <2>3
<1>11. QuadraticEnergy(b, x) = 0 + SumOver(b.linear, x) + SumOver(b.quadratic, Pairs(x))
  BY <1>6 DEF QuadraticEnergy
<1>12. QuadraticEnergy(b, x) = 4 * (SumOver(score, on) + SumOver(interaction, within))
  BY <1>7, <1>8, <1>9, <1>10, <1>11
<1>13. SumOver(score, on) = Single(score, x) /\ SumOver(interaction, within) = Joint(interaction, x)
  BY DEF on, within, Single, Joint
<1> QED BY <1>9, <1>10, <1>12, <1>13 DEF b

\* Two of n members, in n * (n - 1) orders.
LEMMA PairsCount ==
    ASSUME NEW S, IsFiniteSet(S)
    PROVE  /\ Cardinality(S) \in Int /\ Cardinality(Pairs(S)) \in Int
           /\ 2 * Cardinality(Pairs(S)) = Cardinality(S) * (Cardinality(S) - 1)
<1> DEFINE Good == {A \in SUBSET S : 2 * Cardinality(Pairs(A)) = Cardinality(A) * (Cardinality(A) - 1)}
<1>1. ASSUME NEW A \in SUBSET S, \A x \in A : A \ {x} \in Good
      PROVE  A \in Good
  <2>1. CASE A = {}
    <3>1. Pairs(A) = {}
      BY <2>1, PairsAre
    <3>2. Cardinality(A) = 0 /\ Cardinality(Pairs(A)) = 0
      BY <2>1, <3>1, FS_EmptySet
    <3> QED BY <3>2
  <2>2. ASSUME NEW x \in A PROVE A \in Good
    <3> DEFINE B == A \ {x}
               m == [y \in B |-> {x, y}]
               N == {m[y] : y \in B}
    <3>1. IsFiniteSet(A) /\ IsFiniteSet(B) /\ Cardinality(B) = Cardinality(A) - 1
      BY FS_Subset, FS_RemoveElement
    <3>2. Cardinality(A) \in Int /\ Cardinality(B) \in Int
      BY <3>1, FS_CardinalityType
    <3>3. Pairs(A) = Pairs(B) \cup N /\ Pairs(B) \cap N = {}
      <4>1. ASSUME NEW e \in Pairs(A) PROVE e \in Pairs(B) \cup N
        <5>1. PICK u \in A, w \in A : u # w /\ e = {u, w}
          BY PairsAre
        <5>2. CASE u = x
          <6>1. w \in B /\ e = m[w]
            BY <5>1, <5>2
          <6> QED BY <6>1
        <5>3. CASE w = x
          <6>1. u \in B /\ e = m[u]
            BY <5>1, <5>3
          <6> QED BY <6>1
        <5>4. CASE u # x /\ w # x
          <6>1. u \in B /\ w \in B
            BY <5>4
          <6> QED BY <5>1, <6>1, PairsAre
        <5> QED BY <5>2, <5>3, <5>4
      <4>2. ASSUME NEW e \in N PROVE e \in Pairs(A) /\ e \notin Pairs(B)
        <5>1. PICK y \in B : e = {x, y}
          OBVIOUS
        <5>2. x \in A /\ y \in A /\ x # y
          OBVIOUS
        <5>3. e \in Pairs(A)
          BY <5>1, <5>2, PairsAre
        <5>4. e \notin Pairs(B)
          BY <5>1, PairsAre
        <5> QED BY <5>3, <5>4
      <4>3. Pairs(B) \subseteq Pairs(A)
        BY PairsAre
      <4> QED BY <4>1, <4>2, <4>3
    <3>4. IsFiniteSet(N) /\ Cardinality(N) = Cardinality(B)
      <4>1. m \in Bijection(B, N)
        <5>1. m \in [B -> N] /\ \A n \in N : \E y \in B : m[y] = n
          OBVIOUS
        <5>2. \A y, z \in B : m[y] = m[z] => y = z
          OBVIOUS
        <5> HIDE DEF m, N, B
        <5>3. m \in Injection(B, N)
          BY <5>1, <5>2 DEF Injection, IsInjective
        <5>4. m \in Surjection(B, N)
          BY <5>1 DEF Surjection
        <5> QED BY <5>3, <5>4 DEF Bijection
      <4> HIDE DEF m, N, B
      <4> QED BY <3>1, <4>1, FS_Bijection DEF ExistsBijection
    <3>5. IsFiniteSet(Pairs(B)) /\ Cardinality(Pairs(B)) \in Int
      BY <3>1, PairsFinite, FS_CardinalityType
    <3>6. Cardinality(Pairs(A)) = Cardinality(Pairs(B)) + Cardinality(B)
      <4>1. Cardinality(Pairs(B) \cup N)
              = Cardinality(Pairs(B)) + Cardinality(N) - Cardinality(Pairs(B) \cap N)
        <5> HIDE DEF N, B
        <5> QED BY <3>4, <3>5, FS_Union
      <4>2. Cardinality(Pairs(B) \cap N) = 0
        BY <3>3, FS_EmptySet
      <4> HIDE DEF N, B
      <4> QED BY <3>2, <3>3, <3>4, <3>5, <4>1, <4>2
    <3>7. 2 * Cardinality(Pairs(B)) = Cardinality(B) * (Cardinality(B) - 1)
      BY <1>1
    <3>8. \A a, p \in Int : 2 * p = (a - 1) * (a - 1 - 1) => 2 * (p + (a - 1)) = a * (a - 1)
      OBVIOUS
    <3> HIDE DEF B
    <3>9. 2 * Cardinality(Pairs(A)) = Cardinality(A) * (Cardinality(A) - 1)
      BY <3>1, <3>2, <3>5, <3>6, <3>7, <3>8
    <3> QED BY <3>9
  <2> QED BY <2>1, <2>2
<1>2. S \in Good
  <2> HIDE DEF Good
  <2> QED BY <1>1, SetInduction
<1>3. IsFiniteSet(Pairs(S))
  BY PairsFinite
<1> QED BY <1>2, <1>3, FS_CardinalityType

\* The square of what a group has too many, or too few.
Squares(excess, target, x) ==
    \A g \in DOMAIN target :
        excess[g] = (Cardinality(x \cap g) - target[g]) * (Cardinality(x \cap g) - target[g])

\* What the squared constraints add to an energy.
LEMMA SquaredEnergy ==
    ASSUME NEW b, NEW V, IsModel(b, V), NEW force \in Int, NEW target, Numbers(target),
           IsFiniteSet(DOMAIN target), NEW x \in SUBSET V,
           NEW excess, Squares(excess, target, x)
    PROVE  /\ SumOver(excess, DOMAIN target) \in Int /\ QuadraticEnergy(b, x) \in Int
           /\ QuadraticEnergy(AddSquaredConstraints(b, force, target), x)
                = QuadraticEnergy(b, x) + force * SumOver(excess, DOMAIN target)
<1> DEFINE G == DOMAIN target
           P == Pairs(x)
           c == AddSquaredConstraints(b, force, target)
           share == [g \in G |-> 1 - 2 * target[g]]
           square == [g \in G |-> target[g] * target[g]]
           one == [g \in G |-> 1]
           R == {p \in x \X G : p[1] \in p[2]}
           Q == {p \in P \X G : p[1] \subseteq p[2]}
           singles == [v \in x |-> force * SumOver(share, {g \in G : <<v, g>> \in R})]
           doubles == [e \in P |-> (2 * force) * SumOver(one, {g \in G : <<e, g>> \in Q})]
           first == [g \in G |-> share[g] * (force * Cardinality({v \in x : <<v, g>> \in R}))]
           second == [g \in G |-> one[g] * ((2 * force) * Cardinality({e \in P : <<e, g>> \in Q}))]
           third == [g \in G |-> force * square[g]]
           upper == [g \in G |-> first[g] + second[g]]
           all == [g \in G |-> upper[g] + third[g]]
<1>1. /\ IsFiniteSet(x) /\ IsFiniteSet(P) /\ IsFiniteSet(G) /\ b.offset \in Int /\ P \subseteq Pairs(V)
      /\ \A v \in x : b.linear[v] \in Int
      /\ \A e \in P : b.quadratic[e] \in Int
  BY FS_Subset, PairsFinite, PairsWithin DEF IsModel
<1>2. \A g \in G : /\ target[g] \in Int /\ share[g] \in Int /\ square[g] \in Int /\ one[g] \in Int
                   /\ share[g] = 1 - 2 * target[g] /\ square[g] = target[g] * target[g] /\ one[g] = 1
  BY DEF Numbers
<1>3. \A v \in x : SumOver(share, {g \in G : <<v, g>> \in R}) \in Int
  <2>1. \A T \in SUBSET G : SumOver(share, T) \in Int
    <3> HIDE DEF share
    <3> QED BY <1>1, <1>2, SumParts
  <2> QED BY <2>1
<1>4. \A e \in P : /\ SumOver(one, {g \in G : <<e, g>> \in Q}) \in Int
                   /\ SumOver(one, {g \in G : <<e, g>> \in Q}) = Cardinality({g \in G : e \subseteq g})
  <2> SUFFICES ASSUME NEW e \in P
               PROVE  /\ SumOver(one, {g \in G : <<e, g>> \in Q}) \in Int
                      /\ SumOver(one, {g \in G : <<e, g>> \in Q}) = Cardinality({g \in G : e \subseteq g})
    OBVIOUS
  <2>1. {g \in G : <<e, g>> \in Q} = {g \in G : e \subseteq g}
    OBVIOUS
  <2>2. PICK T \in SUBSET G : T = {g \in G : e \subseteq g}
    OBVIOUS
  <2>3. IsFiniteSet(T) /\ Cardinality(T) \in Int
    BY <1>1, FS_Subset, FS_CardinalityType
  <2>4. SumOver(one, T) = 1 * Cardinality(T)
    <3>1. \A g \in T : one[g] = 1
      OBVIOUS
    <3> HIDE DEF one
    <3> QED BY <2>3, <3>1, SumCounts
  <2>5. SumOver(one, T) = Cardinality(T) /\ SumOver(one, T) \in Int
    BY <2>3, <2>4
  <2> HIDE DEF one, Q, G, P
  <2>6. SumOver(one, {g \in G : <<e, g>> \in Q}) = SumOver(one, T)
    BY <2>1, <2>2, Zenon
  <2>7. Cardinality(T) = Cardinality({g \in G : e \subseteq g})
    BY <2>2, Zenon
  <2> QED BY <2>5, <2>6, <2>7, Zenon
<1>5. /\ \A v \in x : singles[v] \in Int /\ c.linear[v] = b.linear[v] + singles[v]
      /\ \A e \in P : doubles[e] \in Int /\ c.quadratic[e] = b.quadratic[e] + doubles[e]
      /\ c.offset = b.offset + force * SumOver(square, G)
  <2>1. ASSUME NEW v \in x
        PROVE  singles[v] \in Int /\ c.linear[v] = b.linear[v] + singles[v]
    <3>1. {g \in G : <<v, g>> \in R} = {g \in G : v \in g}
      OBVIOUS
    <3>2. c.linear[v] = b.linear[v] + force * SumOver(share, {g \in G : v \in g})
      BY DEF AddSquaredConstraints, IsModel
    <3>3. singles[v] = force * SumOver(share, {g \in G : <<v, g>> \in R})
      OBVIOUS
    <3>4. PICK s \in Int : s = SumOver(share, {g \in G : <<v, g>> \in R})
      BY <1>3
    <3> HIDE DEF singles, c, share, R, G
    <3>5. SumOver(share, {g \in G : v \in g}) = s
      BY <3>1, <3>4, Zenon
    <3>6. singles[v] = force * s /\ c.linear[v] = b.linear[v] + force * s
      BY <3>2, <3>3, <3>4, <3>5, Zenon
    <3> QED BY <3>6
  <2>2. ASSUME NEW e \in P
        PROVE  doubles[e] \in Int /\ c.quadratic[e] = b.quadratic[e] + doubles[e]
    <3>1. c.quadratic[e] = b.quadratic[e] + 2 * force * Cardinality({g \in G : e \subseteq g})
      BY <1>1 DEF AddSquaredConstraints, IsModel
    <3>2. doubles[e] = (2 * force) * SumOver(one, {g \in G : <<e, g>> \in Q})
      OBVIOUS
    <3>3. SumOver(one, {g \in G : <<e, g>> \in Q}) \in Int
      BY <1>4
    <3>4. SumOver(one, {g \in G : <<e, g>> \in Q}) = Cardinality({g \in G : e \subseteq g})
      BY <1>4
    <3> HIDE DEF doubles, c, one, Q, G
    <3> QED BY <3>1, <3>2, <3>3, <3>4
  <2>3. c.offset = b.offset + force * SumOver(square, G)
    BY DEF AddSquaredConstraints, Total
  <2> QED BY <2>1, <2>2, <2>3
<1>6. SumOver(singles, x) = SumOver(first, G)
  <2>1. Along(singles, force, x, share, G, R)
    <3>1. \A v \in x : singles[v] = force * SumOver(share, {g \in G : <<v, g>> \in R})
      OBVIOUS
    <3> HIDE DEF singles, share, G, R
    <3> QED BY <3>1 DEF Along
  <2>2. Across(first, force, x, share, G, R)
    <3>1. \A g \in G : first[g] = share[g] * (force * Cardinality({v \in x : <<v, g>> \in R}))
      OBVIOUS
    <3> HIDE DEF first, share, G, R
    <3> QED BY <3>1 DEF Across
  <2> HIDE DEF singles, share, first, G, R
  <2> QED BY <1>1, <1>2, <2>1, <2>2, SumCrossing
<1>7. SumOver(doubles, P) = SumOver(second, G)
  <2>1. Along(doubles, 2 * force, P, one, G, Q)
    <3>1. \A e \in P : doubles[e] = (2 * force) * SumOver(one, {g \in G : <<e, g>> \in Q})
      OBVIOUS
    <3> HIDE DEF doubles, one, G, Q, P
    <3> QED BY <3>1 DEF Along
  <2>2. Across(second, 2 * force, P, one, G, Q)
    <3>1. \A g \in G : second[g] = one[g] * ((2 * force) * Cardinality({e \in P : <<e, g>> \in Q}))
      OBVIOUS
    <3> HIDE DEF second, one, G, Q, P
    <3> QED BY <3>1 DEF Across
  <2>3. PICK k \in Int : k = 2 * force
    OBVIOUS
  <2> HIDE DEF doubles, one, second, G, Q, P
  <2>4. Along(doubles, k, P, one, G, Q) /\ Across(second, k, P, one, G, Q)
    BY <2>1, <2>2, <2>3
  <2> QED BY <1>1, <1>2, <2>4, SumCrossing
<1>8. ASSUME NEW g \in G
      PROVE  /\ first[g] \in Int /\ second[g] \in Int /\ third[g] \in Int /\ upper[g] \in Int
             /\ upper[g] = first[g] + second[g] /\ all[g] = upper[g] + third[g]
             /\ excess[g] \in Int /\ all[g] = force * excess[g] /\ third[g] = force * square[g]
  <2> DEFINE s == x \cap g
             n == Cardinality(s)
             t == target[g]
             q == Cardinality(Pairs(s))
  <2>1. {v \in x : <<v, g>> \in R} = s
    OBVIOUS
  <2>2. {e \in P : <<e, g>> \in Q} = Pairs(s)
    <3>1. {e \in P : <<e, g>> \in Q} = {e \in P : e \subseteq g}
      OBVIOUS
    <3>2. Pairs(s) = {e \in P : e \subseteq s}
      BY PairsWithin
    <3>3. \A e \in P : e \subseteq x
      BY PairsAre
    <3> QED BY <3>1, <3>2, <3>3
  <2>3. n \in Int /\ q \in Int /\ 2 * q = n * (n - 1) /\ t \in Int
    <3>1. IsFiniteSet(s)
      BY <1>1, FS_Subset
    <3> QED BY <1>2, <3>1, PairsCount
  <2>4. /\ first[g] = (1 - 2 * t) * (force * n) /\ second[g] = 1 * ((2 * force) * q)
        /\ third[g] = force * (t * t)
        /\ upper[g] = first[g] + second[g] /\ all[g] = upper[g] + third[g]
    <3>1. /\ first[g] = share[g] * (force * Cardinality({v \in x : <<v, g>> \in R}))
          /\ second[g] = one[g] * ((2 * force) * Cardinality({e \in P : <<e, g>> \in Q}))
          /\ third[g] = force * square[g]
          /\ upper[g] = first[g] + second[g] /\ all[g] = upper[g] + third[g]
      OBVIOUS
    <3> HIDE DEF first, second, third, upper, all, share, one, square, R, Q, G, P
    <3> QED BY <1>2, <2>1, <2>2, <3>1
  <2>5. excess[g] = (n - t) * (n - t)
    BY DEF Squares
  <2>6. third[g] = force * square[g]
    OBVIOUS
  <2> HIDE DEF first, second, third, upper, all, share, one, square, R, Q, G, P, s, n, t, q
  <2>7. \A f, a, d, m \in Int : 2 * m = a * (a - 1) =>
           (1 - 2 * d) * (f * a) + 1 * ((2 * f) * m) + f * (d * d) = f * ((a - d) * (a - d))
    <3> TAKE f \in Int, a \in Int, d \in Int, m \in Int
    <3> HAVE 2 * m = a * (a - 1)
    <3>1. 1 * ((2 * f) * m) = f * (2 * m)
      OBVIOUS
    <3>2. 1 * ((2 * f) * m) = f * (a * (a - 1))
      BY <3>1
    <3>3. (1 - 2 * d) * (f * a) + f * (a * (a - 1)) + f * (d * d) = f * ((a - d) * (a - d))
      OBVIOUS
    <3> QED BY <3>2, <3>3
  <2>8. /\ (1 - 2 * t) * (force * n) \in Int /\ 1 * ((2 * force) * q) \in Int /\ force * (t * t) \in Int
        /\ (n - t) * (n - t) \in Int
    BY <2>3
  <2>9. (1 - 2 * t) * (force * n) + 1 * ((2 * force) * q) + force * (t * t) = force * ((n - t) * (n - t))
    BY <2>3, <2>7
  <2>10. first[g] \in Int /\ second[g] \in Int /\ third[g] \in Int /\ excess[g] \in Int
    BY <2>4, <2>5, <2>8
  <2>11. all[g] = force * excess[g]
    BY <2>4, <2>5, <2>9
  <2> QED BY <2>4, <2>6, <2>10, <2>11
<1>9. SumOver(upper, G) = SumOver(first, G) + SumOver(second, G)
  <2>1. \A g \in G : first[g] \in Int /\ second[g] \in Int /\ upper[g] = first[g] + second[g]
    BY <1>8
  <2> HIDE DEF upper, first, second, G
  <2> QED BY <1>1, <2>1, SumPlus
<1>10. SumOver(all, G) = SumOver(upper, G) + SumOver(third, G)
  <2>1. \A g \in G : upper[g] \in Int /\ third[g] \in Int /\ all[g] = upper[g] + third[g]
    BY <1>8
  <2> HIDE DEF upper, third, all, G
  <2> QED BY <1>1, <2>1, SumPlus
<1>11. SumOver(all, G) = force * SumOver(excess, G) /\ SumOver(excess, G) \in Int
  <2>1. \A g \in G : excess[g] \in Int /\ all[g] = force * excess[g]
    BY <1>8
  <2> HIDE DEF all, G
  <2>2. SumOver(all, G) = force * SumOver(excess, G)
    BY <1>1, <2>1, SumTimes
  <2>3. SumOver(excess, G) \in Int
    BY <1>1, <2>1, SumType
  <2> QED BY <2>2, <2>3
<1>12. SumOver(third, G) = force * SumOver(square, G)
  <2>1. \A g \in G : square[g] \in Int /\ third[g] = force * square[g]
    BY <1>2, <1>8
  <2> HIDE DEF third, square, G
  <2> QED BY <1>1, <2>1, SumTimes
<1>13. SumOver(c.linear, x) = SumOver(b.linear, x) + SumOver(singles, x)
  <2> HIDE DEF c, singles
  <2> QED BY <1>1, <1>5, SumPlus
<1>14. SumOver(c.quadratic, P) = SumOver(b.quadratic, P) + SumOver(doubles, P)
  <2> HIDE DEF c, doubles, P
  <2> QED BY <1>1, <1>5, SumPlus
<1>15. /\ SumOver(b.linear, x) \in Int /\ SumOver(b.quadratic, P) \in Int
       /\ SumOver(first, G) \in Int /\ SumOver(second, G) \in Int /\ SumOver(third, G) \in Int
  <2>1. SumOver(b.linear, x) \in Int /\ SumOver(b.quadratic, P) \in Int
    BY <1>1, SumType
  <2> HIDE DEF first, second, third, G
  <2> QED BY <1>1, <1>8, <2>1, SumType
<1>16. /\ QuadraticEnergy(b, x) = b.offset + SumOver(b.linear, x) + SumOver(b.quadratic, P)
       /\ QuadraticEnergy(c, x) = c.offset + SumOver(c.linear, x) + SumOver(c.quadratic, P)
  BY DEF QuadraticEnergy
<1> HIDE DEF c, first, second, third, upper, all, singles, doubles, square, G, P
<1>17. QuadraticEnergy(b, x) \in Int
  BY <1>1, <1>15, <1>16
<1>18. QuadraticEnergy(c, x) = QuadraticEnergy(b, x) + SumOver(all, G)
  BY <1>1, <1>5, <1>6, <1>7, <1>9, <1>10, <1>12, <1>13, <1>14, <1>15, <1>16
<1>19. QuadraticEnergy(c, x) = QuadraticEnergy(b, x) + force * SumOver(excess, G)
  BY <1>11, <1>18
<1> QED BY <1>11, <1>17, <1>19 DEF c, G

\* A finite solution of a family with pairs for variables.
Placed(x, A, B) == x \in SUBSET (A \X B) /\ IsFiniteSet(x)

\* A row of a solution, and its group.
LEMMA RowIs ==
    ASSUME NEW A, NEW B, NEW x, Placed(x, A, B), NEW a \in A
    PROVE  /\ IsFiniteSet(Row(x, a)) /\ Cardinality(Row(x, a)) \in Nat
           /\ Cardinality(x \cap ({a} \X B)) = Cardinality(Row(x, a))
           /\ \A b : b \in Row(x, a) <=> <<a, b>> \in x
           /\ Row(x, a) \subseteq B
<1> DEFINE S == x \cap ({a} \X B)
           T == Row(x, a)
           m == [v \in S |-> v[2]]
<1>1. \A v \in x : v[1] \in A /\ v[2] \in B /\ v = <<v[1], v[2]>>
  BY DEF Placed
<1>2. \A b : b \in T <=> <<a, b>> \in x
  <2> TAKE b
  <2>1. ASSUME b \in T PROVE <<a, b>> \in x
    <3>1. PICK v \in x : v[1] = a /\ b = v[2]
      BY <2>1 DEF Row
    <3>2. v = <<a, b>>
      BY <1>1, <3>1
    <3> QED BY <3>2
  <2>2. ASSUME <<a, b>> \in x PROVE b \in T
    <3>1. <<a, b>> \in {w \in x : w[1] = a}
      BY <2>2
    <3> QED BY <3>1 DEF Row
  <2> QED BY <2>1, <2>2
<1>3. \A v : v \in S <=> v \in x /\ v[1] = a
  BY <1>1
<1>4. IsFiniteSet(S)
  BY FS_Subset DEF Placed
<1>5. m \in Bijection(S, T)
  <2>1. \A v \in S : m[v] = v[2] /\ v[2] \in T /\ v = <<a, v[2]>>
    BY <1>1, <1>2, <1>3
  <2>2. \A b \in T : <<a, b>> \in S
    BY <1>2, <1>3
  <2>3. \A b \in T : m[<<a, b>>] = b
    BY <2>2
  <2>4. m \in [S -> T]
    BY <2>1
  <2> HIDE DEF S, T, m
  <2>5. m \in Injection(S, T)
    <3>1. \A v, w \in S : m[v] = m[w] => v = w
      BY <2>1
    <3> QED BY <2>4, <3>1 DEF Injection, IsInjective
  <2>6. m \in Surjection(S, T)
    BY <2>2, <2>3, <2>4 DEF Surjection
  <2> QED BY <2>5, <2>6 DEF Bijection
<1>6. IsFiniteSet(T) /\ Cardinality(T) = Cardinality(S)
  <2> HIDE DEF S, T, m
  <2> QED BY <1>4, <1>5, FS_Bijection DEF ExistsBijection
<1>7. Cardinality(T) \in Nat
  BY <1>6, FS_CardinalityType
<1>8. T \subseteq B
  <2>1. \A b \in T : <<a, b>> \in x /\ <<a, b>>[2] = b
    BY <1>2
  <2> HIDE DEF T
  <2> QED BY <1>1, <2>1
<1> QED BY <1>2, <1>6, <1>7, <1>8

LEMMA RowFinite ==
    ASSUME NEW A, NEW B, NEW x, Placed(x, A, B), NEW a \in A
    PROVE  IsFiniteSet(Row(x, a)) /\ Cardinality(Row(x, a)) \in Int /\ Cardinality(Row(x, a)) >= 0
<1>1. Cardinality(Row(x, a)) \in Nat
  BY RowIs
<1>2. IsFiniteSet(Row(x, a))
  BY RowIs
<1> QED BY <1>1, <1>2

LEMMA RowMembers ==
    ASSUME NEW A, NEW B, NEW x, Placed(x, A, B), NEW a \in A
    PROVE  (\A b : b \in Row(x, a) <=> <<a, b>> \in x) /\ Row(x, a) \subseteq B
  BY RowIs

\* The square of what every row has too many, or too few.
Gaps(x, A, need) ==
    [a \in A |-> (Cardinality(Row(x, a)) - need[a]) * (Cardinality(Row(x, a)) - need[a])]

LEMMA GapsAre ==
    ASSUME NEW A, NEW B, IsFiniteSet(A), NEW x, Placed(x, A, B),
           NEW need, \A a \in A : need[a] \in Int
    PROVE  /\ \A a \in A : Gaps(x, A, need)[a] \in Int
           /\ SumOver(Gaps(x, A, need), A) \in Int
<1>1. \A a \in A : Gaps(x, A, need)[a] \in Int
  <2> TAKE a \in A
  <2>0. Cardinality(Row(x, a)) \in Int
    BY RowFinite
  <2>1. PICK n \in Int : n = Cardinality(Row(x, a)) - need[a]
    BY <2>0
  <2>2. Gaps(x, A, need)[a] = n * n
    BY <2>1 DEF Gaps
  <2> QED BY <2>2
<1> QED BY <1>1, SumType

\* The groups' targets are what the rows need.
Needed(target, need, A, B) ==
    /\ Numbers(target) /\ DOMAIN target = Groups(A, B)
    /\ \A a \in A : need[a] \in Int /\ target[{a} \X B] = need[a]

\* The squared constraints of the groups add the square of each row's gap.
LEMMA GroupedEnergy ==
    ASSUME NEW A, NEW B, IsFiniteSet(A), B # {},
           NEW target, NEW need, Needed(target, need, A, B), NEW x, Placed(x, A, B),
           NEW b, NEW V, IsModel(b, V), x \in SUBSET V, NEW force \in Int
    PROVE  /\ QuadraticEnergy(b, x) \in Int
           /\ QuadraticEnergy(AddSquaredConstraints(b, force, target), x)
                = QuadraticEnergy(b, x) + force * SumOver(Gaps(x, A, need), A)
<1> DEFINE G == Groups(A, B)
           m == [a \in A |-> {a} \X B]
           excess == [g \in G |-> (Cardinality(x \cap g) - target[g]) * (Cardinality(x \cap g) - target[g])]
           gaps == Gaps(x, A, need)
<1>0. /\ Numbers(target) /\ DOMAIN target = Groups(A, B)
      /\ \A a \in A : need[a] \in Int /\ target[{a} \X B] = need[a]
  BY DEF Needed
<1>1. IsFiniteSet(G) /\ IsFiniteSet(DOMAIN target) /\ DOMAIN target = G
  BY <1>0, GroupsFinite
<1>2. Squares(excess, target, x)
  BY <1>0 DEF Squares
<1>3. G = {m[a] : a \in A}
  BY DEF Groups
<1>4. \A a, c \in A : m[a] = m[c] => a = c
  <2> TAKE a \in A, c \in A
  <2>1. PICK b0 \in B : <<a, b0>> \in {a} \X B
    OBVIOUS
  <2> QED BY <2>1
<1>5. \A a \in A : excess[m[a]] \in Int /\ gaps[a] = excess[m[a]]
  <2> TAKE a \in A
  <2>1. m[a] \in G /\ m[a] = {a} \X B
    BY <1>3
  <2>2. Cardinality(x \cap m[a]) = Cardinality(Row(x, a)) /\ target[m[a]] = need[a]
    BY <1>0, <1>1, <2>1, RowIs
  <2>3. excess[m[a]] = (Cardinality(x \cap m[a]) - target[m[a]]) * (Cardinality(x \cap m[a]) - target[m[a]])
    BY <2>1
  <2>4. gaps[a] = (Cardinality(Row(x, a)) - need[a]) * (Cardinality(Row(x, a)) - need[a])
    BY DEF Gaps
  <2>5. gaps[a] \in Int
    BY <1>0, <1>1, GapsAre
  <2> HIDE DEF m, excess, gaps, G
  <2> QED BY <2>2, <2>3, <2>4, <2>5
<1>6. SumOver(excess, G) = SumOver(gaps, A)
  <2> HIDE DEF m, excess, gaps, G
  <2>1. OneToOne(m, A, G)
    BY <1>3, <1>4 DEF OneToOne
  <2>2. Reindexed(gaps, excess, m, A)
    BY <1>5 DEF Reindexed
  <2> QED BY <2>1, <2>2, SumReindexed
<1> HIDE DEF excess, gaps, G
<1>7. /\ QuadraticEnergy(b, x) \in Int
      /\ QuadraticEnergy(AddSquaredConstraints(b, force, target), x)
           = QuadraticEnergy(b, x) + force * SumOver(excess, DOMAIN target)
  <2>1. Numbers(target) /\ IsFiniteSet(DOMAIN target)
    BY <1>0, <1>1
  <2> HIDE DEF m
  <2> QED BY <1>2, <2>1, SquaredEnergy
<1> QED BY <1>1, <1>6, <1>7 DEF gaps

\* What the rows of a solution should have, a pair that is added, and what that does.
Quotas(need, A) == \A a \in A : need[a] \in Int

Adds(x, y, a, b) == <<a, b>> \notin x /\ y = x \cup {<<a, b>>}

Widens(x, y, A, need, a) ==
    /\ SumOver(Gaps(x, A, need), A) \in Int
    /\ SumOver(Gaps(y, A, need), A)
         = SumOver(Gaps(x, A, need), A) + (2 * (Cardinality(Row(x, a)) - need[a]) + 1)
    /\ Cardinality(Row(y, a)) = Cardinality(Row(x, a)) + 1
    /\ Cardinality(Row(x, a)) \in Int

\* Adding one variable to a solution changes the gap of its row only.
LEMMA GapStep ==
    ASSUME NEW A, NEW B, IsFiniteSet(A), NEW x, Placed(x, A, B),
           NEW need, Quotas(need, A),
           NEW a \in A, NEW b \in B, NEW y, Adds(x, y, a, b)
    PROVE  Placed(y, A, B) /\ Widens(x, y, A, need, a)
<1> DEFINE old == Gaps(x, A, need)
           new == Gaps(y, A, need)
           n == Cardinality(Row(x, a)) - need[a]
<1>1. Placed(y, A, B)
  <2>1. IsFiniteSet(x \cup {<<a, b>>})
    BY FS_AddElement DEF Placed
  <2> QED BY <2>1 DEF Placed, Adds
<1>2. Row(y, a) = Row(x, a) \cup {b} /\ b \notin Row(x, a)
  <2>1. \A c : c \in Row(y, a) <=> <<a, c>> \in y
    BY <1>1, RowMembers
  <2>2. \A c : c \in Row(x, a) <=> <<a, c>> \in x
    BY RowMembers
  <2> QED BY <2>1, <2>2 DEF Adds
<1>3. Cardinality(Row(y, a)) = Cardinality(Row(x, a)) + 1
  <2>1. IsFiniteSet(Row(x, a))
    BY RowFinite
  <2> QED BY <1>2, <2>1, FS_AddElement
<1>4. ASSUME NEW c \in A \ {a} PROVE Row(y, c) = Row(x, c)
  <2>1. \A d : d \in Row(y, c) <=> <<c, d>> \in y
    BY <1>1, RowMembers
  <2>2. \A d : d \in Row(x, c) <=> <<c, d>> \in x
    BY RowMembers
  <2> QED BY <2>1, <2>2 DEF Adds
<1>5. /\ \A c \in A : old[c] \in Int /\ new[c] \in Int
      /\ \A c \in A \ {a} : new[c] = old[c]
  <2>1. \A c \in A : old[c] \in Int /\ new[c] \in Int
    <3> QED BY <1>1, GapsAre DEF Quotas
  <2>2. \A c \in A \ {a} : new[c] = old[c]
    <3> QED BY <1>4 DEF Gaps
  <2> QED BY <2>1, <2>2
<1>6. n \in Int /\ old[a] = n * n /\ new[a] = (n + 1) * (n + 1)
  <2>1. Cardinality(Row(x, a)) \in Int /\ need[a] \in Int
    BY RowFinite DEF Quotas
  <2>2. Cardinality(Row(y, a)) - need[a] = n + 1
    BY <1>3, <2>1
  <2>3. old[a] = n * n
    BY DEF Gaps
  <2>4. new[a] = (Cardinality(Row(y, a)) - need[a]) * (Cardinality(Row(y, a)) - need[a])
    BY DEF Gaps
  <2> HIDE DEF n
  <2> QED BY <2>1, <2>2, <2>3, <2>4 DEF n
<1> HIDE DEF old, new, n
<1>7. SumOver(old, A) = old[a] + SumOver(old, A \ {a}) /\ SumOver(old, A \ {a}) \in Int
  BY <1>5, SumPick, SumParts
<1>8. SumOver(new, A) = new[a] + SumOver(new, A \ {a})
  BY <1>5, SumPick
<1>9. SumOver(new, A \ {a}) = SumOver(old, A \ {a})
  <2>1. IsFiniteSet(A \ {a})
    BY FS_RemoveElement
  <2> QED BY <1>5, <2>1, SumSame
<1>10. (n + 1) * (n + 1) = n * n + (2 * n + 1) /\ n * n \in Int
  BY <1>6
<1>11. SumOver(new, A) = SumOver(old, A) + (2 * n + 1)
  BY <1>6, <1>7, <1>8, <1>9, <1>10
<1>12. SumOver(old, A) \in Int /\ Cardinality(Row(x, a)) \in Int
  BY <1>5, SumType, RowFinite
<1> QED BY <1>1, <1>3, <1>11, <1>12 DEF old, new, n, Widens

LEMMA PlacedIs ==
    ASSUME NEW A, NEW B, IsFiniteSet(A \X B), NEW x \in SUBSET (A \X B)
    PROVE  Placed(x, A, B)
  BY FS_Subset DEF Placed

(***************************************************************************)
(* The energy of an assignment.                                            *)
(***************************************************************************)
LEMMA DemandingEnergy ==
    ASSUME NEW p, IsAssignment(p), NEW x \in SUBSET (p.tasks \X p.resources)
    PROVE  /\ ScoreValue(p, x) \in Int
           /\ QuadraticEnergy(Demanding(p), x)
                = 4 * ScoreValue(p, x)
                  + (PenaltySign(p) * AssignmentPenalty(p))
                      * SumOver(Gaps(x, p.tasks, p.demand), p.tasks)
<1>1. PICK V : V = p.tasks \X p.resources
  OBVIOUS
<1> DEFINE b == ScoreModel(V, p.score, <<>>)
           force == PenaltySign(p) * AssignmentPenalty(p)
           target == Demands(p)
<1>2. IsModel(b, V)
  BY <1>1, NoNumbers, ScoreIsModel DEF IsAssignment
<1>3. ScoreValue(p, x) \in Int /\ QuadraticEnergy(b, x) = 4 * ScoreValue(p, x)
  <2>1. PICK i : i = <<>> /\ Numbers(i) /\ DOMAIN i = {}
    BY NoNumbers
  <2>2. Joint(i, x) = 0 /\ DOMAIN i \subseteq Pairs(V)
    <3>1. {e \in DOMAIN i : e \subseteq x} = {}
      BY <2>1
    <3> QED BY <2>1, <3>1, SumEmpty DEF Joint
  <2>3. IsFiniteSet(V) /\ Numbers(p.score) /\ x \in SUBSET V
    BY <1>1 DEF IsAssignment
  <2>4. Single(p.score, x) \in Int /\ QuadraticEnergy(b, x) = 4 * (Single(p.score, x) + Joint(i, x))
    <3>1. b = ScoreModel(V, p.score, i)
      BY <2>1
    <3> HIDE DEF b
    <3> QED BY <2>1, <2>2, <2>3, <3>1, ScoreEnergy
  <2>5. ScoreValue(p, x) = Single(p.score, x)
    BY DEF ScoreValue, Single
  <2> HIDE DEF b
  <2> QED BY <2>2, <2>4, <2>5
<1>4. force \in Int
  <2>1. AssignmentPenalty(p) \in Int
    BY AssignmentPenaltyIs DEF IsAssignment
  <2> QED BY <2>1, SignIs
<1>5. Needed(target, p.demand, p.tasks, p.resources)
  <2>1. \A t \in p.tasks : p.demand[t] \in Int
    BY DEF IsAssignment, Numbers
  <2> QED BY <2>1, DemandsAre DEF IsAssignment, Needed
<1>6. IsFiniteSet(p.tasks) /\ p.resources # {} /\ x \in SUBSET V /\ Placed(x, p.tasks, p.resources)
  BY <1>1, PlacedIs DEF IsAssignment
<1>7. Demanding(p) = AddSquaredConstraints(b, force, target)
  BY <1>1 DEF Demanding
<1> HIDE DEF b, force, target
<1>8. QuadraticEnergy(AddSquaredConstraints(b, force, target), x)
        = QuadraticEnergy(b, x) + force * SumOver(Gaps(x, p.tasks, p.demand), p.tasks)
  BY <1>1, <1>2, <1>4, <1>5, <1>6, GroupedEnergy
<1> QED BY <1>3, <1>7, <1>8 DEF force

LEMMA AssignmentEnergy ==
    ASSUME NEW p, IsAssignment(p), NEW x \in SUBSET (p.tasks \X p.resources)
    PROVE  LET gaps == SumOver(Gaps(x, p.tasks, p.demand), p.tasks)
               banned == Cardinality(x \cap p.prohibited)
           IN  /\ ScoreValue(p, x) \in Int /\ gaps \in Int /\ banned \in Nat
               /\ QuadraticEnergy(AssignmentModel(p), x)
                    = 4 * ScoreValue(p, x) + (PenaltySign(p) * AssignmentPenalty(p)) * gaps
                      + (PenaltySign(p) * ProhibitedPenalty(p)) * banned
<1> DEFINE b == AssignmentModel(p)
           d == Demanding(p)
           V == p.tasks \X p.resources
           force == PenaltySign(p) * ProhibitedPenalty(p)
           barred == x \cap p.prohibited
           same == [v \in barred |-> force]
           extra == [v \in x |-> Prohibition(p, v)]
<1>1. /\ b.offset = d.offset /\ b.quadratic = d.quadratic
      /\ \A v \in V : b.linear[v] = d.linear[v] + Prohibition(p, v)
  BY AssignmentModelIs DEF IsAssignment
<1>2. IsModel(d, V)
  BY DemandingIsModel
<1>3. /\ IsFiniteSet(x) /\ IsFiniteSet(Pairs(x)) /\ Pairs(x) \subseteq Pairs(V) /\ barred \in SUBSET x
      /\ IsFiniteSet(barred)
  BY <1>2, FS_Subset, PairsFinite, PairsWithin DEF IsModel
<1>4. /\ d.offset \in Int
      /\ \A v \in x : d.linear[v] \in Int
      /\ \A e \in Pairs(x) : d.quadratic[e] \in Int
  <2> HIDE DEF d, V
  <2>1. x \in SUBSET V
    BY DEF V
  <2> QED BY <1>2, <1>3, <2>1 DEF IsModel
<1>5. force \in Int
  <2>1. ProhibitedPenalty(p) \in Int
    BY AssignmentPenaltyIs, LargestScoreIs DEF IsAssignment
  <2> QED BY <2>1, SignIs
<1>6. /\ \A v \in barred : same[v] = force
      /\ \A v \in x : extra[v] = IF v \in barred THEN same[v] ELSE 0
      /\ \A v \in x : b.linear[v] = d.linear[v] + extra[v]
  BY <1>1 DEF Prohibition
<1> HIDE DEF b, d, V, force, barred, same, extra
<1>7. \A v \in x : extra[v] \in Int
  BY <1>5, <1>6
<1>8. SumOver(b.linear, x) = SumOver(d.linear, x) + SumOver(extra, x)
  BY <1>3, <1>4, <1>6, <1>7, SumPlus
<1>9. SumOver(extra, x) = force * Cardinality(barred)
  <2>1. \A v \in barred : same[v] \in Int
    BY <1>5, <1>6
  <2>2. SumOver(extra, x) = SumOver(same, barred)
    BY <1>3, <1>6, <2>1, SumWhere
  <2>3. SumOver(same, barred) = force * Cardinality(barred)
    BY <1>3, <1>5, <1>6, SumCounts
  <2> QED BY <2>2, <2>3
<1>10. SumOver(d.linear, x) \in Int /\ SumOver(d.quadratic, Pairs(x)) \in Int
  BY <1>3, <1>4, SumType
<1>11. /\ QuadraticEnergy(b, x) = b.offset + SumOver(b.linear, x) + SumOver(b.quadratic, Pairs(x))
       /\ QuadraticEnergy(d, x) = d.offset + SumOver(d.linear, x) + SumOver(d.quadratic, Pairs(x))
  BY DEF QuadraticEnergy
<1>12. Cardinality(barred) \in Nat
  BY <1>3, FS_CardinalityType
<1>13. QuadraticEnergy(b, x) = QuadraticEnergy(d, x) + force * Cardinality(barred)
  <2>1. PICK n \in Int : n = force * Cardinality(barred)
    BY <1>5, <1>12
  <2> QED BY <1>1, <1>4, <1>8, <1>9, <1>10, <1>11, <2>1
<1>14. SumOver(Gaps(x, p.tasks, p.demand), p.tasks) \in Int
  <2>1. Placed(x, p.tasks, p.resources)
    BY PlacedIs DEF IsAssignment
  <2>2. IsFiniteSet(p.tasks) /\ \A t \in p.tasks : p.demand[t] \in Int
    BY DEF IsAssignment, Numbers
  <2> QED BY <2>1, <2>2, GapsAre
<1>15. /\ ScoreValue(p, x) \in Int
       /\ QuadraticEnergy(d, x)
            = 4 * ScoreValue(p, x) + (PenaltySign(p) * AssignmentPenalty(p))
                                       * SumOver(Gaps(x, p.tasks, p.demand), p.tasks)
  BY DemandingEnergy DEF d
<1> QED BY <1>12, <1>13, <1>14, <1>15 DEF b, barred, force

(***************************************************************************)
(* The energy of a partition.                                              *)
(***************************************************************************)
LiftedCut(p, x) == SumOver(LiftedWeight(p), {l \in Lifts(p) : Separated(l, x)})

Ones(A) == [a \in A |-> 1]

LEMMA PartitionEnergy ==
    ASSUME NEW p, IsPartition(p), NEW x \in SUBSET (p.nodes \X p.parts)
    PROVE  LET gaps == SumOver(Gaps(x, p.nodes, Ones(p.nodes)), p.nodes)
           IN  /\ LiftedCut(p, x) \in Int /\ gaps \in Int /\ Total(p.weight) \in Int
               /\ QuadraticEnergy(PartitionModel(p), x)
                    = 4 * (Total(p.weight) + LiftedCut(p, x)) + PartitionPenalty(p) * gaps
<1>1. PICK V : V = p.nodes \X p.parts
  OBVIOUS
<1> DEFINE b == Counting(p)
           cut == CutModel(V, LiftedWeight(p))
           force == PartitionPenalty(p)
           target == OneEach(p)
           need == Ones(p.nodes)
           gaps == SumOver(Gaps(x, p.nodes, need), p.nodes)
<1>2. /\ IsModel(b, V) /\ b.offset = 4 * Total(p.weight) /\ Total(p.weight) \in Int
      /\ b.linear = cut.linear /\ b.quadratic = cut.quadratic
  BY <1>1, CountingIsModel
<1>3. IsFiniteSet(V) /\ x \in SUBSET V /\ Placed(x, p.nodes, p.parts) /\ IsFiniteSet(p.nodes)
      /\ p.parts # {}
  BY <1>1, PlacedIs, FS_EmptySet DEF IsPartition
<1>4. LiftedCut(p, x) \in Int /\ QuadraticEnergy(cut, x) = 4 * LiftedCut(p, x)
  <2>1. Numbers(LiftedWeight(p)) /\ DOMAIN LiftedWeight(p) \subseteq Pairs(V)
        /\ DOMAIN LiftedWeight(p) = Lifts(p)
    BY <1>1, LiftedIs
  <2> HIDE DEF cut
  <2> QED BY <1>3, <2>1, CutEnergy DEF cut, LiftedCut
<1>5. QuadraticEnergy(b, x) = 4 * Total(p.weight) + QuadraticEnergy(cut, x)
  <2>1. cut.offset = 0
    BY DEF CutModel
  <2>2. IsModel(cut, V)
    BY <1>1, <1>3, LiftedIs, CutIsModel
  <2> HIDE DEF b, cut
  <2>3. QuadraticEnergy(cut, x) = 0 + SumOver(cut.linear, x) + SumOver(cut.quadratic, Pairs(x))
    BY <2>1 DEF QuadraticEnergy
  <2>4. QuadraticEnergy(b, x)
          = 4 * Total(p.weight) + SumOver(cut.linear, x) + SumOver(cut.quadratic, Pairs(x))
    BY <1>2 DEF QuadraticEnergy
  <2>5. SumOver(cut.linear, x) \in Int /\ SumOver(cut.quadratic, Pairs(x)) \in Int
    <3>1. IsFiniteSet(x) /\ IsFiniteSet(Pairs(x)) /\ Pairs(x) \subseteq Pairs(V)
      BY <1>3, FS_Subset, PairsFinite, PairsWithin
    <3>2. (\A v \in x : cut.linear[v] \in Int) /\ \A e \in Pairs(x) : cut.quadratic[e] \in Int
      BY <1>3, <2>2, <3>1 DEF IsModel
    <3> QED BY <3>1, <3>2, SumType
  <2> QED BY <1>2, <2>3, <2>4, <2>5
<1>6. PenaltySign(p) * force = force /\ force \in Int
  <2>1. PenaltySign(p) = 1
    BY DEF PenaltySign, IsPartition
  <2>2. force \in Int
    BY LargestIncidenceIs, PartitionPenaltyIs DEF IsPartition
  <2> QED BY <2>1, <2>2
<1>7. Needed(target, need, p.nodes, p.parts) /\ \A n \in p.nodes : need[n] = 1
  <2>1. \A n \in p.nodes : {n} \X p.parts \in Groups(p.nodes, p.parts)
    BY DEF Groups
  <2>2. \A n \in p.nodes : need[n] = 1
    BY DEF Ones
  <2> HIDE DEF need, target
  <2>3. /\ Numbers(target) /\ DOMAIN target = Groups(p.nodes, p.parts)
        /\ \A g \in Groups(p.nodes, p.parts) : target[g] = 1
    BY OneEachIs DEF target
  <2>4. \A n \in p.nodes : need[n] \in Int /\ target[{n} \X p.parts] = need[n]
    BY <2>1, <2>2, <2>3
  <2> QED BY <2>2, <2>3, <2>4 DEF Needed
<1>8. PartitionModel(p) = AddSquaredConstraints(b, force, target)
  BY <1>6, PartitionModelIs DEF IsPartition
<1>9. gaps \in Int
  <2>1. \A n \in p.nodes : need[n] \in Int
    BY <1>7
  <2> HIDE DEF need
  <2> QED BY <1>3, <2>1, GapsAre
<1> HIDE DEF b, cut, force, target, need
<1>10. QuadraticEnergy(AddSquaredConstraints(b, force, target), x) = QuadraticEnergy(b, x) + force * gaps
  BY <1>1, <1>2, <1>3, <1>6, <1>7, GroupedEnergy
<1>11. QuadraticEnergy(b, x) = 4 * (Total(p.weight) + LiftedCut(p, x))
  BY <1>2, <1>4, <1>5
<1> QED BY <1>2, <1>4, <1>8, <1>9, <1>10, <1>11 DEF force, need

\* A copy of an edge is cut when one of its ends is in the part.
LEMMA SeparatedLift ==
    ASSUME NEW u, NEW t, NEW k, NEW x
    PROVE  Separated(Lift({u, t}, k), x) <=> ~(<<u, k>> \in x <=> <<t, k>> \in x)
<1>1. Lift({u, t}, k) = {<<u, k>>, <<t, k>>}
  BY DEF Lift
<1> QED BY <1>1 DEF Separated

LEMMA LiftsUnder ==
    ASSUME NEW p, IsPartition(p), NEW e \in DOMAIN p.weight
    PROVE  \A l : l \in Lifts(p) /\ Under(l) = e <=> \E k \in p.parts : l = Lift(e, k)
<1> TAKE l
<1>1. ASSUME l \in Lifts(p), Under(l) = e PROVE \E k \in p.parts : l = Lift(e, k)
  <2>1. PICK f \in DOMAIN p.weight, k \in p.parts : l = Lift(f, k)
    BY <1>1 DEF Lifts
  <2>2. f = e
    BY <1>1, <2>1, UnderLift
  <2> QED BY <2>1, <2>2
<1>2. ASSUME NEW k \in p.parts, l = Lift(e, k) PROVE l \in Lifts(p) /\ Under(l) = e
  BY <1>2, LiftedIs, UnderLift
<1> QED BY <1>1, <1>2

LEMMA SumOfOne == ASSUME NEW u, NEW f, f[u] \in Int PROVE SumOver(f, {u}) = f[u]
<1>1. PICK S : S = {u} /\ IsFiniteSet(S)
  BY FS_Singleton
<1>2. u \in S /\ S \ {u} = {} /\ \A y \in S : f[y] \in Int
  BY <1>1
<1>3. SumOver(f, S) = f[u] + SumOver(f, S \ {u})
  BY <1>1, <1>2, SumPick
<1>4. SumOver(f, S \ {u}) = 0
  BY <1>2, SumEmpty
<1> QED BY <1>1, <1>3, <1>4

\* Whether a copy is cut, as a number.
Cuts(p, x) == [l \in Lifts(p) |-> IF Separated(l, x) THEN 1 ELSE 0]

Copies(p, e) == {l \in Lifts(p) : Under(l) = e}

\* The weight of the cut copies, counted from the edges.
LEMMA LiftedCutIs ==
    ASSUME NEW p, IsPartition(p), NEW x,
           NEW g, \A e \in DOMAIN p.weight : g[e] = p.weight[e] * SumOver(Cuts(p, x), Copies(p, e))
    PROVE  LiftedCut(p, x) = SumOver(g, DOMAIN p.weight)
<1> DEFINE L == Lifts(p)
           D == DOMAIN p.weight
           w == p.weight
           cuts == Cuts(p, x)
           R == {z \in L \X D : Under(z[1]) = z[2]}
           cut == {l \in L : Separated(l, x)}
           f == [l \in L |-> cuts[l] * SumOver(w, {e \in D : <<l, e>> \in R})]
<1>1. IsFiniteSet(L) /\ IsFiniteSet(D) /\ \A e \in D : w[e] \in Int
  BY LiftedIs DEF IsPartition, Numbers
<1>2. \A l \in L : cuts[l] \in Int /\ cuts[l] = IF Separated(l, x) THEN 1 ELSE 0
  BY DEF Cuts
<1>3. ASSUME NEW l \in L
      PROVE  LiftedWeight(p)[l] \in Int /\ f[l] = IF l \in cut THEN LiftedWeight(p)[l] ELSE 0
  <2>1. PICK e \in D, k \in p.parts : l = Lift(e, k)
    BY DEF Lifts
  <2>2. Under(l) = e /\ LiftedWeight(p)[l] = w[e] /\ w[e] \in Int
    BY <1>1, <2>1, UnderLift, LiftedIs
  <2>3. {c \in D : <<l, c>> \in R} = {e}
    BY <2>2
  <2>4. SumOver(w, {c \in D : <<l, c>> \in R}) = w[e]
    BY <2>2, <2>3, SumOfOne
  <2>5. f[l] = cuts[l] * SumOver(w, {c \in D : <<l, c>> \in R})
    OBVIOUS
  <2>6. f[l] = cuts[l] * w[e]
    BY <2>4, <2>5, Zenon
  <2>7. l \in cut <=> Separated(l, x)
    OBVIOUS
  <2> HIDE DEF f, cuts, cut, R
  <2> QED BY <1>2, <2>2, <2>6, <2>7
<1>4. SumOver(f, L) = SumOver(LiftedWeight(p), cut)
  <2>1. cut \in SUBSET L
    OBVIOUS
  <2> HIDE DEF f, cut
  <2> QED BY <1>1, <1>3, <2>1, SumWhere
<1>5. Upward(f, cuts, L, w, D, R)
  <2>1. \A l \in L : f[l] = cuts[l] * SumOver(w, {e \in D : <<l, e>> \in R})
    OBVIOUS
  <2> HIDE DEF f, cuts, L, w, D, R
  <2> QED BY <2>1 DEF Upward
<1>6. Downward(g, cuts, L, w, D, R)
  <2> SUFFICES ASSUME NEW e \in D
               PROVE  g[e] = w[e] * SumOver(cuts, {l \in L : <<l, e>> \in R})
    BY DEF Downward
  <2>1. {l \in L : <<l, e>> \in R} = Copies(p, e)
    BY DEF Copies
  <2> QED BY <2>1
<1>7. SumOver(f, L) = SumOver(g, D)
  <2> HIDE DEF f, cuts, L, w, D, R
  <2> QED BY <1>1, <1>2, <1>5, <1>6, SumIncidence
<1> QED BY <1>4, <1>7 DEF LiftedCut

\* The energy of a feasible partition counts each cut edge in its two parts.
LEMMA FeasibleCut ==
    ASSUME NEW p, IsPartition(p), NEW x \in SUBSET (p.nodes \X p.parts),
           \A n \in p.nodes : Cardinality(Row(x, n)) = 1
    PROVE  Value(p, x) \in Int /\ LiftedCut(p, x) = 2 * Value(p, x)
<1> DEFINE D == DOMAIN p.weight
           w == p.weight
           cuts == Cuts(p, x)
           cut == {e \in D : \E u, v \in e : Row(x, u) # Row(x, v)}
           g == [e \in D |-> w[e] * SumOver(cuts, Copies(p, e))]
           twice == [e \in D |-> 2 * w[e]]
<1>1. /\ IsFiniteSet(D) /\ IsFiniteSet(Lifts(p)) /\ Placed(x, p.nodes, p.parts)
      /\ \A e \in D : w[e] \in Int /\ e \in Pairs(p.nodes)
  BY LiftedIs, PlacedIs DEF IsPartition, Numbers
<1>2. \A l \in Lifts(p) : cuts[l] \in Int /\ cuts[l] = IF Separated(l, x) THEN 1 ELSE 0
  BY DEF Cuts
<1>3. ASSUME NEW e \in D
      PROVE  g[e] = IF e \in cut THEN twice[e] ELSE 0
  <2>1. PICK u \in p.nodes, t \in p.nodes : u # t /\ e = {u, t}
    BY <1>1, PairsAre
  <2>2. PICK a, b : Row(x, u) = {a} /\ Row(x, t) = {b}
    <3>1. /\ IsFiniteSet(Row(x, u)) /\ IsFiniteSet(Row(x, t))
          /\ Cardinality(Row(x, u)) = 1 /\ Cardinality(Row(x, t)) = 1
      BY <1>1, RowFinite
    <3>2. (\E a : Row(x, u) = {a}) /\ (\E b : Row(x, t) = {b})
      BY <3>1, FS_Singleton
    <3> QED BY <3>2
  <2>3. /\ a \in p.parts /\ b \in p.parts
        /\ \A k : (<<u, k>> \in x <=> k = a) /\ (<<t, k>> \in x <=> k = b)
    BY <1>1, <2>2, RowMembers
  <2>4. e \in cut <=> a # b
    BY <2>1, <2>2
  <2>5. \A l \in Copies(p, e) : l \in Lifts(p) /\ \E k \in p.parts : l = Lift(e, k)
    BY LiftsUnder DEF Copies
  <2>6. \A k \in p.parts : /\ Lift(e, k) \in Copies(p, e)
                           /\ Separated(Lift(e, k), x) <=> ~(k = a <=> k = b)
    BY <2>1, <2>3, LiftsUnder, SeparatedLift DEF Copies
  <2>7. IsFiniteSet(Copies(p, e))
    BY <1>1, FS_Subset DEF Copies
  <2>8. CASE a = b
    <3>1. \A l \in Copies(p, e) : cuts[l] \in Int /\ cuts[l] = 0
      BY <1>2, <2>5, <2>6, <2>8
    <3>2. SumOver(cuts, Copies(p, e)) = 0 * Cardinality(Copies(p, e))
      <4> HIDE DEF cuts
      <4> QED BY <2>7, <3>1, SumCounts
    <3>3. SumOver(cuts, Copies(p, e)) = 0
      BY <2>7, <3>2, FS_CardinalityType
    <3>4. g[e] = w[e] * SumOver(cuts, Copies(p, e))
      OBVIOUS
    <3> HIDE DEF g, cuts
    <3> QED BY <1>1, <2>4, <2>8, <3>3, <3>4
  <2>9. CASE a # b
    <3>1. PICK T : T = {Lift(e, a), Lift(e, b)}
      OBVIOUS
    <3>2. Lift(e, a) # Lift(e, b)
      BY <1>1, <2>9, LiftSame
    <3>3. T \in SUBSET Copies(p, e)
      BY <2>3, <2>6, <3>1
    <3>4. /\ cuts[Lift(e, a)] = 1 /\ cuts[Lift(e, b)] = 1
          /\ \A l \in Copies(p, e) : cuts[l] \in Int
          /\ \A l \in Copies(p, e) \ T : cuts[l] = 0
      BY <1>2, <2>3, <2>5, <2>6, <2>9, <3>1
    <3> HIDE DEF cuts
    <3>5. SumOver(cuts, Copies(p, e)) = SumOver(cuts, T)
      BY <2>7, <3>3, <3>4, SumSupport
    <3>6. SumOver(cuts, T) = 1 + 1
      <4>1. PICK la, lb : la = Lift(e, a) /\ lb = Lift(e, b)
        OBVIOUS
      <4>2. la # lb /\ T = {la, lb} /\ cuts[la] = 1 /\ cuts[lb] = 1
        BY <3>1, <3>2, <3>4, <4>1
      <4>3. cuts[la] \in Int /\ cuts[lb] \in Int
        BY <4>2
      <4>4. SumOver(cuts, {la, lb}) = cuts[la] + cuts[lb]
        BY <4>2, <4>3, SumOfTwo
      <4> QED BY <4>2, <4>4
    <3>7. g[e] = w[e] * SumOver(cuts, Copies(p, e))
      OBVIOUS
    <3>8. twice[e] = 2 * w[e]
      OBVIOUS
    <3> HIDE DEF g, twice
    <3> QED BY <1>1, <2>4, <2>9, <3>5, <3>6, <3>7, <3>8
  <2> QED BY <2>8, <2>9
<1>4. LiftedCut(p, x) = SumOver(g, D)
  <2>1. \A e \in D : g[e] = w[e] * SumOver(Cuts(p, x), Copies(p, e))
    OBVIOUS
  <2> HIDE DEF g
  <2> QED BY <2>1, LiftedCutIs
<1>5. cut \in SUBSET D /\ IsFiniteSet(cut) /\ \A e \in cut : twice[e] \in Int /\ twice[e] = 2 * w[e]
  BY <1>1, FS_Subset
<1>6. Value(p, x) = SumOver(w, cut)
  BY DEF Value, CutValue, IsPartition
<1> HIDE DEF g, twice, cut
<1>7. SumOver(g, D) = SumOver(twice, cut)
  BY <1>1, <1>3, <1>5, SumWhere
<1>8. SumOver(w, cut) \in Int /\ SumOver(twice, cut) = 2 * SumOver(w, cut)
  <2>1. \A e \in cut : w[e] \in Int /\ twice[e] = 2 * w[e]
    BY <1>1, <1>5
  <2>2. SumOver(w, cut) \in Int
    BY <1>5, <2>1, SumType
  <2>3. SumOver(twice, cut) = 2 * SumOver(w, cut)
    BY <1>5, <2>1, SumTimes
  <2> QED BY <2>2, <2>3
<1> QED BY <1>4, <1>6, <1>7, <1>8

\* No gaps, no squares.
LEMMA NoGaps ==
    ASSUME NEW A, IsFiniteSet(A), NEW x, NEW need,
           \A a \in A : need[a] \in Int /\ Cardinality(Row(x, a)) = need[a]
    PROVE  SumOver(Gaps(x, A, need), A) = 0
<1> DEFINE gaps == Gaps(x, A, need)
<1>1. \A a \in A : gaps[a] = 0
  BY DEF Gaps
<1> HIDE DEF gaps
<1>2. SumOver(gaps, A) = 0 * Cardinality(A)
  BY <1>1, SumCounts
<1>3. Cardinality(A) \in Nat
  BY FS_CardinalityType
<1> QED BY <1>2, <1>3 DEF gaps

LEMMA ObjectiveOf ==
    ASSUME NEW p, Validated(p), NEW x \in Solutions(p), Feasible(p, x)
    PROVE  /\ Value(p, x) \in Int
           /\ p.family = "graph-partition" => Total(p.weight) \in Int
           /\ QuadraticEnergy(Lower(p), x)
                = IF p.family = "graph-partition" THEN Unit * (2 * Value(p, x) + Total(p.weight))
                  ELSE Unit * Value(p, x)
<1>1. p.family \in {"maxcut", "assignment", "subset-selection", "graph-partition"}
  BY DEF Validated
<1>2. IsFiniteSet(Variables(p)) /\ x \in SUBSET Variables(p)
  BY DEF Validated, Solutions
<1>3. CASE p.family = "maxcut"
  <2>1. /\ Variables(p) = p.nodes /\ Lower(p) = CutModel(p.nodes, p.weight)
        /\ Value(p, x) = SumOver(p.weight, {e \in DOMAIN p.weight : Separated(e, x)})
    BY <1>3 DEF Variables, Lower, Value, CutValue
  <2>2. Numbers(p.weight) /\ DOMAIN p.weight \subseteq Pairs(p.nodes)
    BY <1>3 DEF Validated, WellFormed, WellFormedCut
  <2>3. /\ SumOver(p.weight, {e \in DOMAIN p.weight : Separated(e, x)}) \in Int
        /\ QuadraticEnergy(CutModel(p.nodes, p.weight), x)
             = 4 * SumOver(p.weight, {e \in DOMAIN p.weight : Separated(e, x)})
    BY <1>2, <2>1, <2>2, CutEnergy
  <2>4. Value(p, x) \in Int /\ QuadraticEnergy(Lower(p), x) = 4 * Value(p, x)
    BY <2>1, <2>3, Zenon
  <2> QED BY <1>3, <2>4 DEF Unit
<1>4. CASE p.family = "subset-selection"
  <2>1. /\ Variables(p) = p.candidates
        /\ Lower(p) = ScoreModel(p.candidates, p.score, p.interaction)
        /\ Value(p, x) = Single(p.score, x) + Joint(p.interaction, x)
    BY <1>4 DEF Variables, Lower, Value, ScoreValue, InteractionValue, Single, Joint
  <2>2. Numbers(p.score) /\ Numbers(p.interaction) /\ DOMAIN p.interaction \subseteq Pairs(p.candidates)
    BY <1>4 DEF Validated, WellFormed, WellFormedSubset
  <2>3. /\ Single(p.score, x) \in Int /\ Joint(p.interaction, x) \in Int
        /\ QuadraticEnergy(Lower(p), x) = 4 * (Single(p.score, x) + Joint(p.interaction, x))
    BY <1>2, <2>1, <2>2, ScoreEnergy
  <2> QED BY <1>4, <2>1, <2>3 DEF Unit
<1>5. CASE p.family = "assignment"
  <2>1. /\ Variables(p) = p.tasks \X p.resources /\ Lower(p) = AssignmentModel(p)
        /\ Value(p, x) = ScoreValue(p, x)
    BY <1>5 DEF Variables, Lower, Value
  <2>2. IsAssignment(p) /\ x \in SUBSET (p.tasks \X p.resources)
    BY <1>2, <1>5, <2>1, AssignmentIs
  <2>3. x \cap p.prohibited = {} /\ \A t \in p.tasks : Cardinality(Row(x, t)) = p.demand[t]
    BY <1>5 DEF Feasible, FeasibleAssignment
  <2>4. SumOver(Gaps(x, p.tasks, p.demand), p.tasks) = 0
    <3>1. IsFiniteSet(p.tasks) /\ \A t \in p.tasks : p.demand[t] \in Int
      BY <2>2 DEF IsAssignment, Numbers
    <3> QED BY <2>3, <3>1, NoGaps
  <2>5. Cardinality(x \cap p.prohibited) = 0
    BY <2>3, FS_EmptySet
  <2>6. /\ ScoreValue(p, x) \in Int
        /\ QuadraticEnergy(Lower(p), x)
             = 4 * ScoreValue(p, x) + (PenaltySign(p) * AssignmentPenalty(p)) * 0
               + (PenaltySign(p) * ProhibitedPenalty(p)) * 0
    BY <2>1, <2>2, <2>4, <2>5, AssignmentEnergy
  <2>7. AssignmentPenalty(p) \in Int /\ ProhibitedPenalty(p) \in Int /\ PenaltySign(p) \in Int
    BY <2>2, AssignmentPenaltyIs, LargestScoreIs, SignIs DEF IsAssignment
  <2>8. PICK m \in Int, n \in Int : /\ m = PenaltySign(p) * AssignmentPenalty(p)
                                    /\ n = PenaltySign(p) * ProhibitedPenalty(p)
    BY <2>7
  <2>9. QuadraticEnergy(Lower(p), x) = 4 * ScoreValue(p, x)
    BY <2>6, <2>8
  <2> QED BY <1>5, <2>1, <2>6, <2>9 DEF Unit
<1>6. CASE p.family = "graph-partition"
  <2>1. Variables(p) = p.nodes \X p.parts /\ Lower(p) = PartitionModel(p)
    BY <1>6 DEF Variables, Lower
  <2>2. IsPartition(p) /\ x \in SUBSET (p.nodes \X p.parts)
    BY <1>2, <1>6, <2>1, PartitionIs
  <2>3. \A n \in p.nodes : Cardinality(Row(x, n)) = 1
    BY <1>6 DEF Feasible, FeasiblePartition
  <2>4. SumOver(Gaps(x, p.nodes, Ones(p.nodes)), p.nodes) = 0
    <3>1. IsFiniteSet(p.nodes) /\ \A n \in p.nodes : Ones(p.nodes)[n] = 1
      BY <2>2 DEF IsPartition, Ones
    <3>2. \A n \in p.nodes : /\ Ones(p.nodes)[n] \in Int
                             /\ Cardinality(Row(x, n)) = Ones(p.nodes)[n]
      BY <2>3, <3>1
    <3> QED BY <3>1, <3>2, NoGaps
  <2>5. /\ LiftedCut(p, x) \in Int /\ Total(p.weight) \in Int
        /\ QuadraticEnergy(PartitionModel(p), x)
             = 4 * (Total(p.weight) + LiftedCut(p, x)) + PartitionPenalty(p) * 0
    BY <2>2, <2>4, PartitionEnergy
  <2>6. PartitionPenalty(p) \in Int
    BY <2>2, LargestIncidenceIs, PartitionPenaltyIs DEF IsPartition
  <2>7. Value(p, x) \in Int /\ LiftedCut(p, x) = 2 * Value(p, x)
    BY <2>2, <2>3, FeasibleCut
  <2>8. QuadraticEnergy(Lower(p), x) = 4 * (2 * Value(p, x) + Total(p.weight))
    BY <2>1, <2>5, <2>6, <2>7
  <2> QED BY <1>6, <2>5, <2>7, <2>8 DEF Unit
<1> QED BY <1>1, <1>3, <1>4, <1>5, <1>6

\* A partition's energy is twice its cut above the total weight, and other energies are
\* the objective itself: either way they grow with the objective.
LEMMA GrowsWithObjective ==
    ASSUME NEW p, Validated(p), NEW x \in Solutions(p), Feasible(p, x),
           NEW y \in Solutions(p), Feasible(p, y)
    PROVE  QuadraticEnergy(Lower(p), x) < QuadraticEnergy(Lower(p), y)
              <=> Value(p, x) < Value(p, y)
<1> DEFINE energy(z) == QuadraticEnergy(Lower(p), z)
           value(z) == Value(p, z)
           total == Total(p.weight)
<1>1. \A z \in {x, y} :
         /\ value(z) \in Int
         /\ p.family = "graph-partition" => energy(z) = 4 * (2 * value(z) + total)
         /\ p.family # "graph-partition" => energy(z) = 4 * value(z)
  BY ObjectiveOf DEF Unit
<1>2. p.family = "graph-partition" => total \in Int
  BY ObjectiveOf
<1> SUFFICES energy(x) < energy(y) <=> value(x) < value(y)
  OBVIOUS
<1> HIDE DEF energy, value, total
<1>3. CASE p.family = "graph-partition"
  BY <1>1, <1>2, <1>3
<1>4. CASE p.family # "graph-partition"
  BY <1>1, <1>4
<1> QED BY <1>3, <1>4

\* The energy is the objective of every feasible solution, except for a partition, and
\* orders the feasible solutions of every family by their objectives.
THEOREM LoweredObjective == QaoaSpec => []EnergyIsObjective
<1>1. QaoaTypeOK => EnergyIsObjective
  <2> SUFFICES ASSUME QaoaTypeOK,
                      NEW x \in Solutions(document), Feasible(document, x)
               PROVE  /\ document.family # "graph-partition" =>
                            QuadraticEnergy(Lower(document), x) = Unit * Value(document, x)
                      /\ \A y \in Solutions(document) : Feasible(document, y) =>
                            (QuadraticEnergy(Lower(document), x) < QuadraticEnergy(Lower(document), y)
                                <=> Value(document, x) < Value(document, y))
    BY DEF EnergyIsObjective
  <2>1. Validated(document)
    BY DocumentAssumption DEF QaoaTypeOK, document
  <2> QED BY <2>1, ObjectiveOf, GrowsWithObjective
<1> QED BY <1>1, SearchTyped, PTL

(***************************************************************************)
(* An optimum is feasible: a solution that is not can be improved by       *)
(* adding a variable, by taking one away, or by doing both in one row.     *)
(***************************************************************************)
LEMMA Odd ==
    ASSUME NEW a \in Nat, NEW q \in Int
    PROVE  /\ a * (2 * q + 1) \in Int
           /\ q >= 0 => a * (2 * q + 1) >= a
           /\ q <= -1 => a * (2 * q + 1) <= -a
           /\ q = -1 => a * (2 * q + 1) = -a
<1>1. a * (2 * q + 1) = 2 * (a * q) + a /\ a * q \in Int
  OBVIOUS
<1>2. q >= 0 => a * q >= 0
  OBVIOUS
<1>3. q <= -1 => a * q <= -a
  <2> SUFFICES ASSUME q <= -1 PROVE a * q <= -a
    OBVIOUS
  <2>1. PICK k \in Nat : q = -1 - k
    <3>1. -1 - q \in Nat /\ q = -1 - (-1 - q)
      OBVIOUS
    <3> QED BY <3>1
  <2>2. a * (-1 - k) = -a - a * k /\ a * k \in Nat
    OBVIOUS
  <2> QED BY <2>1, <2>2
<1>4. q = -1 => a * q = -a
  OBVIOUS
<1> QED BY <1>1, <1>2, <1>3, <1>4

\* What the search makes as small as it can.
Cost(p, x) == PenaltySign(p) * QuadraticEnergy(AssignmentModel(p), x)

LEMMA CostIs ==
    ASSUME NEW p, IsAssignment(p), NEW x \in SUBSET (p.tasks \X p.resources)
    PROVE  LET gaps == SumOver(Gaps(x, p.tasks, p.demand), p.tasks)
               banned == Cardinality(x \cap p.prohibited)
           IN  /\ ScoreValue(p, x) \in Int /\ gaps \in Int /\ banned \in Nat
               /\ QuadraticEnergy(AssignmentModel(p), x) \in Int /\ Cost(p, x) \in Int
               /\ Cost(p, x) = 4 * (PenaltySign(p) * ScoreValue(p, x))
                               + AssignmentPenalty(p) * gaps + ProhibitedPenalty(p) * banned
<1> DEFINE gaps == SumOver(Gaps(x, p.tasks, p.demand), p.tasks)
           banned == Cardinality(x \cap p.prohibited)
           E == QuadraticEnergy(AssignmentModel(p), x)
           s == PenaltySign(p)
           A == AssignmentPenalty(p)
           P == ProhibitedPenalty(p)
           v == ScoreValue(p, x)
<1>1. v \in Int /\ gaps \in Int /\ banned \in Nat /\ E = 4 * v + (s * A) * gaps + (s * P) * banned
  BY AssignmentEnergy
<1>2. A \in Int /\ P \in Int
  BY AssignmentPenaltyIs, LargestScoreIs DEF IsAssignment
<1>3. s = 1 \/ s = -1
  BY SignIs
<1>4. Cost(p, x) = s * E
  BY DEF Cost
<1> HIDE DEF gaps, banned, E, s, A, P, v
<1>5. PICK g \in Int, b \in Int : g = A * gaps /\ b = P * banned
  BY <1>1, <1>2
<1>6. CASE s = 1
  <2>1. (s * A) * gaps = g /\ (s * P) * banned = b
    BY <1>1, <1>2, <1>5, <1>6
  <2>2. E = 4 * v + g + b
    BY <1>1, <2>1
  <2> QED BY <1>1, <1>4, <1>5, <1>6, <2>2 DEF gaps, banned, E, s, A, P, v
<1>7. CASE s = -1
  <2>1. (s * A) * gaps = -g /\ (s * P) * banned = -b
    BY <1>1, <1>2, <1>5, <1>7
  <2>2. E = 4 * v - g - b
    BY <1>1, <1>5, <2>1
  <2>3. Cost(p, x) = 4 * (s * v) + g + b /\ Cost(p, x) \in Int /\ E \in Int
    BY <1>1, <1>4, <1>5, <1>7, <2>2
  <2> QED BY <1>1, <1>5, <2>3 DEF gaps, banned, E, s, A, P, v
<1> QED BY <1>3, <1>6, <1>7

\* What is added to a count, or to a sum, of the members of a part.
LEMMA CountStep ==
    ASSUME NEW z, IsFiniteSet(z), NEW v, v \notin z, NEW P
    PROVE  /\ Cardinality(z \cap P) \in Nat
           /\ Cardinality((z \cup {v}) \cap P) = Cardinality(z \cap P) + (IF v \in P THEN 1 ELSE 0)
<1>1. PICK Z : Z = z \cap P
  OBVIOUS
<1>2. IsFiniteSet(Z) /\ Cardinality(Z) \in Nat /\ v \notin Z
  BY <1>1, FS_Subset, FS_CardinalityType
<1>3. CASE v \in P
  <2>1. (z \cup {v}) \cap P = Z \cup {v}
    BY <1>1, <1>3
  <2>2. Cardinality(Z \cup {v}) = Cardinality(Z) + 1
    BY <1>2, FS_AddElement
  <2>3. Cardinality((z \cup {v}) \cap P) = Cardinality(Z) + 1
    BY <2>1, <2>2
  <2> QED BY <1>1, <1>2, <1>3, <2>3
<1>4. CASE v \notin P
  <2>1. (z \cup {v}) \cap P = Z
    BY <1>1, <1>4
  <2>2. Cardinality((z \cup {v}) \cap P) = Cardinality(Z)
    BY <2>1, Zenon
  <2>3. Cardinality((z \cup {v}) \cap P) = Cardinality(Z) + 0
    BY <1>2, <2>2
  <2> QED BY <1>1, <1>2, <1>4, <2>3
<1> QED BY <1>3, <1>4

LEMMA SumStep ==
    ASSUME NEW z, IsFiniteSet(z), NEW v, v \notin z, NEW D, NEW f, \A a \in D : f[a] \in Int
    PROVE  /\ SumOver(f, z \cap D) \in Int
           /\ SumOver(f, (z \cup {v}) \cap D) = SumOver(f, z \cap D) + (IF v \in D THEN f[v] ELSE 0)
<1>1. PICK Z, Y : Z = z \cap D /\ Y = (z \cup {v}) \cap D
  OBVIOUS
<1>2. IsFiniteSet(Z) /\ IsFiniteSet(Y) /\ (\A a \in Z : f[a] \in Int) /\ (\A a \in Y : f[a] \in Int)
  <2>1. IsFiniteSet(z \cup {v})
    BY FS_AddElement
  <2> QED BY <1>1, <2>1, FS_Subset
<1>3. SumOver(f, Z) \in Int
  BY <1>2, SumType
<1>4. CASE v \in D
  <2>1. v \in Y /\ Y \ {v} = Z
    BY <1>1, <1>4
  <2>2. SumOver(f, Y) = f[v] + SumOver(f, Y \ {v})
    BY <1>2, <2>1, SumPick
  <2>3. f[v] \in Int
    BY <1>4
  <2>4. SumOver(f, Y) = f[v] + SumOver(f, Z)
    BY <2>1, <2>2, Zenon
  <2>5. SumOver(f, Y) = SumOver(f, Z) + f[v]
    BY <1>3, <2>3, <2>4
  <2> QED BY <1>1, <1>3, <1>4, <2>5
<1>5. CASE v \notin D
  <2>1. Y = Z
    BY <1>1, <1>5
  <2>2. SumOver(f, Y) = SumOver(f, Z) + 0
    BY <1>3, <2>1
  <2> QED BY <1>1, <1>3, <1>5, <2>2
<1> QED BY <1>4, <1>5

\* What a pair that is added costs.
Raises(p, z, y, t, r) ==
    /\ Cost(p, z) \in Int /\ Cost(p, y) \in Int
    /\ Cardinality(Row(z, t)) \in Int /\ Cardinality(Row(y, t)) = Cardinality(Row(z, t)) + 1
    /\ \E c \in Int :
          /\ -LargestScore(p) <= c /\ c <= LargestScore(p)
          /\ Cost(p, y) = Cost(p, z) + 4 * c
               + AssignmentPenalty(p) * (2 * (Cardinality(Row(z, t)) - p.demand[t]) + 1)
               + (IF <<t, r>> \in p.prohibited THEN ProhibitedPenalty(p) ELSE 0)

LEMMA CostStep ==
    ASSUME NEW p, IsAssignment(p), NEW z \in SUBSET (p.tasks \X p.resources),
           NEW t \in p.tasks, NEW r \in p.resources, NEW y, Adds(z, y, t, r)
    PROVE  y \in SUBSET (p.tasks \X p.resources) /\ Raises(p, z, y, t, r)
<1>0. Widens(z, y, p.tasks, p.demand, t)
  <2>1. IsFiniteSet(p.tasks) /\ Quotas(p.demand, p.tasks)
    BY DEF IsAssignment, Numbers, Quotas
  <2>2. Placed(z, p.tasks, p.resources)
    BY PlacedIs DEF IsAssignment
  <2> QED BY <2>1, <2>2, GapStep
<1>1. PICK v : v = <<t, r>>
  OBVIOUS
<1> DEFINE q == Cardinality(Row(z, t)) - p.demand[t]
           s == PenaltySign(p)
           A == AssignmentPenalty(p)
           P == ProhibitedPenalty(p)
           M == LargestScore(p)
           gaps(x) == SumOver(Gaps(x, p.tasks, p.demand), p.tasks)
           banned(x) == Cardinality(x \cap p.prohibited)
           D == DOMAIN p.score
           gain == IF v \in D THEN p.score[v] ELSE 0
           ban == IF v \in p.prohibited THEN 1 ELSE 0
<1>2. /\ IsFiniteSet(p.tasks) /\ IsFiniteSet(D) /\ Numbers(p.score)
      /\ \A a \in p.tasks : p.demand[a] \in Int
      /\ \A a \in D : p.score[a] \in Int
  BY DEF IsAssignment, Numbers
<1>3. /\ y \in SUBSET (p.tasks \X p.resources) /\ Placed(z, p.tasks, p.resources) /\ IsFiniteSet(z)
      /\ y = z \cup {v} /\ v \notin z
  <2>1. Placed(z, p.tasks, p.resources)
    BY PlacedIs DEF IsAssignment
  <2> QED BY <1>1, <2>1 DEF Placed, Adds
<1>4. /\ gaps(z) \in Int /\ gaps(y) = gaps(z) + (2 * q + 1)
      /\ Cardinality(Row(y, t)) = Cardinality(Row(z, t)) + 1 /\ Cardinality(Row(z, t)) \in Int
  BY <1>0 DEF Widens
<1>5. q \in Int
  BY <1>2, <1>4
<1>6. ScoreValue(p, y) = ScoreValue(p, z) + gain
  <2> HIDE DEF D
  <2>1. SumOver(p.score, (z \cup {v}) \cap D)
          = SumOver(p.score, z \cap D) + (IF v \in D THEN p.score[v] ELSE 0)
    BY <1>2, <1>3, SumStep
  <2> QED BY <1>3, <2>1 DEF ScoreValue, D
<1>7. banned(y) = banned(z) + ban
  BY <1>3, CountStep
<1>8. /\ ScoreValue(p, z) \in Int /\ banned(z) \in Nat
      /\ Cost(p, z) \in Int /\ Cost(p, y) \in Int
      /\ Cost(p, z) = 4 * (s * ScoreValue(p, z)) + A * gaps(z) + P * banned(z)
      /\ Cost(p, y) = 4 * (s * ScoreValue(p, y)) + A * gaps(y) + P * banned(y)
  BY <1>3, CostIs
<1>9. A \in Int /\ P \in Int /\ M \in Nat /\ (s = 1 \/ s = -1)
  BY AssignmentPenaltyIs, LargestScoreIs, SignIs DEF IsAssignment
<1>10. gain \in Int /\ -M <= gain /\ gain <= M
  <2>1. CASE v \in D
    <3>1. p.score[v] <= M /\ -p.score[v] <= M /\ p.score[v] \in Int
      BY <1>2, <2>1, LargestScoreIs
    <3>2. gain = p.score[v]
      BY <2>1
    <3> HIDE DEF M, gain
    <3> QED BY <1>9, <3>1, <3>2
  <2>2. CASE v \notin D
    <3>1. gain = 0
      BY <2>2
    <3> HIDE DEF M, gain
    <3> QED BY <1>9, <3>1
  <2> QED BY <2>1, <2>2
<1>11. ban \in Int /\ P * ban = IF v \in p.prohibited THEN P ELSE 0
  BY <1>9
<1> HIDE DEF q, s, A, P, M, gaps, banned, D, gain, ban
<1>12. \A a, b, c \in Int : a * (b + c) = a * b + a * c /\ a * b \in Int
  OBVIOUS
<1>13. /\ A * (gaps(z) + (2 * q + 1)) = A * gaps(z) + A * (2 * q + 1)
       /\ A * gaps(z) \in Int /\ A * (2 * q + 1) \in Int
  <2>1. 2 * q + 1 \in Int
    BY <1>5
  <2> QED BY <1>4, <1>9, <1>12, <2>1
<1>14. /\ P * (banned(z) + ban) = P * banned(z) + P * ban
       /\ P * banned(z) \in Int /\ P * ban \in Int
  <2>1. banned(z) \in Int
    BY <1>8
  <2> QED BY <1>9, <1>11, <1>12, <2>1
<1>15. /\ s * (ScoreValue(p, z) + gain) = s * ScoreValue(p, z) + s * gain
       /\ s * ScoreValue(p, z) \in Int /\ s * gain \in Int
  <2>1. s \in Int
    BY <1>9
  <2> QED BY <1>8, <1>10, <1>12, <2>1
<1>16. -M <= s * gain /\ s * gain <= M
  <2>1. CASE s = 1
    BY <1>9, <1>10, <2>1
  <2>2. CASE s = -1
    <3>1. s * gain = -gain
      BY <1>10, <2>2
    <3> QED BY <1>9, <1>10, <3>1
  <2> QED BY <1>9, <2>1, <2>2
<1>17. /\ Cost(p, z) = 4 * (s * ScoreValue(p, z)) + A * gaps(z) + P * banned(z)
       /\ Cost(p, y) = 4 * (s * ScoreValue(p, z) + s * gain) + (A * gaps(z) + A * (2 * q + 1))
                       + (P * banned(z) + P * ban)
  BY <1>4, <1>6, <1>7, <1>8, <1>13, <1>14, <1>15
<1>18. Cost(p, y) = Cost(p, z) + 4 * (s * gain) + A * (2 * q + 1) + P * ban
  <2>1. PICK sv \in Int, g \in Int, a \in Int, f \in Int, b \in Int, c \in Int :
          /\ sv = s * ScoreValue(p, z) /\ g = s * gain /\ a = A * gaps(z)
          /\ f = A * (2 * q + 1) /\ b = P * banned(z) /\ c = P * ban
    BY <1>13, <1>14, <1>15
  <2>2. Cost(p, z) = 4 * sv + a + b /\ Cost(p, y) = 4 * (sv + g) + (a + f) + (b + c)
    BY <1>17, <2>1
  <2>3. Cost(p, y) = Cost(p, z) + 4 * g + f + c
    BY <2>2
  <2> QED BY <2>1, <2>3
<1>19. \E c \in Int : /\ -M <= c /\ c <= M
                      /\ Cost(p, y) = Cost(p, z) + 4 * c + A * (2 * q + 1)
                                      + (IF v \in p.prohibited THEN P ELSE 0)
  <2>1. PICK g \in Int : g = s * gain
    BY <1>15
  <2>2. Cost(p, y) = Cost(p, z) + 4 * g + A * (2 * q + 1)
                     + (IF v \in p.prohibited THEN P ELSE 0)
    BY <1>11, <1>18, <2>1
  <2> QED BY <1>16, <2>1, <2>2
<1> QED BY <1>1, <1>3, <1>4, <1>5, <1>8, <1>19 DEF q, A, P, M, Raises

\* A row that is full already makes the solution worse, one that is not makes it
\* better unless the pair is prohibited.
LEMMA CostMoves ==
    ASSUME NEW p, IsAssignment(p), NEW z, NEW t \in p.tasks, NEW r, NEW y, Raises(p, z, y, t, r)
    PROVE  /\ Cost(p, z) \in Int /\ Cost(p, y) \in Int
           /\ Cardinality(Row(z, t)) >= p.demand[t] => Cost(p, z) < Cost(p, y)
           /\ Cardinality(Row(z, t)) < p.demand[t] /\ <<t, r>> \notin p.prohibited =>
                 Cost(p, y) < Cost(p, z)
           /\ \E c \in Int :
                 /\ -LargestScore(p) <= c /\ c <= LargestScore(p)
                 /\ Cardinality(Row(z, t)) = p.demand[t] - 1 =>
                       Cost(p, y) = Cost(p, z) + 4 * c - AssignmentPenalty(p)
                         + (IF <<t, r>> \in p.prohibited THEN ProhibitedPenalty(p) ELSE 0)
<1> DEFINE M == LargestScore(p)
           A == AssignmentPenalty(p)
           P == ProhibitedPenalty(p)
           n == Cardinality(Row(z, t))
           q == n - p.demand[t]
           ban == IF <<t, r>> \in p.prohibited THEN P ELSE 0
<1>1. n \in Int /\ p.demand[t] \in Int /\ Cost(p, z) \in Int /\ Cost(p, y) \in Int
  BY DEF Raises, IsAssignment, Numbers
<1>2. PICK c \in Int : /\ -M <= c /\ c <= M
                       /\ Cost(p, y) = Cost(p, z) + 4 * c + A * (2 * q + 1) + ban
  BY DEF Raises
<1>3. M \in Nat /\ A \in Nat /\ A >= 8 * M + 4 /\ P = 8 * M + A
  <2>1. PICK T : T = Cardinality(p.tasks)
    OBVIOUS
  <2>2. T \in Nat /\ T # 0
    BY <2>1, FS_CardinalityType, FS_EmptySet DEF IsAssignment
  <2>3. M \in Nat
    BY LargestScoreIs DEF IsAssignment
  <2>4. A = 4 * (2 * T * M + 1) /\ P = 8 * M + A
    BY <2>1, AssignmentPenaltyIs DEF IsAssignment
  <2> HIDE DEF M, A, P
  <2>5. PICK k \in Nat : T = k + 1
    <3>1. T - 1 \in Nat /\ T = (T - 1) + 1
      BY <2>2
    <3> QED BY <3>1
  <2>6. 2 * (k + 1) * M = 2 * (k * M) + 2 * M /\ k * M \in Nat
    BY <2>3
  <2>7. A = 4 * (2 * (k * M) + 2 * M + 1)
    BY <2>4, <2>5, <2>6
  <2> QED BY <2>3, <2>4, <2>6, <2>7
<1>4. q \in Int /\ ban \in Int /\ ban >= 0 /\ (<<t, r>> \notin p.prohibited => ban = 0)
  <2> HIDE DEF n, M, A, P
  <2> QED BY <1>1, <1>3
<1> HIDE DEF M, A, P, q, n, ban
<1>5. PICK f \in Int : /\ f = A * (2 * q + 1)
                       /\ (q >= 0 => f >= A) /\ (q <= -1 => f <= -A) /\ (q = -1 => f = -A)
  <2>1. A * (2 * q + 1) \in Int
    BY <1>3, <1>4, Odd
  <2> QED BY <1>3, <1>4, <2>1, Odd
<1>6. Cost(p, y) = Cost(p, z) + 4 * c + f + ban
  BY <1>2, <1>5
<1>7. q >= 0 => Cost(p, z) < Cost(p, y)
  BY <1>1, <1>2, <1>3, <1>4, <1>5, <1>6
<1>8. q <= -1 /\ <<t, r>> \notin p.prohibited => Cost(p, y) < Cost(p, z)
  BY <1>1, <1>2, <1>3, <1>4, <1>5, <1>6
<1>9. q = -1 => Cost(p, y) = Cost(p, z) + 4 * c - A + ban
  BY <1>1, <1>2, <1>3, <1>4, <1>5, <1>6
<1>10. /\ n >= p.demand[t] => q >= 0
       /\ n < p.demand[t] => q <= -1
       /\ n = p.demand[t] - 1 => q = -1
  BY <1>1 DEF q
<1>11. \E d \in Int : /\ -M <= d /\ d <= M
                      /\ n = p.demand[t] - 1 => Cost(p, y) = Cost(p, z) + 4 * d - A + ban
  BY <1>2, <1>9, <1>10
<1>12. /\ n >= p.demand[t] => Cost(p, z) < Cost(p, y)
       /\ n < p.demand[t] /\ <<t, r>> \notin p.prohibited => Cost(p, y) < Cost(p, z)
  BY <1>7, <1>8, <1>10
<1> QED BY <1>1, <1>11, <1>12 DEF n, M, A, P, ban

\* A pair of one row that the other has not.
LEMMA Spare ==
    ASSUME NEW S, IsFiniteSet(S), NEW T, IsFiniteSet(T), NEW s, s \in T, s \notin S,
           Cardinality(S) = Cardinality(T)
    PROVE  \E u \in S : u \notin T
<1> SUFFICES ASSUME \A u \in S : u \in T PROVE FALSE
  OBVIOUS
<1>1. S \in SUBSET T
  OBVIOUS
<1>2. S = T
  BY <1>1, FS_Subset
<1> QED BY <1>2

LEMMA AssignmentImproves ==
    ASSUME NEW p, IsAssignment(p), FiniteCapacities(p) = {},
           NEW x0 \in SUBSET (p.tasks \X p.resources), FeasibleAssignment(p, x0),
           NEW x \in SUBSET (p.tasks \X p.resources), ~FeasibleAssignment(p, x)
    PROVE  \E y \in SUBSET (p.tasks \X p.resources) :
              Cost(p, y) \in Int /\ Cost(p, x) \in Int /\ Cost(p, y) < Cost(p, x)
<1>1. Placed(x, p.tasks, p.resources) /\ Placed(x0, p.tasks, p.resources)
  BY PlacedIs DEF IsAssignment
<1>2. /\ x0 \cap p.prohibited = {}
      /\ \A t \in p.tasks : Cardinality(Row(x0, t)) = p.demand[t] /\ p.demand[t] \in Int
  BY DEF FeasibleAssignment, IsAssignment, Numbers
<1>3. \A t \in p.tasks : /\ IsFiniteSet(Row(x, t)) /\ IsFiniteSet(Row(x0, t))
                         /\ Cardinality(Row(x, t)) \in Int /\ Cardinality(Row(x0, t)) \in Int
                         /\ Cardinality(Row(x, t)) >= 0 /\ Cardinality(Row(x0, t)) >= 0
  BY <1>1, RowFinite
<1>4. \A t \in p.tasks : /\ \A r : (r \in Row(x, t)) <=> (<<t, r>> \in x)
                         /\ \A r : (r \in Row(x0, t)) <=> (<<t, r>> \in x0)
                         /\ Row(x, t) \subseteq p.resources /\ Row(x0, t) \subseteq p.resources
  BY <1>1, RowMembers
<1>5. ASSUME NEW t \in p.tasks, Cardinality(Row(x, t)) > p.demand[t]
      PROVE  \E y \in SUBSET (p.tasks \X p.resources) :
                Cost(p, y) \in Int /\ Cost(p, x) \in Int /\ Cost(p, y) < Cost(p, x)
  <2>1. Row(x, t) # {}
    <3>1. Cardinality(Row(x, t)) # 0
      BY <1>2, <1>3, <1>5
    <3> QED BY <3>1, FS_EmptySet
  <2>2. PICK r \in p.resources : <<t, r>> \in x
    BY <1>4, <2>1
  <2>3. PICK y \in SUBSET (p.tasks \X p.resources) : Adds(y, x, t, r)
    <3>1. Adds(x \ {<<t, r>>}, x, t, r)
      BY <2>2 DEF Adds
    <3> QED BY <3>1
  <2>4. Raises(p, y, x, t, r)
    BY <2>3, CostStep
  <2>5. Cardinality(Row(y, t)) >= p.demand[t]
    <3>1. Cardinality(Row(y, t)) \in Int /\ Cardinality(Row(x, t)) = Cardinality(Row(y, t)) + 1
      BY <2>4 DEF Raises
    <3> QED BY <1>2, <1>5, <3>1
  <2>6. Cost(p, y) \in Int /\ Cost(p, x) \in Int /\ Cost(p, y) < Cost(p, x)
    BY <2>4, <2>5, CostMoves
  <2> QED BY <2>6
<1>6. ASSUME NEW t \in p.tasks, Cardinality(Row(x, t)) < p.demand[t]
      PROVE  \E y \in SUBSET (p.tasks \X p.resources) :
                Cost(p, y) \in Int /\ Cost(p, x) \in Int /\ Cost(p, y) < Cost(p, x)
  <2>1. PICK r \in Row(x0, t) : r \notin Row(x, t)
    <3> SUFFICES ASSUME \A r \in Row(x0, t) : r \in Row(x, t) PROVE FALSE
      OBVIOUS
    <3>1. Row(x0, t) \in SUBSET Row(x, t)
      OBVIOUS
    <3>2. Cardinality(Row(x0, t)) <= Cardinality(Row(x, t))
      BY <1>3, <3>1, FS_Subset
    <3> QED BY <1>2, <1>3, <1>6, <3>2
  <2>2. r \in p.resources /\ <<t, r>> \in x0 /\ <<t, r>> \notin x
    BY <1>4, <2>1
  <2>3. <<t, r>> \notin p.prohibited
    BY <1>2, <2>2
  <2>4. PICK y : Adds(x, y, t, r)
    <3>1. Adds(x, x \cup {<<t, r>>}, t, r)
      BY <2>2 DEF Adds
    <3> QED BY <3>1
  <2>5. y \in SUBSET (p.tasks \X p.resources) /\ Raises(p, x, y, t, r)
    BY <2>2, <2>4, CostStep
  <2>6. Cost(p, y) \in Int /\ Cost(p, x) \in Int /\ Cost(p, y) < Cost(p, x)
    BY <1>6, <2>3, <2>5, CostMoves
  <2> QED BY <2>5, <2>6
<1>7. ASSUME \A t \in p.tasks : Cardinality(Row(x, t)) = p.demand[t]
      PROVE  \E y \in SUBSET (p.tasks \X p.resources) :
                Cost(p, y) \in Int /\ Cost(p, x) \in Int /\ Cost(p, y) < Cost(p, x)
  <2>1. PICK t \in p.tasks, r \in p.resources : <<t, r>> \in x /\ <<t, r>> \in p.prohibited
    <3>1. \A b \in p.resources : Within(Cardinality(Column(x, b)), None, p.capacity[b])
      BY DEF FiniteCapacities, Within
    <3>2. x \cap p.prohibited # {}
      BY <1>7, <3>1 DEF FeasibleAssignment
    <3> QED BY <3>2
  <2>2. r \in Row(x, t) /\ r \notin Row(x0, t)
    BY <1>2, <1>4, <2>1
  <2>3. PICK u \in Row(x0, t) : u \notin Row(x, t)
    <3>1. Cardinality(Row(x0, t)) = Cardinality(Row(x, t))
      BY <1>2, <1>7
    <3> QED BY <1>3, <2>2, <3>1, Spare
  <2>4. /\ u \in p.resources /\ u # r /\ <<t, u>> \notin x
        /\ <<t, u>> \notin p.prohibited
    BY <1>2, <1>4, <2>2, <2>3
  <2>5. PICK z \in SUBSET (p.tasks \X p.resources) : Adds(z, x, t, r) /\ <<t, u>> \notin z
    <3>1. Adds(x \ {<<t, r>>}, x, t, r)
      BY <2>1 DEF Adds
    <3> QED BY <2>4, <3>1
  <2>6. PICK y : Adds(z, y, t, u)
    <3>1. Adds(z, z \cup {<<t, u>>}, t, u)
      BY <2>5 DEF Adds
    <3> QED BY <3>1
  <2>7. Raises(p, z, x, t, r)
    BY <2>5, CostStep
  <2>8. y \in SUBSET (p.tasks \X p.resources) /\ Raises(p, z, y, t, u)
    BY <2>4, <2>6, CostStep
  <2>9. Cardinality(Row(z, t)) = p.demand[t] - 1
    <3>1. Cardinality(Row(z, t)) \in Int /\ Cardinality(Row(x, t)) = Cardinality(Row(z, t)) + 1
      BY <2>7 DEF Raises
    <3> QED BY <1>2, <1>7, <3>1
  <2> DEFINE M == LargestScore(p)
             A == AssignmentPenalty(p)
             P == ProhibitedPenalty(p)
  <2>10. PICK c \in Int : /\ -M <= c /\ c <= M /\ Cost(p, x) \in Int /\ Cost(p, z) \in Int
                          /\ Cost(p, x) = Cost(p, z) + 4 * c - A + P
    BY <2>1, <2>7, <2>9, CostMoves
  <2>11. PICK d \in Int : /\ -M <= d /\ d <= M /\ Cost(p, y) \in Int
                          /\ Cost(p, y) = Cost(p, z) + 4 * d - A + 0
    BY <2>4, <2>8, <2>9, CostMoves
  <2>12. M \in Nat /\ A \in Int /\ A > 0 /\ P = 8 * M + A
    <3>1. M \in Nat
      BY LargestScoreIs DEF IsAssignment
    <3>2. PICK k \in Nat : A = 4 * (k + 1) /\ P = 8 * M + A
      BY AssignmentPenaltyIs DEF IsAssignment
    <3> HIDE DEF M, A, P
    <3> QED BY <3>1, <3>2
  <2> HIDE DEF M, A, P
  <2>13. Cost(p, y) < Cost(p, x)
    BY <2>10, <2>11, <2>12
  <2> QED BY <2>8, <2>10, <2>11, <2>13
<1>8. \/ \E t \in p.tasks : Cardinality(Row(x, t)) > p.demand[t]
      \/ \E t \in p.tasks : Cardinality(Row(x, t)) < p.demand[t]
      \/ \A t \in p.tasks : Cardinality(Row(x, t)) = p.demand[t]
  BY <1>2, <1>3
<1> QED BY <1>5, <1>6, <1>7, <1>8

\* The copies of the edges that meet a bit weigh as much as those edges.
LEMMA CopiesOfBit ==
    ASSUME NEW p, IsPartition(p), NEW n \in p.nodes, NEW k \in p.parts
    PROVE  SumOver(LiftedWeight(p), {l \in Lifts(p) : <<n, k>> \in l})
             = SumOver(p.weight, {e \in DOMAIN p.weight : n \in e})
<1> DEFINE S == {e \in DOMAIN p.weight : n \in e}
           T == {l \in Lifts(p) : <<n, k>> \in l}
           m == [e \in S |-> Lift(e, k)]
<1>1. IsFiniteSet(S)
  BY FS_Subset DEF IsPartition
<1>2. \A e \in S : m[e] = Lift(e, k)
  OBVIOUS
<1>3. \A e \in S : m[e] \in T
  <2> TAKE e \in S
  <2>1. Lift(e, k) \in Lifts(p)
    BY DEF Lifts
  <2>2. <<n, k>> \in Lift(e, k)
    BY DEF Lift
  <2> QED BY <2>1, <2>2
<1>4. \A l \in T : \E e \in S : l = m[e]
  <2> TAKE l \in T
  <2>1. PICK e \in DOMAIN p.weight, j \in p.parts : l = Lift(e, j)
    BY DEF Lifts
  <2>2. n \in e /\ j = k
    BY <2>1 DEF Lift
  <2> QED BY <2>1, <2>2
<1>5. \A d, e \in S : m[d] = m[e] => d = e
  BY <1>2, UnderLift
<1>6. OneToOne(m, S, T)
  <2> HIDE DEF m, S, T
  <2> QED BY <1>3, <1>4, <1>5 DEF OneToOne
<1>7. \A e \in S : LiftedWeight(p)[m[e]] = p.weight[e] /\ p.weight[e] \in Int
  <2> TAKE e \in S
  <2>1. LiftedWeight(p)[Lift(e, k)] = p.weight[e]
    BY UnderLift DEF LiftedWeight, Lifts
  <2> QED BY <2>1 DEF IsPartition, Numbers
<1>8. Reindexed(p.weight, LiftedWeight(p), m, S)
  <2> HIDE DEF m, S
  <2> QED BY <1>7 DEF Reindexed
<1> HIDE DEF S, T, m
<1>9. SumOver(LiftedWeight(p), T) = SumOver(p.weight, S)
  BY <1>1, <1>6, <1>8, SumReindexed
<1> QED BY <1>9 DEF S, T

\* A bit that changes can cut, or join, at most the edges it is on.
LEMMA LiftedCutStep ==
    ASSUME NEW p, IsPartition(p), NEW z \in SUBSET (p.nodes \X p.parts),
           NEW n \in p.nodes, NEW k \in p.parts, NEW y, Adds(z, y, n, k)
    PROVE  /\ LiftedCut(p, z) \in Int /\ LiftedCut(p, y) \in Int
           /\ LiftedCut(p, y) <= LiftedCut(p, z) + LargestIncidence(p)
           /\ LiftedCut(p, z) <= LiftedCut(p, y) + LargestIncidence(p)
<1> DEFINE L == Lifts(p)
           w == LiftedWeight(p)
           old == {l \in L : Separated(l, z)}
           new == {l \in L : Separated(l, y)}
           met == {l \in L : <<n, k>> \in l}
           f == [l \in L |-> IF l \in old THEN w[l] ELSE 0]
           g == [l \in L |-> IF l \in new THEN w[l] ELSE 0]
           h == [l \in L |-> IF l \in met THEN w[l] ELSE 0]
           fh == [l \in L |-> f[l] + h[l]]
           gh == [l \in L |-> g[l] + h[l]]
<1>1. IsFiniteSet(L)
  BY LiftedIs DEF IsPartition
<1>2. \A l \in L : w[l] \in Int /\ w[l] >= 0
  <2> TAKE l \in L
  <2>1. PICK e \in DOMAIN p.weight, j \in p.parts : l = Lift(e, j)
    BY DEF Lifts
  <2>2. w[l] = p.weight[e]
    BY <2>1, UnderLift DEF LiftedWeight
  <2>3. p.weight[e] \in Int /\ p.weight[e] > 0
    BY DEF IsPartition, Numbers
  <2> HIDE DEF w
  <2> QED BY <2>2, <2>3
<1>3. \A l \in L \ met : l \in old <=> l \in new
  BY DEF Separated, Adds
<1>4. /\ old \in SUBSET L /\ new \in SUBSET L /\ met \in SUBSET L
      /\ \A l \in L : /\ f[l] = IF l \in old THEN w[l] ELSE 0
                      /\ g[l] = IF l \in new THEN w[l] ELSE 0
                      /\ h[l] = IF l \in met THEN w[l] ELSE 0
                      /\ fh[l] = f[l] + h[l] /\ gh[l] = g[l] + h[l]
  OBVIOUS
<1>5. LiftedCut(p, z) = SumOver(w, old) /\ LiftedCut(p, y) = SumOver(w, new)
  BY DEF LiftedCut
<1>6. SumOver(w, met) <= LargestIncidence(p) /\ LargestIncidence(p) \in Int
  <2>1. SumOver(w, met) = SumOver(p.weight, {e \in DOMAIN p.weight : n \in e})
    BY CopiesOfBit
  <2>2. /\ LargestIncidence(p) \in Int
        /\ SumOver(p.weight, {e \in DOMAIN p.weight : n \in e}) <= LargestIncidence(p)
    BY LargestIncidenceIs DEF IsPartition
  <2> QED BY <2>1, <2>2
<1> HIDE DEF L, w, old, new, met, f, g, h, fh, gh
<1>7. \A l \in L : /\ f[l] \in Int /\ g[l] \in Int /\ h[l] \in Int
                   /\ fh[l] \in Int /\ gh[l] \in Int /\ fh[l] = f[l] + h[l] /\ gh[l] = g[l] + h[l]
                   /\ g[l] <= fh[l] /\ f[l] <= gh[l]
  <2> TAKE l \in L
  <2>1. f[l] \in Int /\ g[l] \in Int /\ h[l] \in Int /\ h[l] >= 0
    BY <1>2, <1>4
  <2>2. g[l] <= f[l] + h[l] /\ f[l] <= g[l] + h[l]
    BY <1>2, <1>3, <1>4
  <2> QED BY <1>4, <2>1, <2>2
<1>8. SumOver(f, L) = SumOver(w, old) /\ SumOver(g, L) = SumOver(w, new) /\ SumOver(h, L) = SumOver(w, met)
  <2>1. \A l \in L : w[l] \in Int
    BY <1>2
  <2>2. SumOver(f, L) = SumOver(w, old)
    BY <1>1, <1>4, <2>1, SumWhere
  <2>3. SumOver(g, L) = SumOver(w, new)
    BY <1>1, <1>4, <2>1, SumWhere
  <2>4. SumOver(h, L) = SumOver(w, met)
    BY <1>1, <1>4, <2>1, SumWhere
  <2> QED BY <2>2, <2>3, <2>4
<1>9. SumOver(f, L) \in Int /\ SumOver(g, L) \in Int /\ SumOver(h, L) \in Int
  BY <1>1, <1>7, SumType
<1>10. SumOver(fh, L) = SumOver(f, L) + SumOver(h, L)
  BY <1>1, <1>7, SumPlus
<1>11. SumOver(gh, L) = SumOver(g, L) + SumOver(h, L)
  BY <1>1, <1>7, SumPlus
<1>12. SumOver(g, L) <= SumOver(fh, L)
  BY <1>1, <1>7, SumMonotone
<1>13. SumOver(f, L) <= SumOver(gh, L)
  BY <1>1, <1>7, SumMonotone
<1> QED BY <1>5, <1>6, <1>8, <1>9, <1>10, <1>11, <1>12, <1>13

\* A node that has a part already makes a second one worse, one that has none
\* makes the first one better.
LEMMA PartitionMoves ==
    ASSUME NEW p, IsPartition(p), NEW z \in SUBSET (p.nodes \X p.parts),
           NEW n \in p.nodes, NEW k \in p.parts, NEW y, Adds(z, y, n, k)
    PROVE  LET E(x) == QuadraticEnergy(PartitionModel(p), x)
           IN  /\ y \in SUBSET (p.nodes \X p.parts)
               /\ E(z) \in Int /\ E(y) \in Int
               /\ Cardinality(Row(z, n)) \in Int
               /\ Cardinality(Row(y, n)) = Cardinality(Row(z, n)) + 1
               /\ Cardinality(Row(z, n)) >= 1 => E(z) < E(y)
               /\ Cardinality(Row(z, n)) < 1 => E(y) < E(z)
<1>1. Widens(z, y, p.nodes, Ones(p.nodes), n)
  <2>1. IsFiniteSet(p.nodes) /\ Quotas(Ones(p.nodes), p.nodes)
    BY DEF IsPartition, Quotas, Ones
  <2>2. Placed(z, p.nodes, p.parts)
    BY PlacedIs DEF IsPartition
  <2> QED BY <2>1, <2>2, GapStep
<1>2. y \in SUBSET (p.nodes \X p.parts)
  BY DEF Adds
<1> DEFINE E(x) == QuadraticEnergy(PartitionModel(p), x)
           P == PartitionPenalty(p)
           gaps(x) == SumOver(Gaps(x, p.nodes, Ones(p.nodes)), p.nodes)
           c(x) == LiftedCut(p, x)
           W == Total(p.weight)
           M == LargestIncidence(p)
           r == Cardinality(Row(z, n))
           q == r - 1
<1>3. /\ c(z) \in Int /\ gaps(z) \in Int /\ W \in Int /\ E(z) = 4 * (W + c(z)) + P * gaps(z)
      /\ c(y) \in Int /\ gaps(y) \in Int /\ E(y) = 4 * (W + c(y)) + P * gaps(y)
  BY <1>2, PartitionEnergy
<1>4. c(y) <= c(z) + M /\ c(z) <= c(y) + M
  BY LiftedCutStep
<1>5. M \in Int /\ P \in Nat /\ P >= 8 * M + 2 /\ P >= 4
  BY LargestIncidenceIs, PartitionPenaltyIs DEF IsPartition
<1>6. r \in Int /\ Cardinality(Row(y, n)) = r + 1 /\ gaps(y) = gaps(z) + (2 * q + 1)
  BY <1>1 DEF Widens, Ones
<1> HIDE DEF E, P, gaps, c, W, M, r
<1>7. PICK f \in Int : /\ f = P * (2 * q + 1)
                       /\ (q >= 0 => f >= P) /\ (q <= -1 => f <= -P)
  <2>1. q \in Int
    BY <1>6
  <2> HIDE DEF q
  <2> QED BY <1>5, <2>1, Odd
<1>8. P * gaps(y) = P * gaps(z) + f /\ P * gaps(z) \in Int
  <2>1. 2 * q + 1 \in Int
    BY <1>6
  <2>2. PICK a \in Int, b \in Int : a = gaps(z) /\ b = 2 * q + 1
    BY <1>3, <2>1
  <2>3. P * (a + b) = P * a + P * b /\ P * a \in Int
    BY <1>5
  <2>4. gaps(y) = a + b
    BY <1>6, <2>2
  <2> HIDE DEF q
  <2> QED BY <1>7, <2>2, <2>3, <2>4
<1>9. PICK g \in Int : g = P * gaps(z)
  BY <1>8
<1>10. E(z) = 4 * (W + c(z)) + g /\ E(y) = 4 * (W + c(y)) + (g + f) /\ E(z) \in Int /\ E(y) \in Int
  BY <1>3, <1>7, <1>8, <1>9
<1>11. q >= 0 => E(z) < E(y)
  BY <1>3, <1>4, <1>5, <1>7, <1>10
<1>12. q <= -1 => E(y) < E(z)
  BY <1>3, <1>4, <1>5, <1>7, <1>10
<1>13. (r >= 1 => E(z) < E(y)) /\ (r < 1 => E(y) < E(z))
  BY <1>6, <1>11, <1>12
<1> QED BY <1>2, <1>6, <1>10, <1>13 DEF r, E

LEMMA PartitionImproves ==
    ASSUME NEW p, IsPartition(p), p.minimum = None, p.maximum = None,
           NEW x \in SUBSET (p.nodes \X p.parts), ~FeasiblePartition(p, x)
    PROVE  \E y \in SUBSET (p.nodes \X p.parts) :
              /\ QuadraticEnergy(PartitionModel(p), y) \in Int
              /\ QuadraticEnergy(PartitionModel(p), x) \in Int
              /\ QuadraticEnergy(PartitionModel(p), y) < QuadraticEnergy(PartitionModel(p), x)
<1>1. Placed(x, p.nodes, p.parts)
  BY PlacedIs DEF IsPartition
<1>2. PICK n \in p.nodes : Cardinality(Row(x, n)) # 1
  BY DEF FeasiblePartition, Within
<1>3. IsFiniteSet(Row(x, n)) /\ Cardinality(Row(x, n)) \in Int /\ Cardinality(Row(x, n)) >= 0
  BY <1>1, RowFinite
<1>4. (\A k : k \in Row(x, n) <=> <<n, k>> \in x) /\ Row(x, n) \subseteq p.parts
  BY <1>1, RowMembers
<1>5. CASE Cardinality(Row(x, n)) > 1
  <2>1. Row(x, n) # {}
    <3>1. Cardinality(Row(x, n)) # 0
      BY <1>3, <1>5
    <3> QED BY <3>1, FS_EmptySet
  <2>2. PICK k \in p.parts : <<n, k>> \in x
    BY <1>4, <2>1
  <2>3. PICK y \in SUBSET (p.nodes \X p.parts) : Adds(y, x, n, k)
    <3>1. Adds(x \ {<<n, k>>}, x, n, k)
      BY <2>2 DEF Adds
    <3> QED BY <3>1
  <2>4. /\ Cardinality(Row(y, n)) \in Int /\ Cardinality(Row(x, n)) = Cardinality(Row(y, n)) + 1
        /\ QuadraticEnergy(PartitionModel(p), y) \in Int
        /\ QuadraticEnergy(PartitionModel(p), x) \in Int
        /\ Cardinality(Row(y, n)) >= 1 =>
              QuadraticEnergy(PartitionModel(p), y) < QuadraticEnergy(PartitionModel(p), x)
    BY <2>3, PartitionMoves
  <2>5. Cardinality(Row(y, n)) >= 1
    BY <1>5, <2>4
  <2> QED BY <2>4, <2>5
<1>6. CASE Cardinality(Row(x, n)) < 1
  <2>1. Row(x, n) = {}
    <3>1. Cardinality(Row(x, n)) = 0
      BY <1>3, <1>6
    <3> QED BY <1>3, <3>1, FS_EmptySet
  <2>2. PICK k \in p.parts : TRUE
    <3>1. p.parts # {}
      BY FS_EmptySet DEF IsPartition
    <3> QED BY <3>1
  <2>3. PICK y : Adds(x, y, n, k)
    <3>1. Adds(x, x \cup {<<n, k>>}, n, k)
      BY <1>4, <2>1 DEF Adds
    <3> QED BY <3>1
  <2>4. /\ y \in SUBSET (p.nodes \X p.parts)
        /\ QuadraticEnergy(PartitionModel(p), y) \in Int
        /\ QuadraticEnergy(PartitionModel(p), x) \in Int
        /\ QuadraticEnergy(PartitionModel(p), y) < QuadraticEnergy(PartitionModel(p), x)
    BY <1>6, <2>3, PartitionMoves
  <2> QED BY <2>4
<1> QED BY <1>2, <1>3, <1>5, <1>6

\* The same for every family, in the sense that the search optimizes.
LEMMA InfeasibleImproves ==
    ASSUME NEW p, Validated(p), Lowers(p), NEW x0 \in Solutions(p), Feasible(p, x0),
           NEW x \in Solutions(p), ~Feasible(p, x)
    PROVE  \E y \in Solutions(p) :
              IF p.sense = "maximize"
              THEN QuadraticEnergy(Lower(p), y) > QuadraticEnergy(Lower(p), x)
              ELSE QuadraticEnergy(Lower(p), y) < QuadraticEnergy(Lower(p), x)
<1>1. p.family \in {"maxcut", "assignment", "subset-selection", "graph-partition"}
  BY DEF Validated
<1>2. p.family # "maxcut"
  BY DEF Feasible
<1>3. p.family # "subset-selection"
  <2> SUFFICES ASSUME p.family = "subset-selection" PROVE FALSE
    OBVIOUS
  <2>1. p.budget = None /\ p.minimum = None /\ p.maximum = None
    BY DEF Lowers
  <2> QED BY <2>1 DEF Feasible, FeasibleSubset, Within
<1>4. CASE p.family = "assignment"
  <2>1. Solutions(p) = SUBSET (p.tasks \X p.resources) /\ Lower(p) = AssignmentModel(p)
    BY <1>4 DEF Solutions, Variables, Lower
  <2>2. FiniteCapacities(p) = {} /\ FeasibleAssignment(p, x0) /\ ~FeasibleAssignment(p, x)
    BY <1>4 DEF Lowers, Feasible
  <2>3. IsAssignment(p)
    BY <1>4, AssignmentIs
  <2>4. x0 \in SUBSET (p.tasks \X p.resources) /\ x \in SUBSET (p.tasks \X p.resources)
    BY <2>1
  <2>5. PICK y \in SUBSET (p.tasks \X p.resources) :
           Cost(p, y) \in Int /\ Cost(p, x) \in Int /\ Cost(p, y) < Cost(p, x)
    BY <2>2, <2>3, <2>4, AssignmentImproves
  <2>6. PICK a \in Int, b \in Int : /\ a = QuadraticEnergy(AssignmentModel(p), x)
                                    /\ b = QuadraticEnergy(AssignmentModel(p), y)
    BY <2>3, <2>4, CostIs
  <2>7. Cost(p, x) = PenaltySign(p) * a /\ Cost(p, y) = PenaltySign(p) * b
    BY <2>6 DEF Cost
  <2>8. CASE p.sense = "maximize"
    <3>1. PenaltySign(p) = -1
      BY <2>8 DEF PenaltySign
    <3>2. b > a
      BY <2>5, <2>6, <2>7, <3>1
    <3> QED BY <2>1, <2>6, <2>8, <3>2
  <2>9. CASE p.sense # "maximize"
    <3>1. PenaltySign(p) = 1
      BY <2>9 DEF PenaltySign, Validated
    <3>2. b < a
      BY <2>5, <2>6, <2>7, <3>1
    <3> QED BY <2>1, <2>6, <2>9, <3>2
  <2> QED BY <2>8, <2>9
<1>5. CASE p.family = "graph-partition"
  <2>1. Solutions(p) = SUBSET (p.nodes \X p.parts) /\ Lower(p) = PartitionModel(p)
    BY <1>5 DEF Solutions, Variables, Lower
  <2>2. p.minimum = None /\ p.maximum = None /\ ~FeasiblePartition(p, x)
    BY <1>5 DEF Lowers, Feasible
  <2>3. IsPartition(p) /\ p.sense = "minimize"
    BY <1>5, PartitionIs DEF IsPartition
  <2>4. PICK y \in SUBSET (p.nodes \X p.parts) :
           QuadraticEnergy(PartitionModel(p), y) < QuadraticEnergy(PartitionModel(p), x)
    BY <2>1, <2>2, <2>3, PartitionImproves
  <2> QED BY <2>1, <2>3, <2>4
<1> QED BY <1>1, <1>2, <1>3, <1>4, <1>5

\* The penalties are large enough: a state of best energy of a problem that has a
\* feasible solution is feasible, whatever the scores, demands and weights.
THEOREM LoweredOptimum == QaoaSpec => []OptimumIsFeasible
<1>1. QaoaTypeOK => OptimumIsFeasible
  <2> DEFINE energy == [x \in Solutions(document) |-> QuadraticEnergy(Lower(document), x)]
  <2> SUFFICES ASSUME QaoaTypeOK, Lowers(document),
                      NEW x0 \in Solutions(document), Feasible(document, x0),
                      NEW x \in Solutions(document),
                      \A y \in Solutions(document) : ~Surpasses(energy[y], energy[x]),
                      ~Feasible(document, x)
               PROVE  FALSE
    BY DEF OptimumIsFeasible
  <2>1. input \in Inputs /\ Validated(document)
    BY DocumentAssumption DEF QaoaTypeOK, document
  <2>2. Maximizes(input) <=> document.sense = "maximize"
    BY <2>1, BindingAssumption DEF Maximizing, document
  <2>3. PICK y \in Solutions(document) :
              IF document.sense = "maximize"
              THEN QuadraticEnergy(Lower(document), y) > QuadraticEnergy(Lower(document), x)
              ELSE QuadraticEnergy(Lower(document), y) < QuadraticEnergy(Lower(document), x)
    BY <2>1, InfeasibleImproves
  <2>4. Surpasses(energy[y], energy[x])
    BY <2>2, <2>3 DEF Surpasses
  <2> QED BY <2>4
<1> QED BY <1>1, SearchTyped, PTL

\* What the search relies on from a lowering, of the lowering the solvers use.
LEMMA LoweringIsFaithful == FaithfulLowering
<1> SUFFICES ASSUME NEW p \in Inputs, NEW x \in Bits(p), NEW z \in Bits(p),
                    Accepted(p), Meets(p, z),
                    \A y \in Bits(p) : ~Beats(p, Energy(p, y), Energy(p, x))
             PROVE  /\ Meets(p, x)
                    /\ \A y \in Bits(p) :
                          Meets(p, y) => ~Beats(p, Objective(p, y), Objective(p, x))
  BY DEF FaithfulLowering
<1> DEFINE d == Document(p)
           E(y) == QuadraticEnergy(Lower(d), y)
<1>1. Validated(d)
  BY DocumentAssumption
<1>2. Lowers(d) /\ d.family \in SupportedFamilies
  BY BindingAssumption DEF Admissible
<1>3. Bits(p) = Solutions(d)
  BY BindingAssumption DEF BasisStates
<1>4. \A y \in Solutions(d) : /\ Meets(p, y) <=> Feasible(d, y)
                              /\ Objective(p, y) = Value(d, y)
                              /\ Energy(p, y) = E(y)
  <2>1. \A y \in Bits(p) : /\ Meets(p, y) = Feasible(d, y)
                           /\ Objective(p, y) = Value(d, y)
                           /\ Energy(p, y) = E(y)
    BY BindingAssumption DEF LoweredEnergy
  <2> QED BY <1>3, <2>1
<1>5. Maximizes(p) <=> d.sense = "maximize"
  BY BindingAssumption DEF Maximizing
<1>6. Feasible(d, x)
  <2> SUFFICES ASSUME ~Feasible(d, x) PROVE FALSE
    OBVIOUS
  <2>1. Feasible(d, z) /\ z \in Solutions(d) /\ x \in Solutions(d)
    BY <1>3, <1>4
  <2> HIDE DEF d
  <2>2. PICK y \in Solutions(d) : IF d.sense = "maximize" THEN E(y) > E(x) ELSE E(y) < E(x)
    BY <1>1, <1>2, <2>1, InfeasibleImproves
  <2>3. Energy(p, y) = E(y) /\ Energy(p, x) = E(x) /\ ~Beats(p, Energy(p, y), Energy(p, x))
    BY <1>3, <1>4, <2>1
  <2> HIDE DEF E
  <2> QED BY <1>5, <2>2, <2>3 DEF Beats
<1>7. ASSUME NEW y \in Bits(p), Meets(p, y)
      PROVE  ~Beats(p, Objective(p, y), Objective(p, x))
  <2>1. /\ y \in Solutions(d) /\ x \in Solutions(d) /\ Feasible(d, y)
        /\ Objective(p, y) = Value(d, y) /\ Objective(p, x) = Value(d, x)
        /\ Energy(p, y) = E(y) /\ Energy(p, x) = E(x)
    BY <1>3, <1>4, <1>7
  <2>2. d.family # "graph-partition"
    BY <1>2 DEF SupportedFamilies
  <2> HIDE DEF d
  <2>3. Value(d, y) \in Int /\ E(y) = 4 * Value(d, y)
    BY <1>1, <2>1, <2>2, ObjectiveOf DEF Unit
  <2>4. Value(d, x) \in Int /\ E(x) = 4 * Value(d, x)
    BY <1>1, <1>6, <2>1, <2>2, ObjectiveOf DEF Unit
  <2>5. ~Beats(p, Energy(p, y), Energy(p, x))
    BY <1>7
  <2> HIDE DEF E
  <2> QED BY <2>1, <2>3, <2>4, <2>5 DEF Beats
<1> QED BY <1>3, <1>4, <1>6, <1>7

\* A QAOA call that samples a state of best energy of a problem with a feasible
\* solution returns an optimum of the problem itself.
THEOREM LoweredOptimumReported == QaoaSpec => []SampledOptimumIsReported
  BY LoweringIsFaithful, OptimumReported
=============================================================================
