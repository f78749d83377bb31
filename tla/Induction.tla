------------------------------- MODULE Induction -------------------------------
(***************************************************************************)
(* Induction over the natural numbers, stated of sets: a property is       *)
(* proved of every number by proving it of the set of numbers that have it.*)
(* With it: functions defined by recursion, and sums over finite sets.     *)
(***************************************************************************)
EXTENDS Integers, Functions, FiniteSetTheorems, WellFoundedInduction, TLAPS

\* A non-empty set of natural numbers has a least element.
LEMMA LeastElement ==
  ASSUME NEW T, T \subseteq Nat, T # {}
  PROVE  \E x \in T : \A y \in T : x <= y
  <1>1. PICK x \in T : \A y \in T : ~(<<y, x>> \in OpToRel(<, Nat))
    BY WFMin, NatLessThanWellFounded
  <1>2. \A y \in T : ~(y < x) BY <1>1 DEF OpToRel
  <1> QED BY <1>2

\* A set with 0 and, with each number up to n, the next, has all of them.
LEMMA InductionUpTo ==
  ASSUME NEW n \in Nat, NEW T, 0 \in T,
         \A k \in 0 .. n - 1 : k \in T => k + 1 \in T
  PROVE  \A k \in 0 .. n : k \in T
  <1> DEFINE missing == {k \in 0 .. n : k \notin T}
  <1>1. SUFFICES ASSUME missing # {} PROVE FALSE
    OBVIOUS
  <1>2. missing \subseteq Nat OBVIOUS
  <1>3. PICK k \in missing : \A j \in missing : k <= j BY <1>1, <1>2, LeastElement
  <1>4. k \in 0 .. n /\ k \notin T BY <1>3
  <1>5. k # 0 BY <1>4
  <1>6. k - 1 \in 0 .. n - 1 BY <1>4, <1>5
  <1>7. k - 1 \in T
    <2>1. k - 1 \in missing \/ k - 1 \in T BY <1>6
    <2> QED BY <1>3, <1>4, <2>1
  <1>8. (k - 1) + 1 \in T BY <1>6, <1>7
  <1> QED BY <1>4, <1>8

(***************************************************************************)
(* Functions defined by recursion on 0 .. n, with values in V: base is the *)
(* first one, next[k] makes a value of the one before it.                  *)
(***************************************************************************)
Recursions(n, V) == [0 .. n - 1 -> [V -> V]]

DefinedBy(n, V, base, next) ==
  {f \in [0 .. n -> V] : f[0] = base /\ \A k \in 0 .. n - 1 : f[k + 1] = next[k][f[k]]}

LEMMA RecursiveFunction ==
  ASSUME NEW n \in Nat, NEW V, NEW base \in V, NEW next \in Recursions(n, V)
  PROVE  \E f : f \in DefinedBy(n, V, base, next)
  <1> USE DEF Recursions, DefinedBy
  <1> DEFINE Defines(f, m) == /\ f[0] = base
                              /\ \A k \in 0 .. m - 1 : f[k + 1] = next[k][f[k]]
             T == {m \in 0 .. n : \E f \in [0 .. m -> V] : Defines(f, m)}
  <1>1. 0 \in T
    <2> DEFINE f == [k \in 0 .. 0 |-> base]
    <2>1. Defines(f, 0) /\ f \in [0 .. 0 -> V] OBVIOUS
    <2> HIDE DEF f, Defines
    <2> QED BY <2>1
  <1>2. ASSUME NEW m \in 0 .. n - 1, m \in T PROVE m + 1 \in T
    <2>1. PICK f \in [0 .. m -> V] : Defines(f, m) BY <1>2
    <2> DEFINE g == [k \in 0 .. m + 1 |-> IF k <= m THEN f[k] ELSE next[m][f[m]]]
    <2>2. next[m] \in [V -> V] /\ f[m] \in V OBVIOUS
    <2>3. next[m][f[m]] \in V BY <2>2
    <2>4. g \in [0 .. m + 1 -> V] BY <2>3
    <2>5. \A k \in 0 .. m : g[k] = f[k] OBVIOUS
    <2>6. g[m + 1] = next[m][f[m]] OBVIOUS
    <2> HIDE DEF g
    <2>7. \A k \in 0 .. (m + 1) - 1 : g[k + 1] = next[k][g[k]]
      <3> SUFFICES ASSUME NEW k \in 0 .. (m + 1) - 1 PROVE g[k + 1] = next[k][g[k]]
        OBVIOUS
      <3>1. CASE k = m BY <2>5, <2>6, <3>1
      <3>2. CASE k # m
        <4>1. k \in 0 .. m - 1 /\ k \in 0 .. m /\ k + 1 \in 0 .. m BY <3>2
        <4> QED BY <2>1, <2>5, <4>1
      <3> QED BY <3>1, <3>2
    <2>8. Defines(g, m + 1) BY <2>1, <2>5, <2>7
    <2> HIDE DEF Defines
    <2> QED BY <2>4, <2>8
  <1> HIDE DEF T
  <1>3. n \in T
    <2>1. \A k \in 0 .. n : k \in T BY <1>1, <1>2, InductionUpTo
    <2> QED BY <2>1
  <1> QED BY <1>3 DEF T

(***************************************************************************)
(* Sums over finite sets.  SumFunctionOnSet takes the elements in an order *)
(* that CHOOSE fixes; what it returns does not depend on it.               *)
(***************************************************************************)
Chosen(s) == CHOOSE x \in s : TRUE

SumBody(f, g, s) == IF s = {} THEN 0 ELSE f[Chosen(s)] + g[s \ {Chosen(s)}]

\* The function SumFunctionOnSet defines by recursion, for the subsets of S.
Sums(f, S) == CHOOSE g : g = [s \in SUBSET S |-> SumBody(f, g, s)]

LEMMA SumIsSums ==
  ASSUME NEW f, NEW S
  PROVE  SumFunctionOnSet(f, S) = Sums(f, S)[S]
  BY DEF SumFunctionOnSet, FoldFunctionOnSet, MapThenFoldSet, Sums, SumBody, Chosen

LEMMA ChosenIn ==
  ASSUME NEW s, s # {}
  PROVE  Chosen(s) \in s
  BY DEF Chosen

\* The subsets of S of at most k elements.
UpTo(S, k) == {s \in SUBSET S : Cardinality(s) <= k}

LEMMA SmallerSubset ==
  ASSUME NEW S, IsFiniteSet(S), NEW k \in Nat, NEW s \in UpTo(S, k + 1), NEW x \in s
  PROVE  s \ {x} \in UpTo(S, k)
  <1>1. IsFiniteSet(s) BY FS_Subset DEF UpTo
  <1>2. Cardinality(s \ {x}) = Cardinality(s) - 1 /\ Cardinality(s) \in Nat
    BY <1>1, FS_RemoveElement, FS_CardinalityType
  <1> QED BY <1>2 DEF UpTo

LEMMA UpToZero ==
  ASSUME NEW S, IsFiniteSet(S)
  PROVE  \A s \in UpTo(S, 0) : s = {}
  <1> SUFFICES ASSUME NEW s \in UpTo(S, 0) PROVE s = {}
    OBVIOUS
  <1>1. IsFiniteSet(s) /\ s \in SUBSET S /\ Cardinality(s) <= 0 BY FS_Subset DEF UpTo
  <1>2. Cardinality(s) \in Nat BY <1>1, FS_CardinalityType
  <1> QED BY <1>1, <1>2, FS_EmptySet

LEMMA UpToAll ==
  ASSUME NEW S, IsFiniteSet(S)
  PROVE  UpTo(S, Cardinality(S)) = SUBSET S
  <1>1. ASSUME NEW s \in SUBSET S PROVE Cardinality(s) <= Cardinality(S) BY FS_Subset
  <1> QED BY <1>1 DEF UpTo

\* The recursion defines a function: it is built for ever larger subsets.
LEMMA SumsUpTo ==
  ASSUME NEW S, IsFiniteSet(S), NEW f, \A x \in S : f[x] \in Int, NEW n \in Nat
  PROVE  \E g \in [UpTo(S, n) -> Int] : \A s \in UpTo(S, n) : g[s] = SumBody(f, g, s)
  <1> DEFINE Defines(g, k) == \A s \in UpTo(S, k) : g[s] = SumBody(f, g, s)
             T == {k \in 0 .. n : \E g \in [UpTo(S, k) -> Int] : Defines(g, k)}
  <1>1. 0 \in T
    <2> DEFINE g == [s \in UpTo(S, 0) |-> 0]
    <2>1. \A s \in UpTo(S, 0) : s = {} BY UpToZero
    <2>2. Defines(g, 0) BY <2>1 DEF SumBody
    <2>3. g \in [UpTo(S, 0) -> Int] OBVIOUS
    <2> HIDE DEF g, Defines
    <2> QED BY <2>2, <2>3
  <1>2. ASSUME NEW k \in 0 .. n - 1, k \in T PROVE k + 1 \in T
    <2>1. PICK g \in [UpTo(S, k) -> Int] : Defines(g, k) BY <1>2
    <2> DEFINE G == [s \in UpTo(S, k + 1) |-> SumBody(f, g, s)]
    <2>2. ASSUME NEW s \in UpTo(S, k + 1), s # {}
          PROVE  s \ {Chosen(s)} \in UpTo(S, k) /\ Chosen(s) \in S
      <3>1. Chosen(s) \in s BY <2>2, ChosenIn
      <3> QED BY <3>1, SmallerSubset DEF UpTo
    <2>3. G \in [UpTo(S, k + 1) -> Int] BY <2>2 DEF SumBody
    <2>4. \A s \in UpTo(S, k) : s \in UpTo(S, k + 1) /\ G[s] = g[s]
      <3> SUFFICES ASSUME NEW s \in UpTo(S, k) PROVE s \in UpTo(S, k + 1) /\ G[s] = g[s]
        OBVIOUS
      <3>1. IsFiniteSet(s) BY FS_Subset DEF UpTo
      <3>2. Cardinality(s) \in Nat BY <3>1, FS_CardinalityType
      <3>3. s \in UpTo(S, k + 1) BY <3>2 DEF UpTo
      <3> QED BY <2>1, <3>3
    <2>5. \A s \in UpTo(S, k + 1) : G[s] = SumBody(f, G, s)
      <3> SUFFICES ASSUME NEW s \in UpTo(S, k + 1) PROVE G[s] = SumBody(f, G, s)
        OBVIOUS
      <3>1. G[s] = SumBody(f, g, s) OBVIOUS
      <3> HIDE DEF G
      <3>2. CASE s = {} BY <3>1, <3>2 DEF SumBody
      <3>3. CASE s # {} BY <2>2, <2>4, <3>1, <3>3 DEF SumBody
      <3> QED BY <3>2, <3>3
    <2>6. Defines(G, k + 1) BY <2>5
    <2> HIDE DEF G, Defines
    <2> QED BY <2>3, <2>6
  <1> HIDE DEF T
  <1>3. \A k \in 0 .. n : k \in T BY <1>1, <1>2, InductionUpTo
  <1>4. n \in T BY <1>3
  <1> QED BY <1>4 DEF T

LEMMA SumsDefined ==
  ASSUME NEW S, IsFiniteSet(S), NEW f, \A x \in S : f[x] \in Int
  PROVE  /\ Sums(f, S) \in [SUBSET S -> Int]
         /\ \A s \in SUBSET S : Sums(f, S)[s] = SumBody(f, Sums(f, S), s)
  <1>1. Cardinality(S) \in Nat BY FS_CardinalityType
  <1>2. UpTo(S, Cardinality(S)) = SUBSET S BY UpToAll
  <1>3. PICK g \in [SUBSET S -> Int] : \A s \in SUBSET S : g[s] = SumBody(f, g, s)
    <2> DEFINE n == Cardinality(S)
    <2>1. n \in Nat BY <1>1
    <2> HIDE DEF n
    <2>2. \E g \in [UpTo(S, n) -> Int] : \A s \in UpTo(S, n) : g[s] = SumBody(f, g, s)
      BY <2>1, SumsUpTo
    <2> QED BY <1>2, <2>2 DEF n
  <1>4. g = [s \in SUBSET S |-> SumBody(f, g, s)] BY <1>3
  <1>5. Sums(f, S) = [s \in SUBSET S |-> SumBody(f, Sums(f, S), s)] BY <1>4 DEF Sums
  <1> DEFINE G == Sums(f, S)
  <1>6. G = [s \in SUBSET S |-> SumBody(f, G, s)] BY <1>5
  <1> HIDE DEF G
  <1>7. \A s \in SUBSET S : G[s] = SumBody(f, G, s) BY <1>6
  <1> DEFINE n == Cardinality(S)
             T == {k \in 0 .. n : \A s \in UpTo(S, k) : G[s] \in Int}
  <1>0. n \in Nat BY <1>1
  <1> HIDE DEF n
  <1>e. G[{}] = 0
    <2>1. {} \in SUBSET S OBVIOUS
    <2>2. G[{}] = SumBody(f, G, {}) BY <1>7, <2>1
    <2> QED BY <2>2 DEF SumBody
  <1>8. 0 \in T
    <2>1. \A s \in UpTo(S, 0) : s = {} BY UpToZero
    <2>2. ASSUME NEW s \in UpTo(S, 0) PROVE G[s] \in Int
      <3>1. G[s] = 0 BY <1>e, <2>1
      <3> QED BY <3>1
    <2> QED BY <1>0, <2>2
  <1>9. ASSUME NEW k \in 0 .. n - 1, k \in T PROVE k + 1 \in T
    <2>1. ASSUME NEW s \in UpTo(S, k + 1) PROVE G[s] \in Int
      <3>1. CASE s = {} BY <1>e, <3>1
      <3>2. CASE s # {}
        <4>1. Chosen(s) \in s /\ s \in SUBSET S BY <3>2, ChosenIn DEF UpTo
        <4>2. s \ {Chosen(s)} \in UpTo(S, k) BY <1>0, <4>1, SmallerSubset
        <4>3. G[s \ {Chosen(s)}] \in Int BY <1>9, <4>2
        <4>4. f[Chosen(s)] \in Int BY <4>1
        <4>5. G[s] = f[Chosen(s)] + G[s \ {Chosen(s)}] BY <1>7, <3>2, <4>1 DEF SumBody
        <4> QED BY <4>3, <4>4, <4>5
      <3> QED BY <3>1, <3>2
    <2>2. \A s \in UpTo(S, k + 1) : G[s] \in Int BY <2>1
    <2>3. k + 1 \in 0 .. n BY <1>0
    <2> QED BY <2>2, <2>3
  <1> HIDE DEF T
  <1>10. \A k \in 0 .. n : k \in T BY <1>0, <1>8, <1>9, InductionUpTo
  <1>11. n \in T BY <1>0, <1>10
  <1>12. \A s \in SUBSET S : G[s] \in Int BY <1>2, <1>11 DEF T, n
  <1> QED BY <1>6, <1>7, <1>12 DEF G

\* Any element may be taken first.
LEMMA AnyFirst ==
  ASSUME NEW S, IsFiniteSet(S), NEW f, \A x \in S : f[x] \in Int
  PROVE  \A s \in SUBSET S : \A x \in s : Sums(f, S)[s] = f[x] + Sums(f, S)[s \ {x}]
  <1> DEFINE G == Sums(f, S)
             n == Cardinality(S)
             Free(s) == \A x \in s : G[s] = f[x] + G[s \ {x}]
             T == {k \in 0 .. n : \A s \in UpTo(S, k) : Free(s)}
  <1>0. n \in Nat BY FS_CardinalityType
  <1>1. /\ \A s \in SUBSET S : G[s] = SumBody(f, G, s)
        /\ \A s \in SUBSET S : G[s] \in Int
    BY SumsDefined
  <1>2. UpTo(S, n) = SUBSET S BY UpToAll
  <1> HIDE DEF G, n
  <1>3. 0 \in T
    <2>1. \A s \in UpTo(S, 0) : s = {} BY UpToZero
    <2>2. \A s \in UpTo(S, 0) : Free(s) BY <2>1
    <2> HIDE DEF Free
    <2> QED BY <1>0, <2>2
  <1>4. ASSUME NEW k \in 0 .. n - 1, k \in T PROVE k + 1 \in T
    <2>1. ASSUME NEW s \in UpTo(S, k + 1), NEW x \in s PROVE G[s] = f[x] + G[s \ {x}]
      <3> DEFINE c == Chosen(s)
      <3>1. c \in s /\ s \in SUBSET S BY ChosenIn DEF UpTo
      <3>2. G[s] = f[c] + G[s \ {c}] BY <1>1, <3>1 DEF SumBody
      <3> HIDE DEF c
      <3>3. CASE x = c BY <3>2, <3>3
      <3>4. CASE x # c
        <4>1. s \ {c} \in UpTo(S, k) /\ s \ {x} \in UpTo(S, k) BY <1>0, <3>1, SmallerSubset
        <4>2. Free(s \ {c}) /\ Free(s \ {x}) BY <1>4, <4>1
        <4>3. x \in s \ {c} /\ c \in s \ {x} BY <3>1, <3>4
        <4>4. (s \ {c}) \ {x} = (s \ {x}) \ {c} OBVIOUS
        <4> DEFINE rest == G[(s \ {c}) \ {x}]
        <4>5. G[s \ {c}] = f[x] + rest /\ G[s \ {x}] = f[c] + rest BY <4>2, <4>3, <4>4
        <4>6. rest \in Int BY <1>1, <3>1
        <4>7. f[x] \in Int /\ f[c] \in Int BY <3>1
        <4> HIDE DEF rest
        <4> QED BY <3>2, <4>5, <4>6, <4>7
      <3> QED BY <3>3, <3>4
    <2>2. \A s \in UpTo(S, k + 1) : Free(s) BY <2>1
    <2>3. k + 1 \in 0 .. n BY <1>0
    <2> HIDE DEF Free
    <2> QED BY <2>2, <2>3
  <1> HIDE DEF T
  <1>5. \A k \in 0 .. n : k \in T BY <1>0, <1>3, <1>4, InductionUpTo
  <1>6. n \in T BY <1>0, <1>5
  <1> QED BY <1>2, <1>6 DEF T, G

\* The sum over a set is the same among the subsets of any larger one, and depends
\* on the values on that set only.
LEMMA SumsAgree ==
  ASSUME NEW S, IsFiniteSet(S), NEW f, \A x \in S : f[x] \in Int,
         NEW R, IsFiniteSet(R), NEW g, \A x \in R : g[x] \in Int
  PROVE  \A s \in SUBSET (S \cap R) : (\A x \in s : f[x] = g[x]) => Sums(f, S)[s] = Sums(g, R)[s]
  <1> DEFINE F == Sums(f, S)
             G == Sums(g, R)
             C == S \cap R
             n == Cardinality(C)
             Agree(s) == (\A x \in s : f[x] = g[x]) => F[s] = G[s]
             T == {k \in 0 .. n : \A s \in UpTo(C, k) : Agree(s)}
  <1>c. IsFiniteSet(C)
    <2>1. C \in SUBSET S OBVIOUS
    <2> HIDE DEF C
    <2> QED BY <2>1, FS_Subset
  <1>0. n \in Nat BY <1>c, FS_CardinalityType
  <1>1. /\ \A s \in SUBSET S : F[s] = SumBody(f, F, s)
        /\ \A s \in SUBSET R : G[s] = SumBody(g, G, s)
    BY SumsDefined
  <1>2. UpTo(C, n) = SUBSET C BY <1>c, UpToAll
  <1> HIDE DEF F, G, n
  <1>e. F[{}] = G[{}]
    <2>1. {} \in SUBSET S /\ {} \in SUBSET R OBVIOUS
    <2> QED BY <1>1, <2>1 DEF SumBody
  <1>3. 0 \in T
    <2>1. \A s \in UpTo(C, 0) : s = {} BY <1>c, UpToZero
    <2>2. \A s \in UpTo(C, 0) : Agree(s) BY <1>e, <2>1
    <2> HIDE DEF Agree, C
    <2> QED BY <1>0, <2>2
  <1>4. ASSUME NEW k \in 0 .. n - 1, k \in T PROVE k + 1 \in T
    <2>1. ASSUME NEW s \in UpTo(C, k + 1), \A x \in s : f[x] = g[x] PROVE F[s] = G[s]
      <3>1. CASE s = {} BY <1>e, <3>1
      <3>2. CASE s # {}
        <4> DEFINE c == Chosen(s)
        <4>1. c \in s /\ s \in SUBSET C BY <3>2, ChosenIn DEF UpTo
        <4>2. F[s] = f[c] + F[s \ {c}] /\ G[s] = g[c] + G[s \ {c}]
          BY <1>1, <3>2, <4>1 DEF SumBody
        <4> HIDE DEF c, C
        <4>3. s \ {c} \in UpTo(C, k) BY <1>c, <1>0, <4>1, SmallerSubset
        <4>4. Agree(s \ {c}) BY <1>4, <4>3
        <4>5. F[s \ {c}] = G[s \ {c}] BY <2>1, <4>4
        <4> QED BY <2>1, <4>1, <4>2, <4>5
      <3> QED BY <3>1, <3>2
    <2>2. \A s \in UpTo(C, k + 1) : Agree(s) BY <2>1
    <2>3. k + 1 \in 0 .. n BY <1>0
    <2> HIDE DEF Agree, C
    <2> QED BY <2>2, <2>3
  <1> HIDE DEF T, C
  <1>5. \A k \in 0 .. n : k \in T BY <1>0, <1>3, <1>4, InductionUpTo
  <1>6. n \in T BY <1>0, <1>5
  <1>7. \A s \in SUBSET C : Agree(s) BY <1>2, <1>6 DEF T
  <1> QED BY <1>7 DEF C, F, G

LEMMA SumTyped ==
  ASSUME NEW S, IsFiniteSet(S), NEW f, \A x \in S : f[x] \in Int
  PROVE  SumFunctionOnSet(f, S) \in Int
  BY SumIsSums, SumsDefined

LEMMA SumEmpty ==
  ASSUME NEW f
  PROVE  SumFunctionOnSet(f, {}) = 0
  <1>1. IsFiniteSet({}) BY FS_EmptySet
  <1>2. \A s \in SUBSET {} : Sums(f, {})[s] = SumBody(f, Sums(f, {}), s) BY <1>1, SumsDefined
  <1>3. Sums(f, {})[{}] = 0 BY <1>2 DEF SumBody
  <1> QED BY <1>3, SumIsSums

\* Equal values have equal sums.
LEMMA SumSame ==
  ASSUME NEW S, IsFiniteSet(S), NEW f, \A x \in S : f[x] \in Int,
         NEW g, \A x \in S : f[x] = g[x]
  PROVE  SumFunctionOnSet(f, S) = SumFunctionOnSet(g, S)
  <1>1. \A x \in S : g[x] \in Int OBVIOUS
  <1>2. \A s \in SUBSET (S \cap S) :
          (\A x \in s : f[x] = g[x]) => Sums(f, S)[s] = Sums(g, S)[s]
    BY <1>1, SumsAgree
  <1>3. Sums(f, S)[S] = Sums(g, S)[S] BY <1>2
  <1> QED BY <1>3, SumIsSums

\* The sum over a part, among the sums over the parts of S.
LEMMA SumOfPart ==
  ASSUME NEW S, IsFiniteSet(S), NEW f, \A x \in S : f[x] \in Int, NEW P \in SUBSET S
  PROVE  SumFunctionOnSet(f, P) = Sums(f, S)[P]
  <1>1. IsFiniteSet(P) BY FS_Subset
  <1>2. \A x \in P : f[x] \in Int OBVIOUS
  <1>3. \A s \in SUBSET (S \cap P) :
          (\A x \in s : f[x] = f[x]) => Sums(f, S)[s] = Sums(f, P)[s]
    BY <1>1, <1>2, SumsAgree
  <1>4. Sums(f, S)[P] = Sums(f, P)[P] BY <1>3
  <1> QED BY <1>4, SumIsSums

\* The sum over a set is what any of its parts adds and what the rest adds.
LEMMA SumSplit ==
  ASSUME NEW S, IsFiniteSet(S), NEW f, \A x \in S : f[x] \in Int, NEW P \in SUBSET S
  PROVE  SumFunctionOnSet(f, S) = SumFunctionOnSet(f, P) + SumFunctionOnSet(f, S \ P)
  <1>a. \A s \in SUBSET S : \A x \in s : Sums(f, S)[s] = f[x] + Sums(f, S)[s \ {x}]
    <2> SUFFICES ASSUME NEW s \in SUBSET S, NEW x \in s
                 PROVE  Sums(f, S)[s] = f[x] + Sums(f, S)[s \ {x}]
      OBVIOUS
    <2> QED BY AnyFirst
  <1> DEFINE G == Sums(f, S)
             n == Cardinality(S)
             Splits(p) == G[S] = G[p] + G[S \ p]
             T == {k \in 0 .. n : \A p \in UpTo(S, k) : Splits(p)}
  <1>0. n \in Nat BY FS_CardinalityType
  <1>1. /\ \A s \in SUBSET S : G[s] = SumBody(f, G, s)
        /\ \A s \in SUBSET S : G[s] \in Int
    BY SumsDefined
  <1>3. UpTo(S, n) = SUBSET S BY UpToAll
  <1>4. SumFunctionOnSet(f, P) = G[P] /\ SumFunctionOnSet(f, S \ P) = G[S \ P]
        /\ SumFunctionOnSet(f, S) = G[S]
    BY SumOfPart
  <1> HIDE DEF G, n
  <1>2. \A s \in SUBSET S : \A x \in s : G[s] = f[x] + G[s \ {x}] BY <1>a DEF G
  <1>e. Splits({})
    <2>1. {} \in SUBSET S /\ S \in SUBSET S OBVIOUS
    <2>2. G[{}] = 0 BY <1>1, <2>1 DEF SumBody
    <2>3. G[S] \in Int BY <1>1, <2>1
    <2>4. S \ {} = S OBVIOUS
    <2> QED BY <2>2, <2>3, <2>4
  <1>5. 0 \in T
    <2>1. \A s \in UpTo(S, 0) : s = {} BY UpToZero
    <2> HIDE DEF Splits
    <2>2. \A s \in UpTo(S, 0) : Splits(s) BY <1>e, <2>1
    <2> QED BY <1>0, <2>2
  <1>6. ASSUME NEW k \in 0 .. n - 1, k \in T PROVE k + 1 \in T
    <2>1. ASSUME NEW p \in UpTo(S, k + 1) PROVE Splits(p)
      <3>1. CASE p = {} BY <1>e, <3>1
      <3>2. CASE p # {}
        <4>1. PICK c \in p : TRUE BY <3>2
        <4>2. p \in SUBSET S BY DEF UpTo
        <4>3. p \ {c} \in UpTo(S, k) BY <1>0, SmallerSubset
        <4>4. Splits(p \ {c}) BY <1>6, <4>3
        <4> DEFINE q == S \ (p \ {c})
        <4>5. q \in SUBSET S /\ c \in q /\ q \ {c} = S \ p BY <4>2
        <4>6. G[S] = G[p \ {c}] + G[q] BY <4>4
        <4> HIDE DEF q
        <4>7. G[p] = f[c] + G[p \ {c}] /\ G[q] = f[c] + G[S \ p] BY <1>2, <4>2, <4>5
        <4>8. f[c] \in Int /\ G[p \ {c}] \in Int /\ G[S \ p] \in Int
          <5>1. c \in S /\ p \ {c} \in SUBSET S /\ S \ p \in SUBSET S BY <4>2
          <5> QED BY <1>1, <5>1
        <4> QED BY <4>6, <4>7, <4>8
      <3> QED BY <3>1, <3>2
    <2> HIDE DEF Splits
    <2>2. \A s \in UpTo(S, k + 1) : Splits(s) BY <2>1
    <2>3. k + 1 \in 0 .. n BY <1>0
    <2> QED BY <2>2, <2>3
  <1> HIDE DEF T
  <1>7. \A k \in 0 .. n : k \in T BY <1>0, <1>5, <1>6, InductionUpTo
  <1>8. n \in T BY <1>0, <1>7
  <1>9. \A p \in SUBSET S : Splits(p) BY <1>3, <1>8 DEF T
  <1> QED BY <1>4, <1>9

\* One more element adds its value.
LEMMA SumAdd ==
  ASSUME NEW S, IsFiniteSet(S), NEW f, \A x \in S : f[x] \in Int, NEW x \in S
  PROVE  SumFunctionOnSet(f, S) = f[x] + SumFunctionOnSet(f, S \ {x})
  <1>1. S \ {x} \in SUBSET S /\ S \in SUBSET S OBVIOUS
  <1>2. Sums(f, S)[S] = f[x] + Sums(f, S)[S \ {x}] BY <1>1, AnyFirst
  <1> QED BY <1>1, <1>2, SumOfPart

\* A sum of natural numbers is one.
LEMMA SumNat ==
  ASSUME NEW S, IsFiniteSet(S), NEW f, \A x \in S : f[x] \in Nat
  PROVE  SumFunctionOnSet(f, S) \in Nat
  <1> DEFINE G == Sums(f, S)
             n == Cardinality(S)
             T == {k \in 0 .. n : \A s \in UpTo(S, k) : G[s] \in Nat}
  <1>0. n \in Nat BY FS_CardinalityType
  <1>i. \A x \in S : f[x] \in Int OBVIOUS
  <1>1. \A s \in SUBSET S : G[s] = SumBody(f, G, s) BY <1>i, SumsDefined
  <1>2. UpTo(S, n) = SUBSET S BY UpToAll
  <1> HIDE DEF G, n
  <1>e. G[{}] = 0
    <2>1. {} \in SUBSET S OBVIOUS
    <2>2. G[{}] = SumBody(f, G, {}) BY <1>1, <2>1
    <2> QED BY <2>2 DEF SumBody
  <1>3. 0 \in T
    <2>1. \A s \in UpTo(S, 0) : s = {} BY UpToZero
    <2>2. ASSUME NEW s \in UpTo(S, 0) PROVE G[s] \in Nat
      <3>1. G[s] = 0 BY <1>e, <2>1
      <3> QED BY <3>1
    <2> QED BY <1>0, <2>2
  <1>4. ASSUME NEW k \in 0 .. n - 1, k \in T PROVE k + 1 \in T
    <2>1. ASSUME NEW s \in UpTo(S, k + 1) PROVE G[s] \in Nat
      <3>1. CASE s = {} BY <1>e, <3>1
      <3>2. CASE s # {}
        <4>1. Chosen(s) \in s /\ s \in SUBSET S BY <3>2, ChosenIn DEF UpTo
        <4>2. s \ {Chosen(s)} \in UpTo(S, k) BY <1>0, <4>1, SmallerSubset
        <4>3. G[s \ {Chosen(s)}] \in Nat BY <1>4, <4>2
        <4>4. f[Chosen(s)] \in Nat BY <4>1
        <4>5. G[s] = f[Chosen(s)] + G[s \ {Chosen(s)}] BY <1>1, <3>2, <4>1 DEF SumBody
        <4> QED BY <4>3, <4>4, <4>5
      <3> QED BY <3>1, <3>2
    <2>2. \A s \in UpTo(S, k + 1) : G[s] \in Nat BY <2>1
    <2>3. k + 1 \in 0 .. n BY <1>0
    <2> QED BY <2>2, <2>3
  <1> HIDE DEF T
  <1>5. \A k \in 0 .. n : k \in T BY <1>0, <1>3, <1>4, InductionUpTo
  <1>6. n \in T BY <1>0, <1>5
  <1>7. \A s \in SUBSET S : G[s] \in Nat BY <1>2, <1>6 DEF T
  <1> QED BY <1>7, SumIsSums DEF G
================================================================================
