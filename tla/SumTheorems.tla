---------------------------- MODULE SumTheorems ----------------------------
(***************************************************************************)
(* What the proofs about amounts and paths need and the library does not   *)
(* offer to these provers: induction stated with a set instead of a        *)
(* predicate, powers, and the sums of Functions.tla over a finite set,     *)
(* whose terms may be taken in any order.                                  *)
(***************************************************************************)
EXTENDS Integers, FiniteSets, Functions, WellFoundedInduction, FiniteSetTheorems, TLAPS

\* Induction over the naturals, for a set instead of a predicate.
LEMMA NatSetInduction ==
    ASSUME NEW S, 0 \in S, \A n \in Nat : n \in S => n + 1 \in S
    PROVE  Nat \subseteq S
<1> SUFFICES ASSUME NEW m \in Nat, m \notin S PROVE FALSE
    OBVIOUS
<1> DEFINE T == Nat \ S
<1>1. T # {} /\ T \subseteq Nat
    OBVIOUS
<1>2. \E x \in T : \A y \in T : ~(<<y, x>> \in OpToRel(<, Nat))
    <2> HIDE DEF T
    <2> QED BY <1>1, NatLessThanWellFounded, WFMin
<1>3. PICK x \in T : \A y \in T : ~(y < x)
    BY <1>2 DEF OpToRel
<1>4. x \in Nat /\ x # 0 /\ x - 1 \in Nat /\ x - 1 < x /\ x - 1 + 1 = x
    OBVIOUS
<1>5. x - 1 \in S
    BY <1>3, <1>4
<1> QED BY <1>3, <1>4, <1>5

\* Induction up to a number.
LEMMA UptoInduction ==
    ASSUME NEW N \in Nat, NEW T, 0 \in T, \A n \in 1..N : n - 1 \in T => n \in T
    PROVE  N \in T
<1> DEFINE S == {n \in Nat : n <= N => n \in T}
<1>1. 0 \in S
    OBVIOUS
<1>2. ASSUME NEW n \in Nat, n \in S
      PROVE  n + 1 \in S
    <2>1. n + 1 \in Nat
        OBVIOUS
    <2>2. n + 1 <= N => n + 1 \in 1..N /\ (n + 1) - 1 = n /\ n <= N
        OBVIOUS
    <2> QED BY <1>2, <2>1, <2>2
<1> HIDE DEF S
<1>3. Nat \subseteq S
    BY <1>1, <1>2, NatSetInduction
<1> QED BY <1>3 DEF S

(***************************************************************************)
(* Powers of a base, as a recursive function.                              *)
(***************************************************************************)
PowersTo(B, n, f) == f = [e \in 0..n |-> IF e = 0 THEN 1 ELSE f[e - 1] * B]

LEMMA PowersUpto ==
    ASSUME NEW B
    PROVE  \A n \in Nat : \E f : PowersTo(B, n, f)
<1> DEFINE T == {n \in Nat : \E f : PowersTo(B, n, f)}
<1>1. 0 \in T
    <2>1. PowersTo(B, 0, [e \in 0..0 |-> 1])
        BY DEF PowersTo
    <2> QED BY <2>1
<1>2. ASSUME NEW n \in Nat, n \in T
      PROVE  n + 1 \in T
    <2>1. PICK f : PowersTo(B, n, f)
        BY <1>2
    <2> DEFINE g == [e \in 0..(n + 1) |-> IF e = 0 THEN 1 ELSE f[e - 1] * B]
    <2>2. \A e \in 0..n : g[e] = f[e] /\ e \in 0..(n + 1)
        BY <2>1 DEF PowersTo
    <2>3. \A e \in 0..(n + 1) : e # 0 => e - 1 \in 0..n
        OBVIOUS
    <2>4. PowersTo(B, n + 1, g)
        BY <2>2, <2>3 DEF PowersTo
    <2> QED BY <2>4
<1> HIDE DEF T
<1>3. Nat \subseteq T
    BY <1>1, <1>2, NatSetInduction
<1> QED BY <1>3 DEF T

LEMMA PowersAgree ==
    ASSUME NEW B, NEW m \in Nat, NEW n \in Nat, NEW f, NEW g,
           PowersTo(B, m, f), PowersTo(B, n, g), m <= n
    PROVE  \A e \in 0..m : f[e] = g[e]
<1> DEFINE T == {e \in Nat : e <= m => f[e] = g[e]}
<1>1. 0 \in T
    BY DEF PowersTo
<1>2. ASSUME NEW e \in Nat, e \in T
      PROVE  e + 1 \in T
    <2> SUFFICES ASSUME e + 1 <= m
                 PROVE  f[e + 1] = g[e + 1]
        OBVIOUS
    <2>1. f[e] = g[e]
        BY <1>2
    <2>2. e + 1 \in 0..m /\ e + 1 \in 0..n /\ e + 1 # 0 /\ (e + 1) - 1 = e
        OBVIOUS
    <2>3. f[e + 1] = f[e] * B /\ g[e + 1] = g[e] * B
        BY <2>2 DEF PowersTo
    <2> QED BY <2>1, <2>3
<1> HIDE DEF T
<1>3. Nat \subseteq T
    BY <1>1, <1>2, NatSetInduction
<1> QED BY <1>3 DEF T

LEMMA PowersExist ==
    ASSUME NEW B
    PROVE  \E f : f = [n \in Nat |-> IF n = 0 THEN 1 ELSE f[n - 1] * B]
<1> DEFINE upTo(n) == CHOOSE f : PowersTo(B, n, f)
           F == [n \in Nat |-> upTo(n)[n]]
<1>1. \A n \in Nat : PowersTo(B, n, upTo(n))
    BY PowersUpto
<1>2. ASSUME NEW n \in Nat
      PROVE  F[n] = IF n = 0 THEN 1 ELSE F[n - 1] * B
    <2> HIDE DEF upTo
    <2>1. n = 0 => upTo(n)[n] = 1
        BY <1>1 DEF PowersTo
    <2>2. ASSUME n # 0
          PROVE  upTo(n)[n] = upTo(n - 1)[n - 1] * B
        <3>1. n - 1 \in Nat /\ n - 1 \in 0..(n - 1) /\ n \in 0..n
            BY <2>2
        <3>2. PowersTo(B, n - 1, upTo(n - 1)) /\ PowersTo(B, n, upTo(n)) /\ n - 1 <= n
            BY <1>1, <3>1
        <3>3. upTo(n - 1)[n - 1] = upTo(n)[n - 1]
            BY <3>1, <3>2, PowersAgree
        <3>4. upTo(n)[n] = upTo(n)[n - 1] * B
            BY <2>2, <3>1, <3>2 DEF PowersTo
        <3> QED BY <3>3, <3>4
    <2> QED BY <2>1, <2>2
<1> HIDE DEF F
<1>3. F = [n \in Nat |-> IF n = 0 THEN 1 ELSE F[n - 1] * B]
    <2>1. F = [n \in Nat |-> F[n]]
        BY DEF F
    <2> QED BY <1>2, <2>1
<1> QED BY <1>3

LEMMA PowersPositive ==
    ASSUME NEW B \in Nat \ {0}, NEW f, f = [n \in Nat |-> IF n = 0 THEN 1 ELSE f[n - 1] * B]
    PROVE  /\ f[0] = 1
           /\ \A n \in Nat : f[n] \in Nat \ {0} /\ f[n + 1] = f[n] * B
<1> DEFINE T == {n \in Nat : f[n] \in Nat \ {0}}
<1>1. 0 \in T /\ f[0] = 1
    OBVIOUS
<1>2. \A n \in Nat : f[n + 1] = f[n] * B
    <2> TAKE n \in Nat
    <2>1. n + 1 \in Nat /\ n + 1 # 0 /\ (n + 1) - 1 = n
        OBVIOUS
    <2> QED BY <2>1
<1>3. ASSUME NEW n \in Nat, n \in T
      PROVE  n + 1 \in T
    BY <1>2, <1>3
<1> HIDE DEF T
<1>4. Nat \subseteq T
    BY <1>1, <1>3, NatSetInduction
<1> QED BY <1>1, <1>2, <1>4 DEF T

AnyOf(s) == CHOOSE x \in s : TRUE

IsSum(f, S, g) ==
    g = [s \in SUBSET S |-> IF s = {} THEN 0 ELSE f[AnyOf(s)] + g[s \ {AnyOf(s)}]]

LEMMA SumIsChosen ==
    ASSUME NEW f, NEW S
    PROVE  SumFunctionOnSet(f, S) = (CHOOSE g : IsSum(f, S, g))[S]
BY Zenon DEF SumFunctionOnSet, FoldFunctionOnSet, MapThenFoldSet, IsSum, AnyOf


\* The subsets of a finite set, by how many members they have.
SubsetsUpTo(S, n) == {s \in SUBSET S : Cardinality(s) <= n}

PartialSum(f, S, n, g) ==
    g = [s \in SubsetsUpTo(S, n) |-> IF s = {} THEN 0 ELSE f[AnyOf(s)] + g[s \ {AnyOf(s)}]]

LEMMA AnyOfIn ==
    ASSUME NEW s, s # {}
    PROVE  AnyOf(s) \in s
BY DEF AnyOf

LEMMA SubsetCardinality ==
    ASSUME NEW S, IsFiniteSet(S), NEW s \in SUBSET S
    PROVE  /\ IsFiniteSet(s) /\ Cardinality(s) \in Nat /\ Cardinality(s) <= Cardinality(S)
           /\ Cardinality(s) = 0 <=> s = {}
           /\ \A x \in s : Cardinality(s \ {x}) = Cardinality(s) - 1
<1>1. IsFiniteSet(s)
    BY FS_Subset
<1>2. Cardinality(s) \in Nat /\ Cardinality(s) <= Cardinality(S)
    BY <1>1, FS_CardinalityType, FS_Subset
<1>3. Cardinality(s) = 0 <=> s = {}
    BY <1>1, FS_EmptySet
<1>4. \A x \in s : Cardinality(s \ {x}) = Cardinality(s) - 1
    BY <1>1, FS_RemoveElement
<1> QED BY <1>1, <1>2, <1>3, <1>4

LEMMA PartialSumExists ==
    ASSUME NEW f, NEW S, IsFiniteSet(S), NEW n \in Nat
    PROVE  \E g : PartialSum(f, S, n, g)
<1> DEFINE T == {m \in Nat : \E g : PartialSum(f, S, m, g)}
<1>1. 0 \in T
    <2> DEFINE g == [s \in SubsetsUpTo(S, 0) |-> 0]
    <2>1. \A s \in SubsetsUpTo(S, 0) : s = {}
        BY SubsetCardinality DEF SubsetsUpTo
    <2>2. PartialSum(f, S, 0, g)
        BY <2>1 DEF PartialSum
    <2> QED BY <2>2
<1>2. ASSUME NEW m \in Nat, m \in T
      PROVE  m + 1 \in T
    <2>1. PICK g : PartialSum(f, S, m, g)
        BY <1>2
    <2> DEFINE h == [s \in SubsetsUpTo(S, m + 1) |->
                        IF s = {} THEN 0 ELSE f[AnyOf(s)] + g[s \ {AnyOf(s)}]]
    <2>2. ASSUME NEW s \in SubsetsUpTo(S, m)
          PROVE  s \in SubsetsUpTo(S, m + 1) /\ h[s] = g[s]
        <3>1. s \in SubsetsUpTo(S, m + 1)
            BY SubsetCardinality DEF SubsetsUpTo
        <3>2. g[s] = IF s = {} THEN 0 ELSE f[AnyOf(s)] + g[s \ {AnyOf(s)}]
            BY <2>1 DEF PartialSum
        <3> QED BY <3>1, <3>2
    <2>3. ASSUME NEW s \in SubsetsUpTo(S, m + 1), s # {}
          PROVE  s \ {AnyOf(s)} \in SubsetsUpTo(S, m)
        <3>1. s \in SUBSET S /\ AnyOf(s) \in s /\ Cardinality(s) <= m + 1
            BY <2>3, AnyOfIn DEF SubsetsUpTo
        <3>2. Cardinality(s) \in Nat /\ Cardinality(s \ {AnyOf(s)}) = Cardinality(s) - 1
            BY <3>1, SubsetCardinality
        <3> QED BY <3>1, <3>2 DEF SubsetsUpTo
    <2>4. \A s \in SubsetsUpTo(S, m + 1) : s # {} => h[s \ {AnyOf(s)}] = g[s \ {AnyOf(s)}]
        BY <2>2, <2>3
    <2>5. PartialSum(f, S, m + 1, h)
        BY <2>4, Zenon DEF PartialSum
    <2> QED BY <2>5
<1> HIDE DEF T
<1>3. Nat \subseteq T
    BY <1>1, <1>2, NatSetInduction
<1> QED BY <1>3 DEF T

LEMMA SumExists ==
    ASSUME NEW f, NEW S, IsFiniteSet(S)
    PROVE  \E g : IsSum(f, S, g)
<1>1. Cardinality(S) \in Nat
    BY FS_CardinalityType
<1>2. SubsetsUpTo(S, Cardinality(S)) = SUBSET S
    BY SubsetCardinality DEF SubsetsUpTo
<1>3. PICK g : PartialSum(f, S, Cardinality(S), g)
    BY <1>1, PartialSumExists
<1>4. IsSum(f, S, g)
    BY <1>2, <1>3 DEF PartialSum, IsSum
<1> QED BY <1>4

SumOver(f, S) == CHOOSE g : IsSum(f, S, g)

\* The partial sums over the subsets of S do not depend on S.
LEMMA SumStep ==
    ASSUME NEW f, NEW S, IsFiniteSet(S)
    PROVE  /\ SumFunctionOnSet(f, {}) = 0
           /\ S # {} => SumFunctionOnSet(f, S) = f[AnyOf(S)] + SumFunctionOnSet(f, S \ {AnyOf(S)})
<1>1. ASSUME NEW R, IsFiniteSet(R)
      PROVE  IsSum(f, R, SumOver(f, R)) /\ SumFunctionOnSet(f, R) = SumOver(f, R)[R]
    BY <1>1, SumExists, SumIsChosen, Zenon DEF SumOver
<1>2. SumFunctionOnSet(f, {}) = 0
    <2>1. IsFiniteSet({})
        BY FS_EmptySet
    <2> QED BY <2>1, <1>1 DEF IsSum
<1>3. ASSUME S # {}
      PROVE  SumFunctionOnSet(f, S) = f[AnyOf(S)] + SumFunctionOnSet(f, S \ {AnyOf(S)})
    <2> DEFINE R == S \ {AnyOf(S)}
               T == {n \in Nat : \A s \in SUBSET R :
                        Cardinality(s) <= n => SumOver(f, R)[s] = SumOver(f, S)[s]}
    <2>1. IsFiniteSet(R) /\ R \in SUBSET S
        BY FS_Subset
    <2>2. \A s \in SUBSET R :
              /\ SumOver(f, R)[s] = IF s = {} THEN 0 ELSE f[AnyOf(s)] + SumOver(f, R)[s \ {AnyOf(s)}]
              /\ SumOver(f, S)[s] = IF s = {} THEN 0 ELSE f[AnyOf(s)] + SumOver(f, S)[s \ {AnyOf(s)}]
        <3> HIDE DEF R
        <3>1. \A s \in SUBSET R : s \in SUBSET S
            BY <2>1
        <3>2. IsSum(f, R, SumOver(f, R)) /\ IsSum(f, S, SumOver(f, S))
            BY <1>1, <2>1
        <3> QED BY <3>1, <3>2 DEF IsSum
    <2>3. 0 \in T
        <3> SUFFICES ASSUME NEW s \in SUBSET R, Cardinality(s) <= 0
                     PROVE  SumOver(f, R)[s] = SumOver(f, S)[s]
            OBVIOUS
        <3>1. s = {}
            BY <2>1, SubsetCardinality
        <3> QED BY <2>2, <3>1
    <2>4. ASSUME NEW n \in Nat, n \in T
          PROVE  n + 1 \in T
        <3>0. n + 1 \in Nat
            OBVIOUS
        <3> SUFFICES ASSUME NEW s \in SUBSET R, Cardinality(s) <= n + 1
                     PROVE  SumOver(f, R)[s] = SumOver(f, S)[s]
            BY <3>0, Zenon
        <3>1. \A t \in SUBSET R : Cardinality(t) <= n => SumOver(f, R)[t] = SumOver(f, S)[t]
            BY <2>4
        <3> HIDE DEF R
        <3>2. CASE s = {}
            BY <2>2, <3>2
        <3>3. CASE s # {}
            <4>1. AnyOf(s) \in s /\ s \ {AnyOf(s)} \in SUBSET R
                BY <3>3, AnyOfIn
            <4>2. Cardinality(s) \in Nat /\ Cardinality(s \ {AnyOf(s)}) = Cardinality(s) - 1
                BY <2>1, <4>1, SubsetCardinality
            <4>3. SumOver(f, R)[s \ {AnyOf(s)}] = SumOver(f, S)[s \ {AnyOf(s)}]
                BY <3>1, <4>1, <4>2
            <4> QED BY <2>2, <3>3, <4>3
        <3> QED BY <3>2, <3>3
    <2>5. Nat \subseteq T
        <3> HIDE DEF T
        <3> QED BY <2>3, <2>4, NatSetInduction
    <2>6. SumOver(f, R)[R] = SumOver(f, S)[R]
        <3>1. Cardinality(R) \in Nat
            BY <2>1, FS_CardinalityType
        <3>2. Cardinality(R) \in T
            BY <2>5, <3>1
        <3>3. R \in SUBSET R /\ Cardinality(R) <= Cardinality(R)
            BY <3>1
        <3> QED BY <3>2, <3>3
    <2>7. SumOver(f, S)[S] = f[AnyOf(S)] + SumOver(f, S)[R]
        <3>1. IsSum(f, S, SumOver(f, S)) /\ S \in SUBSET S
            BY <1>1
        <3> QED BY <1>3, <3>1 DEF IsSum
    <2> HIDE DEF R
    <2>8. SumFunctionOnSet(f, S) = f[AnyOf(S)] + SumFunctionOnSet(f, R)
        BY <1>1, <2>1, <2>6, <2>7
    <2> QED BY <2>8 DEF R
<1> QED BY <1>2, <1>3

\* A sum of integers is an integer and its terms may be taken in any order.
LEMMA SumTakeOut ==
    ASSUME NEW f, NEW S, IsFiniteSet(S), \A x \in S : f[x] \in Int
    PROVE  /\ SumFunctionOnSet(f, S) \in Int
           /\ \A x \in S : SumFunctionOnSet(f, S) = f[x] + SumFunctionOnSet(f, S \ {x})
<1> DEFINE Fine(t) == /\ SumFunctionOnSet(f, t) \in Int
                      /\ \A x \in t : SumFunctionOnSet(f, t) = f[x] + SumFunctionOnSet(f, t \ {x})
           T == {n \in Nat : \A t \in SUBSET S : Cardinality(t) <= n => Fine(t)}
<1>1. Fine({})
    <2>1. SumFunctionOnSet(f, {}) = 0
        BY SumStep
    <2> QED BY <2>1
<1>2. 0 \in T
    BY <1>1, SubsetCardinality
<1>3. ASSUME NEW n \in Nat, n \in T
      PROVE  n + 1 \in T
    <2>1. \A t \in SUBSET S : Cardinality(t) <= n => Fine(t)
        BY <1>3
    <2>2. ASSUME NEW t \in SUBSET S, Cardinality(t) <= n + 1, t # {}
          PROVE  Fine(t)
        <3> DEFINE y == AnyOf(t)
        <3>1. IsFiniteSet(t) /\ y \in t /\ Cardinality(t) \in Nat
            BY <2>2, SubsetCardinality, AnyOfIn
        <3>2. \A x \in t : t \ {x} \in SUBSET S /\ Cardinality(t \ {x}) <= n
            BY <2>2, <3>1, SubsetCardinality
        <3>3. \A x \in t : Fine(t \ {x})
            BY <2>1, <3>2
        <3>4. SumFunctionOnSet(f, t) = f[y] + SumFunctionOnSet(f, t \ {y})
            BY <2>2, <3>1, SumStep
        <3> HIDE DEF y
        <3>5. SumFunctionOnSet(f, t \ {y}) \in Int /\ f[y] \in Int
            BY <3>1, <3>3
        <3>6. ASSUME NEW x \in t, x # y
              PROVE  SumFunctionOnSet(f, t) = f[x] + SumFunctionOnSet(f, t \ {x})
            <4> DEFINE u == (t \ {y}) \ {x}
            <4>1. SumFunctionOnSet(f, t \ {y}) = f[x] + SumFunctionOnSet(f, u)
                BY <3>1, <3>3, <3>6
            <4>2. u = (t \ {x}) \ {y}
                OBVIOUS
            <4>3. SumFunctionOnSet(f, t \ {x}) = f[y] + SumFunctionOnSet(f, u)
                BY <3>1, <3>3, <3>6, <4>2
            <4>4. SumFunctionOnSet(f, u) \in Int
                <5>1. u \in SUBSET S /\ Cardinality(u) <= n
                    <6>1. x \in t \ {y} /\ t \ {y} \in SUBSET S
                        BY <3>6
                    <6>2. Cardinality(t \ {y}) <= n /\ Cardinality(t \ {y}) \in Nat
                        BY <3>1, <3>2, <6>1, SubsetCardinality
                    <6>3. Cardinality(u) = Cardinality(t \ {y}) - 1
                        BY <6>1, SubsetCardinality
                    <6> QED BY <6>1, <6>2, <6>3
                <5> QED BY <2>1, <5>1
            <4> HIDE DEF u
            <4>5. f[x] \in Int
                OBVIOUS
            <4> QED BY <3>4, <3>5, <4>1, <4>3, <4>4, <4>5
        <3>7. \A x \in t : SumFunctionOnSet(f, t) = f[x] + SumFunctionOnSet(f, t \ {x})
            BY <3>4, <3>6
        <3>8. SumFunctionOnSet(f, t) \in Int
            BY <3>4, <3>5
        <3> QED BY <3>7, <3>8
    <2>3. \A t \in SUBSET S : Cardinality(t) <= n + 1 => Fine(t)
        BY <1>1, <2>2
    <2> HIDE DEF Fine
    <2>4. n + 1 \in Nat
        OBVIOUS
    <2> QED BY <2>3, <2>4, Zenon
<1> HIDE DEF Fine
<1>4. Nat \subseteq T
    <2> HIDE DEF T
    <2> QED BY <1>2, <1>3, NatSetInduction
<1>5. Cardinality(S) \in T /\ S \in SUBSET S /\ Cardinality(S) <= Cardinality(S)
    <2>1. Cardinality(S) \in Nat
        BY FS_CardinalityType
    <2> HIDE DEF T
    <2> QED BY <1>4, <2>1
<1>6. Fine(S)
    BY <1>5
<1> QED BY <1>6 DEF Fine

\* A sum of naturals is a natural, and sums of the same terms are the same.
LEMMA SumTerms ==
    ASSUME NEW f, NEW g, NEW S, IsFiniteSet(S), \A x \in S : f[x] \in Int /\ f[x] = g[x]
    PROVE  /\ SumFunctionOnSet(f, S) = SumFunctionOnSet(g, S)
           /\ (\A x \in S : f[x] >= 0) => SumFunctionOnSet(f, S) >= 0
<1> DEFINE Fine(t) == /\ SumFunctionOnSet(f, t) = SumFunctionOnSet(g, t)
                      /\ (\A x \in S : f[x] >= 0) => SumFunctionOnSet(f, t) >= 0
           T == {n \in Nat : \A t \in SUBSET S : Cardinality(t) <= n => Fine(t)}
<1>1. Fine({})
    <2>1. SumFunctionOnSet(f, {}) = 0 /\ SumFunctionOnSet(g, {}) = 0
        BY SumStep
    <2> QED BY <2>1
<1>2. 0 \in T
    BY <1>1, SubsetCardinality
<1>3. ASSUME NEW n \in Nat, n \in T
      PROVE  n + 1 \in T
    <2>1. \A t \in SUBSET S : Cardinality(t) <= n => Fine(t)
        BY <1>3
    <2>2. ASSUME NEW t \in SUBSET S, Cardinality(t) <= n + 1, t # {}
          PROVE  Fine(t)
        <3> DEFINE y == AnyOf(t)
        <3>1. IsFiniteSet(t) /\ y \in t /\ Cardinality(t) \in Nat /\ t \ {y} \in SUBSET S
            BY <2>2, SubsetCardinality, AnyOfIn
        <3>2. Cardinality(t \ {y}) <= n
            BY <2>2, <3>1, SubsetCardinality
        <3>3. Fine(t \ {y})
            BY <2>1, <3>1, <3>2
        <3>4. /\ SumFunctionOnSet(f, t) = f[y] + SumFunctionOnSet(f, t \ {y})
              /\ SumFunctionOnSet(g, t) = g[y] + SumFunctionOnSet(g, t \ {y})
            BY <2>2, <3>1, SumStep
        <3>5. SumFunctionOnSet(f, t \ {y}) \in Int
            <4>1. IsFiniteSet(t \ {y}) /\ \A x \in t \ {y} : f[x] \in Int
                BY <3>1, SubsetCardinality
            <4> QED BY <4>1, SumTakeOut
        <3> HIDE DEF y
        <3> QED BY <3>1, <3>3, <3>4, <3>5
    <2>3. \A t \in SUBSET S : Cardinality(t) <= n + 1 => Fine(t)
        BY <1>1, <2>2
    <2> HIDE DEF Fine
    <2>4. n + 1 \in Nat
        OBVIOUS
    <2> QED BY <2>3, <2>4, Zenon
<1> HIDE DEF Fine
<1>4. Nat \subseteq T
    <2> HIDE DEF T
    <2> QED BY <1>2, <1>3, NatSetInduction
<1>5. Cardinality(S) \in T /\ S \in SUBSET S /\ Cardinality(S) <= Cardinality(S)
    <2>1. Cardinality(S) \in Nat
        BY FS_CardinalityType
    <2> HIDE DEF T
    <2> QED BY <1>4, <2>1
<1>6. Fine(S)
    BY <1>5
<1> QED BY <1>6 DEF Fine

\* A finite sum of naturals is a natural, at least each of its terms.
LEMMA SumOfNats ==
    ASSUME NEW S, IsFiniteSet(S), NEW f \in [S -> Nat]
    PROVE  /\ SumFunction(f) \in Nat
           /\ \A x \in S : f[x] <= SumFunction(f)
<1>1. DOMAIN f = S /\ \A x \in S : f[x] \in Int /\ f[x] >= 0
    OBVIOUS
<1>2. SumFunction(f) = SumFunctionOnSet(f, S)
    BY <1>1 DEF SumFunction
<1>3. SumFunctionOnSet(f, S) \in Int /\ SumFunctionOnSet(f, S) >= 0
    BY <1>1, SumTakeOut, SumTerms
<1>4. ASSUME NEW x \in S
      PROVE  f[x] <= SumFunctionOnSet(f, S)
    <2>1. SumFunctionOnSet(f, S) = f[x] + SumFunctionOnSet(f, S \ {x})
        BY <1>1, SumTakeOut
    <2>2. IsFiniteSet(S \ {x}) /\ \A y \in S \ {x} : f[y] \in Int /\ f[y] >= 0
        BY <1>1, FS_Subset
    <2>3. SumFunctionOnSet(f, S \ {x}) \in Int
        BY <2>2, SumTakeOut
    <2>4. SumFunctionOnSet(f, S \ {x}) >= 0
        BY <2>2, SumTerms
    <2> QED BY <1>1, <2>1, <2>3, <2>4
<1> QED BY <1>2, <1>3, <1>4

\* Changing one term changes the sum by as much.
LEMMA SumUpdate ==
    ASSUME NEW S, IsFiniteSet(S), NEW f \in [S -> Int], NEW g \in [S -> Int], NEW x \in S,
           \A y \in S \ {x} : g[y] = f[y]
    PROVE  /\ SumFunction(f) \in Int
           /\ SumFunction(g) = SumFunction(f) - f[x] + g[x]
<1>1. /\ DOMAIN f = S /\ \A y \in S : f[y] \in Int
      /\ DOMAIN g = S /\ \A y \in S : g[y] \in Int
    OBVIOUS
<1>2. SumFunction(f) = SumFunctionOnSet(f, S) /\ SumFunction(g) = SumFunctionOnSet(g, S)
    BY <1>1 DEF SumFunction
<1>3. IsFiniteSet(S \ {x})
    BY FS_Subset
<1>4. SumFunctionOnSet(f, S) = f[x] + SumFunctionOnSet(f, S \ {x})
    BY <1>1, SumTakeOut
<1>5. SumFunctionOnSet(g, S) = g[x] + SumFunctionOnSet(g, S \ {x})
    BY <1>1, SumTakeOut
<1>6. \A y \in S \ {x} : f[y] \in Int /\ f[y] = g[y]
    BY <1>1
<1>7. SumFunctionOnSet(f, S \ {x}) = SumFunctionOnSet(g, S \ {x})
    BY <1>3, <1>6, SumTerms
<1>8. SumFunctionOnSet(f, S \ {x}) \in Int
    BY <1>3, <1>6, SumTakeOut
<1> QED BY <1>1, <1>2, <1>4, <1>5, <1>7, <1>8

\* One more term.
LEMMA SumAdd ==
    ASSUME NEW S, IsFiniteSet(S), NEW x, x \notin S, NEW U, U = S \cup {x},
           NEW f \in [S -> Int], NEW g \in [U -> Int], \A y \in S : g[y] = f[y]
    PROVE  SumFunction(g) = SumFunction(f) + g[x]
<1>1. IsFiniteSet(U) /\ x \in U /\ U \ {x} = S
    BY FS_AddElement
<1>2. /\ DOMAIN g = U /\ \A y \in U : g[y] \in Int
      /\ DOMAIN f = S /\ \A y \in S : f[y] \in Int /\ f[y] = g[y]
    OBVIOUS
<1>3. SumFunction(f) = SumFunctionOnSet(f, S) /\ SumFunction(g) = SumFunctionOnSet(g, U)
    BY <1>2 DEF SumFunction
<1>4. SumFunctionOnSet(g, U) = g[x] + SumFunctionOnSet(g, S)
    BY <1>1, <1>2, SumTakeOut
<1>5. SumFunctionOnSet(f, S) = SumFunctionOnSet(g, S)
    BY <1>2, SumTerms
<1>6. SumFunctionOnSet(f, S) \in Int
    BY <1>2, SumTakeOut
<1> QED BY <1>1, <1>2, <1>3, <1>4, <1>5, <1>6

=============================================================================
