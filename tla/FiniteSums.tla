----------------------------- MODULE FiniteSums -----------------------------
(***************************************************************************)
(* Two facts of arithmetic that the proofs rest on: a non-empty set of     *)
(* naturals has a smallest element, and how a sum over a finite set, as    *)
(* the folds of the community modules compute it, changes with the set     *)
(* and with the values.                                                    *)
(***************************************************************************)
EXTENDS Integers, FiniteSets, TLAPS, FiniteSetTheorems

(* A non-empty set of natural numbers has a smallest element: the          *)
(* intervals 0 .. m, ordered by strict inclusion, are well-founded.        *)
LEMMA Smallest ==
    ASSUME NEW S, S \subseteq Nat, S # {}
    PROVE  \E m \in S : \A k \in S : m <= k
  <1> DEFINE Below == {0 .. m : m \in S}
             R == StrictSubsetOrdering(Nat)
  <1>1. Below \subseteq FiniteSubsetsOf(Nat) /\ Below # {}
    <2>1. \A m \in S : 0 .. m \in SUBSET Nat
      OBVIOUS
    <2>2. \A m \in S : IsFiniteSet(0 .. m)
      BY FS_Interval
    <2>3. \A m \in S : 0 .. m \in FiniteSubsetsOf(Nat)
      BY <2>1, <2>2 DEF FiniteSubsetsOf
    <2> QED
      BY <2>3
  <1>2. IsWellFoundedOn(R, FiniteSubsetsOf(Nat))
    BY FS_StrictSubsetOrderingWellFounded
  <1>3. \E x \in Below : \A y \in Below : ~ (<<y, x>> \in R)
    <2> HIDE DEF Below, R
    <2> QED
      BY <1>1, <1>2, WFMin
  <1>4. PICK m \in S : \A k \in S : ~ (<<0 .. k, 0 .. m>> \in R)
    BY <1>3
  <1>5. ASSUME NEW k \in S, k < m PROVE FALSE
    <2>1. k \in Nat /\ m \in Nat
      OBVIOUS
    <2>2. 0 .. k \subseteq 0 .. m /\ 0 .. k \subseteq Nat /\ 0 .. m \subseteq Nat
      BY <1>5, <2>1
    <2>3. m \in 0 .. m /\ m \notin 0 .. k
      BY <1>5, <2>1
    <2>4. <<0 .. k, 0 .. m>> \in R
      BY <2>2, <2>3 DEF StrictSubsetOrdering
    <2> QED
      BY <1>4, <2>4
  <1> QED
    BY <1>5

-----------------------------------------------------------------------------
(* The element a fold takes next, and the table it fills: g[s] is the sum  *)
(* of f over s, for every s \subseteq S.                                   *)
Picked(s) == CHOOSE x \in s : TRUE
SumFrom(f, g, s) == IF s = {} THEN 0 ELSE f[Picked(s)] + g[s \ {Picked(s)}]
IsTable(g, f, S) == g = [s \in SUBSET S |-> SumFrom(f, g, s)]
Sum(f, S) == (CHOOSE g : IsTable(g, f, S))[S]

(* The next element is one of the set; without it the set is smaller.      *)
LEMMA NextIsSmaller ==
    ASSUME NEW S, IsFiniteSet(S), NEW s \in SUBSET S, s # {}
    PROVE  /\ Picked(s) \in s
           /\ s \ {Picked(s)} \in SUBSET S
           /\ IsFiniteSet(s)
           /\ Cardinality(s) \in Nat
           /\ Cardinality(s \ {Picked(s)}) \in Nat
           /\ Cardinality(s \ {Picked(s)}) = Cardinality(s) - 1
  <1>1. IsFiniteSet(s)
    BY FS_Subset
  <1>2. Picked(s) \in s
    BY DEF Picked
  <1> HIDE DEF Picked
  <1>3. IsFiniteSet(s \ {Picked(s)})
    BY <1>1, FS_Subset
  <1> QED
    BY <1>1, <1>2, <1>3, FS_RemoveElement, FS_CardinalityType

(* The fold is defined: there is a table for every finite set.             *)
LEMMA TableExists ==
    ASSUME NEW S, IsFiniteSet(S), NEW f, \A x \in S : f[x] \in Int
    PROVE  \E g \in [SUBSET S -> Int] : IsTable(g, f, S)
  <1> DEFINE UpTo(n, g) == \A s \in SUBSET S : Cardinality(s) <= n => g[s] = SumFrom(f, g, s)
             Claim(n) == \E g \in [SUBSET S -> Int] : UpTo(n, g)
             Bad == {n \in Nat : ~ Claim(n)}
  <1>1. ASSUME Bad # {} PROVE FALSE
    <2>1. PICK m \in Bad : \A k \in Bad : m <= k
      <3>1. Bad \subseteq Nat
        OBVIOUS
      <3> HIDE DEF Bad
      <3> QED
        BY <1>1, <3>1, Smallest
    <2>2. m \in Nat /\ ~ Claim(m)
      BY <2>1
    <2>3. CASE m = 0
      <3> DEFINE g == [s \in SUBSET S |-> 0]
      <3>1. ASSUME NEW s \in SUBSET S, Cardinality(s) <= 0 PROVE g[s] = SumFrom(f, g, s)
        <4>1. ASSUME s # {} PROVE FALSE
          <5>1. /\ Cardinality(s) \in Nat /\ Cardinality(s \ {Picked(s)}) \in Nat
                /\ Cardinality(s \ {Picked(s)}) = Cardinality(s) - 1
            BY <4>1, NextIsSmaller
          <5> QED
            BY <3>1, <5>1
        <4> QED
          BY <4>1 DEF SumFrom
      <3>2. g \in [SUBSET S -> Int]
        OBVIOUS
      <3> HIDE DEF g
      <3> QED
        BY <2>2, <2>3, <3>1, <3>2
    <2>4. CASE m # 0
      <3>1. PICK g \in [SUBSET S -> Int] : UpTo(m - 1, g)
        <4>1. m - 1 \in Nat /\ ~ (m <= m - 1)
          BY <2>2, <2>4
        <4>2. m - 1 \notin Bad
          <5> HIDE DEF Bad
          <5> QED
            BY <2>1, <4>1
        <4> QED
          BY <4>1, <4>2
      <3> DEFINE h == [s \in SUBSET S |-> SumFrom(f, g, s)]
      <3>2. h \in [SUBSET S -> Int]
        <4>1. ASSUME NEW s \in SUBSET S PROVE SumFrom(f, g, s) \in Int
          <5>1. CASE s = {}
            BY <5>1 DEF SumFrom
          <5>2. CASE s # {}
            <6>1. Picked(s) \in S /\ s \ {Picked(s)} \in SUBSET S
              BY <5>2, NextIsSmaller
            <6>2. f[Picked(s)] \in Int /\ g[s \ {Picked(s)}] \in Int
              BY <6>1
            <6> QED
              BY <5>2, <6>2 DEF SumFrom
          <5> QED
            BY <5>1, <5>2
        <4> QED
          BY <4>1
      <3>3. ASSUME NEW s \in SUBSET S, Cardinality(s) <= m PROVE h[s] = SumFrom(f, h, s)
        <4>1. CASE s = {}
          BY <4>1 DEF SumFrom
        <4>2. CASE s # {}
          <5> DEFINE t == s \ {Picked(s)}
          <5>1. t \in SUBSET S /\ Cardinality(t) <= m - 1
            BY <2>2, <3>3, <4>2, NextIsSmaller
          <5>2. g[t] = SumFrom(f, g, t)
            BY <3>1, <5>1
          <5>3. h[t] = g[t]
            BY <5>1, <5>2
          <5> QED
            BY <4>2, <5>3 DEF SumFrom
        <4> QED
          BY <4>1, <4>2
      <3> HIDE DEF h
      <3> QED
        BY <2>2, <3>2, <3>3
    <2> QED
      BY <2>3, <2>4
  <1>2. Cardinality(S) \in Nat
    BY FS_CardinalityType
  <1>3. PICK g \in [SUBSET S -> Int] : UpTo(Cardinality(S), g)
    BY <1>1, <1>2
  <1>4. ASSUME NEW s \in SUBSET S PROVE g[s] = SumFrom(f, g, s)
    BY <1>3, FS_Subset
  <1>5. IsTable(g, f, S)
    BY <1>4 DEF IsTable
  <1> QED
    BY <1>5

(* Two tables of the same values agree.                                    *)
LEMMA TableIsUnique ==
    ASSUME NEW S, IsFiniteSet(S), NEW f, NEW h, \A x \in S : f[x] = h[x],
           NEW g, \A s \in SUBSET S : g[s] = SumFrom(f, g, s),
           NEW k, \A s \in SUBSET S : k[s] = SumFrom(h, k, s)
    PROVE  g[S] = k[S]
  <1> DEFINE Bad == {n \in Nat : \E s \in SUBSET S : Cardinality(s) = n /\ g[s] # k[s]}
  <1>1. ASSUME Bad # {} PROVE FALSE
    <2>1. PICK m \in Bad : \A i \in Bad : m <= i
      <3>1. Bad \subseteq Nat
        OBVIOUS
      <3> HIDE DEF Bad
      <3> QED
        BY <1>1, <3>1, Smallest
    <2>2. PICK s \in SUBSET S : Cardinality(s) = m /\ g[s] # k[s]
      BY <2>1
    <2>3. CASE s = {}
      BY <2>2, <2>3 DEF SumFrom
    <2>4. CASE s # {}
      <3> DEFINE t == s \ {Picked(s)}
      <3>1. /\ Picked(s) \in S /\ t \in SUBSET S
            /\ Cardinality(s) \in Nat /\ Cardinality(t) \in Nat
            /\ Cardinality(t) = Cardinality(s) - 1
        BY <2>4, NextIsSmaller
      <3>2. g[t] = k[t]
        <4>1. ~ (m <= Cardinality(t))
          BY <2>2, <3>1
        <4>2. Cardinality(t) \notin Bad
          <5> HIDE DEF Bad
          <5> QED
            BY <2>1, <4>1
        <4> QED
          BY <3>1, <4>2
      <3>3. f[Picked(s)] = h[Picked(s)]
        BY <3>1
      <3> QED
        BY <2>2, <2>4, <3>2, <3>3 DEF SumFrom
    <2> QED
      BY <2>3, <2>4
  <1>2. Cardinality(S) \in Nat
    BY FS_CardinalityType
  <1> QED
    BY <1>1, <1>2

(* What Sum picks is a table, whose entries are sums too.                  *)
LEMMA SumTable ==
    ASSUME NEW S, IsFiniteSet(S), NEW f, \A x \in S : f[x] \in Int
    PROVE  \E g \in [SUBSET S -> Int] :
             /\ \A s \in SUBSET S : g[s] = SumFrom(f, g, s)
             /\ \A s \in SUBSET S : g[s] = Sum(f, s)
  <1>1. PICK g \in [SUBSET S -> Int] : IsTable(g, f, S)
    BY TableExists
  <1>2. \A s \in SUBSET S : g[s] = SumFrom(f, g, s)
    BY <1>1 DEF IsTable
  <1>3. ASSUME NEW s \in SUBSET S PROVE g[s] = Sum(f, s)
    <2> DEFINE k == CHOOSE k : IsTable(k, f, s)
    <2>1. IsFiniteSet(s)
      BY FS_Subset
    <2>2. \E i : IsTable(i, f, s)
      BY <2>1, TableExists
    <2>3. IsTable(k, f, s)
      BY <2>2
    <2> HIDE DEF k
    <2>4. \A t \in SUBSET s : k[t] = SumFrom(f, k, t)
      BY <2>3 DEF IsTable
    <2>5. \A t \in SUBSET s : g[t] = SumFrom(f, g, t)
      BY <1>2
    <2>6. g[s] = k[s]
      BY <2>1, <2>4, <2>5, TableIsUnique
    <2> QED
      BY <2>6 DEF Sum, k
  <1> QED
    BY <1>2, <1>3

(* The fold of the community modules, once its operator is a function.     *)
LEMMA FoldIsSum ==
    ASSUME NEW S, IsFiniteSet(S), NEW f, \A x \in S : f[x] \in Int,
           NEW g, IsTable(g, f, S)
    PROVE  g[S] = Sum(f, S)
  <1>1. \A s \in SUBSET S : g[s] = SumFrom(f, g, s)
    BY DEF IsTable
  <1>2. PICK k \in [SUBSET S -> Int] :
           /\ \A s \in SUBSET S : k[s] = SumFrom(f, k, s)
           /\ \A s \in SUBSET S : k[s] = Sum(f, s)
    BY SumTable
  <1>3. g[S] = k[S]
    BY <1>1, <1>2, TableIsUnique
  <1> QED
    BY <1>2, <1>3

(* The empty sum, and the type of a sum of integers.                       *)
LEMMA SumEmpty == ASSUME NEW f PROVE Sum(f, {}) = 0
  <1>1. IsFiniteSet({})
    BY FS_EmptySet
  <1>2. PICK g \in [SUBSET {} -> Int] :
           /\ \A s \in SUBSET {} : g[s] = SumFrom(f, g, s)
           /\ \A s \in SUBSET {} : g[s] = Sum(f, s)
    BY <1>1, SumTable
  <1> QED
    BY <1>2 DEF SumFrom

LEMMA SumInt ==
    ASSUME NEW S, IsFiniteSet(S), NEW f, \A x \in S : f[x] \in Int
    PROVE  Sum(f, S) \in Int
  <1>1. PICK g \in [SUBSET S -> Int] :
           /\ \A s \in SUBSET S : g[s] = SumFrom(f, g, s)
           /\ \A s \in SUBSET S : g[s] = Sum(f, s)
    BY SumTable
  <1> QED
    BY <1>1

(* Any element can be taken out of a sum, whatever the fold takes next.    *)
LEMMA SumRemove ==
    ASSUME NEW S, IsFiniteSet(S), NEW f, \A x \in S : f[x] \in Int, NEW x \in S
    PROVE  Sum(f, S) = f[x] + Sum(f, S \ {x})
  <1>1. PICK g \in [SUBSET S -> Int] :
           /\ \A s \in SUBSET S : g[s] = SumFrom(f, g, s)
           /\ \A s \in SUBSET S : g[s] = Sum(f, s)
    BY SumTable
  <1> DEFINE Right(s) == \A y \in s : g[s] = f[y] + g[s \ {y}]
             Bad == {n \in Nat : \E s \in SUBSET S : Cardinality(s) = n /\ ~ Right(s)}
  <1>2. ASSUME Bad # {} PROVE FALSE
    <2>1. PICK m \in Bad : \A i \in Bad : m <= i
      <3>1. Bad \subseteq Nat
        OBVIOUS
      <3> HIDE DEF Bad
      <3> QED
        BY <1>2, <3>1, Smallest
    <2>2. PICK s \in SUBSET S : Cardinality(s) = m /\ ~ Right(s)
      BY <2>1
    <2>3. PICK y \in s : g[s] # f[y] + g[s \ {y}]
      BY <2>2
    <2> DEFINE z == Picked(s)
               without == s \ {z}
    <2>4. /\ z \in s
          /\ Cardinality(s) \in Nat
          /\ Cardinality(without) \in Nat /\ Cardinality(without) = Cardinality(s) - 1
      BY NextIsSmaller
    <2> HIDE DEF z
    <2>5. g[s] = f[z] + g[without]
      BY <1>1, <2>3 DEF SumFrom, z
    <2>6. y # z
      BY <2>3, <2>5
    <2>7. \A t \in SUBSET S : Cardinality(t) \in Nat /\ Cardinality(t) < m => Right(t)
      <3>1. ASSUME NEW t \in SUBSET S, Cardinality(t) \in Nat, Cardinality(t) < m PROVE Right(t)
        <4>1. ~ (m <= Cardinality(t))
          BY <2>2, <2>4, <3>1
        <4>2. Cardinality(t) \notin Bad
          <5> HIDE DEF Bad
          <5> QED
            BY <2>1, <4>1
        <4> QED
          BY <3>1, <4>2
      <3> QED
        BY <3>1
    <2>8. g[without] = f[y] + g[without \ {y}]
      <3>1. without \in SUBSET S /\ Cardinality(without) < m /\ y \in without
        BY <2>2, <2>4, <2>6
      <3> HIDE DEF without
      <3>2. Right(without)
        BY <2>4, <2>7, <3>1
      <3> QED
        BY <3>1, <3>2
    <2>9. g[s \ {y}] = f[z] + g[(s \ {y}) \ {z}]
      <3> DEFINE t == s \ {y}
      <3>1. t \in SUBSET S /\ z \in t
        BY <2>4, <2>6
      <3>2. Cardinality(t) \in Nat /\ Cardinality(t) < m
        <4>1. IsFiniteSet(s)
          BY FS_Subset
        <4>2. Cardinality(t) = Cardinality(s) - 1
          BY <4>1, FS_RemoveElement
        <4> QED
          BY <2>2, <2>4, <4>2
      <3> HIDE DEF t
      <3>3. Right(t)
        BY <2>7, <3>1, <3>2
      <3>4. g[t] = f[z] + g[t \ {z}]
        BY <3>1, <3>3
      <3> QED
        BY <3>4 DEF t
    <2>10. without \ {y} = (s \ {y}) \ {z}
      OBVIOUS
    <2>11. /\ f[y] \in Int /\ f[z] \in Int /\ g[without \ {y}] \in Int
           /\ g[s \ {y}] \in Int /\ g[without] \in Int /\ g[s] \in Int
      BY <2>4
    <2>12. g[(s \ {y}) \ {z}] \in Int /\ g[without] = f[y] + g[(s \ {y}) \ {z}]
      BY <2>8, <2>10, <2>11
    <2> HIDE DEF without
    <2> QED
      BY <2>3, <2>5, <2>9, <2>11, <2>12
  <1>3. Cardinality(S) \in Nat
    BY FS_CardinalityType
  <1>4. Right(S)
    BY <1>2, <1>3
  <1>5. g[S] = f[x] + g[S \ {x}]
    BY <1>4
  <1> QED
    BY <1>1, <1>5

(* Adding an element adds its value.                                       *)
LEMMA SumAdd ==
    ASSUME NEW S, IsFiniteSet(S), NEW f, NEW x, x \notin S,
           \A y \in S \cup {x} : f[y] \in Int
    PROVE  Sum(f, S \cup {x}) = Sum(f, S) + f[x]
  <1> DEFINE T == S \cup {x}
  <1>1. IsFiniteSet(T) /\ x \in T /\ T \ {x} = S
    BY FS_AddElement
  <1>2. Sum(f, S) \in Int
    BY SumInt
  <1>3. f[x] \in Int /\ \A y \in T : f[y] \in Int
    OBVIOUS
  <1> HIDE DEF T
  <1>4. Sum(f, T) = f[x] + Sum(f, T \ {x})
    BY <1>1, <1>3, SumRemove
  <1>5. Sum(f, T) = f[x] + Sum(f, S)
    BY <1>1, <1>4
  <1>6. Sum(f, T) = Sum(f, S) + f[x]
    BY <1>2, <1>3, <1>5
  <1> QED
    BY <1>6 DEF T

(* Only the values over the set matter.                                    *)
LEMMA SumEqual ==
    ASSUME NEW S, IsFiniteSet(S), NEW f, \A x \in S : f[x] \in Int,
           NEW h, \A x \in S : h[x] = f[x]
    PROVE  Sum(h, S) = Sum(f, S)
  <1>1. PICK g \in [SUBSET S -> Int] : IsTable(g, f, S)
    BY TableExists
  <1>2. ASSUME NEW s \in SUBSET S PROVE SumFrom(f, g, s) = SumFrom(h, g, s)
    <2>1. s # {} => Picked(s) \in S
      BY NextIsSmaller
    <2> QED
      BY <2>1 DEF SumFrom
  <1>3. IsTable(g, h, S)
    BY <1>1, <1>2 DEF IsTable
  <1>4. \A x \in S : h[x] \in Int
    OBVIOUS
  <1>5. g[S] = Sum(f, S) /\ g[S] = Sum(h, S)
    BY <1>1, <1>3, <1>4, FoldIsSum
  <1> QED
    BY <1>5

(* One value changes: the sum changes by the difference.                   *)
LEMMA SumChange ==
    ASSUME NEW S, IsFiniteSet(S), NEW f, NEW h, NEW x \in S,
           \A y \in S : f[y] \in Int /\ h[y] \in Int,
           \A y \in S \ {x} : f[y] = h[y]
    PROVE  Sum(h, S) = Sum(f, S) - f[x] + h[x]
  <1>1. Sum(f, S) = f[x] + Sum(f, S \ {x}) /\ Sum(h, S) = h[x] + Sum(h, S \ {x})
    BY SumRemove
  <1>2. IsFiniteSet(S \ {x})
    BY FS_Subset
  <1>3. Sum(f, S \ {x}) = Sum(h, S \ {x})
    BY <1>2, SumEqual
  <1>4. Sum(f, S \ {x}) \in Int
    BY <1>2, SumInt
  <1> QED
    BY <1>1, <1>3, <1>4

(* A sum of naturals is a natural; a sum of zeros is zero.                 *)
LEMMA SumNat ==
    ASSUME NEW S, IsFiniteSet(S), NEW f, \A x \in S : f[x] \in Nat
    PROVE  Sum(f, S) \in Nat
  <1>0. \A x \in S : f[x] \in Int
    OBVIOUS
  <1>1. PICK g \in [SUBSET S -> Int] :
           /\ \A s \in SUBSET S : g[s] = SumFrom(f, g, s)
           /\ \A s \in SUBSET S : g[s] = Sum(f, s)
    BY <1>0, SumTable
  <1> DEFINE Bad == {n \in Nat : \E s \in SUBSET S : Cardinality(s) = n /\ g[s] \notin Nat}
  <1>2. ASSUME Bad # {} PROVE FALSE
    <2>1. PICK m \in Bad : \A i \in Bad : m <= i
      <3>1. Bad \subseteq Nat
        OBVIOUS
      <3> HIDE DEF Bad
      <3> QED
        BY <1>2, <3>1, Smallest
    <2>2. PICK s \in SUBSET S : Cardinality(s) = m /\ g[s] \notin Nat
      BY <2>1
    <2>3. CASE s = {}
      <3>1. g[s] = 0
        BY <1>1, <2>3 DEF SumFrom
      <3> QED
        BY <2>2, <3>1
    <2>4. CASE s # {}
      <3> DEFINE t == s \ {Picked(s)}
      <3>1. /\ Picked(s) \in S /\ t \in SUBSET S
            /\ Cardinality(s) \in Nat /\ Cardinality(t) \in Nat
            /\ Cardinality(t) = Cardinality(s) - 1
        BY <2>4, NextIsSmaller
      <3>2. g[t] \in Nat
        <4>1. ~ (m <= Cardinality(t))
          BY <2>2, <3>1
        <4>2. Cardinality(t) \notin Bad
          <5> HIDE DEF Bad
          <5> QED
            BY <2>1, <4>1
        <4> QED
          BY <3>1, <4>2
      <3>3. f[Picked(s)] \in Nat
        BY <3>1
      <3>4. g[s] = f[Picked(s)] + g[t]
        BY <1>1, <2>4 DEF SumFrom
      <3> QED
        BY <2>2, <3>2, <3>3, <3>4
    <2> QED
      BY <2>3, <2>4
  <1>3. Cardinality(S) \in Nat
    BY FS_CardinalityType
  <1> QED
    BY <1>1, <1>2, <1>3

LEMMA SumZero ==
    ASSUME NEW S, IsFiniteSet(S), NEW f, \A x \in S : f[x] = 0
    PROVE  Sum(f, S) = 0
  <1> DEFINE g == [s \in SUBSET S |-> 0]
  <1>1. ASSUME NEW s \in SUBSET S PROVE g[s] = SumFrom(f, g, s)
    <2>1. CASE s = {}
      BY <2>1 DEF SumFrom
    <2>2. CASE s # {}
      <3>1. Picked(s) \in S /\ s \ {Picked(s)} \in SUBSET S
        BY <2>2, NextIsSmaller
      <3> QED
        BY <2>2, <3>1 DEF SumFrom
    <2> QED
      BY <2>1, <2>2
  <1>2. IsTable(g, f, S)
    BY <1>1 DEF IsTable
  <1>3. g[S] = 0
    OBVIOUS
  <1> HIDE DEF g
  <1> QED
    BY <1>2, <1>3, FoldIsSum
=============================================================================
