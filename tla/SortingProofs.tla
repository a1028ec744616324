--------------------------- MODULE SortingProofs ---------------------------
(***************************************************************************)
(* What the proofs about lists and loops rest on: a set of numbers has a   *)
(* least one, what every turn keeps holds after a loop, and a sorted list  *)
(* has every element of its set once.                                      *)
(***************************************************************************)
EXTENDS Sorting, Functions, FiniteSetTheorems, WellFoundedInduction, TLAPS

\* A set of numbers has a least one.
LEMMA LeastOf ==
  ASSUME NEW T, T \subseteq Nat, T # {}
  PROVE  \E x \in T : \A y \in T : x <= y
<1>1. PICK x \in T : \A y \in T : ~ (<<y, x>> \in OpToRel(<, Nat))
  BY NatLessThanWellFounded, WFMin, Zenon
<1>2. ASSUME NEW y \in T, y < x PROVE FALSE
  <2>1. <<y, x>> \in OpToRel(<, Nat)
    BY <1>2 DEF OpToRel
  <2> QED BY <1>1, <2>1
<1> QED BY <1>2

\* What holds of the beginning of a loop, and after every turn of it.
LEMMA TurnByTurn ==
  ASSUME NEW T, 0 \in T, \A n \in Nat : n \in T => n + 1 \in T
  PROVE  Nat \subseteq T
<1> DEFINE out == {n \in Nat : n \notin T}
<1> SUFFICES ASSUME out # {} PROVE FALSE
  OBVIOUS
<1>1. PICK n \in out : \A m \in out : n <= m
  <2> HIDE DEF out
  <2>1. out \subseteq Nat
    BY DEF out
  <2> QED BY <2>1, LeastOf
<1>2. n # 0 /\ n - 1 \in Nat /\ n - 1 \in T
  BY <1>1
<1> QED BY <1>1, <1>2

\* There are finitely many numbers up to one of them.
LEMMA NumbersAreFinite ==
  ASSUME NEW n \in Nat
  PROVE  IsFiniteSet(1..n) /\ Cardinality(1..n) = n
BY FS_Interval

\* Any finite set has a list in the order of its numbers.
LEMMA ListExists ==
  ASSUME NEW number, NEW S, IsFiniteSet(S), \A s \in S : number[s] \in Nat
  PROVE  \E list \in [1..Cardinality(S) -> S] :
            \A i, j \in DOMAIN list : i < j => list[i] # list[j] /\ number[list[i]] <= number[list[j]]
<1> DEFINE Ordered(list) ==
             \A i, j \in DOMAIN list : i < j => list[i] # list[j] /\ number[list[i]] <= number[list[j]]
           T == {n \in Nat : \A R : IsFiniteSet(R) /\ Cardinality(R) = n /\ (\A s \in R : number[s] \in Nat)
                                       => \E list \in [1..n -> R] : Ordered(list)}
<1>1. 0 \in T
  <2>1. ASSUME NEW R PROVE \E list \in [1..0 -> R] : Ordered(list)
    <3>1. [i \in 1..0 |-> i] \in [1..0 -> R] /\ Ordered([i \in 1..0 |-> i])
      OBVIOUS
    <3> QED BY <3>1
  <2> QED BY <2>1
<1>2. ASSUME NEW n \in Nat, n \in T PROVE n + 1 \in T
  <2> SUFFICES ASSUME NEW R, IsFiniteSet(R), Cardinality(R) = n + 1, \A s \in R : number[s] \in Nat
               PROVE  \E list \in [1..n + 1 -> R] : Ordered(list)
    OBVIOUS
  <2>1. PICK first \in R : \A s \in R : number[first] <= number[s]
    <3> DEFINE numbers == {number[s] : s \in R}
    <3>1. R # {} 
      BY FS_EmptySet
    <3>2. numbers \subseteq Nat /\ numbers # {}
      BY <3>1
    <3> HIDE DEF numbers
    <3>3. PICK k \in numbers : \A m \in numbers : k <= m
      BY <3>2, LeastOf
    <3> QED BY <3>3 DEF numbers
  <2> DEFINE rest == R \ {first}
  <2>2. IsFiniteSet(rest) /\ Cardinality(rest) = n /\ \A s \in rest : number[s] \in Nat
    <3>1. IsFiniteSet(rest) /\ Cardinality(rest) = Cardinality(R) - 1
      BY FS_RemoveElement, Zenon
    <3> QED BY <3>1
  <2>3. PICK list \in [1..n -> rest] : Ordered(list)
    BY <1>2, <2>2
  <2> DEFINE longer == [i \in 1..n + 1 |-> IF i = 1 THEN first ELSE list[i - 1]]
  <2>4. longer \in [1..n + 1 -> R]
    OBVIOUS
  <2>5. ASSUME NEW i \in 1..n + 1, NEW j \in 1..n + 1, i < j
        PROVE  longer[i] # longer[j] /\ number[longer[i]] <= number[longer[j]]
    <3>1. j - 1 \in 1..n /\ longer[j] = list[j - 1] /\ list[j - 1] \in rest
      BY <2>5
    <3>2. CASE i = 1
      BY <2>1, <3>1, <3>2
    <3>3. CASE i # 1
      <4>1. i - 1 \in 1..n /\ longer[i] = list[i - 1] /\ i - 1 < j - 1
        BY <2>5, <3>3
      <4> HIDE DEF longer, rest
      <4> QED BY <2>3, <3>1, <4>1
    <3> QED BY <3>2, <3>3
  <2> HIDE DEF longer
  <2>6. Ordered(longer)
    BY <2>4, <2>5
  <2> QED BY <2>4, <2>6
<1> HIDE DEF T
<1>3. Nat \subseteq T
  BY <1>1, <1>2, TurnByTurn
<1>4. Cardinality(S) \in T
  BY <1>3, FS_CardinalityType
<1> QED BY <1>4 DEF T

\* A list in the order of its numbers has every element of the set once.
LEMMA SortedIsComplete ==
  ASSUME NEW number, NEW S, IsFiniteSet(S), \A s \in S : number[s] \in Nat
  PROVE  /\ SortedBy(S, number) \in [1..Cardinality(S) -> S]
         /\ \A i, j \in 1..Cardinality(S) : SortedBy(S, number)[i] = SortedBy(S, number)[j] => i = j
         /\ \A s \in S : \E i \in 1..Cardinality(S) : SortedBy(S, number)[i] = s
<1> DEFINE list == SortedBy(S, number)
           n == Cardinality(S)
<1>1. n \in Nat
  BY FS_CardinalityType
<1>2. /\ list \in [1..n -> S]
      /\ \A i, j \in 1..n : i < j => list[i] # list[j] /\ number[list[i]] <= number[list[j]]
  BY ListExists DEF SortedBy
<1> HIDE DEF n, list
<1>3. \A i, j \in 1..n : list[i] = list[j] => i = j
  BY <1>1, <1>2
<1>4. list \in Injection(1..n, S)
  BY <1>2, <1>3 DEF Injection, IsInjective
<1>5. Cardinality(1..n) = n
  BY <1>1, FS_Interval
<1>6. list \in Surjection(1..n, S)
  BY <1>4, <1>5, FS_Injection DEF n
<1> QED BY <1>2, <1>3, <1>6 DEF Surjection, n, list
=============================================================================
