-------------------------- MODULE PrefixInduction --------------------------
(***************************************************************************)
(* Induction over the prefixes of a sequence, functions defined by         *)
(* recursion over them, and where a filter puts what it keeps.             *)
(***************************************************************************)
EXTENDS Naturals, Sequences, FiniteSets, WellFoundedInduction, FiniteSetTheorems, TLAPS

Less == {ss \in Nat \X Nat : ss[1] < ss[2]}

LEMMA LessWellFounded == IsWellFoundedOn(Less, Nat)
  BY NatLessThanWellFounded DEF OpToRel, Less

\* Induction on the natural numbers, for a set of them.
LEMMA SetInduction ==
  ASSUME NEW T, 0 \in T, \A n \in Nat : n \in T => n + 1 \in T
  PROVE  Nat \subseteq T
<1> SUFFICES ASSUME Nat \ T # {} PROVE FALSE
  OBVIOUS
<1>1. PICK x \in Nat \ T : \A y \in Nat \ T : <<y, x>> \notin Less
  <2>1. Nat \ T \subseteq Nat
    OBVIOUS
  <2> QED BY LessWellFounded, <2>1, WFMin
<1>2. x # 0 /\ x - 1 \in Nat /\ x - 1 < x /\ (x - 1) + 1 = x
  BY <1>1
<1>3. <<x - 1, x>> \in Less
  BY <1>1, <1>2 DEF Less
<1>4. x - 1 \in T
  BY <1>1, <1>2, <1>3
<1> QED BY <1>1, <1>2, <1>4

\* And on an initial segment.
LEMMA PrefixSetInduction ==
  ASSUME NEW n \in Nat, NEW T, 0 \in T, \A i \in 0..n : i \in T /\ i + 1 \in 0..n => i + 1 \in T
  PROVE  0..n \subseteq T
<1> DEFINE U == {i \in Nat : i \in 0..n => i \in T}
<1>1. 0 \in U
  OBVIOUS
<1>2. ASSUME NEW i \in Nat, i \in U
      PROVE  i + 1 \in U
  <2>1. i + 1 \in 0..n => i \in 0..n
    OBVIOUS
  <2> QED BY <1>2, <2>1
<1> HIDE DEF U
<1>3. Nat \subseteq U
  BY <1>1, <1>2, SetInduction
<1> QED BY <1>3 DEF U

\* f is built prefix by prefix: from a start, with one step for each position.
Builds(f, n, start, step) == /\ f[0] = start
                             /\ \A i \in 1..n : f[i] = step[i][f[i - 1]]

\* There is such an f.
LEMMA PrefixRecursion ==
  ASSUME NEW S, NEW n \in Nat, NEW start \in S, NEW step \in [1..n -> [S -> S]]
  PROVE  \E f \in [0..n -> S] : Builds(f, n, start, step)
<1> DEFINE Built(m, f) == Builds(f, m, start, step)
           T == {m \in 0..n : \E f \in [0..m -> S] : Built(m, f)}
<1>1. 0 \in T
  <2> DEFINE g == [i \in 0..0 |-> start]
  <2>1. g \in [0..0 -> S] /\ g[0] = start /\ 1..0 = {}
    OBVIOUS
  <2>2. Built(0, g)
    BY <2>1 DEF Builds
  <2> HIDE DEF g
  <2> QED BY <2>1, <2>2
<1>2. ASSUME NEW m \in 0..n, m \in T, m + 1 \in 0..n
      PROVE  m + 1 \in T
  <2>1. PICK f \in [0..m -> S] : Built(m, f)
    BY <1>2
  <2> DEFINE g == [i \in 0..(m + 1) |-> IF i = m + 1 THEN step[m + 1][f[m]] ELSE f[i]]
  <2>2. m \in Nat /\ m \in 0..m /\ m + 1 \in 1..n
    BY <1>2
  <2>3. f[m] \in S /\ step[m + 1][f[m]] \in S
    <3>1. f[m] \in S /\ step[m + 1] \in [S -> S]
      BY <2>2
    <3> QED BY <3>1
  <2>4. g \in [0..(m + 1) -> S]
    BY <2>2, <2>3
  <2>5. Built(m + 1, g)
    <3>1. g[0] = start
      BY <2>1, <2>2 DEF Builds
    <3>2. ASSUME NEW i \in 1..(m + 1)
          PROVE  g[i] = step[i][g[i - 1]]
      <4>1. CASE i = m + 1
        <5>1. i - 1 = m /\ g[m] = f[m]
          BY <2>2, <4>1
        <5> QED BY <2>2, <4>1, <5>1
      <4>2. CASE i # m + 1
        <5>1. i \in 1..m /\ i - 1 \in 0..m /\ i - 1 # m + 1
          BY <2>2, <4>2
        <5>2. g[i] = f[i] /\ g[i - 1] = f[i - 1]
          BY <2>2, <4>2, <5>1
        <5> QED BY <2>1, <5>1, <5>2 DEF Builds
      <4> QED BY <4>1, <4>2
    <3> QED BY <3>1, <3>2 DEF Builds
  <2> HIDE DEF g
  <2> QED BY <1>2, <2>4, <2>5
<1> HIDE DEF T
<1>3. 0..n \subseteq T
  BY <1>1, <1>2, PrefixSetInduction
<1>4. n \in T
  BY <1>3
<1> QED BY <1>4 DEF T
-----------------------------------------------------------------------------
\* Of the first i positions those in P, and how many they are.
Below(P, i) == {j \in 1..i : j \in P}
Count(P, i) == Cardinality(Below(P, i))

LEMMA Counting ==
  ASSUME NEW P
  PROVE  /\ Count(P, 0) = 0
         /\ \A i \in Nat : /\ Count(P, i) \in Nat /\ Count(P, i) <= i
                           /\ Count(P, i + 1) = IF i + 1 \in P THEN Count(P, i) + 1
                                                ELSE Count(P, i)
<1>1. \A i \in Nat : IsFiniteSet(Below(P, i)) /\ Count(P, i) \in Nat /\ Count(P, i) <= i
  <2> SUFFICES ASSUME NEW i \in Nat
               PROVE  IsFiniteSet(Below(P, i)) /\ Count(P, i) \in Nat /\ Count(P, i) <= i
    OBVIOUS
  <2>1. IsFiniteSet(1..i) /\ Cardinality(1..i) = i
    BY FS_Interval
  <2>2. Below(P, i) \subseteq 1..i
    BY DEF Below
  <2>3. IsFiniteSet(Below(P, i)) /\ Cardinality(Below(P, i)) <= i
    BY <2>1, <2>2, FS_Subset
  <2> QED BY <2>3, FS_CardinalityType DEF Count
<1>2. Count(P, 0) = 0
  <2>1. Below(P, 0) = {}
    BY DEF Below
  <2> QED BY <2>1, FS_EmptySet DEF Count
<1>3. ASSUME NEW i \in Nat
      PROVE  Count(P, i + 1) = IF i + 1 \in P THEN Count(P, i) + 1 ELSE Count(P, i)
  <2>1. CASE i + 1 \notin P
    <3>1. Below(P, i + 1) = Below(P, i)
      BY <2>1 DEF Below
    <3> QED BY <2>1, <3>1 DEF Count
  <2>2. CASE i + 1 \in P
    <3>1. Below(P, i + 1) = Below(P, i) \cup {i + 1}
      BY <2>2 DEF Below
    <3>2. i + 1 \notin Below(P, i)
      BY DEF Below
    <3>3. Cardinality(Below(P, i) \cup {i + 1}) = Cardinality(Below(P, i)) + 1
      BY <1>1, <3>2, FS_AddElement
    <3> QED BY <2>2, <3>1, <3>3 DEF Count
  <2> QED BY <2>1, <2>2
<1> QED BY <1>1, <1>2, <1>3

\* q is what is at the positions of s in P, up to i, in their order.
Filtered(P, s, i, q) == /\ Len(q) = Count(P, i)
                        /\ \A j \in Below(P, i) : /\ Count(P, j) \in 1..Count(P, i)
                                                  /\ q[Count(P, j)] = s[j]

LEMMA FilterStep ==
  ASSUME NEW S, NEW q \in Seq(S), NEW P, NEW s, NEW i \in Nat, Filtered(P, s, i, q)
  PROVE  Filtered(P, s, i + 1, IF i + 1 \in P THEN Append(q, s[i + 1]) ELSE q)
<1>1. /\ Count(P, i) \in Nat /\ Len(q) = Count(P, i)
      /\ Count(P, i + 1) = IF i + 1 \in P THEN Count(P, i) + 1 ELSE Count(P, i)
  BY Counting DEF Filtered
<1>2. CASE i + 1 \notin P
  <2>1. Below(P, i + 1) = Below(P, i)
    BY <1>2 DEF Below
  <2> QED BY <1>1, <1>2, <2>1 DEF Filtered
<1>3. CASE i + 1 \in P
  <2> DEFINE r == Append(q, s[i + 1])
  <2>1. Below(P, i + 1) = Below(P, i) \cup {i + 1}
    BY <1>3 DEF Below
  <2>2. /\ Len(r) = Count(P, i) + 1 /\ r[Count(P, i) + 1] = s[i + 1]
        /\ \A k \in 1..Count(P, i) : r[k] = q[k]
    BY <1>1
  <2> HIDE DEF r
  <2>3. ASSUME NEW j \in Below(P, i + 1)
        PROVE  Count(P, j) \in 1..Count(P, i + 1) /\ r[Count(P, j)] = s[j]
    <3>1. CASE j \in Below(P, i)
      <4>1. Count(P, j) \in 1..Count(P, i) /\ q[Count(P, j)] = s[j]
        BY <3>1 DEF Filtered
      <4>2. Count(P, j) \in 1..Count(P, i + 1)
        BY <1>1, <1>3, <4>1
      <4> QED BY <2>2, <4>1, <4>2
    <3>2. CASE j = i + 1
      BY <1>1, <1>3, <2>2, <3>2
    <3> QED BY <2>1, <3>1, <3>2
  <2>4. Filtered(P, s, i + 1, r)
    BY <1>1, <1>3, <2>2, <2>3 DEF Filtered
  <2> QED BY <1>3, <2>4 DEF r
<1> QED BY <1>2, <1>3
=============================================================================
