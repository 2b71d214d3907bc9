-------------------------- MODULE EndpointNameProofs --------------------------
(***************************************************************************)
(* Proofs about NormalizeEndpointName, for names of any length over any    *)
(* alphabet: what it returns, that it is accepted, and that normalizing it *)
(* again changes nothing.                                                  *)
(***************************************************************************)
EXTENDS EndpointName, PrefixInduction

Chars == Allowed \cup {Disallowed}

-----------------------------------------------------------------------------
(***************************************************************************)
(* The scan, prefix by prefix.                                             *)
(***************************************************************************)
LEMMA Appended ==
  ASSUME NEW S, NEW q \in Seq(S), NEW e
  PROVE  /\ e \in S => Append(q, e) \in Seq(S)
         /\ Len(q) \in Nat /\ DOMAIN q = 1..Len(q)
         /\ Len(Append(q, e)) = Len(q) + 1
         /\ Append(q, e)[Len(q) + 1] = e
         /\ \A i \in 1..Len(q) : Append(q, e)[i] = q[i]
  OBVIOUS

LEMMA Nothing ==
  ASSUME NEW S
  PROVE  <<>> \in Seq(S)
  OBVIOUS

LEMMA Element ==
  ASSUME NEW S, NEW q \in Seq(S)
  PROVE  /\ Len(q) \in Nat /\ DOMAIN q = 1..Len(q)
         /\ \A i \in 1..Len(q) : q[i] \in S
  OBVIOUS

\* The recursive definition of the scan is one.
LEMMA KeptExists ==
  ASSUME NEW S, NEW s \in Seq(S)
  PROVE  Kept(s) = [i \in 0..Len(s) |->
                      IF i = 0 THEN <<>>
                      ELSE IF Doubled(s, i) THEN Kept(s)[i - 1]
                           ELSE Append(Kept(s)[i - 1], s[i])]
<1> DEFINE n == Len(s)
           step == [i \in 1..n |-> [q \in Seq(S) |-> IF Doubled(s, i) THEN q ELSE Append(q, s[i])]]
<1>1. n \in Nat /\ \A i \in 1..n : s[i] \in S
  BY Element
<1>2. step \in [1..n -> [Seq(S) -> Seq(S)]]
  BY <1>1, Appended
<1>3. PICK f \in [0..n -> Seq(S)] : /\ f[0] = <<>>
                                    /\ \A i \in 1..n : f[i] = step[i][f[i - 1]]
  <2> DEFINE Q == Seq(S)
             start == <<>>
  <2>1. start \in Q
    BY Nothing
  <2>2. n \in Nat /\ step \in [1..n -> [Q -> Q]]
    BY <1>1, <1>2
  <2> HIDE DEF step, n, Q, start
  <2>3. \E f \in [0..n -> Q] : Builds(f, n, start, step)
    BY <2>1, <2>2, PrefixRecursion
  <2> QED BY <2>3 DEF Builds, Q, start
<1>4. f = [i \in 0..n |-> IF i = 0 THEN <<>>
                          ELSE IF Doubled(s, i) THEN f[i - 1] ELSE Append(f[i - 1], s[i])]
  <2>1. ASSUME NEW i \in 1..n
        PROVE  f[i] = IF Doubled(s, i) THEN f[i - 1] ELSE Append(f[i - 1], s[i])
    <3>1. f[i - 1] \in Seq(S)
      BY <1>1
    <3> QED BY <1>3, <3>1
  <2>2. \A i \in 0..n : i = 0 \/ i \in 1..n
    BY <1>1
  <2> HIDE DEF n, step
  <2>3. \A i \in 0..n : f[i] = IF i = 0 THEN <<>>
                          ELSE IF Doubled(s, i) THEN f[i - 1] ELSE Append(f[i - 1], s[i])
    BY <1>3, <2>1, <2>2
  <2> QED BY <1>3, <2>3
<1> QED BY <1>4 DEF Kept

LEMMA KeptStep ==
  ASSUME NEW S, NEW s \in Seq(S)
  PROVE  /\ Kept(s)[0] = <<>>
         /\ \A i \in 0..Len(s) : i + 1 \in 0..Len(s) =>
              Kept(s)[i + 1] = IF Doubled(s, i + 1) THEN Kept(s)[i]
                               ELSE Append(Kept(s)[i], s[i + 1])
         /\ \A i \in 0..Len(s) : Kept(s)[i] \in Seq(S)
<1> DEFINE n == Len(s)
           T == {i \in 0..n : Kept(s)[i] \in Seq(S)}
<1>1. n \in Nat /\ \A i \in 1..n : s[i] \in S
  BY Element
<1>2. /\ Kept(s)[0] = <<>>
      /\ \A i \in 0..n : i + 1 \in 0..n =>
           Kept(s)[i + 1] = IF Doubled(s, i + 1) THEN Kept(s)[i]
                            ELSE Append(Kept(s)[i], s[i + 1])
  <2>1. 0 \in 0..n /\ \A i \in 0..n : i + 1 # 0 /\ (i + 1) - 1 = i
    BY <1>1
  <2> DEFINE f == Kept(s)
  <2>2. f = [i \in 0..n |-> IF i = 0 THEN <<>>
                            ELSE IF Doubled(s, i) THEN f[i - 1] ELSE Append(f[i - 1], s[i])]
    BY KeptExists
  <2> HIDE DEF f, n
  <2> QED BY <2>1, <2>2 DEF f
<1>3. 0 \in T
  <2>1. 0 \in 0..n
    BY <1>1
  <2> QED BY <1>2, <2>1, Nothing
<1>4. ASSUME NEW i \in 0..n, i \in T, i + 1 \in 0..n
      PROVE  i + 1 \in T
  <2>1. i + 1 \in 1..n
    BY <1>1, <1>4
  <2>2. Kept(s)[i + 1] = Kept(s)[i] \/ Kept(s)[i + 1] = Append(Kept(s)[i], s[i + 1])
    BY <1>2, <1>4
  <2>3. Append(Kept(s)[i], s[i + 1]) \in Seq(S)
    BY <1>1, <1>4, <2>1, Appended
  <2> QED BY <1>4, <2>2, <2>3
<1> HIDE DEF T
<1>5. 0..n \subseteq T
  BY <1>1, <1>3, <1>4, PrefixSetInduction
<1> QED BY <1>2, <1>5 DEF T

-----------------------------------------------------------------------------
(***************************************************************************)
(* Where the characters that are kept end up.                              *)
(***************************************************************************)
Upto(s, i) == {j \in 1..i : ~Doubled(s, j)}
Rank(s, i) == Cardinality(Upto(s, i))

Singles(s) == {j \in Nat : ~Doubled(s, j)}

LEMMA AsFilter ==
  ASSUME NEW s, NEW i \in Nat
  PROVE  Below(Singles(s), i) = Upto(s, i) /\ Count(Singles(s), i) = Rank(s, i)
<1>1. Below(Singles(s), i) = Upto(s, i)
  BY DEF Below, Singles, Upto
<1> QED BY <1>1 DEF Count, Rank

LEMMA Ranks ==
  ASSUME NEW s
  PROVE  \A i \in Nat : Rank(s, i) \in Nat /\ Rank(s, i) <= i
BY Counting, AsFilter

\* Every character that is kept is at its rank, in the result as in every later prefix.
LEMMA KeptPlaces ==
  ASSUME NEW S, NEW s \in Seq(S)
  PROVE  \A i \in 0..Len(s) :
           /\ Len(Kept(s)[i]) = Rank(s, i)
           /\ \A j \in Upto(s, i) : /\ Rank(s, j) \in 1..Rank(s, i)
                                    /\ Kept(s)[i][Rank(s, j)] = s[j]
<1> DEFINE n == Len(s)
           P == Singles(s)
           T == {i \in 0..n : Filtered(P, s, i, Kept(s)[i])}
<1>1. n \in Nat
  BY Element
<1>2. 0 \in T
  <2>1. Below(P, 0) = {} /\ Len(<<>>) = 0 /\ 0 \in 0..n
    BY <1>1 DEF Below
  <2> HIDE DEF P
  <2> QED BY <2>1, KeptStep, Counting DEF Filtered
<1>3. ASSUME NEW i \in 0..n, i \in T, i + 1 \in 0..n
      PROVE  i + 1 \in T
  <2> DEFINE q == Kept(s)[i]
  <2>1. /\ i \in Nat /\ q \in Seq(S) /\ Filtered(P, s, i, q)
        /\ Kept(s)[i + 1] = IF Doubled(s, i + 1) THEN q ELSE Append(q, s[i + 1])
    BY <1>3, KeptStep
  <2>2. i + 1 \in P <=> ~Doubled(s, i + 1)
    BY <2>1 DEF Singles
  <2> HIDE DEF P, q
  <2>3. Filtered(P, s, i + 1, IF i + 1 \in P THEN Append(q, s[i + 1]) ELSE q)
    BY <2>1, FilterStep
  <2>4. Kept(s)[i + 1] = IF i + 1 \in P THEN Append(q, s[i + 1]) ELSE q
    BY <2>1, <2>2
  <2> QED BY <1>3, <2>3, <2>4
<1> HIDE DEF T
<1>4. 0..n \subseteq T
  BY <1>1, <1>2, <1>3, PrefixSetInduction
<1>5. ASSUME NEW i \in 0..n
      PROVE  /\ Len(Kept(s)[i]) = Rank(s, i)
             /\ \A j \in Upto(s, i) : /\ Rank(s, j) \in 1..Rank(s, i)
                                      /\ Kept(s)[i][Rank(s, j)] = s[j]
  <2>1. i \in Nat /\ \A j \in Upto(s, i) : j \in Nat
    BY <1>1 DEF Upto
  <2>2. /\ Below(P, i) = Upto(s, i) /\ Count(P, i) = Rank(s, i)
        /\ \A j \in Upto(s, i) : Count(P, j) = Rank(s, j)
    BY <2>1, AsFilter
  <2>3. Filtered(P, s, i, Kept(s)[i])
    BY <1>4 DEF T
  <2> HIDE DEF P
  <2> QED BY <2>2, <2>3 DEF Filtered
<1> QED BY <1>5

Single(s, i, q) == /\ \A k \in 1..Len(q) : ~Doubled(q, k)
                   /\ i > 0 => Len(q) > 0 /\ (q[Len(q)] = "_" <=> s[i] = "_")

\* What one more character does to a prefix without double underscores.
LEMMA SingleStep ==
  ASSUME NEW S, NEW s \in Seq(S), NEW q \in Seq(S), NEW i \in Nat, i + 1 \in 1..Len(s),
         Single(s, i, q), i = 0 => q = <<>>
  PROVE  Single(s, i + 1, IF Doubled(s, i + 1) THEN q ELSE Append(q, s[i + 1]))
<1>1. Len(q) \in Nat
  BY Element
<1>2. CASE Doubled(s, i + 1)
  <2>1. i > 0 /\ s[i + 1] = "_" /\ s[i] = "_"
    <3>1. i + 1 > 1 => i > 0
      OBVIOUS
    <3>2. (i + 1) - 1 = i
      OBVIOUS
    <3> QED BY <1>2, <3>1, <3>2 DEF Doubled
  <2> QED BY <1>2, <2>1 DEF Single
<1>3. CASE ~Doubled(s, i + 1)
  <2> DEFINE r == Append(q, s[i + 1])
             c == s[i + 1]
             n == Len(q)
  <2>1. /\ n \in Nat /\ Len(r) = n + 1 /\ r[n + 1] = c
        /\ \A k \in 1..n : r[k] = q[k]
    BY Appended
  <2>2. i > 0 => n > 0 /\ (q[n] = "_" <=> s[i] = "_")
    BY DEF Single
  <2>3. n > 0 => i > 0
    <3>1. Len(<<>>) = 0
      OBVIOUS
    <3> QED BY <2>1, <3>1
  <2>4. ~(i > 0 /\ c = "_" /\ s[i] = "_")
    <3>1. i > 0 => i + 1 > 1
      OBVIOUS
    <3>2. (i + 1) - 1 = i
      OBVIOUS
    <3> QED BY <1>3, <3>1, <3>2 DEF Doubled
  <2>5. \A k \in 1..n : ~Doubled(q, k)
    BY DEF Single
  <2> HIDE DEF r, n, c
  <2>6. ASSUME NEW k \in 1..(n + 1), Doubled(r, k)
        PROVE  FALSE
    <3>1. k > 1 /\ r[k] = "_" /\ r[k - 1] = "_"
      BY <2>6 DEF Doubled
    <3>0. n \in Nat /\ k \in Nat /\ k > 1 /\ k <= n + 1
      <4>1. n \in Nat
        BY <2>1
      <4>2. k \in 1..(n + 1)
        OBVIOUS
      <4>3. k \in Nat /\ k <= n + 1
        BY <4>1, <4>2
      <4> QED BY <3>1, <4>1, <4>3
    <3>2. k - 1 \in 1..n /\ r[k - 1] = q[k - 1]
      <4>1. k - 1 \in 1..n
        BY <3>0
      <4> QED BY <2>1, <4>1
    <3>3. CASE k \in 1..n
      BY <2>1, <2>5, <3>1, <3>2, <3>3 DEF Doubled
    <3>4. CASE k = n + 1
      <4>1. k - 1 = n /\ n > 0
        BY <3>0, <3>4
      <4>2. q[n] = "_" /\ c = "_"
        BY <2>1, <3>1, <3>2, <3>4, <4>1
      <4> QED BY <2>2, <2>3, <2>4, <4>1, <4>2
    <3> QED BY <2>1, <3>3, <3>4
  <2>7. Single(s, i + 1, r)
    <3>1. Len(r) > 0 /\ (r[Len(r)] = "_" <=> s[i + 1] = "_")
      BY <2>1 DEF c
    <3> QED BY <2>1, <2>6, <3>1 DEF Single
  <2> QED BY <1>3, <2>7 DEF r, c
<1> QED BY <1>2, <1>3

\* No two underscores are left in a row.
LEMMA NoneDoubled ==
  ASSUME NEW S, NEW s \in Seq(S)
  PROVE  \A k \in 1..Len(Collapsed(s)) : ~Doubled(Collapsed(s), k)
<1> DEFINE n == Len(s)
           T == {i \in 0..n : Single(s, i, Kept(s)[i])}
<1>1. n \in Nat
  BY Element
<1>2. 0 \in T
  <2>1. Len(<<>>) = 0 /\ 0 \in 0..n /\ 1..0 = {}
    BY <1>1
  <2> QED BY <2>1, KeptStep DEF Single
<1>3. ASSUME NEW i \in 0..n, i \in T, i + 1 \in 0..n
      PROVE  i + 1 \in T
  <2> DEFINE q == Kept(s)[i]
  <2>1. i \in Nat /\ i + 1 \in 1..n
    BY <1>1, <1>3
  <2>2. /\ q \in Seq(S) /\ Single(s, i, q)
        /\ Kept(s)[i + 1] = IF Doubled(s, i + 1) THEN q ELSE Append(q, s[i + 1])
        /\ i = 0 => q = <<>>
    BY <1>3, KeptStep
  <2> HIDE DEF q
  <2>3. Single(s, i + 1, Kept(s)[i + 1])
    BY <2>1, <2>2, SingleStep
  <2> QED BY <1>3, <2>3
<1> HIDE DEF T
<1>4. 0..n \subseteq T
  BY <1>1, <1>2, <1>3, PrefixSetInduction
<1>5. n \in T
  BY <1>1, <1>4
<1> QED BY <1>5 DEF T, Collapsed, Single

\* A sequence that has none is left as it is.
LEMMA CollapsedSame ==
  ASSUME NEW S, NEW s \in Seq(S), \A k \in 1..Len(s) : ~Doubled(s, k)
  PROVE  Collapsed(s) = s
<1> DEFINE n == Len(s)
           r == Collapsed(s)
<1>1. n \in Nat
  BY Element
<1>2. /\ r \in Seq(S) /\ Len(r) = Rank(s, n)
      /\ \A j \in Upto(s, n) : r[Rank(s, j)] = s[j]
  BY <1>1, KeptStep, KeptPlaces DEF Collapsed
<1>3. \A i \in 0..n : Rank(s, i) = i
  <2>1. ASSUME NEW i \in 0..n
        PROVE  Rank(s, i) = i
    <3>1. i \in Nat /\ Upto(s, i) = 1..i
      BY <1>1 DEF Upto
    <3>2. Cardinality(1..i) = i
      BY <3>1, FS_Interval
    <3> QED BY <3>1, <3>2 DEF Rank
  <2> QED BY <2>1
<1>4. \A j \in 1..n : j \in Upto(s, n) /\ j \in 0..n
  BY <1>1 DEF Upto
<1>5. Len(r) = n /\ \A j \in 1..n : r[j] = s[j]
  BY <1>1, <1>2, <1>3, <1>4
<1> HIDE DEF r
<1>6. r = s
  BY <1>1, <1>2, <1>5
<1> QED BY <1>6 DEF r
-----------------------------------------------------------------------------
(***************************************************************************)
(* The other statements, and what they make of a name together.            *)
(***************************************************************************)
LEMMA ReplacedIs ==
  ASSUME NEW s \in Seq(Chars)
  PROVE  /\ Replaced(s) \in Seq(Allowed) /\ Len(Replaced(s)) = Len(s)
         /\ \A i \in 1..Len(s) : Replaced(s)[i] = IF s[i] \in Allowed THEN s[i] ELSE "_"
         /\ s \in Seq(Allowed) => Replaced(s) = s
<1> DEFINE n == Len(s)
           r == Replaced(s)
<1>1. n \in Nat /\ DOMAIN s = 1..n
  BY Element
<1>2. r = [i \in 1..n |-> IF s[i] \in Allowed THEN s[i] ELSE "_"]
  BY <1>1 DEF Replaced
<1>3. "_" \in Allowed
  BY DEF Allowed
<1> HIDE DEF n, r
<1>4. r \in [1..n -> Allowed]
  BY <1>2, <1>3
<1>5. r \in Seq(Allowed) /\ Len(r) = n
  BY <1>1, <1>4
<1>6. \A i \in 1..n : r[i] = IF s[i] \in Allowed THEN s[i] ELSE "_"
  BY <1>2
<1>7. ASSUME s \in Seq(Allowed)
      PROVE  r = s
  <2>1. \A i \in 1..n : s[i] \in Allowed
    BY <1>7, Element DEF n
  <2>2. \A i \in 1..n : r[i] = s[i]
    BY <1>6, <2>1
  <2>3. Len(s) = n
    BY DEF n
  <2> QED BY <1>1, <1>5, <2>2, <2>3
<1> QED BY <1>5, <1>6, <1>7 DEF n, r

LEMMA TruncatedIs ==
  ASSUME NEW S, NEW s \in Seq(S)
  PROVE  /\ Truncated(s) \in Seq(S)
         /\ Len(Truncated(s)) = IF Len(s) < MaxLen THEN Len(s) ELSE MaxLen
         /\ \A k \in 1..Len(Truncated(s)) : Truncated(s)[k] = s[k]
         /\ Len(s) <= MaxLen => Truncated(s) = s
<1>1. MaxLen \in Nat /\ Len(s) \in Nat
  BY NameAssumption
<1>2. CASE Len(s) > MaxLen
  <2>1. Truncated(s) = SubSeq(s, 1, MaxLen)
    BY <1>2 DEF Truncated
  <2>2. /\ SubSeq(s, 1, MaxLen) \in Seq(S) /\ Len(SubSeq(s, 1, MaxLen)) = MaxLen
        /\ \A k \in 1..MaxLen : SubSeq(s, 1, MaxLen)[k] = s[k]
    BY <1>1, <1>2
  <2> QED BY <1>1, <1>2, <2>1, <2>2
<1>3. CASE ~(Len(s) > MaxLen)
  <2>1. Truncated(s) = s
    BY <1>3 DEF Truncated
  <2> QED BY <1>1, <1>3, <2>1
<1> QED BY <1>2, <1>3

Normal(s) == Truncated(Collapsed(Replaced(s)))

LEMMA NormalIs ==
  ASSUME NEW s \in Seq(Chars)
  PROVE  LET r == Replaced(s)
             n == Len(s)
             t == Normal(s)
         IN /\ t \in Seq(Allowed)
            /\ Rank(r, n) \in Nat
            /\ Len(t) = IF Rank(r, n) < MaxLen THEN Rank(r, n) ELSE MaxLen
            /\ \A j \in Upto(r, n) :
                 /\ Rank(r, j) \in 1..Rank(r, n)
                 /\ Rank(r, j) <= MaxLen => t[Rank(r, j)] = r[j]
            /\ \A k \in 1..Len(t) : ~Doubled(t, k)
<1> DEFINE r == Replaced(s)
           n == Len(s)
           c == Collapsed(r)
           t == Truncated(c)
<1>1. r \in Seq(Allowed) /\ Len(r) = n /\ n \in Nat /\ n \in 0..n
  <2>1. n \in Nat
    BY Element
  <2>2. r \in Seq(Allowed) /\ Len(r) = n
    BY ReplacedIs
  <2> HIDE DEF r, n
  <2> QED BY <2>1, <2>2
<1>2. t = Normal(s)
  BY DEF Normal
<1> HIDE DEF r, n
<1>3. /\ c \in Seq(Allowed) /\ Len(c) = Rank(r, n)
      /\ \A j \in Upto(r, n) : Rank(r, j) \in 1..Rank(r, n) /\ c[Rank(r, j)] = r[j]
  BY <1>1, KeptStep, KeptPlaces DEF Collapsed
<1>4. \A k \in 1..Len(c) : ~Doubled(c, k)
  BY <1>1, NoneDoubled
<1> HIDE DEF c
<1>5. /\ t \in Seq(Allowed) /\ Len(t) = IF Len(c) < MaxLen THEN Len(c) ELSE MaxLen
      /\ \A k \in 1..Len(t) : t[k] = c[k]
  BY <1>3, TruncatedIs
<1>6. Rank(r, n) \in Nat /\ MaxLen \in Nat
  BY <1>1, Ranks, NameAssumption
<1> HIDE DEF t
<1>7. ASSUME NEW j \in Upto(r, n), Rank(r, j) <= MaxLen
      PROVE  t[Rank(r, j)] = r[j]
  <2>1. Rank(r, j) \in 1..Len(t)
    BY <1>3, <1>5, <1>6, <1>7
  <2> QED BY <1>3, <1>5, <2>1
<1>8. ASSUME NEW k \in 1..Len(t), Doubled(t, k)
      PROVE  FALSE
  <2>1. Len(c) \in Nat /\ Len(t) <= Len(c) /\ Len(t) \in Nat
    BY <1>3, <1>5, <1>6
  <2>2. k > 1 /\ t[k] = "_" /\ t[k - 1] = "_"
    BY <1>8 DEF Doubled
  <2> DEFINE m == Len(t)
  <2>3. k \in 1..Len(c) /\ k - 1 \in 1..Len(t)
    <3>1. k > 1 /\ m \in Nat /\ k \in 1..m
      BY <2>1, <2>2
    <3> HIDE DEF m
    <3>2. k - 1 \in 1..m
      BY <3>1
    <3> QED BY <2>1, <3>1, <3>2 DEF m
  <2>4. t[k] = c[k] /\ t[k - 1] = c[k - 1]
    BY <1>5, <2>3
  <2>5. Doubled(c, k)
    BY <2>2, <2>4 DEF Doubled
  <2> QED BY <1>4, <2>3, <2>5
<1> QED BY <1>2, <1>3, <1>5, <1>6, <1>7, <1>8 DEF r, n

LEMMA NormalTwice ==
  ASSUME NEW s \in Seq(Chars)
  PROVE  Normal(Normal(s)) = Normal(s)
<1> DEFINE t == Normal(s)
<1>1. /\ t \in Seq(Allowed) /\ Len(t) <= MaxLen
      /\ \A k \in 1..Len(t) : ~Doubled(t, k)
  BY NormalIs, NameAssumption
<1> HIDE DEF t
<1>2. t \in Seq(Chars)
  BY <1>1 DEF Chars
<1>3. Replaced(t) = t
  BY <1>1, <1>2, ReplacedIs
<1>4. Collapsed(t) = t
  BY <1>1, CollapsedSame
<1>5. Truncated(t) = t
  BY <1>1, TruncatedIs
<1>6. Normal(t) = t
  BY <1>3, <1>4, <1>5 DEF Normal
<1> QED BY <1>6 DEF t

\* Spaces are never dropped, and whatever else a name begins with leaves something.
LEMMA NormalBlank ==
  ASSUME NEW s \in Seq(Chars)
  PROVE  Blank(Normal(s)) <=> \A i \in 1..Len(s) : i <= MaxLen => s[i] = " "
<1> DEFINE r == Replaced(s)
           n == Len(s)
           t == Normal(s)
<1>0. n \in Nat /\ MaxLen \in Nat
  BY Element, NameAssumption
<1>1. \A i \in 1..n : r[i] = " " <=> s[i] = " "
  <2>1. \A i \in 1..n : r[i] = IF s[i] \in Allowed THEN s[i] ELSE "_"
    BY ReplacedIs
  <2>2. " " \in Allowed
    BY DEF Allowed
  <2> HIDE DEF r, n
  <2> QED BY <2>1, <2>2
<1>2. /\ t \in Seq(Allowed) /\ Rank(r, n) \in Nat
      /\ Len(t) = IF Rank(r, n) < MaxLen THEN Rank(r, n) ELSE MaxLen
      /\ \A j \in Upto(r, n) : /\ Rank(r, j) \in 1..Rank(r, n)
                               /\ Rank(r, j) <= MaxLen => t[Rank(r, j)] = r[j]
  BY NormalIs
<1> HIDE DEF r, n, t
<1>3. Len(t) \in Nat /\ DOMAIN t = 1..Len(t)
  BY <1>2, Element
<1>4. /\ \A i \in Nat : Rank(r, i) \in Nat /\ Rank(r, i) <= i
  BY Ranks
\* As long as there are only spaces the next character is kept too.
<1>5. ASSUME NEW i \in 1..n, i = 1 \/ r[i - 1] = " "
      PROVE  i \in Upto(r, n)
  <2>1. CASE i = 1
    <3>1. ~(i > 1)
      BY <2>1
    <3> QED BY <3>1 DEF Doubled, Upto
  <2>2. CASE r[i - 1] = " "
    <3>1. r[i - 1] # "_"
      BY <2>2
    <3> QED BY <3>1 DEF Doubled, Upto
  <2> QED BY <1>5, <2>1, <2>2
<1>6. ASSUME Blank(t), NEW i \in 1..n, i <= MaxLen
      PROVE  s[i] = " "
  <2> DEFINE T == {m \in 0..n : m \in 1..MaxLen => r[m] = " "}
  <2>1. 0 \in T
    BY <1>0
  <2>2. ASSUME NEW m \in 0..n, m \in T, m + 1 \in 0..n
        PROVE  m + 1 \in T
    <3>1. SUFFICES ASSUME m + 1 \in 1..MaxLen
                   PROVE  r[m + 1] = " "
      BY <2>2
    <3>a. m \in 0..n /\ m + 1 \in 0..n
      BY <2>2
    <3>b. m \in 1..MaxLen => r[m] = " "
      BY <2>2
    <3> HIDE DEF T
    <3>2. m \in Nat /\ m + 1 \in 1..n /\ (m + 1) - 1 = m /\ m + 1 \in Nat
      BY <1>0, <3>a
    <3>3. m + 1 = 1 \/ r[m] = " "
      <4>1. m + 1 = 1 \/ m \in 1..MaxLen
        BY <1>0, <3>1, <3>2
      <4> QED BY <3>b, <4>1
    <3>4. m + 1 \in Upto(r, n)
      <4> DEFINE j == m + 1
      <4>1. j \in 1..n /\ (j = 1 \/ r[j - 1] = " ")
        BY <3>2, <3>3
      <4> HIDE DEF j
      <4>2. j \in Upto(r, n)
        BY <1>5, <4>1
      <4> QED BY <4>2 DEF j
    <3>5. Rank(r, m + 1) <= MaxLen /\ Rank(r, m + 1) \in 1..Len(t)
      <4> DEFINE k == Rank(r, m + 1)
                 all == Rank(r, n)
      <4>1. k \in 1..all /\ k <= m + 1 /\ m + 1 <= MaxLen
        BY <1>0, <1>2, <1>4, <3>1, <3>2, <3>4
      <4>2. all \in Nat /\ Len(t) = IF all < MaxLen THEN all ELSE MaxLen
        BY <1>2
      <4> HIDE DEF k, all
      <4>3. k <= MaxLen /\ k \in 1..Len(t)
        BY <1>0, <3>2, <4>1, <4>2
      <4> QED BY <4>3 DEF k
    <3>6. t[Rank(r, m + 1)] = r[m + 1]
      BY <1>2, <3>4, <3>5
    <3> QED BY <1>3, <1>6, <3>5, <3>6 DEF Blank
  <2> HIDE DEF T
  <2>3. 0..n \subseteq T
    BY <1>0, <2>1, <2>2, PrefixSetInduction
  <2>4. r[i] = " "
    <3>1. i \in 0..n /\ i \in 1..MaxLen
      BY <1>0, <1>6
    <3> QED BY <2>3, <3>1 DEF T
  <2> QED BY <1>1, <2>4
<1>7. ASSUME \A i \in 1..n : i <= MaxLen => s[i] = " "
      PROVE  Blank(t)
  <2>1. ASSUME NEW k \in 1..Len(t)
        PROVE  t[k] = " "
    <3>1. k \in 1..n /\ k <= MaxLen /\ k \in Nat
      <4>1. Rank(r, n) <= n
        BY <1>0, <1>4
      <4> QED BY <1>0, <1>2, <1>3, <4>1
    <3>2. \A j \in 1..k : j \in 1..n /\ (j = 1 \/ r[j - 1] = " ")
      <4>1. ASSUME NEW j \in 1..k
            PROVE  j \in 1..n /\ (j = 1 \/ (j - 1 \in 1..n /\ j - 1 <= MaxLen))
        BY <1>0, <3>1
      <4> QED BY <1>1, <1>7, <4>1
    <3>3. Upto(r, k) = 1..k
      <4>1. \A j \in 1..k : ~Doubled(r, j)
        <5>1. \A j \in 1..k : j \in Upto(r, n)
          BY <1>5, <3>2
        <5> QED BY <5>1 DEF Upto
      <4> QED BY <4>1 DEF Upto
    <3>4. Rank(r, k) = k
      BY <3>1, <3>3, FS_Interval DEF Rank
    <3>5. k \in Upto(r, n)
      <4>1. k \in 1..k
        BY <3>1
      <4> QED BY <1>5, <3>2, <4>1
    <3>6. t[k] = r[k]
      BY <1>2, <3>1, <3>4, <3>5
    <3> QED BY <1>1, <1>7, <3>1, <3>6
  <2> QED BY <1>3, <2>1 DEF Blank
<1> QED BY <1>6, <1>7 DEF n, t
-----------------------------------------------------------------------------
(***************************************************************************)
(* The function.                                                           *)
(***************************************************************************)

\* What is there before each statement.
NormInv ==
  /\ name \in Name
  /\ \/ pc = "replace"  /\ result = "none" /\ normalized = name
     \/ pc = "collapse" /\ result = "none" /\ normalized = Replaced(name)
     \/ pc = "truncate" /\ result = "none" /\ normalized = Collapsed(Replaced(name))
     \/ pc = "check"    /\ result = "none" /\ normalized = Normal(name)
     \/ /\ pc = "done" /\ normalized = Normal(name)
        /\ result = IF Blank(normalized) THEN "blank" ELSE "name"

LEMMA Names ==
  ASSUME NEW s \in Name
  PROVE  s \in Seq(Chars) /\ DOMAIN s = 1..Len(s) /\ Len(s) \in Nat
<1>1. PICK n \in 0..Longest : s \in [1..n -> Chars]
  BY DEF Name, Chars
<1>2. n \in Nat
  BY NameAssumption
<1>3. s \in Seq(Chars)
  BY <1>1, <1>2
<1> QED BY <1>3, Element

LEMMA NormSpec == Spec => []NormInv
<1>1. Init => NormInv
  BY DEF Init, NormInv
<1>2. NormInv /\ [Next]_vars => NormInv'
  <2> SUFFICES ASSUME NormInv, [Next]_vars PROVE NormInv'
    OBVIOUS
  <2>1. CASE UNCHANGED vars
    BY <2>1 DEF vars, NormInv
  <2>2. CASE Replace
    BY <2>2 DEF Replace, Step, NormInv
  <2>3. CASE Collapse
    BY <2>3 DEF Collapse, Step, NormInv
  <2>4. CASE Truncate
    BY <2>4 DEF Truncate, Step, NormInv, Normal
  <2>5. CASE Check
    BY <2>5 DEF Check, NormInv, Blank
  <2> QED BY <2>1, <2>2, <2>3, <2>4, <2>5 DEF Next
<1> QED BY <1>1, <1>2, PTL DEF Spec

\* Every statement leaves a string of characters, from the replacement on of allowed
\* ones, from the truncation on of at most the maximal length.
THEOREM TypeCorrect == Spec => []TypeOK
<1>1. NormInv => TypeOK
  <2> SUFFICES ASSUME NormInv PROVE TypeOK
    OBVIOUS
  <2>1. name \in Seq(Chars) /\ name \in Name
    BY Names DEF NormInv
  <2>2. Replaced(name) \in Seq(Allowed)
    BY <2>1, ReplacedIs
  <2>3. Collapsed(Replaced(name)) \in Seq(Allowed)
    <3> DEFINE r == Replaced(name)
    <3>1. r \in Seq(Allowed)
      BY <2>2
    <3> HIDE DEF r
    <3>2. Len(r) \in 0..Len(r)
      BY <3>1
    <3>3. Collapsed(r) \in Seq(Allowed)
      BY <3>1, <3>2, KeptStep DEF Collapsed
    <3> QED BY <3>3 DEF r
  <2>4. Normal(name) \in Seq(Allowed) /\ Len(Normal(name)) <= MaxLen
    BY <2>1, NormalIs, NameAssumption
  <2>5. \A s \in Seq(Allowed) : s \in Seq(Chars)
    BY DEF Chars
  <2>6. normalized \in Seq(Chars)
    BY <2>1, <2>2, <2>3, <2>4, <2>5 DEF NormInv
  <2>7. normalized \in Seq(Allowed \cup {Disallowed})
    BY <2>6 DEF Chars
  <2>8. pc \in {"check", "done"} => Len(normalized) <= MaxLen
    BY <2>4 DEF NormInv
  <2> QED BY <2>1, <2>7, <2>8 DEF NormInv, TypeOK
<1> QED BY <1>1, NormSpec, PTL

\* Whatever was typed for a name, what NormalizeEndpointName returns without an error
\* is one the agrirouter accepts.
THEOREM AcceptedCorrect == Spec => []Accepted
<1>1. NormInv => Accepted
  <2> SUFFICES ASSUME NormInv, result = "name"
               PROVE  /\ Len(normalized) \in 1..MaxLen
                      /\ normalized \in Seq(Allowed)
                      /\ \E i \in DOMAIN normalized : normalized[i] # " "
    BY DEF Accepted
  <2>1. normalized = Normal(name) /\ ~Blank(normalized)
    BY DEF NormInv
  <2>2. name \in Seq(Chars)
    BY Names DEF NormInv
  <2>3. normalized \in Seq(Allowed) /\ Len(normalized) <= MaxLen /\ MaxLen \in Nat
    BY <2>1, <2>2, NormalIs, NameAssumption
  <2>4. PICK i \in DOMAIN normalized : normalized[i] # " "
    BY <2>1 DEF Blank
  <2>5. i \in 1..Len(normalized) /\ Len(normalized) \in Nat
    BY <2>3, <2>4, Element
  <2>6. Len(normalized) \in 1..MaxLen
    BY <2>3, <2>5
  <2> QED BY <2>3, <2>4, <2>6
<1> QED BY <1>1, NormSpec, PTL

\* A normalized name is a fixed point: no truncation brings underscores together, no
\* replacement is left over.
THEOREM StableCorrect == Spec => []Stable
<1>1. NormInv => Stable
  <2> SUFFICES ASSUME NormInv, result = "name"
               PROVE  Normal(normalized) = normalized
    BY DEF Stable, Normal
  <2>1. normalized = Normal(name) /\ name \in Seq(Chars)
    BY Names DEF NormInv
  <2> QED BY <2>1, NormalTwice
<1> QED BY <1>1, NormSpec, PTL

\* A name is refused exactly when what fits of it is white space.
THEOREM RefusedIfBlankCorrect == Spec => []RefusedIfBlank
<1>1. NormInv => RefusedIfBlank
  <2> SUFFICES ASSUME NormInv, pc = "done"
               PROVE  result = "blank" <=> \A i \in DOMAIN name : i <= MaxLen => name[i] = " "
    BY DEF RefusedIfBlank
  <2>1. /\ name \in Seq(Chars) /\ DOMAIN name = 1..Len(name)
        /\ result = "blank" <=> Blank(Normal(name))
    BY Names DEF NormInv
  <2> QED BY <2>1, NormalBlank
<1> QED BY <1>1, NormSpec, PTL

\* The positions of the documentation are those the scan keeps, in their order.
LEMMA Positions ==
  ASSUME NormInv
  PROVE  LET r == Replaced(name)
         IN /\ KeptPositions = Upto(r, Len(name))
            /\ \A i \in KeptPositions : Place(i) = Rank(r, i)
            /\ \A i \in 1..Len(name) : r[i] = IF Under(i) THEN "_" ELSE name[i]
<1> DEFINE r == Replaced(name)
           n == Len(name)
<1>1. name \in Seq(Chars) /\ DOMAIN name = 1..n /\ n \in Nat
  BY Names DEF NormInv
<1>2. \A i \in 1..n : r[i] = IF name[i] \in Allowed THEN name[i] ELSE "_"
  BY <1>1, ReplacedIs
<1>3. \A i \in 1..n : name[i] \in Chars
  BY <1>1, Element
<1> HIDE DEF r, n
<1>4. \A i \in 1..n : /\ Under(i) <=> r[i] = "_"
                      /\ r[i] = IF Under(i) THEN "_" ELSE name[i]
  <2> SUFFICES ASSUME NEW i \in 1..n
               PROVE  /\ Under(i) <=> r[i] = "_"
                      /\ r[i] = IF Under(i) THEN "_" ELSE name[i]
    OBVIOUS
  <2>1. "_" \in Allowed /\ Disallowed \notin Allowed
    BY NameAssumption DEF Allowed
  <2> QED BY <1>2, <1>3, <2>1 DEF Under, Chars
<1>5. \A i \in 1..n : Doubled(r, i) <=> Under(i) /\ i > 1 /\ Under(i - 1)
  <2> SUFFICES ASSUME NEW i \in 1..n
               PROVE  Doubled(r, i) <=> Under(i) /\ i > 1 /\ Under(i - 1)
    OBVIOUS
  <2>1. i > 1 => i - 1 \in 1..n
    BY <1>1
  <2> QED BY <1>4, <2>1 DEF Doubled
<1>6. KeptPositions = Upto(r, n)
  BY <1>1, <1>5 DEF KeptPositions, Upto
<1>7. ASSUME NEW i \in KeptPositions
      PROVE  Place(i) = Rank(r, i)
  <2>1. i \in 1..n
    BY <1>6 DEF Upto
  <2>2. {j \in Upto(r, n) : j <= i} = Upto(r, i)
    BY <1>1, <2>1 DEF Upto
  <2> QED BY <1>6, <2>2 DEF Place, Rank
<1> QED BY <1>4, <1>6, <1>7 DEF r, n

\* The result, character by character, is what the documentation says.
THEOREM AsDocumentedCorrect == Spec => []AsDocumented
<1>1. NormInv => AsDocumented
  <2> SUFFICES ASSUME NormInv, pc = "done"
               PROVE  /\ Len(normalized) = IF Cardinality(KeptPositions) < MaxLen
                                           THEN Cardinality(KeptPositions) ELSE MaxLen
                      /\ \A i \in KeptPositions : Place(i) <= MaxLen =>
                           normalized[Place(i)] = IF Under(i) THEN "_" ELSE name[i]
    BY DEF AsDocumented
  <2> DEFINE r == Replaced(name)
             n == Len(name)
  <2>1. name \in Seq(Chars) /\ normalized = Normal(name)
    BY Names DEF NormInv
  <2>2. /\ Len(normalized) = IF Rank(r, n) < MaxLen THEN Rank(r, n) ELSE MaxLen
        /\ \A j \in Upto(r, n) : Rank(r, j) <= MaxLen => normalized[Rank(r, j)] = r[j]
    BY <2>1, NormalIs
  <2>3. /\ KeptPositions = Upto(r, n)
        /\ \A i \in KeptPositions : Place(i) = Rank(r, i)
        /\ \A i \in 1..n : r[i] = IF Under(i) THEN "_" ELSE name[i]
    BY Positions
  <2> HIDE DEF r, n
  <2>4. Cardinality(KeptPositions) = Rank(r, n)
    BY <2>3 DEF Rank
  <2>5. \A i \in KeptPositions : i \in 1..n
    BY <2>3 DEF Upto
  <2> QED BY <2>2, <2>3, <2>4, <2>5
<1> QED BY <1>1, NormSpec, PTL
=============================================================================
