-------------------------- MODULE Timeline_proofs --------------------------
(***************************************************************************)
(* Proofs about the runs of a request as the window lists them             *)
(* (HistoryTimeline), for any runs, limits and loads under way.            *)
(***************************************************************************)
EXTENDS HistoryTimeline, FiniteSetTheorems, SequenceTheorems, TLAPS

-----------------------------------------------------------------------------
(* The newest runs of a set *)

\* A run has fewer newer ones than an older run has.
LEMMA NewerProperties ==
  ASSUME NEW S \in SUBSET Nat, IsFiniteSet(S)
  PROVE  /\ \A i \in S : Newer(S, i) \in 0..(Cardinality(S) - 1)
         /\ \A i, j \in S : i < j => Newer(S, j) < Newer(S, i)
<1> DEFINE After(i) == {j \in S : j > i}
<1>1. Cardinality(S) \in Nat
  BY FS_CardinalityType
<1>2. ASSUME NEW i \in S PROVE Newer(S, i) \in 0..(Cardinality(S) - 1)
  <2>1. After(i) \in SUBSET S /\ After(i) # S
    OBVIOUS
  <2>2. /\ IsFiniteSet(After(i)) /\ Cardinality(After(i)) <= Cardinality(S)
        /\ Cardinality(S) # Cardinality(After(i))
    BY <2>1, FS_Subset
  <2>3. Cardinality(After(i)) \in Nat
    BY <2>2, FS_CardinalityType
  <2> QED
    BY <1>1, <2>2, <2>3 DEF Newer
<1>3. ASSUME NEW i \in S, NEW j \in S, i < j PROVE Newer(S, j) < Newer(S, i)
  <2>1. IsFiniteSet(After(i)) /\ After(i) \in SUBSET S
    BY FS_Subset
  <2>2. After(j) \in SUBSET After(i) /\ j \in After(i) /\ j \notin After(j)
    <3>1. ASSUME NEW k \in After(j) PROVE k \in After(i)
      <4>1. i \in Nat /\ j \in Nat /\ k \in Nat /\ k > j
        OBVIOUS
      <4> QED
        BY <4>1, <1>3
    <3>2. j > i /\ ~(j > j)
      <4>1. i \in Nat /\ j \in Nat
        OBVIOUS
      <4> QED
        BY <4>1, <1>3
    <3> HIDE <1>3
    <3> QED
      BY <3>1, <3>2
  <2>3. /\ IsFiniteSet(After(j)) /\ Cardinality(After(j)) <= Cardinality(After(i))
        /\ Cardinality(After(i)) # Cardinality(After(j))
    BY <2>1, <2>2, FS_Subset
  <2>4. Cardinality(After(i)) \in Nat /\ Cardinality(After(j)) \in Nat
    BY <2>1, <2>3, FS_CardinalityType
  <2> QED
    BY <2>3, <2>4 DEF Newer
<1> QED
  BY <1>2, <1>3

\* The n newest of a set are at most n, all of it if it has no more, and with n > 0 among
\* them is the newest of all.
LEMMA NewestProperties ==
  ASSUME NEW S \in SUBSET Nat, IsFiniteSet(S), NEW n \in Nat
  PROVE  /\ Newest(S, n) \in SUBSET S /\ IsFiniteSet(Newest(S, n))
         /\ Cardinality(Newest(S, n)) <= n
         /\ Cardinality(S) <= n => Newest(S, n) = S
         /\ n = 0 => Newest(S, n) = {}
         /\ \A i \in S : n > 0 /\ (\A j \in S : j <= i) => i \in Newest(S, n)
<1>1. /\ \A i \in S : Newer(S, i) \in 0..(Cardinality(S) - 1)
      /\ \A i, j \in S : i < j => Newer(S, j) < Newer(S, i)
  BY NewerProperties
<1>2. Cardinality(S) \in Nat
  BY FS_CardinalityType
<1>3. Newest(S, n) \in SUBSET S
  BY DEF Newest
<1>4. IsFiniteSet(Newest(S, n))
  BY <1>3, FS_Subset
<1>5. Cardinality(Newest(S, n)) <= n
  <2> DEFINE T == Newest(S, n)
             f == [i \in T |-> Newer(S, i)]
  <2>1. \A i \in T : Newer(S, i) \in 0..(n - 1)
    BY <1>1, <1>2 DEF Newest
  <2>2. \A i, j \in T : Newer(S, i) = Newer(S, j) => i = j
    <3>1. ASSUME NEW i \in S, NEW j \in S, Newer(S, i) = Newer(S, j) PROVE i = j
      <4>1. /\ i < j => Newer(S, j) < Newer(S, i)
            /\ j < i => Newer(S, i) < Newer(S, j)
            /\ Newer(S, i) \in Nat /\ Newer(S, j) \in Nat /\ i \in Nat /\ j \in Nat
        BY <1>1, <1>2
      <4> QED
        BY <3>1, <4>1
    <3> QED
      BY <3>1, <1>3
  <2>3. f \in Injection(T, 0..(n - 1))
    BY <2>1, <2>2 DEF Injection, IsInjective
  <2>4. IsFiniteSet(0..(n - 1)) /\ Cardinality(0..(n - 1)) = n
    BY FS_Interval
  <2> HIDE DEF f, T
  <2>5. Cardinality(T) <= n
    BY <2>3, <2>4, FS_Injection
  <2> QED
    BY <2>5 DEF T
<1>6. Cardinality(S) <= n => Newest(S, n) = S
  <2>1. ASSUME Cardinality(S) <= n, NEW i \in S PROVE Newer(S, i) < n
    <3>1. Newer(S, i) \in 0..(Cardinality(S) - 1)
      BY <1>1
    <3> QED
      BY <2>1, <3>1, <1>2
  <2> QED
    BY <2>1 DEF Newest
<1>7. n = 0 => Newest(S, n) = {}
  <2>1. ASSUME n = 0, NEW i \in S PROVE ~(Newer(S, i) < n)
    <3>1. Newer(S, i) \in 0..(Cardinality(S) - 1)
      BY <1>1
    <3> QED
      BY <2>1, <3>1, <1>2
  <2> QED
    BY <2>1 DEF Newest
<1>8. ASSUME NEW i \in S, n > 0, \A j \in S : j <= i PROVE i \in Newest(S, n)
  <2>1. ASSUME NEW j \in S PROVE ~(j > i)
    <3>1. j \in Nat /\ i \in Nat /\ j <= i
      BY <1>8
    <3> QED
      BY <3>1
  <2>2. {j \in S : j > i} = {}
    BY <2>1
  <2> QED
    BY <2>2, <1>8, FS_EmptySet DEF Newest, Newer
<1> QED
  BY <1>3, <1>4, <1>5, <1>6, <1>7, <1>8

\* A list of runs of S, none of them twice, where x can only be the first.
Listed(s, S, x) ==
  /\ s \in Seq(S)
  /\ \A i, j \in DOMAIN s : s[i] = s[j] => i = j
  /\ \A i \in DOMAIN s : s[i] = x => i = 1

\* A set is listed as a whole, with its newest run first.
LEMMA NewestFirstLists ==
  ASSUME NEW S \in SUBSET Nat, IsFiniteSet(S), NEW x, x \in S => \A j \in S : j <= x
  PROVE  Listed(NewestFirst(S), S, x) /\ ToSet(NewestFirst(S)) = S
<1> DEFINE n == Cardinality(S)
           f == [i \in S |-> Newer(S, i)]
           q == NewestFirst(S)
<1>1. /\ \A i \in S : Newer(S, i) \in 0..(n - 1)
      /\ \A i, j \in S : i < j => Newer(S, j) < Newer(S, i)
  BY NewerProperties
<1>2. n \in Nat
  BY FS_CardinalityType
<1>3. \A i, j \in S : Newer(S, i) = Newer(S, j) => i = j
  <2>1. ASSUME NEW i \in S, NEW j \in S, Newer(S, i) = Newer(S, j) PROVE i = j
    <3>1. /\ i < j => Newer(S, j) < Newer(S, i)
          /\ j < i => Newer(S, i) < Newer(S, j)
          /\ Newer(S, i) \in Nat /\ Newer(S, j) \in Nat /\ i \in Nat /\ j \in Nat
      BY <1>1, <1>2
    <3> QED
      BY <2>1, <3>1
  <2> QED
    BY <2>1
<1>4. f \in Injection(S, 0..(n - 1))
  BY <1>1, <1>3 DEF Injection, IsInjective
<1>5. IsFiniteSet(0..(n - 1)) /\ Cardinality(0..(n - 1)) = n
  <2>1. n - 1 \in Int /\ (0 > n - 1 <=> n = 0) /\ (n - 1) - 0 + 1 = n
    BY <1>2
  <2> QED
    BY <2>1, FS_Interval
<1>6. f \in Surjection(S, 0..(n - 1))
  <2> HIDE DEF f
  <2> QED
    BY <1>4, <1>5, FS_Injection
<1>7. \A k \in 0..(n - 1) : \E i \in S : Newer(S, i) = k
  BY <1>6 DEF Surjection
<1>8. ASSUME NEW k \in 1..n PROVE q[k] \in S /\ Newer(S, q[k]) = k - 1
  <2>1. k - 1 \in 0..(n - 1)
    BY <1>2
  <2>2. \E i \in S : Newer(S, i) = k - 1
    BY <2>1, <1>7
  <2>3. q[k] = CHOOSE i \in S : Newer(S, i) = k - 1
    BY DEF NewestFirst
  <2> QED
    BY <2>2, <2>3
<1>9. q \in Seq(S) /\ DOMAIN q = 1..n
  <2>1. DOMAIN q = 1..n /\ q = [k \in 1..n |-> q[k]]
    BY DEF NewestFirst
  <2>2. q \in [1..n -> S]
    BY <2>1, <1>8
  <2> QED
    BY <2>1, <2>2, <1>2, SeqDef
<1>10. Listed(q, S, x)
  <2>1. ASSUME NEW k \in 1..n, NEW l \in 1..n, q[k] = q[l] PROVE k = l
    <3>1. Newer(S, q[k]) = k - 1 /\ Newer(S, q[l]) = l - 1
      BY <1>8
    <3>2. k - 1 = l - 1
      BY <2>1, <3>1
    <3> QED
      BY <3>2
  <2>2. ASSUME NEW k \in 1..n, q[k] = x PROVE k = 1
    <3>1. x \in S /\ Newer(S, x) = k - 1
      BY <1>8, <2>2
    <3>2. {j \in S : j > x} = {}
      <4>1. ASSUME NEW j \in S PROVE ~(j > x)
        <5>1. j \in Nat /\ x \in Nat /\ j <= x
          BY <3>1
        <5> QED
          BY <5>1
      <4> QED
        BY <4>1
    <3>3. k - 1 = 0
      BY <3>1, <3>2, FS_EmptySet DEF Newer
    <3> QED
      BY <3>3
  <2> HIDE DEF q
  <2> QED
    BY <2>1, <2>2, <1>9 DEF Listed
<1>11. ToSet(q) = S
  <2>1. ASSUME NEW i \in S PROVE \E k \in 1..n : q[k] = i
    <3>1. Newer(S, i) + 1 \in 1..n
      BY <1>1, <1>2
    <3>2. /\ q[Newer(S, i) + 1] \in S
          /\ Newer(S, q[Newer(S, i) + 1]) = (Newer(S, i) + 1) - 1
      BY <3>1, <1>8
    <3>3. (Newer(S, i) + 1) - 1 = Newer(S, i)
      BY <1>1, <1>2
    <3> QED
      BY <3>1, <3>2, <3>3, <1>3
  <2> QED
    BY <2>1, <1>8, <1>9 DEF ToSet
<1> QED
  BY <1>10, <1>11

-----------------------------------------------------------------------------
(* Lists of runs *)

LEMMA ListedBasics ==
  ASSUME NEW S \in SUBSET Nat, NEW s, NEW x, Listed(s, S, x)
  PROVE  /\ Len(s) \in Nat /\ DOMAIN s = 1..Len(s)
         /\ \A i \in 1..Len(s) : s[i] \in S /\ s[i] \in Nat
         /\ \A i \in 1..Len(s) : s[i] = x => i = 1
         /\ \A i, j \in 1..Len(s) : s[i] = s[j] => i = j
         /\ ToSet(s) = {s[i] : i \in 1..Len(s)} /\ ToSet(s) \in SUBSET S
<1>1. s \in Seq(S)
  BY DEF Listed
<1>2. /\ Len(s) \in Nat /\ DOMAIN s = 1..Len(s) /\ s \in [1..Len(s) -> S]
  BY <1>1, LenProperties
<1>3. \A i \in 1..Len(s) : s[i] \in S /\ s[i] \in Nat
  BY <1>2
<1>4. \A i, j \in 1..Len(s) : s[i] = s[j] => i = j
  BY <1>2 DEF Listed
<1>5. \A i \in 1..Len(s) : s[i] = x => i = 1
  BY <1>2 DEF Listed
<1> QED
  BY <1>2, <1>3, <1>4, <1>5 DEF ToSet

\* A list shows no run twice.
LEMMA ListedCardinality ==
  ASSUME NEW S \in SUBSET Nat, NEW s, NEW x, Listed(s, S, x)
  PROVE  IsInjective(s) /\ IsFiniteSet(ToSet(s)) /\ Cardinality(ToSet(s)) <= Len(s)
<1>1. /\ Len(s) \in Nat /\ DOMAIN s = 1..Len(s) /\ ToSet(s) = {s[i] : i \in 1..Len(s)}
      /\ \A i, j \in 1..Len(s) : s[i] = s[j] => i = j
  BY ListedBasics
<1>2. [i \in 1..Len(s) |-> s[i]] \in Surjection(1..Len(s), ToSet(s))
  BY <1>1 DEF Surjection
<1>3. ExistsSurjection(1..Len(s), ToSet(s))
  BY <1>2 DEF ExistsSurjection
<1>4. Cardinality(ToSet(s)) <= Len(s) /\ IsFiniteSet(ToSet(s))
  BY <1>1, <1>3, FS_SurjCardinalityBound, FS_NatSurjection
<1>5. IsInjective(s)
  BY <1>1 DEF IsInjective
<1> QED
  BY <1>4, <1>5

LEMMA ListedMonotonic ==
  ASSUME NEW S, NEW T, S \subseteq T, NEW s, NEW x, Listed(s, S, x),
         NEW y, y = x \/ y \notin S
  PROVE  Listed(s, T, y)
<1>1. s \in Seq(T) /\ \A i \in DOMAIN s : s[i] \in S
  BY SeqMonotonic, LenProperties, ElementOfSeq DEF Listed
<1> QED
  BY <1>1 DEF Listed

LEMMA EmptyIsListed ==
  ASSUME NEW S, NEW x
  PROVE  Listed(<<>>, S, x) /\ ToSet(<<>>) = {} /\ Len(<<>>) = 0
<1>1. <<>> \in Seq(S) /\ Len(<<>>) = 0
  BY EmptySeq
<1>2. DOMAIN <<>> = {}
  BY <1>1, LenProperties
<1> QED
  BY <1>1, <1>2 DEF Listed, ToSet

\* What stays of a list is its first runs, and the rest is what is purged.
Rest(s, n) == {s[i] : i \in (n + 1)..Len(s)}

LEMMA KeptProperties ==
  ASSUME NEW S \in SUBSET Nat, NEW s, NEW x, Listed(s, S, x), NEW n \in Nat
  PROVE  /\ Listed(Kept(s, n), S, x) /\ Len(Kept(s, n)) <= n
         /\ ToSet(Kept(s, n)) = ToSet(s) \ Rest(s, n)
<1> DEFINE m == IF Len(s) > n THEN n ELSE Len(s)
           k == Kept(s, n)
<1>1. /\ Len(s) \in Nat /\ DOMAIN s = 1..Len(s)
      /\ \A i \in 1..Len(s) : s[i] \in S /\ s[i] \in Nat
      /\ \A i \in 1..Len(s) : s[i] = x => i = 1
      /\ \A i, j \in 1..Len(s) : s[i] = s[j] => i = j
      /\ ToSet(s) = {s[i] : i \in 1..Len(s)}
  BY ListedBasics
<1>2. m \in 0..Len(s) /\ m <= n /\ (m = n \/ m = Len(s))
  BY <1>1
<1>3. k = SubSeq(s, 1, m)
  BY DEF Kept
<1> HIDE DEF m, k
<1>4. m \in Nat /\ m <= Len(s) /\ \A i \in 1..m : i \in 1..Len(s)
  <2>1. Len(s) \in Nat
    BY <1>1
  <2> QED
    BY <2>1, <1>2
<1>5. k \in Seq(S) /\ Len(k) = m /\ \A i \in 1..m : k[i] = s[1 + i - 1]
  <2>1. /\ 1 \in Int /\ m \in Int /\ \A i \in 1..m : s[i] \in S
    BY <1>1, <1>4
  <2>2. /\ k \in Seq(S) /\ Len(k) = IF 1 <= m THEN m - 1 + 1 ELSE 0
        /\ \A i \in 1..(m - 1 + 1) : k[i] = s[1 + i - 1]
    BY <1>3, <2>1, SubSeqProperties
  <2>3. m - 1 + 1 = m /\ (1 <= m \/ m = 0)
    BY <1>4
  <2> QED
    BY <2>2, <2>3
<1>6. \A i \in 1..m : k[i] = s[i] /\ i \in 1..Len(s)
  <2>1. \A i \in 1..m : 1 + i - 1 = i
    BY <1>4
  <2> QED
    BY <2>1, <1>4, <1>5
<1>7. DOMAIN k = 1..m
  BY <1>5, LenProperties
<1>8. Listed(k, S, x)
  BY <1>1, <1>5, <1>6, <1>7 DEF Listed
<1>9. ASSUME NEW i \in 1..Len(s) PROVE s[i] \in Rest(s, n) <=> i \notin 1..m
  <2>1. i \notin 1..m <=> i \in (n + 1)..Len(s)
    <3>1. CASE m = n
      BY <3>1, <1>1, <1>4
    <3>2. CASE m = Len(s)
      BY <3>2, <1>1, <1>2, <1>4
    <3> QED
      BY <3>1, <3>2, <1>2
  <2>2. \A j \in (n + 1)..Len(s) : j \in 1..Len(s)
    BY <1>1
  <2> QED
    BY <2>1, <2>2, <1>1 DEF Rest
<1>10. ToSet(k) = ToSet(s) \ Rest(s, n)
  <2>1. ToSet(k) = {s[i] : i \in 1..m}
    BY <1>6, <1>7 DEF ToSet
  <2> QED
    BY <2>1, <1>1, <1>6, <1>9
<1> QED
  BY <1>2, <1>5, <1>8, <1>10 DEF k

\* A run that is not in a list goes first.
LEMMA PutFirst ==
  ASSUME NEW S \in SUBSET Nat, NEW s, NEW x, Listed(s, S, x), NEW r \in Nat, r \notin S,
         NEW y, y \notin S
  PROVE  /\ Listed(<<r>> \o s, S \cup {r}, y) /\ ToSet(<<r>> \o s) = ToSet(s) \cup {r}
         /\ \A n \in Nat \ {0} : Rest(<<r>> \o s, n) \in SUBSET S
         /\ Rest(<<r>> \o s, 0) = ToSet(s) \cup {r}
         /\ \A n \in Nat : Rest(<<r>> \o s, n) \in SUBSET (S \cup {r})
<1> DEFINE T == S \cup {r}
           t == <<r>> \o s
<1>1. /\ Len(s) \in Nat /\ DOMAIN s = 1..Len(s) /\ s \in Seq(T)
      /\ \A i \in 1..Len(s) : s[i] \in S /\ s[i] \in Nat
      /\ \A i, j \in 1..Len(s) : s[i] = s[j] => i = j
      /\ ToSet(s) = {s[i] : i \in 1..Len(s)}
  BY ListedBasics, SeqMonotonic DEF Listed
<1>2. <<r>> \in Seq(T) /\ Len(<<r>>) = 1 /\ <<r>>[1] = r
  OBVIOUS
<1>3. /\ t \in Seq(T) /\ Len(t) = 1 + Len(s)
      /\ \A i \in 1..(1 + Len(s)) : t[i] = IF i <= 1 THEN <<r>>[i] ELSE s[i - 1]
  BY <1>1, <1>2, ConcatProperties
<1>4. DOMAIN t = 1..(1 + Len(s)) /\ 1 \in 1..(1 + Len(s))
  BY <1>1, <1>3, LenProperties
<1> HIDE DEF t
<1>5. /\ t[1] = r /\ \A i \in 2..(1 + Len(s)) : i - 1 \in 1..Len(s) /\ t[i] = s[i - 1]
      /\ \A i \in 1..Len(s) : i + 1 \in 2..(1 + Len(s)) /\ t[i + 1] = s[i]
  <2>1. t[1] = r
    BY <1>2, <1>3, <1>4
  <2>2. ASSUME NEW i \in 2..(1 + Len(s)) PROVE i - 1 \in 1..Len(s) /\ t[i] = s[i - 1]
    BY <1>1, <1>3
  <2>3. ASSUME NEW i \in 1..Len(s) PROVE i + 1 \in 2..(1 + Len(s)) /\ t[i + 1] = s[i]
    <3>1. i + 1 \in 2..(1 + Len(s)) /\ (i + 1) - 1 = i
      BY <1>1
    <3> QED
      BY <2>2, <3>1
  <2> QED
    BY <2>1, <2>2, <2>3
<1>6. /\ \A i, j \in 1..(1 + Len(s)) : t[i] = t[j] => i = j
      /\ \A i \in 1..(1 + Len(s)) : t[i] = y => i = 1
  <2>1. \A i \in 1..(1 + Len(s)) : i = 1 \/ i \in 2..(1 + Len(s))
    BY <1>1
  <2>2. \A i \in 2..(1 + Len(s)) : t[i] = s[i - 1] /\ i - 1 \in 1..Len(s) /\ t[i] \in S
    BY <1>1, <1>5
  <2>3. ASSUME NEW i \in 2..(1 + Len(s)), NEW j \in 2..(1 + Len(s)), t[i] = t[j] PROVE i = j
    <3>1. i - 1 = j - 1
      BY <2>2, <2>3, <1>1
    <3> QED
      BY <3>1
  <2> QED
    BY <2>1, <2>2, <2>3, <1>5
<1>7. ToSet(t) = ToSet(s) \cup {r}
  <2>1. ToSet(t) = {t[i] : i \in 1..(1 + Len(s))}
    BY <1>4 DEF ToSet
  <2>2. \A i \in 1..(1 + Len(s)) : i = 1 \/ i \in 2..(1 + Len(s))
    BY <1>1
  <2>3. \A i \in 2..(1 + Len(s)) : i \in 1..(1 + Len(s))
    BY <1>1
  <2>4. \A z \in ToSet(t) : z \in ToSet(s) \cup {r}
    BY <2>1, <2>2, <1>1, <1>5
  <2>5. \A z \in ToSet(s) : z \in ToSet(t)
    BY <2>1, <2>3, <1>1, <1>5
  <2>6. r \in ToSet(t)
    BY <2>1, <1>4, <1>5
  <2> QED
    BY <2>4, <2>5, <2>6
<1>8. ASSUME NEW n \in Nat \ {0} PROVE Rest(t, n) \in SUBSET S
  <2>1. \A i \in (n + 1)..Len(t) : i \in 2..(1 + Len(s))
    BY <1>1, <1>3
  <2>2. \A i \in 2..(1 + Len(s)) : t[i] \in S
    BY <1>1, <1>5
  <2> QED
    BY <2>1, <2>2 DEF Rest
<1>9. Rest(t, 0) = ToSet(t)
  <2>1. (0 + 1)..Len(t) = 1..(1 + Len(s))
    BY <1>3
  <2> QED
    BY <2>1, <1>4 DEF Rest, ToSet
<1>10. ASSUME NEW n \in Nat PROVE Rest(t, n) \in SUBSET T
  <2>1. CASE n = 0
    BY <2>1, <1>1, <1>7, <1>9
  <2>2. CASE n # 0
    BY <2>2, <1>8
  <2> QED
    BY <2>1, <2>2
<1> QED
  BY <1>3, <1>4, <1>6, <1>7, <1>8, <1>9, <1>10 DEF Listed, t

\* An entry is taken out of a list.
LEMMA RemoveAtProperties ==
  ASSUME NEW S \in SUBSET Nat, NEW s, NEW x, Listed(s, S, x), NEW k \in 1..Len(s)
  PROVE  Listed(RemoveAt(s, k), S, x) /\ ToSet(RemoveAt(s, k)) = ToSet(s) \ {s[k]}
<1> DEFINE u == SubSeq(s, 1, k - 1)
           v == SubSeq(s, k + 1, Len(s))
           t == RemoveAt(s, k)
<1>1. /\ Len(s) \in Nat /\ DOMAIN s = 1..Len(s)
      /\ \A i \in 1..Len(s) : s[i] \in S /\ s[i] \in Nat
      /\ \A i \in 1..Len(s) : s[i] = x => i = 1
      /\ \A i, j \in 1..Len(s) : s[i] = s[j] => i = j
      /\ ToSet(s) = {s[i] : i \in 1..Len(s)}
  BY ListedBasics
<1>2. /\ u \in Seq(S) /\ Len(u) = k - 1 /\ \A i \in 1..(k - 1) : u[i] = s[i]
  <2>1. /\ 1 \in Int /\ k - 1 \in Int /\ \A i \in 1..(k - 1) : s[i] \in S /\ 1 + i - 1 = i
        /\ (k - 1) - 1 + 1 = k - 1 /\ (1 <= k - 1 \/ k - 1 = 0)
    BY <1>1
  <2> QED
    BY <2>1, SubSeqProperties
<1>3. /\ v \in Seq(S) /\ Len(v) = Len(s) - k /\ \A i \in 1..(Len(s) - k) : v[i] = s[k + i]
  <2> DEFINE a == k + 1
             b == Len(s)
  <2>1. /\ a \in Int /\ b \in Int /\ \A i \in a..b : s[i] \in S
        /\ b - a + 1 = Len(s) - k /\ (a <= b \/ Len(s) - k = 0)
        /\ \A i \in 1..(Len(s) - k) : a + i - 1 = k + i
    <3>1. Len(s) \in Nat
      BY <1>1
    <3>2. /\ a \in Int /\ b \in Int /\ \A i \in a..b : i \in 1..Len(s)
          /\ b - a + 1 = Len(s) - k /\ (a <= b \/ Len(s) - k = 0)
      BY <3>1
    <3>3. \A i \in 1..(Len(s) - k) : a + i - 1 = k + i
      BY <3>1
    <3> QED
      BY <3>2, <3>3, <1>1
  <2>2. v = SubSeq(s, a, b)
    OBVIOUS
  <2> HIDE DEF a, b, v
  <2>3. /\ v \in Seq(S) /\ Len(v) = IF a <= b THEN b - a + 1 ELSE 0
        /\ \A i \in 1..(b - a + 1) : v[i] = s[a + i - 1]
    BY <2>1, <2>2, SubSeqProperties
  <2> QED
    BY <2>1, <2>3
<1>4. t = u \o v
  BY DEF RemoveAt
<1> HIDE DEF u, v, t
<1>5. /\ t \in Seq(S) /\ Len(t) = Len(u) + Len(v)
      /\ \A i \in 1..(Len(u) + Len(v)) : t[i] = IF i <= Len(u) THEN u[i] ELSE v[i - Len(u)]
  BY <1>2, <1>3, <1>4, ConcatProperties
<1>6. DOMAIN t = 1..(Len(s) - 1)
  <2>1. Len(t) = Len(s) - 1
    BY <1>1, <1>2, <1>3, <1>5
  <2> QED
    BY <2>1, <1>5, LenProperties
<1> DEFINE at(i) == IF i < k THEN i ELSE i + 1
<1>7. \A i \in 1..(Len(s) - 1) : at(i) \in 1..Len(s) /\ at(i) # k /\ t[i] = s[at(i)]
  <2> SUFFICES ASSUME NEW i \in 1..(Len(s) - 1)
               PROVE at(i) \in 1..Len(s) /\ at(i) # k /\ t[i] = s[at(i)]
    OBVIOUS
  <2>1. i \in 1..(Len(u) + Len(v))
    BY <1>1, <1>2, <1>3
  <2>2. CASE i < k
    <3>1. i \in 1..(k - 1) /\ i <= Len(u) /\ at(i) = i /\ i \in 1..Len(s) /\ i # k
      BY <1>1, <1>2, <2>2
    <3> QED
      BY <3>1, <2>1, <1>2, <1>5
  <2>3. CASE ~(i < k)
    <3>1. /\ ~(i <= Len(u)) /\ i - Len(u) = i - (k - 1) /\ i - (k - 1) \in 1..(Len(s) - k)
          /\ k + (i - (k - 1)) = i + 1 /\ i + 1 \in 1..Len(s) /\ i + 1 # k
          /\ at(i) = i + 1
      BY <1>1, <1>2, <2>3
    <3>2. t[i] = v[i - (k - 1)]
      BY <3>1, <2>1, <1>5
    <3> QED
      BY <3>1, <3>2, <1>3
  <2> QED
    BY <2>2, <2>3
<1>8. /\ \A i, j \in 1..(Len(s) - 1) : at(i) = at(j) => i = j
      /\ \A i \in 1..(Len(s) - 1) : at(i) = 1 => i = 1
  BY <1>1
<1>9. \A i \in 1..Len(s) : i # k => \E j \in 1..(Len(s) - 1) : at(j) = i
  <2> SUFFICES ASSUME NEW i \in 1..Len(s), i # k PROVE \E j \in 1..(Len(s) - 1) : at(j) = i
    OBVIOUS
  <2>1. CASE i < k
    <3>1. i \in 1..(Len(s) - 1) /\ at(i) = i
      BY <2>1, <1>1
    <3> QED
      BY <3>1
  <2>2. CASE ~(i < k)
    <3>1. i - 1 \in 1..(Len(s) - 1) /\ at(i - 1) = i
      BY <2>2, <1>1
    <3> QED
      BY <3>1
  <2> QED
    BY <2>1, <2>2
<1> HIDE DEF at
<1>10. Listed(t, S, x)
  <2>1. ASSUME NEW i \in 1..(Len(s) - 1), NEW j \in 1..(Len(s) - 1), t[i] = t[j] PROVE i = j
    <3>1. at(i) = at(j)
      BY <2>1, <1>1, <1>7
    <3> QED
      BY <3>1, <1>8
  <2>2. ASSUME NEW i \in 1..(Len(s) - 1), t[i] = x PROVE i = 1
    <3>1. at(i) = 1
      BY <2>2, <1>1, <1>7
    <3> QED
      BY <3>1, <1>8
  <2> QED
    BY <2>1, <2>2, <1>5, <1>6 DEF Listed
<1>11. ToSet(t) = ToSet(s) \ {s[k]}
  <2>1. ToSet(t) = {t[i] : i \in 1..(Len(s) - 1)}
    BY <1>6 DEF ToSet
  <2>2. ASSUME NEW i \in 1..(Len(s) - 1) PROVE t[i] \in ToSet(s) \ {s[k]}
    <3>1. at(i) \in 1..Len(s) /\ at(i) # k /\ t[i] = s[at(i)]
      BY <1>7
    <3> QED
      BY <3>1, <1>1
  <2>3. ASSUME NEW i \in 1..Len(s), i # k PROVE s[i] \in ToSet(t)
    <3>1. PICK j \in 1..(Len(s) - 1) : at(j) = i
      BY <2>3, <1>9
    <3>2. t[j] = s[i]
      BY <3>1, <1>7
    <3> QED
      BY <3>2, <2>1
  <2>4. \A y \in ToSet(s) \ {s[k]} : y \in ToSet(t)
    BY <2>3, <1>1
  <2> QED
    BY <2>1, <2>2, <2>4
<1> QED
  BY <1>10, <1>11 DEF t

-----------------------------------------------------------------------------
(* Calls on their way *)

Reads == {"list", "get"}
Writes == {"add", "delete", "clear", "trim"}
Calls == [name : Reads, arg : Slots] \cup [name : Writes, arg : Nat]

\* What a call leaves on disk.
Effect(S, c) ==
  CASE c.name = "add" -> S \cup {c.arg}
    [] c.name = "delete" -> S \ {c.arg}
    [] c.name = "clear" -> {}
    [] c.name = "trim" -> Newest(S, c.arg)
    [] c.name \in Reads -> S

LEMMA EffectOfCall ==
  ASSUME NEW S, NEW c
  PROVE  /\ c.name = "add" => Effect(S, c) = S \cup {c.arg}
         /\ c.name = "delete" => Effect(S, c) = S \ {c.arg}
         /\ c.name = "clear" => Effect(S, c) = {}
         /\ c.name = "trim" => Effect(S, c) = Newest(S, c.arg)
         /\ c.name \in Reads => Effect(S, c) = S
<1>1. \A x : x \in Reads <=> x = "list" \/ x = "get"
  BY DEF Reads
<1>2. ASSUME c.name = "add" PROVE Effect(S, c) = S \cup {c.arg}
  BY <1>1, <1>2 DEF Effect
<1>3. ASSUME c.name = "delete" PROVE Effect(S, c) = S \ {c.arg}
  BY <1>1, <1>3 DEF Effect
<1>4. ASSUME c.name = "clear" PROVE Effect(S, c) = {}
  BY <1>1, <1>4 DEF Effect
<1>5. ASSUME c.name = "trim" PROVE Effect(S, c) = Newest(S, c.arg)
  BY <1>1, <1>5 DEF Effect
<1>6. ASSUME c.name \in Reads PROVE Effect(S, c) = S
  <2>1. c.name \in {"list", "get"}
    BY <1>6 DEF Reads
  <2> QED
    BY <2>1, <1>6 DEF Effect
<1> QED
  BY <1>2, <1>3, <1>4, <1>5, <1>6

LEMMA CallProperties ==
  ASSUME NEW name, NEW arg
  PROVE  /\ Call(name, arg).name = name /\ Call(name, arg).arg = arg
         /\ name \in Reads /\ arg \in Slots => Call(name, arg) \in Calls
         /\ name \in Writes /\ arg \in Nat => Call(name, arg) \in Calls
BY DEF Call, Calls

LEMMA CallHas ==
  ASSUME NEW c \in Calls
  PROVE  /\ c.name \in Reads \cup Writes
         /\ c.name \in Reads => c.arg \in Slots
         /\ c.name \in Writes => c.arg \in Nat
BY DEF Calls, Reads, Writes

\* f holds what is on disk before and after each of the calls q, within B.
Chain(f, d, q, B) ==
  /\ f \in [0..Len(q) -> SUBSET B]
  /\ f[0] = d
  /\ \A k \in 1..Len(q) : f[k] = Effect(f[k - 1], q[k])

\* g goes on where f ends, with calls of the kinds `names`, and ends with E.
Prolongs(g, t, E, f, q, names) ==
  /\ Len(t) \in Nat /\ Len(t) >= Len(q) /\ g[Len(t)] = E
  /\ \A k \in 0..Len(q) : g[k] = f[k]
  /\ \A k \in 1..Len(q) : t[k] = q[k]
  /\ \A k \in (Len(q) + 1)..Len(t) : t[k].name \in names

LEMMA ChainGrows ==
  ASSUME NEW B, NEW C, B \subseteq C, NEW f, NEW d, NEW q, Chain(f, d, q, B)
  PROVE  Chain(f, d, q, C)
BY DEF Chain

LEMMA ChainAppends ==
  ASSUME NEW B, NEW d, NEW q \in Seq(Calls), NEW f, Chain(f, d, q, B), NEW c \in Calls,
         NEW names, c.name \in names, Effect(f[Len(q)], c) \subseteq B
  PROVE  /\ Append(q, c) \in Seq(Calls)
         /\ \E g : /\ Chain(g, d, Append(q, c), B)
                   /\ Prolongs(g, Append(q, c), Effect(f[Len(q)], c), f, q, names)
<1> DEFINE t == Append(q, c)
           n == Len(q)
           E == Effect(f[n], c)
           g == [k \in 0..(n + 1) |-> IF k = n + 1 THEN E ELSE f[k]]
<1>1. n \in Nat
  BY LenProperties
<1>2. /\ t \in Seq(Calls) /\ Len(t) = n + 1
      /\ \A i \in 1..n : t[i] = q[i]
      /\ t[n + 1] = c
  BY AppendProperties
<1>3. /\ f \in [0..n -> SUBSET B] /\ f[0] = d
      /\ \A k \in 1..n : f[k] = Effect(f[k - 1], q[k])
  BY DEF Chain
<1>4. /\ \A k \in 0..(n + 1) : k = n + 1 \/ k \in 0..n
      /\ \A k \in 1..(n + 1) : k = n + 1 \/ k \in 1..n
      /\ n + 1 \in 0..(n + 1) /\ n + 1 \notin 0..n /\ n + 1 \notin 1..n
      /\ \A k \in 0..n : k \in 0..(n + 1)
      /\ \A k \in 1..n : k - 1 \in 0..n /\ k \in 0..n
      /\ (n + 1) - 1 = n /\ n \in 0..n /\ 0 \in 0..n
      /\ \A k \in (n + 1)..(n + 1) : k = n + 1
  BY <1>1
<1>5. E = Effect(f[n], c) /\ E \in SUBSET B
  OBVIOUS
<1>6. /\ g[n + 1] = E /\ \A k \in 0..n : g[k] = f[k]
      /\ g \in [0..(n + 1) -> SUBSET B]
  BY <1>3, <1>4, <1>5
<1> HIDE DEF g, t, n, E
<1>7. \A k \in 1..(n + 1) : g[k] = Effect(g[k - 1], t[k])
  <2>1. g[n + 1] = Effect(g[(n + 1) - 1], t[n + 1])
    BY <1>2, <1>4, <1>5, <1>6
  <2>2. ASSUME NEW k \in 1..n PROVE g[k] = Effect(g[k - 1], t[k])
    BY <1>2, <1>3, <1>4, <1>6
  <2> QED
    BY <2>1, <2>2, <1>4
<1>8. Chain(g, d, t, B)
  BY <1>2, <1>3, <1>4, <1>6, <1>7 DEF Chain
<1>9. Prolongs(g, t, E, f, q, names)
  <2>1. Len(t) \in Nat /\ Len(t) >= n
    BY <1>1, <1>2
  <2>2. \A k \in (n + 1)..Len(t) : t[k].name \in names
    BY <1>2, <1>4
  <2> QED
    BY <2>1, <2>2, <1>2, <1>6 DEF Prolongs, n
<1> QED
  BY <1>2, <1>8, <1>9 DEF t, E, n

LEMMA ProlongsTwice ==
  ASSUME NEW p, NEW q, NEW t, NEW f, NEW g, NEW h, NEW D, NEW E, NEW A, NEW B, NEW C,
         Len(p) \in Nat, Prolongs(h, q, D, f, p, A), Prolongs(g, t, E, h, q, B),
         \A x \in A \cup B : x \in C
  PROVE  Prolongs(g, t, E, f, p, C)
<1> DEFINE a == Len(p)
           b == Len(q)
           c == Len(t)
<1>1. /\ a \in Nat /\ b \in Nat /\ c \in Nat /\ b >= a /\ c >= b /\ g[c] = E
      /\ \A k \in 0..a : h[k] = f[k]
      /\ \A k \in 1..a : q[k] = p[k]
      /\ \A k \in (a + 1)..b : q[k].name \in A
      /\ \A k \in 0..b : g[k] = h[k]
      /\ \A k \in 1..b : t[k] = q[k]
      /\ \A k \in (b + 1)..c : t[k].name \in B
  BY DEF Prolongs
<1> HIDE DEF a, b, c
<1>2. /\ \A k \in 0..a : k \in 0..b
      /\ \A k \in 1..a : k \in 1..b
      /\ \A k \in (a + 1)..c : k \in (b + 1)..c \/ (k \in (a + 1)..b /\ k \in 1..b)
      /\ c >= a
  BY <1>1
<1>3. \A k \in (a + 1)..c : t[k].name \in C
  BY <1>1, <1>2
<1> QED
  BY <1>1, <1>2, <1>3 DEF Prolongs, a, b, c

LEMMA ProlongsNothing ==
  ASSUME NEW f, NEW q, Len(q) \in Nat
  PROVE  Prolongs(f, q, f[Len(q)], f, q, {})
BY DEF Prolongs

\* The calls that purge a list take what was cut off it from the disk.
LEMMA ChainPurges ==
  ASSUME NEW B, NEW d, NEW q \in Seq(Calls), NEW f, Chain(f, d, q, B),
         NEW S \in SUBSET Nat, NEW s, NEW x, Listed(s, S, x), NEW max \in Nat
  PROVE  LET t == q \o Purged(s, max)
         IN  /\ t \in Seq(Calls)
             /\ \E g : /\ Chain(g, d, t, B)
                       /\ Prolongs(g, t, f[Len(q)] \ Rest(s, max), f, q, {"delete"})
<1> DEFINE n == Len(q)
           l == Len(s)
           p == Purged(s, max)
           m == IF l > max THEN l - max ELSE 0
           t == q \o p
           Gone(k) == {s[i] : i \in (l + 1 - k)..l}
           g == [k \in 0..(n + m) |-> IF k <= n THEN f[k] ELSE f[n] \ Gone(k - n)]
<1>1. n \in Nat /\ l \in Nat /\ \A i \in 1..l : s[i] \in Nat
  BY LenProperties, ListedBasics
<1>2. m \in Nat /\ m <= l /\ 1..(l - max) = 1..m
  BY <1>1
<1>3. p = [i \in 1..m |-> Call("delete", s[l + 1 - i])]
  BY <1>2 DEF Purged
<1>4. (m = l - max /\ l > max) \/ (m = 0 /\ ~(l > max))
  OBVIOUS
<1> HIDE DEF m
<1>5. \A i \in 1..m : l + 1 - i \in 1..l
  BY <1>1, <1>2
<1>6. /\ \A i \in 1..m : Call("delete", s[l + 1 - i]) \in Calls
      /\ \A i \in 1..m : Call("delete", s[l + 1 - i]).name = "delete"
      /\ \A i \in 1..m : Call("delete", s[l + 1 - i]).arg = s[l + 1 - i]
  BY <1>1, <1>5, CallProperties DEF Writes
<1>7. p \in Seq(Calls) /\ Len(p) = m /\ \A i \in 1..m : p[i] = Call("delete", s[l + 1 - i])
  <2>1. p \in [1..m -> Calls]
    BY <1>3, <1>6
  <2>2. p \in Seq(Calls)
    BY <2>1, <1>2, SeqDef
  <2>3. DOMAIN p = 1..m /\ DOMAIN p = 1..Len(p) /\ Len(p) \in Nat
    BY <2>1, <2>2, LenProperties
  <2>4. Len(p) = m
    BY <2>3, <1>2
  <2> QED
    BY <2>2, <2>4, <1>3
<1> HIDE DEF p
<1>8. /\ t \in Seq(Calls) /\ Len(t) = n + m
      /\ \A i \in 1..(n + m) : t[i] = IF i <= n THEN q[i] ELSE p[i - n]
  BY <1>7, ConcatProperties
<1>9. /\ f \in [0..n -> SUBSET B] /\ f[0] = d
      /\ \A k \in 1..n : f[k] = Effect(f[k - 1], q[k])
  BY DEF Chain
<1> HIDE DEF n, l, t
<1>10. /\ n \in 0..n /\ 0 \in 0..n /\ f[n] \in SUBSET B
       /\ \A k \in 0..n : k \in 0..(n + m) /\ k <= n
       /\ \A k \in 1..n : k - 1 \in 0..n /\ k \in 0..n /\ k <= n /\ k \in 1..(n + m)
       /\ \A k \in 0..(n + m) : k <= n => k \in 0..n
       /\ \A k \in 1..(n + m) : k <= n => k \in 1..n
       /\ \A k \in 1..(n + m) : ~(k <= n) => k - n \in 1..m
  <2>1. n \in 0..n /\ 0 \in 0..n /\ f[n] \in SUBSET B
    BY <1>1, <1>9
  <2>2. /\ \A k \in 0..n : k \in 0..(n + m) /\ k <= n
        /\ \A k \in 1..n : k - 1 \in 0..n /\ k \in 0..n /\ k <= n /\ k \in 1..(n + m)
        /\ \A k \in 0..(n + m) : k <= n => k \in 0..n
        /\ \A k \in 1..(n + m) : k <= n => k \in 1..n
        /\ \A k \in 1..(n + m) : ~(k <= n) => k - n \in 1..m
    BY <1>1, <1>2
  <2> QED
    BY <2>1, <2>2
<1>11. \A k \in 0..n : g[k] = f[k]
  BY <1>10
<1>12. \A k \in 0..(n + m) : ~(k <= n) => g[k] = f[n] \ Gone(k - n)
  OBVIOUS
<1>13. g \in [0..(n + m) -> SUBSET B]
  BY <1>9, <1>10
<1>14. Gone(0) = {}
  BY <1>1
<1>15. \A k \in 1..m : Gone(k) = Gone(k - 1) \cup {s[l + 1 - k]}
  <2> SUFFICES ASSUME NEW k \in 1..m PROVE Gone(k) = Gone(k - 1) \cup {s[l + 1 - k]}
    OBVIOUS
  <2>1. /\ \A i \in (l + 1 - k)..l : i = l + 1 - k \/ i \in (l + 1 - (k - 1))..l
        /\ \A i \in (l + 1 - (k - 1))..l : i \in (l + 1 - k)..l
        /\ l + 1 - k \in (l + 1 - k)..l
    BY <1>1, <1>2
  <2> QED
    BY <2>1
<1>16. Gone(m) = Rest(s, max)
  <2>1. CASE m = l - max /\ l > max
    <3>1. l + 1 - m = max + 1
      BY <2>1, <1>1
    <3> QED
      BY <3>1 DEF Rest, l
  <2>2. CASE m = 0 /\ ~(l > max)
    <3>1. (max + 1)..l = {}
      BY <2>2, <1>1
    <3>2. Rest(s, max) = {}
      BY <3>1 DEF Rest, l
    <3> QED
      BY <3>2, <2>2, <1>14
  <2> QED
    BY <2>1, <2>2, <1>4
<1> HIDE DEF g, Gone
<1>17. \A k \in 1..(n + m) : g[k] = Effect(g[k - 1], t[k])
  <2> SUFFICES ASSUME NEW k \in 1..(n + m) PROVE g[k] = Effect(g[k - 1], t[k])
    OBVIOUS
  <2>1. CASE k <= n
    <3>1. k \in 1..n /\ k - 1 \in 0..n /\ k \in 0..n
      BY <2>1, <1>10
    <3>2. t[k] = q[k]
      BY <2>1, <1>8
    <3> QED
      BY <3>1, <3>2, <1>9, <1>11
  <2>2. CASE ~(k <= n)
    <3>1. /\ k - n \in 1..m /\ k \in 0..(n + m) /\ k - 1 \in 0..(n + m)
          /\ (k - n) - 1 = (k - 1) - n /\ (k - 1 <= n <=> k - 1 = n) /\ n - n = 0
      BY <2>2, <1>1, <1>2
    <3>2. t[k] = p[k - n]
      BY <2>2, <1>8
    <3>3. p[k - n].name = "delete" /\ p[k - n].arg = s[l + 1 - (k - n)]
      BY <3>1, <1>6, <1>7
    <3>4. g[k] = f[n] \ Gone(k - n)
      BY <3>1, <2>2, <1>12
    <3>5. g[k - 1] = f[n] \ Gone((k - n) - 1)
      <4>1. CASE k - 1 = n
        <5>1. g[k - 1] = f[n] /\ (k - n) - 1 = 0
          BY <4>1, <3>1, <1>10, <1>11
        <5> QED
          BY <5>1, <1>14
      <4>2. CASE k - 1 # n
        BY <4>2, <3>1, <1>12
      <4> QED
        BY <4>1, <4>2
    <3>6. Effect(g[k - 1], t[k]) = g[k - 1] \ {s[l + 1 - (k - n)]}
      BY <3>2, <3>3, EffectOfCall
    <3>7. Gone(k - n) = Gone((k - n) - 1) \cup {s[l + 1 - (k - n)]}
      BY <3>1, <1>15
    <3> QED
      BY <3>4, <3>5, <3>6, <3>7
  <2> QED
    BY <2>1, <2>2
<1>18. Chain(g, d, t, B)
  BY <1>8, <1>9, <1>10, <1>11, <1>13, <1>17 DEF Chain
<1>19. g[n + m] = f[n] \ Gone(m)
  <2>1. CASE m = 0
    BY <2>1, <1>1, <1>10, <1>11, <1>14
  <2>2. CASE m # 0
    <3>1. n + m \in 0..(n + m) /\ ~(n + m <= n) /\ (n + m) - n = m
      BY <2>2, <1>1, <1>2
    <3> QED
      BY <3>1, <1>12
  <2> QED
    BY <2>1, <2>2
<1>20. Prolongs(g, t, f[Len(q)] \ Rest(s, max), f, q, {"delete"})
  <2>1. Len(t) \in Nat /\ Len(t) >= n
    BY <1>1, <1>2, <1>8
  <2>2. ASSUME NEW k \in (n + 1)..Len(t) PROVE t[k].name \in {"delete"}
    <3>1. k \in 1..(n + m) /\ ~(k <= n) /\ k - n \in 1..m
      BY <1>1, <1>2, <1>8
    <3> QED
      BY <3>1, <1>6, <1>7, <1>8
  <2>3. \A k \in 1..n : t[k] = q[k]
    BY <1>8, <1>10
  <2> QED
    BY <2>1, <2>2, <2>3, <1>8, <1>11, <1>16, <1>19 DEF Prolongs, n
<1> QED
  BY <1>8, <1>18, <1>20 DEF t, p

\* The main process takes the first call.
LEMMA HeadServed ==
  ASSUME NEW q \in Seq(Calls), q # <<>>
  PROVE  /\ Head(q) = q[1] /\ Head(q) \in Calls /\ Tail(q) \in Seq(Calls)
         /\ Len(q) \in Nat \ {0} /\ Len(Tail(q)) = Len(q) - 1
         /\ \A k \in 1..(Len(q) - 1) : Tail(q)[k] = q[k + 1]
<1>1. Len(q) \in Nat \ {0}
  BY EmptySeq
<1>2. /\ Head(q) = q[1] /\ Head(q) \in Calls /\ Tail(q) \in Seq(Calls)
      /\ Len(Tail(q)) = Len(q) - 1
  BY HeadTailProperties
<1>3. \A k \in 1..(Len(q) - 1) : Tail(q)[k] = q[k + 1]
  BY <1>2, HeadTailProperties
<1> QED
  BY <1>1, <1>2, <1>3

\* What is on disk from the second call on.
Ahead(f, q) == [k \in 0..(Len(q) - 1) |-> f[k + 1]]
Served(t, q) == Len(t) = Len(q) - 1 /\ \A k \in 1..(Len(q) - 1) : t[k] = q[k + 1]

LEMMA ChainServes ==
  ASSUME NEW B, NEW d, NEW q, Len(q) \in Nat \ {0}, NEW f, Chain(f, d, q, B),
         NEW t, Served(t, q)
  PROVE  Chain(Ahead(f, q), Effect(d, q[1]), t, B)
<1> DEFINE n == Len(q)
           c == q[1]
           g == Ahead(f, q)
<1>1. n \in Nat \ {0} /\ Len(t) = n - 1 /\ \A k \in 1..(n - 1) : t[k] = q[k + 1]
  BY DEF Served
<1>4. /\ f \in [0..n -> SUBSET B] /\ f[0] = d
      /\ \A k \in 1..n : f[k] = Effect(f[k - 1], q[k])
  BY DEF Chain
<1>5. /\ \A k \in 0..(n - 1) : k + 1 \in 0..n
      /\ \A k \in 1..(n - 1) : /\ k + 1 \in 1..n /\ (k + 1) - 1 = k /\ k - 1 \in 0..(n - 1)
                               /\ (k - 1) + 1 = k /\ k \in 0..(n - 1)
      /\ 0 \in 0..(n - 1) /\ 0 + 1 = 1 /\ 1 \in 1..n /\ 1 - 1 = 0
  BY <1>1
<1>6. g \in [0..(n - 1) -> SUBSET B] /\ \A k \in 0..(n - 1) : g[k] = f[k + 1]
  BY <1>4, <1>5 DEF Ahead
<1> HIDE DEF g, n
<1>7. g[0] = Effect(d, c)
  <2>1. g[0] = f[1] /\ f[1] = Effect(f[0], q[1])
    BY <1>4, <1>5, <1>6
  <2> QED
    BY <2>1, <1>4
<1>8. \A k \in 1..(n - 1) : g[k] = Effect(g[k - 1], t[k])
  <2> SUFFICES ASSUME NEW k \in 1..(n - 1) PROVE g[k] = Effect(g[k - 1], t[k])
    OBVIOUS
  <2>1. g[k] = f[k + 1] /\ g[k - 1] = f[(k - 1) + 1] /\ (k - 1) + 1 = k
    BY <1>5, <1>6
  <2>2. f[k + 1] = Effect(f[(k + 1) - 1], q[k + 1]) /\ (k + 1) - 1 = k
    BY <1>4, <1>5
  <2> QED
    BY <2>1, <2>2, <1>1
<1>9. Chain(g, Effect(d, c), t, B)
  BY <1>1, <1>6, <1>7, <1>8 DEF Chain
<1> QED
  BY <1>9 DEF g

-----------------------------------------------------------------------------
(* The invariant *)

LoadTypes == [phase : {"none", "listing", "reading"}, run : Nat, limit : Nat, items : Seq(Nat)]
Answers == [slot : Slots, items : Seq(Nat)]

TimelineTyped ==
  /\ loads \in [Slots -> LoadTypes] /\ loaded \in BOOLEAN
  /\ invokes \in Seq(Calls) /\ replies \in Seq(Answers)
  /\ limit \in Limits /\ raced \in BOOLEAN /\ edits \in 0..MaxEdits
  /\ ended \subseteq Ids /\ IsFiniteSet(ended)
  /\ recorded \subseteq ended /\ dropped \subseteq recorded
  /\ latest \in recorded \cup {NoRun}

\* The run recorded last, if it is the newest too.
Lead == IF \A j \in recorded : j <= latest THEN latest ELSE NoRun

\* A list shows nothing twice, and such a run only first; a load that waits to record a
\* run is the only one that does, and the run is not recorded yet.
ListsInOrder ==
  /\ Listed(mem, recorded, Lead)
  /\ \A s \in Slots : Listed(loads[s].items, recorded, Lead)
  /\ \A k \in 1..Len(replies) :
       Listed(replies[k].items, recorded, Lead)
  /\ \A s \in Slots : loads[s].run # NoRun => loads[s].run \in ended \ recorded
  /\ \A s, t \in Slots : loads[s].run # NoRun /\ loads[s].run = loads[t].run => s = t

\* What the disk will hold once every call is served: none of X, which was dropped,
\* but x, which was recorded.
Fate(E, X, x) == E \cap X = {} /\ (x # NoRun /\ x \notin X => x \in E)

\* The load in slot s waits for the call, the last one sent.
Awaits(s, name) ==
  /\ replies = <<>> /\ invokes # <<>> /\ invokes[Len(invokes)] = Call(name, s)
  /\ \A k \in 1..(Len(invokes) - 1) : invokes[k].name \in Reads => invokes[k].arg # s
Answered(s, items) == invokes = <<>> /\ replies = <<[slot |-> s, items |-> items]>>

LoadIsCalm(s, E) ==
  /\ loads[s].limit = limit
  /\ \/ /\ loads[s].phase = "listing" /\ loads[s].items = <<>>
        /\ Awaits(s, "list") \/ \E items : Answered(s, items) /\ ToSet(items) = E
     \/ /\ loads[s].phase = "reading" /\ ToSet(loads[s].items) = E
        /\ Awaits(s, "get") \/ Answered(s, <<>>)

Waiting == {s \in Slots : loads[s] # NoLoad}

\* As long as no handler ran during a load.
Calm(E) ==
  /\ Cardinality(E) <= limit
  /\ \A s, t \in Waiting : s = t
  /\ Waiting = {} => replies = <<>> /\ (loaded => E = ToSet(mem))
  /\ \A s \in Waiting : LoadIsCalm(s, E)

Settling(f) ==
  /\ Chain(f, disk, invokes, recorded)
  /\ Fate(f[Len(invokes)], dropped, Lead)
  /\ raced \/ Calm(f[Len(invokes)])

TimelineInv == TimelineTyped /\ ListsInOrder /\ \E f : Settling(f)

-----------------------------------------------------------------------------
(* What the steps have in common *)

LEMMA NoLoadProperties ==
  /\ NoLoad \in LoadTypes /\ NoLoad.run = NoRun /\ NoLoad.items = <<>> /\ NoRun \in Nat
  /\ \A run \in Nat : limit \in Nat =>
       /\ LoadOf(run) \in LoadTypes /\ LoadOf(run).run = run /\ LoadOf(run).items = <<>>
       /\ LoadOf(run).phase = "listing" /\ LoadOf(run).limit = limit /\ LoadOf(run) # NoLoad
<1>1. <<>> \in Seq(Nat)
  BY EmptySeq
<1> QED
  BY <1>1 DEF NoLoad, NoRun, LoadOf, LoadTypes

LEMMA RepliesHaveSlots ==
  ASSUME TimelineTyped, NEW k \in 1..Len(replies)
  PROVE  replies[k] \in Answers /\ replies[k].slot \in Slots
<1>1. replies \in Seq(Answers)
  BY DEF TimelineTyped
<1>2. replies[k] \in Answers
  BY <1>1, ElementOfSeq
<1> QED
  BY <1>2 DEF Answers

LEMMA RecordedAreNumbers ==
  ASSUME TimelineTyped
  PROVE  /\ ended \in SUBSET Nat /\ recorded \in SUBSET Nat /\ IsFiniteSet(recorded)
         /\ limit \in Nat /\ NoRun \notin ended
         /\ NoRun \in Nat /\ latest \in Nat
         /\ Lead \in recorded \cup {NoRun} /\ (Lead \in recorded => \A j \in recorded : j <= Lead)
<1>1. ended \in SUBSET Nat /\ NoRun \notin ended /\ limit \in Nat /\ recorded \in SUBSET ended
  BY TimelineAssumption DEF TimelineTyped, NoRun
<1>2. IsFiniteSet(recorded)
  BY <1>1, FS_Subset DEF TimelineTyped
<1>3. latest \in recorded \cup {NoRun} /\ NoRun \in Nat
  BY DEF TimelineTyped, NoRun
<1>4. Lead \in recorded \cup {NoRun} /\ (Lead \in recorded => \A j \in recorded : j <= Lead)
  BY <1>1, <1>3 DEF Lead
<1> QED
  BY <1>1, <1>2, <1>3, <1>4

\* Runs that are recorded make no list less orderly.
LEMMA ListsStay ==
  ASSUME TimelineTyped, ListsInOrder, recorded \subseteq recorded', ended \subseteq ended',
         Lead' = Lead \/ Lead' \notin recorded, Listed(mem', recorded', Lead'),
         \A s \in Slots : \/ loads'[s] = loads[s]
                          \/ loads'[s].items = <<>> /\ loads'[s].run = NoRun,
         \A s \in Slots : loads[s].run \in recorded' => loads'[s].run = NoRun,
         \A k \in 1..Len(replies') : \E l \in 1..Len(replies) : replies'[k] = replies[l]
  PROVE  ListsInOrder'
<1>2. \A s \in Slots : loads'[s].run \in {loads[s].run, NoRun}
  OBVIOUS
<1>3. ASSUME NEW s \in Slots PROVE Listed(loads'[s].items, recorded', Lead')
  <2>1. CASE loads'[s] = loads[s]
    <3>1. Listed(loads[s].items, recorded, Lead)
      BY DEF ListsInOrder
    <3> QED
      BY <2>1, <3>1, ListedMonotonic
  <2>2. CASE loads'[s].items = <<>>
    BY <2>2, EmptyIsListed
  <2> QED
    BY <2>1, <2>2
<1>4. ASSUME NEW k \in 1..Len(replies') PROVE Listed(replies'[k].items, recorded', Lead')
  <2>1. PICK l \in 1..Len(replies) : replies'[k] = replies[l]
    OBVIOUS
  <2>2. Listed(replies[l].items, recorded, Lead)
    BY DEF ListsInOrder
  <2> QED
    BY <2>1, <2>2, ListedMonotonic
<1>5. ASSUME NEW s \in Slots, loads'[s].run # NoRun
      PROVE  loads'[s].run = loads[s].run /\ loads'[s].run \in ended' \ recorded'
  <2>1. loads'[s].run = loads[s].run
    BY <1>5, <1>2
  <2> QED
    BY <2>1, <1>5 DEF ListsInOrder
<1>6. \A s, t \in Slots : loads'[s].run # NoRun /\ loads'[s].run = loads'[t].run => s = t
  BY <1>5 DEF ListsInOrder
<1> QED
  BY <1>3, <1>4, <1>5, <1>6 DEF ListsInOrder

\* _recordHistoryEntry keeps the fate of the runs.
LEMMA RecordSettles ==
  ASSUME TimelineTyped, NEW f, Chain(f, disk, invokes, recorded), Fate(f[Len(invokes)], dropped, Lead),
         NEW entries, NEW run \in Nat, run # NoRun, run \notin recorded,
         Listed(entries, recorded, Lead), Record(entries, run)
  PROVE  /\ recorded' = recorded \cup {run} /\ dropped' \subseteq recorded'
         /\ latest' \in recorded' /\ Lead' \notin recorded
         /\ Listed(mem', recorded', Lead') /\ invokes' \in Seq(Calls)
         /\ Cardinality(ToSet(mem')) <= limit
         /\ \E g, E : /\ Chain(g, disk, invokes', recorded')
                      /\ Prolongs(g, invokes', E, f, invokes, Writes)
                      /\ Fate(E, dropped', Lead')
                      /\ f[Len(invokes)] = ToSet(entries) => E = ToSet(mem')
<1> DEFINE all == <<run>> \o entries
           q == Append(invokes, Call("add", run))
           D == f[Len(invokes)]
           E == (D \cup {run}) \ Rest(all, limit)
<1>1. recorded \in SUBSET Nat /\ limit \in Nat /\ NoRun \notin recorded
  BY RecordedAreNumbers DEF TimelineTyped
<1>2. /\ mem' = Kept(all, limit) /\ recorded' = recorded \cup {run} /\ latest' = run
      /\ dropped' = IF limit = 0 THEN dropped \cup {run} ELSE dropped
      /\ invokes' = q \o Purged(all, limit)
  BY DEF Record
<1>20. Lead' \in {run, NoRun} /\ Lead' \notin recorded
  BY <1>1, <1>2 DEF Lead
<1>3. /\ Listed(all, recorded \cup {run}, Lead') /\ ToSet(all) = ToSet(entries) \cup {run}
      /\ limit # 0 => Rest(all, limit) \in SUBSET recorded
      /\ Rest(all, 0) = ToSet(entries) \cup {run}
      /\ Rest(all, limit) \in SUBSET (recorded \cup {run})
  <2> DEFINE y == Lead'
             x == Lead
             S == recorded
  <2>1. S \in SUBSET Nat /\ run \notin S /\ y \notin S /\ Listed(entries, S, x)
    BY <1>1, <1>20
  <2> HIDE DEF all, x, y, S
  <2>2. /\ Listed(all, S \cup {run}, y) /\ ToSet(all) = ToSet(entries) \cup {run}
        /\ \A n \in Nat \ {0} : Rest(all, n) \in SUBSET S
        /\ Rest(all, 0) = ToSet(entries) \cup {run}
        /\ \A n \in Nat : Rest(all, n) \in SUBSET (S \cup {run})
    BY <2>1, PutFirst DEF all
  <2> QED
    BY <2>2, <1>1 DEF S, y
<1> HIDE DEF all
<1>4. recorded \cup {run} \in SUBSET Nat
  BY <1>1
<1>5. /\ Listed(mem', recorded \cup {run}, Lead') /\ Len(mem') <= limit
      /\ ToSet(mem') = ToSet(all) \ Rest(all, limit)
  BY <1>1, <1>2, <1>3, <1>4, KeptProperties
<1>6. Listed(mem', recorded', Lead')
  BY <1>2, <1>5
<1>7. Cardinality(ToSet(mem')) <= limit
  <2>1. Cardinality(ToSet(mem')) <= Len(mem') /\ IsFiniteSet(ToSet(mem'))
    BY <1>4, <1>5, ListedCardinality
  <2>2. Cardinality(ToSet(mem')) \in Nat /\ Len(mem') \in Nat
    BY <2>1, <1>4, <1>5, FS_CardinalityType, ListedBasics
  <2> QED
    BY <2>1, <2>2, <1>1, <1>5
<1>8. invokes \in Seq(Calls) /\ Len(invokes) \in Nat
  BY LenProperties DEF TimelineTyped
<1>9. D \in SUBSET recorded
  <2>1. Len(invokes) \in 0..Len(invokes)
    BY <1>8
  <2> QED
    BY <2>1 DEF Chain
<1>10. Chain(f, disk, invokes, recorded')
  BY <1>2, ChainGrows
<1>11. /\ Call("add", run) \in Calls /\ Call("add", run).name = "add"
       /\ Call("add", run).arg = run
  BY CallProperties DEF Writes
<1>12. PICK h : /\ Chain(h, disk, q, recorded')
                /\ Prolongs(h, q, D \cup {run}, f, invokes, {"add"})
  <2> DEFINE c == Call("add", run)
  <2>1. /\ D \cup {run} = Effect(f[Len(invokes)], c) /\ c \in Calls /\ c.name \in {"add"}
        /\ Effect(f[Len(invokes)], c) \subseteq recorded'
    BY <1>2, <1>9, <1>11, EffectOfCall
  <2> HIDE DEF c
  <2>2. \E g : /\ Chain(g, disk, Append(invokes, c), recorded')
               /\ Prolongs(g, Append(invokes, c), Effect(f[Len(invokes)], c), f, invokes, {"add"})
    BY <2>1, <1>8, <1>10, ChainAppends
  <2> QED
    BY <2>1, <2>2 DEF c
<1>13. q \in Seq(Calls)
  BY <1>8, <1>11, AppendProperties
<1> HIDE DEF q
<1>14. PICK g : /\ invokes' \in Seq(Calls) /\ Chain(g, disk, invokes', recorded')
                /\ Prolongs(g, invokes', h[Len(q)] \ Rest(all, limit), h, q, {"delete"})
  BY <1>1, <1>2, <1>3, <1>4, <1>12, <1>13, ChainPurges
<1>15. h[Len(q)] = D \cup {run}
  BY <1>12 DEF Prolongs
<1>16. Prolongs(g, invokes', E, f, invokes, Writes)
  <2>1. \A x \in {"add"} \cup {"delete"} : x \in Writes
    BY DEF Writes
  <2> QED
    BY <2>1, <1>8, <1>12, <1>14, <1>15, ProlongsTwice
<1>17. Fate(E, dropped', Lead')
  <2>1. D \cap dropped = {} /\ run \notin dropped
    BY DEF Fate, TimelineTyped
  <2>2. E \cap dropped' = {}
    BY <2>1, <1>2, <1>3
  <2>3. ASSUME Lead' # NoRun, Lead' \notin dropped' PROVE Lead' \in E
    <3>1. Lead' = run /\ limit # 0
      BY <2>3, <1>2, <1>20
    <3> QED
      BY <3>1, <1>3
  <2> HIDE DEF E
  <2> QED
    BY <2>2, <2>3 DEF Fate
<1>18. D = ToSet(entries) => E = ToSet(mem')
  BY <1>3, <1>5
<1>19. dropped' \subseteq recorded' /\ latest' \in recorded'
  BY <1>2 DEF TimelineTyped
<1> QED
  BY <1>2, <1>6, <1>7, <1>14, <1>16, <1>17, <1>18, <1>19, <1>20

\* While a handler runs that leaves the calm, no load waits.
LEMMA HandlerFindsCalm ==
  ASSUME Handler, raced \in BOOLEAN, NEW E, raced \/ Calm(E)
  PROVE  raced' \in BOOLEAN /\ (~raced' => ~raced /\ Waiting = {} /\ Calm(E))
BY DEF Handler, Waiting

\* A load begins: the run it is for is not recorded yet.
LEMMA StartLoadInv ==
  ASSUME TimelineInv, NEW s \in Slots, NEW run \in Nat, Handler, StartLoad(s, run),
         replies' = replies, limit' = limit, edits' = edits,
         ended \subseteq ended', ended' \subseteq Ids, IsFiniteSet(ended'),
         run # NoRun => run \in ended' \ ended
  PROVE  TimelineInv'
<1>1. TimelineTyped /\ ListsInOrder
  BY DEF TimelineInv
<1>2. PICK f : Settling(f)
  BY DEF TimelineInv
<1>3. /\ loads' = [loads EXCEPT ![s] = LoadOf(run)] /\ invokes' = Append(invokes, Call("list", s))
      /\ UNCHANGED <<mem, loaded, disk, recorded, latest, dropped>> /\ Idle(s) /\ Lead' = Lead
  BY DEF StartLoad, Lead
<1>4. recorded \in SUBSET Nat /\ limit \in Nat /\ recorded \subseteq ended
  BY <1>1, RecordedAreNumbers DEF TimelineTyped
<1>5. /\ LoadOf(run) \in LoadTypes /\ LoadOf(run).run = run /\ LoadOf(run).items = <<>>
      /\ LoadOf(run).phase = "listing" /\ LoadOf(run).limit = limit /\ LoadOf(run) # NoLoad
  BY <1>4, NoLoadProperties
<1>6. /\ Call("list", s) \in Calls /\ Call("list", s).name = "list" /\ Call("list", s).arg = s
      /\ Call("list", s).name \in Reads
  BY CallProperties DEF Reads
<1>8. /\ loads' \in [Slots -> LoadTypes] /\ loads'[s] = LoadOf(run)
      /\ \A t \in Slots : t # s => loads'[t] = loads[t]
  BY <1>1, <1>3, <1>5 DEF TimelineTyped
<1>9. invokes \in Seq(Calls) /\ Len(invokes) \in Nat
  BY <1>1, LenProperties DEF TimelineTyped
<1> DEFINE n == Len(invokes)
           E == f[n]
<1>10. Chain(f, disk, invokes, recorded) /\ Fate(E, dropped, Lead)
  BY <1>2 DEF Settling
<1>11. raced \/ Calm(E)
  BY <1>2 DEF Settling
<1>12. f \in [0..n -> SUBSET recorded] /\ E \in SUBSET recorded
  BY <1>9, <1>10 DEF Chain
<1>13. E = Effect(E, Call("list", s))
  BY <1>6, EffectOfCall
<1>14. /\ invokes' \in Seq(Calls)
       /\ \E g : Chain(g, disk, invokes', recorded) /\ Prolongs(g, invokes', E, f, invokes, {"list"})
  <2> DEFINE c == Call("list", s)
             e == E
  <2>1. /\ c \in Calls /\ c.name \in {"list"} /\ e = Effect(f[Len(invokes)], c)
        /\ Effect(f[Len(invokes)], c) \subseteq recorded
    BY <1>6, <1>12, <1>13
  <2> HIDE DEF c, e
  <2>2. /\ Append(invokes, c) \in Seq(Calls)
        /\ \E g : /\ Chain(g, disk, Append(invokes, c), recorded)
                  /\ Prolongs(g, Append(invokes, c), e, f, invokes, {"list"})
    BY <2>1, <1>9, <1>10, ChainAppends
  <2>3. invokes' = Append(invokes, c)
    BY <1>3 DEF c
  <2> QED
    BY <2>2, <2>3 DEF e
<1>15. PICK g : /\ Chain(g, disk, invokes', recorded)
                /\ Prolongs(g, invokes', E, f, invokes, {"list"})
  BY <1>14
<1>16. /\ Len(invokes') = n + 1 /\ invokes'[n + 1] = Call("list", s) /\ invokes' # <<>>
       /\ \A k \in 1..n : invokes'[k] = invokes[k]
  BY <1>3, <1>6, <1>9, AppendProperties
<1>17. raced \in BOOLEAN /\ raced' \in BOOLEAN /\ (~raced' => ~raced /\ Waiting = {} /\ Calm(E))
  BY <1>1, <1>11, HandlerFindsCalm DEF TimelineTyped
<1>18. TimelineTyped'
  <2>1. replies \in Seq(Answers) /\ limit \in Limits /\ edits \in 0..MaxEdits
        /\ loaded \in BOOLEAN
    BY <1>1 DEF TimelineTyped
  <2>2. recorded \subseteq ended /\ dropped \subseteq recorded /\ latest \in recorded \cup {NoRun}
    BY <1>1 DEF TimelineTyped
  <2>3. loads' \in [Slots -> LoadTypes] /\ invokes' \in Seq(Calls) /\ raced' \in BOOLEAN
    BY <1>8, <1>14, <1>17
  <2>4. /\ recorded' \subseteq ended' /\ dropped' \subseteq recorded'
        /\ latest' \in recorded' \cup {NoRun}
    BY <2>2, <1>3
  <2> QED
    BY <2>1, <2>3, <2>4, <1>3 DEF TimelineTyped
<1>19. ListsInOrder'
  <2>1. Listed(mem', recorded', Lead')
    BY <1>1, <1>3 DEF ListsInOrder
  <2>2. ASSUME NEW t \in Slots
        PROVE  Listed(loads'[t].items, recorded', Lead')
    <3>1. CASE t = s
      BY <3>1, <1>5, <1>8, EmptyIsListed
    <3>2. CASE t # s
      BY <3>2, <1>1, <1>3, <1>8 DEF ListsInOrder
    <3> QED
      BY <3>1, <3>2
  <2>3. ASSUME NEW k \in 1..Len(replies') PROVE Listed(replies'[k].items, recorded', Lead')
    BY <1>1, <1>3 DEF ListsInOrder
  <2>4. \A t \in Slots : loads[t].run # NoRun => loads[t].run \in ended \ recorded
    BY <1>1 DEF ListsInOrder
  <2>5. ASSUME NEW t \in Slots, loads'[t].run # NoRun PROVE loads'[t].run \in ended' \ recorded'
    <3>1. CASE t = s
      BY <2>5, <3>1, <1>3, <1>4, <1>5, <1>8
    <3>2. CASE t # s
      BY <2>4, <2>5, <3>2, <1>3, <1>8
    <3> QED
      BY <3>1, <3>2
  <2>6. ASSUME NEW t \in Slots, NEW u \in Slots,
               loads'[t].run # NoRun, loads'[t].run = loads'[u].run
        PROVE  t = u
    <3>1. \A x \in Slots : x # s /\ loads[x].run # NoRun => loads'[x].run # run
      BY <2>4, <1>8
    <3>2. loads'[s].run = run
      BY <1>5, <1>8
    <3>3. t # s /\ u # s => t = u
      BY <2>6, <1>1, <1>8 DEF ListsInOrder
    <3>4. t = s /\ u # s => FALSE
      BY <2>6, <3>1, <3>2, <1>8
    <3>5. t # s /\ u = s => FALSE
      BY <2>6, <3>1, <3>2, <1>8
    <3> QED
      BY <3>3, <3>4, <3>5
  <2> QED
    BY <2>1, <2>2, <2>3, <2>5, <2>6 DEF ListsInOrder
<1>21. g[Len(invokes')] = E
  BY <1>15 DEF Prolongs
<1>22. ASSUME NEW D, D = E, ~raced' PROVE Calm(D)'
  <2>1. Cardinality(D) <= limit /\ replies = <<>> /\ Waiting = {}
    BY <1>17, <1>22 DEF Calm
  <2>2. Waiting' = {s}
    <3>1. \A t \in Slots : t # s => loads'[t] = NoLoad
      BY <2>1, <1>8 DEF Waiting
    <3> QED
      BY <3>1, <1>5, <1>8 DEF Waiting
  <2>3. Awaits(s, "list")'
    <3>1. \A k \in 1..(Len(invokes') - 1) : invokes'[k].name \in Reads => invokes'[k].arg # s
      <4>1. Len(invokes') - 1 = n /\ DOMAIN invokes = 1..n
        BY <1>9, <1>16, LenProperties
      <4> QED
        BY <4>1, <1>3, <1>16 DEF Idle, Reads
    <3> QED
      BY <2>1, <3>1, <1>16 DEF Awaits
  <2>4. LoadIsCalm(s, D)'
    BY <2>3, <1>5, <1>8 DEF LoadIsCalm
  <2> QED
    BY <2>1, <2>2, <2>4 DEF Calm
<1> HIDE DEF E
<1>23. PICK D : D = E
  OBVIOUS
<1>24. Settling(g)'
  BY <1>3, <1>10, <1>15, <1>17, <1>21, <1>22, <1>23 DEF Settling
<1> QED
  BY <1>18, <1>19, <1>24 DEF TimelineInv

LEMMA SelectInv == TimelineInv /\ Select => TimelineInv'
<1> SUFFICES ASSUME TimelineInv, Select PROVE TimelineInv'
  OBVIOUS
<1>1. PICK s \in Slots : StartLoad(s, NoRun)
  BY DEF Select
<1>2. /\ Handler /\ replies' = replies /\ limit' = limit /\ ended' = ended /\ edits' = edits
  BY DEF Select
<1>3. ended' \subseteq Ids /\ IsFiniteSet(ended')
  BY <1>2 DEF TimelineInv, TimelineTyped
<1>4. NoRun \in Nat
  BY NoLoadProperties
<1> QED
  BY <1>1, <1>2, <1>3, <1>4, StartLoadInv

LEMMA RunEndsInv == TimelineInv /\ RunEnds => TimelineInv'
<1> SUFFICES ASSUME TimelineInv, RunEnds PROVE TimelineInv'
  OBVIOUS
<1>1. TimelineTyped /\ ListsInOrder
  BY DEF TimelineInv
<1>2. PICK f : Settling(f)
  BY DEF TimelineInv
<1>3. PICK run \in Ids \ ended :
        /\ ended' = ended \cup {run}
        /\ IF loaded
           THEN Record(mem, run) /\ UNCHANGED <<loaded, loads, disk>>
           ELSE \E s \in Slots : StartLoad(s, run)
  BY DEF RunEnds
<1>4. Handler /\ replies' = replies /\ limit' = limit /\ edits' = edits
  BY DEF RunEnds
<1>5. /\ run \in Nat /\ run # NoRun /\ run \in ended' \ ended
      /\ ended \subseteq ended' /\ ended' \subseteq Ids /\ run \notin recorded
  BY <1>1, <1>3, TimelineAssumption DEF TimelineTyped, NoRun
<1>6. IsFiniteSet(ended')
  BY <1>1, <1>3, FS_AddElement DEF TimelineTyped
<1>8. CASE ~loaded
  <2>1. PICK s \in Slots : StartLoad(s, run)
    BY <1>3, <1>8
  <2> QED
    BY <2>1, <1>4, <1>5, <1>6, StartLoadInv
<1>9. CASE loaded
  <2>1. Record(mem, run) /\ UNCHANGED <<loaded, loads, disk>>
    BY <1>3, <1>9
  <2>3. Listed(mem, recorded, Lead)
    BY <1>1 DEF ListsInOrder
  <2>4. Chain(f, disk, invokes, recorded) /\ Fate(f[Len(invokes)], dropped, Lead)
    BY <1>2 DEF Settling
  <2>5. /\ recorded' = recorded \cup {run} /\ dropped' \subseteq recorded'
        /\ latest' \in recorded' /\ Lead' \notin recorded
        /\ Listed(mem', recorded', Lead') /\ invokes' \in Seq(Calls)
        /\ Cardinality(ToSet(mem')) <= limit
        /\ \E g, E : /\ Chain(g, disk, invokes', recorded')
                     /\ Prolongs(g, invokes', E, f, invokes, Writes)
                     /\ Fate(E, dropped', Lead')
                     /\ f[Len(invokes)] = ToSet(mem) => E = ToSet(mem')
    BY <1>1, <1>5, <2>1, <2>3, <2>4, RecordSettles
  <2>6. PICK g, E : /\ Chain(g, disk, invokes', recorded')
                    /\ Prolongs(g, invokes', E, f, invokes, Writes)
                    /\ Fate(E, dropped', Lead')
                    /\ f[Len(invokes)] = ToSet(mem) => E = ToSet(mem')
    BY <2>5
  <2>7. PICK D : D = f[Len(invokes)]
    OBVIOUS
  <2>8. raced' \in BOOLEAN /\ (~raced' => ~raced /\ Waiting = {} /\ Calm(D))
    BY <1>1, <1>2, <1>4, <2>7, HandlerFindsCalm DEF Settling, TimelineTyped
  <2>9. TimelineTyped'
    BY <1>1, <1>3, <1>4, <1>5, <1>6, <2>1, <2>5, <2>8 DEF TimelineTyped
  <2>10. ListsInOrder'
    <3>1. \A s \in Slots : loads[s].run \in recorded' => loads[s].run = NoRun
      BY <1>1, <1>5, <2>5 DEF ListsInOrder
    <3>2. recorded \subseteq recorded'
      BY <2>5
    <3>3. /\ \A s \in Slots : loads'[s] = loads[s]
          /\ \A s \in Slots : loads[s].run \in recorded' => loads'[s].run = NoRun
          /\ \A k \in 1..Len(replies') : \E l \in 1..Len(replies) : replies'[k] = replies[l]
      BY <1>4, <2>1, <3>1
    <3> QED
      BY <1>1, <1>5, <2>5, <3>2, <3>3, ListsStay
  <2>12. g[Len(invokes')] = E
    BY <2>6 DEF Prolongs
  <2>13. ~raced' => Calm(E)'
    <3> SUFFICES ASSUME ~raced' PROVE Calm(E)'
      OBVIOUS
    <3>1. Waiting = {} /\ Calm(D)
      BY <2>8
    <3>2. replies = <<>> /\ D = ToSet(mem)
      BY <3>1, <1>9 DEF Calm
    <3>3. E = ToSet(mem') /\ Cardinality(E) <= limit
      BY <3>2, <2>5, <2>6, <2>7
    <3>4. Waiting' = {}
      BY <3>1, <2>1 DEF Waiting
    <3> QED
      BY <3>2, <3>3, <3>4, <1>4 DEF Calm
  <2>14. Settling(g)'
    BY <2>1, <2>6, <2>8, <2>12, <2>13 DEF Settling
  <2> QED
    BY <2>9, <2>10, <2>14 DEF TimelineInv
<1> QED
  BY <1>8, <1>9

\* What the edits have in common: they send calls that write, and no load is waiting
\* while there is calm.
LEMMA EditInv ==
  ASSUME TimelineTyped, ListsInOrder, NEW f, Settling(f), NEW g, NEW E,
         EditTimeline, UNCHANGED <<loads, replies, disk, ended, recorded, latest>>,
         loaded' \in BOOLEAN, limit' \in Limits, dropped' \subseteq recorded,
         Listed(mem', recorded, Lead), invokes' \in Seq(Calls),
         Chain(g, disk, invokes', recorded), Prolongs(g, invokes', E, f, invokes, Writes),
         Fate(E, dropped', Lead),
         ASSUME ~raced, Waiting = {}, replies = <<>>, Cardinality(f[Len(invokes)]) <= limit,
                loaded => f[Len(invokes)] = ToSet(mem)
         PROVE  Cardinality(E) <= limit' /\ (loaded' => E = ToSet(mem'))
  PROVE  TimelineInv'
<1>1. Chain(f, disk, invokes, recorded) /\ Lead' = Lead
  BY DEF Settling, Lead
<1>2. PICK D : D = f[Len(invokes)]
  OBVIOUS
<1>3. Handler /\ edits' \in 0..MaxEdits
  BY TimelineAssumption DEF EditTimeline, TimelineTyped
<1>4. raced' \in BOOLEAN /\ (~raced' => ~raced /\ Waiting = {} /\ Calm(D))
  BY <1>2, <1>3, HandlerFindsCalm DEF Settling, TimelineTyped
<1>5. TimelineTyped'
  BY <1>3, <1>4 DEF TimelineTyped
<1>6. ListsInOrder'
  <2>1. \A s \in Slots : loads[s].run \in recorded' => loads[s].run = NoRun
    BY DEF ListsInOrder
  <2>2. /\ recorded \subseteq recorded' /\ ended \subseteq ended' /\ Listed(mem', recorded', Lead')
        /\ Lead' = Lead /\ \A s \in Slots : loads'[s] = loads[s]
        /\ \A s \in Slots : loads[s].run \in recorded' => loads'[s].run = NoRun
        /\ \A k \in 1..Len(replies') : \E l \in 1..Len(replies) : replies'[k] = replies[l]
    BY <2>1, <1>1
  <2> QED
    BY <2>2, ListsStay
<1>8. g[Len(invokes')] = E
  BY DEF Prolongs
<1>9. ~raced' => Calm(E)'
  <2> SUFFICES ASSUME ~raced' PROVE Calm(E)'
    OBVIOUS
  <2>1. ~raced /\ Waiting = {} /\ Calm(D)
    BY <1>4
  <2>2. replies = <<>> /\ Cardinality(D) <= limit /\ (loaded => D = ToSet(mem))
    BY <2>1 DEF Calm
  <2>3. Cardinality(E) <= limit' /\ (loaded' => E = ToSet(mem'))
    BY <1>2, <2>1, <2>2
  <2>4. Waiting' = {}
    BY <2>1 DEF Waiting
  <2> QED
    BY <2>2, <2>3, <2>4 DEF Calm
<1>10. Settling(g)'
  BY <1>1, <1>4, <1>8, <1>9 DEF Settling
<1> QED
  BY <1>5, <1>6, <1>10 DEF TimelineInv

\* The last of the calls, and what they leave on disk.
LEMMA FateBasics ==
  ASSUME TimelineTyped, NEW f, Settling(f)
  PROVE  /\ invokes \in Seq(Calls) /\ Len(invokes) \in Nat
         /\ Chain(f, disk, invokes, recorded) /\ f[Len(invokes)] \in SUBSET recorded
         /\ Fate(f[Len(invokes)], dropped, Lead)
         /\ IsFiniteSet(f[Len(invokes)]) /\ f[Len(invokes)] \in SUBSET Nat
<1>1. invokes \in Seq(Calls) /\ Len(invokes) \in Nat
  BY LenProperties DEF TimelineTyped
<1>2. Chain(f, disk, invokes, recorded) /\ Fate(f[Len(invokes)], dropped, Lead)
  BY DEF Settling
<1>3. Len(invokes) \in 0..Len(invokes)
  BY <1>1
<1>4. f[Len(invokes)] \in SUBSET recorded
  BY <1>2, <1>3 DEF Chain
<1>5. recorded \in SUBSET Nat /\ IsFiniteSet(recorded)
  BY RecordedAreNumbers
<1> QED
  BY <1>1, <1>2, <1>4, <1>5, FS_Subset

LEMMA DeleteEntryInv == TimelineInv /\ DeleteEntry => TimelineInv'
<1> SUFFICES ASSUME TimelineInv, DeleteEntry PROVE TimelineInv'
  OBVIOUS
<1>1. TimelineTyped /\ ListsInOrder
  BY DEF TimelineInv
<1>2. PICK f : Settling(f)
  BY DEF TimelineInv
<1>3. PICK i \in DOMAIN mem : /\ mem' = RemoveAt(mem, i)
                              /\ invokes' = Append(invokes, Call("delete", mem[i]))
                              /\ dropped' = dropped \cup {mem[i]}
  BY DEF DeleteEntry
<1>4. EditTimeline /\ UNCHANGED <<loaded, loads, replies, disk, limit, ended, recorded, latest>>
  BY DEF DeleteEntry
<1>5. recorded \in SUBSET Nat /\ Listed(mem, recorded, Lead)
  BY <1>1, RecordedAreNumbers DEF ListsInOrder
<1>6. i \in 1..Len(mem) /\ mem[i] \in recorded /\ mem[i] \in Nat
  BY <1>5, ListedBasics
<1>7. Listed(mem', recorded, Lead) /\ ToSet(mem') = ToSet(mem) \ {mem[i]}
  BY <1>3, <1>5, <1>6, RemoveAtProperties
<1> DEFINE c == Call("delete", mem[i])
<1>8. c \in Calls /\ c.name = "delete" /\ c.arg = mem[i] /\ c.name \in Writes
  BY <1>6, CallProperties DEF Writes
<1>9. /\ invokes \in Seq(Calls) /\ Chain(f, disk, invokes, recorded)
      /\ f[Len(invokes)] \in SUBSET recorded /\ Fate(f[Len(invokes)], dropped, Lead)
      /\ IsFiniteSet(f[Len(invokes)])
  BY <1>1, <1>2, FateBasics
<1>10. invokes' = Append(invokes, c)
  BY <1>3
<1> HIDE DEF c
<1>11. Effect(f[Len(invokes)], c) = f[Len(invokes)] \ {mem[i]}
  BY <1>8, EffectOfCall
<1>12. Effect(f[Len(invokes)], c) \subseteq recorded
  BY <1>9, <1>11
<1>13. /\ invokes' \in Seq(Calls)
       /\ \E g : /\ Chain(g, disk, invokes', recorded)
                 /\ Prolongs(g, invokes', Effect(f[Len(invokes)], c), f, invokes, Writes)
  BY <1>8, <1>9, <1>10, <1>12, ChainAppends
<1>14. PICK g, E : /\ Chain(g, disk, invokes', recorded)
                   /\ Prolongs(g, invokes', E, f, invokes, Writes)
                   /\ E = f[Len(invokes)] \ {mem[i]}
  BY <1>11, <1>13
<1>15. Fate(E, dropped', Lead)
  BY <1>3, <1>9, <1>14 DEF Fate
<1>16. dropped' \subseteq recorded
  BY <1>1, <1>3, <1>6 DEF TimelineTyped
<1>17. ASSUME Cardinality(f[Len(invokes)]) <= limit, loaded => f[Len(invokes)] = ToSet(mem)
       PROVE  Cardinality(E) <= limit' /\ (loaded' => E = ToSet(mem'))
  <2>1. Cardinality(E) <= Cardinality(f[Len(invokes)]) /\ IsFiniteSet(E)
    <3>1. E \in SUBSET f[Len(invokes)]
      BY <1>14
    <3> QED
      BY <3>1, <1>9, FS_Subset
  <2>2. Cardinality(E) \in Nat /\ Cardinality(f[Len(invokes)]) \in Nat /\ limit \in Nat
    BY <2>1, <1>1, <1>9, FS_CardinalityType, RecordedAreNumbers
  <2>3. Cardinality(E) <= limit'
    BY <2>1, <2>2, <1>4, <1>17
  <2> QED
    BY <2>3, <1>4, <1>7, <1>14, <1>17
<1>18. loaded' \in BOOLEAN /\ limit' \in Limits
  BY <1>1, <1>4 DEF TimelineTyped
<1> QED
  BY <1>1, <1>2, <1>4, <1>7, <1>13, <1>14, <1>15, <1>16, <1>17, <1>18, EditInv

LEMMA ClearInv == TimelineInv /\ Clear => TimelineInv'
<1> SUFFICES ASSUME TimelineInv, Clear PROVE TimelineInv'
  OBVIOUS
<1>1. TimelineTyped /\ ListsInOrder
  BY DEF TimelineInv
<1>2. PICK f : Settling(f)
  BY DEF TimelineInv
<1> DEFINE c == Call("clear", NoRun)
<1>3. /\ EditTimeline /\ UNCHANGED <<loads, replies, disk, limit, ended, recorded, latest>>
      /\ mem' = <<>> /\ loaded' = TRUE /\ invokes' = Append(invokes, c)
      /\ dropped' = dropped \cup recorded
  BY DEF Clear
<1>4. c \in Calls /\ c.name = "clear" /\ c.name \in Writes
  BY CallProperties, NoLoadProperties DEF Writes
<1>5. invokes \in Seq(Calls) /\ Chain(f, disk, invokes, recorded)
  BY <1>1, <1>2, FateBasics
<1> HIDE DEF c
<1>6. Effect(f[Len(invokes)], c) = {}
  BY <1>4, EffectOfCall
<1>7. Effect(f[Len(invokes)], c) \subseteq recorded
  BY <1>6
<1>8. /\ invokes' \in Seq(Calls)
      /\ \E g : /\ Chain(g, disk, invokes', recorded)
                /\ Prolongs(g, invokes', Effect(f[Len(invokes)], c), f, invokes, Writes)
  BY <1>3, <1>4, <1>5, <1>7, ChainAppends
<1>9. PICK g, E : /\ Chain(g, disk, invokes', recorded)
                  /\ Prolongs(g, invokes', E, f, invokes, Writes)
                  /\ E = {}
  BY <1>6, <1>8
<1>10. Fate(E, dropped', Lead) /\ dropped' \subseteq recorded
  <2>1. Lead \in recorded \cup {NoRun}
    BY <1>1, RecordedAreNumbers
  <2> QED
    BY <2>1, <1>1, <1>3, <1>9 DEF Fate, TimelineTyped
<1>11. Listed(mem', recorded, Lead) /\ ToSet(mem') = {}
  BY <1>3, EmptyIsListed
<1>12. Cardinality(E) <= limit' /\ (loaded' => E = ToSet(mem'))
  <2>1. Cardinality(E) = 0 /\ limit' \in Nat
    BY <1>1, <1>3, <1>9, FS_EmptySet, RecordedAreNumbers
  <2> QED
    BY <2>1, <1>9, <1>11
<1>13. loaded' \in BOOLEAN /\ limit' \in Limits
  BY <1>1, <1>3 DEF TimelineTyped
<1> QED
  BY <1>1, <1>2, <1>3, <1>8, <1>9, <1>10, <1>11, <1>12, <1>13, EditInv

\* The runs beyond the new limit leave the list and the disk, and the trim finds nothing
\* more when the list is complete.
LEMMA SetLimitInv ==
  ASSUME TimelineInv, NEW max \in Limits, SetLimit(max)
  PROVE  TimelineInv'
<1>1. TimelineTyped /\ ListsInOrder
  BY DEF TimelineInv
<1>2. PICK f : Settling(f)
  BY DEF TimelineInv
<1> DEFINE c == Call("trim", max)
           p == invokes \o Purged(mem, max)
           D == f[Len(invokes)]
           K == D \ Rest(mem, max)
<1>3. /\ EditTimeline /\ UNCHANGED <<loaded, loads, replies, disk, ended, recorded, latest>>
      /\ limit' = max /\ mem' = Kept(mem, max) /\ invokes' = Append(p, c)
      /\ dropped' = IF max = 0 THEN dropped \cup recorded ELSE dropped
  BY DEF SetLimit
<1>4. max \in Nat
  BY TimelineAssumption
<1>5. c \in Calls /\ c.name = "trim" /\ c.arg = max /\ c.name \in {"trim"}
  BY <1>4, CallProperties DEF Writes
<1>6. recorded \in SUBSET Nat /\ Listed(mem, recorded, Lead)
  BY <1>1, RecordedAreNumbers DEF ListsInOrder
<1>7. /\ Listed(mem', recorded, Lead) /\ Len(mem') <= max
      /\ ToSet(mem') = ToSet(mem) \ Rest(mem, max)
  BY <1>3, <1>4, <1>6, KeptProperties
<1>8. /\ invokes \in Seq(Calls) /\ Len(invokes) \in Nat /\ Chain(f, disk, invokes, recorded)
      /\ D \in SUBSET recorded /\ Fate(D, dropped, Lead)
      /\ IsFiniteSet(D) /\ D \in SUBSET Nat
  BY <1>1, <1>2, FateBasics
<1>9. /\ p \in Seq(Calls)
      /\ \E h : Chain(h, disk, p, recorded) /\ Prolongs(h, p, K, f, invokes, {"delete"})
  BY <1>4, <1>6, <1>8, ChainPurges
<1>10. PICK h : Chain(h, disk, p, recorded) /\ Prolongs(h, p, K, f, invokes, {"delete"})
  BY <1>9
<1>11. h[Len(p)] = K
  BY <1>10 DEF Prolongs
<1>12. K \in SUBSET Nat /\ IsFiniteSet(K) /\ K \in SUBSET recorded
  BY <1>8, FS_Subset
<1>13. /\ Newest(K, max) \in SUBSET K /\ Cardinality(Newest(K, max)) <= max
       /\ Cardinality(K) <= max => Newest(K, max) = K
       /\ max = 0 => Newest(K, max) = {}
       /\ \A i \in K : max > 0 /\ (\A j \in K : j <= i) => i \in Newest(K, max)
  BY <1>4, <1>12, NewestProperties
<1> HIDE DEF c, p, K
<1>14. Effect(h[Len(p)], c) = Newest(K, max)
  BY <1>5, <1>11, EffectOfCall
<1>15. Effect(h[Len(p)], c) \subseteq recorded
  BY <1>12, <1>13, <1>14
<1>16. /\ invokes' \in Seq(Calls)
       /\ \E g : /\ Chain(g, disk, invokes', recorded)
                 /\ Prolongs(g, invokes', Effect(h[Len(p)], c), h, p, {"trim"})
  BY <1>3, <1>5, <1>9, <1>10, <1>15, ChainAppends
<1>17. PICK g, E : /\ Chain(g, disk, invokes', recorded)
                   /\ Prolongs(g, invokes', E, h, p, {"trim"}) /\ E = Newest(K, max)
  BY <1>14, <1>16
<1>18. Prolongs(g, invokes', E, f, invokes, Writes)
  <2>1. \A x \in {"delete"} \cup {"trim"} : x \in Writes
    BY DEF Writes
  <2> QED
    BY <2>1, <1>8, <1>10, <1>17, ProlongsTwice
<1>19. Fate(E, dropped', Lead)
  <2>1. CASE max = 0
    <3>1. Lead \in recorded \cup {NoRun}
      BY <1>1, RecordedAreNumbers
    <3> QED
      BY <2>1, <3>1, <1>3, <1>13, <1>17 DEF Fate
  <2>2. CASE max # 0
    <3>1. dropped' = dropped /\ E \subseteq D
      BY <2>2, <1>3, <1>13, <1>17 DEF K
    <3>2. ASSUME Lead # NoRun, Lead \notin dropped PROVE Lead \in E
      <4>1. Lead \in D
        BY <3>2, <1>8 DEF Fate
      <4>2. Lead \notin Rest(mem, max)
        <5>1. Len(mem) \in Nat /\ \A k \in 1..Len(mem) : mem[k] = Lead => k = 1
          BY <1>6, ListedBasics
        <5>2. \A k \in (max + 1)..Len(mem) : k \in 1..Len(mem) /\ k # 1
          BY <5>1, <1>4, <2>2
        <5> QED
          BY <5>1, <5>2 DEF Rest
      <4>3. Lead \in K
        BY <4>1, <4>2 DEF K
      <4>4. \A j \in K : j <= Lead
        BY <4>3, <1>1, <1>12, RecordedAreNumbers
      <4>5. max > 0
        BY <2>2, <1>4
      <4> QED
        BY <4>3, <4>4, <4>5, <1>13, <1>17
    <3>3. D \cap dropped = {}
      BY <1>8 DEF Fate
    <3> QED
      BY <3>1, <3>2, <3>3 DEF Fate
  <2> QED
    BY <2>1, <2>2
<1>20. dropped' \subseteq recorded
  BY <1>1, <1>3 DEF TimelineTyped
<1>21. Cardinality(E) <= limit'
  BY <1>3, <1>13, <1>17
<1>22. ASSUME loaded' , loaded => D = ToSet(mem) PROVE E = ToSet(mem')
  <2>1. D = ToSet(mem)
    BY <1>3, <1>22
  <2>2. K = ToSet(mem')
    BY <2>1, <1>7 DEF K
  <2>3. Cardinality(ToSet(mem')) <= Len(mem') /\ Len(mem') \in Nat
    BY <1>6, <1>7, ListedCardinality, ListedBasics
  <2>4. Cardinality(K) \in Nat
    BY <1>12, FS_CardinalityType
  <2>5. Cardinality(K) <= max
    BY <2>2, <2>3, <2>4, <1>4, <1>7
  <2> QED
    BY <2>2, <2>5, <1>13, <1>17
<1>23. loaded' \in BOOLEAN /\ limit' \in Limits
  BY <1>1, <1>3 DEF TimelineTyped
<1> QED
  BY <1>1, <1>2, <1>3, <1>7, <1>16, <1>17, <1>18, <1>19, <1>20, <1>21, <1>22, <1>23, EditInv

LEMMA ReloadInv == TimelineInv /\ Reload => TimelineInv'
<1> SUFFICES ASSUME TimelineInv, Reload PROVE TimelineInv'
  OBVIOUS
<1>1. TimelineTyped /\ ListsInOrder
  BY DEF TimelineInv
<1>2. PICK f : Settling(f)
  BY DEF TimelineInv
<1>3. /\ edits < MaxEdits /\ edits' = edits + 1 /\ mem' = <<>> /\ loaded' = FALSE
      /\ loads' = [s \in Slots |-> NoLoad] /\ replies' = <<>>
      /\ UNCHANGED <<invokes, disk, limit, ended, recorded, latest, dropped, raced>>
      /\ Lead' = Lead
  BY DEF Reload, Lead
<1>4. NoLoad \in LoadTypes /\ NoLoad.run = NoRun /\ NoLoad.items = <<>>
  BY NoLoadProperties
<1>5. Len(<<>>) = 0 /\ <<>> \in Seq(Answers)
  BY EmptySeq
<1>6. TimelineTyped'
  <2>1. edits' \in 0..MaxEdits
    BY <1>1, <1>3, TimelineAssumption DEF TimelineTyped
  <2>2. loads' \in [Slots -> LoadTypes]
    BY <1>3, <1>4
  <2> QED
    BY <2>1, <2>2, <1>1, <1>3, <1>5 DEF TimelineTyped
<1>7. ListsInOrder'
  <2>1. Listed(mem', recorded', Lead')
    BY <1>3, EmptyIsListed
  <2>2. \A s \in Slots : loads'[s].items = <<>> /\ loads'[s].run = NoRun
    BY <1>3, <1>4
  <2>3. \A k \in 1..Len(replies') : \E l \in 1..Len(replies) : replies'[k] = replies[l]
    BY <1>3, <1>5
  <2>4. recorded \subseteq recorded' /\ ended \subseteq ended' /\ Lead' = Lead
    BY <1>3
  <2> QED
    BY <1>1, <2>1, <2>2, <2>3, <2>4, ListsStay
<1>8. /\ Len(invokes) \in Nat /\ Chain(f, disk, invokes, recorded)
      /\ Fate(f[Len(invokes)], dropped, Lead)
  BY <1>1, <1>2, FateBasics
<1>10. PICK D : D = f[Len(invokes)]
  OBVIOUS
<1>11. ~raced' => Calm(D)'
  <2> SUFFICES ASSUME ~raced' PROVE Calm(D)'
    OBVIOUS
  <2>1. Calm(D)
    BY <1>2, <1>3, <1>10 DEF Settling
  <2>2. Waiting' = {}
    BY <1>3 DEF Waiting
  <2> QED
    BY <2>1, <2>2, <1>3 DEF Calm
<1>12. Settling(f)'
  <2>1. raced' \in BOOLEAN
    BY <1>1, <1>3 DEF TimelineTyped
  <2> QED
    BY <2>1, <1>3, <1>8, <1>10, <1>11 DEF Settling
<1> QED
  BY <1>6, <1>7, <1>12 DEF TimelineInv

-----------------------------------------------------------------------------
(* The main process *)

\* An answer goes to the load that waits for it.
LEMMA ServeTimelineInv == TimelineInv /\ ServeTimeline => TimelineInv'
<1> SUFFICES ASSUME TimelineInv, ServeTimeline PROVE TimelineInv'
  OBVIOUS
<1>1. TimelineTyped /\ ListsInOrder
  BY DEF TimelineInv
<1>2. PICK f : Settling(f)
  BY DEF TimelineInv
<1> DEFINE n == Len(invokes)
           c == Head(invokes)
           s == c.arg
           listing == Listing(loads[s].limit)
<1>3. /\ invokes # <<>> /\ invokes' = Tail(invokes)
      /\ UNCHANGED <<mem, loaded, loads, limit, ended, recorded, latest, dropped, raced, edits>>
      /\ Lead' = Lead
  BY DEF ServeTimeline, Lead
<1>4. /\ invokes \in Seq(Calls) /\ n \in Nat /\ Chain(f, disk, invokes, recorded)
      /\ Fate(f[n], dropped, Lead)
  BY <1>1, <1>2, FateBasics
<1>5. /\ c = invokes[1] /\ c \in Calls /\ Tail(invokes) \in Seq(Calls)
      /\ n \in Nat \ {0} /\ Len(Tail(invokes)) = n - 1
      /\ \A k \in 1..(n - 1) : Tail(invokes)[k] = invokes[k + 1]
  BY <1>3, <1>4, HeadServed
<1>6. PICK g : /\ Chain(g, Effect(disk, c), Tail(invokes), recorded)
               /\ \A k \in 0..(n - 1) : g[k] = f[k + 1]
  <2> DEFINE q == invokes
             t == Tail(invokes)
             g == Ahead(f, q)
  <2>1. /\ Len(q) \in Nat \ {0} /\ Chain(f, disk, q, recorded)
        /\ c = q[1] /\ Served(t, q)
    BY <1>4, <1>5 DEF Served
  <2>4. \A k \in 0..(n - 1) : g[k] = f[k + 1]
    BY DEF Ahead
  <2> HIDE DEF q, t, c, n
  <2>2. Chain(g, Effect(disk, q[1]), t, recorded)
    BY <2>1, ChainServes
  <2>3. Chain(g, Effect(disk, c), t, recorded)
    BY <2>1, <2>2
  <2> HIDE DEF g
  <2> QED
    BY <2>3, <2>4 DEF t
<1>7. /\ c.name \in Reads \cup Writes
      /\ c.name \in Reads => s \in Slots
      /\ c.name = "list" \/ c.name = "get" <=> c.name \in Reads
  BY <1>5, CallHas DEF Reads
<1> HIDE DEF n, c, s, listing
<1>8. /\ c.name = "list" => disk' = disk /\ TimelineAnswer(s, listing)
      /\ c.name = "get" => disk' = disk /\ TimelineAnswer(s, <<>>)
      /\ c.name \notin Reads => replies' = replies
      /\ disk' = Effect(disk, c)
  <2>1. \/ /\ c.name = "list" /\ TimelineAnswer(s, listing) /\ UNCHANGED disk
        \/ c.name = "get" /\ TimelineAnswer(s, <<>>) /\ UNCHANGED disk
        \/ /\ c.name \notin {"list", "get"} /\ UNCHANGED replies
           /\ disk' = CASE c.name = "add" -> disk \cup {c.arg}
                        [] c.name = "delete" -> disk \ {c.arg}
                        [] c.name = "clear" -> {}
                        [] c.name = "trim" -> Newest(disk, c.arg)
    BY DEF ServeTimeline, c, s, listing
  <2>2. CASE c.name \in Reads
    <3>1. Effect(disk, c) = disk
      BY <2>2, EffectOfCall
    <3> QED
      BY <2>1, <2>2, <3>1 DEF Reads
  <2>3. CASE c.name \notin Reads
    <3>1. c.name \notin {"list", "get"}
      BY <2>3 DEF Reads
    <3>2. /\ replies' = replies
          /\ disk' = CASE c.name = "add" -> disk \cup {c.arg}
                        [] c.name = "delete" -> disk \ {c.arg}
                        [] c.name = "clear" -> {}
                        [] c.name = "trim" -> Newest(disk, c.arg)
      BY <2>1, <3>1
    <3>3. c.name \in {"add", "delete", "clear", "trim"}
      BY <2>3, <1>7 DEF Writes
    <3>4. disk' = Effect(disk, c)
      <4>1. CASE c.name = "add"
        BY <4>1, <3>2, EffectOfCall
      <4>2. CASE c.name = "delete"
        BY <4>2, <3>2, EffectOfCall
      <4>3. CASE c.name = "clear"
        BY <4>3, <3>2, EffectOfCall
      <4>4. CASE c.name = "trim"
        BY <4>4, <3>2, EffectOfCall
      <4> QED
        BY <4>1, <4>2, <4>3, <4>4, <3>3
    <3> QED
      BY <2>3, <3>2, <3>4, <1>7
  <2> QED
    BY <2>2, <2>3
<1>9. /\ f[0] = disk /\ disk \in SUBSET recorded /\ 1 \in 1..n /\ 0 \in 0..n
      /\ c.name \in Reads => f[1] = disk
  <2>1. 0 \in 0..n /\ 1 \in 1..n /\ 1 - 1 = 0
    BY <1>5
  <2>2. f[0] = disk /\ f[0] \in SUBSET recorded /\ f[1] = Effect(f[1 - 1], invokes[1])
    BY <2>1, <1>4 DEF Chain, n
  <2> QED
    BY <2>1, <2>2, <1>5, EffectOfCall
<1>10. recorded \in SUBSET Nat /\ limit \in Nat /\ disk \in SUBSET Nat /\ IsFiniteSet(disk)
  BY <1>1, <1>9, RecordedAreNumbers, FS_Subset
<1>11. ASSUME c.name = "list"
       PROVE  /\ Listed(listing, recorded, Lead)
              /\ Cardinality(disk) <= loads[s].limit => ToSet(listing) = disk
  <2>1. s \in Slots /\ c.name \in Reads
    BY <1>7, <1>11
  <2> DEFINE m == IF loads[s].limit = 0 THEN 1 ELSE loads[s].limit
  <2>3. loads[s].limit \in Nat /\ m \in Nat
    BY <2>1, <1>1 DEF TimelineTyped, LoadTypes
  <2>4. Cardinality(disk) \in Nat
    BY <1>10, FS_CardinalityType
  <2>5. Cardinality(disk) <= loads[s].limit => Cardinality(disk) <= m
    BY <2>3, <2>4
  <2>6. listing = NewestFirst(Newest(disk, m))
    BY DEF listing, Listing
  <2> HIDE DEF m
  <2>7. /\ Newest(disk, m) \in SUBSET disk /\ IsFiniteSet(Newest(disk, m))
        /\ Cardinality(disk) <= m => Newest(disk, m) = disk
    BY <2>3, <1>10, NewestProperties
  <2>8. Newest(disk, m) \in SUBSET Nat
    BY <2>7, <1>10
  <2>9. Lead \in Newest(disk, m) => \A j \in Newest(disk, m) : j <= Lead
    BY <2>7, <1>1, <1>9, RecordedAreNumbers
  <2>10. /\ Listed(listing, Newest(disk, m), Lead) /\ ToSet(listing) = Newest(disk, m)
    BY <2>6, <2>7, <2>8, <2>9, NewestFirstLists
  <2>11. Newest(disk, m) \subseteq recorded
    BY <2>7, <1>9
  <2> QED
    BY <2>5, <2>7, <2>10, <2>11, ListedMonotonic
<1>12. ASSUME c.name \in Reads
       PROVE  \E items : /\ Listed(items, recorded, Lead)
                         /\ replies' = IF loads[s] = NoLoad THEN replies
                                       ELSE Append(replies, [slot |-> s, items |-> items])
                         /\ c.name = "list" => items = listing
                         /\ c.name = "get" => items = <<>>
  <2>1. CASE c.name = "list"
    BY <2>1, <1>8, <1>11 DEF TimelineAnswer
  <2>2. CASE c.name = "get"
    <3>1. Listed(<<>>, recorded, Lead)
      BY EmptyIsListed
    <3> QED
      BY <2>2, <3>1, <1>8 DEF TimelineAnswer
  <2> QED
    BY <2>1, <2>2, <1>7, <1>12
<1>13. replies \in Seq(Answers) /\ Len(replies) \in Nat
  BY <1>1, LenProperties DEF TimelineTyped
<1>14. /\ replies' \in Seq(Answers)
       /\ \A k \in 1..Len(replies') :
            Listed(replies'[k].items, recorded, Lead)
  <2>1. \A k \in 1..Len(replies) :
          Listed(replies[k].items, recorded, Lead)
    BY <1>1 DEF ListsInOrder
  <2>2. CASE replies' = replies
    BY <2>1, <2>2, <1>13
  <2>3. CASE replies' # replies
    <3>1. c.name \in Reads
      BY <2>3, <1>8
    <3>2. PICK items : /\ Listed(items, recorded, Lead)
                       /\ replies' = Append(replies, [slot |-> s, items |-> items])
      BY <2>3, <3>1, <1>12
    <3>3. items \in Seq(Nat)
      <4>1. recorded \subseteq Nat
        BY <1>10
      <4> QED
        BY <3>2, <4>1, SeqMonotonic DEF Listed
    <3> DEFINE a == [slot |-> s, items |-> items]
    <3>4. a \in Answers /\ a.slot = s /\ a.items = items
      BY <3>1, <3>3, <1>7 DEF Answers
    <3>5. replies' = Append(replies, a)
      BY <3>2
    <3> HIDE DEF a
    <3>6. /\ replies' \in Seq(Answers) /\ Len(replies') = Len(replies) + 1
          /\ \A k \in 1..Len(replies) : replies'[k] = replies[k]
          /\ replies'[Len(replies) + 1] = a
      BY <3>4, <3>5, <1>13, AppendProperties
    <3>7. \A k \in 1..Len(replies') : k \in 1..Len(replies) \/ k = Len(replies) + 1
      BY <3>6, <1>13
    <3> QED
      BY <2>1, <3>2, <3>4, <3>6, <3>7
  <2> QED
    BY <2>2, <2>3
<1>15. TimelineTyped'
  BY <1>1, <1>3, <1>5, <1>14 DEF TimelineTyped
<1>16. ListsInOrder'
  BY <1>1, <1>3, <1>14 DEF ListsInOrder
<1>17. Chain(g, disk', invokes', recorded')
  BY <1>3, <1>6, <1>8
<1>18. Len(invokes') = n - 1 /\ n - 1 \in 0..(n - 1) /\ (n - 1) + 1 = n
  BY <1>3, <1>5
<1>19. g[Len(invokes')] = f[n]
  BY <1>6, <1>18
<1>21. PICK D : D = f[n]
  OBVIOUS
<1>22. ASSUME ~raced' PROVE Calm(D)'
  <2>1. Calm(D)
    BY <1>2, <1>3, <1>21, <1>22 DEF Settling, n
  <2>2. /\ Cardinality(D) <= limit /\ \A t, u \in Waiting : t = u
        /\ Waiting = {} => replies = <<>> /\ (loaded => D = ToSet(mem))
        /\ \A t \in Waiting : LoadIsCalm(t, D)
    BY <2>1 DEF Calm
  <2>3. Waiting' = Waiting
    BY <1>3 DEF Waiting
  <2>4. CASE Waiting = {}
    <3>1. c.name \in Reads => loads[s] = NoLoad
      BY <2>4, <1>7 DEF Waiting
    <3>2. replies' = replies
      BY <3>1, <1>8, <1>12
    <3> QED
      BY <2>2, <2>3, <2>4, <3>2, <1>3 DEF Calm
  <2>5. CASE Waiting # {}
    <3>1. PICK t : t \in Waiting
      BY <2>5
    <3>2. t \in Slots /\ loads[t] # NoLoad /\ Waiting = {t}
      BY <2>2, <3>1 DEF Waiting
    <3>3. /\ loads[t].limit = limit
          /\ \/ /\ loads[t].phase = "listing" /\ loads[t].items = <<>>
                /\ Awaits(t, "list")
             \/ /\ loads[t].phase = "reading" /\ ToSet(loads[t].items) = D
                /\ Awaits(t, "get")
      BY <2>2, <3>1, <1>3 DEF LoadIsCalm, Answered
    <3>4. PICK name \in Reads : /\ Awaits(t, name)
                                /\ name = "list" <=> loads[t].phase = "listing"
      BY <3>3 DEF Reads
    <3>5. /\ replies = <<>> /\ invokes[n] = Call(name, t)
          /\ \A k \in 1..(n - 1) : invokes[k].name \in Reads => invokes[k].arg # t
      BY <3>4 DEF Awaits, n
    <3>6. Call(name, t).name = name /\ Call(name, t).arg = t
      BY CallProperties
    <3>7. CASE n = 1
      <4>1. c.name = name /\ s = t /\ c.name \in Reads
        BY <3>5, <3>6, <3>7, <1>5 DEF s
      <4>2. PICK items : /\ replies' = Append(replies, [slot |-> t, items |-> items])
                         /\ c.name = "list" => items = listing
                         /\ c.name = "get" => items = <<>>
        BY <4>1, <3>2, <1>12
      <4>3. replies' = <<[slot |-> t, items |-> items]>>
        BY <4>2, <3>5
      <4>4. invokes' = <<>>
        <5>1. Len(invokes') = 0 /\ invokes' \in Seq(Calls)
          BY <3>7, <1>3, <1>5
        <5> QED
          BY <5>1, EmptySeq
      <4>5. Answered(t, items)'
        BY <4>3, <4>4 DEF Answered
      <4>6. D = disk
        BY <3>7, <4>1, <1>9, <1>21
      <4>7. CASE name = "list"
        <5>1. Cardinality(disk) <= loads[s].limit
          BY <2>2, <3>3, <4>1, <4>6
        <5>2. ToSet(items) = D
          BY <4>1, <4>2, <4>6, <4>7, <5>1, <1>11
        <5>3. loads[t].phase = "listing" /\ loads[t].items = <<>>
          BY <3>3, <3>4, <4>7
        <5>4. LoadIsCalm(t, D)'
          BY <3>3, <4>5, <5>2, <5>3, <1>3 DEF LoadIsCalm
        <5> QED
          BY <2>2, <2>3, <3>2, <5>4, <1>3 DEF Calm
      <4>8. CASE name = "get"
        <5>1. items = <<>> /\ loads[t].phase = "reading" /\ ToSet(loads[t].items) = D
          BY <3>3, <3>4, <4>1, <4>2, <4>8
        <5>2. LoadIsCalm(t, D)'
          BY <3>3, <4>5, <5>1, <1>3 DEF LoadIsCalm
        <5> QED
          BY <2>2, <2>3, <3>2, <5>2, <1>3 DEF Calm
      <4> QED
        BY <4>7, <4>8, <3>4 DEF Reads
    <3>8. CASE n # 1
      <4>1. 1 \in 1..(n - 1) /\ n - 1 \in 1..(n - 1) /\ (n - 1) + 1 = n
        BY <3>8, <1>5
      <4>2. c.name \in Reads => s # t
        BY <3>5, <4>1, <1>5 DEF s
      <4>3. c.name \in Reads => loads[s] = NoLoad
        BY <3>2, <4>2, <1>7 DEF Waiting
      <4>4. replies' = replies
        BY <4>3, <1>8, <1>12
      <4>5. Awaits(t, name)'
        <5>1. invokes'[Len(invokes')] = Call(name, t)
          BY <3>5, <4>1, <1>3, <1>5, <1>18
        <5>2. invokes' # <<>>
          <6>1. Len(invokes') # 0 /\ Len(<<>>) = 0
            BY <4>1, <1>18, EmptySeq
          <6> QED
            BY <6>1
        <5>3. ASSUME NEW k \in 1..(Len(invokes') - 1), invokes'[k].name \in Reads
              PROVE  invokes'[k].arg # t
          <6>1. k \in 1..(n - 1) /\ k + 1 \in 1..(n - 1)
            BY <1>5, <1>18
          <6>2. invokes'[k] = invokes[k + 1]
            BY <6>1, <1>3, <1>5
          <6> QED
            BY <5>3, <6>1, <6>2, <3>5
        <5> QED
          BY <3>5, <4>4, <5>1, <5>2, <5>3 DEF Awaits
      <4>6. LoadIsCalm(t, D)'
        BY <3>3, <3>4, <4>5, <1>3 DEF LoadIsCalm, Reads
      <4> QED
        BY <2>2, <2>3, <3>2, <4>6, <1>3 DEF Calm
    <3> QED
      BY <3>7, <3>8
  <2> QED
    BY <2>4, <2>5
<1>23. Settling(g)'
  <2>1. raced' \in BOOLEAN
    BY <1>1, <1>3 DEF TimelineTyped
  <2> QED
    BY <2>1, <1>3, <1>4, <1>17, <1>19, <1>21, <1>22 DEF Settling
<1> QED
  BY <1>15, <1>16, <1>23 DEF TimelineInv

\* The answers behind the first are answers still.
LEMMA AnswersStay ==
  ASSUME TimelineTyped, replies # <<>>, replies' = Tail(replies)
  PROVE  /\ Head(replies) = replies[1] /\ Head(replies) \in Answers /\ 1 \in 1..Len(replies)
         /\ Head(replies).slot \in Slots /\ replies' \in Seq(Answers)
         /\ \A k \in 1..Len(replies') : \E l \in 1..Len(replies) : replies'[k] = replies[l]
<1>1. replies \in Seq(Answers)
  BY DEF TimelineTyped
<1>2. Len(replies) \in Nat \ {0}
  BY <1>1, EmptySeq
<1>3. /\ Head(replies) = replies[1] /\ Head(replies) \in Answers
      /\ replies' \in Seq(Answers) /\ Len(replies') = Len(replies) - 1
  BY <1>1, HeadTailProperties
<1>4. \A k \in 1..(Len(replies) - 1) : replies'[k] = replies[k + 1]
  BY <1>1, <1>3, HeadTailProperties
<1>5. ASSUME NEW k \in 1..Len(replies') PROVE \E l \in 1..Len(replies) : replies'[k] = replies[l]
  <2>1. k \in 1..(Len(replies) - 1) /\ k + 1 \in 1..Len(replies)
    BY <1>2, <1>3
  <2> QED
    BY <2>1, <1>4
<1>6. 1 \in 1..Len(replies)
  BY <1>2
<1> QED
  BY <1>3, <1>5, <1>6 DEF Answers

\* While there is calm, the one answer under way is for the one load, and holds what the
\* disk will hold.
LEMMA CalmAnswer ==
  ASSUME TimelineTyped, NEW E, Calm(E), NEW a, replies # <<>>, a = Head(replies)
  PROVE  /\ Waiting = {a.slot} /\ a.slot \in Slots /\ Tail(replies) = <<>> /\ invokes = <<>>
         /\ loads[a.slot].limit = limit
         /\ loads[a.slot].phase = "listing" => loads[a.slot].items = <<>> /\ ToSet(a.items) = E
         /\ loads[a.slot].phase # "listing" => ToSet(loads[a.slot].items) = E
<1>1. PICK t : t \in Waiting
  BY DEF Calm
<1>2. Waiting = {t} /\ LoadIsCalm(t, E) /\ t \in Slots
  BY <1>1 DEF Calm, Waiting
<1>3. /\ loads[t].limit = limit
      /\ \/ /\ loads[t].phase = "listing" /\ loads[t].items = <<>>
            /\ \E items : Answered(t, items) /\ ToSet(items) = E
         \/ /\ loads[t].phase = "reading" /\ ToSet(loads[t].items) = E
            /\ Answered(t, <<>>)
  BY <1>2 DEF LoadIsCalm, Awaits
<1>4. PICK items : /\ Answered(t, items)
                   /\ loads[t].phase = "listing" => loads[t].items = <<>> /\ ToSet(items) = E
                   /\ loads[t].phase # "listing" => ToSet(loads[t].items) = E
  BY <1>3
<1>5. replies = <<[slot |-> t, items |-> items]>> /\ invokes = <<>>
  BY <1>4 DEF Answered
<1>6. a.slot = t /\ a.items = items /\ Tail(replies) = <<>>
  BY <1>5
<1> QED
  BY <1>2, <1>3, <1>4, <1>5, <1>6

\* Asking for the payloads leaves the disk as it is.
LEMMA GetIsSent ==
  ASSUME TimelineTyped, NEW f, Settling(f), NEW c \in Calls, c.name = "get"
  PROVE  /\ Append(invokes, c) \in Seq(Calls)
         /\ \E g : /\ Chain(g, disk, Append(invokes, c), recorded)
                   /\ Prolongs(g, Append(invokes, c), f[Len(invokes)], f, invokes, {"get"})
<1> DEFINE E == f[Len(invokes)]
           q == invokes
           kinds == {"get"}
<1>1. q \in Seq(Calls) /\ Chain(f, disk, q, recorded) /\ E \in SUBSET recorded
  BY FateBasics
<1>2. E = Effect(f[Len(q)], c) /\ Effect(f[Len(q)], c) \subseteq recorded
  BY <1>1, EffectOfCall DEF Reads
<1>3. c.name \in kinds
  OBVIOUS
<1> HIDE DEF E, q, kinds
<1>4. /\ Append(q, c) \in Seq(Calls)
      /\ \E g : Chain(g, disk, Append(q, c), recorded) /\ Prolongs(g, Append(q, c), E, f, q, kinds)
  BY <1>1, <1>2, <1>3, ChainAppends
<1> QED
  BY <1>4 DEF E, q, kinds

\* A load that has its list asks for the payloads.
LEMMA ListArrivesInv ==
  ASSUME TimelineInv, replies # <<>>, replies' = Tail(replies),
         NEW a, a = Head(replies), loads[a.slot].phase = "listing",
         loads' = [loads EXCEPT ![a.slot].phase = "reading", ![a.slot].items = a.items],
         invokes' = Append(invokes, Call("get", a.slot)),
         UNCHANGED <<mem, loaded, recorded, latest, dropped, disk, limit, ended, raced, edits>>
  PROVE  TimelineInv'
<1>1. TimelineTyped /\ ListsInOrder
  BY DEF TimelineInv
<1>2. PICK f : Settling(f)
  BY DEF TimelineInv
<1> DEFINE s == a.slot
           c == Call("get", s)
<1>3. /\ a = replies[1] /\ 1 \in 1..Len(replies) /\ a \in Answers /\ s \in Slots
      /\ a.items \in Seq(Nat) /\ replies' \in Seq(Answers)
      /\ \A k \in 1..Len(replies') : \E l \in 1..Len(replies) : replies'[k] = replies[l]
  BY <1>1, AnswersStay DEF Answers
<1>4. /\ invokes \in Seq(Calls) /\ Chain(f, disk, invokes, recorded)
      /\ f[Len(invokes)] \in SUBSET recorded /\ Fate(f[Len(invokes)], dropped, Lead)
  BY <1>1, <1>2, FateBasics
<1>5. loads \in [Slots -> LoadTypes] /\ loads[s] \in LoadTypes
  BY <1>1, <1>3 DEF TimelineTyped
<1>6. /\ DOMAIN loads' = Slots /\ \A t \in Slots : t # s => loads'[t] = loads[t]
      /\ loads'[s] = [phase |-> "reading", run |-> loads[s].run, limit |-> loads[s].limit,
                      items |-> a.items]
      /\ loads' = [t \in Slots |-> loads'[t]]
  BY <1>3, <1>5 DEF LoadTypes
<1>7. /\ \A t \in Slots : loads'[t].run = loads[t].run
      /\ loads'[s].items = a.items /\ loads'[s].phase = "reading"
      /\ loads'[s].limit = loads[s].limit /\ loads'[s] # NoLoad
  BY <1>6 DEF NoLoad
<1>8. loads' \in [Slots -> LoadTypes]
  <2>1. loads'[s] \in LoadTypes
    BY <1>3, <1>5, <1>6 DEF LoadTypes
  <2> QED
    BY <2>1, <1>5, <1>6
<1>9. c \in Calls /\ c.name = "get" /\ c.name \in Reads /\ c.name \in {"get"}
  BY <1>3, CallProperties DEF Reads
<1>10. invokes' = Append(invokes, c)
  OBVIOUS
<1> HIDE DEF c
<1>13. /\ invokes' \in Seq(Calls)
       /\ \E g : /\ Chain(g, disk, invokes', recorded)
                 /\ Prolongs(g, invokes', f[Len(invokes)], f, invokes, {"get"})
  BY <1>2, <1>1, <1>9, <1>10, GetIsSent
<1>14. PICK g, E : /\ Chain(g, disk, invokes', recorded)
                   /\ Prolongs(g, invokes', E, f, invokes, {"get"})
                   /\ E = f[Len(invokes)]
  BY <1>13
<1>11. Lead' = Lead
  BY DEF Lead
<1>15. TimelineTyped'
  BY <1>1, <1>3, <1>8, <1>13 DEF TimelineTyped
<1>16. ListsInOrder'
  <2>1. Listed(a.items, recorded, Lead)
    BY <1>1, <1>3 DEF ListsInOrder
  <2>2. \A t \in Slots : Listed(loads'[t].items, recorded, Lead)
    BY <2>1, <1>1, <1>6, <1>7 DEF ListsInOrder
  <2>3. \A k \in 1..Len(replies') : Listed(replies'[k].items, recorded, Lead)
    BY <1>1, <1>3 DEF ListsInOrder
  <2> QED
    BY <2>2, <2>3, <1>1, <1>7, <1>11 DEF ListsInOrder
<1>18. g[Len(invokes')] = E
  BY <1>14 DEF Prolongs
<1>19. ASSUME ~raced' PROVE Calm(E)'
  <2>1. Calm(E)
    BY <1>2, <1>14, <1>19 DEF Settling
  <2>2. /\ Waiting = {s} /\ Tail(replies) = <<>> /\ invokes = <<>> /\ loads[s].limit = limit
        /\ ToSet(a.items) = E
    BY <2>1, <1>1, CalmAnswer
  <2>3. Waiting' = {s}
    BY <2>2, <1>3, <1>6, <1>7 DEF Waiting
  <2>4. invokes' = <<c>>
    BY <2>2, <1>10
  <2>5. Awaits(s, "get")'
    BY <2>2, <2>4 DEF Awaits, c
  <2>6. LoadIsCalm(s, E)'
    BY <2>2, <2>5, <1>7 DEF LoadIsCalm
  <2> QED
    BY <2>1, <2>3, <2>6 DEF Calm
<1>20. Settling(g)'
  <2>1. raced' \in BOOLEAN
    BY <1>1 DEF TimelineTyped
  <2> QED
    BY <2>1, <1>4, <1>11, <1>14, <1>18, <1>19 DEF Settling
<1> QED
  BY <1>15, <1>16, <1>20 DEF TimelineInv

\* A load is done: what it read takes the place of the list, and the run that waited is
\* put first.
LEMMA FinishLoadInv ==
  ASSUME TimelineInv, replies # <<>>, replies' = Tail(replies),
         NEW a, a = Head(replies), loads[a.slot].phase # "listing" \/ a.items = <<>>,
         FinishLoad(a.slot, loads[a.slot].items),
         UNCHANGED <<disk, limit, ended, raced, edits>>
  PROVE  TimelineInv'
<1>1. TimelineTyped /\ ListsInOrder
  BY DEF TimelineInv
<1>2. PICK f : Settling(f)
  BY DEF TimelineInv
<1> DEFINE s == a.slot
           entries == loads[s].items
           run == loads[s].run
<1>3. /\ s \in Slots /\ replies' \in Seq(Answers)
      /\ \A k \in 1..Len(replies') : \E l \in 1..Len(replies) : replies'[k] = replies[l]
  BY <1>1, AnswersStay
<1>4. /\ invokes \in Seq(Calls) /\ Len(invokes) \in Nat /\ Chain(f, disk, invokes, recorded)
      /\ Fate(f[Len(invokes)], dropped, Lead)
  BY <1>1, <1>2, FateBasics
<1>5. loads \in [Slots -> LoadTypes] /\ run \in Nat
  BY <1>1, <1>3 DEF TimelineTyped, LoadTypes
<1>6. /\ loaded' = TRUE /\ loads' = [loads EXCEPT ![s] = NoLoad]
      /\ IF run = NoRun
         THEN mem' = entries /\ UNCHANGED <<invokes, recorded, latest, dropped>>
         ELSE Record(entries, run)
  BY DEF FinishLoad
<1>7. NoLoad \in LoadTypes /\ NoLoad.run = NoRun /\ NoLoad.items = <<>>
  BY NoLoadProperties
<1>8. /\ loads' \in [Slots -> LoadTypes] /\ loads'[s] = NoLoad
      /\ \A t \in Slots : t # s => loads'[t] = loads[t]
  BY <1>3, <1>5, <1>6, <1>7
<1>9. Listed(entries, recorded, Lead)
  BY <1>1, <1>3 DEF ListsInOrder
<1>10. /\ recorded \subseteq recorded' /\ recorded' \subseteq recorded \cup ({run} \ {NoRun})
       /\ latest' \in recorded' \cup {NoRun} /\ (Lead' = Lead \/ Lead' \notin recorded)
       /\ dropped' \subseteq recorded' /\ Listed(mem', recorded', Lead') /\ invokes' \in Seq(Calls)
       /\ \E g, E : /\ Chain(g, disk, invokes', recorded')
                    /\ Prolongs(g, invokes', E, f, invokes, Writes)
                    /\ Fate(E, dropped', Lead')
                    /\ f[Len(invokes)] = ToSet(entries) /\ Cardinality(ToSet(entries)) <= limit
                         => E = ToSet(mem') /\ Cardinality(E) <= limit
  <2>1. CASE run = NoRun
    <3>1. mem' = entries /\ UNCHANGED <<invokes, recorded, latest, dropped>> /\ Lead' = Lead
      BY <2>1, <1>6 DEF Lead
    <3>2. Listed(mem', recorded, Lead)
      BY <3>1, <1>9
    <3>3. Prolongs(f, invokes', f[Len(invokes)], f, invokes, Writes)
      BY <3>1, <1>4 DEF Prolongs
    <3>4. dropped \subseteq recorded /\ latest \in recorded \cup {NoRun}
      BY <1>1 DEF TimelineTyped
    <3>5. PICK g, E : g = f /\ E = f[Len(invokes)]
      OBVIOUS
    <3>6. /\ Chain(g, disk, invokes', recorded') /\ Prolongs(g, invokes', E, f, invokes, Writes)
          /\ Fate(E, dropped', Lead')
          /\ f[Len(invokes)] = ToSet(entries) /\ Cardinality(ToSet(entries)) <= limit
               => E = ToSet(mem') /\ Cardinality(E) <= limit
      BY <3>1, <3>3, <3>5, <1>4
    <3> QED
      BY <3>1, <3>2, <3>4, <3>6, <1>4
  <2>2. CASE run # NoRun
    <3>1. Record(entries, run) /\ run \notin recorded
      BY <2>2, <1>1, <1>3, <1>6 DEF ListsInOrder
    <3> DEFINE ent == entries
               r == run
    <3>2. /\ Record(ent, r) /\ r \notin recorded /\ r # NoRun /\ r \in Nat
          /\ Listed(ent, recorded, Lead)
      BY <3>1, <2>2, <1>5, <1>9
    <3> HIDE DEF ent, r
    <3>3. /\ recorded' = recorded \cup {r} /\ dropped' \subseteq recorded'
          /\ latest' \in recorded' /\ Lead' \notin recorded
          /\ Listed(mem', recorded', Lead') /\ invokes' \in Seq(Calls)
          /\ Cardinality(ToSet(mem')) <= limit
          /\ \E g, E : /\ Chain(g, disk, invokes', recorded')
                       /\ Prolongs(g, invokes', E, f, invokes, Writes)
                       /\ Fate(E, dropped', Lead')
                       /\ f[Len(invokes)] = ToSet(ent) => E = ToSet(mem')
      BY <3>2, <1>1, <1>4, RecordSettles
    <3> QED
      BY <3>3, <2>2 DEF ent, r
  <2> QED
    BY <2>1, <2>2
<1>11. PICK g, E : /\ Chain(g, disk, invokes', recorded')
                   /\ Prolongs(g, invokes', E, f, invokes, Writes)
                   /\ Fate(E, dropped', Lead')
                   /\ f[Len(invokes)] = ToSet(entries) /\ Cardinality(ToSet(entries)) <= limit
                        => E = ToSet(mem') /\ Cardinality(E) <= limit
  BY <1>10
<1> HIDE DEF entries, run
<1>12. run \in ended \cup {NoRun}
  BY <1>1, <1>3 DEF ListsInOrder, run
<1>13. TimelineTyped'
  <2>1. recorded' \subseteq ended'
    BY <1>1, <1>10, <1>12 DEF TimelineTyped
  <2> QED
    BY <2>1, <1>1, <1>3, <1>6, <1>8, <1>10 DEF TimelineTyped
<1>14. \A t \in Slots : loads'[t].run \in {loads[t].run, NoRun}
  BY <1>7, <1>8
<1>15. ListsInOrder'
  <2>1. \A t \in Slots : \/ loads'[t] = loads[t]
                         \/ loads'[t].items = <<>> /\ loads'[t].run = NoRun
    BY <1>7, <1>8
  <2>2. ASSUME NEW t \in Slots, loads[t].run \in recorded' PROVE loads'[t].run = NoRun
    <3>1. CASE t = s
      BY <3>1, <1>7, <1>8
    <3>2. CASE t # s
      <4>1. loads'[t] = loads[t]
        BY <3>2, <1>8
      <4>2. loads[t].run \in recorded \/ (loads[t].run = run /\ run # NoRun)
        BY <2>2, <1>10
      <4> QED
        BY <4>1, <4>2, <3>2, <1>1, <1>3 DEF ListsInOrder, run
    <3> QED
      BY <3>1, <3>2
  <2> QED
    BY <2>1, <2>2, <1>1, <1>3, <1>10, ListsStay
<1>17. g[Len(invokes')] = E
  BY <1>11 DEF Prolongs
<1>18. ASSUME ~raced' PROVE Calm(E)'
  <2>1. PICK D : D = f[Len(invokes)]
    OBVIOUS
  <2>2. Calm(D)
    BY <2>1, <1>2, <1>18 DEF Settling
  <2>3. /\ Waiting = {s} /\ Tail(replies) = <<>>
        /\ loads[s].phase = "listing" => entries = <<>> /\ ToSet(a.items) = D
        /\ loads[s].phase # "listing" => ToSet(entries) = D
    BY <2>2, <1>1, CalmAnswer DEF entries
  <2>4. ToSet(entries) = D
    BY <2>3
  <2>5. Cardinality(D) <= limit
    BY <2>2 DEF Calm
  <2>6. E = ToSet(mem') /\ Cardinality(E) <= limit
    BY <2>1, <2>4, <2>5, <1>11
  <2>7. Waiting' = {}
    BY <2>3, <1>8 DEF Waiting
  <2> QED
    BY <2>3, <2>6, <2>7, <1>6 DEF Calm
<1>19. Settling(g)'
  <2>1. raced' \in BOOLEAN
    BY <1>1 DEF TimelineTyped
  <2> QED
    BY <2>1, <1>11, <1>17, <1>18 DEF Settling
<1> QED
  BY <1>13, <1>15, <1>19 DEF TimelineInv

LEMMA ReplyArrivesInv == TimelineInv /\ ReplyArrives => TimelineInv'
<1> SUFFICES ASSUME TimelineInv, ReplyArrives PROVE TimelineInv'
  OBVIOUS
<1>1. PICK a : a = Head(replies)
  OBVIOUS
<1>2. /\ replies # <<>> /\ replies' = Tail(replies)
      /\ UNCHANGED <<disk, limit, ended, raced, edits>>
      /\ IF loads[a.slot].phase = "listing" /\ a.items # <<>>
         THEN /\ loads' = [loads EXCEPT ![a.slot].phase = "reading", ![a.slot].items = a.items]
              /\ invokes' = Append(invokes, Call("get", a.slot))
              /\ UNCHANGED <<mem, loaded, recorded, latest, dropped>>
         ELSE FinishLoad(a.slot, loads[a.slot].items)
  BY <1>1 DEF ReplyArrives
<1>3. CASE loads[a.slot].phase = "listing" /\ a.items # <<>>
  BY <1>1, <1>2, <1>3, ListArrivesInv
<1>4. CASE ~(loads[a.slot].phase = "listing" /\ a.items # <<>>)
  BY <1>1, <1>2, <1>4, FinishLoadInv
<1> QED
  BY <1>3, <1>4

-----------------------------------------------------------------------------
(* The theorems *)

LEMMA TimelineInitInv == TimelineInit => TimelineInv
<1> SUFFICES ASSUME TimelineInit PROVE TimelineInv
  OBVIOUS
<1>1. /\ mem = <<>> /\ loaded = FALSE /\ loads = [s \in Slots |-> NoLoad] /\ invokes = <<>>
      /\ replies = <<>> /\ disk = {} /\ limit \in Limits /\ ended = {} /\ recorded = {}
      /\ latest = NoRun /\ dropped = {} /\ raced = FALSE /\ edits = 0
  BY DEF TimelineInit
<1>2. NoLoad \in LoadTypes /\ NoLoad.run = NoRun /\ NoLoad.items = <<>>
  BY NoLoadProperties
<1>3. /\ <<>> \in Seq(Calls) /\ <<>> \in Seq(Answers) /\ Len(<<>>) = 0
  BY EmptySeq
<1>4. TimelineTyped
  <2>1. 0 \in 0..MaxEdits /\ IsFiniteSet({})
    BY TimelineAssumption, FS_EmptySet
  <2> QED
    BY <2>1, <1>1, <1>2, <1>3 DEF TimelineTyped
<1>5. ListsInOrder
  <2>1. \A S : Listed(<<>>, S, Lead)
    BY EmptyIsListed
  <2> QED
    BY <2>1, <1>1, <1>2, <1>3 DEF ListsInOrder
<1>6. PICK f : f = [k \in 0..0 |-> {}]
  OBVIOUS
<1>7. f[0] = {} /\ Chain(f, disk, invokes, recorded)
  <2>1. 0 \in 0..0 /\ 1..0 = {}
    OBVIOUS
  <2> QED
    BY <2>1, <1>1, <1>3, <1>6 DEF Chain
<1>8. Calm({})
  <2>1. Cardinality({}) = 0 /\ limit \in Nat
    BY <1>1, FS_EmptySet, TimelineAssumption
  <2>2. Cardinality({}) <= limit
    BY <2>1
  <2>3. Waiting = {}
    BY <1>1 DEF Waiting
  <2> QED
    BY <2>2, <2>3, <1>1 DEF Calm
<1>9. Lead = NoRun
  BY <1>1 DEF Lead
<1>10. Settling(f)
  BY <1>1, <1>3, <1>7, <1>8, <1>9 DEF Settling, Fate
<1> QED
  BY <1>4, <1>5, <1>10 DEF TimelineInv

LEMMA TimelineStutters == TimelineInv /\ UNCHANGED timelineVars => TimelineInv'
<1> SUFFICES ASSUME TimelineInv, UNCHANGED timelineVars PROVE TimelineInv'
  OBVIOUS
<1>1. /\ UNCHANGED <<mem, loaded, loads, invokes, replies, disk, limit, ended, recorded>>
      /\ UNCHANGED <<latest, dropped, raced, edits>> /\ Lead' = Lead
  BY DEF timelineVars, Lead
<1>2. TimelineTyped' /\ ListsInOrder'
  BY <1>1 DEF TimelineInv, TimelineTyped, ListsInOrder
<1>3. PICK f : Settling(f)
  BY DEF TimelineInv
<1>4. PICK D : D = f[Len(invokes)]
  OBVIOUS
<1>5. raced' \/ Calm(D)'
  BY <1>1, <1>3, <1>4
     DEF Settling, Calm, Waiting, LoadIsCalm, Awaits, Answered
<1>6. Settling(f)'
  BY <1>1, <1>3, <1>4, <1>5 DEF Settling
<1> QED
  BY <1>2, <1>6 DEF TimelineInv

LEMMA TimelineNextInv == TimelineInv /\ [TimelineNext]_timelineVars => TimelineInv'
<1> SUFFICES ASSUME TimelineInv, [TimelineNext]_timelineVars PROVE TimelineInv'
  OBVIOUS
<1>1. CASE Select
  BY <1>1, SelectInv
<1>2. CASE RunEnds
  BY <1>2, RunEndsInv
<1>3. CASE ReplyArrives
  BY <1>3, ReplyArrivesInv
<1>4. CASE DeleteEntry
  BY <1>4, DeleteEntryInv
<1>5. CASE Clear
  BY <1>5, ClearInv
<1>6. CASE Reload
  BY <1>6, ReloadInv
<1>7. CASE \E max \in Limits : SetLimit(max)
  BY <1>7, SetLimitInv
<1>8. CASE ServeTimeline
  BY <1>8, ServeTimelineInv
<1>9. CASE UNCHANGED timelineVars
  BY <1>9, TimelineStutters
<1> QED
  BY <1>1, <1>2, <1>3, <1>4, <1>5, <1>6, <1>7, <1>8, <1>9 DEF TimelineNext

LEMMA TimelineInvariant == TimelineSpec => []TimelineInv
BY TimelineInitInv, TimelineNextInv, PTL DEF TimelineSpec

\* Every variable keeps its type: what is on disk and what the user dropped was
\* recorded, and a load waits for a run that has ended.
THEOREM TimelineTypeCorrect == TimelineSpec => []TimelineTypeOK
<1>1. TimelineInv => TimelineTypeOK
  <2> SUFFICES ASSUME TimelineInv PROVE TimelineTypeOK
    OBVIOUS
  <2>1. TimelineTyped /\ ListsInOrder
    BY DEF TimelineInv
  <2>2. PICK f : Settling(f)
    BY DEF TimelineInv
  <2>3. disk \subseteq recorded
    <3>1. 0 \in 0..Len(invokes) /\ Chain(f, disk, invokes, recorded)
      BY <2>1, <2>2, FateBasics
    <3> QED
      BY <3>1 DEF Chain
  <2>4. recorded \subseteq Ids /\ recorded \in SUBSET Nat
    BY <2>1, RecordedAreNumbers DEF TimelineTyped
  <2>5. mem \in Seq(Ids)
    BY <2>1, <2>4, SeqMonotonic DEF ListsInOrder, Listed
  <2>6. ASSUME NEW s \in Slots
        PROVE  /\ loads[s].phase \in {"none", "listing", "reading"}
               /\ loads[s].run \in ended \cup {NoRun} /\ loads[s].items \in Seq(Ids)
    <3>1. loads[s].phase \in {"none", "listing", "reading"}
      BY <2>1 DEF TimelineTyped, LoadTypes
    <3>2. loads[s].run \in ended \cup {NoRun}
      BY <2>1 DEF ListsInOrder
    <3>4. Listed(loads[s].items, recorded, Lead)
      BY <2>1 DEF ListsInOrder
    <3>5. loads[s].items \in Seq(Ids)
      BY <2>4, <3>4, SeqMonotonic DEF Listed
    <3> QED
      BY <3>1, <3>2, <3>5
  <2>7. ASSUME NEW i \in DOMAIN invokes
        PROVE  invokes[i].name \in {"list", "get", "add", "delete", "clear", "trim"}
    <3>1. invokes \in Seq(Calls) /\ DOMAIN invokes = 1..Len(invokes)
      BY <2>1, LenProperties DEF TimelineTyped
    <3>2. invokes[i] \in Calls
      BY <3>1, ElementOfSeq
    <3> QED
      BY <3>2, CallHas DEF Reads, Writes
  <2> QED
    BY <2>1, <2>3, <2>5, <2>6, <2>7 DEF TimelineTypeOK, TimelineTyped
<1> QED
  BY <1>1, TimelineInvariant, PTL

\* What the settled states have in common.
LEMMA Settled ==
  ASSUME TimelineInv, invokes = <<>>
  PROVE  /\ Fate(disk, dropped, Lead)
         /\ ~raced => Calm(disk)
<1>1. PICK f : Settling(f)
  BY DEF TimelineInv
<1>2. Len(invokes) = 0
  BY EmptySeq
<1>3. f[0] = disk
  BY <1>1 DEF Settling, Chain
<1>4. PICK D : D = f[Len(invokes)]
  OBVIOUS
<1>5. Fate(D, dropped, Lead) /\ (~raced => Calm(D)) /\ D = disk
  BY <1>1, <1>2, <1>3, <1>4 DEF Settling
<1> QED
  BY <1>5

\* A run the user deleted or cleared does not come back to the disk once the calls have
\* been served, whatever loads, runs and limits cross it on the way (app.js
\* _recordHistoryEntry, timeline-handlers.js).
THEOREM DeletedRunsStayDeleted == TimelineSpec => []DeletedRunStaysDeleted
<1>1. TimelineInv => DeletedRunStaysDeleted
  BY Settled DEF DeletedRunStaysDeleted, Fate
<1> QED
  BY <1>1, TimelineInvariant, PTL

\* Neither a purge, which goes by the list, nor a trim, which goes by time, takes the run
\* recorded last if it is the newest too: once everything has settled it is on disk,
\* unless the user dropped it (app.js _recordHistoryEntry, hippo:history-trim).
THEOREM NewestRunsAreKept == TimelineSpec => []NewestRunKept
<1>1. TimelineInv => NewestRunKept
  <2> SUFFICES ASSUME TimelineInv, Quiet, NEW i \in recorded, i \notin dropped,
                      i = latest, \A j \in recorded : j <= i
               PROVE  i \in disk
    BY DEF NewestRunKept
  <2>1. Fate(disk, dropped, Lead)
    BY Settled DEF Quiet
  <2>2. Lead = i
    BY DEF Lead
  <2>3. i # NoRun
    BY RecordedAreNumbers DEF TimelineInv, TimelineTyped
  <2> QED
    BY <2>1, <2>2, <2>3 DEF Fate
<1> QED
  BY <1>1, TimelineInvariant, PTL

\* Once everything has settled a loaded list shows exactly the runs on disk, no more than
\* the limit, if no handler ran while a load waited; and it never shows a run twice
\* (app.js _loadRequestHistory, _recordHistoryEntry).
THEOREM ListsShowTheDisk == TimelineSpec => []UndisturbedMemoryMatchesDisk
<1>1. TimelineInv => UndisturbedMemoryMatchesDisk
  <2> SUFFICES ASSUME TimelineInv PROVE UndisturbedMemoryMatchesDisk
    OBVIOUS
  <2>1. TimelineTyped /\ ListsInOrder
    BY DEF TimelineInv
  <2>2. IsInjective(mem)
    BY <2>1, RecordedAreNumbers, ListedCardinality DEF ListsInOrder
  <2>3. ASSUME ~raced, Quiet
        PROVE  Cardinality(disk) <= limit /\ (loaded => ToSet(mem) = disk)
    <3>1. Calm(disk)
      BY <2>3, Settled DEF Quiet
    <3>2. Waiting = {}
      BY <2>3 DEF Quiet, Waiting
    <3> QED
      BY <3>1, <3>2 DEF Calm
  <2> QED
    BY <2>2, <2>3 DEF UndisturbedMemoryMatchesDisk, MemoryMatchesDisk, DiskWithinLimit
<1> QED
  BY <1>1, TimelineInvariant, PTL

=============================================================================
