-------------------------- MODULE Transcript_proofs --------------------------
(***************************************************************************)
(* The page and Core, for every set of messages and every bound.           *)
(***************************************************************************)
EXTENDS Transcript, FiniteSetTheorems, SequenceTheorems, WellFoundedInduction, TLAPS

-----------------------------------------------------------------------------
(* Numbers.                                                                *)

\* A set of numbers that is not empty has a least one.
LEMMA Least ==
    ASSUME NEW S \in SUBSET Nat, S # {}
    PROVE  \E n \in S : \A k \in S : n <= k
<1> DEFINE R == OpToRel(<, Nat)
<1>1. IsWellFoundedOn(R, Nat)
  BY NatLessThanWellFounded
<1>2. R = {p \in Nat \X Nat : p[1] < p[2]}
  BY DEF OpToRel
<1> HIDE DEF R
<1>3. PICK n \in S : \A k \in S : <<k, n>> \notin R
  BY <1>1, WFMin
<1>4. \A k \in S : n <= k
  <2> TAKE k \in S
  <2>1. <<k, n>> \in Nat \X Nat
    OBVIOUS
  <2>2. ~(k < n)
    BY <2>1, <1>2, <1>3
  <2> QED
    BY <2>2
<1> QED
  BY <1>4

\* One that is bounded has a greatest one.
LEMMA Greatest ==
    ASSUME NEW S \in SUBSET Nat, S # {}, NEW b \in Nat, \A k \in S : k <= b
    PROVE  \E n \in S : \A k \in S : k <= n
<1> DEFINE T == {i \in Nat : b - i \in S /\ i <= b}
<1>1. T # {}
  <2>1. PICK k \in S : TRUE
    OBVIOUS
  <2>2. b - k \in Nat /\ b - (b - k) = k /\ b - k <= b /\ k <= b
    BY <2>1
  <2> QED
    BY <2>2
<1>2. PICK i \in T : \A k \in T : i <= k
  BY <1>1, Least
<1>3. \A k \in S : k <= b - i
  <2> TAKE k \in S
  <2>1. k \in Nat /\ k <= b /\ i \in Nat
    BY <1>2
  <2>2. b - k \in Nat /\ b - (b - k) = k /\ b - k <= b
    BY <2>1
  <2>3. b - k \in T
    BY <2>2, <2>1
  <2>4. i <= b - k
    BY <2>3, <1>2
  <2> QED
    BY <2>4, <2>1
<1> QED
  BY <1>2, <1>3

\* Min and Max are what they say.
LEMMA MinFacts ==
    ASSUME NEW S \in SUBSET Nat, S # {}
    PROVE  Min(S) \in S /\ \A k \in S : Min(S) <= k
BY Least DEF Min

\* What Max returns, of a bounded set of numbers that is not empty.
LEMMA MaxFacts ==
    ASSUME NEW S \in SUBSET Nat, S # {}, NEW b \in Nat, \A k \in S : k <= b
    PROVE  Max(S) \in S /\ \A k \in S : k <= Max(S)
<1>1. \E n \in S : \A k \in S : n >= k
  BY Greatest
<1> QED
  BY <1>1 DEF Max

\* What holds at 0 and passes from each number to the next holds of all.
LEMMA Induction ==
    ASSUME NEW S, 0 \in S, \A n \in Nat : n \in S => n + 1 \in S
    PROVE  Nat \subseteq S
<1> SUFFICES ASSUME ~(Nat \subseteq S)
             PROVE  FALSE
  OBVIOUS
<1>1. PICK n \in Nat \ S : \A k \in Nat \ S : n <= k
  BY Least
<1>2. n # 0
  OBVIOUS
<1>3. n - 1 \in Nat /\ n - 1 + 1 = n /\ ~(n <= n - 1)
  BY <1>2
<1>4. n - 1 \in S
  BY <1>1, <1>3
<1> QED
  BY <1>3, <1>4

-----------------------------------------------------------------------------
(* Sequences.                                                              *)

\* The elements of t are elements of s, in their order.
Within(t, s, f) ==
    /\ f \in [1..Len(t) -> 1..Len(s)]
    /\ \A k \in 1..Len(t) : t[k] = s[f[k]]
    /\ \A k, l \in 1..Len(t) : k < l => f[k] < f[l]

\* A part of a sequence.
LEMMA Part ==
    ASSUME NEW S, NEW s \in Seq(S), NEW m \in Nat \ {0}, NEW n \in 0..Len(s)
    PROVE  LET t == SubSeq(s, m, n)
           IN  /\ t \in Seq(S)
               /\ Len(t) = IF m <= n THEN n - m + 1 ELSE 0
               /\ \A i \in 1..Len(t) : t[i] = s[m + i - 1]
<1>1. \A i \in m..n : s[i] \in S
  OBVIOUS
<1>2. m \in Int /\ n \in Int
  OBVIOUS
<1>3. /\ SubSeq(s, m, n) \in Seq(S)
      /\ Len(SubSeq(s, m, n)) = IF m <= n THEN n - m + 1 ELSE 0
      /\ \A i \in 1..n - m + 1 : SubSeq(s, m, n)[i] = s[m + i - 1]
  BY <1>1, <1>2, SubSeqProperties
<1> QED
  BY <1>2, <1>3

\* The elements of two sequences one after the other.
LEMMA Joined ==
    ASSUME NEW S, NEW a \in Seq(S), NEW b \in Seq(S)
    PROVE  /\ a \o b \in Seq(S) /\ Len(a \o b) = Len(a) + Len(b)
           /\ \A i \in 1..Len(a) : (a \o b)[i] = a[i]
           /\ \A i \in 1..Len(b) : (a \o b)[Len(a) + i] = b[i]
           /\ \A i \in Len(a) + 1..Len(a \o b) : (a \o b)[i] = b[i - Len(a)]
<1>1. Len(a) \in Nat /\ Len(b) \in Nat
  OBVIOUS
<1>2. /\ a \o b \in Seq(S) /\ Len(a \o b) = Len(a) + Len(b)
      /\ \A i \in 1..Len(a) + Len(b) :
            (a \o b)[i] = IF i <= Len(a) THEN a[i] ELSE b[i - Len(a)]
  BY ConcatProperties
<1> DEFINE c == a \o b
<1> HIDE DEF c
<1>3. \A i \in 1..Len(b) : c[Len(a) + i] = b[i]
  <2> TAKE i \in 1..Len(b)
  <2>1. Len(a) + i \in 1..Len(a) + Len(b) /\ ~(Len(a) + i <= Len(a)) /\ Len(a) + i - Len(a) = i
    BY <1>1
  <2> QED
    BY <2>1, <1>2 DEF c
<1>4. \A i \in 1..Len(a) : c[i] = a[i]
  BY <1>1, <1>2 DEF c
<1>5. \A i \in Len(a) + 1..Len(c) : c[i] = b[i - Len(a)]
  BY <1>1, <1>2 DEF c
<1> QED
  BY <1>2, <1>3, <1>4, <1>5 DEF c

\* t is s with x after the first n.
Inserted(s, n, t, x) ==
    /\ Len(t) = Len(s) + 1
    /\ \A i \in 1..n : t[i] = s[i]
    /\ t[n + 1] = x
    /\ \A i \in n + 1..Len(s) : t[i + 1] = s[i]

\* PutAfter puts one element in and moves those behind it up by one.
LEMMA PutAfterFacts ==
    ASSUME NEW S, NEW s \in Seq(S), NEW n \in 0..Len(s), NEW x \in S
    PROVE  PutAfter(s, n, x) \in Seq(S) /\ Inserted(s, n, PutAfter(s, n, x), x)
<1> DEFINE a == SubSeq(s, 1, n)
           b == SubSeq(s, n + 1, Len(s))
<1>1. Len(s) \in Nat /\ n \in Nat
  OBVIOUS
<1>2. a \in Seq(S) /\ Len(a) = n /\ \A i \in 1..n : a[i] = s[i]
  BY <1>1, Part
<1>3. b \in Seq(S) /\ Len(b) = Len(s) - n /\ \A i \in 1..Len(s) - n : b[i] = s[n + i]
  BY <1>1, Part
<1> HIDE DEF a, b
<1>4. (a \o <<x>>) \in Seq(S) /\ Len(a \o <<x>>) = n + 1
  BY <1>1, <1>2
<1>5. (\A i \in 1..n : (a \o <<x>>)[i] = s[i]) /\ (a \o <<x>>)[n + 1] = x
  BY <1>1, <1>2
<1> DEFINE c == a \o <<x>>
<1> HIDE DEF c
<1>6. c \in Seq(S) /\ Len(c) = n + 1 /\ (\A i \in 1..n : c[i] = s[i]) /\ c[n + 1] = x
  BY <1>4, <1>5 DEF c
<1>7. /\ c \o b \in Seq(S) /\ Len(c \o b) = Len(s) + 1
      /\ \A i \in 1..n + 1 : (c \o b)[i] = c[i]
      /\ \A i \in n + 1..Len(s) : (c \o b)[i + 1] = b[i - n]
  <2>a. c \in Seq(S) /\ b \in Seq(S)
    BY <1>3, <1>6
  <2>b. c \o b \in Seq(S) /\ Len(c \o b) = Len(c) + Len(b)
    BY <2>a
  <2>c. \A i \in 1..Len(c) : (c \o b)[i] = c[i]
    BY <2>a, Joined, Zenon
  <2>0. /\ c \o b \in Seq(S) /\ Len(c \o b) = Len(c) + Len(b)
        /\ \A i \in 1..Len(c) : (c \o b)[i] = c[i]
    BY <2>b, <2>c
  <2>1. /\ c \o b \in Seq(S) /\ Len(c \o b) = Len(s) + 1
        /\ \A i \in 1..n + 1 : (c \o b)[i] = c[i]
    BY <2>0, <1>1, <1>3, <1>6
  <2>2. \A i \in n + 1..Len(s) : (c \o b)[i + 1] = b[i - n]
    <3> TAKE i \in n + 1..Len(s)
    <3>1. i - n \in 1..Len(b) /\ Len(c) + (i - n) = i + 1
      BY <1>1, <1>3, <1>6
    <3>2. (c \o b)[Len(c) + (i - n)] = b[i - n]
      BY <3>1, <1>3, <1>6, Joined
    <3> QED
      BY <3>1, <3>2
  <2> QED
    BY <2>1, <2>2
<1>8. \A i \in n + 1..Len(s) : b[i - n] = s[i]
  BY <1>1, <1>3
<1>9. PutAfter(s, n, x) = c \o b
  BY DEF PutAfter, a, b, c
<1> QED
  BY <1>1, <1>6, <1>7, <1>8, <1>9 DEF Inserted

\* Before finds the last position that is not in the set.
LEMMA BeforeFacts ==
    ASSUME NEW S, NEW s \in Seq(S), NEW at \in SUBSET (1..Len(s))
    PROVE  LET n == Before(s, at)
           IN  /\ n \in 0..Len(s) /\ n \notin at
               /\ \A i \in n + 1..Len(s) : i \in at
<1> DEFINE T == (0..Len(s)) \ at
<1>1. Len(s) \in Nat /\ 0 \in T
  OBVIOUS
<1>2. T \in SUBSET Nat /\ \A k \in T : k <= Len(s)
  OBVIOUS
<1>3. PICK n \in T : \A k \in T : k <= n
  BY <1>1, <1>2, Greatest
<1>4. n \in 0..Len(s) /\ n \notin at /\ n + 1..Len(s) \subseteq at
  BY <1>1, <1>3
<1>5. \E n_1 \in 0..Len(s) : n_1 + 1..Len(s) \subseteq at /\ n_1 \notin at
  BY <1>4
<1>6. /\ Before(s, at) \in 0..Len(s) /\ Before(s, at) \notin at
      /\ Before(s, at) + 1..Len(s) \subseteq at
  BY <1>5, Zenon DEF Before
<1> QED
  BY <1>6

\* One element fewer.
LEMMA RemoveAtFacts ==
    ASSUME NEW S, NEW s \in Seq(S), NEW i \in 1..Len(s)
    PROVE  LET t == RemoveAt(s, i)
           IN  /\ t \in Seq(S) /\ Len(t) = Len(s) - 1
               /\ \A k \in 1..i - 1 : t[k] = s[k]
               /\ \A k \in i..Len(s) - 1 : t[k] = s[k + 1]
<1> DEFINE a == SubSeq(s, 1, i - 1)
           b == SubSeq(s, i + 1, Len(s))
<1>1. Len(s) \in Nat /\ i \in Nat \ {0} /\ i - 1 \in 0..Len(s)
  OBVIOUS
<1>2. a \in Seq(S) /\ Len(a) = i - 1 /\ \A k \in 1..i - 1 : a[k] = s[k]
  BY <1>1, Part
<1>3. b \in Seq(S) /\ Len(b) = Len(s) - i /\ \A k \in 1..Len(s) - i : b[k] = s[i + k]
  BY <1>1, Part
<1> HIDE DEF a, b
<1>4. /\ a \o b \in Seq(S) /\ Len(a \o b) = Len(s) - 1
      /\ \A k \in 1..i - 1 : (a \o b)[k] = a[k]
      /\ \A k \in i..Len(s) - 1 : (a \o b)[k] = b[k - (i - 1)]
  <2>a. a \in Seq(S) /\ b \in Seq(S)
    BY <1>2, <1>3
  <2>b. a \o b \in Seq(S) /\ Len(a \o b) = Len(a) + Len(b)
    BY <2>a
  <2>c. \A k \in 1..Len(a) : (a \o b)[k] = a[k]
    BY <2>a, Joined, Zenon
  <2>0. /\ a \o b \in Seq(S) /\ Len(a \o b) = Len(a) + Len(b)
        /\ \A k \in 1..Len(a) : (a \o b)[k] = a[k]
    BY <2>b, <2>c
  <2>1. /\ a \o b \in Seq(S) /\ Len(a \o b) = Len(s) - 1
        /\ \A k \in 1..i - 1 : (a \o b)[k] = a[k]
    BY <2>0, <1>1, <1>2, <1>3
  <2>2. \A k \in i..Len(s) - 1 : (a \o b)[k] = b[k - (i - 1)]
    <3> TAKE k \in i..Len(s) - 1
    <3>1. k - (i - 1) \in 1..Len(b) /\ Len(a) + (k - (i - 1)) = k
      BY <1>1, <1>2, <1>3
    <3>2. (a \o b)[Len(a) + (k - (i - 1))] = b[k - (i - 1)]
      BY <3>1, <1>2, <1>3, Joined
    <3> QED
      BY <3>1, <3>2
  <2> QED
    BY <2>1, <2>2
<1>5. \A k \in i..Len(s) - 1 : b[k - (i - 1)] = s[k + 1]
  BY <1>1, <1>3
<1>6. RemoveAt(s, i) = a \o b
  BY DEF RemoveAt, a, b
<1> QED
  BY <1>2, <1>4, <1>5, <1>6

\* The numbers of a set below one of its own, counted.
LEMMA Ranks ==
    ASSUME NEW at \in SUBSET Nat, IsFiniteSet(at)
    PROVE  /\ Cardinality(at) \in Nat
           /\ \A i \in at : Cardinality({j \in at : j < i}) \in 0..Cardinality(at) - 1
           /\ \A i, j \in at : i < j =>
                 Cardinality({k \in at : k < i}) < Cardinality({k \in at : k < j})
           /\ \A k \in 1..Cardinality(at) :
                 \E i \in at : Cardinality({j \in at : j < i}) = k - 1
<1> DEFINE B(i) == {j \in at : j < i}
           c == Cardinality(at)
           f == [i \in at |-> Cardinality(B(i))]
<1>1. c \in Nat
  BY FS_CardinalityType
<1>2. \A i \in at : IsFiniteSet(B(i)) /\ Cardinality(B(i)) \in Nat
  <2> TAKE i \in at
  <2>1. B(i) \in SUBSET at
    OBVIOUS
  <2>2. IsFiniteSet(B(i))
    BY <2>1, FS_Subset
  <2> QED
    BY <2>2, FS_CardinalityType
<1>3. \A i \in at, T \in SUBSET at : B(i) \subseteq T /\ i \in T => Cardinality(B(i)) < Cardinality(T)
  <2> SUFFICES ASSUME NEW i \in at, NEW T \in SUBSET at, B(i) \subseteq T, i \in T
               PROVE  Cardinality(B(i)) < Cardinality(T)
    OBVIOUS
  <2>1. IsFiniteSet(T) /\ Cardinality(T) \in Nat
    BY FS_Subset, FS_CardinalityType
  <2>2. Cardinality(B(i)) <= Cardinality(T) /\ (Cardinality(T) = Cardinality(B(i)) => T = B(i))
    BY <2>1, FS_Subset
  <2>3. i \notin B(i)
    OBVIOUS
  <2>4. T # B(i)
    BY <2>3
  <2> HIDE DEF B
  <2> QED
    BY <2>1, <2>2, <2>4, <1>2
<1>4. \A i \in at : Cardinality(B(i)) \in 0..c - 1
  <2> TAKE i \in at
  <2>1. B(i) \subseteq at /\ at \in SUBSET at
    OBVIOUS
  <2>2. Cardinality(B(i)) < c /\ Cardinality(B(i)) \in Nat
    BY <2>1, <1>3, <1>2
  <2> QED
    BY <2>2, <1>1
<1>5. \A i, j \in at : i < j => Cardinality(B(i)) < Cardinality(B(j))
  <2> SUFFICES ASSUME NEW i \in at, NEW j \in at, i < j
               PROVE  Cardinality(B(i)) < Cardinality(B(j))
    OBVIOUS
  <2>1. i \in B(j) /\ B(j) \in SUBSET at
    OBVIOUS
  <2>2. \A k \in B(i) : k \in B(j)
    <3> TAKE k \in B(i)
    <3>1. k \in Nat /\ i \in Nat /\ j \in Nat /\ k \in at /\ k < i
      OBVIOUS
    <3>2. k < j
      BY <3>1
    <3> QED
      BY <3>1, <3>2
  <2> QED
    BY <2>1, <2>2, <1>3
<1>6. f \in Injection(at, 0..c - 1)
  <2>1. f \in [at -> 0..c - 1]
    BY <1>4
  <2>2. \A i, j \in at : f[i] = f[j] => i = j
    <3> SUFFICES ASSUME NEW i \in at, NEW j \in at, f[i] = f[j], i # j
                 PROVE  FALSE
      OBVIOUS
    <3>1. i < j \/ j < i
      OBVIOUS
    <3>2. Cardinality(B(i)) \in Nat /\ Cardinality(B(j)) \in Nat
      BY <1>2
    <3> HIDE DEF B
    <3>3. f[i] = Cardinality(B(i)) /\ f[j] = Cardinality(B(j))
      OBVIOUS
    <3> QED
      BY <3>1, <3>2, <3>3, <1>5
  <2> QED
    BY <2>1, <2>2 DEF Injection, IsInjective
<1>7. IsFiniteSet(0..c - 1) /\ Cardinality(0..c - 1) = c
  <2>1. 0 \in Int /\ c - 1 \in Int
    BY <1>1
  <2>2. /\ IsFiniteSet(0..c - 1)
        /\ Cardinality(0..c - 1) = IF 0 > c - 1 THEN 0 ELSE c - 1 - 0 + 1
    BY <2>1, FS_Interval
  <2> HIDE DEF c
  <2> QED
    BY <2>2, <1>1
<1>8. f \in Surjection(at, 0..c - 1)
  BY <1>6, <1>7, FS_Injection
<1>9. \A k \in 1..c : \E i \in at : Cardinality(B(i)) = k - 1
  <2> TAKE k \in 1..c
  <2>1. k - 1 \in 0..c - 1
    BY <1>1
  <2>2. \E i \in at : f[i] = k - 1
    BY <2>1, <1>8 DEF Surjection
  <2> QED
    BY <2>2
<1> QED
  BY <1>1, <1>4, <1>5, <1>9

\* The elements at these positions, in their order.
LEMMA PickedFacts ==
    ASSUME NEW S, NEW s \in Seq(S), NEW at \in SUBSET (1..Len(s))
    PROVE  LET t == Picked(s, at)
           IN  /\ t \in Seq(S)
               /\ \E f : Within(t, s, f) /\ \A i \in 1..Len(s) : i \in at <=> \E k \in 1..Len(t) : f[k] = i
<1> DEFINE c == Cardinality(at)
           B(i) == {j \in at : j < i}
           f == [k \in 1..c |-> CHOOSE i \in at : Cardinality(B(i)) = k - 1]
           t == Picked(s, at)
<1>1. Len(s) \in Nat /\ at \in SUBSET Nat /\ IsFiniteSet(at)
  <2>1. Len(s) \in Nat
    OBVIOUS
  <2>2. at \in SUBSET Nat /\ \A k \in at : k <= Len(s)
    BY <2>1
  <2> QED
    BY <2>1, <2>2, FS_BoundedSetOfNaturals
<1>2. /\ c \in Nat
      /\ \A i \in at : Cardinality(B(i)) \in 0..c - 1
      /\ \A i, j \in at : i < j => Cardinality(B(i)) < Cardinality(B(j))
      /\ \A k \in 1..c : \E i \in at : Cardinality(B(i)) = k - 1
  BY <1>1, Ranks
<1>3. t = [k \in 1..c |-> s[f[k]]]
  BY DEF Picked
<1> HIDE DEF B, c, t
<1>4. \A k \in 1..c : f[k] \in at /\ Cardinality(B(f[k])) = k - 1
  BY <1>2
<1> HIDE DEF f
<1>5. \A k, l \in 1..c : k < l => f[k] < f[l]
  <2> SUFFICES ASSUME NEW k \in 1..c, NEW l \in 1..c, k < l
               PROVE  f[k] < f[l]
    OBVIOUS
  <2>1. f[k] \in at /\ f[l] \in at /\ f[k] \in Nat /\ f[l] \in Nat
    BY <1>4, <1>1
  <2>2. Cardinality(B(f[k])) = k - 1 /\ Cardinality(B(f[l])) = l - 1
    BY <1>4
  <2>3. k \in Nat /\ l \in Nat
    BY <1>2
  <2>4. f[l] # f[k]
    BY <2>2, <2>3
  <2>5. ~(f[l] < f[k])
    <3> SUFFICES ASSUME f[l] < f[k]
                 PROVE  FALSE
      OBVIOUS
    <3>1. Cardinality(B(f[l])) < Cardinality(B(f[k]))
      BY <2>1, <1>2
    <3> QED
      BY <3>1, <2>2, <2>3
  <2> QED
    BY <2>1, <2>4, <2>5
<1>6. t \in Seq(S) /\ Len(t) = c
  <2>1. \A k \in 1..c : s[f[k]] \in S
    <3> TAKE k \in 1..c
    <3>1. f[k] \in 1..Len(s)
      BY <1>4
    <3> QED
      BY <3>1
  <2> QED
    BY <2>1, <1>2, <1>3
<1>7. Within(t, s, f)
  <2>1. f \in [1..c -> 1..Len(s)]
    <3>1. f = [k \in 1..c |-> f[k]]
      BY DEF f
    <3> QED
      BY <3>1, <1>4
  <2>2. \A k \in 1..c : t[k] = s[f[k]]
    BY <1>3
  <2> QED
    BY <2>1, <2>2, <1>5, <1>6 DEF Within
<1>8. \A i \in 1..Len(s) : i \in at <=> \E k \in 1..Len(t) : f[k] = i
  <2>1. \A i \in at : \E k \in 1..c : f[k] = i
    <3> TAKE i \in at
    <3>1. Cardinality(B(i)) \in 0..c - 1
      BY <1>2
    <3>2. \A n \in 0..c - 1 : \E k \in 1..c : k - 1 = n
      <4> TAKE n \in 0..c - 1
      <4>1. n + 1 \in 1..c /\ n + 1 - 1 = n
        BY <1>2
      <4> QED
        BY <4>1
    <3>3. PICK k \in 1..c : k - 1 = Cardinality(B(i))
      BY <3>1, <3>2, Zenon
    <3>4. f[k] \in at /\ Cardinality(B(f[k])) = Cardinality(B(i))
      BY <3>3, <1>4
    <3>5. \A n \in 0..c - 1 : ~(n < n)
      BY <1>2
    <3>a. \A u, v \in at : u < v => Cardinality(B(u)) < Cardinality(B(v))
      BY <1>2, Zenon
    <3>b. PICK j \in at : j = f[k]
      BY <3>4
    <3>c. Cardinality(B(j)) = Cardinality(B(i))
      BY <3>4, <3>b
    <3>d. j < i => Cardinality(B(j)) < Cardinality(B(i))
      BY <3>a, Zenon
    <3>e. i < j => Cardinality(B(i)) < Cardinality(B(j))
      BY <3>a, Zenon
    <3>6. ~(f[k] < i) /\ ~(i < f[k])
      <4>1. ~(Cardinality(B(i)) < Cardinality(B(i)))
        BY <3>1, <3>5, Zenon
      <4>2. ~(j < i) /\ ~(i < j)
        BY <4>1, <3>c, <3>d, <3>e, Zenon
      <4> QED
        BY <4>2, <3>b, Zenon
    <3>7. f[k] = i
      <4>1. \A u, v \in Nat : ~(u < v) /\ ~(v < u) => u = v
        OBVIOUS
      <4>2. i \in Nat /\ f[k] \in Nat
        BY <3>4, <1>1, Zenon
      <4> QED
        BY <3>6, <4>1, <4>2, Zenon
    <3> QED
      BY <3>7, <3>3
  <2> QED
    BY <2>1, <1>4, <1>6
<1> QED
  BY <1>6, <1>7, <1>8 DEF t

\* Sequences strung together: where each element comes from.
Strung(t, ss, blk, off) ==
    /\ blk \in [1..Len(t) -> 1..Len(ss)]
    /\ off \in [1..Len(t) -> Nat]
    /\ \A k \in 1..Len(t) : off[k] \in 1..Len(ss[blk[k]]) /\ t[k] = ss[blk[k]][off[k]]
    /\ \A k, l \in 1..Len(t) : k < l =>
          blk[k] < blk[l] \/ (blk[k] = blk[l] /\ off[k] < off[l])
    /\ \A b \in 1..Len(ss) : \A o \in 1..Len(ss[b]) :
          \E k \in 1..Len(t) : blk[k] = b /\ off[k] = o

\* Stringing one more sequence on.
LEMMA StringSeqs ==
    ASSUME NEW S, NEW ss \in Seq(Seq(S)),
           NEW n \in 0..Len(ss), NEW t \in Seq(S), NEW blk, NEW off,
           Strung(t, SubSeq(ss, 1, n), blk, off), n < Len(ss)
    PROVE  \E blk2, off2 : Strung(t \o ss[n + 1], SubSeq(ss, 1, n + 1), blk2, off2)
<1> DEFINE x == ss[n + 1]
           a == SubSeq(ss, 1, n)
           b == SubSeq(ss, 1, n + 1)
           u == t \o x
           blk2 == [k \in 1..Len(t) + Len(x) |-> IF k <= Len(t) THEN blk[k] ELSE n + 1]
           off2 == [k \in 1..Len(t) + Len(x) |-> IF k <= Len(t) THEN off[k] ELSE k - Len(t)]
<1>1. /\ Len(ss) \in Nat /\ n \in Nat /\ n + 1 \in 1..Len(ss)
      /\ x \in Seq(S) /\ Len(x) \in Nat /\ Len(t) \in Nat
  <2>1. Len(ss) \in Nat /\ n \in Nat /\ n + 1 \in 1..Len(ss) /\ Len(t) \in Nat
    OBVIOUS
  <2>2. x \in Seq(S)
    BY <2>1
  <2> QED
    BY <2>1, <2>2
<1>2. a \in Seq(Seq(S)) /\ Len(a) = n /\ \A i \in 1..n : a[i] = ss[i]
  <2>1. /\ a \in Seq(Seq(S)) /\ Len(a) = IF 1 <= n THEN n - 1 + 1 ELSE 0
        /\ \A i \in 1..Len(a) : a[i] = ss[1 + i - 1]
    BY <1>1, Part
  <2> HIDE DEF a
  <2> QED
    BY <2>1, <1>1
<1>3. b \in Seq(Seq(S)) /\ Len(b) = n + 1 /\ \A i \in 1..n + 1 : b[i] = ss[i]
  <2>0. 1 \in Nat \ {0} /\ n + 1 \in 0..Len(ss)
    BY <1>1
  <2>1. /\ b \in Seq(Seq(S)) /\ Len(b) = IF 1 <= n + 1 THEN n + 1 - 1 + 1 ELSE 0
        /\ \A i \in 1..Len(b) : b[i] = ss[1 + i - 1]
    BY <2>0, Part
  <2> HIDE DEF b
  <2> QED
    BY <2>1, <1>1
<1>4. /\ u \in Seq(S) /\ Len(u) = Len(t) + Len(x)
      /\ \A k \in 1..Len(t) : u[k] = t[k]
      /\ \A k \in 1..Len(x) : u[Len(t) + k] = x[k]
  <2>1. u \in Seq(S) /\ Len(u) = Len(t) + Len(x)
    BY <1>1
  <2>2. \A k \in 1..Len(t) : u[k] = t[k]
    BY <1>1, Joined, Zenon
  <2>a. /\ \A k \in 1..Len(t) : (t \o x)[k] = t[k]
        /\ \A k \in 1..Len(x) : (t \o x)[Len(t) + k] = x[k]
    <3>1. t \in Seq(S) /\ x \in Seq(S)
      BY <1>1
    <3> HIDE DEF x
    <3>2. \A k \in 1..Len(t) : (t \o x)[k] = t[k]
      BY <3>1, Joined, Zenon
    <3>3. \A k \in 1..Len(x) : (t \o x)[Len(t) + k] = x[k]
      BY <3>1, Joined, SMT
    <3> QED
      BY <3>2, <3>3
  <2>3. \A k \in 1..Len(x) : u[Len(t) + k] = x[k]
    BY <2>a
  <2> QED
    BY <2>1, <2>2, <2>3
<1>5. /\ blk \in [1..Len(t) -> 1..n] /\ off \in [1..Len(t) -> Nat]
      /\ \A k \in 1..Len(t) : off[k] \in 1..Len(ss[blk[k]]) /\ t[k] = ss[blk[k]][off[k]]
      /\ \A k, l \in 1..Len(t) : k < l =>
            blk[k] < blk[l] \/ (blk[k] = blk[l] /\ off[k] < off[l])
      /\ \A i \in 1..n : \A o \in 1..Len(ss[i]) : \E k \in 1..Len(t) : blk[k] = i /\ off[k] = o
  <2> HIDE DEF a
  <2>1. Strung(t, a, blk, off)
    BY DEF a
  <2>2. blk \in [1..Len(t) -> 1..n]
    BY <2>1, <1>2 DEF Strung
  <2>3. \A k \in 1..Len(t) : a[blk[k]] = ss[blk[k]]
    BY <2>2, <1>2
  <2>4. \A k \in 1..Len(t) : off[k] \in 1..Len(ss[blk[k]]) /\ t[k] = ss[blk[k]][off[k]]
    BY <2>1, <2>3 DEF Strung
  <2>5. \A i \in 1..n : \A o \in 1..Len(ss[i]) : \E k \in 1..Len(t) : blk[k] = i /\ off[k] = o
    <3> TAKE i \in 1..n
    <3>1. a[i] = ss[i] /\ i \in 1..Len(a)
      BY <1>2
    <3> QED
      BY <3>1, <2>1 DEF Strung
  <2> QED
    BY <2>1, <2>2, <2>4, <2>5 DEF Strung
<1>6. \A k \in 1..Len(t) : blk2[k] = blk[k] /\ off2[k] = off[k]
  BY <1>1
<1>7. \A k \in 1..Len(x) : /\ Len(t) + k \in 1..Len(t) + Len(x)
                           /\ blk2[Len(t) + k] = n + 1 /\ off2[Len(t) + k] = k
  BY <1>1
<1>8. \A k \in 1..Len(t) + Len(x) : k \in 1..Len(t) \/ \E j \in 1..Len(x) : k = Len(t) + j
  <2> TAKE k \in 1..Len(t) + Len(x)
  <2>1. CASE k <= Len(t)
    BY <2>1, <1>1
  <2>2. CASE k > Len(t)
    <3>1. k - Len(t) \in 1..Len(x) /\ k = Len(t) + (k - Len(t))
      BY <2>2, <1>1
    <3> QED
      BY <3>1
  <2> QED
    BY <2>1, <2>2, <1>1
<1>9. blk2 \in [1..Len(u) -> 1..Len(b)] /\ off2 \in [1..Len(u) -> Nat]
  <2>1. \A k \in 1..Len(t) + Len(x) :
            /\ (IF k <= Len(t) THEN blk[k] ELSE n + 1) \in 1..n + 1
            /\ (IF k <= Len(t) THEN off[k] ELSE k - Len(t)) \in Nat
    <3> TAKE k \in 1..Len(t) + Len(x)
    <3>1. CASE k <= Len(t)
      <4>1. k \in 1..Len(t)
        BY <3>1, <1>1
      <4>2. blk[k] \in 1..n /\ off[k] \in Nat
        BY <4>1, <1>5
      <4> QED
        BY <3>1, <4>2, <1>1
    <3>2. CASE ~(k <= Len(t))
      BY <3>2, <1>1
    <3> QED
      BY <3>1, <3>2
  <2> HIDE DEF x, u, a, b
  <2> QED
    BY <2>1, <1>3, <1>4
<1> HIDE DEF x, u, a, b, blk2, off2
<1>10. \A k \in 1..Len(u) : off2[k] \in 1..Len(b[blk2[k]]) /\ u[k] = b[blk2[k]][off2[k]]
  <2> TAKE k \in 1..Len(u)
  <2>1. CASE k \in 1..Len(t)
    <3>1. blk[k] \in 1..n
      BY <2>1, <1>5
    <3>2. b[blk[k]] = ss[blk[k]]
      <4>1. PICK i \in 1..n : i = blk[k]
        BY <3>1
      <4>2. b[i] = ss[i]
        BY <1>3
      <4> QED
        BY <4>1, <4>2
    <3>3. off[k] \in 1..Len(ss[blk[k]]) /\ t[k] = ss[blk[k]][off[k]]
      BY <2>1, <1>5
    <3>4. blk2[k] = blk[k] /\ off2[k] = off[k] /\ u[k] = t[k]
      BY <2>1, <1>4, <1>6
    <3> QED
      BY <3>2, <3>3, <3>4
  <2>2. ASSUME NEW j \in 1..Len(x), k = Len(t) + j
        PROVE  off2[k] \in 1..Len(b[blk2[k]]) /\ u[k] = b[blk2[k]][off2[k]]
    <3>1. b[n + 1] = x
      BY <1>1, <1>3 DEF x
    <3> QED
      BY <2>2, <3>1, <1>4, <1>7
  <2> QED
    BY <2>1, <2>2, <1>4, <1>8
<1>11. \A k, l \in 1..Len(u) : k < l =>
            blk2[k] < blk2[l] \/ (blk2[k] = blk2[l] /\ off2[k] < off2[l])
  <2> SUFFICES ASSUME NEW k \in 1..Len(u), NEW l \in 1..Len(u), k < l
               PROVE  blk2[k] < blk2[l] \/ (blk2[k] = blk2[l] /\ off2[k] < off2[l])
    OBVIOUS
  <2>1. CASE k \in 1..Len(t) /\ l \in 1..Len(t)
    BY <2>1, <1>5, <1>6
  <2>2. ASSUME NEW j \in 1..Len(x), l = Len(t) + j, k \in 1..Len(t)
        PROVE  blk2[k] < blk2[l]
    <3>1. blk2[k] = blk[k] /\ blk[k] \in 1..n
      BY <2>2, <1>5, <1>6
    <3>2. blk2[l] = n + 1
      BY <2>2, <1>7
    <3> QED
      BY <3>1, <3>2, <1>1
  <2>3. ASSUME NEW j \in 1..Len(x), l = Len(t) + j, NEW i \in 1..Len(x), k = Len(t) + i
        PROVE  blk2[k] = blk2[l] /\ off2[k] < off2[l]
    <3>1. blk2[k] = n + 1 /\ off2[k] = i
      BY <2>3, <1>7
    <3>2. blk2[l] = n + 1 /\ off2[l] = j
      BY <2>3, <1>7
    <3> QED
      BY <2>3, <3>1, <3>2, <1>1
  <2>4. ASSUME l \in 1..Len(t), NEW i \in 1..Len(x), k = Len(t) + i
        PROVE  FALSE
    BY <2>4, <1>1
  <2> QED
    BY <2>1, <2>2, <2>3, <2>4, <1>4, <1>8
<1>12. \A i \in 1..Len(b) : \A o \in 1..Len(b[i]) :
          \E k \in 1..Len(u) : blk2[k] = i /\ off2[k] = o
  <2> TAKE i \in 1..Len(b)
  <2> TAKE o \in 1..Len(b[i])
  <2>1. CASE i \in 1..n
    <3>1. b[i] = ss[i]
      BY <1>3
    <3>2. PICK k \in 1..Len(t) : blk[k] = i /\ off[k] = o
      BY <2>1, <3>1, <1>5
    <3>3. k \in 1..Len(u)
      BY <1>1, <1>4
    <3> QED
      BY <3>2, <3>3, <1>6
  <2>2. CASE i = n + 1
    <3>1. b[i] = x
      BY <2>2, <1>1, <1>3 DEF x
    <3>2. o \in 1..Len(x)
      BY <3>1
    <3> QED
      BY <2>2, <3>2, <1>4, <1>7
  <2> QED
    BY <2>1, <2>2, <1>1, <1>3
<1>13. Strung(u, b, blk2, off2)
  BY <1>9, <1>10, <1>11, <1>12 DEF Strung
<1> QED
  BY <1>13 DEF u, x, b

\* FlattenSeq strings its sequences together.
LEMMA FlattenFacts ==
    ASSUME NEW S, NEW ss \in Seq(Seq(S))
    PROVE  /\ FlattenSeq(ss) \in Seq(S)
           /\ \E blk, off : Strung(FlattenSeq(ss), ss, blk, off)
<1> DEFINE N == Len(ss)
           Fits(f, n) == \A i \in 1..n : f[i] = IF i = 1 THEN ss[i] ELSE f[i - 1] \o ss[i]
           Sound(f, n) == \A i \in 1..n :
              f[i] \in Seq(S) /\ \E blk, off : Strung(f[i], SubSeq(ss, 1, i), blk, off)
           Has(n) == \E f : f = [i \in 1..n |-> f[i]] /\ Fits(f, n)
<1>1. N \in Nat
  OBVIOUS
<1>2. CASE N = 0
  <2>1. FlattenSeq(ss) = ss /\ ss = <<>>
    BY <1>2 DEF FlattenSeq
  <2>2. Strung(<<>>, <<>>, <<>>, <<>>)
    BY DEF Strung
  <2> QED
    BY <2>1, <2>2
<1>3. CASE N # 0
  <2> DEFINE H == {n \in Nat : Has(n)}
  <2>1. 0 \in H
    <3> DEFINE f == [i \in 1..0 |-> 0]
    <3>1. f = [i \in 1..0 |-> f[i]] /\ Fits(f, 0)
      OBVIOUS
    <3> QED
      BY <3>1
  <2>2. \A n \in Nat : n \in H => n + 1 \in H
    <3> SUFFICES ASSUME NEW n \in Nat, Has(n)
                 PROVE  Has(n + 1)
      <4> HIDE DEF Has
      <4> QED
        OBVIOUS
    <3>1. PICK f : f = [i \in 1..n |-> f[i]] /\ Fits(f, n)
      OBVIOUS
    <3> DEFINE x == IF n + 1 = 1 THEN ss[1] ELSE f[n] \o ss[n + 1]
               g == [i \in 1..n + 1 |-> IF i <= n THEN f[i] ELSE x]
    <3> HIDE DEF x
    <3>2. \A i \in 1..n : g[i] = f[i]
      OBVIOUS
    <3>3. g[n + 1] = x
      OBVIOUS
    <3>4. g = [i \in 1..n + 1 |-> g[i]]
      OBVIOUS
    <3> HIDE DEF g
    <3>5. \A i \in 1..n + 1 : g[i] = IF i = 1 THEN ss[i] ELSE g[i - 1] \o ss[i]
      <4> TAKE i \in 1..n + 1
      <4>1. CASE i \in 1..n
        <5>1. i # 1 => i - 1 \in 1..n
          BY <4>1
        <5>2. i # 1 => g[i - 1] = f[i - 1]
          BY <5>1, <3>2
        <5>3. g[i] = f[i]
          BY <4>1, <3>2
        <5>4. f[i] = IF i = 1 THEN ss[i] ELSE f[i - 1] \o ss[i]
          BY <4>1, <3>1
        <5> QED
          BY <5>2, <5>3, <5>4
      <4>2. CASE i = n + 1
        <5>1. i # 1 => n \in 1..n /\ i - 1 = n
          BY <4>2
        <5>2. i # 1 => g[i - 1] = f[n]
          BY <5>1, <3>2
        <5> QED
          BY <4>2, <5>2, <3>3 DEF x
      <4> QED
        BY <4>1, <4>2
    <3> QED
      BY <3>4, <3>5
  <2>3. Has(N)
    <3> HIDE DEF Has, N
    <3>1. Nat \subseteq H
      BY <2>1, <2>2, Induction
    <3> QED
      BY <3>1, <1>1
  <2> DEFINE fl == CHOOSE f : f = [i \in 1..N |-> IF i = 1 THEN ss[i] ELSE f[i - 1] \o ss[i]]
  <2>4. fl = [i \in 1..N |-> IF i = 1 THEN ss[i] ELSE fl[i - 1] \o ss[i]]
    <3>1. PICK f : f = [i \in 1..N |-> f[i]] /\ Fits(f, N)
      BY <2>3
    <3>2. f = [i \in 1..N |-> IF i = 1 THEN ss[i] ELSE f[i - 1] \o ss[i]]
      BY <3>1
    <3> QED
      BY <3>2, Zenon
  <2>5. FlattenSeq(ss) = fl[N]
    BY <1>3 DEF FlattenSeq
  <2> HIDE DEF fl
  <2>6. Fits(fl, N)
    BY <2>4
  <2> DEFINE Q(n) == fl[n] \in Seq(S) /\ \E blk, off : Strung(fl[n], SubSeq(ss, 1, n), blk, off)
             G == {n \in Nat : n \in 1..N => Q(n)}
  <2>7. 0 \in G
    OBVIOUS
  <2>8. \A n \in Nat : n \in G => n + 1 \in G
    <3> SUFFICES ASSUME NEW n \in Nat, n \in G, n + 1 \in 1..N
                 PROVE  Q(n + 1)
      <4> HIDE DEF Q, N
      <4> QED
        OBVIOUS
    <3>1. n \in 0..N /\ n < N /\ ss[n + 1] \in Seq(S)
      BY <1>1
    <3>2. CASE n = 0
      <4>1. fl[1] = ss[1] /\ n + 1 = 1
        BY <3>2, <2>6, <1>1, <1>3
      <4>2. ss[1] \in Seq(S)
        BY <3>1, <4>1
      <4> DEFINE e == <<>>
      <4>3. e \in Seq(S) /\ SubSeq(ss, 1, 0) = <<>> /\ Strung(e, <<>>, <<>>, <<>>)
        BY DEF Strung
      <4>4. Strung(e, SubSeq(ss, 1, 0), <<>>, <<>>)
        BY <4>3
      <4>5. \E blk, off : Strung(e \o ss[1], SubSeq(ss, 1, 1), blk, off)
        <5>1. 0 \in 0..Len(ss) /\ 0 < Len(ss) /\ 0 + 1 = 1
          BY <3>1, <3>2
        <5> HIDE DEF e
        <5>2. \E blk, off : Strung(e \o ss[0 + 1], SubSeq(ss, 1, 0 + 1), blk, off)
          BY <5>1, <4>3, <4>4, StringSeqs, Zenon
        <5> QED
          BY <5>1, <5>2
      <4>6. e \o ss[1] = ss[1]
        BY <4>2, ConcatEmptySeq
      <4> QED
        BY <4>1, <4>2, <4>5, <4>6
    <3>3. CASE n # 0
      <4>1. n \in 1..N /\ n + 1 # 1 /\ n + 1 - 1 = n
        BY <3>1, <3>3
      <4>2. fl[n + 1] = fl[n] \o ss[n + 1]
        <5>1. \A i \in 1..N : i # 1 => fl[i] = fl[i - 1] \o ss[i]
          BY <2>6, Zenon
        <5>2. PICK i \in 1..N : i = n + 1
          BY <3>1
        <5>a. i # 1 /\ i - 1 = n
          BY <5>2, <4>1
        <5>3. fl[i] = fl[i - 1] \o ss[i] /\ i - 1 = n
          BY <5>1, <5>a, Zenon
        <5> QED
          BY <5>2, <5>3
      <4>3. fl[n] \in Seq(S)
        BY <4>1
      <4>4. PICK blk, off : Strung(fl[n], SubSeq(ss, 1, n), blk, off)
        BY <4>1
      <4>5. \E blk2, off2 : Strung(fl[n] \o ss[n + 1], SubSeq(ss, 1, n + 1), blk2, off2)
        BY <4>3, <4>4, <3>1, StringSeqs, Zenon
      <4>6. fl[n + 1] \in Seq(S)
        BY <4>2, <4>3, <3>1
      <4> QED
        BY <4>2, <4>5, <4>6
    <3> QED
      BY <3>2, <3>3
  <2>9. N \in G
    <3> HIDE DEF G, N
    <3>1. Nat \subseteq G
      BY <2>7, <2>8, Induction
    <3> QED
      BY <3>1, <1>1
  <2>10. fl[N] \in Seq(S) /\ \E blk, off : Strung(fl[N], SubSeq(ss, 1, N), blk, off)
    BY <2>9, <1>1, <1>3
  <2>11. SubSeq(ss, 1, N) = ss
    BY SubSeqFull
  <2> QED
    BY <2>5, <2>10, <2>11
<1> QED
  BY <1>2, <1>3
-----------------------------------------------------------------------------
(* What each variable may hold.                                            *)

Items == [msg : Msgs, inter : BOOLEAN]

Turns == [row : Rows, held : BOOLEAN, own : BOOLEAN, item : BOOLEAN, inter : BOOLEAN]

RunnerEvents == [kind : {"turn_end", "tell_user"}, row : Rows]
                \cup [kind : {"run_complete", "closed"}]

Reported == RunnerEvents \cup [kind : {"interject_delivered"}, msg : Msgs]

Dispatches == {"pending", "dispatched", "interjected", "persisted_only"}

UserEvents  == [kind : {"user"}, msg : Msgs, item : BOOLEAN, dispatch : Dispatches]
Lists       == [kind : {"queue"}, items : Seq(Items)]
Snapshots   == [kind : {"snapshot"}, failed : {FALSE}, items : Seq(Items)]
Deletions   == [kind : {"deleted"}, rows : SUBSET Rows]
SendAnswers == [kind : {"sent"}, msg : Own,
                outcome : {"dispatched", "failed", "queued", "interjected"}]
TurnAnswers == [kind : {"page", "earlier"}, failed : {FALSE}, asked : Nat,
                rows : Seq(Turns), earlier : Nat]
Failures    == [kind : {"page", "earlier", "snapshot"}, failed : {TRUE}]
StopAnswers == [kind : {"stopped"}, dispatch : {"abort_sent", "already_stopped", "failed"}]
LiveAnswers == [kind : {"live"}, runOpen : BOOLEAN]

Events == RunnerEvents \cup UserEvents \cup Lists \cup Snapshots \cup Deletions
          \cup SendAnswers \cup TurnAnswers \cup Failures \cup StopAnswers \cup LiveAnswers

Pages == [turns : Seq(Turns), read : BOOLEAN, earlier : Nat, running : BOOLEAN,
          phase : Phases, stopping : BOOLEAN, owner : Own \cup {NoMsg},
          bar : Seq(Items), known : BOOLEAN, opened : BOOLEAN, sends : SUBSET Own,
          listening : BOOLEAN]

Calls == {"stop", "page", "queue", "earlier", "live"}

CoreShape ==
    /\ rows \in Seq(Rows) /\ gone \subseteq Rows /\ midway \subseteq Msgs
    /\ gate \in BOOLEAN /\ halting \in BOOLEAN
    /\ run \in [of : Msgs \cup {NoMsg}, step : 0..Steps, told : BOOLEAN]
    /\ queue \in Seq(Items) /\ lost \subseteq Msgs
    /\ pc \in [Msgs -> {"new", "sent", "saved", "pending", "written", "drained",
                       "taken", "over"}]

ChannelShape ==
    /\ emits \in Seq(Reported) /\ acts \in Seq(Reported) /\ wire \in Seq(Events)
    /\ calls \subseteq Calls

PageShape ==
    /\ page \in Pages /\ found \in BOOLEAN
    /\ attach \in {"none", "asked", "reading", "listening"}

\* Where a page of the conversation starts is a place in it.
StartsWithin ==
    /\ page.earlier <= Len(rows)
    /\ \A i \in 1..Len(wire) : wire[i] \in TurnAnswers => wire[i].earlier <= Len(rows)

Shape == CoreShape /\ ChannelShape /\ PageShape /\ StartsWithin

\* A row says whose it is and what.
LEMMA RowFacts ==
    ASSUME NEW r \in Rows
    PROVE  /\ r[1] \in Msgs
           /\ r[3] \in {"said", "step", "told"}
           /\ r[3] = "said" => r = Said(r[1])
           /\ r[3] # "said" => r[2] \in 1..Steps
           /\ r[3] = "step" => r = Step(r[1], r[2])
           /\ r[3] = "told" => r = Told(r[1], r[2])
BY DEF Rows, Said, Step, Told

\* A message's own row.
LEMMA SaidFacts ==
    ASSUME NEW m \in Msgs
    PROVE  Said(m) \in Rows /\ Said(m)[1] = m /\ Said(m)[3] = "said"
BY DEF Rows, Said

\* The rows of a run.
LEMMA StepFacts ==
    ASSUME NEW m \in Msgs, NEW k \in 1..Steps
    PROVE  /\ Step(m, k) \in Rows /\ Step(m, k)[1] = m /\ Step(m, k)[2] = k
           /\ Step(m, k)[3] = "step"
           /\ Told(m, k) \in Rows /\ Told(m, k)[1] = m /\ Told(m, k)[2] = k
           /\ Told(m, k)[3] = "told"
BY DEF Rows, Step, Told

\* A turn drawn for a row.
LEMMA TurnFacts ==
    ASSUME NEW r \in Rows
    PROVE  /\ Turn(r) \in Turns /\ Turn(r).row = r /\ Turn(r).held
           /\ ~Turn(r).own /\ ~Turn(r).item
           /\ Restored(r) \in Turns /\ Restored(r).row = r /\ Restored(r).held
           /\ ~Restored(r).own /\ ~Restored(r).item
BY DEF Turn, Restored, Turns

\* What an event carries, by its kind.
LEMMA EventFacts ==
    ASSUME NEW e \in Events
    PROVE  /\ e.kind \in {"turn_end", "tell_user"} =>
                 e \in [kind : {"turn_end", "tell_user"}, row : Rows]
           /\ e.kind = "user" => e \in UserEvents
           /\ e.kind = "queue" => e \in Lists
           /\ e.kind = "snapshot" => e \in Snapshots \/ e \in Failures
           /\ e.kind = "deleted" => e \in Deletions
           /\ e.kind = "sent" => e \in SendAnswers
           /\ e.kind \in {"page", "earlier"} => e \in TurnAnswers \/ e \in Failures
           /\ e.kind = "stopped" => e \in StopAnswers
           /\ e.kind = "live" => e \in LiveAnswers
           /\ e.kind \in {"turn_end", "tell_user", "run_complete", "closed", "user", "queue",
                          "deleted", "sent", "page", "earlier", "snapshot", "stopped", "live"}
           /\ e.kind \in {"page", "earlier", "snapshot"} =>
                 /\ e.failed \in BOOLEAN
                 /\ e.failed <=> e \in Failures
           /\ e.kind \in {"page", "earlier"} /\ ~e.failed => e \in TurnAnswers
           /\ e.kind = "snapshot" /\ ~e.failed => e \in Snapshots
BY DEF Events, RunnerEvents, UserEvents, Lists, Snapshots, Deletions, SendAnswers,
       TurnAnswers, Failures, StopAnswers, LiveAnswers

\* What a runner reports.
LEMMA ReportFacts ==
    ASSUME NEW e \in Reported
    PROVE  /\ e.kind \in {"turn_end", "tell_user", "run_complete", "closed", "interject_delivered"}
           /\ e.kind \in {"turn_end", "tell_user"} => e.row \in Rows
           /\ e.kind = "interject_delivered" => e.msg \in Msgs
           /\ e.kind # "interject_delivered" => e \in RunnerEvents
BY DEF Reported, RunnerEvents
-----------------------------------------------------------------------------
(* The updates of the page: what each makes of the turns, and what it      *)
(* leaves.                                                                 *)

\* All but the turns and the run's status stays.
Stays(p, q) ==
    /\ q.read = p.read /\ q.earlier = p.earlier /\ q.sends = p.sends
    /\ q.listening = p.listening /\ q.opened = p.opened

\* A page that has just loaded.
LEMMA FreshPageFacts ==
    /\ FreshPage \in Pages /\ FreshPage.turns = <<>> /\ FreshPage.earlier = 0
    /\ ~FreshPage.read /\ FreshPage.sends = {}
    /\ [FreshPage EXCEPT !.listening = FALSE] \in Pages
<1>1. <<>> \in Seq(Turns) /\ <<>> \in Seq(Items)
  OBVIOUS
<1>2. FreshPage \in Pages
  BY <1>1 DEF FreshPage, Pages, Phases
<1>3. /\ FreshPage.turns = <<>> /\ FreshPage.earlier = 0
      /\ ~FreshPage.read /\ FreshPage.sends = {}
  BY DEF FreshPage
<1> QED
  BY <1>2, <1>3 DEF Pages

\* The same page with other turns.
LEMMA TurnsPut ==
    ASSUME NEW p \in Pages, NEW turns \in Seq(Turns)
    PROVE  /\ [p EXCEPT !.turns = turns] \in Pages
           /\ [p EXCEPT !.turns = turns].turns = turns
           /\ Stays(p, [p EXCEPT !.turns = turns])
BY DEF Pages, Stays

\* Asleep leaves the turns alone.
LEMMA AsleepFacts ==
    ASSUME NEW p \in Pages
    PROVE  Asleep(p) \in Pages /\ Stays(p, Asleep(p)) /\ Asleep(p).turns = p.turns
BY DEF Asleep, Pages, Phases, Stays

\* So does setAgentRunning.
LEMMA SetRunningFacts ==
    ASSUME NEW p \in Pages, NEW b \in BOOLEAN
    PROVE  SetRunning(p, b) \in Pages /\ Stays(p, SetRunning(p, b)) /\ SetRunning(p, b).turns = p.turns
BY DEF SetRunning, Pages, Phases, Stays

\* So does settleStoppedRun, and the answer to a stop.
LEMMA SettleStoppedFacts ==
    ASSUME NEW p \in Pages
    PROVE  /\ SettleStopped(p) \in Pages /\ Stays(p, SettleStopped(p))
           /\ SettleStopped(p).turns = p.turns
<1> DEFINE q == [p EXCEPT !.stopping = FALSE]
<1>1. q \in Pages /\ Stays(p, q) /\ q.turns = p.turns
  BY DEF Pages, Stays
<1> HIDE DEF q
<1>2. SetRunning(q, FALSE) \in Pages /\ Stays(q, SetRunning(q, FALSE)) /\ SetRunning(q, FALSE).turns = q.turns
  BY <1>1, SetRunningFacts
<1> QED
  BY <1>1, <1>2 DEF SettleStopped, Stays, q

LEMMA HearStopFacts ==
    ASSUME NEW p \in Pages, NEW d
    PROVE  /\ HearStop(p, d) \in Pages /\ Stays(p, HearStop(p, d))
           /\ HearStop(p, d).turns = p.turns
<1>1. CASE d = "already_stopped"
  BY <1>1, SettleStoppedFacts DEF HearStop
<1>2. CASE d = "failed"
  <2>1. HearStop(p, d) = [p EXCEPT !.stopping = FALSE]
    BY <1>2 DEF HearStop
  <2> QED
    BY <2>1 DEF Pages, Stays
<1>3. CASE d \notin {"already_stopped", "failed"}
  <2>1. HearStop(p, d) = p
    BY <1>3 DEF HearStop
  <2> QED
    BY <2>1 DEF Stays
<1> QED
  BY <1>1, <1>2, <1>3

\* So does withDispatch.
LEMMA WithDispatchFacts ==
    ASSUME NEW p \in Pages, NEW d \in Dispatches
    PROVE  /\ WithDispatch(p, d) \in Pages /\ Stays(p, WithDispatch(p, d))
           /\ WithDispatch(p, d).turns = p.turns
BY AsleepFacts DEF WithDispatch, Pages, Phases, Dispatches, Stays, PreDispatch

\* So does runOpenedBy.
LEMMA OpenedByFacts ==
    ASSUME NEW p \in Pages, NEW d \in Dispatches
    PROVE  /\ OpenedBy(p, d) \in Pages /\ Stays(p, OpenedBy(p, d))
           /\ OpenedBy(p, d).turns = p.turns
BY DEF OpenedBy, Pages, Phases, Dispatches, Stays

\* The turn of an echo.
EchoTurn(m) == [row |-> Said(m), held |-> FALSE, own |-> TRUE, item |-> FALSE, inter |-> FALSE]

\* appendUserTurn adds the echo at the end.
LEMMA EchoFacts ==
    ASSUME NEW p \in Pages, NEW m \in Own
    PROVE  /\ Echo(p, m) \in Pages /\ Stays(p, Echo(p, m))
           /\ Echo(p, m).turns = Append(p.turns, EchoTurn(m)) /\ EchoTurn(m) \in Turns
<1>1. EchoTurn(m) \in Turns
  BY SaidFacts, TranscriptAssumption DEF EchoTurn, Turns
<1>2. p.turns \in Seq(Turns)
  BY DEF Pages
<1>3. Append(p.turns, EchoTurn(m)) \in Seq(Turns)
  BY <1>1, <1>2
<1>4. Echo(p, m) = [p EXCEPT !.turns = Append(p.turns, EchoTurn(m)),
              !.running = TRUE, !.phase = "saving", !.stopping = FALSE, !.owner = m]
  BY DEF Echo, EchoTurn, Pages
<1> DEFINE turns == Append(p.turns, EchoTurn(m))
<1> HIDE DEF turns
<1>5. turns \in Seq(Turns)
  BY <1>3 DEF turns
<1>6. Echo(p, m) = [p EXCEPT !.turns = turns,
              !.running = TRUE, !.phase = "saving", !.stopping = FALSE, !.owner = m]
  BY <1>4 DEF turns
<1> DEFINE q == [p EXCEPT !.turns = turns]
<1>a. q \in Pages /\ Stays(p, q) /\ q.turns = turns
  BY <1>5, TurnsPut
<1>b. Echo(p, m) = [q EXCEPT !.running = TRUE, !.phase = "saving", !.stopping = FALSE,
                             !.owner = m]
  BY <1>6 DEF Pages
<1> HIDE DEF q
<1>7. Echo(p, m) \in Pages /\ Stays(p, Echo(p, m)) /\ Echo(p, m).turns = turns
  <2> DEFINE r == [q EXCEPT !.running = TRUE, !.phase = "saving", !.stopping = FALSE, !.owner = m]
  <2>1. r \in Pages
    BY <1>a DEF Pages, Phases
  <2>2. Stays(q, r) /\ r.turns = q.turns
    BY <1>a DEF Pages, Stays
  <2> HIDE DEF r
  <2>3. Echo(p, m) = r
    BY <1>b DEF r
  <2> QED
    BY <2>1, <2>2, <2>3, <1>a DEF Stays
<1> QED
  BY <1>1, <1>7 DEF turns

\* retractUserTurn takes out one echo of the message, if there is one.
LEMMA RetractFacts ==
    ASSUME NEW p \in Pages, NEW m \in Own
    PROVE  LET echoes == {i \in 1..Len(p.turns) :
                             p.turns[i].row = Said(m) /\ p.turns[i].own /\ ~p.turns[i].held}
               q == Retract(p, m)
           IN  /\ q \in Pages /\ Stays(p, q)
               /\ echoes = {} => q.turns = p.turns
               /\ echoes # {} => \E i \in echoes : q.turns = RemoveAt(p.turns, i)
<1> DEFINE echoes == {i \in 1..Len(p.turns) :
                         p.turns[i].row = Said(m) /\ p.turns[i].own /\ ~p.turns[i].held}
           q == Retract(p, m)
           c == CHOOSE i \in echoes : TRUE
           turns == RemoveAt(p.turns, c)
           without == [p EXCEPT !.turns = turns]
<1>1. p.turns \in Seq(Turns)
  BY DEF Pages
<1>2. CASE echoes = {}
  <2>1. q = p
    BY <1>2 DEF Retract
  <2> QED
    BY <2>1, <1>2 DEF Stays
<1>3. CASE echoes # {}
  <2>1. c \in echoes
    BY <1>3
  <2>2. turns \in Seq(Turns)
    BY <1>1, <2>1, RemoveAtFacts
  <2>3. q = IF p.owner = m THEN [Asleep(without) EXCEPT !.owner = NoMsg] ELSE without
    BY <1>3 DEF Retract
  <2> HIDE DEF turns
  <2>4. without \in Pages /\ Stays(p, without) /\ without.turns = turns
    BY <2>2, TurnsPut
  <2> HIDE DEF without
  <2>5. Asleep(without) \in Pages /\ Stays(without, Asleep(without)) /\ Asleep(without).turns = without.turns
    BY <2>4, AsleepFacts
  <2>6. LET r == [Asleep(without) EXCEPT !.owner = NoMsg]
        IN r \in Pages /\ Stays(Asleep(without), r) /\ r.turns = Asleep(without).turns
    BY <2>5 DEF Pages, Stays
  <2>7. q \in Pages /\ Stays(p, q) /\ q.turns = turns
    BY <2>3, <2>4, <2>5, <2>6 DEF Stays
  <2> QED
    BY <1>3, <2>1, <2>7 DEF turns
<1> QED
  BY <1>2, <1>3

\* Where a turn lands: above the interjections that wait.
LEMMA AboveFacts ==
    ASSUME NEW turns \in Seq(Turns)
    PROVE  /\ AboveWaiting(turns) \in 0..Len(turns)
           /\ AboveWaiting(turns) > 0 => ~Pending(turns[AboveWaiting(turns)])
           /\ \A i \in AboveWaiting(turns) + 1..Len(turns) : Pending(turns[i])
<1> DEFINE at == {i \in DOMAIN turns : Pending(turns[i])}
<1>1. DOMAIN turns = 1..Len(turns) /\ Len(turns) \in Nat
  OBVIOUS
<1>2. at \in SUBSET (1..Len(turns))
  BY <1>1
<1>3. AboveWaiting(turns) = Before(turns, at)
  BY DEF AboveWaiting
<1>4. /\ Before(turns, at) \in 0..Len(turns) /\ Before(turns, at) \notin at
      /\ \A i \in Before(turns, at) + 1..Len(turns) : i \in at
  <2> HIDE DEF at
  <2> QED
    BY <1>2, BeforeFacts
<1> QED
  BY <1>1, <1>3, <1>4

\* withLandedTurn puts the turn in above the interjections that wait.
LEMMA LandedFacts ==
    ASSUME NEW turns \in Seq(Turns), NEW t \in Turns
    PROVE  /\ Landed(turns, t) \in Seq(Turns)
           /\ Inserted(turns, AboveWaiting(turns), Landed(turns, t), t)
<1> HIDE DEF AboveWaiting, PutAfter
<1>1. AboveWaiting(turns) \in 0..Len(turns)
  BY AboveFacts
<1> DEFINE n == AboveWaiting(turns)
<1>2. n \in 0..Len(turns) /\ Landed(turns, t) = PutAfter(turns, n, t)
  BY <1>1 DEF Landed
<1> HIDE DEF n
<1>3. PutAfter(turns, n, t) \in Seq(Turns) /\ Inserted(turns, n, PutAfter(turns, n, t), t)
  BY <1>2, PutAfterFacts
<1> QED
  BY <1>2, <1>3 DEF n

\* A step lands there, or higher: above the lines told by a step of its number.
LEMMA LandedStepFacts ==
    ASSUME NEW turns \in Seq(Turns), NEW t \in Turns
    PROVE  /\ LandedStep(turns, t) \in Seq(Turns)
           /\ \E n \in 0..AboveWaiting(turns) :
                 /\ Inserted(turns, n, LandedStep(turns, t), t)
                 /\ \A i \in n + 1..AboveWaiting(turns) :
                       turns[i].row[3] = "told" /\ turns[i].row[2] = t.row[2]
<1> DEFINE a == AboveWaiting(turns)
           upTo == SubSeq(turns, 1, a)
           Line(u) == u.row[3] = "told" /\ u.row[2] = t.row[2]
           at == {i \in DOMAIN upTo : Line(upTo[i])}
           n == Before(upTo, at)
<1>1. a \in 0..Len(turns) /\ Len(turns) \in Nat
  BY AboveFacts
<1> HIDE DEF a
<1>2. upTo \in Seq(Turns) /\ Len(upTo) = a /\ \A i \in 1..a : upTo[i] = turns[i]
  <2>1. /\ upTo \in Seq(Turns) /\ Len(upTo) = IF 1 <= a THEN a - 1 + 1 ELSE 0
        /\ \A i \in 1..Len(upTo) : upTo[i] = turns[1 + i - 1]
    BY <1>1, Part
  <2> HIDE DEF upTo
  <2> QED
    BY <2>1, <1>1
<1>3. LandedStep(turns, t) = PutAfter(turns, n, t)
  BY DEF LandedStep, a
<1> HIDE DEF upTo, Line
<1>4. at \in SUBSET (1..Len(upTo)) /\ DOMAIN upTo = 1..Len(upTo)
  BY <1>2
<1>5. n \in 0..Len(upTo) /\ \A i \in n + 1..Len(upTo) : i \in at
  <2> HIDE DEF at
  <2> QED
    BY <1>2, <1>4, BeforeFacts
<1> HIDE DEF n
<1>6. n \in 0..a /\ n \in 0..Len(turns)
  BY <1>1, <1>2, <1>5
<1>7. \A i \in n + 1..a : Line(turns[i])
  <2> TAKE i \in n + 1..a
  <2>1. i \in at /\ i \in 1..a
    BY <1>2, <1>5, <1>6, <1>1
  <2> QED
    BY <2>1, <1>2
<1>8. PutAfter(turns, n, t) \in Seq(Turns) /\ Inserted(turns, n, PutAfter(turns, n, t), t)
  BY <1>6, PutAfterFacts
<1> QED
  BY <1>3, <1>6, <1>7, <1>8 DEF Line, a

\* Turn i gets its row's id; all else drawn stays.
Claimed(s, i, t) ==
    /\ Len(t) = Len(s)
    /\ \A k \in 1..Len(s) : k # i => t[k] = s[k]
    /\ t[i].row = s[i].row /\ t[i].held /\ t[i].own = s[i].own /\ t[i].item = s[i].item

\* A turn that is claimed keeps its place and its row.
LEMMA ClaimFacts ==
    ASSUME NEW p \in Pages, NEW i \in 1..Len(p.turns), NEW inter \in BOOLEAN
    PROVE  LET q == [p EXCEPT !.turns[i].held = TRUE, !.turns[i].inter = inter]
           IN  q \in Pages /\ Stays(p, q) /\ Claimed(p.turns, i, q.turns)
<1> DEFINE s == p.turns
           x == [s[i] EXCEPT !.held = TRUE, !.inter = inter]
           turns == [s EXCEPT ![i] = x]
           q == [p EXCEPT !.turns[i].held = TRUE, !.turns[i].inter = inter]
<1>1. s \in Seq(Turns) /\ Len(s) \in Nat /\ DOMAIN s = 1..Len(s)
  BY DEF Pages
<1>2. s[i] \in Turns
  BY <1>1
<1>3. x \in Turns /\ x.row = s[i].row /\ x.held /\ x.own = s[i].own /\ x.item = s[i].item
  BY <1>2 DEF Turns
<1>4. q = [p EXCEPT !.turns = turns]
  BY <1>1, <1>2 DEF Pages, Turns
<1> HIDE DEF x, s
<1>5. /\ turns \in Seq(Turns) /\ Len(turns) = Len(s)
      /\ \A k \in 1..Len(s) : turns[k] = IF k = i THEN x ELSE s[k]
  BY <1>1, <1>3, ExceptSeq DEF s
<1> HIDE DEF turns
<1>6. [p EXCEPT !.turns = turns] \in Pages /\ [p EXCEPT !.turns = turns].turns = turns
      /\ Stays(p, [p EXCEPT !.turns = turns])
  BY <1>5, TurnsPut
<1>7. Claimed(s, i, turns)
  BY <1>3, <1>5 DEF Claimed, s
<1> QED
  BY <1>4, <1>6, <1>7 DEF s

\* What a row's event finds drawn.
DrawnOf(turns, m) == {i \in 1..Len(turns) : turns[i].row = Said(m)}
ShownOf(turns, m) == {i \in DrawnOf(turns, m) : turns[i].held}

\* A row's event draws the row, or claims what is drawn for it.
PersistedMakes(old, e, turns) ==
    LET shown  == ShownOf(old, e.msg)
        queued == {i \in DrawnOf(old, e.msg) : e.item /\ Pending(old[i])}
        mine   == {i \in DrawnOf(old, e.msg) : old[i].own /\ ~old[i].held}
    IN  /\ shown # {} => turns = old
        /\ shown = {} /\ queued # {} => \E i \in queued : Claimed(old, i, turns)
        /\ shown = {} /\ queued = {} /\ mine # {} => \E i \in mine : Claimed(old, i, turns)
        /\ shown = {} /\ queued = {} /\ mine = {} =>
              \E t \in Turns :
                 /\ t.row = Said(e.msg) /\ t.held /\ ~t.own /\ ~t.item
                 /\ Inserted(old, IF e.dispatch = "interjected" THEN AboveWaiting(old)
                                      ELSE Len(old), turns, t)

\* One more element at the end.
LEMMA Appended ==
    ASSUME NEW S, NEW s \in Seq(S), NEW x \in S
    PROVE  Append(s, x) \in Seq(S) /\ Inserted(s, Len(s), Append(s, x), x)
<1>1. /\ Append(s, x) \in Seq(S) /\ Len(Append(s, x)) = Len(s) + 1 /\ Len(s) \in Nat
      /\ \A i \in 1..Len(s) : Append(s, x)[i] = s[i]
      /\ Append(s, x)[Len(s) + 1] = x
  BY AppendProperties
<1> QED
  BY <1>1 DEF Inserted

\* applyUserMessagePersisted, case by case.
LEMMA PersistedFacts ==
    ASSUME NEW p \in Pages, NEW e \in UserEvents
    PROVE  /\ Persisted(p, e) \in Pages /\ Stays(p, Persisted(p, e))
           /\ PersistedMakes(p.turns, e, Persisted(p, e).turns)
<1> DEFINE drawn  == {i \in DOMAIN p.turns : p.turns[i].row = Said(e.msg)}
           shown  == {i \in drawn : p.turns[i].held}
           queued == {i \in drawn : e.item /\ Pending(p.turns[i])}
           mine   == {i \in drawn : p.turns[i].own /\ ~p.turns[i].held}
           Claim(i, inter) == [p EXCEPT !.turns[i].held = TRUE, !.turns[i].inter = inter]
           turn   == [Turn(Said(e.msg)) EXCEPT !.inter = e.dispatch = "interjected"]
           q == Persisted(p, e)
<1>1. e.msg \in Msgs /\ e.item \in BOOLEAN /\ e.dispatch \in Dispatches
  BY DEF UserEvents
<1>2. p.turns \in Seq(Turns) /\ DOMAIN p.turns = 1..Len(p.turns)
  BY DEF Pages
<1>3. /\ drawn = DrawnOf(p.turns, e.msg) /\ drawn \subseteq 1..Len(p.turns)
      /\ shown = ShownOf(p.turns, e.msg)
  BY <1>2 DEF DrawnOf, ShownOf
<1>4. turn \in Turns /\ turn.row = Said(e.msg) /\ turn.held /\ ~turn.own /\ ~turn.item
  BY <1>1, SaidFacts, TurnFacts DEF Turns
<1>5. q = IF shown # {} THEN
          IF \E i \in shown : LatestRunTurn(p.turns, i)
          THEN WithDispatch(p, e.dispatch) ELSE p
       ELSE IF queued # {} THEN
          LET i == CHOOSE i \in queued : TRUE IN
          IF e.dispatch = "interjected" THEN Claim(i, TRUE)
          ELSE OpenedBy(Claim(i, FALSE), e.dispatch)
       ELSE IF mine # {} THEN
          LET claimed == Claim(CHOOSE i \in mine : TRUE, FALSE) IN
          WithDispatch([claimed EXCEPT !.owner = IF @ = e.msg THEN NoMsg ELSE @],
                       e.dispatch)
       ELSE IF e.dispatch = "interjected" THEN [p EXCEPT !.turns = Landed(@, turn)]
       ELSE [OpenedBy(p, e.dispatch) EXCEPT !.turns = Append(@, turn)]
  BY Zenon DEF Persisted
<1> DEFINE Goal(r) == r \in Pages /\ Stays(p, r) /\ PersistedMakes(p.turns, e, r.turns)
<1> HIDE DEF drawn, turn
<1>6. CASE shown # {}
  <2>1. q = WithDispatch(p, e.dispatch) \/ q = p
    BY <1>5, <1>6, Zenon
  <2>2. q \in Pages /\ Stays(p, q) /\ q.turns = p.turns
    BY <2>1, <1>1, WithDispatchFacts DEF Stays
  <2> QED
    BY <2>2, <1>6, <1>3 DEF PersistedMakes
<1>7. CASE shown = {} /\ queued # {}
  <2> DEFINE i == CHOOSE i \in queued : TRUE
  <2>1. i \in queued
    BY <1>7
  <2> HIDE DEF i
  <2>2. i \in 1..Len(p.turns)
    BY <2>1, <1>3
  <2>3. q = Claim(i, TRUE) \/ q = OpenedBy(Claim(i, FALSE), e.dispatch)
    BY <1>5, <1>7, Zenon DEF i
  <2>4. \A b \in BOOLEAN : Claim(i, b) \in Pages /\ Stays(p, Claim(i, b)) /\ Claimed(p.turns, i, Claim(i, b).turns)
    BY <2>2, ClaimFacts
  <2> HIDE DEF Claim
  <2>5. q \in Pages /\ Stays(p, q) /\ Claimed(p.turns, i, q.turns)
    <3>1. Claim(i, TRUE) \in Pages /\ Claim(i, FALSE) \in Pages
      BY <2>4
    <3>2. OpenedBy(Claim(i, FALSE), e.dispatch) \in Pages
          /\ Stays(Claim(i, FALSE), OpenedBy(Claim(i, FALSE), e.dispatch))
          /\ OpenedBy(Claim(i, FALSE), e.dispatch).turns = Claim(i, FALSE).turns
      BY <3>1, <1>1, OpenedByFacts
    <3> QED
      BY <2>3, <2>4, <3>2 DEF Stays
  <2> QED
    BY <2>1, <2>5, <1>7, <1>3 DEF PersistedMakes
<1>8. CASE shown = {} /\ queued = {} /\ mine # {}
  <2> DEFINE i == CHOOSE i \in mine : TRUE
             claimed == Claim(i, FALSE)
             c == [claimed EXCEPT !.owner = IF @ = e.msg THEN NoMsg ELSE @]
  <2>1. i \in mine
    BY <1>8
  <2>2. q = WithDispatch(c, e.dispatch)
    BY <1>5, <1>8, Zenon
  <2> HIDE DEF i
  <2>3. i \in 1..Len(p.turns)
    BY <2>1, <1>3
  <2>4. claimed \in Pages /\ Stays(p, claimed) /\ Claimed(p.turns, i, claimed.turns)
    BY <2>3, ClaimFacts
  <2> HIDE DEF claimed
  <2>5. c \in Pages /\ Stays(claimed, c) /\ c.turns = claimed.turns
    BY <2>4 DEF Pages, Stays
  <2> HIDE DEF c
  <2>6. q \in Pages /\ Stays(c, q) /\ q.turns = c.turns
    BY <2>2, <2>5, <1>1, WithDispatchFacts
  <2>7. q \in Pages /\ Stays(p, q) /\ Claimed(p.turns, i, q.turns)
    BY <2>4, <2>5, <2>6 DEF Stays
  <2> QED
    BY <2>1, <2>7, <1>8, <1>3 DEF PersistedMakes
<1>9. CASE shown = {} /\ queued = {} /\ mine = {} /\ e.dispatch = "interjected"
  <2>1. q = [p EXCEPT !.turns = Landed(p.turns, turn)]
    BY <1>5, <1>9 DEF Pages
  <2>2. /\ Landed(p.turns, turn) \in Seq(Turns)
        /\ Inserted(p.turns, AboveWaiting(p.turns), Landed(p.turns, turn), turn)
    BY <1>2, <1>4, LandedFacts
  <2>3. q \in Pages /\ Stays(p, q) /\ q.turns = Landed(p.turns, turn)
    BY <2>1, <2>2, TurnsPut
  <2> QED
    BY <2>2, <2>3, <1>9, <1>3, <1>4 DEF PersistedMakes
<1>10. CASE shown = {} /\ queued = {} /\ mine = {} /\ e.dispatch # "interjected"
  <2> DEFINE o == OpenedBy(p, e.dispatch)
  <2>1. o \in Pages /\ Stays(p, o) /\ o.turns = p.turns
    BY <1>1, OpenedByFacts
  <2> HIDE DEF o
  <2>2. q = [o EXCEPT !.turns = Append(p.turns, turn)]
    BY <1>5, <1>10, <2>1 DEF Pages, o
  <2>3. /\ Append(p.turns, turn) \in Seq(Turns)
        /\ Inserted(p.turns, Len(p.turns), Append(p.turns, turn), turn)
    BY <1>2, <1>4, Appended
  <2>4. q \in Pages /\ Stays(o, q) /\ q.turns = Append(p.turns, turn)
    BY <2>1, <2>2, <2>3, TurnsPut
  <2>5. Stays(p, q)
    BY <2>1, <2>4 DEF Stays
  <2> QED
    BY <2>3, <2>4, <2>5, <1>10, <1>3, <1>4 DEF PersistedMakes
<1> QED
  BY <1>6, <1>7, <1>8, <1>9, <1>10

\* The turn of an interjection that waits.
WaitingTurn(m) == [row |-> Said(m), held |-> FALSE, own |-> FALSE, item |-> TRUE, inter |-> TRUE]

\* The items drawn at the end: new ones only, in their order.
SyncMakes(old, items, turns) ==
    \E new \in Seq(Turns) : \E f \in [1..Len(new) -> 1..Len(items)] :
        /\ turns = old \o new
        /\ \A k, l \in 1..Len(new) : k < l => f[k] < f[l]
        /\ \A k \in 1..Len(new) :
              /\ new[k] = WaitingTurn(items[f[k]].msg)
              /\ items[f[k]].inter
              /\ \A j \in 1..Len(old) : old[j].item => old[j].row[1] # items[f[k]].msg

\* syncInterjections draws the interjections that are not drawn.
LEMMA SyncFacts ==
    ASSUME NEW p \in Pages, NEW items \in Seq(Items)
    PROVE  /\ SyncInterjections(p, items) \in Pages /\ Stays(p, SyncInterjections(p, items))
           /\ SyncMakes(p.turns, items, SyncInterjections(p, items).turns)
<1> DEFINE drawn == {p.turns[i].row[1] : i \in {j \in 1..Len(p.turns) : p.turns[j].item}}
           Fresh(item) == item.inter /\ item.msg \notin drawn
           at == {i \in DOMAIN items : Fresh(items[i])}
           fresh == Picked(items, at)
           new == [i \in 1..Len(fresh) |-> WaitingTurn(fresh[i].msg)]
<1>1. p.turns \in Seq(Turns) /\ DOMAIN items = 1..Len(items)
  BY DEF Pages
<1>2. SyncInterjections(p, items) = [p EXCEPT !.turns = p.turns \o new]
  BY DEF SyncInterjections, WaitingTurn, Pages
<1> HIDE DEF drawn
<1>3. at \in SUBSET (1..Len(items))
  BY <1>1
<1> HIDE DEF at
<1>4. fresh \in Seq(Items)
      /\ \E f : Within(fresh, items, f) /\ \A i \in 1..Len(items) : i \in at <=> \E k \in 1..Len(fresh) : f[k] = i
  BY <1>3, PickedFacts
<1>5. PICK f : /\ Within(fresh, items, f)
               /\ \A i \in 1..Len(items) : i \in at <=> \E k \in 1..Len(fresh) : f[k] = i
  BY <1>4
<1> HIDE DEF fresh
<1>6. /\ Len(fresh) \in Nat
      /\ f \in [1..Len(fresh) -> 1..Len(items)]
      /\ \A k \in 1..Len(fresh) : f[k] \in at /\ fresh[k] = items[f[k]] /\ fresh[k] \in Items
      /\ \A k, l \in 1..Len(fresh) : k < l => f[k] < f[l]
  <2>1. /\ Len(fresh) \in Nat
        /\ f \in [1..Len(fresh) -> 1..Len(items)]
        /\ \A k \in 1..Len(fresh) : fresh[k] = items[f[k]] /\ fresh[k] \in Items
        /\ \A k, l \in 1..Len(fresh) : k < l => f[k] < f[l]
    BY <1>4, <1>5 DEF Within
  <2>2. \A k \in 1..Len(fresh) : f[k] \in at
    <3> TAKE k \in 1..Len(fresh)
    <3>1. f[k] \in 1..Len(items)
      BY <2>1
    <3> QED
      BY <3>1, <1>5
  <2> QED
    BY <2>1, <2>2
<1>7. \A m \in Msgs : WaitingTurn(m) \in Turns
  BY SaidFacts DEF WaitingTurn, Turns
<1> HIDE DEF WaitingTurn
<1>8. new \in Seq(Turns) /\ Len(new) = Len(fresh)
  <2>1. \A k \in 1..Len(fresh) : WaitingTurn(fresh[k].msg) \in Turns
    BY <1>6, <1>7 DEF Items
  <2> QED
    BY <2>1, <1>6
<1>9. \A k \in 1..Len(new) : new[k] = WaitingTurn(items[f[k]].msg)
  BY <1>6, <1>8
<1>10. \A k \in 1..Len(new) : Fresh(items[f[k]])
  BY <1>6, <1>8 DEF at
<1> HIDE DEF new
<1>11. p.turns \o new \in Seq(Turns)
  BY <1>1, <1>8
<1>12. SyncMakes(p.turns, items, p.turns \o new)
  <2>1. \A k \in 1..Len(new) : \A j \in 1..Len(p.turns) :
            p.turns[j].item => p.turns[j].row[1] # items[f[k]].msg
    BY <1>10 DEF drawn
  <2>2. /\ f \in [1..Len(new) -> 1..Len(items)]
        /\ \A k, l \in 1..Len(new) : k < l => f[k] < f[l]
    BY <1>6, <1>8
  <2> QED
    BY <2>1, <2>2, <1>8, <1>9, <1>10 DEF SyncMakes
<1> QED
  BY <1>2, <1>11, <1>12, TurnsPut

\* Those of the turns that stay, in their order.
DropMakes(old, ids, turns) ==
    \E f : /\ Within(turns, old, f)
           /\ \A i \in 1..Len(old) :
                 ~(old[i].held /\ old[i].row \in ids) <=> \E k \in 1..Len(turns) : f[k] = i

\* applyMessagesDeleted keeps all turns but those deleted.
LEMMA DropFacts ==
    ASSUME NEW p \in Pages, NEW ids
    PROVE  /\ DropDeleted(p, ids) \in Pages /\ Stays(p, DropDeleted(p, ids))
           /\ DropMakes(p.turns, ids, DropDeleted(p, ids).turns)
<1> DEFINE kept == {i \in DOMAIN p.turns : ~(p.turns[i].held /\ p.turns[i].row \in ids)}
           turns == Picked(p.turns, kept)
<1>1. p.turns \in Seq(Turns) /\ DOMAIN p.turns = 1..Len(p.turns)
  BY DEF Pages
<1>2. DropDeleted(p, ids) = [p EXCEPT !.turns = turns]
  BY DEF DropDeleted, Pages
<1>3. kept \in SUBSET (1..Len(p.turns))
  BY <1>1
<1>4. \A i \in 1..Len(p.turns) : ~(p.turns[i].held /\ p.turns[i].row \in ids) <=> i \in kept
  BY <1>1
<1> HIDE DEF kept
<1>5. turns \in Seq(Turns)
      /\ \E f : Within(turns, p.turns, f)
                /\ \A i \in 1..Len(p.turns) : i \in kept <=> \E k \in 1..Len(turns) : f[k] = i
  BY <1>1, <1>3, PickedFacts
<1> HIDE DEF turns
<1>6. DropMakes(p.turns, ids, turns)
  BY <1>4, <1>5 DEF DropMakes
<1> QED
  BY <1>2, <1>5, <1>6, TurnsPut

\* Where the turns of a page read come from: from the page, from the turn
\* drawn for its row, from turns without a row before that one; then the rest.
RestoredFrom(live, r, j) == live[j].held /\ r.row = live[j].row

LooseBefore(live, restored, j, l) ==
    /\ l \in 1..Len(live) /\ l < j /\ ~live[l].held
    /\ \A o \in 1..Len(live) : o < j /\ (\E i \in 1..Len(restored) : RestoredFrom(live, restored[i], o))
          => o < l

Chunk(live, restored, i, chunk) ==
    \/ /\ \A j \in 1..Len(live) : ~RestoredFrom(live, restored[i], j)
       /\ chunk = <<restored[i]>>
    \/ \E j \in 1..Len(live) : \E f \in [1..Len(chunk) - 1 -> 1..Len(live)] :
          /\ RestoredFrom(live, restored[i], j)
          /\ Len(chunk) > 0 /\ chunk[Len(chunk)] = live[j]
          /\ \A k \in 1..Len(chunk) - 1 :
                chunk[k] = live[f[k]] /\ LooseBefore(live, restored, j, f[k])
          /\ \A k, l \in 1..Len(chunk) - 1 : k < l => f[k] < f[l]

MergeMakes(restored, live, turns) ==
    \E chunks \in Seq(Seq(Turns)), last \in 0..Len(live) :
        /\ turns = FlattenSeq(chunks) \o SubSeq(live, last + 1, Len(live))
        /\ Len(chunks) = Len(restored)
        /\ \A i \in 1..Len(restored) : Chunk(live, restored, i, chunks[i])
        /\ \A j \in last + 1..Len(live) : \A i \in 1..Len(restored) :
              ~RestoredFrom(live, restored[i], j)
        /\ last > 0 => \E i \in 1..Len(restored) : RestoredFrom(live, restored[i], last)

\* mergeRestoredTurns keeps each turn it matches, with what was loose before it.
LEMMA MergeFacts ==
    ASSUME NEW restored \in Seq(Turns), NEW live \in Seq(Turns)
    PROVE  /\ Merge(restored, live) \in Seq(Turns)
           /\ MergeMakes(restored, live, Merge(restored, live))
<1> DEFINE At(j)    == {i \in DOMAIN restored : live[j].held /\ restored[i].row = live[j].row}
           matched  == {j \in DOMAIN live : At(j) # {}}
           last     == IF matched = {} THEN 0 ELSE Max(matched)
           at(j)    == {l \in 1..j - 1 : ~live[l].held /\ \A o \in matched : o < j => o < l}
           Loose(j) == Picked(live, at(j))
           js(i)    == {j \in matched : i \in At(j)}
           Drawn(i) == LET j == CHOOSE j \in js(i) : TRUE
                       IN IF js(i) = {} THEN <<restored[i]>> ELSE Append(Loose(j), live[j])
           chunks   == [i \in DOMAIN restored |-> Drawn(i)]
<1>1. Merge(restored, live) = FlattenSeq(chunks) \o SubSeq(live, last + 1, Len(live))
  BY Zenon DEF Merge
<1>2. /\ DOMAIN restored = 1..Len(restored) /\ Len(restored) \in Nat
      /\ DOMAIN live = 1..Len(live) /\ Len(live) \in Nat
  OBVIOUS
<1>3. \A j \in 1..Len(live) : j \in matched <=> \E i \in 1..Len(restored) : RestoredFrom(live, restored[i], j)
  BY <1>2 DEF RestoredFrom
<1>4. \A i \in 1..Len(restored), j \in 1..Len(live) : j \in js(i) <=> RestoredFrom(live, restored[i], j)
  BY <1>2 DEF RestoredFrom
<1>5. matched \subseteq 1..Len(live) /\ \A i : js(i) \subseteq 1..Len(live)
  BY <1>2
<1> HIDE DEF At, js, matched
<1>6. last \in 0..Len(live) /\ (last > 0 => last \in matched)
      /\ \A j \in last + 1..Len(live) : j \notin matched
  <2>1. CASE matched = {}
    BY <2>1, <1>2
  <2>2. CASE matched # {}
    <3>1. matched \in SUBSET Nat /\ \A k \in matched : k <= Len(live)
      BY <1>5, <1>2
    <3>2. Max(matched) \in matched /\ \A k \in matched : k <= Max(matched)
      BY <3>1, <2>2, <1>2, MaxFacts
    <3>3. last = Max(matched)
      BY <2>2
    <3> HIDE DEF last
    <3>4. last \in matched /\ \A k \in matched : k <= last
      BY <3>2, <3>3
    <3>5. last \in 1..Len(live)
      BY <3>4, <1>5
    <3>6. \A j \in last + 1..Len(live) : ~(j <= last)
      BY <3>5, <1>2
    <3> QED
      BY <3>4, <3>5, <3>6, <1>2
  <2> QED
    BY <2>1, <2>2
<1>7. \A j \in 1..Len(live) : at(j) \in SUBSET (1..Len(live))
  BY <1>2
<1>8. \A j \in 1..Len(live) : \A l \in at(j) : LooseBefore(live, restored, j, l)
  <2> SUFFICES ASSUME NEW j \in 1..Len(live), NEW l \in at(j)
               PROVE  LooseBefore(live, restored, j, l)
    OBVIOUS
  <2>1. l \in 1..Len(live) /\ l < j /\ ~live[l].held /\ \A o \in matched : o < j => o < l
    BY <1>2
  <2> QED
    BY <2>1, <1>3 DEF LooseBefore
<1> HIDE DEF at
<1>9. \A i \in 1..Len(restored) : Drawn(i) \in Seq(Turns) /\ Chunk(live, restored, i, Drawn(i))
  <2> TAKE i \in 1..Len(restored)
  <2>1. CASE js(i) = {}
    <3>1. Drawn(i) = <<restored[i]>>
      BY <2>1
    <3>2. restored[i] \in Turns
      OBVIOUS
    <3>3. \A j \in 1..Len(live) : ~RestoredFrom(live, restored[i], j)
      BY <2>1, <1>4
    <3>4. <<restored[i]>> \in Seq(Turns)
      BY <3>2
    <3> HIDE DEF Drawn
    <3> QED
      BY <3>1, <3>3, <3>4 DEF Chunk
  <2>2. CASE js(i) # {}
    <3> DEFINE j == CHOOSE j \in js(i) : TRUE
    <3>1. j \in js(i)
      BY <2>2
    <3>2. Drawn(i) = Append(Loose(j), live[j])
      BY <2>2
    <3> HIDE DEF j
    <3>3. j \in 1..Len(live) /\ live[j] \in Turns
      BY <3>1, <1>5
    <3>4. Loose(j) \in Seq(Turns) /\ \E f : Within(Loose(j), live, f)
            /\ \A l \in 1..Len(live) : l \in at(j) <=> \E k \in 1..Len(Loose(j)) : f[k] = l
      BY <3>3, <1>7, PickedFacts
    <3> DEFINE loose == Loose(j)
    <3>5. PICK f : Within(loose, live, f)
            /\ \A l \in 1..Len(live) : l \in at(j) <=> \E k \in 1..Len(loose) : f[k] = l
      BY <3>4
    <3>6. loose \in Seq(Turns)
      BY <3>4
    <3> HIDE DEF loose
    <3> DEFINE c == Append(loose, live[j])
    <3>7. /\ c \in Seq(Turns) /\ Len(c) = Len(loose) + 1 /\ Len(loose) \in Nat
          /\ \A k \in 1..Len(loose) : c[k] = loose[k]
          /\ c[Len(c)] = live[j]
      BY <3>3, <3>6, AppendProperties
    <3>8. Drawn(i) = c
      BY <3>2 DEF loose
    <3> HIDE DEF c
    <3>9. \A k \in 1..Len(loose) : f[k] \in 1..Len(live) /\ f[k] \in at(j)
      BY <3>5 DEF Within
    <3>10. \A k \in 1..Len(loose) : c[k] = live[f[k]] /\ LooseBefore(live, restored, j, f[k])
      BY <3>3, <3>5, <3>7, <3>9, <1>8 DEF Within
    <3>11. RestoredFrom(live, restored[i], j)
      BY <3>1, <3>3, <1>4
    <3>12. /\ f \in [1..Len(c) - 1 -> 1..Len(live)] /\ Len(c) > 0 /\ Len(c) - 1 = Len(loose)
           /\ \A k, l \in 1..Len(c) - 1 : k < l => f[k] < f[l]
      BY <3>5, <3>7 DEF Within
    <3>13. Chunk(live, restored, i, c)
      BY <3>3, <3>7, <3>10, <3>11, <3>12, Zenon DEF Chunk
    <3> HIDE DEF Drawn
    <3> QED
      BY <3>7, <3>8, <3>13
  <2> QED
    BY <2>1, <2>2
<1> HIDE DEF Drawn, last
<1>10. chunks \in Seq(Seq(Turns)) /\ Len(chunks) = Len(restored)
       /\ \A i \in 1..Len(restored) : chunks[i] = Drawn(i)
  BY <1>2, <1>9
<1> HIDE DEF chunks
<1>11. FlattenSeq(chunks) \in Seq(Turns)
  BY <1>10, FlattenFacts
<1>12. SubSeq(live, last + 1, Len(live)) \in Seq(Turns)
  BY <1>2, <1>6, Part
<1>13. Merge(restored, live) \in Seq(Turns)
  BY <1>1, <1>11, <1>12
<1>14. MergeMakes(restored, live, Merge(restored, live))
  <2>1. \A i \in 1..Len(restored) : Chunk(live, restored, i, chunks[i])
    BY <1>9, <1>10
  <2>2. \A j \in last + 1..Len(live) : \A i \in 1..Len(restored) : ~RestoredFrom(live, restored[i], j)
    BY <1>2, <1>3, <1>6
  <2>3. last > 0 => \E i \in 1..Len(restored) : RestoredFrom(live, restored[i], last)
    BY <1>2, <1>3, <1>5, <1>6
  <2> QED
    BY <2>1, <2>2, <2>3, <1>1, <1>6, <1>10, Zenon DEF MergeMakes
<1> QED
  BY <1>13, <1>14

\* restoreSessionTurns leaves the page alone, or merges what was read.
LEMMA RestoreFacts ==
    ASSUME NEW p \in Pages, NEW a \in TurnAnswers \cup Failures, a.kind # "snapshot"
    PROVE  LET q == Restore(p, a)
           IN  /\ q \in Pages /\ q.sends = p.sends /\ q.listening = p.listening
               /\ a \in Failures => q = p
               /\ a \in TurnAnswers /\ a.rows = <<>> => q = [p EXCEPT !.read = TRUE]
               /\ a \in TurnAnswers /\ a.rows # <<>> =>
                     /\ q.read /\ q.earlier = a.earlier
                     /\ q.turns = Merge(a.rows, p.turns)
<1> DEFINE q == Restore(p, a)
<1>1. CASE a \in Failures
  <2>1. a.failed /\ a \notin TurnAnswers
    BY <1>1 DEF Failures, TurnAnswers
  <2>2. q = p
    BY <2>1 DEF Restore
  <2> QED
    BY <2>1, <2>2, <1>1
<1>2. CASE a \in TurnAnswers
  <2>1. ~a.failed /\ a \notin Failures /\ a.rows \in Seq(Turns) /\ a.earlier \in Nat
    BY <1>2 DEF Failures, TurnAnswers
  <2>2. CASE a.rows = <<>>
    <3>1. q = [p EXCEPT !.read = TRUE]
      BY <2>1, <2>2 DEF Restore
    <3>2. q \in Pages /\ q.sends = p.sends /\ q.listening = p.listening
      BY <3>1 DEF Pages
    <3> HIDE DEF q
    <3> QED
      BY <2>1, <2>2, <3>1, <3>2 DEF q
  <2>3. CASE a.rows # <<>>
    <3>1. p.turns \in Seq(Turns)
      BY DEF Pages
    <3>2. Merge(a.rows, p.turns) \in Seq(Turns)
      BY <3>1, <2>1, MergeFacts
    <3> DEFINE o == [p EXCEPT !.turns = Merge(a.rows, p.turns)]
    <3>3. o \in Pages /\ Stays(p, o) /\ o.turns = Merge(a.rows, p.turns)
      BY <3>2, TurnsPut
    <3>4. q = [o EXCEPT !.earlier = a.earlier, !.read = TRUE]
      BY <2>1, <2>3 DEF Restore, Pages
    <3> HIDE DEF o
    <3>5. q \in Pages /\ q.turns = o.turns /\ q.sends = o.sends /\ q.listening = o.listening
          /\ q.earlier = a.earlier /\ q.read
      BY <3>3, <3>4, <2>1 DEF Pages
    <3> HIDE DEF q
    <3> QED
      BY <2>1, <2>3, <3>3, <3>5 DEF Stays, q
  <2> QED
    BY <2>2, <2>3
<1> QED
  BY <1>1, <1>2

\* loadEarlierTurns leaves the page alone, or puts the earlier turns first.
LEMMA PutEarlierFacts ==
    ASSUME NEW p \in Pages, NEW a \in TurnAnswers \cup Failures, a.kind # "snapshot"
    PROVE  LET q == PutEarlier(p, a)
           IN  /\ q \in Pages /\ q.sends = p.sends /\ q.listening = p.listening /\ q.read = p.read
               /\ a \in Failures \/ p.earlier # a.asked => q = p
               /\ a \in TurnAnswers /\ p.earlier = a.asked =>
                     /\ q.turns = a.rows \o p.turns
                     /\ q.earlier = IF a.earlier < a.asked THEN a.earlier ELSE 0
<1> DEFINE q == PutEarlier(p, a)
<1>1. CASE a \in Failures
  <2>1. a.failed /\ a \notin TurnAnswers
    BY <1>1 DEF Failures, TurnAnswers
  <2>2. q = p
    BY <2>1 DEF PutEarlier
  <2> QED
    BY <2>1, <2>2, <1>1
<1>2. CASE a \in TurnAnswers /\ p.earlier # a.asked
  <2>1. q = p
    BY <1>2 DEF PutEarlier
  <2> QED
    BY <2>1, <1>2
<1>3. CASE a \in TurnAnswers /\ p.earlier = a.asked
  <2>1. ~a.failed /\ a \notin Failures /\ a.rows \in Seq(Turns) /\ a.earlier \in Nat
    BY <1>3 DEF Failures, TurnAnswers
  <2>2. p.turns \in Seq(Turns)
    BY DEF Pages
  <2>3. a.rows \o p.turns \in Seq(Turns)
    BY <2>1, <2>2
  <2> DEFINE o == [p EXCEPT !.turns = a.rows \o p.turns]
  <2>4. o \in Pages /\ Stays(p, o) /\ o.turns = a.rows \o p.turns
    BY <2>3, TurnsPut
  <2>5. q = [o EXCEPT !.earlier = IF a.earlier < a.asked THEN a.earlier ELSE 0]
    BY <2>1, <1>3 DEF PutEarlier, Pages
  <2> DEFINE n == IF a.earlier < a.asked THEN a.earlier ELSE 0
  <2>a. n \in Nat
    BY <2>1
  <2>b. q = [o EXCEPT !.earlier = n]
    BY <2>5
  <2> HIDE DEF o, q, n
  <2>c. /\ q \in Pages /\ q.turns = o.turns /\ q.sends = o.sends /\ q.listening = o.listening
        /\ q.earlier = n /\ q.read = o.read
    BY <2>4, <2>a, <2>b DEF Pages
  <2>6. /\ q \in Pages /\ q.turns = o.turns /\ q.sends = o.sends /\ q.listening = o.listening
        /\ q.earlier = (IF a.earlier < a.asked THEN a.earlier ELSE 0) /\ q.read = o.read
    BY <2>c DEF n
  <2> QED
    BY <1>3, <2>1, <2>4, <2>6 DEF Stays, q
<1> QED
  BY <1>1, <1>2, <1>3

\* A queue that is shown draws its interjections.
LEMMA ShownFacts ==
    ASSUME NEW p \in Pages, NEW items \in Seq(Items)
    PROVE  /\ Shown(p, items) \in Pages /\ Stays(p, Shown(p, items))
           /\ SyncMakes(p.turns, items, Shown(p, items).turns)
<1> DEFINE o == [p EXCEPT !.bar = items, !.known = TRUE]
<1>1. o \in Pages /\ Stays(p, o) /\ o.turns = p.turns
  BY DEF Pages, Stays
<1>2. Shown(p, items) = SyncInterjections(o, items)
  BY DEF Shown
<1> HIDE DEF o
<1>3. /\ SyncInterjections(o, items) \in Pages /\ Stays(o, SyncInterjections(o, items))
      /\ SyncMakes(o.turns, items, SyncInterjections(o, items).turns)
  BY <1>1, SyncFacts
<1> QED
  BY <1>1, <1>2, <1>3 DEF Stays

\* The settling of a send, by its answer.
LEMMA SettleFacts ==
    ASSUME NEW p \in Pages, NEW e \in SendAnswers
    PROVE  LET q == Settle(p, e)
           IN  /\ q \in Pages /\ q.sends = p.sends \ {e.msg} /\ q.listening = p.listening
               /\ q.read = p.read /\ q.earlier = p.earlier
               /\ e.msg \notin p.sends \/ e.outcome = "failed" => q.turns = p.turns
               /\ e.msg \in p.sends /\ e.outcome = "dispatched" =>
                     PersistedMakes(p.turns, UserEvent(e.msg, FALSE, "dispatched"), q.turns)
               /\ e.msg \in p.sends /\ e.outcome \in {"queued", "interjected"} =>
                     LET echoes == {i \in 1..Len(p.turns) :
                             p.turns[i].row = Said(e.msg) /\ p.turns[i].own /\ ~p.turns[i].held}
                     IN  IF echoes = {} THEN q.turns = p.turns
                         ELSE \E i \in echoes : q.turns = RemoveAt(p.turns, i)
<1> DEFINE q == Settle(p, e)
           o == [p EXCEPT !.sends = @ \ {e.msg}]
           u == UserEvent(e.msg, FALSE, "dispatched")
<1>1. /\ e.msg \in Own /\ e.msg \in Msgs
      /\ e.outcome \in {"dispatched", "failed", "queued", "interjected"}
  BY TranscriptAssumption DEF SendAnswers
<1>2. /\ o \in Pages /\ o.turns = p.turns /\ o.sends = p.sends \ {e.msg}
      /\ o.listening = p.listening /\ o.read = p.read /\ o.earlier = p.earlier
  BY DEF Pages
<1>3. u \in UserEvents
  BY <1>1 DEF UserEvent, UserEvents, Dispatches
<1>4. q = IF e.msg \notin p.sends THEN p
          ELSE CASE e.outcome = "dispatched" -> Persisted(o, u)
                 [] e.outcome = "failed"     -> SetRunning(o, FALSE)
                 [] OTHER                    -> Retract(o, e.msg)
  BY DEF Settle
<1> HIDE DEF o, u, q
<1>5. CASE e.msg \notin p.sends
  <2>1. q = p
    BY <1>4, <1>5
  <2>2. p.sends = p.sends \ {e.msg}
    BY <1>5
  <2> QED
    BY <2>1, <2>2, <1>5 DEF q
<1>6. CASE e.msg \in p.sends /\ e.outcome = "dispatched"
  <2>1. q = Persisted(o, u)
    BY <1>4, <1>6
  <2>2. q \in Pages /\ Stays(o, q) /\ PersistedMakes(o.turns, u, q.turns)
    BY <2>1, <1>2, <1>3, PersistedFacts
  <2>3. PersistedMakes(p.turns, u, q.turns)
    BY <2>2, <1>2 DEF PersistedMakes
  <2> QED
    BY <2>2, <2>3, <1>2, <1>6 DEF Stays, u, q
<1>7. CASE e.msg \in p.sends /\ e.outcome = "failed"
  <2>1. q = SetRunning(o, FALSE)
    BY <1>4, <1>7
  <2>2. q \in Pages /\ Stays(o, q) /\ q.turns = o.turns
    BY <2>1, <1>2, SetRunningFacts
  <2> QED
    BY <2>2, <1>2, <1>7 DEF Stays, q
<1>8. CASE e.msg \in p.sends /\ e.outcome \in {"queued", "interjected"}
  <2>1. q = Retract(o, e.msg)
    BY <1>4, <1>8
  <2> DEFINE echoes == {i \in 1..Len(o.turns) :
                 o.turns[i].row = Said(e.msg) /\ o.turns[i].own /\ ~o.turns[i].held}
  <2>2. /\ q \in Pages /\ Stays(o, q)
        /\ echoes = {} => q.turns = o.turns
        /\ echoes # {} => \E i \in echoes : q.turns = RemoveAt(o.turns, i)
    BY <2>1, <1>1, <1>2, RetractFacts
  <2>3. echoes = {i \in 1..Len(p.turns) :
             p.turns[i].row = Said(e.msg) /\ p.turns[i].own /\ ~p.turns[i].held}
    BY <1>2
  <2> HIDE DEF echoes
  <2> QED
    BY <2>2, <2>3, <1>2, <1>8 DEF Stays, q
<1> QED
  BY <1>1, <1>5, <1>6, <1>7, <1>8

\* What reaches the page leaves it a page.
LEMMA HandledPage ==
    ASSUME NEW p \in Pages, NEW e \in Events
    PROVE  /\ Handled(p, e) \in Pages
           /\ \/ Handled(p, e).earlier \in {0, p.earlier}
              \/ e \in TurnAnswers /\ Handled(p, e).earlier = e.earlier
<1> DEFINE q == Handled(p, e)
           Goal == q \in Pages /\ (q.earlier \in {0, p.earlier} \/ (e \in TurnAnswers /\ q.earlier = e.earlier))
<1>1. CASE OfRunner(e) /\ ~p.listening
  BY <1>1 DEF Handled
<1>2. CASE ~(OfRunner(e) /\ ~p.listening)
  <2> USE <1>2
  <2>1. q = CASE e.kind = "turn_end"          -> [p EXCEPT !.turns = LandedStep(@, Turn(e.row)),
                                                   !.phase = "none"]
      [] e.kind = "tell_user"         -> [p EXCEPT !.turns = Landed(@, Turn(e.row))]
      [] e.kind = "run_complete"      -> SetRunning(p, FALSE)
      [] e.kind = "closed"            -> Asleep(p)
      [] e.kind = "user"              -> Persisted(p, e)
      [] e.kind = "queue"             -> Shown(p, e.items)
      [] e.kind = "deleted"           -> DropDeleted(p, e.rows)
      [] e.kind = "sent"              -> Settle(p, e)
      [] e.kind = "page"              -> Restore(p, e)
      [] e.kind = "earlier"           -> PutEarlier(p, e)
      [] e.kind = "snapshot"          -> IF e.failed THEN p ELSE Shown(p, e.items)
      [] e.kind = "stopped"           -> HearStop(p, e.dispatch)
      [] e.kind = "live"              -> p
    BY Zenon DEF Handled
  <2> SUFFICES Goal
    OBVIOUS
  <2> HIDE DEF q
  <2>2. CASE e.kind = "turn_end"
    <3>1. q = [p EXCEPT !.turns = LandedStep(p.turns, Turn(e.row)), !.phase = "none"]
      BY <2>1, <2>2 DEF Pages
    <3>2. e.row \in Rows /\ Turn(e.row) \in Turns /\ p.turns \in Seq(Turns)
      BY <2>2, EventFacts, TurnFacts DEF Pages
    <3>3. LandedStep(p.turns, Turn(e.row)) \in Seq(Turns)
      BY <3>2, LandedStepFacts
    <3> QED
      BY <3>1, <3>3 DEF Pages, Phases
  <2>3. CASE e.kind = "tell_user"
    <3>1. q = [p EXCEPT !.turns = Landed(p.turns, Turn(e.row))]
      BY <2>1, <2>3 DEF Pages
    <3>2. e.row \in Rows /\ Turn(e.row) \in Turns /\ p.turns \in Seq(Turns)
      BY <2>3, EventFacts, TurnFacts DEF Pages
    <3>3. Landed(p.turns, Turn(e.row)) \in Seq(Turns)
      BY <3>2, LandedFacts
    <3> QED
      BY <3>1, <3>3, TurnsPut DEF Stays
  <2>4. CASE e.kind \in {"run_complete", "closed"}
    BY <2>1, <2>4, SetRunningFacts, AsleepFacts DEF Stays
  <2>5. CASE e.kind = "user"
    BY <2>1, <2>5, EventFacts, PersistedFacts DEF Stays
  <2>6. CASE e.kind = "queue"
    <3>1. q = Shown(p, e.items) /\ e.items \in Seq(Items)
      BY <2>1, <2>6, EventFacts DEF Lists
    <3> QED
      BY <3>1, ShownFacts DEF Stays
  <2>7. CASE e.kind = "deleted"
    BY <2>1, <2>7, DropFacts DEF Stays
  <2>8. CASE e.kind = "sent"
    BY <2>1, <2>8, EventFacts, SettleFacts
  <2>9. CASE e.kind = "page"
    <3>1. q = Restore(p, e) /\ e \in TurnAnswers \cup Failures
      BY <2>1, <2>9, EventFacts
    <3>2. p.earlier = [p EXCEPT !.read = TRUE].earlier
      BY DEF Pages
    <3> QED
      BY <3>1, <3>2, <2>9, RestoreFacts
  <2>10. CASE e.kind = "earlier"
    <3>1. q = PutEarlier(p, e) /\ e \in TurnAnswers \cup Failures
      BY <2>1, <2>10, EventFacts
    <3>2. /\ q \in Pages
          /\ e \in Failures \/ p.earlier # e.asked => q = p
          /\ e \in TurnAnswers /\ p.earlier = e.asked =>
                q.earlier = IF e.earlier < e.asked THEN e.earlier ELSE 0
      BY <3>1, <2>10, PutEarlierFacts
    <3>3. CASE e \in Failures \/ p.earlier # e.asked
      BY <3>2, <3>3
    <3>4. CASE e \in TurnAnswers /\ p.earlier = e.asked
      BY <3>2, <3>4
    <3> QED
      BY <3>1, <3>3, <3>4
  <2>11. CASE e.kind = "snapshot"
    <3>1. e.failed => q = p
      BY <2>1, <2>11
    <3>2. ~e.failed => q = Shown(p, e.items) /\ e.items \in Seq(Items)
      BY <2>1, <2>11, EventFacts DEF Snapshots
    <3> QED
      BY <3>1, <3>2, ShownFacts DEF Stays
  <2>12. CASE e.kind = "stopped"
    <3>1. q = HearStop(p, e.dispatch)
      BY <2>1, <2>12
    <3> QED
      BY <3>1, HearStopFacts DEF Stays
  <2>13. CASE e.kind = "live"
    BY <2>1, <2>13
  <2>14. e.kind \in {"turn_end", "tell_user", "run_complete", "closed", "user", "queue",
                     "deleted", "sent", "page", "earlier", "snapshot", "stopped", "live"}
    BY EventFacts
  <2>15. Goal
    BY <2>2, <2>3, <2>4, <2>5, <2>6, <2>7, <2>8, <2>9, <2>10, <2>11, <2>12, <2>13, <2>14
  <2> QED
    BY <2>15
<1> QED
  BY <1>1, <1>2
-----------------------------------------------------------------------------
(* A page of the conversation.                                             *)

\* It brings the visible rows from one on to its end; where it says that
\* there are earlier ones, that row opens a run, and what is before it and
\* not deleted is of earlier launches.
PageOf(a, end, from, f) ==
    /\ from \in 1..end
    /\ f \in [1..Len(a.rows) -> from..end - 1]
    /\ \A k, l \in 1..Len(a.rows) : k < l => f[k] < f[l]
    /\ \A k \in 1..Len(a.rows) : a.rows[k] = Restored(rows[f[k]]) /\ rows[f[k]] \notin gone
    /\ \A i \in from..end - 1 : rows[i] \notin gone => \E k \in 1..Len(a.rows) : f[k] = i
    /\ a.earlier \in {0, from}
    /\ a.earlier # 0 =>
          /\ from < end /\ rows[from] \notin gone
          /\ rows[from][3] = "said" /\ rows[from][1] \notin midway
          /\ \A i \in 1..from - 1 : rows[i] \in gone \/ rows[i][1] \in History
    /\ a.earlier = 0 => \A i \in 1..from - 1 : rows[i] \in gone

\* persisted_message_turns_page returns such a page.
LEMMA TurnsPageFacts ==
    ASSUME rows \in Seq(Rows), NEW kind \in {"page", "earlier"},
           NEW end \in 1..Len(rows) + 1
    PROVE  LET a == TurnsPage(kind, end)
           IN  /\ a \in TurnAnswers /\ a.kind = kind /\ a.asked = end
               /\ \E from, f : PageOf(a, end, from, f)
<1> DEFINE visible == {i \in 1..end - 1 : rows[i] \notin gone}
           recent  == {i \in visible : rows[i][1] \notin History}
           oldest  == IF recent # {} THEN Min(recent) ELSE Max(visible)
           openers == {i \in visible : /\ i <= oldest
                                       /\ rows[i][3] = "said" /\ rows[i][1] \notin midway}
           from == IF visible = {} THEN end
                   ELSE IF openers # {} THEN Max(openers) ELSE Min(visible)
           at == {i \in visible : i >= from}
           part == Picked(rows, at)
           turns == [i \in 1..Len(part) |-> Restored(part[i])]
           earlier == IF \E i \in visible : i < from THEN from ELSE 0
           a == TurnsPage(kind, end)
<1>1. a = [kind |-> kind, failed |-> FALSE, asked |-> end, rows |-> turns, earlier |-> earlier]
  BY DEF TurnsPage
<1>2. /\ Len(rows) \in Nat /\ end \in Nat /\ end >= 1
      /\ visible \in SUBSET Nat /\ visible \subseteq 1..end - 1
      /\ recent \in SUBSET Nat /\ openers \in SUBSET Nat
      /\ \A i \in visible : i <= end
  OBVIOUS
<1>3. visible # {} => /\ Min(visible) \in visible /\ \A i \in visible : Min(visible) <= i
                      /\ Max(visible) \in visible /\ \A i \in visible : i <= Max(visible)
  BY <1>2, MinFacts, MaxFacts
<1>4. recent # {} => Min(recent) \in recent /\ \A i \in recent : Min(recent) <= i
  BY <1>2, MinFacts
<1>5. \A i \in recent : i \in visible /\ rows[i][1] \notin History
  OBVIOUS
<1>6. \A i \in visible : i \notin recent => rows[i][1] \in History
  OBVIOUS
<1>7. visible # {} => oldest \in visible /\ \A i \in visible : i < oldest => rows[i][1] \in History
  <2> SUFFICES ASSUME visible # {}
               PROVE  oldest \in visible /\ \A i \in visible : i < oldest => rows[i][1] \in History
    OBVIOUS
  <2> HIDE DEF visible
  <2>1. CASE recent # {}
    <3>1. oldest = Min(recent)
      BY <2>1
    <3> HIDE DEF oldest, recent
    <3>2. \A i \in visible : i < oldest => i \notin recent
      <4> SUFFICES ASSUME NEW i \in visible, i < oldest, i \in recent
                   PROVE  FALSE
        OBVIOUS
      <4>1. oldest <= i /\ oldest \in Nat /\ i \in Nat
        BY <3>1, <2>1, <1>2, <1>4
      <4> QED
        BY <4>1
    <3> QED
      BY <3>1, <3>2, <2>1, <1>4, <1>5, <1>6
  <2>2. CASE recent = {}
    <3>1. oldest = Max(visible)
      BY <2>2
    <3> HIDE DEF oldest, recent
    <3> QED
      BY <3>1, <2>2, <1>3, <1>6
  <2> QED
    BY <2>1, <2>2
<1>8. \A i \in openers : i \in visible /\ i <= oldest /\ rows[i][3] = "said" /\ rows[i][1] \notin midway
  OBVIOUS
<1>9. \A i \in 1..end - 1 : i \notin visible => rows[i] \in gone
  OBVIOUS
<1>10. \A i \in visible : i \in 1..end - 1 /\ rows[i] \notin gone
  OBVIOUS
<1> HIDE DEF oldest, recent
<1>11. openers # {} => Max(openers) \in openers /\ \A i \in openers : i <= Max(openers)
  <2>1. \A i \in openers : i <= end
    BY <1>8, <1>2
  <2> QED
    BY <2>1, <1>2, MaxFacts
<1>12. \/ visible = {} /\ from = end
       \/ visible # {} /\ from \in openers
       \/ visible # {} /\ from = Min(visible)
  <2> HIDE DEF openers, visible
  <2> QED
    BY <1>11
<1> HIDE DEF openers, visible, from
<1>13. from \in 1..end
  <2>1. \A i \in visible : i \in 1..end
    BY <1>2, <1>10
  <2>2. end \in 1..end
    BY <1>2
  <2> QED
    BY <2>1, <2>2, <1>3, <1>8, <1>12
<1>14. earlier # 0 => /\ earlier = from /\ from \in openers
                      /\ \A i \in visible : i < from => rows[i][1] \in History
  <2> SUFFICES ASSUME earlier # 0
               PROVE  /\ earlier = from /\ from \in openers
                      /\ \A i \in visible : i < from => rows[i][1] \in History
    OBVIOUS
  <2>1. PICK i \in visible : i < from
    OBVIOUS
  <2>2. earlier = from
    BY <2>1
  <2>3. from \in openers
    BY <2>1, <1>2, <1>3, <1>12, <1>13
  <2>4. from <= oldest /\ oldest \in visible
    BY <2>3, <1>7, <1>8
  <2>5. \A j \in visible : j < from => j < oldest
    BY <2>4, <1>2, <1>13
  <2> QED
    BY <2>2, <2>3, <2>4, <2>5, <1>7
<1>15. earlier = 0 => \A i \in visible : ~(i < from)
  BY <1>13, <1>2
<1>16. earlier \in {0, from}
  OBVIOUS
<1>17. at \in SUBSET (1..Len(rows))
  <2>1. \A i \in 1..end - 1 : i \in 1..Len(rows)
    BY <1>2
  <2>2. \A i \in at : i \in visible
    OBVIOUS
  <2> QED
    BY <2>1, <2>2, <1>10
<1>18. \A i : i \in at <=> i \in visible /\ i >= from
  OBVIOUS
<1> HIDE DEF at, earlier
<1>19. part \in Seq(Rows) /\ \E f : Within(part, rows, f)
              /\ \A i \in 1..Len(rows) : i \in at <=> \E k \in 1..Len(part) : f[k] = i
  BY <1>17, PickedFacts
<1>20. PICK f : /\ Within(part, rows, f)
                /\ \A i \in 1..Len(rows) : i \in at <=> \E k \in 1..Len(part) : f[k] = i
  BY <1>19
<1> HIDE DEF part
<1>21. Len(part) \in Nat /\ \A k \in 1..Len(part) : part[k] \in Rows
  BY <1>19
<1>22. turns \in Seq(Turns) /\ Len(turns) = Len(part)
  <2>1. \A k \in 1..Len(part) : Restored(part[k]) \in Turns
    BY <1>21, TurnFacts
  <2> QED
    BY <2>1, <1>21
<1>23. \A k \in 1..Len(part) : turns[k] = Restored(part[k])
  BY <1>21
<1> HIDE DEF turns
<1>24. \A k \in 1..Len(part) : f[k] \in 1..Len(rows) /\ f[k] \in at /\ part[k] = rows[f[k]]
  BY <1>20 DEF Within
<1>25. /\ \A k \in 1..Len(turns) : turns[k] = Restored(rows[f[k]]) /\ rows[f[k]] \notin gone
       /\ \A k \in 1..Len(turns) : f[k] \in from..end - 1
  <2> SUFFICES ASSUME NEW k \in 1..Len(turns)
               PROVE  turns[k] = Restored(rows[f[k]]) /\ rows[f[k]] \notin gone /\ f[k] \in from..end - 1
    OBVIOUS
  <2>1. k \in 1..Len(part) /\ f[k] \in at /\ part[k] = rows[f[k]] /\ turns[k] = Restored(part[k])
    BY <1>22, <1>23, <1>24
  <2>2. f[k] \in visible /\ f[k] >= from
    BY <2>1, <1>18
  <2>3. f[k] \in 1..end - 1 /\ rows[f[k]] \notin gone
    BY <2>2, <1>10
  <2>4. f[k] \in from..end - 1
    BY <2>2, <2>3, <1>13, <1>2
  <2> QED
    BY <2>1, <2>3, <2>4
<1>26. f \in [1..Len(turns) -> from..end - 1]
  BY <1>20, <1>22, <1>25 DEF Within
<1>27. \A k, l \in 1..Len(turns) : k < l => f[k] < f[l]
  BY <1>20, <1>22 DEF Within
<1>28. \A i \in from..end - 1 : rows[i] \notin gone => \E k \in 1..Len(turns) : f[k] = i
  <2> SUFFICES ASSUME NEW i \in from..end - 1, rows[i] \notin gone
               PROVE  \E k \in 1..Len(turns) : f[k] = i
    OBVIOUS
  <2>1. i \in 1..end - 1 /\ i \in 1..Len(rows) /\ i >= from
    BY <1>2, <1>13
  <2>2. i \in at
    BY <2>1, <1>9, <1>18
  <2> QED
    BY <2>1, <2>2, <1>20, <1>22
<1>29. earlier # 0 =>
          /\ from < end /\ rows[from] \notin gone
          /\ rows[from][3] = "said" /\ rows[from][1] \notin midway
          /\ \A i \in 1..from - 1 : rows[i] \in gone \/ rows[i][1] \in History
  <2> SUFFICES ASSUME earlier # 0
               PROVE  /\ from < end /\ rows[from] \notin gone
                      /\ rows[from][3] = "said" /\ rows[from][1] \notin midway
                      /\ \A i \in 1..from - 1 : rows[i] \in gone \/ rows[i][1] \in History
    OBVIOUS
  <2>1. from \in visible /\ rows[from][3] = "said" /\ rows[from][1] \notin midway
    BY <1>8, <1>14
  <2>2. \A i \in 1..from - 1 : i \in 1..end - 1 /\ i < from
    BY <1>2, <1>13
  <2> QED
    BY <2>1, <2>2, <1>2, <1>9, <1>10, <1>14
<1>30. earlier = 0 => \A i \in 1..from - 1 : rows[i] \in gone
  <2>2. \A i \in 1..from - 1 : i \in 1..end - 1 /\ i < from
    BY <1>2, <1>13
  <2> QED
    BY <2>2, <1>9, <1>15
<1>31. earlier \in Nat
  BY <1>13, <1>16
<1>32. a \in TurnAnswers /\ a.kind = kind /\ a.asked = end /\ a.rows = turns /\ a.earlier = earlier
  BY <1>1, <1>2, <1>22, <1>31 DEF TurnAnswers
<1> HIDE DEF a
<1>33. PageOf(a, end, from, f)
  BY <1>13, <1>16, <1>25, <1>26, <1>27, <1>28, <1>29, <1>30, <1>32 DEF PageOf
<1> QED
  BY <1>32, <1>33 DEF a
-----------------------------------------------------------------------------
(* Every step keeps the shape.                                             *)

\* What Core tells of its own accord.
News == {e \in Events : e.kind \notin {"page", "earlier"}}

\* Every event Core tells of its own accord is news.
LEMMA NewsFacts ==
    /\ \A m \in Msgs, item \in BOOLEAN, d \in Dispatches : UserEvent(m, item, d) \in News
    /\ \A q \in Seq(Items) : QueueEvent(q) \in News
    /\ \A m \in Own, o \in {"dispatched", "failed", "queued", "interjected"} :
          [kind |-> "sent", msg |-> m, outcome |-> o] \in News
    /\ \A ids \in SUBSET Rows : [kind |-> "deleted", rows |-> ids] \in News
    /\ \A e \in RunnerEvents : e \in News
    /\ \A q \in Seq(Items) : [kind |-> "snapshot", failed |-> FALSE, items |-> q] \in News
    /\ \A b \in BOOLEAN : [kind |-> "live", runOpen |-> b] \in News
    /\ \A d \in {"abort_sent", "already_stopped", "failed"} : [kind |-> "stopped", dispatch |-> d] \in News
BY DEF News, Events, UserEvent, UserEvents, QueueEvent, Lists, SendAnswers, Deletions,
       RunnerEvents, Snapshots, LiveAnswers, StopAnswers

\* An answer to a message's sender, alone or after other news.
LEMMA AnswerFacts ==
    ASSUME NEW m \in Msgs, NEW o \in {"dispatched", "failed", "queued", "interjected"}
    PROVE  /\ Answer(m, o) \in Seq(News)
           /\ \A e \in News : <<e>> \o Answer(m, o) \in Seq(News)
<1>1. Answer(m, o) \in Seq(News)
  <2>1. CASE m \in Own
    <3>1. [kind |-> "sent", msg |-> m, outcome |-> o] \in News
      BY <2>1, NewsFacts
    <3> QED
      BY <2>1, <3>1 DEF Answer
  <2>2. CASE m \notin Own
    BY <2>2 DEF Answer
  <2> QED
    BY <2>1, <2>2
<1>2. \A e \in News : <<e>> \o Answer(m, o) \in Seq(News)
  <2> TAKE e \in News
  <2>1. <<e>> \in Seq(News)
    OBVIOUS
  <2> QED
    BY <1>1, <2>1
<1> QED
  BY <1>1, <1>2

CoreGrows ==
    /\ CoreShape'
    /\ emits' \in Seq(Reported) /\ acts' \in Seq(Reported)
    /\ Len(rows) <= Len(rows')
    /\ \E new \in Seq(News) : wire' = wire \o new

\* No news is news of length 0.
LEMMA Nothing ==
    ASSUME wire \in Seq(Events), wire' = wire
    PROVE  \E new \in Seq(News) : wire' = wire \o new
<1>1. <<>> \in Seq(News) /\ wire \o <<>> = wire
  BY ConcatEmptySeq
<1> QED
  BY <1>1

\* News goes out, and the rows may have grown.
LEMMA NewsGoesOut ==
    ASSUME CoreShape', emits' = emits, acts' = acts, emits \in Seq(Reported),
           acts \in Seq(Reported), Len(rows) <= Len(rows'),
           NEW new, new \in Seq(News), wire' = wire \o new
    PROVE  CoreGrows
<1>1. \E n \in Seq(News) : wire' = wire \o n
  OBVIOUS
<1>2. emits' \in Seq(Reported) /\ acts' \in Seq(Reported)
  OBVIOUS
<1> QED
  BY <1>1, <1>2 DEF CoreGrows

\* Nothing goes out.
LEMMA NoNews ==
    ASSUME CoreShape', UNCHANGED <<emits, acts, wire>>, emits \in Seq(Reported),
           acts \in Seq(Reported), wire \in Seq(Events), Len(rows) <= Len(rows')
    PROVE  CoreGrows
BY Nothing DEF CoreGrows

\* The steps of a send keep Core's shape and only add to the wire.
LEMMA SendGrows ==
    ASSUME Shape, NEW m \in Msgs, Send(m) \/ RowFails(m) \/ WriteFails(m)
    PROVE  CoreGrows
<1>1. /\ CoreShape /\ rows \in Seq(Rows) /\ queue \in Seq(Items) /\ wire \in Seq(Events)
      /\ emits \in Seq(Reported) /\ acts \in Seq(Reported) /\ Len(rows) \in Nat
  BY DEF Shape, CoreShape, ChannelShape
<1>2. CASE Enqueue(m)
  <2> DEFINE item == [msg |-> m, inter |-> MayInterject]
  <2>1. MayInterject \in BOOLEAN
    BY <1>1 DEF MayInterject, CoreShape
  <2>2. item \in Items
    BY <2>1 DEF Items
  <2>3. queue' = Append(queue, item)
    BY <1>2 DEF Enqueue
  <2> HIDE DEF item
  <2>4. queue' \in Seq(Items)
    BY <1>1, <2>2, <2>3
  <2>5. QueueEvent(queue') \in News
    BY <2>4, NewsFacts
  <2>6. wire' = wire \o (<<QueueEvent(queue')>>
                          \o Answer(m, IF MayInterject THEN "interjected" ELSE "queued"))
    BY <1>2 DEF Enqueue, Announce
  <2>7. (<<QueueEvent(queue')>> \o Answer(m, IF MayInterject THEN "interjected" ELSE "queued"))
            \in Seq(News)
    BY <2>5, AnswerFacts
  <2>8. CoreShape' /\ rows' = rows /\ emits' = emits /\ acts' = acts
    BY <1>1, <1>2, <2>4 DEF Enqueue, Go, CoreShape
  <2>9. Len(rows) <= Len(rows')
    BY <1>1, <2>8
  <2> QED
    BY <1>1, <2>6, <2>7, <2>8, <2>9, NewsGoesOut, Zenon
<1>3. CASE Reserve(m)
  <2>1. rows' = Append(rows, Said(m)) /\ Said(m) \in Rows
    BY <1>3, SaidFacts DEF Reserve
  <2>2. rows' \in Seq(Rows) /\ Len(rows') = Len(rows) + 1
    BY <1>1, <2>1
  <2>3. CoreShape' /\ emits' = emits /\ acts' = acts /\ wire' = wire
    BY <1>1, <1>3, <2>2 DEF Reserve, Go, Silent, CoreShape
  <2> QED
    BY <1>1, <2>2, <2>3, NoNews
<1>4. CASE AnnouncePending(m)
  <2>1. UserEvent(m, FALSE, "pending") \in News
    BY NewsFacts DEF Dispatches
  <2>2. wire' = wire \o <<UserEvent(m, FALSE, "pending")>>
    BY <1>4 DEF AnnouncePending, Announce
  <2> DEFINE said == UserEvent(m, FALSE, "pending")
  <2>3. <<said>> \in Seq(News)
    <3>1. said \in News
      BY <2>1
    <3> HIDE DEF said
    <3> QED
      BY <3>1
  <2>4. CoreShape' /\ rows' = rows /\ emits' = emits /\ acts' = acts
    BY <1>1, <1>4 DEF AnnouncePending, Go, CoreShape
  <2>9. Len(rows) <= Len(rows')
    BY <1>1, <2>4
  <2> QED
    BY <1>1, <2>2, <2>3, <2>4, <2>9, NewsGoesOut, Zenon
<1>5. CASE Write(m)
  <2>1. run' \in [of : Msgs \cup {NoMsg}, step : 0..Steps, told : BOOLEAN]
    <3>1. 0 \in 0..Steps
      BY TranscriptAssumption
    <3> QED
      BY <1>5, <3>1 DEF Write, NoRun
  <2>2. CoreShape' /\ rows' = rows /\ emits' = emits /\ acts' = acts /\ wire' = wire
    BY <1>1, <1>5, <2>1 DEF Write, Go, Silent, CoreShape
  <2> QED
    BY <1>1, <2>2, NoNews
<1>6. CASE AnnounceDispatched(m)
  <2> DEFINE popped == UserEvent(m, TRUE, "dispatched")
             left == QueueEvent(queue)
             own == UserEvent(m, FALSE, "dispatched")
             taken == <<popped, left>>
             sent == <<own>> \o Answer(m, "dispatched")
  <2>1. popped \in News /\ left \in News /\ own \in News
    BY <1>1, NewsFacts DEF Dispatches
  <2>2. taken \in Seq(News) /\ sent \in Seq(News)
    <3> HIDE DEF popped, left, own
    <3>1. taken \in Seq(News)
      BY <2>1
    <3>2. sent \in Seq(News)
      BY <2>1, AnswerFacts
    <3> QED
      BY <3>1, <3>2
  <2>3. wire' = wire \o taken \/ wire' = wire \o sent
    BY <1>6 DEF AnnounceDispatched, Announce
  <2>4. CoreShape' /\ rows' = rows /\ emits' = emits /\ acts' = acts
    BY <1>1, <1>6 DEF AnnounceDispatched, Go, CoreShape
  <2> HIDE DEF taken, sent
  <2>9. Len(rows) <= Len(rows')
    BY <1>1, <2>4
  <2> QED
    BY <1>1, <2>2, <2>3, <2>4, <2>9, NewsGoesOut, Zenon
<1>7. CASE RowFails(m)
  <2>1. wire' = wire \o Answer(m, "failed") /\ Answer(m, "failed") \in Seq(News)
    BY <1>7, AnswerFacts DEF RowFails, Announce
  <2>2. CoreShape' /\ rows' = rows /\ emits' = emits /\ acts' = acts
    BY <1>1, <1>7 DEF RowFails, Go, CoreShape
  <2>9. Len(rows) <= Len(rows')
    BY <1>1, <2>2
  <2> QED
    BY <1>1, <2>1, <2>2, <2>9, NewsGoesOut, Zenon
<1>8. CASE WriteFails(m)
  <2> DEFINE popped == UserEvent(m, TRUE, "persisted_only")
             left == QueueEvent(queue)
             own == UserEvent(m, FALSE, "persisted_only")
             taken == <<popped, left>>
             sent == <<own>> \o Answer(m, "failed")
  <2>1. popped \in News /\ left \in News /\ own \in News
    BY <1>1, NewsFacts DEF Dispatches
  <2>2. taken \in Seq(News) /\ sent \in Seq(News)
    <3> HIDE DEF popped, left, own
    <3>1. taken \in Seq(News)
      BY <2>1
    <3>2. sent \in Seq(News)
      BY <2>1, AnswerFacts
    <3> QED
      BY <3>1, <3>2
  <2>3. wire' = wire \o taken \/ wire' = wire \o sent
    BY <1>8 DEF WriteFails, Announce
  <2>4. CoreShape' /\ rows' = rows /\ emits' = emits /\ acts' = acts
    BY <1>1, <1>8 DEF WriteFails, Go, CoreShape
  <2> HIDE DEF taken, sent
  <2>9. Len(rows) <= Len(rows')
    BY <1>1, <2>4
  <2> QED
    BY <1>1, <2>2, <2>3, <2>4, <2>9, NewsGoesOut, Zenon
<1> QED
  BY <1>2, <1>3, <1>4, <1>5, <1>6, <1>7, <1>8 DEF Send

\* What the runner reports goes both ways.
LEMMA ReportGrows ==
    ASSUME Shape, NEW new \in Seq(Reported), emits' = emits \o new, acts' = acts \o new,
           UNCHANGED RunnerRest, run' \in [of : Msgs \cup {NoMsg}, step : 0..Steps, told : BOOLEAN]
    PROVE  CoreGrows
<1>1. emits' \in Seq(Reported) /\ acts' \in Seq(Reported)
  BY DEF Shape, ChannelShape
<1>2. CoreShape' /\ rows' = rows /\ wire' = wire /\ wire \in Seq(Events) /\ Len(rows) \in Nat
  BY DEF Shape, ChannelShape, CoreShape, RunnerRest
<1>3. \E n \in Seq(News) : wire' = wire \o n
  BY <1>2, Nothing
<1>4. Len(rows) <= Len(rows')
  BY <1>2
<1> QED
  BY <1>1, <1>2, <1>3, <1>4, Zenon DEF CoreGrows

\* Appending is joining with a sequence of one.
LEMMA AppendAsConcat ==
    ASSUME NEW S, NEW s \in Seq(S), NEW x \in S
    PROVE  Append(s, x) = s \o <<x>> /\ <<x>> \in Seq(S)
<1>1. Append(s, x) = s \o <<x>>
  BY AppendIsConcat
<1>2. <<x>> \in Seq(S)
  OBVIOUS
<1> QED
  BY <1>1, <1>2

\* So do the steps of a runner.
LEMMA RunnerGrows ==
    ASSUME Shape, TellLine \/ EndStep \/ Complete \/ Exit
    PROVE  CoreGrows
<1>1. /\ run \in [of : Msgs \cup {NoMsg}, step : 0..Steps, told : BOOLEAN]
      /\ emits \in Seq(Reported) /\ acts \in Seq(Reported) /\ queue \in Seq(Items)
      /\ Steps \in Nat \ {0}
  BY TranscriptAssumption DEF Shape, CoreShape, ChannelShape
<1>2. ASSUME NEW e \in Reported, Reports(e), UNCHANGED RunnerRest,
             run' \in [of : Msgs \cup {NoMsg}, step : 0..Steps, told : BOOLEAN]
      PROVE  CoreGrows
  <2>1. emits' = emits \o <<e>> /\ acts' = acts \o <<e>> /\ <<e>> \in Seq(Reported)
    BY <1>1, <1>2, AppendAsConcat DEF Reports
  <2> QED
    BY <1>2, <2>1, ReportGrows
<1>3. CASE TellLine
  <2>1. run.of \in Msgs /\ run.step + 1 \in 1..Steps
    BY <1>1, <1>3 DEF TellLine, Working
  <2>2. [kind |-> "tell_user", row |-> Told(run.of, run.step + 1)] \in Reported
    BY <2>1, StepFacts DEF Reported, RunnerEvents
  <2>3. run' \in [of : Msgs \cup {NoMsg}, step : 0..Steps, told : BOOLEAN]
    BY <1>1, <1>3 DEF TellLine
  <2> QED
    BY <1>2, <1>3, <2>2, <2>3 DEF TellLine
<1>4. CASE Complete
  <2>1. [kind |-> "run_complete"] \in Reported
    BY DEF Reported, RunnerEvents
  <2>2. run' \in [of : Msgs \cup {NoMsg}, step : 0..Steps, told : BOOLEAN]
    BY <1>1, <1>4 DEF Complete, NoRun
  <2> QED
    BY <1>2, <1>4, <2>1, <2>2 DEF Complete
<1>5. CASE Exit
  <2>1. [kind |-> "closed"] \in Reported
    BY DEF Reported, RunnerEvents
  <2>2. run' \in [of : Msgs \cup {NoMsg}, step : 0..Steps, told : BOOLEAN]
    BY <1>1, <1>5 DEF Exit, NoRun
  <2> QED
    BY <1>2, <1>5, <2>1, <2>2 DEF Exit
<1>6. CASE EndStep
  <2> DEFINE end  == [kind |-> "turn_end", row |-> Step(run.of, run.step + 1)]
             said == {i \in DOMAIN queue : queue[i].inter}
             Read == [kind |-> "interject_delivered", msg |-> queue[Min(said)].msg]
  <2>1. run.of \in Msgs /\ run.step + 1 \in 1..Steps
    BY <1>1, <1>6 DEF EndStep, Working
  <2>2. end \in Reported
    BY <2>1, StepFacts DEF Reported, RunnerEvents
  <2>3. said # {} => Read \in Reported
    <3> SUFFICES ASSUME said # {}
                 PROVE  Read \in Reported
      OBVIOUS
    <3>1. said \in SUBSET Nat /\ said \subseteq 1..Len(queue)
      BY <1>1
    <3>2. Min(said) \in 1..Len(queue)
      <4> HIDE DEF said
      <4> QED
        BY <3>1, MinFacts
    <3>3. queue[Min(said)].msg \in Msgs
      <4>1. queue[Min(said)] \in Items
        <5> HIDE DEF said
        <5> QED
          BY <1>1, <3>2
      <4> QED
        BY <4>1 DEF Items
    <3> QED
      BY <3>3 DEF Reported
  <2>4. PICK new \in {<<end>>} \cup (IF said = {} THEN {} ELSE {<<end, Read>>}) :
            emits' = emits \o new /\ acts' = acts \o new
    BY <1>6 DEF EndStep
  <2>5. run' \in [of : Msgs \cup {NoMsg}, step : 0..Steps, told : BOOLEAN]
    <3>1. run' = [run EXCEPT !.step = @ + 1, !.told = FALSE] /\ run.step + 1 \in 0..Steps
      BY <1>1, <2>1, <1>6 DEF EndStep
    <3>2. PICK next : next = run.step + 1
      OBVIOUS
    <3>3. run' = [run EXCEPT !.step = next, !.told = FALSE] /\ next \in 0..Steps
      BY <3>1, <3>2
    <3> QED
      BY <1>1, <3>3
  <2>6. UNCHANGED RunnerRest
    BY <1>6 DEF EndStep
  <2>8. \/ new = <<end>>
        \/ said # {} /\ new = <<end, Read>>
    BY <2>4
  <2> HIDE DEF end, Read, said
  <2>7. new \in Seq(Reported)
    <3>1. CASE new = <<end>>
      BY <2>2, <3>1
    <3>2. CASE said # {} /\ new = <<end, Read>>
      BY <2>2, <2>3, <3>2
    <3> QED
      BY <2>8, <3>1, <3>2
  <2> QED
    BY <2>4, <2>5, <2>6, <2>7, ReportGrows
<1> QED
  BY <1>3, <1>4, <1>5, <1>6

\* An event leaves for the page.
LEMMA EmitGrows ==
    ASSUME Shape, Emit
    PROVE  CoreGrows
<1>1. /\ CoreShape /\ rows \in Seq(Rows) /\ wire \in Seq(Events) /\ Len(rows) \in Nat
      /\ emits \in Seq(Reported) /\ acts \in Seq(Reported) /\ emits # <<>>
  BY DEF Shape, CoreShape, ChannelShape, Emit
<1> DEFINE e == Head(emits)
<1>2. e \in Reported /\ Tail(emits) \in Seq(Reported)
  BY <1>1
<1>3. CoreShape' /\ rows' = rows /\ emits' = Tail(emits) /\ acts' = acts
  BY <1>1 DEF Emit, core, CoreShape
<1>4. emits' \in Seq(Reported) /\ acts' \in Seq(Reported) /\ Len(rows) <= Len(rows')
  BY <1>1, <1>2, <1>3
<1>5. \E new \in Seq(News) : wire' = wire \o new
  <2>1. CASE e.kind = "interject_delivered"
    <3>1. wire' = wire
      BY <2>1 DEF Emit, Silent
    <3> QED
      BY <3>1, <1>1, Nothing
  <2>2. CASE e.kind # "interject_delivered"
    <3>1. wire' = wire \o <<e>>
      BY <2>2 DEF Emit, Announce
    <3>2. e \in News
      BY <1>2, <2>2, ReportFacts, NewsFacts
    <3> HIDE DEF e
    <3>3. <<e>> \in Seq(News)
      BY <3>2
    <3> QED
      BY <3>1, <3>3
  <2> QED
    BY <2>1, <2>2
<1> QED
  BY <1>3, <1>4, <1>5, Zenon DEF CoreGrows

\* The watcher acts on what the runner reported.
LEMMA ActGrows ==
    ASSUME Shape, Act
    PROVE  CoreGrows
<1>1. /\ CoreShape /\ rows \in Seq(Rows) /\ wire \in Seq(Events) /\ Len(rows) \in Nat
      /\ emits \in Seq(Reported) /\ acts \in Seq(Reported) /\ acts # <<>> /\ queue \in Seq(Items)
  BY DEF Shape, CoreShape, ChannelShape, Act
<1> DEFINE e == Head(acts)
<1>2. e \in Reported /\ Tail(acts) \in Seq(Reported)
  BY <1>1
<1>3. /\ ActRow(e) \/ ActRead(e) \/ ActEnd(e)
      /\ acts' = Tail(acts) /\ UNCHANGED <<gone, run, lost, emits>>
  BY DEF Act
<1>4. emits' \in Seq(Reported) /\ acts' \in Seq(Reported)
  BY <1>1, <1>2, <1>3
<1> HIDE DEF e
<1>5. CASE ActRow(e)
  <2> DEFINE Line(r) == r[3] = "told" /\ r[1] = e.row[1] /\ r[2] = e.row[2]
             lines == {i \in DOMAIN rows : Line(rows[i])}
             at == Before(rows, lines)
  <2>1. e.row \in Rows
    BY <1>2, <1>5, ReportFacts DEF ActRow
  <2>2. \/ rows' = PutAfter(rows, at, e.row)
        \/ rows' = Append(rows, e.row)
    BY <1>5 DEF ActRow
  <2>3. lines \in SUBSET (1..Len(rows))
    BY <1>1
  <2>4. at \in 0..Len(rows)
    <3> HIDE DEF lines
    <3> QED
      BY <1>1, <2>3, BeforeFacts
  <2> HIDE DEF at
  <2>5. rows' \in Seq(Rows) /\ Len(rows') = Len(rows) + 1
    <3>1. CASE rows' = PutAfter(rows, at, e.row)
      BY <1>1, <2>1, <2>4, <3>1, PutAfterFacts DEF Inserted
    <3>2. CASE rows' = Append(rows, e.row)
      BY <1>1, <2>1, <3>2
    <3> QED
      BY <2>2, <3>1, <3>2
  <2>6. CoreShape' /\ wire' = wire
    BY <1>1, <1>3, <1>5, <2>5 DEF ActRow, Silent, CoreShape
  <2>a. \E new \in Seq(News) : wire' = wire \o new
    BY <1>1, <2>6, Nothing, Zenon
  <2>b. Len(rows) <= Len(rows')
    BY <1>1, <2>5
  <2>7. (\E new \in Seq(News) : wire' = wire \o new) /\ Len(rows) <= Len(rows')
    BY <2>a, <2>b
  <2> QED
    BY <1>4, <2>6, <2>7, Zenon DEF CoreGrows
<1>6. CASE ActRead(e)
  <2> DEFINE others == {i \in DOMAIN queue : queue[i].msg # e.msg}
             left == Picked(queue, others)
             said == UserEvent(e.msg, TRUE, "interjected")
  <2>1. e.msg \in Msgs
    BY <1>2, <1>6, ReportFacts DEF ActRead
  <2>2. CASE others # DOMAIN queue
    <3>1. /\ queue' = left /\ rows' = Append(rows, Said(e.msg))
          /\ midway' = midway \cup {e.msg}
          /\ wire' = wire \o <<said, QueueEvent(queue')>>
          /\ UNCHANGED <<gate, halting, pc>>
      BY <1>6, <2>2 DEF ActRead, Announce
    <3>2. others \in SUBSET (1..Len(queue))
      BY <1>1
    <3>3. left \in Seq(Items)
      <4> HIDE DEF others
      <4> QED
        BY <1>1, <3>2, PickedFacts
    <3>4. Said(e.msg) \in Rows
      BY <2>1, SaidFacts
    <3>5. rows' \in Seq(Rows) /\ Len(rows') = Len(rows) + 1
      BY <1>1, <3>1, <3>4
    <3>6. said \in News
      BY <2>1, NewsFacts DEF Dispatches
    <3> HIDE DEF left, said
    <3>7. PICK list : list = QueueEvent(queue')
      OBVIOUS
    <3>8. list \in News
      BY <3>1, <3>3, <3>7, NewsFacts
    <3>9. <<said, list>> \in Seq(News)
      BY <3>6, <3>8
    <3>10. \E new \in Seq(News) : wire' = wire \o new
      BY <3>1, <3>7, <3>9
    <3>11. CoreShape'
      BY <1>1, <1>3, <2>1, <3>1, <3>3, <3>5 DEF CoreShape
    <3>12. Len(rows) <= Len(rows')
      BY <1>1, <3>5
    <3> QED
      BY <1>4, <3>10, <3>11, <3>12, Zenon DEF CoreGrows
  <2>3. CASE others = DOMAIN queue
    <3>1. UNCHANGED <<queue, rows, midway, wire, gate, halting, pc>>
      BY <1>6, <2>3 DEF ActRead, Silent
    <3>2. CoreShape'
      BY <1>1, <1>3, <3>1 DEF CoreShape
    <3>3. (\E new \in Seq(News) : wire' = wire \o new) /\ Len(rows) <= Len(rows')
      BY <1>1, <3>1, Nothing
    <3> QED
      BY <1>4, <3>2, <3>3, Zenon DEF CoreGrows
  <2> QED
    BY <2>2, <2>3
<1>7. CASE ActEnd(e)
  <2>1. CASE e.kind = "closed" \/ queue = <<>>
    <3>1. gate' = FALSE /\ halting' = FALSE /\ UNCHANGED <<rows, queue, pc, midway, wire>>
      BY <1>7, <2>1 DEF ActEnd, Silent
    <3>2. CoreShape'
      BY <1>1, <1>3, <3>1 DEF CoreShape
    <3>3. (\E new \in Seq(News) : wire' = wire \o new) /\ Len(rows) <= Len(rows')
      BY <1>1, <3>1, Nothing
    <3> QED
      BY <1>4, <3>2, <3>3, Zenon DEF CoreGrows
  <2>2. CASE ~(e.kind = "closed" \/ queue = <<>>)
    <3> DEFINE m == Head(queue).msg
    <3>1. Head(queue) \in Items /\ Tail(queue) \in Seq(Items)
      BY <1>1, <2>2
    <3>2. m \in Msgs /\ Said(m) \in Rows
      BY <3>1, SaidFacts DEF Items
    <3> HIDE DEF m
    <3>3. /\ queue' = Tail(queue) /\ rows' = Append(rows, Said(m))
          /\ pc' = [pc EXCEPT ![m] = "drained"] /\ halting' = FALSE
          /\ UNCHANGED <<gate, midway, wire>>
      BY <1>7, <2>2 DEF ActEnd, Silent, Go, m
    <3>4. rows' \in Seq(Rows) /\ Len(rows') = Len(rows) + 1
      BY <1>1, <3>2, <3>3
    <3>5. CoreShape'
      BY <1>1, <1>3, <3>1, <3>3, <3>4 DEF CoreShape
    <3>6. (\E new \in Seq(News) : wire' = wire \o new) /\ Len(rows) <= Len(rows')
      <4>1. \E new \in Seq(News) : wire' = wire \o new
            BY <1>1, <3>3, <3>4, Nothing
      <4>2. Len(rows) <= Len(rows')
            BY <1>1, <3>3, <3>4, Nothing
      <4> QED
        BY <4>1, <4>2
    <3> QED
      BY <1>4, <3>5, <3>6, Zenon DEF CoreGrows
  <2> QED
    BY <2>1, <2>2
<1> QED
  BY <1>3, <1>5, <1>6, <1>7

\* A jump from the queue bar, and a deletion.
LEMMA CutGrows ==
    ASSUME Shape, (\E i \in 1..Len(queue) : Jump(i)) \/ (\E unit \in Units : Delete(unit))
    PROVE  CoreGrows
<1>1. /\ CoreShape /\ rows \in Seq(Rows) /\ wire \in Seq(Events) /\ Len(rows) \in Nat
      /\ emits \in Seq(Reported) /\ acts \in Seq(Reported) /\ queue \in Seq(Items)
  BY DEF Shape, CoreShape, ChannelShape
<1>2. ASSUME NEW i \in 1..Len(queue), Jump(i)
      PROVE  CoreGrows
  <2> DEFINE item == queue[i]
             rest == RemoveAt(queue, i)
             m == item.msg
  <2>1. item \in Items /\ rest \in Seq(Items)
    BY <1>1, RemoveAtFacts
  <2>2. m \in Msgs /\ Said(m) \in Rows
    BY <2>1, SaidFacts DEF Items
  <2> HIDE DEF item, rest
  <2>3. CASE gate
    <3>1. /\ queue' = <<item>> \o rest /\ halting' = TRUE
          /\ wire' = wire \o <<QueueEvent(queue')>>
          /\ UNCHANGED <<rows, gate, pc, gone, midway, run, lost, emits, acts>>
      BY <1>2, <2>3 DEF Jump, Announce, item, rest
    <3>2. queue' \in Seq(Items)
      BY <2>1, <3>1
    <3>3. PICK list : list = QueueEvent(queue')
      OBVIOUS
    <3>4. list \in News
      BY <3>2, <3>3, NewsFacts
    <3>5. <<list>> \in Seq(News) /\ wire' = wire \o <<list>>
      BY <3>1, <3>3, <3>4
    <3>6. CoreShape'
      BY <1>1, <3>1, <3>2 DEF CoreShape
    <3>7. (\E new \in Seq(News) : wire' = wire \o new) /\ Len(rows) <= Len(rows')
      <4>1. \E new \in Seq(News) : wire' = wire \o new
            BY <1>1, <3>1, <3>5
      <4>2. Len(rows) <= Len(rows')
            BY <1>1, <3>1, <3>5
      <4> QED
        BY <4>1, <4>2
    <3>8. emits' \in Seq(Reported) /\ acts' \in Seq(Reported)
      BY <1>1, <3>1
    <3> QED
      BY <3>6, <3>7, <3>8, Zenon DEF CoreGrows
  <2>4. CASE ~gate
    <3>1. /\ queue' = rest /\ rows' = Append(rows, Said(m))
          /\ pc' = [pc EXCEPT ![m] = "drained"] /\ gate' = TRUE
          /\ UNCHANGED <<wire, halting, gone, midway, run, lost, emits, acts>>
      BY <1>2, <2>4 DEF Jump, Silent, Go, item, rest
    <3>2. rows' \in Seq(Rows) /\ Len(rows') = Len(rows) + 1
      BY <1>1, <2>2, <3>1
    <3>3. CoreShape'
      BY <1>1, <2>1, <3>1, <3>2 DEF CoreShape
    <3>4. (\E new \in Seq(News) : wire' = wire \o new) /\ Len(rows) <= Len(rows')
      <4>1. \E new \in Seq(News) : wire' = wire \o new
            BY <1>1, <3>1, <3>2, Nothing
      <4>2. Len(rows) <= Len(rows')
            BY <1>1, <3>1, <3>2, Nothing
      <4> QED
        BY <4>1, <4>2
    <3>5. emits' \in Seq(Reported) /\ acts' \in Seq(Reported)
      BY <1>1, <3>1
    <3> QED
      BY <3>3, <3>4, <3>5, Zenon DEF CoreGrows
  <2> QED
    BY <2>3, <2>4
<1>3. ASSUME NEW unit \in Units, Delete(unit)
      PROVE  CoreGrows
  <2> DEFINE doomed == (unit \cap Written) \ gone
  <2>1. unit \in SUBSET Rows
    BY DEF Units, Rows
  <2>2. PICK e : e = [kind |-> "deleted", rows |-> doomed]
    OBVIOUS
  <2>3. e \in News
    BY <2>1, <2>2, NewsFacts
  <2>4. /\ gone' = gone \cup doomed /\ wire' = wire \o <<e>>
        /\ UNCHANGED <<rows, midway, gate, run, halting, queue, pc, lost, emits, acts>>
    BY <1>3, <2>2 DEF Delete, Announce
  <2>5. CoreShape'
    BY <1>1, <2>1, <2>4 DEF CoreShape
  <2>6. <<e>> \in Seq(News)
    BY <2>3
  <2>7. (\E new \in Seq(News) : wire' = wire \o new) /\ Len(rows) <= Len(rows')
    <3>1. \E new \in Seq(News) : wire' = wire \o new
        BY <1>1, <2>4, <2>6
    <3>2. Len(rows) <= Len(rows')
        BY <1>1, <2>4, <2>6
    <3> QED
      BY <3>1, <3>2
  <2>8. emits' \in Seq(Reported) /\ acts' \in Seq(Reported)
    BY <1>1, <2>4
  <2> QED
    BY <2>5, <2>7, <2>8, Zenon DEF CoreGrows
<1> QED
  BY <1>2, <1>3

\* All that Core does of its own accord.
LEMMA StepGrows ==
    ASSUME Shape, CoreStep
    PROVE  CoreGrows /\ UNCHANGED <<page, attach, found, calls>>
<1>1. UNCHANGED <<page, attach, found, calls>>
  BY DEF CoreStep, Ours, reattach
<1>2. \/ \E m \in Msgs : Send(m) \/ RowFails(m) \/ WriteFails(m)
      \/ TellLine \/ EndStep \/ Complete \/ Exit
      \/ Emit \/ Act
      \/ \E i \in 1..Len(queue) : Jump(i)
      \/ \E unit \in Units : Delete(unit)
  BY DEF CoreStep
<1> QED
  BY <1>1, <1>2, SendGrows, RunnerGrows, EmitGrows, ActGrows, CutGrows

\* What reaches the wire is an event, and where a page starts is in the rows.
LEMMA WireGrows ==
    ASSUME wire \in Seq(Events), NEW new \in Seq(Events), wire' = wire \o new,
           rows \in Seq(Rows), rows' \in Seq(Rows), Len(rows) <= Len(rows'),
           \A i \in 1..Len(wire) : wire[i] \in TurnAnswers => wire[i].earlier <= Len(rows),
           \A i \in 1..Len(new) : new[i] \in TurnAnswers => new[i].earlier <= Len(rows')
    PROVE  /\ wire' \in Seq(Events)
           /\ \A i \in 1..Len(wire') : wire'[i] \in TurnAnswers => wire'[i].earlier <= Len(rows')
<1>1. /\ wire' \in Seq(Events) /\ Len(wire') = Len(wire) + Len(new)
      /\ \A i \in 1..Len(wire) : wire'[i] = wire[i]
      /\ \A i \in Len(wire) + 1..Len(wire') : wire'[i] = new[i - Len(wire)]
  BY Joined
<1>2. Len(rows) \in Nat /\ Len(rows') \in Nat /\ Len(wire) \in Nat /\ Len(new) \in Nat
  OBVIOUS
<1>3. ASSUME NEW i \in 1..Len(wire'), wire'[i] \in TurnAnswers
      PROVE  wire'[i].earlier <= Len(rows')
  <2>1. CASE i <= Len(wire)
    <3>1. i \in 1..Len(wire) /\ wire'[i] = wire[i]
      BY <1>1, <1>2, <2>1
    <3>2. wire[i].earlier <= Len(rows) /\ wire[i].earlier \in Nat
      BY <1>3, <3>1 DEF TurnAnswers
    <3> QED
      BY <1>2, <3>1, <3>2
  <2>2. CASE i > Len(wire)
    <3>1. i \in Len(wire) + 1..Len(wire')
      BY <1>1, <1>2, <2>2
    <3>2. PICK k : k = i - Len(wire)
      OBVIOUS
    <3>3. k \in 1..Len(new) /\ wire'[i] = new[k]
      BY <1>1, <1>2, <3>1, <3>2
    <3> QED
      BY <1>3, <3>3
  <2> QED
    BY <1>1, <1>2, <2>1, <2>2
<1> QED
  BY <1>1, <1>3

\* No page of the conversation is among the news.
LEMMA NewsIsEvents ==
    ASSUME NEW new \in Seq(News)
    PROVE  new \in Seq(Events) /\ \A i \in 1..Len(new) : new[i] \notin TurnAnswers
<1>1. News \subseteq Events
  BY DEF News
<1>2. \A i \in 1..Len(new) : new[i] \in News
  OBVIOUS
<1>3. \A e \in News : e \notin TurnAnswers
  BY DEF News, TurnAnswers
<1>4. new \in Seq(Events)
  BY <1>1
<1> QED
  BY <1>2, <1>3, <1>4

\* Every step of Core keeps the shape.
LEMMA CoreStepShape ==
    ASSUME Shape, CoreStep
    PROVE  Shape'
<1>1. CoreGrows /\ UNCHANGED <<page, attach, found, calls>>
  BY StepGrows
<1>2. PICK new \in Seq(News) : wire' = wire \o new
  BY <1>1 DEF CoreGrows
<1>3. new \in Seq(Events) /\ \A i \in 1..Len(new) : new[i] \notin TurnAnswers
  BY NewsIsEvents
<1>4. /\ CoreShape' /\ emits' \in Seq(Reported) /\ acts' \in Seq(Reported)
      /\ Len(rows) <= Len(rows') /\ rows \in Seq(Rows) /\ rows' \in Seq(Rows)
      /\ wire \in Seq(Events) /\ StartsWithin
      /\ Len(rows) \in Nat /\ Len(rows') \in Nat
  BY <1>1 DEF CoreGrows, Shape, CoreShape, ChannelShape
<1>5. /\ wire' \in Seq(Events)
      /\ \A i \in 1..Len(wire') : wire'[i] \in TurnAnswers => wire'[i].earlier <= Len(rows')
  BY <1>2, <1>3, <1>4, WireGrows DEF StartsWithin
<1>6. ChannelShape' /\ PageShape'
  BY <1>1, <1>4, <1>5 DEF Shape, ChannelShape, PageShape
<1>7. page'.earlier <= Len(rows')
  <2>1. page.earlier \in Nat /\ page.earlier <= Len(rows)
    BY <1>4 DEF Shape, PageShape, Pages, StartsWithin
  <2> QED
    BY <1>1, <1>4, <2>1
<1> QED
  BY <1>4, <1>5, <1>6, <1>7 DEF Shape, StartsWithin

\* Before the first row there is nothing to read.
LEMMA EmptyPage ==
    ASSUME rows \in Seq(Rows)
    PROVE  LET a == TurnsPage("earlier", 0)
           IN  a \in TurnAnswers /\ a.kind = "earlier" /\ a.asked = 0 /\ a.earlier = 0
<1> DEFINE visible == {i \in 1..0 - 1 : rows[i] \notin gone}
           part == Picked(rows, {i \in visible : i >= 0})
           turns == [i \in 1..Len(part) |-> Restored(part[i])]
           a == TurnsPage("earlier", 0)
<1>1. visible = {}
  OBVIOUS
<1>2. a = [kind |-> "earlier", failed |-> FALSE, asked |-> 0, rows |-> turns, earlier |-> 0]
  BY <1>1 DEF TurnsPage
<1>3. part \in Seq(Rows)
  <2>1. {i \in visible : i >= 0} \in SUBSET (1..Len(rows))
    BY <1>1
  <2> HIDE DEF visible
  <2> QED
    BY <2>1, PickedFacts
<1> HIDE DEF part
<1>4. \A i \in 1..Len(part) : Restored(part[i]) \in Turns
  BY <1>3, TurnFacts
<1>5. turns \in Seq(Turns)
  BY <1>3, <1>4
<1> HIDE DEF turns, a
<1>6. a \in TurnAnswers /\ a.kind = "earlier" /\ a.asked = 0 /\ a.earlier = 0
  BY <1>2, <1>5 DEF TurnAnswers
<1> QED
  BY <1>6 DEF a

\* An answer of Core is an event and starts within the rows.
LEMMA AnswerShape ==
    ASSUME Shape, ReadLatest \/ ReadEarlier \/ ReadQueue \/ AnswerStop \/ ListRunners \/ StopFails
                  \/ \E call \in {"page", "earlier", "queue"} : ReadFails(call)
    PROVE  /\ CoreShape' /\ UNCHANGED <<rows, emits, acts>> /\ calls' \subseteq calls
           /\ \E e \in Events : wire' = wire \o <<e>>
                                /\ (e \in TurnAnswers => e.earlier <= Len(rows))
<1>1. /\ CoreShape /\ rows \in Seq(Rows) /\ queue \in Seq(Items) /\ page \in Pages
      /\ page.earlier \in Nat /\ page.earlier <= Len(rows) /\ Len(rows) \in Nat
  BY DEF Shape, CoreShape, PageShape, Pages, StartsWithin
<1>2. \A e \in News : e \in Events /\ e \notin TurnAnswers
  BY DEF News, TurnAnswers
<1>3. CASE ReadLatest
  <2> DEFINE e == TurnsPage("page", Len(rows) + 1)
  <2>1. Len(rows) + 1 \in 1..Len(rows) + 1
    BY <1>1
  <2>2. e \in TurnAnswers /\ \E from, f : PageOf(e, Len(rows) + 1, from, f)
    BY <1>1, <2>1, TurnsPageFacts
  <2> HIDE DEF e
  <2>3. PICK from, f : PageOf(e, Len(rows) + 1, from, f)
    BY <2>2
  <2>4. e.earlier <= Len(rows)
    BY <1>1, <2>3 DEF PageOf
  <2>5. wire' = wire \o <<e>> /\ calls' = calls \ {"page"} /\ UNCHANGED CoreRest
    BY <1>3 DEF ReadLatest, Announce, Answered, e
  <2>6. e \in Events
    BY <2>2 DEF Events
  <2>7. CoreShape' /\ UNCHANGED <<rows, emits, acts>>
    BY <1>1, <2>5 DEF CoreRest, core, CoreShape
  <2> QED
    BY <2>4, <2>5, <2>6, <2>7
<1>4. CASE ReadEarlier
  <2> DEFINE e == TurnsPage("earlier", page.earlier)
  <2>1. e \in TurnAnswers /\ e.earlier <= Len(rows)
    <3>1. CASE page.earlier = 0
      BY <1>1, <3>1, EmptyPage
    <3>2. CASE page.earlier # 0
      <4>1. page.earlier \in 1..Len(rows) + 1
        BY <1>1, <3>2
      <4>2. e \in TurnAnswers /\ \E from, f : PageOf(e, page.earlier, from, f)
        BY <1>1, <4>1, TurnsPageFacts
      <4> HIDE DEF e
      <4>3. PICK from, f : PageOf(e, page.earlier, from, f)
        BY <4>2
      <4>4. e.earlier <= Len(rows)
        BY <1>1, <4>3 DEF PageOf
      <4> QED
        BY <4>2, <4>4
    <3> QED
      BY <3>1, <3>2
  <2> HIDE DEF e
  <2>2. wire' = wire \o <<e>> /\ calls' = calls \ {"earlier"} /\ UNCHANGED CoreRest
    BY <1>4 DEF ReadEarlier, Announce, Answered, e
  <2>3. e \in Events
    BY <2>1 DEF Events
  <2>4. CoreShape' /\ UNCHANGED <<rows, emits, acts>>
    BY <1>1, <2>2 DEF CoreRest, core, CoreShape
  <2> QED
    BY <2>1, <2>2, <2>3, <2>4
<1>5. CASE ReadQueue
  <2> DEFINE e == [kind |-> "snapshot", failed |-> FALSE, items |-> queue]
  <2>1. e \in Events /\ e \notin TurnAnswers
    BY <1>1, <1>2, NewsFacts
  <2>2. wire' = wire \o <<e>> /\ calls' = calls \ {"queue"} /\ UNCHANGED CoreRest
    BY <1>5 DEF ReadQueue, Announce, Answered
  <2> HIDE DEF e
  <2>3. CoreShape' /\ UNCHANGED <<rows, emits, acts>>
    BY <1>1, <2>2 DEF CoreRest, core, CoreShape
  <2> QED
    BY <2>1, <2>2, <2>3
<1>6. CASE AnswerStop
  <2>1. PICK sent \in BOOLEAN :
           /\ wire' = wire \o <<[kind |-> "stopped",
                                 dispatch |-> IF sent THEN "abort_sent" ELSE "already_stopped"]>>
           /\ halting' = (halting \/ sent)
    BY <1>6 DEF AnswerStop, Announce
  <2>2. PICK e : e = [kind |-> "stopped",
                      dispatch |-> IF sent THEN "abort_sent" ELSE "already_stopped"]
    OBVIOUS
  <2>3. e \in Events /\ e \notin TurnAnswers
    BY <1>2, <2>2, NewsFacts
  <2>4. /\ calls' = calls \ {"stop"}
        /\ UNCHANGED <<rows, gone, midway, gate, run, queue, pc, lost, emits, acts>>
    BY <1>6 DEF AnswerStop, Answered
  <2>5. halting' \in BOOLEAN
    BY <1>1, <2>1 DEF CoreShape
  <2>6. CoreShape'
    BY <1>1, <2>4, <2>5 DEF CoreShape
  <2> QED
    BY <2>1, <2>2, <2>3, <2>4, <2>6
<1>7. CASE ListRunners
  <2> DEFINE e == [kind |-> "live", runOpen |-> gate]
  <2>1. e \in Events /\ e \notin TurnAnswers
    BY <1>1, <1>2, NewsFacts DEF CoreShape
  <2>2. wire' = wire \o <<e>> /\ calls' = calls \ {"live"} /\ UNCHANGED CoreRest
    BY <1>7 DEF ListRunners, Announce, Answered
  <2> HIDE DEF e
  <2>3. CoreShape' /\ UNCHANGED <<rows, emits, acts>>
    BY <1>1, <2>2 DEF CoreRest, core, CoreShape
  <2> QED
    BY <2>1, <2>2, <2>3
<1>8. CASE \E call \in {"page", "earlier", "queue"} : ReadFails(call)
  <2>1. PICK call \in {"page", "earlier", "queue"} : ReadFails(call)
    BY <1>8
  <2>2. PICK e : e = [kind |-> IF call = "queue" THEN "snapshot" ELSE call, failed |-> TRUE]
    OBVIOUS
  <2>3. e \in Events /\ e \notin TurnAnswers
    BY <2>2 DEF Events, Failures, TurnAnswers
  <2>4. wire' = wire \o <<e>> /\ calls' = calls \ {call} /\ UNCHANGED CoreRest
    BY <2>1, <2>2 DEF ReadFails, Announce, Answered
  <2>5. CoreShape' /\ UNCHANGED <<rows, emits, acts>>
    BY <1>1, <2>4 DEF CoreRest, core, CoreShape
  <2> QED
    BY <2>3, <2>4, <2>5
<1>9. CASE StopFails
  <2> DEFINE e == [kind |-> "stopped", dispatch |-> "failed"]
  <2>1. e \in Events /\ e \notin TurnAnswers
    BY <1>2, NewsFacts
  <2>2. wire' = wire \o <<e>> /\ calls' = calls \ {"stop"} /\ UNCHANGED CoreRest
    BY <1>9 DEF StopFails, Announce, Answered
  <2> HIDE DEF e
  <2>3. CoreShape' /\ UNCHANGED <<rows, emits, acts>>
    BY <1>1, <2>2 DEF CoreRest, core, CoreShape
  <2> QED
    BY <2>1, <2>2, <2>3
<1> QED
  BY <1>3, <1>4, <1>5, <1>6, <1>7, <1>8, <1>9

\* So does every answer of Core.
LEMMA CoreAnswerShape ==
    ASSUME Shape, CoreAnswer \/ CoreFails
    PROVE  Shape'
<1>1. /\ ReadLatest \/ ReadEarlier \/ ReadQueue \/ AnswerStop \/ ListRunners \/ StopFails
         \/ \E call \in {"page", "earlier", "queue"} : ReadFails(call)
      /\ UNCHANGED <<page, attach, found>>
  BY DEF CoreAnswer, CoreFails, reattach
<1>2. CoreShape' /\ UNCHANGED <<rows, emits, acts>> /\ calls' \subseteq calls
  BY <1>1, AnswerShape
<1>3. PICK e \in Events : wire' = wire \o <<e>> /\ (e \in TurnAnswers => e.earlier <= Len(rows))
  BY <1>1, AnswerShape
<1>4. PICK new : new = <<e>>
  OBVIOUS
<1>5. /\ new \in Seq(Events) /\ wire' = wire \o new
      /\ \A i \in 1..Len(new) : new[i] \in TurnAnswers => new[i].earlier <= Len(rows')
  BY <1>2, <1>3, <1>4
<1>6. rows \in Seq(Rows) /\ rows' = rows /\ wire \in Seq(Events) /\ StartsWithin /\ Len(rows) \in Nat
  BY <1>2 DEF Shape, CoreShape, ChannelShape
<1>7. /\ wire' \in Seq(Events)
      /\ \A i \in 1..Len(wire') : wire'[i] \in TurnAnswers => wire'[i].earlier <= Len(rows')
  <2>1. rows' \in Seq(Rows) /\ Len(rows) <= Len(rows')
    BY <1>6
  <2>2. \A i \in 1..Len(wire) : wire[i] \in TurnAnswers => wire[i].earlier <= Len(rows)
    BY <1>6 DEF StartsWithin
  <2> QED
    BY <1>5, <1>6, <2>1, <2>2, WireGrows
<1>8. ChannelShape' /\ PageShape'
  <2>1. UNCHANGED <<page, attach, found>>
    BY <1>1
  <2> QED
    BY <2>1, <1>2, <1>7 DEF Shape, ChannelShape, PageShape
<1> QED
  BY <1>1, <1>2, <1>6, <1>7, <1>8 DEF Shape, StartsWithin

\* Something else of Core's calls goes out, or nothing.
LEMMA AttachShape ==
    ASSUME Shape, NEW b \in BOOLEAN, AttachLive(b)
    PROVE  found' \in BOOLEAN /\ attach' \in {"reading", "listening"} /\ calls' \subseteq Calls
BY DEF AttachLive, Ask, Shape, ChannelShape, Calls

\* The page's own steps.
LEMMA PageStepShape ==
    ASSUME Shape, PageStep
    PROVE  Shape'
<1>1. /\ CoreShape /\ ChannelShape /\ PageShape /\ StartsWithin
      /\ page \in Pages /\ calls \subseteq Calls /\ wire \in Seq(Events)
  BY DEF Shape, ChannelShape, PageShape
<1>2. ASSUME NEW m \in Own, Submit(m)
      PROVE  Shape'
  <2> DEFINE q == IF page.running \/ page.stopping THEN page ELSE Echo(page, m)
  <2>1. q \in Pages /\ q.earlier = page.earlier
    BY <1>1, EchoFacts DEF Stays
  <2>2. page' = [q EXCEPT !.sends = @ \cup {m}]
    BY <1>2 DEF Submit
  <2> HIDE DEF q
  <2>3. page' \in Pages /\ page'.earlier = page.earlier
    BY <2>1, <2>2 DEF Pages
  <2>4. CoreShape'
    BY <1>1, <1>2 DEF Submit, Go, CoreShape
  <2>5. UNCHANGED <<rows, channel, reattach>>
    BY <1>2 DEF Submit
  <2> QED
    BY <1>1, <2>3, <2>4, <2>5
    DEF Shape, ChannelShape, PageShape, StartsWithin, channel, reattach
<1>3. CASE AskStop
  <2>1. page' \in Pages /\ page'.earlier = page.earlier
    BY <1>1, <1>3 DEF AskStop, Pages
  <2>2. calls' \subseteq Calls
    BY <1>1, <1>3 DEF AskStop, Ask, Calls
  <2>3. UNCHANGED <<core, emits, acts, wire, reattach>>
    BY <1>3 DEF AskStop
  <2> QED
    BY <1>1, <2>1, <2>2, <2>3
    DEF Shape, CoreShape, ChannelShape, PageShape, StartsWithin, core, reattach
<1>4. CASE Activate
  <2>1. page' \in Pages /\ page'.earlier = page.earlier
    BY <1>1, <1>4 DEF Activate, Pages
  <2>2. calls' \subseteq Calls
    BY <1>1, <1>4 DEF Activate, Calls
  <2>3. UNCHANGED <<core, emits, acts, wire, reattach>>
    BY <1>4 DEF Activate
  <2> QED
    BY <1>1, <2>1, <2>2, <2>3
    DEF Shape, CoreShape, ChannelShape, PageShape, StartsWithin, core, reattach
<1>5. CASE LoadEarlier
  <2>1. calls' \subseteq Calls
    BY <1>1, <1>5 DEF LoadEarlier, Ask, Calls
  <2>2. UNCHANGED <<core, emits, acts, wire, page, reattach>>
    BY <1>5 DEF LoadEarlier
  <2> QED
    BY <1>1, <2>1, <2>2
    DEF Shape, CoreShape, ChannelShape, PageShape, StartsWithin, core, reattach
<1>6. CASE Reload
  <2>1. page' = [FreshPage EXCEPT !.listening = FALSE]
    BY <1>6 DEF Reload
  <2>2. page' \in Pages /\ page'.earlier = 0
    <3>1. page'.earlier = FreshPage.earlier
      BY <2>1 DEF FreshPage
    <3> QED
      BY <2>1, <3>1, FreshPageFacts
  <2>3. calls' \subseteq Calls
    BY <1>1, <1>6 DEF Reload, Calls
  <2>4. attach' = "asked" /\ found' = FALSE /\ wire' = <<>> /\ UNCHANGED <<core, emits, acts>>
    BY <1>6 DEF Reload
  <2>5. wire' \in Seq(Events) /\ Len(wire') = 0
    BY <2>4
  <2>6. Len(rows') \in Nat /\ rows' = rows
    BY <1>1, <2>4 DEF core, CoreShape
  <2>7. StartsWithin'
    BY <2>2, <2>5, <2>6 DEF StartsWithin
  <2>8. CoreShape'
    BY <1>1, <2>4 DEF core, CoreShape
  <2> QED
    BY <1>1, <2>2, <2>3, <2>4, <2>5, <2>7, <2>8 DEF Shape, ChannelShape, PageShape
<1>7. CASE ListenUp
  <2> DEFINE q == IF found THEN SetRunning(page, TRUE) ELSE page
  <2>1. q \in Pages /\ q.earlier = page.earlier
    BY <1>1, SetRunningFacts DEF Stays
  <2>2. page' = [q EXCEPT !.listening = TRUE]
    BY <1>7 DEF ListenUp
  <2> HIDE DEF q
  <2>3. page' \in Pages /\ page'.earlier = page.earlier
    BY <2>1, <2>2 DEF Pages
  <2>4. attach' = "none" /\ UNCHANGED <<core, channel, found>>
    BY <1>7 DEF ListenUp
  <2> QED
    BY <1>1, <2>3, <2>4
    DEF Shape, CoreShape, ChannelShape, PageShape, StartsWithin, core, channel
<1>8. ASSUME NEW i \in 1..Len(wire), Receive(i)
      PROVE  Shape'
  <2> DEFINE e == wire[i]
  <2>1. e \in Events
    BY <1>1
  <2>2. /\ page' = Handled(page, e) /\ wire' = RemoveAt(wire, i)
        /\ \/ e.kind = "live" /\ AttachLive(e.runOpen)
           \/ attach' \in {"listening", attach} /\ UNCHANGED <<found, calls>>
        /\ UNCHANGED <<core, emits, acts>>
    BY <1>8 DEF Receive
  <2>3. page' \in Pages /\ (page'.earlier \in {0, page.earlier}
                            \/ (e \in TurnAnswers /\ page'.earlier = e.earlier))
    BY <1>1, <2>1, <2>2, HandledPage
  <2>4. /\ wire' \in Seq(Events) /\ Len(wire') = Len(wire) - 1
        /\ \A k \in 1..i - 1 : wire'[k] = wire[k]
        /\ \A k \in i..Len(wire) - 1 : wire'[k] = wire[k + 1]
    BY <1>1, <2>2, RemoveAtFacts
  <2>5. Len(wire) \in Nat /\ Len(rows) \in Nat /\ page.earlier <= Len(rows) /\ rows' = rows
    BY <1>1, <2>2 DEF CoreShape, StartsWithin, core
  <2>6. page'.earlier <= Len(rows')
    BY <1>1, <2>3, <2>5 DEF StartsWithin
  <2>7. \A k \in 1..Len(wire') : \E l \in 1..Len(wire) : wire'[k] = wire[l]
    <3> TAKE k \in 1..Len(wire')
    <3>1. CASE k < i
      <4>1. k \in 1..i - 1 /\ k \in 1..Len(wire)
        BY <2>4, <2>5, <3>1
      <4> QED
        BY <2>4, <4>1
    <3>2. CASE k >= i
      <4>1. k \in i..Len(wire) - 1
        BY <2>4, <2>5, <3>2
      <4>2. PICK l : l = k + 1
        OBVIOUS
      <4>3. l \in 1..Len(wire) /\ wire'[k] = wire[l]
        BY <2>4, <2>5, <4>1, <4>2
      <4> QED
        BY <4>3
    <3> QED
      BY <2>4, <2>5, <3>1, <3>2
  <2>8. StartsWithin'
    BY <1>1, <2>5, <2>6, <2>7 DEF StartsWithin
  <2>9. attach' \in {"none", "asked", "reading", "listening"} /\ found' \in BOOLEAN
        /\ calls' \subseteq Calls
    <3>1. CASE e.kind = "live" /\ AttachLive(e.runOpen)
      <4>1. e.runOpen \in BOOLEAN
        BY <2>1, <3>1, EventFacts DEF LiveAnswers
      <4> HIDE DEF e
      <4> QED
        BY <3>1, <4>1, AttachShape
    <3>2. CASE attach' \in {"listening", attach} /\ UNCHANGED <<found, calls>>
      BY <1>1, <3>2 DEF PageShape
    <3> QED
      BY <2>2, <3>1, <3>2
  <2>10. CoreShape'
    BY <1>1, <2>2 DEF core, CoreShape
  <2>11. ChannelShape'
    BY <1>1, <2>2, <2>4, <2>9 DEF ChannelShape
  <2>12. PageShape'
    BY <2>3, <2>9 DEF PageShape
  <2> QED
    BY <2>8, <2>10, <2>11, <2>12 DEF Shape
<1> QED
  BY <1>2, <1>3, <1>4, <1>5, <1>6, <1>7, <1>8 DEF PageStep

\* A step that changes nothing.
LEMMA StutterShape ==
    ASSUME Shape, UNCHANGED vars
    PROVE  Shape'
BY DEF Shape, CoreShape, ChannelShape, PageShape, StartsWithin, vars, core, channel, reattach

\* So does every step of the system.
LEMMA NextShape ==
    ASSUME Shape, [Next]_vars
    PROVE  Shape'
BY CoreStepShape, CoreAnswerShape, PageStepShape, StutterShape DEF Next

\* The past is in some order.
LEMMA PastFacts ==
    LET past == SetToSeq(History)
    IN  past \in Seq(History) /\ \A i, j \in 1..Len(past) : past[i] = past[j] => i = j
<1> DEFINE n == Cardinality(History)
           past == SetToSeq(History)
<1>1. n \in Nat /\ ExistsBijection(1..n, History)
  BY TranscriptAssumption, FS_CardinalityType
<1>2. \E f \in [1..n -> History] : IsInjective(f)
  BY <1>1 DEF ExistsBijection, Bijection, Injection
<1>3. past \in [1..n -> History] /\ IsInjective(past)
  BY <1>2 DEF SetToSeq
<1> HIDE DEF past, n
<1>4. past \in Seq(History)
  BY <1>1, <1>3
<1>5. \A i, j \in 1..Len(past) : past[i] = past[j] => i = j
  <2>1. DOMAIN past = 1..Len(past)
    BY <1>4
  <2>2. \A i, j \in DOMAIN past : past[i] = past[j] => i = j
    BY <1>3 DEF IsInjective
  <2> QED
    BY <2>1, <2>2
<1> QED
  BY <1>4, <1>5 DEF past

\* The rows before the first message of this launch: each message is
\* followed by its reply.
LEMMA PastRows ==
    ASSUME Init
    PROVE  \E past, blk, off :
              LET pairs == [i \in 1..Len(past) |-> <<Said(past[i]), Step(past[i], 1)>>]
              IN  /\ past \in Seq(History)
                  /\ \A i, j \in 1..Len(past) : past[i] = past[j] => i = j
                  /\ rows \in Seq(Rows) /\ Strung(rows, pairs, blk, off)
<1> DEFINE past == SetToSeq(History)
           pairs == [i \in 1..Len(past) |-> <<Said(past[i]), Step(past[i], 1)>>]
<1>1. past \in Seq(History) /\ \A i, j \in 1..Len(past) : past[i] = past[j] => i = j
  BY PastFacts
<1>2. rows = FlattenSeq(pairs)
  BY DEF Init
<1> HIDE DEF past
<1>3. ASSUME NEW i \in 1..Len(past)
      PROVE  <<Said(past[i]), Step(past[i], 1)>> \in Seq(Rows)
  <2>1. past[i] \in Msgs /\ 1 \in 1..Steps
    BY <1>1, TranscriptAssumption
  <2>2. PICK a, b : a = Said(past[i]) /\ b = Step(past[i], 1)
    OBVIOUS
  <2>3. a \in Rows /\ b \in Rows
    BY <2>1, <2>2, SaidFacts, StepFacts
  <2> QED
    BY <2>2, <2>3
<1>4. pairs \in Seq(Seq(Rows))
  BY <1>1, <1>3
<1> HIDE DEF pairs
<1>5. rows \in Seq(Rows) /\ \E blk, off : Strung(rows, pairs, blk, off)
  BY <1>2, <1>4, FlattenFacts
<1>6. PICK blk, off : Strung(rows, pairs, blk, off)
  BY <1>5
<1> USE DEF pairs
<1> QED
  BY <1>1, <1>5, <1>6

\* The shape holds at the start.
LEMMA InitShape ==
    ASSUME Init
    PROVE  Shape
<1>1. rows \in Seq(Rows)
  BY PastRows
<1>2. 0 \in 0..Steps
  BY TranscriptAssumption
<1>3. CoreShape
  <2>1. run \in [of : Msgs \cup {NoMsg}, step : 0..Steps, told : BOOLEAN]
    BY <1>2 DEF Init, NoRun
  <2>2. pc \in [Msgs -> {"new", "sent", "saved", "pending", "written", "drained",
                       "taken", "over"}]
    BY DEF Init
  <2>3. queue \in Seq(Items)
    BY DEF Init
  <2>4. /\ gone \subseteq Rows /\ midway \subseteq Msgs /\ lost \subseteq Msgs
        /\ gate \in BOOLEAN /\ halting \in BOOLEAN
    BY DEF Init
  <2> QED
    BY <1>1, <2>1, <2>2, <2>3, <2>4 DEF CoreShape
<1>4. ChannelShape
  BY DEF Init, ChannelShape
<1>5. PageShape /\ page.earlier = 0
  BY FreshPageFacts DEF Init, PageShape
<1>6. wire = <<>>
  BY DEF Init
<1>7. Len(rows) \in Nat /\ Len(wire) = 0
  BY <1>1, <1>6
<1>8. StartsWithin
  BY <1>5, <1>7 DEF StartsWithin
<1> QED
  BY <1>3, <1>4, <1>5, <1>8 DEF Shape

\* The shape is all that TypeOK asks for.
LEMMA ShapeTypes ==
    ASSUME Shape
    PROVE  TypeOK
<1>1. /\ CoreShape /\ rows \in Seq(Rows) /\ page \in Pages /\ found \in BOOLEAN
  BY DEF Shape, CoreShape, PageShape
<1>2. ToSet(rows) \subseteq Rows
  BY <1>1 DEF ToSet
<1>3. \A i \in 1..Len(page.turns) : page.turns[i].row \in Rows
  <2>1. page.turns \in Seq(Turns)
    BY <1>1 DEF Pages
  <2>2. \A i \in 1..Len(page.turns) : page.turns[i] \in Turns
    BY <2>1
  <2> QED
    BY <2>2 DEF Turns
<1>4. page.phase \in Phases /\ page.owner \in Own \cup {NoMsg}
  BY <1>1 DEF Pages
<1>5. {gate, halting, found} \subseteq BOOLEAN
  BY <1>1 DEF CoreShape
<1> QED
  BY <1>1, <1>2, <1>3, <1>4, <1>5 DEF TypeOK, CoreShape

\* Type correctness, whatever races and whatever cuts in.
THEOREM ShapeInvariant == Spec => []Shape
<1>1. Init => Shape
  BY InitShape
<1>2. Shape /\ [Next]_vars => Shape'
  BY NextShape
<1> QED
  BY <1>1, <1>2, PTL DEF Spec

\* Core's state and the page's have their types in every state: every row
\* names a message, a turn drawn a row, and so on.
THEOREM TypesKept == Spec => []TypeOK
<1>1. Shape => TypeOK
  BY ShapeTypes
<1> QED
  BY <1>1, ShapeInvariant, PTL

-----------------------------------------------------------------------------
(* Sequences that grow at their end and are taken from at their front.     *)

\* Some element is in A; those in A come before those in B; one is in A.
On(s, A)         == \E i \in 1..Len(s) : s[i] \in A
Ordered(s, A, B) == \A i, j \in 1..Len(s) : s[i] \in A /\ s[j] \in B => i < j
OneOf(s, A)      == \A i, j \in 1..Len(s) : s[i] \in A /\ s[j] \in A => i = j

\* Before each in B, after each in A, between an A and a later B there is
\* one of the other set.
Led(s, A, B)     == \A j \in 1..Len(s) : s[j] \in B => \E u \in 1..j - 1 : s[u] \in A
Trailed(s, A, B) == \A i \in 1..Len(s) : s[i] \in A => \E u \in i + 1..Len(s) : s[u] \in B
Between(s, A, C, B) ==
    \A i, j \in 1..Len(s) : i < j /\ s[i] \in A /\ s[j] \in B => \E u \in i..j : s[u] \in C

\* t is s and then n; t is s without its first element.
Pushed(s, n, t) ==
    /\ Len(s) \in Nat /\ Len(n) \in Nat /\ Len(t) = Len(s) + Len(n)
    /\ \A i \in 1..Len(s) : t[i] = s[i]
    /\ \A i \in Len(s) + 1..Len(t) : t[i] = n[i - Len(s)]
Popped(s, t) ==
    /\ Len(s) \in Nat /\ Len(t) \in Nat /\ Len(s) = Len(t) + 1
    /\ \A k \in 1..Len(t) : t[k] = s[k + 1]

\* What s with new at its end looks like.
LEMMA PushedSeq ==
    ASSUME NEW S, NEW s \in Seq(S), NEW n \in Seq(S)
    PROVE  Pushed(s, n, s \o n)
<1>1. Len(s) \in Nat /\ Len(n) \in Nat
  OBVIOUS
<1> QED
  BY <1>1, Joined DEF Pushed

\* What s without its first element looks like.
LEMMA PoppedSeq ==
    ASSUME NEW S, NEW s \in Seq(S), s # <<>>
    PROVE  Popped(s, Tail(s)) /\ Popped(s, RemoveAt(s, 1)) /\ Head(s) = s[1]
<1>1. Len(s) \in Nat /\ 1 \in 1..Len(s) /\ Head(s) = s[1]
  BY EmptySeq
<1>2. Popped(s, Tail(s))
  <2>1. /\ Tail(s) \in Seq(S) /\ Len(Tail(s)) = Len(s) - 1
        /\ \A k \in 1..Len(s) - 1 : Tail(s)[k] = s[k + 1]
    BY HeadTailProperties
  <2> QED
    BY <1>1, <2>1 DEF Popped
<1>3. Popped(s, RemoveAt(s, 1))
  <2> DEFINE t == RemoveAt(s, 1)
  <2>1. /\ t \in Seq(S) /\ Len(t) = Len(s) - 1
        /\ \A k \in 1..Len(s) - 1 : t[k] = s[k + 1]
    BY <1>1, RemoveAtFacts
  <2> HIDE DEF t
  <2>2. Popped(s, t)
    BY <1>1, <2>1 DEF Popped
  <2> QED
    BY <2>2 DEF t
<1> QED
  BY <1>1, <1>2, <1>3

\* Where an element of the longer sequence is from.
PushedParts(s, n, t) ==
    /\ \A i \in 1..Len(s) : i \in 1..Len(t) /\ t[i] = s[i]
    /\ \A k \in 1..Len(n) : Len(s) + k \in 1..Len(t) /\ t[Len(s) + k] = n[k]
    /\ \A i \in 1..Len(t) : i \in 1..Len(s)
          \/ \E k \in 1..Len(n) : i = Len(s) + k /\ t[i] = n[k]

\* An element of the longer sequence is an old one or one of the new ones.
LEMMA PushedAt ==
    ASSUME NEW s, NEW n, NEW t, Pushed(s, n, t)
    PROVE  PushedParts(s, n, t)
<1>1. /\ Len(s) \in Nat /\ Len(n) \in Nat /\ Len(t) = Len(s) + Len(n)
      /\ \A i \in 1..Len(s) : t[i] = s[i]
      /\ \A i \in Len(s) + 1..Len(t) : t[i] = n[i - Len(s)]
  BY DEF Pushed
<1>2. ASSUME NEW k \in 1..Len(n)
      PROVE  Len(s) + k \in 1..Len(t) /\ t[Len(s) + k] = n[k]
  <2>1. PICK i : i = Len(s) + k
    OBVIOUS
  <2>2. i \in Len(s) + 1..Len(t) /\ i - Len(s) = k
    BY <1>1, <2>1
  <2>3. t[i] = n[i - Len(s)]
    BY <1>1, <2>2
  <2> QED
    BY <1>1, <2>1, <2>2, <2>3
<1>3. ASSUME NEW i \in 1..Len(t), i \notin 1..Len(s)
      PROVE  \E k \in 1..Len(n) : i = Len(s) + k /\ t[i] = n[k]
  <2>1. i \in Len(s) + 1..Len(t)
    BY <1>1, <1>3
  <2>2. PICK k : k = i - Len(s)
    OBVIOUS
  <2>3. k \in 1..Len(n) /\ i = Len(s) + k /\ t[i] = n[k]
    BY <1>1, <2>1, <2>2
  <2> QED
    BY <2>3
<1> QED
  BY <1>1, <1>2, <1>3 DEF PushedParts

\* An element of A is on the longer sequence exactly when it was on s or is new.
LEMMA OnPushed ==
    ASSUME NEW s, NEW n, NEW t, Pushed(s, n, t), NEW A
    PROVE  On(t, A) <=> On(s, A) \/ On(n, A)
<1>0. /\ \A l \in 1..Len(s) : l \in 1..Len(t) /\ t[l] = s[l]
      /\ \A k \in 1..Len(n) : Len(s) + k \in 1..Len(t) /\ t[Len(s) + k] = n[k]
      /\ \A l \in 1..Len(t) : l \in 1..Len(s)
            \/ \E k \in 1..Len(n) : l = Len(s) + k /\ t[l] = n[k]
  BY PushedAt DEF PushedParts
<1>1. ASSUME On(t, A)
      PROVE  On(s, A) \/ On(n, A)
  <2>1. PICK i \in 1..Len(t) : t[i] \in A
    BY <1>1 DEF On
  <2>2. CASE i \in 1..Len(s)
    BY <2>1, <2>2, <1>0 DEF On
  <2>3. CASE \E k \in 1..Len(n) : i = Len(s) + k /\ t[i] = n[k]
    BY <2>1, <2>3 DEF On
  <2> QED
    BY <2>2, <2>3, <1>0
<1>2. ASSUME On(s, A)
      PROVE  On(t, A)
  <2>1. PICK i \in 1..Len(s) : s[i] \in A
    BY <1>2 DEF On
  <2>2. i \in 1..Len(t) /\ t[i] \in A
    BY <2>1, <1>0
  <2> QED
    BY <2>2 DEF On
<1>3. ASSUME On(n, A)
      PROVE  On(t, A)
  <2>1. PICK k \in 1..Len(n) : n[k] \in A
    BY <1>3 DEF On
  <2>2. PICK i : i = Len(s) + k
    OBVIOUS
  <2>3. i \in 1..Len(t) /\ t[i] \in A
    BY <2>1, <2>2, <1>0
  <2> QED
    BY <2>3 DEF On
<1> QED
  BY <1>1, <1>2, <1>3

\* What is in neither the old part nor the new one is nowhere; where the new
\* part has one of A, the old part has none of B.
LEMMA OrderedPushed ==
    ASSUME NEW s, NEW n, NEW t, Pushed(s, n, t), NEW A, NEW B,
           Ordered(s, A, B), On(n, A) => ~On(s, B) /\ ~On(n, B)
    PROVE  Ordered(t, A, B)
<1> SUFFICES ASSUME NEW i \in 1..Len(t), NEW j \in 1..Len(t), t[i] \in A, t[j] \in B
             PROVE  i < j
  BY DEF Ordered
<1>0. /\ \A l \in 1..Len(s) : l \in 1..Len(t) /\ t[l] = s[l]
      /\ \A k \in 1..Len(n) : Len(s) + k \in 1..Len(t) /\ t[Len(s) + k] = n[k]
      /\ \A l \in 1..Len(t) : l \in 1..Len(s)
            \/ \E k \in 1..Len(n) : l = Len(s) + k /\ t[l] = n[k]
  BY PushedAt DEF PushedParts
<1>1. Len(s) \in Nat /\ Len(n) \in Nat
  BY DEF Pushed
<1>2. CASE i \in 1..Len(s)
  <2>1. CASE j \in 1..Len(s)
    <3>1. s[i] \in A /\ s[j] \in B
      BY <1>2, <2>1, <1>0
    <3> QED
      BY <1>2, <2>1, <3>1 DEF Ordered
  <2>2. CASE \E k \in 1..Len(n) : j = Len(s) + k /\ t[j] = n[k]
    BY <1>1, <1>2, <2>2
  <2> QED
    BY <2>1, <2>2, <1>0
<1>3. CASE \E k \in 1..Len(n) : i = Len(s) + k /\ t[i] = n[k]
  <2>1. On(n, A)
    BY <1>3 DEF On
  <2>2. CASE j \in 1..Len(s)
    BY <2>1, <2>2, <1>0 DEF On
  <2>3. CASE \E k \in 1..Len(n) : j = Len(s) + k /\ t[j] = n[k]
    BY <2>1, <2>3 DEF On
  <2> QED
    BY <2>2, <2>3, <1>0
<1> QED
  BY <1>2, <1>3, <1>0

\* One of a kind stays one when no second one comes.
LEMMA OneOfPushed ==
    ASSUME NEW s, NEW n, NEW t, Pushed(s, n, t), NEW A,
           OneOf(s, A), OneOf(n, A), On(n, A) => ~On(s, A)
    PROVE  OneOf(t, A)
<1> SUFFICES ASSUME NEW i \in 1..Len(t), NEW j \in 1..Len(t), t[i] \in A, t[j] \in A
             PROVE  i = j
  BY DEF OneOf
<1>0. /\ \A l \in 1..Len(s) : l \in 1..Len(t) /\ t[l] = s[l]
      /\ \A k \in 1..Len(n) : Len(s) + k \in 1..Len(t) /\ t[Len(s) + k] = n[k]
      /\ \A l \in 1..Len(t) : l \in 1..Len(s)
            \/ \E k \in 1..Len(n) : l = Len(s) + k /\ t[l] = n[k]
  BY PushedAt DEF PushedParts
<1>1. Len(s) \in Nat /\ Len(n) \in Nat
  BY DEF Pushed
<1>2. CASE i \in 1..Len(s) /\ j \in 1..Len(s)
  <2>1. s[i] \in A /\ s[j] \in A
    BY <1>2, <1>0
  <2> QED
    BY <1>2, <2>1 DEF OneOf
<1>3. CASE i \in 1..Len(s) /\ \E k \in 1..Len(n) : j = Len(s) + k /\ t[j] = n[k]
  BY <1>3, <1>0 DEF On
<1>4. CASE j \in 1..Len(s) /\ \E k \in 1..Len(n) : i = Len(s) + k /\ t[i] = n[k]
  BY <1>4, <1>0 DEF On
<1>5. CASE /\ \E k \in 1..Len(n) : i = Len(s) + k /\ t[i] = n[k]
           /\ \E k \in 1..Len(n) : j = Len(s) + k /\ t[j] = n[k]
  BY <1>5 DEF OneOf
<1> QED
  BY <1>2, <1>3, <1>4, <1>5, <1>0

\* What leads still leads when what comes is not led, or led already.
LEMMA LedPushed ==
    ASSUME NEW s, NEW n, NEW t, Pushed(s, n, t), NEW A, NEW B,
           Led(s, A, B), On(n, B) => On(s, A)
    PROVE  Led(t, A, B)
<1> SUFFICES ASSUME NEW j \in 1..Len(t), t[j] \in B
             PROVE  \E u \in 1..j - 1 : t[u] \in A
  BY DEF Led
<1>0. /\ \A l \in 1..Len(s) : l \in 1..Len(t) /\ t[l] = s[l]
      /\ \A k \in 1..Len(n) : Len(s) + k \in 1..Len(t) /\ t[Len(s) + k] = n[k]
      /\ \A l \in 1..Len(t) : l \in 1..Len(s)
            \/ \E k \in 1..Len(n) : l = Len(s) + k /\ t[l] = n[k]
  BY PushedAt DEF PushedParts
<1>1. Len(s) \in Nat /\ Len(n) \in Nat
  BY DEF Pushed
<1>2. CASE j \in 1..Len(s)
  <2>1. s[j] \in B
    BY <1>2, <1>0
  <2>2. PICK u \in 1..j - 1 : s[u] \in A
    BY <1>2, <2>1 DEF Led
  <2>3. u \in 1..Len(s)
    BY <1>1, <1>2
  <2> QED
    BY <2>2, <2>3, <1>0
<1>3. CASE \E k \in 1..Len(n) : j = Len(s) + k /\ t[j] = n[k]
  <2>1. On(n, B)
    BY <1>3 DEF On
  <2>2. PICK u \in 1..Len(s) : s[u] \in A
    BY <2>1 DEF On
  <2>3. u \in 1..j - 1 /\ t[u] \in A
    BY <1>1, <1>3, <2>2, <1>0
  <2> QED
    BY <2>3
<1> QED
  BY <1>2, <1>3, <1>0

\* Where it was not led before: nothing of B was there.
LEMMA LedFresh ==
    ASSUME NEW s, NEW A, NEW B, ~On(s, B)
    PROVE  Led(s, A, B)
BY DEF On, Led

\* What trails still trails when what comes is not trailed, or comes with its trailer.
LEMMA TrailedPushed ==
    ASSUME NEW s, NEW n, NEW t, Pushed(s, n, t), NEW A, NEW B,
           Trailed(s, A, B) \/ On(n, B), ~On(n, A)
    PROVE  Trailed(t, A, B)
<1> SUFFICES ASSUME NEW i \in 1..Len(t), t[i] \in A
             PROVE  \E u \in i + 1..Len(t) : t[u] \in B
  BY DEF Trailed
<1>0. /\ \A l \in 1..Len(s) : l \in 1..Len(t) /\ t[l] = s[l]
      /\ \A k \in 1..Len(n) : Len(s) + k \in 1..Len(t) /\ t[Len(s) + k] = n[k]
      /\ \A l \in 1..Len(t) : l \in 1..Len(s)
            \/ \E k \in 1..Len(n) : l = Len(s) + k /\ t[l] = n[k]
  BY PushedAt DEF PushedParts
<1>1. Len(s) \in Nat /\ Len(n) \in Nat /\ Len(t) = Len(s) + Len(n)
  BY DEF Pushed
<1>2. i \in 1..Len(s) /\ s[i] \in A
  BY <1>0 DEF On
<1>3. CASE Trailed(s, A, B)
  <2>1. PICK u \in i + 1..Len(s) : s[u] \in B
    BY <1>2, <1>3 DEF Trailed
  <2>2. u \in 1..Len(s)
    BY <1>1, <1>2
  <2>3. u \in i + 1..Len(t) /\ t[u] \in B
    BY <1>1, <1>2, <2>1, <2>2, <1>0
  <2> QED
    BY <2>3
<1>4. CASE On(n, B)
  <2>1. PICK k \in 1..Len(n) : n[k] \in B
    BY <1>4 DEF On
  <2>2. PICK u : u = Len(s) + k
    OBVIOUS
  <2>3. u \in 1..Len(t) /\ t[u] \in B
    BY <2>1, <2>2, <1>0
  <2>4. u \in i + 1..Len(t)
    BY <1>1, <1>2, <2>2, <2>3
  <2> QED
    BY <2>3, <2>4
<1> QED
  BY <1>3, <1>4

\* Something still lies between A and B when a new B finds it there.
LEMMA BetweenPushed ==
    ASSUME NEW s, NEW n, NEW t, Pushed(s, n, t), NEW A, NEW C, NEW B,
           Between(s, A, C, B), On(n, B) => ~On(n, A) /\ (On(s, A) => Trailed(s, A, C))
    PROVE  Between(t, A, C, B)
<1> SUFFICES ASSUME NEW i \in 1..Len(t), NEW j \in 1..Len(t), i < j, t[i] \in A, t[j] \in B
             PROVE  \E u \in i..j : t[u] \in C
  BY DEF Between
<1>0. /\ \A l \in 1..Len(s) : l \in 1..Len(t) /\ t[l] = s[l]
      /\ \A k \in 1..Len(n) : Len(s) + k \in 1..Len(t) /\ t[Len(s) + k] = n[k]
      /\ \A l \in 1..Len(t) : l \in 1..Len(s)
            \/ \E k \in 1..Len(n) : l = Len(s) + k /\ t[l] = n[k]
  BY PushedAt DEF PushedParts
<1>1. Len(s) \in Nat /\ Len(n) \in Nat
  BY DEF Pushed
<1>2. CASE j \in 1..Len(s)
  <2>0. i \in 1..Len(s)
    <3>1. \A k \in 1..Len(n) : i # Len(s) + k
      BY <1>1, <1>2
    <3> QED
      BY <1>0, <3>1
  <2>1. s[i] \in A /\ s[j] \in B
    BY <1>0, <1>2, <2>0
  <2>2. PICK u \in i..j : s[u] \in C
    BY <1>2, <2>0, <2>1 DEF Between
  <2>3. u \in 1..Len(s)
    BY <1>1, <1>2, <2>0
  <2> QED
    BY <2>2, <2>3, <1>0
<1>3. CASE \E k \in 1..Len(n) : j = Len(s) + k /\ t[j] = n[k]
  <2>1. On(n, B)
    BY <1>3 DEF On
  <2>2. i \in 1..Len(s) /\ s[i] \in A
    BY <2>1, <1>0 DEF On
  <2>3. Trailed(s, A, C)
    BY <2>1, <2>2 DEF On
  <2>4. PICK u \in i + 1..Len(s) : s[u] \in C
    BY <2>2, <2>3 DEF Trailed
  <2>5. u \in 1..Len(s) /\ u \in i..j
    BY <1>1, <1>3, <2>2
  <2> QED
    BY <2>4, <2>5, <1>0
<1> QED
  BY <1>2, <1>3, <1>0

\* What was ordered stays so when the first element goes.
LEMMA PoppedAt ==
    ASSUME NEW s, NEW t, Popped(s, t)
    PROVE  /\ 1 \in 1..Len(s)
           /\ \A k \in 1..Len(t) : k + 1 \in 1..Len(s) /\ t[k] = s[k + 1]
           /\ \A i \in 1..Len(s) : i = 1 \/ \E k \in 1..Len(t) : i = k + 1 /\ t[k] = s[i]
<1>1. Len(s) \in Nat /\ Len(t) \in Nat /\ Len(s) = Len(t) + 1
      /\ \A k \in 1..Len(t) : t[k] = s[k + 1]
  BY DEF Popped
<1>2. ASSUME NEW i \in 1..Len(s), i # 1
      PROVE  \E k \in 1..Len(t) : i = k + 1 /\ t[k] = s[i]
  <2>1. PICK k : k = i - 1
    OBVIOUS
  <2>2. k \in 1..Len(t) /\ i = k + 1
    BY <1>1, <1>2, <2>1
  <2> QED
    BY <1>1, <2>2
<1> QED
  BY <1>1, <1>2

\* The front goes; the rest was there.
LEMMA OnPopped ==
    ASSUME NEW s, NEW t, Popped(s, t), NEW A
    PROVE  On(s, A) <=> s[1] \in A \/ On(t, A)
<1>1. ASSUME On(s, A), s[1] \notin A
      PROVE  On(t, A)
  <2>1. PICK i \in 1..Len(s) : s[i] \in A
    BY <1>1 DEF On
  <2>2. i # 1
    BY <1>1, <2>1
  <2>3. PICK k \in 1..Len(t) : i = k + 1 /\ t[k] = s[i]
    BY <2>2, PoppedAt
  <2> QED
    BY <2>1, <2>3 DEF On
<1>2. ASSUME On(t, A)
      PROVE  On(s, A)
  <2>1. PICK k \in 1..Len(t) : t[k] \in A
    BY <1>2 DEF On
  <2>2. PICK i : i = k + 1
    OBVIOUS
  <2>3. i \in 1..Len(s) /\ s[i] \in A
    BY <2>1, <2>2, PoppedAt
  <2> QED
    BY <2>3 DEF On
<1>3. ASSUME s[1] \in A
      PROVE  On(s, A)
  BY <1>3, PoppedAt DEF On
<1> QED
  BY <1>1, <1>2, <1>3

\* Taking from the front keeps an order.
LEMMA OrderedPopped ==
    ASSUME NEW s, NEW t, Popped(s, t), NEW A, NEW B, Ordered(s, A, B)
    PROVE  Ordered(t, A, B) /\ (s[1] \in B => ~On(s, A))
<1>1. Ordered(t, A, B)
  <2> SUFFICES ASSUME NEW i \in 1..Len(t), NEW j \in 1..Len(t), t[i] \in A, t[j] \in B
               PROVE  i < j
    BY DEF Ordered
  <2>1. PICK k, l : k = i + 1 /\ l = j + 1
    OBVIOUS
  <2>2. k \in 1..Len(s) /\ l \in 1..Len(s) /\ s[k] \in A /\ s[l] \in B
    BY <2>1, PoppedAt
  <2>3. k < l
    BY <2>2 DEF Ordered
  <2> QED
    BY <2>1, <2>3
<1>2. ASSUME s[1] \in B, On(s, A)
      PROVE  FALSE
  <2>1. PICK i \in 1..Len(s) : s[i] \in A
    BY <1>2 DEF On
  <2>2. i < 1
    BY <1>2, <2>1, PoppedAt DEF Ordered
  <2> QED
    BY <2>2
<1> QED
  BY <1>1, <1>2

\* Taking from the front leaves at most one of a kind.
LEMMA OneOfPopped ==
    ASSUME NEW s, NEW t, Popped(s, t), NEW A, OneOf(s, A)
    PROVE  OneOf(t, A) /\ (s[1] \in A => ~On(t, A))
<1>1. OneOf(t, A)
  <2> SUFFICES ASSUME NEW i \in 1..Len(t), NEW j \in 1..Len(t), t[i] \in A, t[j] \in A
               PROVE  i = j
    BY DEF OneOf
  <2>1. PICK k, l : k = i + 1 /\ l = j + 1
    OBVIOUS
  <2>2. k \in 1..Len(s) /\ l \in 1..Len(s) /\ s[k] \in A /\ s[l] \in A
    BY <2>1, PoppedAt
  <2>3. k = l
    BY <2>2 DEF OneOf
  <2> QED
    BY <2>1, <2>3
<1>2. ASSUME s[1] \in A, On(t, A)
      PROVE  FALSE
  <2>1. PICK i \in 1..Len(t) : t[i] \in A
    BY <1>2 DEF On
  <2>2. PICK k : k = i + 1
    OBVIOUS
  <2>3. k \in 1..Len(s) /\ s[k] \in A /\ k # 1
    BY <2>1, <2>2, PoppedAt
  <2>4. k = 1
    BY <1>2, <2>3, PoppedAt DEF OneOf
  <2> QED
    BY <2>3, <2>4
<1> QED
  BY <1>1, <1>2

\* One of A still leads, unless it was the first.
LEMMA LedPopped ==
    ASSUME NEW s, NEW t, Popped(s, t), NEW A, NEW B, Led(s, A, B)
    PROVE  (s[1] \notin A => Led(t, A, B)) /\ s[1] \notin B
<1>1. ASSUME s[1] \notin A
      PROVE  Led(t, A, B)
  <2> SUFFICES ASSUME NEW j \in 1..Len(t), t[j] \in B
               PROVE  \E u \in 1..j - 1 : t[u] \in A
    BY DEF Led
  <2>1. PICK l : l = j + 1
    OBVIOUS
  <2>2. l \in 1..Len(s) /\ s[l] \in B
    BY <2>1, PoppedAt
  <2>3. PICK u \in 1..l - 1 : s[u] \in A
    BY <2>2 DEF Led
  <2>4. u # 1 /\ u \in 1..Len(s)
    BY <1>1, <2>2, <2>3
  <2>5. PICK k \in 1..Len(t) : u = k + 1 /\ t[k] = s[u]
    BY <2>4, PoppedAt
  <2>6. k \in 1..j - 1
    BY <2>1, <2>3, <2>5
  <2> QED
    BY <2>3, <2>5, <2>6
<1>2. ASSUME s[1] \in B
      PROVE  FALSE
  <2>1. \E u \in 1..1 - 1 : s[u] \in A
    BY <1>2, PoppedAt DEF Led
  <2> QED
    BY <2>1
<1> QED
  BY <1>1, <1>2

\* After the first, there is one of the other set.
LEMMA TrailedPopped ==
    ASSUME NEW s, NEW t, Popped(s, t), NEW A, NEW B, Trailed(s, A, B)
    PROVE  Trailed(t, A, B) /\ (s[1] \in A => On(t, B))
<1>1. Trailed(t, A, B)
  <2> SUFFICES ASSUME NEW i \in 1..Len(t), t[i] \in A
               PROVE  \E u \in i + 1..Len(t) : t[u] \in B
    BY DEF Trailed
  <2>1. PICK k : k = i + 1
    OBVIOUS
  <2>2. k \in 1..Len(s) /\ s[k] \in A
    BY <2>1, PoppedAt
  <2>3. PICK u \in k + 1..Len(s) : s[u] \in B
    BY <2>2 DEF Trailed
  <2>4. u # 1 /\ u \in 1..Len(s)
    BY <2>2, <2>3
  <2>5. PICK l \in 1..Len(t) : u = l + 1 /\ t[l] = s[u]
    BY <2>4, PoppedAt
  <2>6. l \in i + 1..Len(t)
    BY <2>1, <2>3, <2>5
  <2> QED
    BY <2>3, <2>5, <2>6
<1>2. ASSUME s[1] \in A
      PROVE  On(t, B)
  <2>1. PICK u \in 1 + 1..Len(s) : s[u] \in B
    BY <1>2, PoppedAt DEF Trailed
  <2>2. u # 1 /\ u \in 1..Len(s)
    BY <2>1
  <2>3. PICK l \in 1..Len(t) : u = l + 1 /\ t[l] = s[u]
    BY <2>2, PoppedAt
  <2> QED
    BY <2>1, <2>3 DEF On
<1> QED
  BY <1>1, <1>2

\* Of what is behind an A at the front, one of C leads, unless the A is one.
LEMMA BetweenPopped ==
    ASSUME NEW s, NEW t, Popped(s, t), NEW A, NEW C, NEW B, Between(s, A, C, B)
    PROVE  /\ Between(t, A, C, B)
           /\ s[1] \in A /\ s[1] \notin C /\ ~On(t, B \cap C) => Led(t, C, B)
<1>1. Between(t, A, C, B)
  <2> SUFFICES ASSUME NEW i \in 1..Len(t), NEW j \in 1..Len(t), i < j, t[i] \in A, t[j] \in B
               PROVE  \E u \in i..j : t[u] \in C
    BY DEF Between
  <2>1. PICK k, l : k = i + 1 /\ l = j + 1
    OBVIOUS
  <2>2. k \in 1..Len(s) /\ l \in 1..Len(s) /\ s[k] \in A /\ s[l] \in B /\ k < l
    BY <2>1, PoppedAt
  <2>3. PICK u \in k..l : s[u] \in C
    BY <2>2 DEF Between
  <2>4. u # 1 /\ u \in 1..Len(s)
    BY <2>1, <2>2, <2>3
  <2>5. PICK v \in 1..Len(t) : u = v + 1 /\ t[v] = s[u]
    BY <2>4, PoppedAt
  <2>6. v \in i..j
    BY <2>1, <2>3, <2>5
  <2> QED
    BY <2>3, <2>5, <2>6
<1>2. ASSUME s[1] \in A, s[1] \notin C, ~On(t, B \cap C)
      PROVE  Led(t, C, B)
  <2> SUFFICES ASSUME NEW j \in 1..Len(t), t[j] \in B
               PROVE  \E u \in 1..j - 1 : t[u] \in C
    BY DEF Led
  <2>1. PICK l : l = j + 1
    OBVIOUS
  <2>2. l \in 1..Len(s) /\ s[l] \in B /\ 1 < l /\ 1 \in 1..Len(s)
    BY <2>1, PoppedAt
  <2>3. PICK u \in 1..l : s[u] \in C
    BY <1>2, <2>2 DEF Between
  <2>4. u # 1 /\ u \in 1..Len(s)
    BY <1>2, <2>2, <2>3
  <2>5. PICK v \in 1..Len(t) : u = v + 1 /\ t[v] = s[u]
    BY <2>4, PoppedAt
  <2>6. v # j
    <3> SUFFICES ASSUME v = j
                 PROVE  FALSE
      OBVIOUS
    <3>1. t[j] \in B \cap C
      BY <2>3, <2>5
    <3> QED
      BY <1>2, <3>1 DEF On
  <2>7. v \in 1..j - 1
    BY <2>1, <2>3, <2>5, <2>6
  <2> QED
    BY <2>3, <2>5, <2>7
<1> QED
  BY <1>1, <1>2

-----------------------------------------------------------------------------
(* What Core keeps, and in which order.                                    *)

\* Events of a kind: a runner's for row r, ...
RowEv(r) == [kind : {"turn_end", "tell_user"}, row : {r}]
Ends     == [kind : {"run_complete", "closed"}]
\* ... a broadcast of message m's row, by a send or from the queue, ...
Announcements(m) == {e \in UserEvents : e.msg = m /\ ~e.item}
Pops(m)   == {e \in UserEvents : e.msg = m /\ e.item}
Users(m)  == Announcements(m) \cup Pops(m)
\* ... a queue that has m, ...
Offers(m) == {e \in Lists \cup Snapshots : \E i \in 1..Len(e.items) : e.items[i].msg = m}
\* ... the answers to its sender: it waits, or it was written, or not.
Takes(m)  == {e \in SendAnswers : e.msg = m /\ e.outcome \in {"queued", "interjected"}}
Dones(m)  == {e \in SendAnswers : e.msg = m /\ e.outcome = "dispatched"}
Finals(m) == {e \in SendAnswers : e.msg = m /\ e.outcome \in {"dispatched", "failed"}}
\* ... a page of the conversation with r, one with something of m's run and
\* not m, and a deletion of r.
Has(r)    == {e \in TurnAnswers : \E k \in 1..Len(e.rows) : e.rows[k].row = r}
Lacks(m)  == {e \in TurnAnswers :
                 /\ e.kind = "page"
                 /\ \E k \in 1..Len(e.rows) : e.rows[k].row[1] = m /\ e.rows[k].row[3] # "said"
                 /\ \A k \in 1..Len(e.rows) : e.rows[k].row # Said(m)}
Drops(r)  == {e \in Deletions : r \in e.rows}
Brings(r) == Has(r) \cup RowEv(r)
Says(r)   == Brings(r) \cup (IF r[3] = "said" THEN Users(r[1]) ELSE {})

Opens(r)   == r[3] = "said" /\ r[1] \notin midway
Stored(r)  == \E i \in 1..Len(rows) : rows[i] = r
Queued(m)  == \E i \in 1..Len(queue) : queue[i].msg = m
Holder(m)  == pc[m] \in {"saved", "pending", "drained", "written", "taken"}
Ran(m)     == pc[m] = "over" /\ Stored(Said(m)) /\ m \notin midway
Latest(m)  == \A i, j \in 1..Len(rows) : rows[i] = Said(m) /\ Opens(rows[j]) => j <= i
Upto(r)    == r[1] = run.of => r[2] <= run.step \/ (run.told /\ r[3] = "told" /\ r[2] <= run.step + 1)

Suffix ==
    /\ Len(emits) <= Len(acts)
    /\ \A i \in 1..Len(emits) : emits[i] = acts[Len(acts) - Len(emits) + i]

Claim ==
    /\ \A m, n \in Msgs : Holder(m) /\ Holder(n) => m = n
    /\ \A m \in Msgs : Holder(m) => gate /\ acts = <<>>
    /\ \A m \in Msgs : pc[m] \in {"saved", "pending", "drained"} => run.of = NoMsg
    /\ \A m \in Msgs : pc[m] \in {"written", "taken"} => run.of = m
    /\ run.of # NoMsg => gate /\ ~On(acts, Ends)
    /\ acts # <<>> => gate
    /\ \A i \in 1..Len(acts) : acts[i] \in Ends => i = Len(acts)

Places ==
    /\ \A i, j \in 1..Len(queue) : queue[i].msg = queue[j].msg => i = j
    /\ \A m \in Msgs : pc[m] \in {"new", "sent"} =>
          ~Stored(Said(m)) /\ ~Queued(m) /\ m \notin lost /\ m \notin History
    /\ \A m \in Msgs : Holder(m) => Stored(Said(m)) /\ Said(m) \notin gone /\ m \notin History
    /\ \A m \in Msgs : Queued(m) =>
          pc[m] = "over" /\ ~Stored(Said(m)) /\ m \notin lost /\ m \notin History
    /\ \A m \in Msgs : m \in lost => pc[m] = "over" /\ ~Stored(Said(m))
    /\ \A m \in Msgs : m \in midway => Stored(Said(m))
    /\ \A r \in Rows : r \in gone => Stored(r)

Book ==
    /\ \A i, j \in 1..Len(rows) : rows[i] = rows[j] => i = j
    /\ \A i \in 1..Len(rows) : rows[i][3] # "said" => Ran(rows[i][1]) /\ Upto(rows[i])
    /\ \A i, j \in 1..Len(rows) : rows[i][3] # "said" /\ rows[j] = Said(rows[i][1]) => j < i
    /\ \A i, j, l \in 1..Len(rows) :
          rows[i][3] # "said" /\ rows[j] = Said(rows[i][1]) /\ Opens(rows[l]) /\ l < i => l <= j

Coming ==
    /\ \A r \in Rows : On(acts, RowEv(r)) =>
          /\ r[3] # "said" /\ Ran(r[1]) /\ ~Stored(r) /\ Latest(r[1]) /\ Upto(r)
          /\ r[1] \notin History
    /\ \A r \in Rows : OneOf(acts, RowEv(r))
    /\ \A m \in Msgs : Holder(m) => Latest(m) /\ m \notin midway
    /\ run.of # NoMsg =>
          /\ Latest(run.of) /\ Stored(Said(run.of)) /\ run.of \notin midway /\ run.of \notin History

CoreInv == Suffix /\ Claim /\ Places /\ Book /\ Coming

\* Nothing falls behind, between or ahead: runs still take steps while their
\* reports and answers are on their way.
Calm == "lag" \notin Races /\ "gap" \notin Races /\ "overtake" \notin Races

\* Elements of a sequence with one more element: where they were.
InsertedAt(s, n, t, x, g) ==
    /\ g \in [1..Len(s) -> 1..Len(t)]
    /\ \A i \in 1..Len(s) : t[g[i]] = s[i]
    /\ \A k \in 1..Len(t) : k = n + 1 \/ \E i \in 1..Len(s) : g[i] = k
    /\ \A i, j \in 1..Len(s) : i < j => g[i] < g[j]
    /\ n + 1 \in 1..Len(t) /\ t[n + 1] = x
    /\ \A i \in 1..Len(s) : g[i] # n + 1 /\ (g[i] < n + 1 <=> i <= n)

\* What the rows are when one goes in: before, at and after its place.
LEMMA InsertedFacts ==
    ASSUME NEW S, NEW s \in Seq(S), NEW t, NEW x, NEW n \in 0..Len(s), Inserted(s, n, t, x)
    PROVE  \E g : InsertedAt(s, n, t, x, g)
<1> DEFINE g == [i \in 1..Len(s) |-> IF i <= n THEN i ELSE i + 1]
<1>1. /\ Len(s) \in Nat /\ n \in Nat /\ n <= Len(s) /\ Len(t) = Len(s) + 1
      /\ \A i \in 1..n : t[i] = s[i]
      /\ t[n + 1] = x
      /\ \A i \in n + 1..Len(s) : t[i + 1] = s[i]
  BY DEF Inserted
<1>2. \A i \in 1..Len(s) : g[i] = IF i <= n THEN i ELSE i + 1
  OBVIOUS
<1>3. g \in [1..Len(s) -> 1..Len(t)]
  <2>1. \A i \in 1..Len(s) : (IF i <= n THEN i ELSE i + 1) \in 1..Len(t)
    BY <1>1
  <2> QED
    BY <2>1
<1> HIDE DEF g
<1>4. ASSUME NEW i \in 1..Len(s)
      PROVE  t[g[i]] = s[i]
  <2>1. CASE i <= n
    BY <1>1, <1>2, <2>1
  <2>2. CASE i > n
    <3>1. i \in n + 1..Len(s) /\ g[i] = i + 1
      BY <1>1, <1>2, <2>2
    <3> QED
      BY <1>1, <3>1
  <2> QED
    BY <1>1, <2>1, <2>2
<1>5. ASSUME NEW k \in 1..Len(t), k # n + 1
      PROVE  \E i \in 1..Len(s) : g[i] = k
  <2>1. CASE k <= n
    <3>1. k \in 1..Len(s) /\ g[k] = k
      BY <1>1, <1>2, <2>1
    <3> QED
      BY <3>1
  <2>2. CASE k > n
    <3>1. PICK i : i = k - 1
      OBVIOUS
    <3>2. i \in 1..Len(s) /\ ~(i <= n) /\ i + 1 = k
      BY <1>1, <1>5, <2>2, <3>1
    <3>3. g[i] = k
      BY <1>2, <3>2
    <3> QED
      BY <3>2, <3>3
  <2> QED
    BY <1>1, <2>1, <2>2
<1>6. \A i, j \in 1..Len(s) : i < j => g[i] < g[j]
  BY <1>1, <1>2
<1>7. \A i \in 1..Len(s) : g[i] # n + 1 /\ (g[i] < n + 1 <=> i <= n)
  BY <1>1, <1>2
<1>8. n + 1 \in 1..Len(t) /\ t[n + 1] = x
  BY <1>1
<1>9. InsertedAt(s, n, t, x, g)
  BY <1>3, <1>4, <1>5, <1>6, <1>7, <1>8 DEF InsertedAt
<1> QED
  BY <1>9

\* The rows are rows.
LEMMA RowsTyped ==
    ASSUME Shape
    PROVE  /\ rows \in Seq(Rows) /\ Len(rows) \in Nat
           /\ \A i \in 1..Len(rows) : rows[i] \in Rows /\ rows[i][1] \in Msgs
           /\ \A r \in Rows : r[1] \in Msgs /\ (r[3] = "said" => r = Said(r[1]))
           /\ \A m \in Msgs : Said(m) \in Rows /\ Said(m)[1] = m /\ Said(m)[3] = "said"
<1>1. rows \in Seq(Rows)
  BY DEF Shape, CoreShape
<1>2. \A i \in 1..Len(rows) : rows[i] \in Rows
  BY <1>1
<1>3. \A r \in Rows : r[1] \in Msgs /\ (r[3] = "said" => r = Said(r[1]))
  BY RowFacts
<1>4. \A m \in Msgs : Said(m) \in Rows /\ Said(m)[1] = m /\ Said(m)[3] = "said"
  BY SaidFacts
<1>5. Len(rows) \in Nat
  BY <1>1
<1> QED
  BY <1>1, <1>2, <1>3, <1>4, <1>5

\* What is stored after a row came.
LEMMA StoredInserted ==
    ASSUME Shape, NEW n \in 0..Len(rows), NEW x, Inserted(rows, n, rows', x), NEW r
    PROVE  Stored(r)' <=> Stored(r) \/ r = x
<1>1. PICK g : InsertedAt(rows, n, rows', x, g)
  BY RowsTyped, InsertedFacts
<1>2. ASSUME Stored(r)'
      PROVE  Stored(r) \/ r = x
  <2>1. PICK k \in 1..Len(rows') : rows'[k] = r
    BY <1>2 DEF Stored
  <2>2. CASE k = n + 1
    BY <1>1, <2>1, <2>2 DEF InsertedAt
  <2>3. CASE \E i \in 1..Len(rows) : g[i] = k
    BY <1>1, <2>1, <2>3 DEF InsertedAt, Stored
  <2> QED
    BY <1>1, <2>2, <2>3 DEF InsertedAt
<1>3. ASSUME Stored(r)
      PROVE  Stored(r)'
  <2>1. PICK i \in 1..Len(rows) : rows[i] = r
    BY <1>3 DEF Stored
  <2>2. g[i] \in 1..Len(rows') /\ rows'[g[i]] = r
    BY <1>1, <2>1 DEF InsertedAt
  <2> QED
    BY <2>2 DEF Stored
<1>4. ASSUME r = x
      PROVE  Stored(r)'
  <2>1. n + 1 \in 1..Len(rows') /\ rows'[n + 1] = x
    BY <1>1 DEF InsertedAt
  <2> QED
    BY <1>4, <2>1 DEF Stored
<1> QED
  BY <1>2, <1>3, <1>4

\* A row keeps the book if it is a new message at the end, or belongs to the
\* latest run and comes after all messages.
LEMMA BookInserted ==
    ASSUME Shape, Book, NEW n \in 0..Len(rows), NEW x \in Rows, Inserted(rows, n, rows', x),
           ~Stored(x), midway \subseteq midway', run' = run,
           \A m \in Msgs : Ran(m) => Ran(m)',
           x[3] = "said" => n = Len(rows),
           x[3] # "said" => /\ Ran(x[1]) /\ Latest(x[1]) /\ Upto(x)
                            /\ \A i \in n + 1..Len(rows) : rows[i][3] # "said"
    PROVE  Book'
<1>1. PICK g : InsertedAt(rows, n, rows', x, g)
  BY RowsTyped, InsertedFacts
<1>2. /\ g \in [1..Len(rows) -> 1..Len(rows')] /\ Len(rows) \in Nat /\ n \in Nat /\ n <= Len(rows)
      /\ \A i \in 1..Len(rows) : rows'[g[i]] = rows[i] /\ g[i] \in Nat /\ g[i] \in 1..Len(rows')
      /\ \A k \in 1..Len(rows') : k = n + 1 \/ \E i \in 1..Len(rows) : g[i] = k
      /\ \A i, j \in 1..Len(rows) : i < j => g[i] < g[j]
      /\ n + 1 \in 1..Len(rows') /\ rows'[n + 1] = x
      /\ \A i \in 1..Len(rows) : g[i] # n + 1 /\ (g[i] < n + 1 <=> i <= n)
  BY <1>1, RowsTyped DEF InsertedAt
<1>3. /\ \A i \in 1..Len(rows) : rows[i] \in Rows /\ rows[i][1] \in Msgs
      /\ x[1] \in Msgs /\ (x[3] = "said" => x = Said(x[1]))
      /\ \A m \in Msgs : Said(m) \in Rows /\ Said(m)[1] = m /\ Said(m)[3] = "said"
  BY RowsTyped
<1>4. \A i \in 1..Len(rows) : rows[i] # x
  BY DEF Stored
<1>5. \A i \in 1..Len(rows) : rows[i][3] # "said" => Said(rows[i][1]) # x
  <2> SUFFICES ASSUME NEW i \in 1..Len(rows), rows[i][3] # "said"
               PROVE  Said(rows[i][1]) # x
    OBVIOUS
  <2>1. Stored(Said(rows[i][1]))
    BY DEF Book, Ran
  <2> QED
    BY <2>1
<1>6. \A i \in 1..Len(rows) : x[3] # "said" /\ rows[i][3] = "said" => i <= n
  <2> SUFFICES ASSUME NEW i \in 1..Len(rows), x[3] # "said", rows[i][3] = "said", ~(i <= n)
               PROVE  FALSE
    OBVIOUS
  <2>1. i \in n + 1..Len(rows)
    BY <1>2
  <2> QED
    BY <2>1
<1>7. \A i, j \in 1..Len(rows) : g[i] = g[j] => i = j
  BY <1>2
<1>8. \A i, j \in 1..Len(rows)' : rows'[i] = rows'[j] => i = j
  <2> SUFFICES ASSUME NEW i \in 1..Len(rows'), NEW j \in 1..Len(rows'), rows'[i] = rows'[j]
               PROVE  i = j
    OBVIOUS
  <2>1. CASE i = n + 1 /\ j = n + 1
    BY <2>1
  <2>2. CASE i # n + 1 /\ j # n + 1
    <3>1. PICK k \in 1..Len(rows), l \in 1..Len(rows) : g[k] = i /\ g[l] = j
      BY <1>2, <2>2
    <3>2. rows[k] = rows[l]
      BY <1>2, <3>1
    <3> QED
      BY <3>1, <3>2 DEF Book
  <2>3. \A k \in 1..Len(rows') : k # n + 1 => rows'[k] # rows'[n + 1]
    <3> SUFFICES ASSUME NEW k \in 1..Len(rows'), k # n + 1
                 PROVE  rows'[k] # rows'[n + 1]
      OBVIOUS
    <3>1. PICK l \in 1..Len(rows) : g[l] = k
      BY <1>2
    <3> QED
      BY <1>2, <1>4, <3>1
  <2> QED
    BY <2>1, <2>2, <2>3
<1>9. \A i \in 1..Len(rows)' : rows'[i][3] # "said" => Ran(rows[i][1])' /\ Upto(rows[i])'
  <2> SUFFICES ASSUME NEW i \in 1..Len(rows'), rows'[i][3] # "said"
               PROVE  Ran(rows[i][1])' /\ Upto(rows[i])'
    OBVIOUS
  <2>1. Ran(rows'[i][1]) /\ Upto(rows'[i]) /\ rows'[i][1] \in Msgs
    <3>1. CASE i = n + 1
      BY <1>2, <1>3, <3>1
    <3>2. CASE i # n + 1
      <4>1. PICK k \in 1..Len(rows) : g[k] = i
        BY <1>2, <3>2
      <4>2. rows'[i] = rows[k]
        BY <1>2, <4>1
      <4> QED
        BY <1>3, <4>2 DEF Book
    <3> QED
      BY <3>1, <3>2
  <2> QED
    BY <2>1 DEF Upto
<1>10. \A i, j \in 1..Len(rows)' :
          rows'[i][3] # "said" /\ rows'[j] = Said(rows'[i][1]) => j < i
  <2> SUFFICES ASSUME NEW i \in 1..Len(rows'), NEW j \in 1..Len(rows'),
                      rows'[i][3] # "said", rows'[j] = Said(rows'[i][1])
               PROVE  j < i
    OBVIOUS
  <2>1. CASE i = n + 1
    <3>1. x[3] # "said" /\ rows'[j] = Said(x[1]) /\ rows'[j][3] = "said"
      BY <1>2, <1>3, <2>1
    <3>2. j # n + 1
      BY <1>2, <3>1
    <3>3. PICK l \in 1..Len(rows) : g[l] = j
      BY <1>2, <3>2
    <3>4. l <= n
      BY <1>2, <1>6, <3>1, <3>3
    <3> QED
      BY <1>2, <2>1, <3>3, <3>4
  <2>2. CASE i # n + 1
    <3>1. PICK k \in 1..Len(rows) : g[k] = i
      BY <1>2, <2>2
    <3>2. rows'[i] = rows[k]
      BY <1>2, <3>1
    <3>3. j # n + 1
      BY <1>2, <1>5, <3>2
    <3>4. PICK l \in 1..Len(rows) : g[l] = j
      BY <1>2, <3>3
    <3>5. rows[l] = Said(rows[k][1]) /\ rows[k][3] # "said"
      BY <1>2, <3>2, <3>4
    <3>6. l < k
      BY <3>5 DEF Book
    <3> QED
      BY <1>2, <3>1, <3>4, <3>6
  <2> QED
    BY <2>1, <2>2
<1>11. \A i, j, l \in 1..Len(rows)' :
          rows'[i][3] # "said" /\ rows'[j] = Said(rows'[i][1]) /\ Opens(rows[l])' /\ l < i => l <= j
  <2> SUFFICES ASSUME NEW i \in 1..Len(rows'), NEW j \in 1..Len(rows'), NEW l \in 1..Len(rows'),
                      rows'[i][3] # "said", rows'[j] = Said(rows'[i][1]), Opens(rows[l])', l < i
               PROVE  l <= j
    OBVIOUS
  <2>1. Opens(rows'[l]) /\ rows'[l][3] = "said"
    BY DEF Opens
  <2>2. l # n + 1
    <3> SUFFICES ASSUME l = n + 1
                 PROVE  FALSE
      OBVIOUS
    <3>1. n = Len(rows) /\ i # n + 1
      BY <1>2, <2>1
    <3>2. PICK k \in 1..Len(rows) : g[k] = i
      BY <1>2, <3>1
    <3> QED
      BY <1>2, <3>1, <3>2
  <2>3. PICK c \in 1..Len(rows) : g[c] = l
    BY <1>2, <2>2
  <2>4. Opens(rows[c])
    BY <1>2, <2>1, <2>3
  <2>5. j # n + 1
    <3> SUFFICES ASSUME j = n + 1
                 PROVE  FALSE
      OBVIOUS
    <3>1. x = Said(rows'[i][1])
      BY <1>2
    <3>2. CASE i = n + 1
      BY <1>2, <1>3, <3>1, <3>2
    <3>3. CASE i # n + 1
      <4>1. PICK k \in 1..Len(rows) : g[k] = i
        BY <1>2, <3>3
      <4>2. rows'[i] = rows[k]
        BY <1>2, <4>1
      <4> QED
        BY <1>5, <3>1, <4>2
    <3> QED
      BY <3>2, <3>3
  <2>6. PICK b \in 1..Len(rows) : g[b] = j
    BY <1>2, <2>5
  <2>7. c <= b
    <3>1. CASE i = n + 1
      <4>1. x[3] # "said" /\ rows[b] = Said(x[1])
        BY <1>2, <2>6, <3>1
      <4>2. Latest(x[1])
        BY <4>1
      <4> QED
        BY <2>4, <4>1, <4>2 DEF Latest
    <3>2. CASE i # n + 1
      <4>1. PICK k \in 1..Len(rows) : g[k] = i
        BY <1>2, <3>2
      <4>2. rows[k][3] # "said" /\ rows[b] = Said(rows[k][1])
        BY <1>2, <2>6, <4>1
      <4>3. c < k
        <5>1. g[c] < g[k] /\ g[c] \in Nat /\ g[k] \in Nat
          BY <1>2, <2>3, <4>1
        <5>2. k < c => g[k] < g[c]
          BY <1>2
        <5>3. k # c /\ ~(k < c)
          BY <5>1, <5>2
        <5> QED
          BY <5>3, <1>2
      <4> QED
        BY <2>4, <4>2, <4>3 DEF Book
    <3> QED
      BY <3>1, <3>2
  <2> QED
    BY <1>2, <2>3, <2>6, <2>7
<1> QED
  BY <1>8, <1>9, <1>10, <1>11 DEF Book

\* The latest opener stays it, while nothing opens a run.
LEMMA LatestInserted ==
    ASSUME Shape, NEW n \in 0..Len(rows), NEW x, Inserted(rows, n, rows', x),
           midway \subseteq midway', NEW m, Latest(m), x # Said(m), x[3] = "said" => x[1] \in midway'
    PROVE  Latest(m)'
<1>1. PICK g : InsertedAt(rows, n, rows', x, g)
  BY RowsTyped, InsertedFacts
<1>2. /\ Len(rows) \in Nat
      /\ \A i \in 1..Len(rows) : rows'[g[i]] = rows[i] /\ g[i] \in Nat
      /\ \A k \in 1..Len(rows') : k = n + 1 \/ \E i \in 1..Len(rows) : g[i] = k
      /\ \A i, j \in 1..Len(rows) : i < j => g[i] < g[j]
      /\ rows'[n + 1] = x
  BY <1>1, RowsTyped DEF InsertedAt
<1> SUFFICES ASSUME NEW i \in 1..Len(rows'), NEW j \in 1..Len(rows'),
                    rows'[i] = Said(m), Opens(rows[j])'
             PROVE  j <= i
  BY DEF Latest
<1>3. i # n + 1 /\ j # n + 1
  BY <1>2 DEF Opens
<1>4. PICK k \in 1..Len(rows), l \in 1..Len(rows) : g[k] = i /\ g[l] = j
  BY <1>2, <1>3
<1>5. rows[k] = Said(m) /\ Opens(rows[l])
  BY <1>2, <1>4 DEF Opens
<1>6. l <= k
  BY <1>5 DEF Latest
<1>7. l < k \/ l = k
  BY <1>6
<1>8. g[l] < g[k] \/ g[l] = g[k]
  BY <1>2, <1>7
<1> QED
  BY <1>2, <1>4, <1>8

\* A new message at the end is the latest.
LEMMA LatestAppended ==
    ASSUME Shape, NEW x, Inserted(rows, Len(rows), rows', x), ~Stored(x), NEW m, x = Said(m)
    PROVE  Latest(m)'
<1>1. /\ Len(rows) \in Nat /\ Len(rows') = Len(rows) + 1
      /\ \A i \in 1..Len(rows) : rows'[i] = rows[i]
  BY RowsTyped DEF Inserted
<1> SUFFICES ASSUME NEW i \in 1..Len(rows'), NEW j \in 1..Len(rows'), rows'[i] = Said(m)
             PROVE  j <= i
  BY DEF Latest
<1>2. i \notin 1..Len(rows)
  BY <1>1 DEF Stored
<1> QED
  BY <1>1, <1>2

-----------------------------------------------------------------------------
(* Each step of Core keeps the order.                                      *)

\* A send moves on, the others stay where they are.
LEMMA GoFacts ==
    ASSUME Shape, NEW m \in Msgs, NEW step, Go(m, step)
    PROVE  /\ pc'[m] = step
           /\ \A k \in Msgs : k # m => pc'[k] = pc[k]
<1>1. pc \in [Msgs -> {"new", "sent", "saved", "pending", "written", "drained", "taken", "over"}]
  BY DEF Shape, CoreShape
<1> QED
  BY <1>1 DEF Go

\* With the same rows the same is stored.
LEMMA StoredSame ==
    ASSUME rows' = rows
    PROVE  \A r : Stored(r)' <=> Stored(r)
BY DEF Stored

\* The same queue has the same messages.
LEMMA QueuedSame ==
    ASSUME queue' = queue
    PROVE  \A m : Queued(m)' <=> Queued(m)
BY DEF Queued

\* A run that has left Core's hands stays with its row.
LEMMA RanSame ==
    ASSUME rows' = rows, midway' = midway, NEW m, Ran(m), pc'[m] = "over"
    PROVE  Ran(m)'
BY DEF Ran, Stored

\* The conversation stays in order while its rows do and no run is taken back.
LEMMA BookSame ==
    ASSUME Shape, Book, rows' = rows, midway' = midway, run' = run,
           \A m \in Msgs : Ran(m) => Ran(m)'
    PROVE  Book'
<1>1. \A i \in 1..Len(rows) : rows[i][1] \in Msgs
  BY RowsTyped
<1>2. \A i \in 1..Len(rows)' : rows'[i][3] # "said" => Ran(rows[i][1])' /\ Upto(rows[i])'
  <2> SUFFICES ASSUME NEW i \in 1..Len(rows), rows[i][3] # "said"
               PROVE  Ran(rows[i][1])' /\ Upto(rows[i])'
    OBVIOUS
  <2>1. Ran(rows[i][1]) /\ Upto(rows[i])
    BY DEF Book
  <2>2. PICK m \in Msgs : m = rows[i][1]
    BY <1>1
  <2>3. Ran(m)' /\ rows[i]' = rows[i]
    BY <2>1, <2>2
  <2>4. Ran(rows[i][1])'
    BY <2>2, <2>3
  <2>5. Upto(rows[i])'
    BY <2>1 DEF Upto
  <2> QED
    BY <2>4, <2>5
<1> QED
  BY <1>2 DEF Book, Opens

\* What is still to be written stays so while rows and runs do.
LEMMA ComingSame ==
    ASSUME Coming, rows' = rows, midway' = midway, run' = run, acts' = acts,
           \A m \in Msgs : Ran(m) => Ran(m)',
           \A m \in Msgs : Holder(m)' => Holder(m)
    PROVE  Coming'
<1>1. \A m : (Latest(m)' <=> Latest(m)) /\ (Stored(m)' <=> Stored(m))
  BY DEF Latest, Stored, Opens
<1>2. \A r : Upto(r)' <=> Upto(r)
  BY DEF Upto
<1>3. \A S : (On(acts, S)' <=> On(acts, S)) /\ (OneOf(acts, S)' <=> OneOf(acts, S))
  OBVIOUS
<1>4. \A r \in Rows : On(acts, RowEv(r)) =>
          /\ r[3] # "said" /\ Ran(r[1]) /\ ~Stored(r) /\ Latest(r[1]) /\ Upto(r)
          /\ r[1] \notin History
  BY DEF Coming
<1>5. \A r \in Rows : r[1] \in Msgs
  BY RowFacts
<1>6. \A r \in Rows : On(acts, RowEv(r))' =>
          /\ r[3] # "said" /\ Ran(r[1])' /\ ~Stored(r)' /\ Latest(r[1])' /\ Upto(r)'
          /\ r[1] \notin History
  BY <1>1, <1>2, <1>3, <1>4, <1>5
<1>7. \A r \in Rows : OneOf(acts, RowEv(r))'
  BY <1>3 DEF Coming
<1>8. \A m \in Msgs : Holder(m)' => Latest(m)' /\ m \notin midway'
  BY <1>1 DEF Coming
<1>9. run'.of # NoMsg =>
          /\ Latest(run.of)' /\ Stored(Said(run.of))' /\ run'.of \notin midway'
          /\ run'.of \notin History
  BY <1>1 DEF Coming
<1> QED
  BY <1>6, <1>7, <1>8, <1>9 DEF Coming

\* A send that leaves Core's hands, or stays in them, keeps all but places.
LEMMA MovesKeep ==
    ASSUME Shape, CoreInv, NEW m \in Msgs, NEW step, Go(m, step), pc[m] # "over",
           UNCHANGED <<rows, midway, run, emits, acts>>,
           step \notin {"written", "taken"},
           step \in {"saved", "pending", "drained"} => pc[m] \in {"saved", "pending", "drained"},
           \/ gate' = gate
           \/ step = "over" /\ Holder(m) /\ run.of = NoMsg /\ acts = <<>>
    PROVE  /\ Suffix' /\ Claim' /\ Book' /\ Coming'
           /\ \A k \in Msgs : Holder(k)' => Holder(k)
           /\ pc'[m] = step /\ \A k \in Msgs : k # m => pc'[k] = pc[k]
           /\ \A r : Stored(r)' <=> Stored(r)
<1>1. /\ pc'[m] = step
      /\ \A k \in Msgs : k # m => pc'[k] = pc[k]
  BY GoFacts
<1>2. rows' = rows /\ midway' = midway /\ run' = run /\ emits' = emits /\ acts' = acts
  OBVIOUS
<1>3. \A k \in Msgs : Holder(k)' => Holder(k)
  BY <1>1 DEF Holder
<1>4. \A k \in Msgs : Ran(k) => Ran(k)'
  <2> SUFFICES ASSUME NEW k \in Msgs, Ran(k)
               PROVE  Ran(k)'
    OBVIOUS
  <2>1. pc[k] = "over"
    BY DEF Ran
  <2>2. pc'[k] = "over"
    BY <1>1, <2>1
  <2> QED
    BY <1>2, <2>2, RanSame
<1>5. Suffix'
  BY <1>2 DEF CoreInv, Suffix
<1>6. Book'
  BY <1>2, <1>4, BookSame DEF CoreInv
<1>7. Coming'
  BY <1>2, <1>3, <1>4, ComingSame DEF CoreInv
<1>8. Claim'
  <2>1. Claim
    BY DEF CoreInv
  <2>2. \A k, n \in Msgs : Holder(k)' /\ Holder(n)' => k = n
    BY <1>3, <2>1 DEF Claim
  <2>3. gate' # gate => \A k \in Msgs : ~Holder(k)'
    <3> SUFFICES ASSUME gate' # gate, NEW k \in Msgs, Holder(k)'
                 PROVE  FALSE
      OBVIOUS
    <3>1. Holder(k) /\ Holder(m) /\ step = "over"
      BY <1>3
    <3>2. k = m
      BY <2>1, <3>1 DEF Claim
    <3> QED
      BY <1>1, <3>1, <3>2 DEF Holder
  <2>4. \A k \in Msgs : Holder(k)' => gate' /\ acts' = <<>>
    BY <1>2, <1>3, <2>1, <2>3 DEF Claim
  <2>5. \A k \in Msgs : pc'[k] \in {"saved", "pending", "drained"} => run'.of = NoMsg
    BY <1>1, <1>2, <2>1 DEF Claim
  <2>6. \A k \in Msgs : pc'[k] \in {"written", "taken"} => run'.of = k
    BY <1>1, <1>2, <2>1 DEF Claim
  <2>7. run'.of # NoMsg => gate' /\ ~On(acts, Ends)'
    BY <1>2, <2>1 DEF Claim, On
  <2>8. acts' # <<>> => gate'
    BY <1>2, <2>1 DEF Claim
  <2>9. \A i \in 1..Len(acts)' : acts'[i] \in Ends => i = Len(acts)'
    BY <1>2, <2>1 DEF Claim
  <2> QED
    BY <2>2, <2>4, <2>5, <2>6, <2>7, <2>8, <2>9 DEF Claim
<1>9. \A r : Stored(r)' <=> Stored(r)
  BY StoredSame
<1> QED
  BY <1>1, <1>3, <1>5, <1>6, <1>7, <1>8, <1>9

\* Places when the rows stay: what the message that moves needs.
LEMMA PlacesMoved ==
    ASSUME Shape, CoreInv, NEW m \in Msgs,
           \A k \in Msgs : k # m => pc'[k] = pc[k],
           \A r : Stored(r)' <=> Stored(r),
           midway' = midway, gone' = gone,
           \A k \in Msgs : k # m => (k \in lost' <=> k \in lost) /\ (Queued(k)' <=> Queued(k)),
           \A i, j \in 1..Len(queue)' : queue'[i].msg = queue'[j].msg => i = j,
           pc'[m] \in {"new", "sent"} =>
              ~Stored(Said(m)) /\ ~Queued(m)' /\ m \notin lost' /\ m \notin History,
           Holder(m)' => Stored(Said(m)) /\ Said(m) \notin gone /\ m \notin History,
           Queued(m)' => pc'[m] = "over" /\ ~Stored(Said(m)) /\ m \notin lost' /\ m \notin History,
           m \in lost' => pc'[m] = "over" /\ ~Stored(Said(m))
    PROVE  Places'
<1>1. Places
  BY DEF CoreInv
<1>2. \A k \in Msgs : k # m => (Holder(k)' <=> Holder(k))
  BY DEF Holder
<1>3. \A k \in Msgs : pc'[k] \in {"new", "sent"} =>
          ~Stored(Said(k))' /\ ~Queued(k)' /\ k \notin lost' /\ k \notin History
  BY <1>1 DEF Places
<1>4. \A k \in Msgs : Holder(k)' => Stored(Said(k))' /\ Said(k) \notin gone' /\ k \notin History
  BY <1>1, <1>2 DEF Places
<1>5. \A k \in Msgs : Queued(k)' =>
          pc'[k] = "over" /\ ~Stored(Said(k))' /\ k \notin lost' /\ k \notin History
  BY <1>1 DEF Places
<1>6. \A k \in Msgs : k \in lost' => pc'[k] = "over" /\ ~Stored(Said(k))'
  BY <1>1 DEF Places
<1>7. \A k \in Msgs : k \in midway' => Stored(Said(k))'
  BY <1>1 DEF Places
<1>8. \A r \in Rows : r \in gone' => Stored(r)'
  BY <1>1 DEF Places
<1> QED
  BY <1>3, <1>4, <1>5, <1>6, <1>7, <1>8 DEF Places

\* The page sends: the message is on its way to Core.
LEMMA SubmitKeeps ==
    ASSUME Shape, CoreInv, NEW m \in Msgs, Go(m, "sent"), pc[m] = "new",
           UNCHANGED <<rows, gone, midway, gate, run, queue, lost, emits, acts>>
    PROVE  CoreInv'
<1>1. /\ Suffix' /\ Claim' /\ Book' /\ Coming'
      /\ \A k \in Msgs : Holder(k)' => Holder(k)
      /\ pc'[m] = "sent" /\ \A k \in Msgs : k # m => pc'[k] = pc[k]
      /\ \A r : Stored(r)' <=> Stored(r)
  BY MovesKeep
<1>2. \A k : Queued(k)' <=> Queued(k)
  BY QueuedSame
<1>3. ~Stored(Said(m)) /\ ~Queued(m) /\ m \notin lost /\ m \notin History
  BY DEF CoreInv, Places
<1>4. ~Holder(m)'
  BY <1>1 DEF Holder
<1>5. \A i, j \in 1..Len(queue)' : queue'[i].msg = queue'[j].msg => i = j
  BY DEF CoreInv, Places
<1>6. Places'
  BY <1>1, <1>2, <1>3, <1>4, <1>5, PlacesMoved
<1> QED
  BY <1>1, <1>6 DEF CoreInv

\* What Core takes is where its sender left it.
LEMMA ReachedFacts ==
    ASSUME Shape, CoreInv, NEW m \in Msgs, Reached(m)
    PROVE  /\ pc[m] \in {"new", "sent"}
           /\ ~Stored(Said(m)) /\ ~Queued(m) /\ m \notin lost /\ m \notin History
<1>1. pc[m] \in {"new", "sent"}
  BY DEF Reached
<1> QED
  BY <1>1 DEF CoreInv, Places

\* A message enters the queue.
LEMMA EnqueueKeeps ==
    ASSUME Shape, CoreInv, NEW m \in Msgs, Enqueue(m)
    PROVE  CoreInv'
<1>1. Reached(m) /\ Go(m, "over")
  BY DEF Enqueue
<1>2. /\ pc[m] \in {"new", "sent"}
      /\ ~Stored(Said(m)) /\ ~Queued(m) /\ m \notin lost /\ m \notin History
  BY <1>1, ReachedFacts
<1>3. UNCHANGED <<rows, gone, midway, gate, run, lost, emits, acts>>
  BY DEF Enqueue
<1>4. /\ Suffix' /\ Claim' /\ Book' /\ Coming'
      /\ \A k \in Msgs : Holder(k)' => Holder(k)
      /\ pc'[m] = "over" /\ \A k \in Msgs : k # m => pc'[k] = pc[k]
      /\ \A r : Stored(r)' <=> Stored(r)
  BY <1>1, <1>2, <1>3, MovesKeep
<1>5. queue' = Append(queue, [msg |-> m, inter |-> MayInterject]) /\ queue \in Seq(Items)
  BY DEF Enqueue, Shape, CoreShape
<1>6. /\ Len(queue) \in Nat /\ Len(queue') = Len(queue) + 1
      /\ \A i \in 1..Len(queue) : queue'[i] = queue[i]
      /\ queue'[Len(queue) + 1].msg = m
  <2> DEFINE item == [msg |-> m, inter |-> MayInterject]
  <2>1. item.msg = m
    OBVIOUS
  <2> HIDE DEF item
  <2>2. queue' = Append(queue, item)
    BY <1>5 DEF item
  <2>3. /\ Len(queue) \in Nat /\ Len(Append(queue, item)) = Len(queue) + 1
        /\ \A i \in 1..Len(queue) : Append(queue, item)[i] = queue[i]
        /\ Append(queue, item)[Len(queue) + 1] = item
    BY <1>5
  <2> QED
    BY <2>1, <2>2, <2>3
<1>7. \A k \in Msgs : k # m => (Queued(k)' <=> Queued(k))
  <2> SUFFICES ASSUME NEW k \in Msgs, k # m
               PROVE  Queued(k)' <=> Queued(k)
    OBVIOUS
  <2>1. \A i \in 1..Len(queue') : i \in 1..Len(queue) \/ i = Len(queue) + 1
    BY <1>6
  <2>2. \A i \in 1..Len(queue) : i \in 1..Len(queue')
    BY <1>6
  <2> QED
    BY <1>6, <2>1, <2>2 DEF Queued
<1>8. \A i, j \in 1..Len(queue)' : queue'[i].msg = queue'[j].msg => i = j
  <2>1. \A i, j \in 1..Len(queue) : queue[i].msg = queue[j].msg => i = j
    BY DEF CoreInv, Places
  <2>2. \A i \in 1..Len(queue) : queue[i].msg # m
    BY <1>2 DEF Queued
  <2>3. \A i \in 1..Len(queue') : i \in 1..Len(queue) \/ i = Len(queue) + 1
    BY <1>6
  <2> QED
    BY <1>6, <2>1, <2>2, <2>3
<1>9. ~Holder(m)'
  BY <1>4 DEF Holder
<1>10. Places'
  BY <1>2, <1>3, <1>4, <1>7, <1>8, <1>9, PlacesMoved
<1> QED
  BY <1>4, <1>10 DEF CoreInv

\* A row that could not be written closes the gate it reserved.
LEMMA RowFailsKeeps ==
    ASSUME Shape, CoreInv, NEW m \in Msgs, RowFails(m)
    PROVE  CoreInv'
<1>1. Reached(m) /\ Go(m, "over") /\ lost' = lost \cup {m}
  BY DEF RowFails
<1>2. /\ pc[m] \in {"new", "sent"}
      /\ ~Stored(Said(m)) /\ ~Queued(m) /\ m \notin lost /\ m \notin History
  BY <1>1, ReachedFacts
<1>3. UNCHANGED <<rows, gone, midway, gate, run, queue, emits, acts>>
  BY DEF RowFails
<1>4. /\ Suffix' /\ Claim' /\ Book' /\ Coming'
      /\ \A k \in Msgs : Holder(k)' => Holder(k)
      /\ pc'[m] = "over" /\ \A k \in Msgs : k # m => pc'[k] = pc[k]
      /\ \A r : Stored(r)' <=> Stored(r)
  BY <1>1, <1>2, <1>3, MovesKeep
<1>5. \A k : Queued(k)' <=> Queued(k)
  BY <1>3, QueuedSame
<1>6. \A i, j \in 1..Len(queue)' : queue'[i].msg = queue'[j].msg => i = j
  BY <1>3 DEF CoreInv, Places
<1>7. ~Holder(m)'
  BY <1>4 DEF Holder
<1>8. Places'
  BY <1>1, <1>2, <1>3, <1>4, <1>5, <1>6, <1>7, PlacesMoved
<1> QED
  BY <1>4, <1>8 DEF CoreInv

\* A holder's place: its row is there, it waits nowhere, it was not lost.
LEMMA HolderFacts ==
    ASSUME CoreInv, NEW m \in Msgs, Holder(m)
    PROVE  /\ Stored(Said(m)) /\ Said(m) \notin gone /\ m \notin History
           /\ ~Queued(m) /\ m \notin lost /\ Latest(m) /\ m \notin midway
           /\ gate /\ acts = <<>> /\ \A k \in Msgs : Holder(k) => k = m
<1>1. Stored(Said(m)) /\ Said(m) \notin gone /\ m \notin History
  BY DEF CoreInv, Places
<1>2. ~Queued(m) /\ m \notin lost
  BY <1>1 DEF CoreInv, Places
<1>3. Latest(m) /\ m \notin midway
  BY DEF CoreInv, Coming
<1>4. gate /\ acts = <<>> /\ \A k \in Msgs : Holder(k) => k = m
  BY DEF CoreInv, Claim
<1> QED
  BY <1>1, <1>2, <1>3, <1>4

\* A send in Core's hands that goes on to its announcement, or out of them.
LEMMA AnnounceKeeps ==
    ASSUME Shape, CoreInv, NEW m \in Msgs, Holder(m), NEW step, Go(m, step),
           step = "over" \/ (step = "pending" /\ pc[m] = "saved"),
           UNCHANGED <<rows, gone, midway, run, queue, lost, emits, acts>>,
           gate' = gate \/ (step = "over" /\ run.of = NoMsg)
    PROVE  CoreInv'
<1>1. /\ Stored(Said(m)) /\ Said(m) \notin gone /\ m \notin History
      /\ ~Queued(m) /\ m \notin lost /\ acts = <<>>
  BY HolderFacts
<1>2. pc[m] # "over"
  BY DEF Holder
<1>3. /\ Suffix' /\ Claim' /\ Book' /\ Coming'
      /\ \A k \in Msgs : Holder(k)' => Holder(k)
      /\ pc'[m] = step /\ \A k \in Msgs : k # m => pc'[k] = pc[k]
      /\ \A r : Stored(r)' <=> Stored(r)
  BY <1>1, <1>2, MovesKeep
<1>4. \A k : Queued(k)' <=> Queued(k)
  BY QueuedSame
<1>5. \A i, j \in 1..Len(queue)' : queue'[i].msg = queue'[j].msg => i = j
  BY DEF CoreInv, Places
<1>6. Places'
  BY <1>1, <1>3, <1>4, <1>5, PlacesMoved
<1> QED
  BY <1>3, <1>6 DEF CoreInv

\* A send goes on, is announced or fails to reach the runner.
LEMMA SendMovesKeep ==
    ASSUME Shape, CoreInv, NEW m \in Msgs,
           AnnouncePending(m) \/ WriteFails(m) \/ AnnounceDispatched(m)
    PROVE  CoreInv'
<1>1. CASE AnnouncePending(m)
  <2>1. /\ Go(m, "pending") /\ pc[m] = "saved" /\ gate' = gate
        /\ UNCHANGED <<rows, gone, midway, run, queue, lost, emits, acts>>
    BY <1>1 DEF AnnouncePending
  <2>2. Holder(m)
    BY <2>1 DEF Holder
  <2> QED
    BY <2>1, <2>2, AnnounceKeeps
<1>2. CASE WriteFails(m)
  <2>1. /\ Go(m, "over") /\ pc[m] \in {"pending", "drained"}
        /\ UNCHANGED <<rows, gone, midway, run, queue, lost, emits, acts>>
    BY <1>2 DEF WriteFails
  <2>2. Holder(m)
    BY <2>1 DEF Holder
  <2>3. run.of = NoMsg
    BY <2>1 DEF CoreInv, Claim
  <2> QED
    BY <2>1, <2>2, <2>3, AnnounceKeeps
<1>3. CASE AnnounceDispatched(m)
  <2>1. /\ Go(m, "over") /\ pc[m] \in {"written", "taken"} /\ gate' = gate
        /\ UNCHANGED <<rows, gone, midway, run, queue, lost, emits, acts>>
    BY <1>3 DEF AnnounceDispatched
  <2>2. Holder(m)
    BY <2>1 DEF Holder
  <2> QED
    BY <2>1, <2>2, AnnounceKeeps
<1> QED
  BY <1>1, <1>2, <1>3

\* The message reaches the runner: its run begins.
LEMMA WriteKeeps ==
    ASSUME Shape, CoreInv, NEW m \in Msgs, Write(m)
    PROVE  CoreInv'
<1>1. /\ pc[m] \in {"pending", "drained"} /\ run' = [NoRun EXCEPT !.of = m]
      /\ UNCHANGED <<rows, gone, midway, gate, queue, lost, emits, acts>>
  BY DEF Write
<1>2. PICK step : step = IF pc[m] = "drained" THEN "taken" ELSE "written"
  OBVIOUS
<1>3. Go(m, step) /\ step \in {"taken", "written"}
  BY <1>2 DEF Write
<1>4. pc'[m] = step /\ \A k \in Msgs : k # m => pc'[k] = pc[k]
  BY <1>3, GoFacts
<1>5. Holder(m)
  BY <1>1 DEF Holder
<1>6. /\ Stored(Said(m)) /\ Said(m) \notin gone /\ m \notin History
      /\ ~Queued(m) /\ m \notin lost /\ Latest(m) /\ m \notin midway
      /\ gate /\ acts = <<>> /\ \A k \in Msgs : Holder(k) => k = m
  BY <1>5, HolderFacts
<1>7. run'.of = m
  BY <1>1 DEF NoRun
<1>8. \A k \in Msgs : Holder(k)' => k = m
  BY <1>4, <1>6 DEF Holder
<1>9. \A r : (Stored(r)' <=> Stored(r)) /\ (Queued(r)' <=> Queued(r))
  BY <1>1, StoredSame, QueuedSame
<1>10. acts' = <<>> /\ Len(acts') = 0 /\ gate'
  BY <1>1, <1>6
<1>11. Suffix'
  BY <1>1 DEF CoreInv, Suffix
<1>12. Claim'
  <2>1. \A k, n \in Msgs : Holder(k)' /\ Holder(n)' => k = n
    BY <1>8
  <2>2. \A k \in Msgs : Holder(k)' => gate' /\ acts' = <<>>
    BY <1>10
  <2>3. \A k \in Msgs : pc'[k] \in {"saved", "pending", "drained"} => run'.of = NoMsg
    BY <1>3, <1>4, <1>8 DEF Holder
  <2>4. \A k \in Msgs : pc'[k] \in {"written", "taken"} => run'.of = k
    BY <1>7, <1>8 DEF Holder
  <2>5. ~On(acts, Ends)' /\ \A i \in 1..Len(acts)' : acts'[i] \in Ends => i = Len(acts)'
    BY <1>10 DEF On
  <2> QED
    BY <1>10, <2>1, <2>2, <2>3, <2>4, <2>5 DEF Claim
<1>13. Places'
  <2>1. ~(pc'[m] \in {"new", "sent"})
    BY <1>3, <1>4
  <2>2. \A i, j \in 1..Len(queue)' : queue'[i].msg = queue'[j].msg => i = j
    BY <1>1 DEF CoreInv, Places
  <2>3. UNCHANGED <<midway, gone, lost>>
    BY <1>1
  <2> QED
    BY <1>4, <1>6, <1>9, <2>1, <2>2, <2>3, PlacesMoved
<1>14. \A k \in Msgs : Ran(k) => k # m /\ Ran(k)'
  <2> SUFFICES ASSUME NEW k \in Msgs, Ran(k)
               PROVE  k # m /\ Ran(k)'
    OBVIOUS
  <2>1. k # m
    BY <1>1 DEF Ran
  <2>2. pc'[k] = "over"
    BY <1>4, <2>1 DEF Ran
  <2> QED
    BY <1>1, <2>1, <2>2, RanSame
<1>15. Book'
  <2>1. \A i \in 1..Len(rows)' : rows'[i][3] # "said" => Ran(rows[i][1])' /\ Upto(rows[i])'
    <3> SUFFICES ASSUME NEW i \in 1..Len(rows), rows[i][3] # "said"
                 PROVE  Ran(rows[i][1])' /\ Upto(rows[i])'
      BY <1>1
    <3>1. PICK k \in Msgs : k = rows[i][1]
      BY RowsTyped
    <3>2. Ran(k)
      BY <3>1 DEF CoreInv, Book
    <3>3. k # m /\ Ran(k)'
      BY <1>14, <3>2
    <3>4. Ran(rows[i][1])'
      BY <1>1, <3>1, <3>3
    <3>5. Upto(rows[i])'
      BY <1>1, <1>7, <3>1, <3>3 DEF Upto
    <3> QED
      BY <3>4, <3>5
  <2> QED
    BY <1>1, <2>1 DEF CoreInv, Book, Opens
<1>16. Coming'
  <2>1. \A k : Latest(k)' <=> Latest(k)
    BY <1>1 DEF Latest, Opens
  <2>2. \A S : ~On(acts, S)' /\ OneOf(acts, S)'
    BY <1>10 DEF On, OneOf
  <2>3. \A k \in Msgs : Holder(k)' => Latest(k)' /\ k \notin midway'
    BY <1>1, <1>6, <1>8, <2>1
  <2>4. Latest(run.of)' /\ Stored(Said(run.of))' /\ run'.of \notin midway' /\ run'.of \notin History
    BY <1>1, <1>6, <1>7, <1>9, <2>1
  <2> QED
    BY <2>2, <2>3, <2>4 DEF Coming
<1> QED
  BY <1>11, <1>12, <1>13, <1>15, <1>16 DEF CoreInv

\* A row at the end is a row put in after all the others.
LEMMA AppendInserted ==
    ASSUME NEW S, NEW s \in Seq(S), NEW x \in S
    PROVE  Inserted(s, Len(s), Append(s, x), x) /\ Len(s) \in 0..Len(s)
<1>1. /\ Len(s) \in Nat /\ Len(Append(s, x)) = Len(s) + 1
      /\ \A i \in 1..Len(s) : Append(s, x)[i] = s[i]
      /\ Append(s, x)[Len(s) + 1] = x
  OBVIOUS
<1> QED
  BY <1>1 DEF Inserted

\* A message's row is written by the one that reserved the gate for it.
LEMMA OpenerKeeps ==
    ASSUME Shape, CoreInv, NEW m \in Msgs, NEW step \in {"saved", "drained"}, Go(m, step),
           rows' = Append(rows, Said(m)), ~Stored(Said(m)), m \notin History, m \notin lost,
           \A k \in Msgs : ~Holder(k), run.of = NoMsg, gate', acts' = <<>>, emits' = <<>>,
           UNCHANGED <<gone, midway, run, lost>>,
           \A k \in Msgs : Queued(k)' => Queued(k) /\ k # m,
           \A i, j \in 1..Len(queue)' : queue'[i].msg = queue'[j].msg => i = j
    PROVE  CoreInv'
<1>1. pc'[m] = step /\ \A k \in Msgs : k # m => pc'[k] = pc[k]
  BY GoFacts
<1>2. Inserted(rows, Len(rows), rows', Said(m)) /\ Len(rows) \in 0..Len(rows)
  BY RowsTyped, AppendInserted
<1>3. \A r : Stored(r)' <=> Stored(r) \/ r = Said(m)
  BY <1>2, StoredInserted
<1>4. \A k \in Msgs : Holder(k)' => k = m
  BY <1>1 DEF Holder
<1>5. Places
  BY DEF CoreInv
<1>6. \A k \in Msgs : Said(k) = Said(m) => k = m
  BY RowsTyped
<1>7. Len(acts') = 0 /\ Len(emits') = 0
  OBVIOUS
<1>8. Suffix'
  BY <1>7 DEF Suffix
<1>9. Claim'
  <2>1. \A k, n \in Msgs : Holder(k)' /\ Holder(n)' => k = n
    BY <1>4
  <2>2. \A k \in Msgs : Holder(k)' => gate' /\ acts' = <<>>
    OBVIOUS
  <2>3. \A k \in Msgs : pc'[k] \in {"written", "taken"} => run'.of = k
    BY <1>1, <1>4 DEF Holder
  <2>4. ~On(acts, Ends)' /\ \A i \in 1..Len(acts)' : acts'[i] \in Ends => i = Len(acts)'
    BY <1>7 DEF On
  <2> QED
    BY <2>1, <2>2, <2>3, <2>4 DEF Claim
<1>10. m \notin midway /\ Said(m) \notin gone
  BY <1>5, SaidFacts DEF Places
<1>11. Places'
  <2>1. \A k \in Msgs : pc'[k] \in {"new", "sent"} =>
          ~Stored(Said(k))' /\ ~Queued(k)' /\ k \notin lost' /\ k \notin History
    <3> SUFFICES ASSUME NEW k \in Msgs, pc'[k] \in {"new", "sent"}
                 PROVE  ~Stored(Said(k))' /\ ~Queued(k)' /\ k \notin lost' /\ k \notin History
      OBVIOUS
    <3>1. k # m /\ pc[k] \in {"new", "sent"}
      BY <1>1
    <3> QED
      BY <1>3, <1>5, <1>6, <3>1 DEF Places
  <2>2. \A k \in Msgs : Holder(k)' => Stored(Said(k))' /\ Said(k) \notin gone' /\ k \notin History
    BY <1>3, <1>4, <1>10
  <2>3. \A k \in Msgs : Queued(k)' =>
          pc'[k] = "over" /\ ~Stored(Said(k))' /\ k \notin lost' /\ k \notin History
    BY <1>1, <1>3, <1>5, <1>6 DEF Places
  <2>4. \A k \in Msgs : k \in lost' => pc'[k] = "over" /\ ~Stored(Said(k))'
    BY <1>1, <1>3, <1>5, <1>6 DEF Places
  <2>5. \A k \in Msgs : k \in midway' => Stored(Said(k))'
    BY <1>3, <1>5 DEF Places
  <2>6. \A r \in Rows : r \in gone' => Stored(r)'
    BY <1>3, <1>5 DEF Places
  <2> QED
    BY <2>1, <2>2, <2>3, <2>4, <2>5, <2>6 DEF Places
<1>12. \A k \in Msgs : Ran(k) => Ran(k)'
  <2> SUFFICES ASSUME NEW k \in Msgs, Ran(k)
               PROVE  Ran(k)'
    OBVIOUS
  <2>1. k # m /\ pc[k] = "over" /\ Stored(Said(k)) /\ k \notin midway
    BY DEF Ran
  <2>2. pc'[k] = "over" /\ Stored(Said(k))' /\ k \notin midway'
    BY <1>1, <1>3, <2>1
  <2> QED
    BY <2>2 DEF Ran
<1>13. Book'
  <2>1. Said(m) \in Rows /\ Said(m)[3] = "said"
    BY SaidFacts
  <2>2. Book /\ midway \subseteq midway' /\ run' = run
    BY DEF CoreInv
  <2> QED
    BY <1>2, <1>12, <2>1, <2>2, BookInserted
<1>14. Coming'
  <2>1. \A S : ~On(acts, S)' /\ OneOf(acts, S)'
    BY <1>7 DEF On, OneOf
  <2>2. Latest(m)'
    BY <1>2, LatestAppended
  <2>3. \A k \in Msgs : Holder(k)' => Latest(k)' /\ k \notin midway'
    BY <1>4, <1>10, <2>2
  <2>4. run'.of = NoMsg
    OBVIOUS
  <2> QED
    BY <2>1, <2>3, <2>4 DEF Coming
<1> QED
  BY <1>8, <1>9, <1>11, <1>13, <1>14 DEF CoreInv

\* Nothing is reported while nobody holds the gate.
LEMMA ClosedFacts ==
    ASSUME Shape, CoreInv, ~gate
    PROVE  /\ \A k \in Msgs : ~Holder(k)
           /\ run.of = NoMsg /\ acts = <<>> /\ emits = <<>>
<1>1. Claim /\ Suffix
  BY DEF CoreInv
<1>2. \A k \in Msgs : ~Holder(k)
  BY <1>1 DEF Claim
<1>3. run.of = NoMsg /\ acts = <<>>
  BY <1>1 DEF Claim
<1>4. emits \in Seq(Reported) /\ Len(emits) <= Len(acts) /\ Len(acts) = 0
  BY <1>1, <1>3 DEF Suffix, Shape, ChannelShape
<1>5. emits = <<>>
  BY <1>4, EmptySeq
<1> QED
  BY <1>2, <1>3, <1>5

\* The gate is reserved and the row of the message written.
LEMMA ReserveKeeps ==
    ASSUME Shape, CoreInv, NEW m \in Msgs, Reserve(m)
    PROVE  CoreInv'
<1>1. /\ Reached(m) /\ ~gate /\ queue = <<>> /\ gate' /\ rows' = Append(rows, Said(m))
      /\ Go(m, "saved")
      /\ UNCHANGED <<gone, midway, run, halting, queue, lost, emits, acts>>
  BY DEF Reserve
<1>2. ~Stored(Said(m)) /\ ~Queued(m) /\ m \notin lost /\ m \notin History
  BY <1>1, ReachedFacts
<1>3. /\ \A k \in Msgs : ~Holder(k)
      /\ run.of = NoMsg /\ acts = <<>> /\ emits = <<>>
  BY <1>1, ClosedFacts
<1>4. \A k \in Msgs : Queued(k)' => Queued(k) /\ k # m
  BY <1>1, <1>2, QueuedSame
<1>5. \A i, j \in 1..Len(queue)' : queue'[i].msg = queue'[j].msg => i = j
  BY <1>1 DEF CoreInv, Places
<1>6. acts' = <<>> /\ emits' = <<>> /\ UNCHANGED <<gone, midway, run, lost>>
  BY <1>1, <1>3
<1> QED
  BY <1>1, <1>2, <1>3, <1>4, <1>5, <1>6, OpenerKeeps

-----------------------------------------------------------------------------
(* What is taken from the queue.                                           *)

\* q's items are from the queue, g says from where.
FromQueue(q, g) ==
    /\ g \in [1..Len(q) -> 1..Len(queue)]
    /\ \A k \in 1..Len(q) : q[k] = queue[g[k]]
    /\ \A k, l \in 1..Len(q) : g[k] = g[l] => k = l

\* A queue of fewer of the same items has no message twice.
LEMMA SubQueue ==
    ASSUME Places, NEW g, FromQueue(queue', g)
    PROVE  /\ \A k \in Msgs : Queued(k)' => Queued(k)
           /\ \A i, j \in 1..Len(queue)' : queue'[i].msg = queue'[j].msg => i = j
           /\ \A j \in 1..Len(queue), m \in Msgs :
                 queue[j].msg = m /\ (\A k \in 1..Len(queue') : g[k] # j) => ~Queued(m)'
<1>1. \A k \in 1..Len(queue') : g[k] \in 1..Len(queue) /\ queue'[k] = queue[g[k]]
  BY DEF FromQueue
<1>2. \A i, j \in 1..Len(queue) : queue[i].msg = queue[j].msg => i = j
  BY DEF Places
<1>3. \A k \in Msgs : Queued(k)' => Queued(k)
  BY <1>1 DEF Queued
<1>4. \A i, j \in 1..Len(queue)' : queue'[i].msg = queue'[j].msg => i = j
  <2> SUFFICES ASSUME NEW i \in 1..Len(queue'), NEW j \in 1..Len(queue'),
                      queue'[i].msg = queue'[j].msg
               PROVE  i = j
    OBVIOUS
  <2>1. g[i] = g[j]
    BY <1>1, <1>2
  <2> QED
    BY <2>1 DEF FromQueue
<1>5. \A j \in 1..Len(queue), m \in Msgs :
          queue[j].msg = m /\ (\A k \in 1..Len(queue') : g[k] # j) => ~Queued(m)'
  <2> SUFFICES ASSUME NEW j \in 1..Len(queue), NEW m \in Msgs, queue[j].msg = m,
                      NEW k \in 1..Len(queue'), queue'[k].msg = m
               PROVE  g[k] = j
    BY DEF Queued
  <2> QED
    BY <1>1, <1>2
<1> QED
  BY <1>3, <1>4, <1>5

\* The head is taken.
LEMMA TailQueue ==
    ASSUME Shape, Places, queue # <<>>, queue' = Tail(queue)
    PROVE  LET h == Head(queue).msg
           IN  /\ h \in Msgs /\ Queued(h) /\ queue' \in Seq(Items)
               /\ \A k \in Msgs : Queued(k)' => Queued(k) /\ k # h
               /\ \A i, j \in 1..Len(queue)' : queue'[i].msg = queue'[j].msg => i = j
<1> DEFINE g == [k \in 1..Len(queue') |-> k + 1]
<1>1. queue \in Seq(Items)
  BY DEF Shape, CoreShape
<1>2. /\ Len(queue) \in Nat /\ 1 \in 1..Len(queue) /\ Head(queue) = queue[1]
      /\ queue' \in Seq(Items) /\ Len(queue') = Len(queue) - 1
      /\ \A k \in 1..Len(queue) - 1 : queue'[k] = queue[k + 1]
  <2>1. Len(queue) \in Nat /\ 1 \in 1..Len(queue) /\ Head(queue) = queue[1]
    BY <1>1, EmptySeq
  <2>2. /\ Tail(queue) \in Seq(Items) /\ Len(Tail(queue)) = Len(queue) - 1
        /\ \A k \in 1..Len(queue) - 1 : Tail(queue)[k] = queue[k + 1]
    BY <1>1, HeadTailProperties
  <2> QED
    BY <2>1, <2>2
<1>3. FromQueue(queue', g)
  <2>1. \A k \in 1..Len(queue') : k + 1 \in 1..Len(queue)
    BY <1>2
  <2>2. g \in [1..Len(queue') -> 1..Len(queue)]
    BY <2>1
  <2> QED
    BY <1>2, <2>2 DEF FromQueue
<1>4. \A k \in 1..Len(queue') : g[k] # 1
  BY <1>2
<1> HIDE DEF g
<1>5. queue[1] \in Items
  BY <1>1, <1>2
<1>6. Head(queue).msg \in Msgs /\ Queued(Head(queue).msg)
  BY <1>2, <1>5 DEF Queued, Items
<1>8. PICK f : FromQueue(queue', f) /\ \A k \in 1..Len(queue') : f[k] # 1
  BY <1>3, <1>4
<1>a. /\ \A k \in Msgs : Queued(k)' => Queued(k)
      /\ \A i, j \in 1..Len(queue)' : queue'[i].msg = queue'[j].msg => i = j
      /\ \A j \in 1..Len(queue), m \in Msgs :
            queue[j].msg = m /\ (\A k \in 1..Len(queue') : f[k] # j) => ~Queued(m)'
  BY <1>8, SubQueue
<1>7. /\ \A k \in Msgs : Queued(k)' => Queued(k)
      /\ \A i, j \in 1..Len(queue)' : queue'[i].msg = queue'[j].msg => i = j
      /\ \A m \in Msgs : queue[1].msg = m => ~Queued(m)'
  BY <1>2, <1>8, <1>a
<1> QED
  BY <1>2, <1>6, <1>7

\* One item is taken out, and may come back in front.
LEMMA JumpQueue ==
    ASSUME Shape, Places, NEW i \in 1..Len(queue),
           \/ queue' = RemoveAt(queue, i)
           \/ queue' = <<queue[i]>> \o RemoveAt(queue, i)
    PROVE  /\ queue[i].msg \in Msgs /\ Queued(queue[i].msg) /\ queue' \in Seq(Items)
           /\ \A k \in Msgs : Queued(k)' => Queued(k)
           /\ queue' = RemoveAt(queue, i) =>
                 \A m \in Msgs : queue[i].msg = m => ~Queued(m)'
           /\ \A k, l \in 1..Len(queue)' : queue'[k].msg = queue'[l].msg => k = l
<1>1. queue \in Seq(Items) /\ Len(queue) \in Nat /\ queue[i] \in Items
  BY DEF Shape, CoreShape
<1> DEFINE rest == RemoveAt(queue, i)
           f == [k \in 1..Len(rest) |-> IF k < i THEN k ELSE k + 1]
           g == [k \in 1..Len(rest) + 1 |-> IF k = 1 THEN i ELSE f[k - 1]]
<1>2. /\ rest \in Seq(Items) /\ Len(rest) = Len(queue) - 1
      /\ \A k \in 1..i - 1 : rest[k] = queue[k]
      /\ \A k \in i..Len(queue) - 1 : rest[k] = queue[k + 1]
  BY <1>1, RemoveAtFacts
<1>3. queue[i].msg \in Msgs /\ Queued(queue[i].msg)
  BY <1>1 DEF Items, Queued
<1> HIDE DEF rest
<1>4. \A k \in 1..Len(rest) : f[k] \in 1..Len(queue) /\ f[k] # i /\ rest[k] = queue[f[k]]
  <2> SUFFICES ASSUME NEW k \in 1..Len(rest)
               PROVE  f[k] \in 1..Len(queue) /\ f[k] # i /\ rest[k] = queue[f[k]]
    OBVIOUS
  <2>1. CASE k < i
    <3>1. f[k] = k /\ k \in 1..i - 1
      BY <2>1
    <3> QED
      BY <1>1, <1>2, <3>1
  <2>2. CASE ~(k < i)
    <3>1. f[k] = k + 1 /\ k \in i..Len(queue) - 1
      BY <1>1, <1>2, <2>2
    <3> QED
      BY <1>1, <1>2, <3>1
  <2> QED
    BY <2>1, <2>2
<1>5. \A k, l \in 1..Len(rest) : f[k] = f[l] => k = l
  <2>1. \A k \in 1..Len(rest) : f[k] = IF k < i THEN k ELSE k + 1
    OBVIOUS
  <2> HIDE DEF f
  <2> QED
    BY <1>1, <1>2, <2>1
<1>6. f \in [1..Len(rest) -> 1..Len(queue)]
  BY <1>4
<1> HIDE DEF f
<1>7. CASE queue' = rest
  <2>1. FromQueue(queue', f)
    BY <1>4, <1>5, <1>6, <1>7 DEF FromQueue
  <2>2. /\ \A k \in Msgs : Queued(k)' => Queued(k)
        /\ \A k, l \in 1..Len(queue)' : queue'[k].msg = queue'[l].msg => k = l
        /\ \A m \in Msgs : queue[i].msg = m => ~Queued(m)'
    BY <1>4, <1>7, <2>1, SubQueue
  <2> QED
    BY <1>2, <1>3, <1>7, <2>2
<1>8. CASE queue' = <<queue[i]>> \o rest
  <2>1. <<queue[i]>> \in Seq(Items) /\ Len(<<queue[i]>>) = 1 /\ <<queue[i]>>[1] = queue[i]
    BY <1>1
  <2>2. /\ queue' \in Seq(Items) /\ Len(queue') = Len(rest) + 1 /\ queue'[1] = queue[i]
        /\ \A k \in 2..Len(rest) + 1 : queue'[k] = rest[k - 1]
    BY <1>2, <1>8, <2>1
  <2>3. \A k \in 1..Len(rest) + 1 : g[k] = IF k = 1 THEN i ELSE f[k - 1]
    OBVIOUS
  <2>4. \A k \in 1..Len(rest) + 1 : k # 1 => k - 1 \in 1..Len(rest)
    BY <1>2
  <2>5. g \in [1..Len(queue') -> 1..Len(queue)]
    <3>1. \A k \in 1..Len(rest) + 1 : (IF k = 1 THEN i ELSE f[k - 1]) \in 1..Len(queue)
      BY <1>4, <2>4
    <3> QED
      BY <2>2, <3>1
  <2> HIDE DEF g
  <2>6. \A k \in 1..Len(queue') : queue'[k] = queue[g[k]]
    <3> SUFFICES ASSUME NEW k \in 1..Len(rest) + 1
                 PROVE  queue'[k] = queue[g[k]]
      BY <2>2
    <3>1. CASE k = 1
      BY <2>2, <2>3, <3>1
    <3>2. CASE k # 1
      <4>1. g[k] = f[k - 1] /\ k - 1 \in 1..Len(rest) /\ k \in 2..Len(rest) + 1
        BY <1>2, <2>3, <2>4, <3>2
      <4> QED
        BY <1>4, <2>2, <4>1
    <3> QED
      BY <3>1, <3>2
  <2>7. \A k, l \in 1..Len(queue') : g[k] = g[l] => k = l
    <3> SUFFICES ASSUME NEW k \in 1..Len(rest) + 1, NEW l \in 1..Len(rest) + 1, g[k] = g[l]
                 PROVE  k = l
      BY <2>2
    <3>1. CASE k = 1 \/ l = 1
      BY <1>4, <2>3, <2>4, <3>1
    <3>2. CASE k # 1 /\ l # 1
      <4>1. f[k - 1] = f[l - 1] /\ k - 1 \in 1..Len(rest) /\ l - 1 \in 1..Len(rest)
        BY <2>3, <2>4, <3>2
      <4>2. k - 1 = l - 1
        BY <1>5, <4>1
      <4> QED
        BY <4>2
    <3> QED
      BY <3>1, <3>2
  <2>8. FromQueue(queue', g)
    BY <2>5, <2>6, <2>7 DEF FromQueue
  <2>9. Len(queue') # Len(rest)
    BY <1>2, <2>2
  <2>10. /\ \A k \in Msgs : Queued(k)' => Queued(k)
         /\ \A k, l \in 1..Len(queue)' : queue'[k].msg = queue'[l].msg => k = l
    BY <2>8, SubQueue
  <2> QED
    BY <1>3, <2>2, <2>9, <2>10 DEF rest
<1> QED
  BY <1>7, <1>8 DEF rest

\* The items of one message are taken out.
LEMMA PickedQueue ==
    ASSUME Shape, Places, NEW m \in Msgs,
           queue' = Picked(queue, {i \in DOMAIN queue : queue[i].msg # m})
    PROVE  /\ queue' \in Seq(Items)
           /\ \A k \in Msgs : Queued(k)' => Queued(k) /\ k # m
           /\ \A i, j \in 1..Len(queue)' : queue'[i].msg = queue'[j].msg => i = j
<1> DEFINE at == {i \in DOMAIN queue : queue[i].msg # m}
<1>1. queue \in Seq(Items) /\ DOMAIN queue = 1..Len(queue)
  BY DEF Shape, CoreShape
<1>2. at \in SUBSET (1..Len(queue)) /\ \A i \in at : queue[i].msg # m
  BY <1>1
<1> DEFINE q == Picked(queue, at)
<1>3. queue' = q
  OBVIOUS
<1> HIDE DEF at
<1>a. /\ q \in Seq(Items)
      /\ \E f : Within(q, queue, f)
                /\ \A i \in 1..Len(queue) : i \in at <=> \E k \in 1..Len(q) : f[k] = i
  BY <1>1, <1>2, PickedFacts
<1> HIDE DEF q
<1>4. /\ queue' \in Seq(Items)
      /\ \E f : Within(queue', queue, f)
                /\ \A i \in 1..Len(queue) : i \in at <=> \E k \in 1..Len(queue') : f[k] = i
  BY <1>a, <1>3
<1>5. PICK f : /\ Within(queue', queue, f)
               /\ \A i \in 1..Len(queue) : i \in at <=> \E k \in 1..Len(queue') : f[k] = i
  BY <1>4
<1>6. /\ Len(queue') \in Nat /\ f \in [1..Len(queue') -> 1..Len(queue)]
      /\ \A k \in 1..Len(queue') : queue'[k] = queue[f[k]]
      /\ \A k, l \in 1..Len(queue') : k < l => f[k] < f[l]
  BY <1>4, <1>5 DEF Within
<1>7. \A k, l \in 1..Len(queue') : f[k] = f[l] => k = l
  <2> SUFFICES ASSUME NEW k \in 1..Len(queue'), NEW l \in 1..Len(queue'), f[k] = f[l], k # l
               PROVE  FALSE
    OBVIOUS
  <2>1. f[k] \in Nat /\ f[l] \in Nat /\ (k < l \/ l < k)
    BY <1>6
  <2> QED
    BY <1>6, <2>1
<1>8. FromQueue(queue', f)
  BY <1>6, <1>7 DEF FromQueue
<1>9. \A k \in 1..Len(queue') : queue'[k].msg # m
  <2> SUFFICES ASSUME NEW k \in 1..Len(queue')
               PROVE  queue'[k].msg # m
    OBVIOUS
  <2>1. PICK i \in 1..Len(queue) : i = f[k]
    BY <1>6
  <2>2. i \in at /\ queue'[k] = queue[i]
    BY <1>5, <1>6, <2>1
  <2> QED
    BY <1>2, <2>2
<1>10. /\ \A k \in Msgs : Queued(k)' => Queued(k)
       /\ \A i, j \in 1..Len(queue)' : queue'[i].msg = queue'[j].msg => i = j
  BY <1>8, SubQueue
<1> QED
  BY <1>4, <1>9, <1>10 DEF Queued

-----------------------------------------------------------------------------
(* The runner reports and Core acts on it.                                 *)

\* A run that reports has nobody else's send in Core's hands.
LEMMA RunFacts ==
    ASSUME Shape, CoreInv, run.of # NoMsg, pc[run.of] = "over"
    PROVE  /\ run.of \in Msgs /\ \A k \in Msgs : ~Holder(k)
           /\ gate /\ ~On(acts, Ends) /\ Ran(run.of) /\ Latest(run.of)
           /\ run.of \notin History
<1>1. Claim /\ Coming
  BY DEF CoreInv
<1>2. run.of \in Msgs
  BY DEF Shape, CoreShape
<1>3. gate /\ ~On(acts, Ends)
  BY <1>1 DEF Claim
<1>4. \A k \in Msgs : ~Holder(k)
  <2> SUFFICES ASSUME NEW k \in Msgs, Holder(k)
               PROVE  FALSE
    OBVIOUS
  <2>1. CASE pc[k] \in {"saved", "pending", "drained"}
    BY <1>1, <2>1 DEF Claim
  <2>2. CASE pc[k] \in {"written", "taken"}
    <3>1. run.of = k
      BY <1>1, <2>2 DEF Claim
    <3> QED
      BY <2>2, <3>1
  <2> QED
    BY <2>1, <2>2 DEF Holder
<1>5. Latest(run.of) /\ Stored(Said(run.of)) /\ run.of \notin midway /\ run.of \notin History
  BY <1>1 DEF Coming
<1> QED
  BY <1>2, <1>3, <1>4, <1>5 DEF Ran

\* The tail of a longer sequence stays its tail when both grow alike.
LEMMA SuffixPushed ==
    ASSUME Shape, Suffix, NEW new \in Seq(Reported), emits' = emits \o new, acts' = acts \o new
    PROVE  Suffix' /\ Pushed(acts, new, acts') /\ Pushed(emits, new, emits')
<1>1. emits \in Seq(Reported) /\ acts \in Seq(Reported)
  BY DEF Shape, ChannelShape
<1>2. Pushed(acts, new, acts') /\ Pushed(emits, new, emits')
  BY <1>1, PushedSeq
<1>3. /\ Len(acts) \in Nat /\ Len(emits) \in Nat /\ Len(new) \in Nat
      /\ Len(acts') = Len(acts) + Len(new) /\ Len(emits') = Len(emits) + Len(new)
      /\ \A i \in 1..Len(acts) : acts'[i] = acts[i]
      /\ \A i \in Len(acts) + 1..Len(acts') : acts'[i] = new[i - Len(acts)]
      /\ \A i \in 1..Len(emits) : emits'[i] = emits[i]
      /\ \A i \in Len(emits) + 1..Len(emits') : emits'[i] = new[i - Len(emits)]
  BY <1>2 DEF Pushed
<1>4. Len(emits) <= Len(acts) /\ \A i \in 1..Len(emits) : emits[i] = acts[Len(acts) - Len(emits) + i]
  BY DEF Suffix
<1>5. PICK d : d = Len(acts) - Len(emits)
  OBVIOUS
<1>6. d \in Nat /\ Len(acts') - Len(emits') = d
  BY <1>3, <1>4, <1>5
<1>7. \A i \in 1..Len(emits') : emits'[i] = acts'[d + i]
  <2> SUFFICES ASSUME NEW i \in 1..Len(emits')
               PROVE  emits'[i] = acts'[d + i]
    OBVIOUS
  <2>1. CASE i \in 1..Len(emits)
    <3>1. d + i \in 1..Len(acts)
      BY <1>3, <1>4, <1>5, <2>1
    <3> QED
      BY <1>3, <1>4, <1>5, <2>1, <3>1
  <2>2. CASE i \in Len(emits) + 1..Len(emits')
    <3>1. d + i \in Len(acts) + 1..Len(acts') /\ (d + i) - Len(acts) = i - Len(emits)
      BY <1>3, <1>4, <1>5, <2>2
    <3> QED
      BY <1>3, <2>2, <3>1
  <2>3. i \in 1..Len(emits) \/ i \in Len(emits) + 1..Len(emits')
    BY <1>3
  <2> QED
    BY <2>1, <2>2, <2>3
<1>8. Len(emits') <= Len(acts')
  BY <1>3, <1>4
<1> QED
  BY <1>2, <1>6, <1>7, <1>8 DEF Suffix

\* What a run reports is of its own and new.
LEMMA ReportKeeps ==
    ASSUME Shape, CoreInv, run.of # NoMsg, pc[run.of] = "over",
           NEW new \in Seq(Reported), emits' = emits \o new, acts' = acts \o new,
           UNCHANGED <<rows, gone, midway, gate, queue, pc, lost>>,
           run'.of \in {run.of, NoMsg},
           \A r \in Rows : Upto(r) => Upto(r)',
           On(new, Ends) => Len(new) = 1 /\ run'.of = NoMsg,
           \A r \in Rows : On(new, RowEv(r)) =>
              r[3] # "said" /\ r[1] = run.of /\ ~Upto(r) /\ Upto(r)',
           \A r \in Rows : OneOf(new, RowEv(r))
    PROVE  CoreInv'
<1>1. /\ run.of \in Msgs /\ \A k \in Msgs : ~Holder(k)
      /\ gate /\ ~On(acts, Ends) /\ Ran(run.of) /\ Latest(run.of)
      /\ run.of \notin History
  BY RunFacts
<1>2. Suffix' /\ Pushed(acts, new, acts')
  BY SuffixPushed DEF CoreInv
<1>3. \A r : /\ Stored(r)' <=> Stored(r)
             /\ Queued(r)' <=> Queued(r)
             /\ Latest(r)' <=> Latest(r)
             /\ Holder(r)' <=> Holder(r)
             /\ Ran(r)' <=> Ran(r)
  BY DEF Stored, Queued, Latest, Holder, Ran, Opens
<1>4. \A A : On(acts, A)' <=> On(acts, A) \/ On(new, A)
  BY <1>2, OnPushed
<1>5. Claim'
  <2>1. Claim
    BY DEF CoreInv
  <2>2. \A m, n \in Msgs : Holder(m)' /\ Holder(n)' => m = n
    BY <1>1, <1>3
  <2>3. \A m \in Msgs : Holder(m)' => gate' /\ acts' = <<>>
    BY <1>1, <1>3
  <2>4. \A m \in Msgs : pc'[m] \in {"saved", "pending", "drained"} => run'.of = NoMsg
    BY <1>1 DEF Holder
  <2>5. \A m \in Msgs : pc'[m] \in {"written", "taken"} => run'.of = m
    BY <1>1 DEF Holder
  <2>6. run'.of # NoMsg => gate' /\ ~On(acts, Ends)'
    BY <1>1, <1>4
  <2>7. acts' # <<>> => gate'
    BY <1>1
  <2>8. \A i \in 1..Len(acts)' : acts'[i] \in Ends => i = Len(acts)'
    <3> SUFFICES ASSUME NEW i \in 1..Len(acts'), acts'[i] \in Ends
                 PROVE  i = Len(acts')
      OBVIOUS
    <3>1. /\ Len(acts) \in Nat /\ Len(new) \in Nat /\ Len(acts') = Len(acts) + Len(new)
          /\ \A k \in 1..Len(acts) : acts'[k] = acts[k]
          /\ \A k \in Len(acts) + 1..Len(acts') : acts'[k] = new[k - Len(acts)]
      BY <1>2 DEF Pushed
    <3>2. i \notin 1..Len(acts)
      BY <1>1, <3>1 DEF On
    <3>3. i \in Len(acts) + 1..Len(acts') /\ i - Len(acts) \in 1..Len(new)
      BY <3>1, <3>2
    <3>4. On(new, Ends)
      BY <3>1, <3>3 DEF On
    <3>5. Len(new) = 1
      BY <3>4
    <3> QED
      BY <3>1, <3>3, <3>5
  <2> QED
    BY <2>2, <2>3, <2>4, <2>5, <2>6, <2>7, <2>8 DEF Claim
<1>6. Places'
  <2>1. Places
    BY DEF CoreInv
  <2>2. \A i, j \in 1..Len(queue)' : queue'[i].msg = queue'[j].msg => i = j
    BY <2>1 DEF Places
  <2> QED
    BY <1>3, <2>1, <2>2 DEF Places
<1>7. Book'
  <2>1. \A i \in 1..Len(rows)' : rows'[i][3] # "said" => Ran(rows[i][1])' /\ Upto(rows[i])'
    <3> SUFFICES ASSUME NEW i \in 1..Len(rows), rows[i][3] # "said"
                 PROVE  Ran(rows[i][1])' /\ Upto(rows[i])'
      OBVIOUS
    <3>1. PICK r \in Rows : r = rows[i] /\ rows'[i] = r
      BY RowsTyped
    <3>2. Ran(r[1]) /\ Upto(r)
      BY <3>1 DEF CoreInv, Book
    <3>3. Ran(r[1])' /\ Upto(r)'
      BY <1>3, <3>2
    <3> QED
      BY <3>1, <3>3
  <2> QED
    BY <2>1 DEF CoreInv, Book, Opens
<1>8. Coming'
  <2>1. Coming
    BY DEF CoreInv
  <2>2. \A r \in Rows : On(acts, RowEv(r)) =>
          /\ r[3] # "said" /\ Ran(r[1]) /\ ~Stored(r) /\ Latest(r[1]) /\ Upto(r)
          /\ r[1] \notin History
    BY <2>1 DEF Coming
  <2>3. \A r \in Rows : ~Upto(r) /\ r[3] # "said" => ~Stored(r)
    <3> SUFFICES ASSUME NEW r \in Rows, r[3] # "said", Stored(r)
                 PROVE  Upto(r)
      OBVIOUS
    <3>1. PICK i \in 1..Len(rows) : rows[i] = r
      BY DEF Stored
    <3>2. Upto(rows[i])
      BY <3>1 DEF CoreInv, Book
    <3> QED
      BY <3>1, <3>2
  <2>4. \A r \in Rows : On(acts, RowEv(r))' =>
          /\ r[3] # "said" /\ Ran(r[1])' /\ ~Stored(r)' /\ Latest(r[1])' /\ Upto(r)'
          /\ r[1] \notin History
    <3> SUFFICES ASSUME NEW r \in Rows, On(acts', RowEv(r))
                 PROVE  /\ r[3] # "said" /\ Ran(r[1])' /\ ~Stored(r)' /\ Latest(r[1])' /\ Upto(r)'
                        /\ r[1] \notin History
      OBVIOUS
    <3>1. CASE On(acts, RowEv(r))
      BY <1>3, <2>2, <3>1
    <3>2. CASE On(new, RowEv(r))
      BY <1>1, <1>3, <2>3, <3>2
    <3> QED
      BY <1>4, <3>1, <3>2
  <2>5. \A r \in Rows : OneOf(acts, RowEv(r))'
    <3> SUFFICES ASSUME NEW r \in Rows
                 PROVE  OneOf(acts', RowEv(r))
      OBVIOUS
    <3>1. OneOf(acts, RowEv(r)) /\ OneOf(new, RowEv(r))
      BY <2>1 DEF Coming
    <3>2. ~(On(acts, RowEv(r)) /\ On(new, RowEv(r)))
      BY <2>2
    <3> QED
      BY <1>2, <3>1, <3>2, OneOfPushed
  <2>6. \A m \in Msgs : Holder(m)' => Latest(m)' /\ m \notin midway'
    BY <1>1, <1>3
  <2>7. run'.of # NoMsg =>
          /\ Latest(run.of)' /\ Stored(Said(run.of))' /\ run'.of \notin midway'
          /\ run'.of \notin History
    <3> SUFFICES ASSUME run'.of = run.of
                 PROVE  /\ Latest(run.of)' /\ Stored(Said(run.of))' /\ run'.of \notin midway'
                        /\ run'.of \notin History
      BY <1>1
    <3>1. PICK n : n = run.of /\ n = run'.of
      OBVIOUS
    <3>2. Latest(n) /\ Stored(Said(n)) /\ n \notin midway /\ n \notin History
      BY <1>1, <3>1 DEF Ran
    <3>3. Latest(n)' /\ Stored(Said(n))' /\ n \notin midway' /\ n \notin History
      BY <1>3, <3>2
    <3> QED
      BY <3>1, <3>3 DEF Latest, Stored, Said
  <2> QED
    BY <2>4, <2>5, <2>6, <2>7 DEF Coming
<1> QED
  BY <1>2, <1>5, <1>6, <1>7, <1>8 DEF CoreInv

\* A run's row is in what it reports.
LEMMA RowEvFacts ==
    ASSUME NEW r, NEW e \in Reported, e \in RowEv(r)
    PROVE  e.kind \in {"turn_end", "tell_user"} /\ e.row = r /\ e \notin Ends
BY DEF RowEv, Ends

\* A run tells a line.
LEMMA TellLineKeeps ==
    ASSUME Shape, CoreInv, Calm, TellLine
    PROVE  CoreInv'
<1>1. /\ run.of # NoMsg /\ pc[run.of] = "over" /\ ~run.told /\ run.step < Steps
      /\ UNCHANGED <<rows, gone, midway, gate, queue, pc, lost>>
  BY DEF TellLine, Working, Open, Calm, RunnerRest
<1>2. /\ run \in [of : Msgs \cup {NoMsg}, step : 0..Steps, told : BOOLEAN]
      /\ emits \in Seq(Reported) /\ acts \in Seq(Reported) /\ Steps \in Nat
  BY TranscriptAssumption DEF Shape, CoreShape, ChannelShape
<1>3. PICK k : k = run.step + 1
  OBVIOUS
<1>4. k \in 1..Steps /\ run.of \in Msgs
  BY <1>1, <1>2, <1>3
<1>5. PICK r : r = Told(run.of, k)
  OBVIOUS
<1>6. r \in Rows /\ r[1] = run.of /\ r[2] = k /\ r[3] = "told"
  BY <1>4, <1>5, StepFacts
<1>7. PICK e : e = [kind |-> "tell_user", row |-> r]
  OBVIOUS
<1>8. e.kind = "tell_user" /\ e.row = r /\ e \in Reported
  BY <1>6, <1>7 DEF Reported, RunnerEvents
<1>9. Reports(e)
  BY <1>3, <1>5, <1>7 DEF TellLine
<1>10. PICK new : new = <<e>>
  OBVIOUS
<1>11. new \in Seq(Reported) /\ Len(new) = 1 /\ new[1] = e
  BY <1>8, <1>10
<1>12. emits' = emits \o new /\ acts' = acts \o new
  BY <1>2, <1>8, <1>9, <1>10, AppendAsConcat DEF Reports
<1>13. run' = [run EXCEPT !.told = TRUE]
  BY DEF TellLine
<1>14. run'.of = run.of /\ run'.step = run.step /\ run'.told
  BY <1>2, <1>13
<1>15. \A q \in Rows : Upto(q) => Upto(q)'
  BY <1>1, <1>14 DEF Upto
<1>16. ~On(new, Ends)
  BY <1>8, <1>11 DEF On, Ends
<1>17. \A q \in Rows : On(new, RowEv(q)) => q = r
  BY <1>8, <1>11 DEF On, RowEv
<1>18. ~Upto(r) /\ Upto(r)'
  BY <1>1, <1>2, <1>3, <1>6, <1>14 DEF Upto
<1>19. \A q \in Rows : OneOf(new, RowEv(q))
  BY <1>11 DEF OneOf
<1>20. \A q \in Rows : On(new, RowEv(q)) =>
          q[3] # "said" /\ q[1] = run.of /\ ~Upto(q) /\ Upto(q)'
  BY <1>6, <1>17, <1>18
<1> QED
  BY <1>1, <1>11, <1>12, <1>14, <1>15, <1>16, <1>19, <1>20, ReportKeeps

\* A step of the run ends.
LEMMA EndStepKeeps ==
    ASSUME Shape, CoreInv, Calm, EndStep
    PROVE  CoreInv'
<1>1. /\ run.of # NoMsg /\ pc[run.of] = "over" /\ run.step < Steps
      /\ UNCHANGED <<rows, gone, midway, gate, queue, pc, lost>>
  BY DEF EndStep, Working, Open, Calm, RunnerRest
<1>2. /\ run \in [of : Msgs \cup {NoMsg}, step : 0..Steps, told : BOOLEAN]
      /\ emits \in Seq(Reported) /\ acts \in Seq(Reported) /\ Steps \in Nat
      /\ queue \in Seq(Items)
  BY TranscriptAssumption DEF Shape, CoreShape, ChannelShape
<1>3. PICK k : k = run.step + 1
  OBVIOUS
<1>4. k \in 1..Steps /\ run.of \in Msgs
  BY <1>1, <1>2, <1>3
<1>5. PICK r : r = Step(run.of, k)
  OBVIOUS
<1>6. r \in Rows /\ r[1] = run.of /\ r[2] = k /\ r[3] = "step"
  BY <1>4, <1>5, StepFacts
<1>7. PICK e : e = [kind |-> "turn_end", row |-> r]
  OBVIOUS
<1>8. e.kind = "turn_end" /\ e.row = r /\ e \in Reported
  BY <1>6, <1>7 DEF Reported, RunnerEvents
<1> DEFINE said == {i \in DOMAIN queue : queue[i].inter}
           Read == [kind |-> "interject_delivered", msg |-> queue[Min(said)].msg]
<1>9. \E new \in {<<e>>} \cup (IF said = {} THEN {} ELSE {<<e, Read>>}) :
             emits' = emits \o new /\ acts' = acts \o new
  BY <1>3, <1>5, <1>7 DEF EndStep
<1>10. said # {} => Read \in Reported /\ Read.kind = "interject_delivered"
  <2> SUFFICES ASSUME said # {}
               PROVE  Read \in Reported /\ Read.kind = "interject_delivered"
    OBVIOUS
  <2>1. said \in SUBSET Nat /\ said \subseteq 1..Len(queue)
    BY <1>2
  <2>2. PICK i : i = Min(said)
    OBVIOUS
  <2>3. i \in said
    <3> HIDE DEF said
    <3> QED
      BY <2>1, <2>2, MinFacts
  <2>a. i \in 1..Len(queue)
    <3> HIDE DEF said
    <3> QED
      BY <2>1, <2>3
  <2>b. queue[i] \in Items
    BY <1>2, <2>a
  <2>4. queue[i].msg \in Msgs
    BY <2>b DEF Items
  <2>5. queue[Min(said)].msg \in Msgs
    BY <2>2, <2>4
  <2> QED
    BY <2>5 DEF Reported
<1> HIDE DEF said, Read
<1>11. PICK new : /\ new = <<e>> \/ (said # {} /\ new = <<e, Read>>)
                  /\ emits' = emits \o new /\ acts' = acts \o new
  BY <1>9
<1>12. new \in Seq(Reported) /\ Len(new) \in Nat /\ 1 \in 1..Len(new) /\ new[1] = e
       /\ \A i \in 1..Len(new) : i # 1 => new[i].kind = "interject_delivered"
  <2>1. CASE new = <<e>>
    BY <1>8, <2>1
  <2>2. CASE said # {} /\ new = <<e, Read>>
    BY <1>8, <1>10, <2>2
  <2> QED
    BY <1>11, <2>1, <2>2
<1>13. run' = [run EXCEPT !.step = @ + 1, !.told = FALSE]
  BY DEF EndStep
<1>14. run'.of = run.of /\ run'.step = k /\ ~run'.told
  BY <1>2, <1>3, <1>13
<1>15. \A q \in Rows : Upto(q) => Upto(q)'
  <2> SUFFICES ASSUME NEW q \in Rows, Upto(q), q[1] = run.of
               PROVE  q[2] <= k
    BY <1>14 DEF Upto
  <2>1. q[2] \in Nat
    BY DEF Rows, Said, Step, Told
  <2>2. q[2] <= run.step \/ q[2] <= run.step + 1
    BY DEF Upto
  <2> QED
    BY <1>2, <1>3, <2>1, <2>2
<1>16. ~On(new, Ends)
  <2> SUFFICES ASSUME NEW i \in 1..Len(new), new[i] \in Ends
               PROVE  FALSE
    BY DEF On
  <2>1. new[i].kind \in {"run_complete", "closed"}
    BY DEF Ends
  <2> QED
    BY <1>8, <1>12, <2>1
<1>17. \A q \in Rows : \A i \in 1..Len(new) : new[i] \in RowEv(q) => i = 1 /\ q = r
  <2> SUFFICES ASSUME NEW q \in Rows, NEW i \in 1..Len(new), new[i] \in RowEv(q)
               PROVE  i = 1 /\ q = r
    OBVIOUS
  <2>1. new[i].kind \in {"turn_end", "tell_user"} /\ new[i].row = q
    BY DEF RowEv
  <2> QED
    BY <1>8, <1>12, <2>1
<1>18. ~Upto(r) /\ Upto(r)'
  BY <1>1, <1>2, <1>3, <1>6, <1>14 DEF Upto
<1>19. \A q \in Rows : OneOf(new, RowEv(q))
  BY <1>17 DEF OneOf
<1>20. \A q \in Rows : On(new, RowEv(q)) =>
          q[3] # "said" /\ q[1] = run.of /\ ~Upto(q) /\ Upto(q)'
  BY <1>6, <1>17, <1>18 DEF On
<1> QED
  BY <1>1, <1>11, <1>12, <1>14, <1>15, <1>16, <1>19, <1>20, ReportKeeps

\* A run ends, or its runner exits.
LEMMA EndsKeep ==
    ASSUME Shape, CoreInv, Calm, Complete \/ Exit
    PROVE  CoreInv'
<1>1. /\ run.of # NoMsg /\ pc[run.of] = "over" /\ run' = NoRun
      /\ UNCHANGED <<rows, gone, midway, gate, queue, pc, lost>>
  BY DEF Complete, Exit, Working, Open, Calm, RunnerRest
<1>2. PICK e : e \in Ends /\ Reports(e)
  BY DEF Complete, Exit, Ends
<1>3. e \in Reported /\ emits \in Seq(Reported) /\ acts \in Seq(Reported)
  BY <1>2 DEF Ends, Reported, RunnerEvents, Shape, ChannelShape
<1>4. PICK new : new = <<e>>
  OBVIOUS
<1>5. new \in Seq(Reported) /\ Len(new) = 1 /\ new[1] = e
  BY <1>3, <1>4
<1>6. emits' = emits \o new /\ acts' = acts \o new
  BY <1>2, <1>3, <1>4, AppendAsConcat DEF Reports
<1>7. run'.of = NoMsg
  BY <1>1 DEF NoRun
<1>8. \A q \in Rows : Upto(q)'
  <2>1. \A q \in Rows : q[1] # NoMsg
    BY RowFacts, TranscriptAssumption
  <2> QED
    BY <1>7, <2>1 DEF Upto
<1>9. \A q \in Rows : ~On(new, RowEv(q))
  BY <1>2, <1>5 DEF On, RowEv, Ends
<1>10. \A q \in Rows : OneOf(new, RowEv(q))
  BY <1>9 DEF OneOf, On
<1> QED
  BY <1>1, <1>5, <1>6, <1>7, <1>8, <1>9, <1>10, ReportKeeps

\* An event of the runner goes to the page.
LEMMA EmitKeeps ==
    ASSUME Shape, CoreInv, Emit
    PROVE  CoreInv'
<1>1. /\ emits # <<>> /\ emits' = Tail(emits)
      /\ UNCHANGED <<rows, gone, midway, gate, run, queue, pc, lost, acts>>
  BY DEF Emit, core
<1>2. Suffix'
  <2>1. emits \in Seq(Reported) /\ acts \in Seq(Reported)
    BY DEF Shape, ChannelShape
  <2>2. Popped(emits, emits')
    BY <1>1, <2>1, PoppedSeq
  <2>3. /\ Len(emits) \in Nat /\ Len(emits') \in Nat /\ Len(emits) = Len(emits') + 1
        /\ \A k \in 1..Len(emits') : emits'[k] = emits[k + 1]
    BY <2>2 DEF Popped
  <2>4. /\ Len(emits) <= Len(acts)
        /\ \A i \in 1..Len(emits) : emits[i] = acts[Len(acts) - Len(emits) + i]
    BY DEF CoreInv, Suffix
  <2>5. \A i \in 1..Len(emits') : emits'[i] = acts[Len(acts) - Len(emits') + i]
    <3> SUFFICES ASSUME NEW i \in 1..Len(emits')
                 PROVE  emits'[i] = acts[Len(acts) - Len(emits') + i]
      OBVIOUS
    <3>1. /\ i + 1 \in 1..Len(emits) /\ Len(acts) \in Nat
          /\ Len(acts) - Len(emits) + (i + 1) = Len(acts) - Len(emits') + i
      BY <2>1, <2>3
    <3> QED
      BY <2>3, <2>4, <3>1
  <2>6. Len(emits') <= Len(acts')
    BY <1>1, <2>1, <2>3, <2>4
  <2> QED
    BY <1>1, <2>5, <2>6 DEF Suffix
<1>3. Claim' /\ Places' /\ Book' /\ Coming'
  BY <1>1 DEF CoreInv, Claim, Places, Book, Coming, On, OneOf, Holder, Stored, Queued, Ran, Latest,
              Upto, Opens
<1> QED
  BY <1>2, <1>3 DEF CoreInv

\* The next report, once the page's task is past it.
LEMMA ActFacts ==
    ASSUME Shape, CoreInv, Calm, Act
    PROVE  /\ Popped(acts, acts') /\ Head(acts) = acts[1] /\ acts[1] \in Reported
           /\ Suffix' /\ gate /\ \A k \in Msgs : ~Holder(k)
           /\ \A i \in 1..Len(acts') : acts'[i] \in Ends => i = Len(acts')
           /\ ~On(acts, Ends) => ~On(acts', Ends)
           /\ acts[1] \in Ends => acts' = <<>> /\ emits' = <<>> /\ run.of = NoMsg
<1>1. /\ acts # <<>> /\ Len(emits) < Len(acts) /\ acts' = Tail(acts)
      /\ UNCHANGED <<gone, run, lost, emits>>
  BY DEF Act, Calm, Open
<1>2. emits \in Seq(Reported) /\ acts \in Seq(Reported)
  BY DEF Shape, ChannelShape
<1>3. Popped(acts, acts') /\ Head(acts) = acts[1] /\ acts' \in Seq(Reported)
  BY <1>1, <1>2, PoppedSeq
<1>4. /\ Len(acts) \in Nat /\ Len(acts') \in Nat /\ Len(acts) = Len(acts') + 1
      /\ \A k \in 1..Len(acts') : acts'[k] = acts[k + 1]
      /\ Len(emits) \in Nat
  BY <1>2, <1>3 DEF Popped
<1>5. Claim /\ Suffix
  BY DEF CoreInv
<1>6. 1 \in 1..Len(acts) /\ acts[1] \in Reported
  BY <1>2, <1>4
<1>7. Suffix'
  <2>1. \A i \in 1..Len(emits) : emits[i] = acts'[Len(acts') - Len(emits) + i]
    <3> SUFFICES ASSUME NEW i \in 1..Len(emits)
                 PROVE  emits[i] = acts'[Len(acts') - Len(emits) + i]
      OBVIOUS
    <3>1. /\ Len(acts') - Len(emits) + i \in 1..Len(acts')
          /\ Len(acts') - Len(emits) + i + 1 = Len(acts) - Len(emits) + i
      BY <1>1, <1>4
    <3> QED
      BY <1>4, <1>5, <3>1 DEF Suffix
  <2>2. Len(emits) <= Len(acts')
    BY <1>1, <1>4
  <2> QED
    BY <1>1, <2>1, <2>2 DEF Suffix
<1>8. gate /\ \A k \in Msgs : ~Holder(k)
  BY <1>1, <1>5 DEF Claim
<1>9. \A i \in 1..Len(acts') : acts'[i] \in Ends => i = Len(acts')
  <2> SUFFICES ASSUME NEW i \in 1..Len(acts'), acts'[i] \in Ends
               PROVE  i = Len(acts')
    OBVIOUS
  <2>1. i + 1 \in 1..Len(acts) /\ acts[i + 1] \in Ends
    BY <1>4
  <2>2. i + 1 = Len(acts)
    BY <1>5, <2>1 DEF Claim
  <2> QED
    BY <1>4, <2>2
<1>10. ~On(acts, Ends) => ~On(acts', Ends)
  BY <1>3, OnPopped
<1>11. ASSUME acts[1] \in Ends
       PROVE  acts' = <<>> /\ emits' = <<>> /\ run.of = NoMsg
  <2>a. \A i \in 1..Len(acts) : acts[i] \in Ends => i = Len(acts)
    BY <1>5 DEF Claim
  <2>1. 1 = Len(acts)
    BY <1>6, <1>11, <2>a
  <2>b. Len(emits) < Len(acts)
    BY <1>1
  <2>c. Len(acts') = 0
    BY <1>4, <2>1
  <2>2. Len(acts') = 0 /\ Len(emits) = 0
    BY <1>4, <2>1, <2>b, <2>c
  <2>3. acts' = <<>> /\ emits = <<>>
    BY <1>2, <1>3, <2>2, EmptySeq
  <2>4. On(acts, Ends)
    BY <1>6, <1>11 DEF On
  <2> QED
    BY <1>1, <1>5, <2>3, <2>4 DEF Claim
<1> QED
  BY <1>3, <1>6, <1>7, <1>8, <1>9, <1>10, <1>11

\* One report less to act on, the run, gate and sends as they were.
LEMMA ClaimPopped ==
    ASSUME Shape, CoreInv, Calm, Act, gate' = gate, pc' = pc
    PROVE  Claim'
<1>1. /\ Popped(acts, acts') /\ gate /\ \A k \in Msgs : ~Holder(k)
      /\ \A i \in 1..Len(acts') : acts'[i] \in Ends => i = Len(acts')
      /\ ~On(acts, Ends) => ~On(acts', Ends)
  BY ActFacts
<1>2. run' = run
  BY DEF Act
<1>3. \A k \in Msgs : ~Holder(k)'
  BY <1>1 DEF Holder
<1>4. \A k \in Msgs : pc'[k] \notin {"saved", "pending", "drained", "written", "taken"}
  BY <1>1 DEF Holder
<1>5. run'.of # NoMsg => gate' /\ ~On(acts, Ends)'
  BY <1>1, <1>2 DEF CoreInv, Claim
<1> QED
  BY <1>1, <1>3, <1>4, <1>5 DEF Claim

\* The row of a step or of a told line is written, below its run's own.
LEMMA ActRowKeeps ==
    ASSUME Shape, CoreInv, Calm, Act, ActRow(Head(acts))
    PROVE  CoreInv'
<1>1. /\ Popped(acts, acts') /\ Head(acts) = acts[1] /\ acts[1] \in Reported
      /\ Suffix' /\ gate /\ \A k \in Msgs : ~Holder(k)
  BY ActFacts
<1>2. PICK e \in Reported : e = acts[1] /\ ActRow(e)
  BY <1>1
<1>3. /\ e.kind \in {"turn_end", "tell_user"}
      /\ UNCHANGED <<gone, run, lost, midway, gate, queue, pc>>
  BY <1>2 DEF ActRow, Act
<1>4. PICK r : r = e.row
  OBVIOUS
<1>5. r \in Rows /\ e \in RowEv(r)
  BY <1>3, <1>4 DEF Reported, RunnerEvents, RowEv
<1>6. On(acts, RowEv(r)) /\ acts[1] \in RowEv(r)
  BY <1>1, <1>2, <1>5, OnPopped
<1>7. /\ r[3] # "said" /\ Ran(r[1]) /\ ~Stored(r) /\ Latest(r[1]) /\ Upto(r)
      /\ r[1] \notin History
  BY <1>5, <1>6 DEF CoreInv, Coming
<1>8. \E n \in 0..Len(rows) : /\ Inserted(rows, n, rows', r)
                              /\ \A i \in n + 1..Len(rows) : rows[i][3] # "said"
  <2> DEFINE Line(q) == q[3] = "told" /\ q[1] = e.row[1] /\ q[2] = e.row[2]
             lines == {i \in DOMAIN rows : Line(rows[i])}
             n == Before(rows, lines)
  <2>1. rows \in Seq(Rows) /\ DOMAIN rows = 1..Len(rows) /\ Len(rows) \in Nat
    BY RowsTyped
  <2>2. lines \in SUBSET (1..Len(rows)) /\ \A i \in lines : rows[i][3] # "said"
    BY <2>1
  <2>3. CASE e.kind = "turn_end"
    <3>1. rows' = PutAfter(rows, n, r)
      BY <1>2, <1>4, <2>3 DEF ActRow
    <3> HIDE DEF lines
    <3>2. n \in 0..Len(rows) /\ \A i \in n + 1..Len(rows) : i \in lines
      BY <2>1, <2>2, BeforeFacts
    <3> HIDE DEF n
    <3>3. Inserted(rows, n, rows', r)
      BY <1>5, <2>1, <3>1, <3>2, PutAfterFacts
    <3>4. \A i \in n + 1..Len(rows) : rows[i][3] # "said"
      BY <2>2, <3>2
    <3> QED
      BY <3>2, <3>3, <3>4
  <2>4. CASE e.kind # "turn_end"
    <3>1. rows' = Append(rows, r)
      BY <1>2, <1>4, <2>4 DEF ActRow
    <3>2. Inserted(rows, Len(rows), rows', r) /\ Len(rows) \in 0..Len(rows)
      BY <1>5, <2>1, <3>1, AppendInserted
    <3>3. \A i \in Len(rows) + 1..Len(rows) : rows[i][3] # "said"
      BY <2>1
    <3> QED
      BY <3>2, <3>3
  <2> QED
    BY <2>3, <2>4
<1>9. PICK n \in 0..Len(rows) : /\ Inserted(rows, n, rows', r)
                                /\ \A i \in n + 1..Len(rows) : rows[i][3] # "said"
  BY <1>8
<1>10. \A q : Stored(q)' <=> Stored(q) \/ q = r
  BY <1>9, StoredInserted
<1>11. \A k : (Queued(k)' <=> Queued(k)) /\ (Holder(k)' <=> Holder(k)) /\ (Ran(k) => Ran(k)')
  BY <1>3, <1>10 DEF Queued, Holder, Ran
<1>12. \A k \in Msgs : Said(k) # r
  BY <1>7, SaidFacts
<1>13. \A k \in Msgs : Latest(k) => Latest(k)'
  <2> SUFFICES ASSUME NEW k \in Msgs, Latest(k)
               PROVE  Latest(k)'
    OBVIOUS
  <2>1. midway \subseteq midway' /\ r # Said(k) /\ (r[3] = "said" => r[1] \in midway')
    BY <1>3, <1>7, <1>12
  <2> QED
    BY <1>9, <2>1, LatestInserted
<1>14. Claim'
  BY <1>3, ClaimPopped
<1>15. Places'
  <2>1. Places
    BY DEF CoreInv
  <2>2. \A i, j \in 1..Len(queue)' : queue'[i].msg = queue'[j].msg => i = j
    BY <1>3, <2>1 DEF Places
  <2>3. \A m \in Msgs : pc'[m] \in {"new", "sent"} =>
          ~Stored(Said(m))' /\ ~Queued(m)' /\ m \notin lost' /\ m \notin History
    BY <1>3, <1>10, <1>11, <1>12, <2>1 DEF Places
  <2>4. \A m \in Msgs : Holder(m)' => Stored(Said(m))' /\ Said(m) \notin gone' /\ m \notin History
    BY <1>1, <1>11
  <2>5. \A m \in Msgs : Queued(m)' =>
          pc'[m] = "over" /\ ~Stored(Said(m))' /\ m \notin lost' /\ m \notin History
    BY <1>3, <1>10, <1>11, <1>12, <2>1 DEF Places
  <2>6. \A m \in Msgs : m \in lost' => pc'[m] = "over" /\ ~Stored(Said(m))'
    BY <1>3, <1>10, <1>12, <2>1 DEF Places
  <2>7. \A m \in Msgs : m \in midway' => Stored(Said(m))'
    BY <1>3, <1>10, <2>1 DEF Places
  <2>8. \A q \in Rows : q \in gone' => Stored(q)'
    BY <1>3, <1>10, <2>1 DEF Places
  <2> QED
    BY <2>2, <2>3, <2>4, <2>5, <2>6, <2>7, <2>8 DEF Places
<1>16. Book'
  <2>1. Book /\ midway \subseteq midway' /\ run' = run
    BY <1>3 DEF CoreInv
  <2>2. \A m \in Msgs : Ran(m) => Ran(m)'
    BY <1>11
  <2> QED
    BY <1>5, <1>7, <1>9, <2>1, <2>2, BookInserted
<1>17. Coming'
  <2>1. Coming
    BY DEF CoreInv
  <2>2. \A q \in Rows : OneOf(acts, RowEv(q))' /\ (On(acts', RowEv(q)) => On(acts, RowEv(q)) /\ q # r)
    <3> SUFFICES ASSUME NEW q \in Rows
                 PROVE  /\ OneOf(acts', RowEv(q))
                        /\ On(acts', RowEv(q)) => On(acts, RowEv(q)) /\ q # r
      OBVIOUS
    <3>1. OneOf(acts, RowEv(q))
      BY <2>1 DEF Coming
    <3>2. OneOf(acts', RowEv(q)) /\ (acts[1] \in RowEv(q) => ~On(acts', RowEv(q)))
      BY <1>1, <3>1, OneOfPopped
    <3>3. On(acts', RowEv(q)) => On(acts, RowEv(q))
      BY <1>1, OnPopped
    <3> QED
      BY <1>6, <3>2, <3>3
  <2>3. \A q \in Rows : On(acts, RowEv(q))' =>
          /\ q[3] # "said" /\ Ran(q[1])' /\ ~Stored(q)' /\ Latest(q[1])' /\ Upto(q)'
          /\ q[1] \notin History
    <3> SUFFICES ASSUME NEW q \in Rows, On(acts', RowEv(q))
                 PROVE  /\ q[3] # "said" /\ Ran(q[1])' /\ ~Stored(q)' /\ Latest(q[1])' /\ Upto(q)'
                        /\ q[1] \notin History
      OBVIOUS
    <3>1. On(acts, RowEv(q)) /\ q # r
      BY <2>2
    <3>2. /\ q[3] # "said" /\ Ran(q[1]) /\ ~Stored(q) /\ Latest(q[1]) /\ Upto(q)
          /\ q[1] \notin History
      BY <2>1, <3>1 DEF Coming
    <3>3. q[1] \in Msgs
      BY RowFacts
    <3>4. Upto(q)'
      BY <1>3, <3>2 DEF Upto
    <3> QED
      BY <1>10, <1>11, <1>13, <3>1, <3>2, <3>3, <3>4
  <2>4. \A m \in Msgs : Holder(m)' => Latest(m)' /\ m \notin midway'
    BY <1>1, <1>11
  <2>5. run'.of # NoMsg =>
          /\ Latest(run.of)' /\ Stored(Said(run.of))' /\ run'.of \notin midway'
          /\ run'.of \notin History
    <3> SUFFICES ASSUME run.of # NoMsg
                 PROVE  /\ Latest(run.of)' /\ Stored(Said(run.of))' /\ run'.of \notin midway'
                        /\ run'.of \notin History
      BY <1>3
    <3>1. PICK k \in Msgs : k = run.of /\ k = run'.of
      BY <1>3 DEF Shape, CoreShape
    <3>2. Latest(k) /\ Stored(Said(k)) /\ k \notin midway /\ k \notin History
      BY <2>1, <3>1 DEF Coming
    <3>3. Latest(k)' /\ Stored(Said(k))' /\ k \notin midway' /\ k \notin History
      BY <1>3, <1>10, <1>13, <3>2
    <3> QED
      BY <3>1, <3>3 DEF Latest, Stored, Said
  <2> QED
    BY <2>2, <2>3, <2>4, <2>5 DEF Coming
<1> QED
  BY <1>1, <1>14, <1>15, <1>16, <1>17 DEF CoreInv

\* Without a row coming, what is still to act on stays ahead of its row.
LEMMA ComingPopped ==
    ASSUME Shape, CoreInv, Calm, Act,
           UNCHANGED <<rows, midway, pc>>
    PROVE  Book' /\ Coming'
<1>1. Popped(acts, acts') /\ run' = run
  BY ActFacts DEF Act
<1>2. Coming /\ Book
  BY DEF CoreInv
<1>3. Book'
  BY <1>1, <1>2 DEF Book, Ran, Stored, Upto, Opens
<1>4. \A r \in Rows : (On(acts', RowEv(r)) => On(acts, RowEv(r))) /\ OneOf(acts', RowEv(r))
  <2> SUFFICES ASSUME NEW r \in Rows
               PROVE  (On(acts', RowEv(r)) => On(acts, RowEv(r))) /\ OneOf(acts', RowEv(r))
    OBVIOUS
  <2>1. OneOf(acts, RowEv(r))
    BY <1>2 DEF Coming
  <2> QED
    BY <1>1, <2>1, OnPopped, OneOfPopped
<1>5. \A r : /\ Stored(r)' <=> Stored(r)
             /\ Latest(r)' <=> Latest(r)
             /\ Holder(r)' <=> Holder(r)
             /\ Ran(r)' <=> Ran(r)
             /\ Upto(r)' <=> Upto(r)
  BY <1>1 DEF Stored, Latest, Holder, Ran, Opens, Upto
<1>6. \A r \in Rows : On(acts, RowEv(r))' =>
          /\ r[3] # "said" /\ Ran(r[1])' /\ ~Stored(r)' /\ Latest(r[1])' /\ Upto(r)'
          /\ r[1] \notin History
  BY <1>2, <1>4, <1>5 DEF Coming
<1>7. \A m \in Msgs : Holder(m)' => Latest(m)' /\ m \notin midway'
  BY <1>2, <1>5 DEF Coming
<1>8. run'.of # NoMsg =>
          /\ Latest(run.of)' /\ Stored(Said(run.of))' /\ run'.of \notin midway'
          /\ run'.of \notin History
  BY <1>1, <1>2 DEF Coming, Latest, Stored, Said, Opens
<1> QED
  BY <1>3, <1>4, <1>6, <1>7, <1>8 DEF Coming

\* A shorter list of things to do changes no message's place.
LEMMA PlacesPopped ==
    ASSUME Shape, CoreInv, Calm, Act,
           UNCHANGED <<rows, midway, queue, pc>>
    PROVE  Places'
<1>1. UNCHANGED <<gone, lost>>
  BY DEF Act
<1> QED
  BY <1>1 DEF CoreInv, Places, Stored, Queued, Holder

\* Messages the run read leave the queue, each with its row.
LEMMA ActReadKeeps ==
    ASSUME Shape, CoreInv, Calm, Act, ActRead(Head(acts))
    PROVE  CoreInv'
<1>1. /\ Popped(acts, acts') /\ Head(acts) = acts[1] /\ acts[1] \in Reported
      /\ Suffix' /\ gate /\ \A k \in Msgs : ~Holder(k)
  BY ActFacts
<1>2. PICK e \in Reported : e = acts[1] /\ ActRead(e)
  BY <1>1
<1>3. e.kind = "interject_delivered" /\ UNCHANGED <<gone, run, lost, gate, pc>>
  BY <1>2 DEF ActRead, Act
<1>4. PICK m \in Msgs : m = e.msg
  BY <1>3 DEF Reported, RunnerEvents
<1> DEFINE others == {i \in DOMAIN queue : queue[i].msg # m}
<1>5. queue \in Seq(Items) /\ DOMAIN queue = 1..Len(queue)
  BY DEF Shape, CoreShape
<1>6. Claim'
  BY <1>3, ClaimPopped
<1>7. CASE others = DOMAIN queue
  <2>1. UNCHANGED <<queue, rows, midway, pc>>
    BY <1>2, <1>3, <1>4, <1>7 DEF ActRead
  <2>2. Book' /\ Coming' /\ Places'
    BY <2>1, ComingPopped, PlacesPopped
  <2> QED
    BY <1>1, <1>6, <2>2 DEF CoreInv
<1>8. CASE others # DOMAIN queue
  <2>1. /\ queue' = Picked(queue, {i \in DOMAIN queue : queue[i].msg # m})
        /\ rows' = Append(rows, Said(m)) /\ midway' = midway \cup {m}
    BY <1>2, <1>4, <1>8 DEF ActRead
  <2>2. Queued(m)
    BY <1>5, <1>8 DEF Queued
  <2>3. /\ \A k \in Msgs : Queued(k)' => Queued(k) /\ k # m
        /\ \A i, j \in 1..Len(queue)' : queue'[i].msg = queue'[j].msg => i = j
    BY <2>1, PickedQueue DEF CoreInv
  <2>4. pc[m] = "over" /\ ~Stored(Said(m)) /\ m \notin lost /\ m \notin History
    BY <2>2 DEF CoreInv, Places
  <2>5. Inserted(rows, Len(rows), rows', Said(m)) /\ Len(rows) \in 0..Len(rows)
    BY <2>1, RowsTyped, AppendInserted
  <2>6. \A r : Stored(r)' <=> Stored(r) \/ r = Said(m)
    BY <2>5, StoredInserted
  <2>7. \A k \in Msgs : Said(k) = Said(m) => k = m
    BY RowsTyped
  <2>8. \A k : Holder(k)' <=> Holder(k)
    BY <1>3 DEF Holder
  <2>9. \A k \in Msgs : Ran(k) => k # m /\ Ran(k)'
    <3> SUFFICES ASSUME NEW k \in Msgs, Ran(k)
                 PROVE  k # m /\ Ran(k)'
      OBVIOUS
    <3>1. pc[k] = "over" /\ Stored(Said(k)) /\ k \notin midway
      BY DEF Ran
    <3>2. k # m
      BY <2>4, <3>1
    <3>3. pc'[k] = "over" /\ Stored(Said(k))' /\ k \notin midway'
      BY <1>3, <2>1, <2>6, <3>1, <3>2
    <3> QED
      BY <3>2, <3>3 DEF Ran
  <2>10. \A k \in Msgs : Latest(k) /\ k # m => Latest(k)'
    <3> SUFFICES ASSUME NEW k \in Msgs, Latest(k), k # m
                 PROVE  Latest(k)'
      OBVIOUS
    <3>1. /\ midway \subseteq midway' /\ Said(m) # Said(k)
          /\ Said(m)[3] = "said" => Said(m)[1] \in midway'
      BY <2>1, <2>7, SaidFacts
    <3> QED
      BY <2>5, <3>1, LatestInserted
  <2>11. Places'
    <3>1. Places
      BY DEF CoreInv
    <3>2. \A k \in Msgs : pc'[k] \in {"new", "sent"} =>
          ~Stored(Said(k))' /\ ~Queued(k)' /\ k \notin lost' /\ k \notin History
      <4> SUFFICES ASSUME NEW k \in Msgs, pc'[k] \in {"new", "sent"}
                   PROVE  ~Stored(Said(k))' /\ ~Queued(k)' /\ k \notin lost' /\ k \notin History
        OBVIOUS
      <4>1. pc[k] \in {"new", "sent"} /\ k # m
        BY <1>3, <2>4
      <4> QED
        BY <1>3, <2>3, <2>6, <2>7, <3>1, <4>1 DEF Places
    <3>3. \A k \in Msgs : Holder(k)' => Stored(Said(k))' /\ Said(k) \notin gone' /\ k \notin History
      BY <1>1, <2>8
    <3>4. \A k \in Msgs : Queued(k)' =>
          pc'[k] = "over" /\ ~Stored(Said(k))' /\ k \notin lost' /\ k \notin History
      BY <1>3, <2>3, <2>6, <2>7, <3>1 DEF Places
    <3>5. \A k \in Msgs : k \in lost' => pc'[k] = "over" /\ ~Stored(Said(k))'
      <4> SUFFICES ASSUME NEW k \in Msgs, k \in lost'
                   PROVE  pc'[k] = "over" /\ ~Stored(Said(k))'
        OBVIOUS
      <4>1. k \in lost /\ k # m
        BY <1>3, <2>4
      <4> QED
        BY <1>3, <2>6, <2>7, <3>1, <4>1 DEF Places
    <3>6. \A k \in Msgs : k \in midway' => Stored(Said(k))'
      BY <2>1, <2>6, <3>1 DEF Places
    <3>7. \A r \in Rows : r \in gone' => Stored(r)'
      BY <1>3, <2>6, <3>1 DEF Places
    <3> QED
      BY <2>3, <3>2, <3>3, <3>4, <3>5, <3>6, <3>7 DEF Places
  <2>12. Book'
    <3>1. Said(m) \in Rows /\ Said(m)[3] = "said"
      BY SaidFacts
    <3>2. Book /\ midway \subseteq midway' /\ run' = run
      BY <1>3, <2>1 DEF CoreInv
    <3>3. \A k \in Msgs : Ran(k) => Ran(k)'
      BY <2>9
    <3> QED
      BY <2>4, <2>5, <3>1, <3>2, <3>3, BookInserted
  <2>13. Coming'
    <3>1. Coming
      BY DEF CoreInv
    <3>2. \A r \in Rows : (On(acts', RowEv(r)) => On(acts, RowEv(r))) /\ OneOf(acts', RowEv(r))
      <4> SUFFICES ASSUME NEW r \in Rows
                   PROVE  (On(acts', RowEv(r)) => On(acts, RowEv(r))) /\ OneOf(acts', RowEv(r))
        OBVIOUS
      <4>1. OneOf(acts, RowEv(r))
        BY <3>1 DEF Coming
      <4> QED
        BY <1>1, <4>1, OnPopped, OneOfPopped
    <3>3. \A r \in Rows : On(acts, RowEv(r))' =>
          /\ r[3] # "said" /\ Ran(r[1])' /\ ~Stored(r)' /\ Latest(r[1])' /\ Upto(r)'
          /\ r[1] \notin History
      <4> SUFFICES ASSUME NEW r \in Rows, On(acts', RowEv(r))
                   PROVE  /\ r[3] # "said" /\ Ran(r[1])' /\ ~Stored(r)' /\ Latest(r[1])' /\ Upto(r)'
                          /\ r[1] \notin History
        OBVIOUS
      <4>1. On(acts, RowEv(r))
        BY <3>2
      <4>2. /\ r[3] # "said" /\ Ran(r[1]) /\ ~Stored(r) /\ Latest(r[1]) /\ Upto(r)
            /\ r[1] \notin History
        BY <3>1, <4>1 DEF Coming
      <4>3. r[1] \in Msgs /\ r # Said(m)
        BY <4>2, RowFacts, SaidFacts
      <4>4. Upto(r)'
        BY <1>3, <4>2 DEF Upto
      <4> QED
        BY <2>6, <2>9, <2>10, <4>2, <4>3, <4>4
    <3>4. \A k \in Msgs : Holder(k)' => Latest(k)' /\ k \notin midway'
      BY <1>1, <2>8
    <3>5. run'.of # NoMsg =>
          /\ Latest(run.of)' /\ Stored(Said(run.of))' /\ run'.of \notin midway'
          /\ run'.of \notin History
      <4> SUFFICES ASSUME run.of # NoMsg
                   PROVE  /\ Latest(run.of)' /\ Stored(Said(run.of))' /\ run'.of \notin midway'
                          /\ run'.of \notin History
        BY <1>3
      <4>1. PICK k \in Msgs : k = run.of /\ k = run'.of
        BY <1>3 DEF Shape, CoreShape
      <4>2. Latest(k) /\ Stored(Said(k)) /\ k \notin midway /\ k \notin History
        BY <3>1, <4>1 DEF Coming
      <4>3. k # m
        BY <2>4, <4>2
      <4>4. Latest(k)' /\ Stored(Said(k))' /\ k \notin midway' /\ k \notin History
        BY <2>1, <2>6, <2>10, <4>2, <4>3
      <4> QED
        BY <4>1, <4>4 DEF Latest, Stored, Said
    <3> QED
      BY <3>2, <3>3, <3>4, <3>5 DEF Coming
  <2> QED
    BY <1>1, <1>6, <2>11, <2>12, <2>13 DEF CoreInv
<1> QED
  BY <1>7, <1>8

\* A run that ended frees the gate, or passes it to the next message.
LEMMA ActEndKeeps ==
    ASSUME Shape, CoreInv, Calm, Act, ActEnd(Head(acts))
    PROVE  CoreInv'
<1>1. /\ Popped(acts, acts') /\ Head(acts) = acts[1] /\ acts[1] \in Reported
      /\ Suffix' /\ gate /\ \A k \in Msgs : ~Holder(k)
      /\ acts[1] \in Ends => acts' = <<>> /\ emits' = <<>> /\ run.of = NoMsg
  BY ActFacts
<1>2. PICK e \in Reported : e = acts[1] /\ ActEnd(e)
  BY <1>1
<1>3. e.kind \in {"run_complete", "closed"} /\ UNCHANGED <<gone, run, lost, midway>>
  BY <1>2 DEF ActEnd, Act
<1>4. e \in Ends
  BY <1>3 DEF Reported, RunnerEvents, Ends
<1>5. acts' = <<>> /\ emits' = <<>> /\ run.of = NoMsg /\ Len(acts') = 0
  BY <1>1, <1>2, <1>4
<1>6. CASE e.kind = "closed" \/ queue = <<>>
  <2>1. UNCHANGED <<rows, queue, pc>>
    BY <1>2, <1>6 DEF ActEnd
  <2>2. Book' /\ Coming' /\ Places'
    BY <1>3, <2>1, ComingPopped, PlacesPopped
  <2>3. \A k \in Msgs : pc'[k] \notin {"saved", "pending", "drained", "written", "taken"}
    BY <1>1, <2>1 DEF Holder
  <2>4. \A k \in Msgs : ~Holder(k)'
    BY <2>3 DEF Holder
  <2>5. run'.of = NoMsg /\ acts' = <<>> /\ \A i \in 1..Len(acts') : FALSE
    BY <1>3, <1>5
  <2>6. Claim'
    BY <2>3, <2>4, <2>5 DEF Claim
  <2> QED
    BY <1>1, <2>2, <2>6 DEF CoreInv
<1>7. CASE ~(e.kind = "closed" \/ queue = <<>>)
  <2>1. PICK m : m = Head(queue).msg
    OBVIOUS
  <2>2. /\ queue # <<>> /\ queue' = Tail(queue) /\ rows' = Append(rows, Said(m))
        /\ Go(m, "drained") /\ gate' = gate
    BY <1>2, <1>7, <2>1 DEF ActEnd
  <2>3. /\ m \in Msgs /\ Queued(m)
        /\ \A k \in Msgs : Queued(k)' => Queued(k) /\ k # m
        /\ \A i, j \in 1..Len(queue)' : queue'[i].msg = queue'[j].msg => i = j
    BY <2>1, <2>2, TailQueue DEF CoreInv
  <2>4. ~Stored(Said(m)) /\ m \notin lost /\ m \notin History
    BY <2>3 DEF CoreInv, Places
  <2>5. UNCHANGED <<gone, midway, run, lost>> /\ gate'
    BY <1>1, <1>3, <2>2
  <2>6. PICK step \in {"saved", "drained"} : step = "drained"
    OBVIOUS
  <2>7. Go(m, step)
    BY <2>2, <2>6
  <2> QED
    BY <1>1, <1>5, <2>2, <2>3, <2>4, <2>5, <2>7, OpenerKeeps
<1> QED
  BY <1>6, <1>7

\* A message jumps the queue.
LEMMA JumpKeeps ==
    ASSUME Shape, CoreInv, NEW i \in 1..Len(queue), Jump(i)
    PROVE  CoreInv'
<1>1. PICK item : item = queue[i]
  OBVIOUS
<1>2. UNCHANGED <<gone, midway, run, lost, emits, acts>>
  BY DEF Jump
<1>3. PICK m : m = item.msg
  OBVIOUS
<1>4. CASE gate
  <2>1. queue' = <<queue[i]>> \o RemoveAt(queue, i) /\ UNCHANGED <<rows, gate, pc>>
    BY <1>4 DEF Jump
  <2>2. /\ \A k \in Msgs : Queued(k)' => Queued(k)
        /\ \A k, l \in 1..Len(queue)' : queue'[k].msg = queue'[l].msg => k = l
    BY <2>1, JumpQueue DEF CoreInv
  <2>a. UNCHANGED <<rows, gate, pc, midway, run, emits, acts>>
    BY <1>2, <2>1
  <2>b. \A k : Ran(k)' <=> Ran(k)
    BY <2>a DEF Ran, Stored
  <2>c. Book' /\ Coming'
    BY <2>a, <2>b, BookSame, ComingSame DEF CoreInv, Holder
  <2>3. Suffix' /\ Claim' /\ Book' /\ Coming'
    BY <2>a, <2>c DEF CoreInv, Suffix, Claim, On, Holder
  <2>4. \A r : (Stored(r)' <=> Stored(r)) /\ (Holder(r)' <=> Holder(r))
    BY <2>1 DEF Stored, Holder
  <2>5. Places'
    BY <1>2, <2>1, <2>2, <2>4 DEF CoreInv, Places
  <2> QED
    BY <2>3, <2>5 DEF CoreInv
<1>5. CASE ~gate
  <2>1. /\ queue' = RemoveAt(queue, i) /\ gate' /\ rows' = Append(rows, Said(m))
        /\ Go(m, "drained")
    BY <1>1, <1>3, <1>5 DEF Jump
  <2>2. /\ m \in Msgs /\ Queued(m)
        /\ \A k \in Msgs : Queued(k)' => Queued(k) /\ k # m
        /\ \A k, l \in 1..Len(queue)' : queue'[k].msg = queue'[l].msg => k = l
    <3>1. /\ queue[i].msg \in Msgs /\ Queued(queue[i].msg) /\ queue' \in Seq(Items)
          /\ \A k \in Msgs : Queued(k)' => Queued(k)
          /\ queue' = RemoveAt(queue, i) =>
                \A k \in Msgs : queue[i].msg = k => ~Queued(k)'
          /\ \A k, l \in 1..Len(queue)' : queue'[k].msg = queue'[l].msg => k = l
      BY <2>1, JumpQueue DEF CoreInv
    <3> QED
      BY <1>1, <1>3, <2>1, <3>1
  <2>3. ~Stored(Said(m)) /\ m \notin lost /\ m \notin History
    BY <2>2 DEF CoreInv, Places
  <2>4. /\ \A k \in Msgs : ~Holder(k)
        /\ run.of = NoMsg /\ acts = <<>> /\ emits = <<>>
    BY <1>5, ClosedFacts
  <2>5. acts' = <<>> /\ emits' = <<>> /\ UNCHANGED <<gone, midway, run, lost>>
    BY <1>2, <2>4
  <2>6. PICK step \in {"saved", "drained"} : step = "drained"
    OBVIOUS
  <2>7. Go(m, step)
    BY <2>1, <2>6
  <2> QED
    BY <2>1, <2>2, <2>3, <2>4, <2>5, <2>7, OpenerKeeps
<1> QED
  BY <1>4, <1>5

\* Rows are deleted.
LEMMA DeleteKeeps ==
    ASSUME Shape, CoreInv, NEW unit, Delete(unit)
    PROVE  CoreInv'
<1>1. /\ ~gate /\ gone' = gone \cup ((unit \cap Written) \ gone)
      /\ UNCHANGED <<rows, midway, gate, run, queue, pc, lost, emits, acts>>
  BY DEF Delete
<1>2. \A k \in Msgs : ~Holder(k)
  BY <1>1, ClosedFacts
<1>3. \A r : r \in Written => Stored(r)
  BY DEF Written, ToSet, Stored
<1>4. \A r : (Stored(r)' <=> Stored(r)) /\ (Holder(r)' <=> Holder(r)) /\ (Queued(r)' <=> Queued(r))
  BY <1>1 DEF Stored, Holder, Queued
<1>5. Places'
  <2>1. Places
    BY DEF CoreInv
  <2>2. \A r \in Rows : r \in gone' => Stored(r)'
    BY <1>1, <1>3, <1>4, <2>1 DEF Places
  <2> QED
    BY <1>1, <1>2, <1>4, <2>1, <2>2 DEF Places
<1>6. Suffix' /\ Claim' /\ Book' /\ Coming'
  BY <1>1 DEF CoreInv, Suffix, Claim, Book, Coming, On, OneOf, Holder, Stored, Ran, Latest,
              Upto, Opens
<1> QED
  BY <1>5, <1>6 DEF CoreInv

\* What Core keeps when only its answers go out.
LEMMA CoreSame ==
    ASSUME CoreInv, UNCHANGED <<rows, gone, midway, gate, run, queue, pc, lost, emits, acts>>
    PROVE  CoreInv'
<1>1. \A r : /\ Stored(r)' <=> Stored(r)
             /\ Queued(r)' <=> Queued(r)
             /\ Latest(r)' <=> Latest(r)
             /\ Holder(r)' <=> Holder(r)
             /\ Ran(r)' <=> Ran(r)
             /\ Upto(r)' <=> Upto(r)
  BY DEF Stored, Queued, Latest, Holder, Ran, Opens, Upto
<1>2. Suffix' /\ Claim'
  BY DEF CoreInv, Suffix, Claim, On, Holder
<1>3. Places'
  BY <1>1 DEF CoreInv, Places
<1>4. Book'
  BY DEF CoreInv, Book, Ran, Stored, Upto, Opens
<1>5. Coming'
  <2>1. \A m \in Msgs : (Ran(m) => Ran(m)') /\ (Holder(m)' => Holder(m))
    BY <1>1
  <2> QED
    BY <2>1, ComingSame DEF CoreInv
<1> QED
  BY <1>2, <1>3, <1>4, <1>5 DEF CoreInv

\* Each of Core's steps keeps all of it.
LEMMA CoreStepKeeps ==
    ASSUME Shape, CoreInv, Calm, CoreStep
    PROVE  CoreInv'
<1>1. ASSUME NEW m \in Msgs, Send(m)
      PROVE  CoreInv'
  BY <1>1, EnqueueKeeps, ReserveKeeps, WriteKeeps, SendMovesKeep DEF Send
<1>2. ASSUME NEW m \in Msgs, RowFails(m) \/ WriteFails(m)
      PROVE  CoreInv'
  BY <1>2, RowFailsKeeps, SendMovesKeep
<1>3. ASSUME EndStep \/ Complete \/ Emit \/ TellLine \/ Exit
      PROVE  CoreInv'
  BY <1>3, EndStepKeeps, EndsKeep, EmitKeeps, TellLineKeeps
<1>4. ASSUME Act
      PROVE  CoreInv'
  <2>1. ActRow(Head(acts)) \/ ActRead(Head(acts)) \/ ActEnd(Head(acts))
    BY <1>4 DEF Act
  <2> QED
    BY <1>4, <2>1, ActRowKeeps, ActReadKeeps, ActEndKeeps
<1>5. ASSUME NEW i \in 1..Len(queue), Jump(i)
      PROVE  CoreInv'
  BY <1>5, JumpKeeps
<1>6. ASSUME NEW unit, Delete(unit)
      PROVE  CoreInv'
  BY <1>6, DeleteKeeps
<1> QED
  BY <1>1, <1>2, <1>3, <1>4, <1>5, <1>6 DEF CoreStep

\* The page takes part in one thing only, the sending.
LEMMA PageStepKeeps ==
    ASSUME Shape, CoreInv, PageStep
    PROVE  CoreInv'
<1>1. ASSUME NEW m \in Own, Submit(m)
      PROVE  CoreInv'
  <2>1. m \in Msgs
    BY TranscriptAssumption
  <2>2. /\ Go(m, "sent") /\ pc[m] = "new"
        /\ UNCHANGED <<rows, gone, midway, gate, run, queue, lost, emits, acts>>
    BY <1>1 DEF Submit, channel
  <2> QED
    BY <2>1, <2>2, SubmitKeeps
<1>2. ASSUME AskStop \/ Activate \/ LoadEarlier \/ Reload \/ ListenUp \/ \E i \in 1..Len(wire) : Receive(i)
      PROVE  CoreInv'
  <2>1. UNCHANGED <<rows, gone, midway, gate, run, queue, pc, lost, emits, acts>>
    BY <1>2 DEF AskStop, Activate, LoadEarlier, Reload, ListenUp, Receive, core, channel
  <2> QED
    BY <2>1, CoreSame
<1> QED
  BY <1>1, <1>2 DEF PageStep

\* So does every step of the system.
LEMMA CoreInvNext ==
    ASSUME Shape, CoreInv, Calm, [Next]_vars
    PROVE  CoreInv'
<1>1. ASSUME CoreAnswer \/ CoreFails \/ UNCHANGED vars
      PROVE  CoreInv'
  <2>1. UNCHANGED <<rows, gone, midway, gate, run, queue, pc, lost, emits, acts>>
    <3>1. CASE CoreAnswer
      BY <3>1 DEF CoreAnswer, ReadLatest, ReadEarlier, ReadQueue, AnswerStop, StopFails,
                  ListRunners, CoreRest, core
    <3>2. CASE CoreFails
      BY <3>2 DEF CoreFails, ReadFails, CoreRest, core
    <3>3. CASE UNCHANGED vars
      BY <3>3 DEF vars, core, channel
    <3> QED
      BY <1>1, <3>1, <3>2, <3>3
  <2> QED
    BY <2>1, CoreSame
<1> QED
  BY <1>1, CoreStepKeeps, PageStepKeeps DEF Next

\* At the start each message of an earlier launch has its row and then its
\* reply's.
LEMMA PastOrder ==
    ASSUME Init
    PROVE  \E blk :
              /\ \A i \in 1..Len(rows) :
                    /\ blk[i] \in Nat /\ rows[i][1] \in History
                    /\ rows[i] = Said(rows[i][1]) \/ rows[i] = Step(rows[i][1], 1)
                    /\ \E j \in 1..Len(rows) : rows[j] = Said(rows[i][1])
              /\ \A i, j \in 1..Len(rows) : rows[i][1] = rows[j][1] => blk[i] = blk[j]
              /\ \A i, j \in 1..Len(rows) : i < j =>
                    \/ blk[i] < blk[j]
                    \/ blk[i] = blk[j] /\ rows[i][3] = "said" /\ rows[j][3] # "said"
<1>1. PICK past, blk, off :
              LET pairs == [i \in 1..Len(past) |-> <<Said(past[i]), Step(past[i], 1)>>]
              IN  /\ past \in Seq(History)
                  /\ \A i, j \in 1..Len(past) : past[i] = past[j] => i = j
                  /\ rows \in Seq(Rows) /\ Strung(rows, pairs, blk, off)
  BY PastRows
<1> DEFINE pairs == [i \in 1..Len(past) |-> <<Said(past[i]), Step(past[i], 1)>>]
<1>2. /\ past \in Seq(History) /\ Len(past) \in Nat
      /\ \A i, j \in 1..Len(past) : past[i] = past[j] => i = j
      /\ Strung(rows, pairs, blk, off)
  BY <1>1
<1>3. Len(pairs) = Len(past) /\ \A b \in 1..Len(past) : pairs[b] = <<Said(past[b]), Step(past[b], 1)>>
  BY <1>2
<1> HIDE DEF pairs
<1>4. ASSUME NEW b \in 1..Len(past)
      PROVE  /\ Len(pairs[b]) = 2 /\ past[b] \in History
             /\ pairs[b][1] = Said(past[b]) /\ pairs[b][2] = Step(past[b], 1)
  <2>1. PICK x, y : x = Said(past[b]) /\ y = Step(past[b], 1)
    OBVIOUS
  <2>2. pairs[b] = <<x, y>>
    BY <1>3, <2>1
  <2>3. Len(<<x, y>>) = 2 /\ <<x, y>>[1] = x /\ <<x, y>>[2] = y
    OBVIOUS
  <2>4. past[b] \in History
    BY <1>2
  <2> QED
    BY <2>1, <2>2, <2>3, <2>4
<1>5. /\ blk \in [1..Len(rows) -> 1..Len(past)]
      /\ \A k \in 1..Len(rows) : off[k] \in 1..Len(pairs[blk[k]]) /\ rows[k] = pairs[blk[k]][off[k]]
      /\ \A k, l \in 1..Len(rows) : k < l =>
            blk[k] < blk[l] \/ (blk[k] = blk[l] /\ off[k] < off[l])
      /\ \A b \in 1..Len(past) : \A o \in 1..Len(pairs[b]) :
            \E k \in 1..Len(rows) : blk[k] = b /\ off[k] = o
  BY <1>2, <1>3 DEF Strung
<1>6. ASSUME NEW i \in 1..Len(rows)
      PROVE  /\ blk[i] \in 1..Len(past) /\ off[i] \in {1, 2} /\ past[blk[i]] = rows[i][1]
             /\ rows[i][1] \in History
             /\ \/ rows[i] = Said(rows[i][1]) /\ off[i] = 1 /\ rows[i][3] = "said"
                \/ rows[i] = Step(rows[i][1], 1) /\ off[i] = 2 /\ rows[i][3] # "said"
  <2>1. PICK b \in 1..Len(past) : b = blk[i]
    BY <1>5
  <2>2. /\ Len(pairs[b]) = 2 /\ past[b] \in History
        /\ pairs[b][1] = Said(past[b]) /\ pairs[b][2] = Step(past[b], 1)
    BY <1>4
  <2>3. off[i] \in 1..2 /\ rows[i] = pairs[b][off[i]]
    BY <1>5, <2>1, <2>2
  <2>4. off[i] = 1 \/ off[i] = 2
    BY <2>3
  <2>5. PICK m \in History : m = past[b]
    BY <2>2
  <2>6. Said(m)[1] = m /\ Said(m)[3] = "said" /\ Step(m, 1)[1] = m /\ Step(m, 1)[3] = "step"
    BY DEF Said, Step
  <2>7. CASE off[i] = 1
    <3>1. rows[i] = Said(m)
      BY <2>2, <2>3, <2>5, <2>7
    <3>2. rows[i][1] = m /\ rows[i][3] = "said"
      BY <2>6, <3>1, Zenon
    <3>3. rows[i] = Said(rows[i][1])
      BY <3>1, <3>2, Zenon
    <3>4. past[blk[i]] = rows[i][1]
      BY <2>1, <2>5, <3>2
    <3>5. blk[i] \in 1..Len(past) /\ off[i] \in {1, 2} /\ rows[i][1] \in History
      BY <2>1, <2>7, <3>2
    <3>6. rows[i] = Said(rows[i][1]) /\ off[i] = 1 /\ rows[i][3] = "said"
      BY <2>7, <3>2, <3>3, Zenon
    <3> QED
      BY <3>4, <3>5, <3>6, Zenon
  <2>8. CASE off[i] = 2
    <3>1. rows[i] = Step(m, 1)
      BY <2>2, <2>3, <2>5, <2>8
    <3>2. rows[i][1] = m /\ rows[i][3] # "said"
      BY <2>6, <3>1
    <3>3. rows[i] = Step(rows[i][1], 1)
      BY <3>1, <3>2, Zenon
    <3>4. past[blk[i]] = rows[i][1]
      BY <2>1, <2>5, <3>2
    <3>5. blk[i] \in 1..Len(past) /\ off[i] \in {1, 2} /\ rows[i][1] \in History
      BY <2>1, <2>8, <3>2
    <3> QED
      BY <2>8, <3>2, <3>3, <3>4, <3>5
  <2> QED
    BY <2>4, <2>7, <2>8
<1>7. ASSUME NEW i \in 1..Len(rows)
      PROVE  \E j \in 1..Len(rows) : rows[j] = Said(rows[i][1])
  <2>1. PICK b \in 1..Len(past) : b = blk[i]
    BY <1>6
  <2>2. Len(pairs[b]) = 2 /\ 1 \in 1..2
    BY <1>4
  <2>3. PICK j \in 1..Len(rows) : blk[j] = b /\ off[j] = 1
    BY <1>5, <2>2
  <2>4. rows[j][1] = past[b] /\ past[b] = rows[i][1]
    BY <1>6, <2>1, <2>3
  <2>5. rows[j] = Said(rows[j][1])
    BY <1>6, <2>3
  <2> QED
    BY <2>4, <2>5
<1>8. \A i, j \in 1..Len(rows) : rows[i][1] = rows[j][1] => blk[i] = blk[j]
  <2> SUFFICES ASSUME NEW i \in 1..Len(rows), NEW j \in 1..Len(rows), rows[i][1] = rows[j][1]
               PROVE  blk[i] = blk[j]
    OBVIOUS
  <2>1. PICK b \in 1..Len(past), c \in 1..Len(past) : b = blk[i] /\ c = blk[j]
    BY <1>6
  <2>2. past[b] = past[c]
    BY <1>6, <2>1
  <2> QED
    BY <1>2, <2>1, <2>2
<1>9. \A i, j \in 1..Len(rows) : i < j =>
         \/ blk[i] < blk[j]
         \/ blk[i] = blk[j] /\ rows[i][3] = "said" /\ rows[j][3] # "said"
  <2> SUFFICES ASSUME NEW i \in 1..Len(rows), NEW j \in 1..Len(rows), i < j, ~(blk[i] < blk[j])
               PROVE  blk[i] = blk[j] /\ rows[i][3] = "said" /\ rows[j][3] # "said"
    OBVIOUS
  <2>1. blk[i] = blk[j] /\ off[i] < off[j]
    BY <1>5
  <2>2. off[i] = 1 /\ off[j] = 2
    BY <1>6, <2>1
  <2> QED
    BY <1>6, <2>1, <2>2
<1>10. \A i \in 1..Len(rows) :
          /\ blk[i] \in Nat /\ rows[i][1] \in History
          /\ rows[i] = Said(rows[i][1]) \/ rows[i] = Step(rows[i][1], 1)
          /\ \E j \in 1..Len(rows) : rows[j] = Said(rows[i][1])
  BY <1>6, <1>7
<1> QED
  BY <1>8, <1>9, <1>10

\* And it holds at the start.
LEMMA CoreInvInit ==
    ASSUME Init
    PROVE  CoreInv
<1>1. /\ gone = {} /\ midway = {} /\ gate = FALSE /\ run = NoRun /\ queue = <<>> /\ lost = {}
      /\ pc = [m \in Msgs |-> IF m \in History THEN "over" ELSE "new"]
      /\ emits = <<>> /\ acts = <<>>
  BY DEF Init
<1>2. \A m \in Msgs : pc[m] = IF m \in History THEN "over" ELSE "new"
  BY <1>1
<1>3. run.of = NoMsg /\ \A m \in Msgs : ~Holder(m)
  BY <1>1, <1>2 DEF NoRun, Holder
<1>4. Len(queue) = 0 /\ Len(acts) = 0 /\ Len(emits) = 0
  BY <1>1
<1>5. \A A : ~On(acts, A) /\ OneOf(acts, A)
  BY <1>4 DEF On, OneOf
<1>6. Suffix
  BY <1>4 DEF Suffix
<1>7. Claim
  <2>1. \A m \in Msgs : pc[m] \notin {"saved", "pending", "drained", "written", "taken"}
    BY <1>2
  <2> QED
    BY <1>1, <1>3, <1>4, <2>1 DEF Claim
<1>8. Coming
  BY <1>3, <1>5 DEF Coming
<1>9. PICK blk :
              /\ \A i \in 1..Len(rows) :
                    /\ blk[i] \in Nat /\ rows[i][1] \in History
                    /\ rows[i] = Said(rows[i][1]) \/ rows[i] = Step(rows[i][1], 1)
                    /\ \E j \in 1..Len(rows) : rows[j] = Said(rows[i][1])
              /\ \A i, j \in 1..Len(rows) : rows[i][1] = rows[j][1] => blk[i] = blk[j]
              /\ \A i, j \in 1..Len(rows) : i < j =>
                    \/ blk[i] < blk[j]
                    \/ blk[i] = blk[j] /\ rows[i][3] = "said" /\ rows[j][3] # "said"
  BY PastOrder
<1>10. Len(rows) \in Nat
  BY PastRows
<1>11. \A m : Said(m)[1] = m /\ Said(m)[3] = "said"
  BY DEF Said
<1>12. \A i, j \in 1..Len(rows) : rows[i][1] = rows[j][1] /\ i < j =>
          rows[i][3] = "said" /\ rows[j][3] # "said"
  <2> SUFFICES ASSUME NEW i \in 1..Len(rows), NEW j \in 1..Len(rows), rows[i][1] = rows[j][1], i < j
               PROVE  rows[i][3] = "said" /\ rows[j][3] # "said"
    OBVIOUS
  <2>1. blk[i] = blk[j] /\ blk[i] \in Nat
    BY <1>9
  <2>2. ~(blk[i] < blk[j])
    BY <2>1
  <2> QED
    BY <1>9, <2>2
<1>13. Book
  <2>1. \A i, j \in 1..Len(rows) : rows[i] = rows[j] => i = j
    <3> SUFFICES ASSUME NEW i \in 1..Len(rows), NEW j \in 1..Len(rows), rows[i] = rows[j], i # j
                 PROVE  FALSE
      OBVIOUS
    <3>1. i < j \/ j < i
      BY <1>10
    <3> QED
      BY <1>12, <3>1
  <2>2. \A i \in 1..Len(rows) : rows[i][3] # "said" => Ran(rows[i][1]) /\ Upto(rows[i])
    <3> SUFFICES ASSUME NEW i \in 1..Len(rows), rows[i][3] # "said"
                 PROVE  Ran(rows[i][1]) /\ Upto(rows[i])
      OBVIOUS
    <3>1. PICK m \in History : m = rows[i][1] /\ m \in Msgs /\ m # NoMsg
      BY <1>9, TranscriptAssumption
    <3>2. Stored(Said(m))
      BY <1>9, <3>1 DEF Stored
    <3>3. Ran(m)
      BY <1>1, <1>2, <3>1, <3>2 DEF Ran
    <3> QED
      BY <1>3, <3>1, <3>3 DEF Upto
  <2>3. \A i, j \in 1..Len(rows) : rows[i][3] # "said" /\ rows[j] = Said(rows[i][1]) => j < i
    <3> SUFFICES ASSUME NEW i \in 1..Len(rows), NEW j \in 1..Len(rows),
                        rows[i][3] # "said", rows[j] = Said(rows[i][1])
                 PROVE  j < i
      OBVIOUS
    <3>1. rows[j][1] = rows[i][1] /\ rows[j][3] = "said"
      BY <1>11
    <3>2. ~(i < j) /\ i # j
      BY <1>12, <3>1
    <3> QED
      BY <1>10, <3>2
  <2>4. \A i, j, l \in 1..Len(rows) :
          rows[i][3] # "said" /\ rows[j] = Said(rows[i][1]) /\ Opens(rows[l]) /\ l < i => l <= j
    <3> SUFFICES ASSUME NEW i \in 1..Len(rows), NEW j \in 1..Len(rows), NEW l \in 1..Len(rows),
                        rows[i][3] # "said", rows[j] = Said(rows[i][1]), Opens(rows[l]), l < i,
                        ~(l <= j)
                 PROVE  FALSE
      OBVIOUS
    <3>1. rows[j][1] = rows[i][1] /\ rows[l][3] = "said"
      BY <1>11 DEF Opens
    <3>2. j < l
      BY <1>10
    <3>3. blk[j] < blk[l]
      BY <1>9, <3>1, <3>2
    <3>4. blk[l] < blk[i] \/ blk[l] = blk[i]
      BY <1>9
    <3>5. blk[i] = blk[j] /\ blk[i] \in Nat /\ blk[l] \in Nat
      BY <1>9, <3>1
    <3> QED
      BY <3>3, <3>4, <3>5
  <2> QED
    BY <2>1, <2>2, <2>3, <2>4 DEF Book
<1>14. Places
  <2>1. \A m \in Msgs : m \notin History => ~Stored(Said(m))
    <3> SUFFICES ASSUME NEW m \in Msgs, m \notin History, NEW i \in 1..Len(rows), rows[i] = Said(m)
                 PROVE  FALSE
      BY Zenon DEF Stored
    <3>1. rows[i][1] = m
      BY <1>11, Zenon
    <3> QED
      BY <1>9, <3>1
  <2>2. \A m \in Msgs : ~Queued(m)
    BY <1>4 DEF Queued
  <2> QED
    BY <1>1, <1>2, <1>3, <1>4, <2>1, <2>2 DEF Places
<1> QED
  BY <1>6, <1>7, <1>8, <1>13, <1>14 DEF CoreInv

\* Core's conversation is in order, at every moment.
THEOREM BookKept ==
    ASSUME Calm
    PROVE  Spec => []CoreInv
<1>1. Init => Shape /\ CoreInv
  BY InitShape, CoreInvInit
<1>2. Shape /\ CoreInv /\ [Next]_vars => CoreInv'
  BY CoreInvNext
<1> QED
  BY <1>1, <1>2, ShapeInvariant, PTL DEF Spec
=============================================================================
