---------------------------- MODULE SequenceLemmas ----------------------------
(***************************************************************************)
(* What sorting and filtering do to every set and every sequence: the      *)
(* facts the proofs about pollers, rules and gates rest on.                *)
(***************************************************************************)
EXTENDS Lists, Integers, Functions, FunctionTheorems, FiniteSetTheorems, SequenceTheorems, TLAPS

(* Sooner is a strict linear order on numbers.                             *)
LEMMA SoonerIsLinear ==
    ASSUME NEW S \in SUBSET Int, NEW key, \A m \in S : key[m] \in Int,
           NEW a \in S, NEW b \in S, NEW c \in S
    PROVE  /\ ~ Sooner(key, a, a)
           /\ Sooner(key, a, b) /\ Sooner(key, b, c) => Sooner(key, a, c)
           /\ a = b \/ Sooner(key, a, b) \/ Sooner(key, b, a)
  BY DEF Sooner

Earlier(S, key, m) == {n \in S : Sooner(key, n, m)}
Rank(S, key) == [m \in S |-> Cardinality(Earlier(S, key, m)) + 1]

(* The rank of an element is its place in the order.                       *)
LEMMA RanksGrow ==
    ASSUME NEW S \in SUBSET Int, IsFiniteSet(S), NEW key, \A m \in S : key[m] \in Int
    PROVE  /\ Rank(S, key) \in [S -> 1 .. Cardinality(S)]
           /\ \A a, b \in S : Sooner(key, a, b) => Rank(S, key)[a] < Rank(S, key)[b]
<1>1. ASSUME NEW m \in S
      PROVE  /\ IsFiniteSet(Earlier(S, key, m)) /\ Cardinality(Earlier(S, key, m)) \in Nat
             /\ Cardinality(Earlier(S, key, m)) < Cardinality(S)
  <2>1. Earlier(S, key, m) \in SUBSET (S \ {m})
    BY SoonerIsLinear DEF Earlier
  <2>2. IsFiniteSet(S \ {m}) /\ Cardinality(S \ {m}) = Cardinality(S) - 1
    BY FS_RemoveElement
  <2>3. /\ IsFiniteSet(Earlier(S, key, m))
        /\ Cardinality(Earlier(S, key, m)) <= Cardinality(S \ {m})
    BY <2>1, <2>2, FS_Subset
  <2>4. Cardinality(S) \in Nat /\ Cardinality(Earlier(S, key, m)) \in Nat
    BY <2>3, FS_CardinalityType
  <2>5. QED
    BY <2>2, <2>3, <2>4
<1>2. Cardinality(S) \in Nat
  BY FS_CardinalityType
<1>3. ASSUME NEW a \in S, NEW b \in S, Sooner(key, a, b)
      PROVE  Cardinality(Earlier(S, key, a)) < Cardinality(Earlier(S, key, b))
  <2>1. a \in Earlier(S, key, b) /\ a \notin Earlier(S, key, a)
    BY <1>3, SoonerIsLinear DEF Earlier
  <2>2. Earlier(S, key, a) \in SUBSET Earlier(S, key, b)
    BY <1>3, SoonerIsLinear DEF Earlier
  <2>3. IsFiniteSet(Earlier(S, key, b))
    BY <1>1
  <2>4. /\ Cardinality(Earlier(S, key, a)) <= Cardinality(Earlier(S, key, b))
        /\ Cardinality(Earlier(S, key, a)) # Cardinality(Earlier(S, key, b))
    BY <2>1, <2>2, <2>3, FS_Subset
  <2>5. Cardinality(Earlier(S, key, a)) \in Nat /\ Cardinality(Earlier(S, key, b)) \in Nat
    BY <1>1
  <2>6. QED
    BY <2>4, <2>5
<1>4. ASSUME NEW m \in S
      PROVE  Rank(S, key)[m] = Cardinality(Earlier(S, key, m)) + 1
  BY DEF Rank
<1>5. Rank(S, key) \in [S -> 1 .. Cardinality(S)]
  <2>1. ASSUME NEW m \in S PROVE Cardinality(Earlier(S, key, m)) + 1 \in 1 .. Cardinality(S)
    BY <1>1, <1>2
  <2>2. QED
    BY <2>1 DEF Rank
<1>6. ASSUME NEW a \in S, NEW b \in S, Sooner(key, a, b)
      PROVE  Rank(S, key)[a] < Rank(S, key)[b]
  <2>1. Cardinality(Earlier(S, key, a)) \in Nat /\ Cardinality(Earlier(S, key, b)) \in Nat
    BY <1>1
  <2>2. QED
    BY <1>3, <1>4, <1>6, <2>1
<1>7. QED
  BY <1>5, <1>6

(* Sorting a set gives a sequence of its elements, each once, in order.    *)
LEMMA SortedSequence ==
    ASSUME NEW S \in SUBSET Int, IsFiniteSet(S), NEW key, \A m \in S : key[m] \in Int
    PROVE  /\ Sorted(S, key) \in Seq(S) /\ Len(Sorted(S, key)) = Cardinality(S)
           /\ Cardinality(S) \in Nat
           /\ \A i, j \in 1 .. Cardinality(S) :
                 i < j => Sooner(key, Sorted(S, key)[i], Sorted(S, key)[j])
           /\ \A m \in S : \E i \in 1 .. Cardinality(S) : Sorted(S, key)[i] = m
<1> DEFINE N == Cardinality(S)
           rank == Rank(S, key)
           s == Sorted(S, key)
<1>1. N \in Nat /\ IsFiniteSet(1 .. N) /\ Cardinality(1 .. N) = N
  <2>1. N \in Nat
    BY FS_CardinalityType
  <2>2. QED
    BY <2>1, FS_Interval
<1>2. rank \in [S -> 1 .. N] /\ \A a, b \in S : Sooner(key, a, b) => rank[a] < rank[b]
  BY RanksGrow
<1>3. rank \in Injection(S, 1 .. N)
  <2>1. ASSUME NEW a \in S, NEW b \in S, rank[a] = rank[b] PROVE a = b
    <3>1. rank[a] \in Int /\ rank[b] \in Int
      BY <1>2
    <3>2. ~ (rank[a] < rank[b]) /\ ~ (rank[b] < rank[a])
      BY <2>1, <3>1
    <3>3. QED
      BY <1>2, <3>2, SoonerIsLinear
  <2> HIDE DEF rank
  <2>2. QED
    BY <1>2, <2>1 DEF Injection, IsInjective
<1>4. rank \in Surjection(S, 1 .. N)
  <2> HIDE DEF rank
  <2>1. QED
    BY <1>1, <1>3, FS_Injection
<1>5. ASSUME NEW m \in S
      PROVE  rank[m] = Cardinality({n \in S : Sooner(key, n, m)}) + 1
             /\ Cardinality({n \in S : Sooner(key, n, m)}) \in Nat
  <2>1. IsFiniteSet({n \in S : Sooner(key, n, m)})
    BY FS_Subset
  <2>2. QED
    BY <2>1, FS_CardinalityType DEF Rank, Earlier
<1>6. s = [k \in 1 .. N |-> CHOOSE m \in S : Cardinality({n \in S : Sooner(key, n, m)}) = k - 1]
  BY DEF Sorted
<1> HIDE DEF rank, N, s
<1>7. ASSUME NEW k \in 1 .. N PROVE s[k] \in S /\ rank[s[k]] = k
  <2>1. \E m \in S : rank[m] = k
    BY <1>4 DEF Surjection
  <2>2. k \in Int
    BY <1>1
  <2>3. \E m \in S : Cardinality({n \in S : Sooner(key, n, m)}) = k - 1
    BY <2>1, <2>2, <1>5
  <2> DEFINE P(m) == Cardinality({n \in S : Sooner(key, n, m)}) = k - 1
  <2>4. s[k] = CHOOSE m \in S : P(m)
    BY <1>6
  <2>5. \E m \in S : P(m)
    BY <2>3
  <2> HIDE DEF P
  <2>6. s[k] \in S /\ P(s[k])
    BY <2>4, <2>5
  <2>7. Cardinality({n \in S : Sooner(key, n, s[k])}) = k - 1
    BY <2>6 DEF P
  <2>8. rank[s[k]] = (k - 1) + 1
    BY <2>6, <2>7, <1>5
  <2>9. QED
    BY <2>2, <2>6, <2>8
<1>8. s \in [1 .. N -> S]
  BY <1>6, <1>7
<1>9. s \in Seq(S) /\ Len(s) = N
  BY <1>1, <1>8
<1>10. ASSUME NEW i \in 1 .. N, NEW j \in 1 .. N, i < j PROVE Sooner(key, s[i], s[j])
  <2>1. s[i] \in S /\ s[j] \in S /\ rank[s[i]] = i /\ rank[s[j]] = j
    BY <1>7
  <2>2. s[i] # s[j] /\ ~ (rank[s[j]] < rank[s[i]])
    BY <2>1, <1>10, <1>1
  <2>3. QED
    BY <2>1, <2>2, <1>2, SoonerIsLinear
<1>11. ASSUME NEW m \in S PROVE \E i \in 1 .. N : s[i] = m
  <2>1. rank[m] \in 1 .. N
    BY <1>2
  <2>2. s[rank[m]] \in S /\ rank[s[rank[m]]] = rank[m]
    BY <2>1, <1>7
  <2>3. s[rank[m]] = m
    BY <2>2, <1>3 DEF Injection, IsInjective
  <2>4. QED
    BY <2>1, <2>3
<1>12. QED
  BY <1>1, <1>9, <1>10, <1>11 DEF N, s

(* Likewise for the natural order.                                         *)
LEMMA AscendingSequence ==
    ASSUME NEW S \in SUBSET Int, IsFiniteSet(S)
    PROVE  /\ Ascending(S) \in Seq(S) /\ Len(Ascending(S)) = Cardinality(S)
           /\ Cardinality(S) \in Nat
           /\ \A i, j \in 1 .. Cardinality(S) : i < j => Ascending(S)[i] < Ascending(S)[j]
           /\ \A m \in S : \E i \in 1 .. Cardinality(S) : Ascending(S)[i] = m
<1> DEFINE key == [m \in S |-> m]
<1>1. key \in [S -> Int] /\ \A m \in S : key[m] = m
  OBVIOUS
<1>2. \A a, b \in S : Sooner(key, a, b) => a < b
  BY <1>1 DEF Sooner
<1>3. Ascending(S) = Sorted(S, key)
  BY DEF Ascending
<1> HIDE DEF key
<1>4. /\ Sorted(S, key) \in Seq(S) /\ Len(Sorted(S, key)) = Cardinality(S)
      /\ Cardinality(S) \in Nat
      /\ \A i, j \in 1 .. Cardinality(S) :
            i < j => Sooner(key, Sorted(S, key)[i], Sorted(S, key)[j])
      /\ \A m \in S : \E i \in 1 .. Cardinality(S) : Sorted(S, key)[i] = m
  BY <1>1, SortedSequence
<1>5. ASSUME NEW i \in 1 .. Cardinality(S) PROVE Sorted(S, key)[i] \in S
  BY <1>4
<1>6. QED
  BY <1>2, <1>3, <1>4, <1>5

(* A finite set of numbers has a greatest, and one of the smallest key.    *)
LEMMA GreatestOf ==
    ASSUME NEW S \in SUBSET Int, IsFiniteSet(S), S # {}
    PROVE  \E m \in S : \A n \in S : n <= m
<1> DEFINE N == Cardinality(S)
           s == Ascending(S)
<1>1. /\ s \in Seq(S) /\ Len(s) = N /\ N \in Nat
      /\ \A i, j \in 1 .. N : i < j => s[i] < s[j]
      /\ \A m \in S : \E i \in 1 .. N : s[i] = m
  BY AscendingSequence
<1> HIDE DEF N, s
<1>2. N \in 1 .. N
  <2>1. PICK m \in S : TRUE
    OBVIOUS
  <2>2. \E i \in 1 .. N : s[i] = m
    BY <1>1
  <2>3. \E i \in Int : 1 <= i /\ i <= N
    BY <1>1, <2>2
  <2>4. QED
    BY <1>1, <2>3
<1>3. s[N] \in S
  BY <1>1, <1>2
<1>4. ASSUME NEW n \in S PROVE n <= s[N]
  <2>1. PICK i \in 1 .. N : s[i] = n
    BY <1>1
  <2>2. (i < N /\ s[i] < s[N]) \/ i = N
    BY <1>1, <1>2
  <2>3. s[i] \in Int /\ s[N] \in Int
    BY <1>3, <2>1
  <2>4. QED
    BY <2>1, <2>2, <2>3
<1>5. QED
  BY <1>3, <1>4

LEMMA SmallestKey ==
    ASSUME NEW S \in SUBSET Int, IsFiniteSet(S), S # {}, NEW key, \A m \in S : key[m] \in Int
    PROVE  \E m \in S : \A n \in S : ~ (key[n] < key[m])
<1> DEFINE N == Cardinality(S)
           s == Sorted(S, key)
<1>1. /\ s \in Seq(S) /\ Len(s) = N /\ N \in Nat
      /\ \A i, j \in 1 .. N : i < j => Sooner(key, s[i], s[j])
      /\ \A m \in S : \E i \in 1 .. N : s[i] = m
  BY SortedSequence
<1> HIDE DEF N, s
<1>2. 1 \in 1 .. N
  <2>1. PICK m \in S : TRUE
    OBVIOUS
  <2>2. \E i \in 1 .. N : s[i] = m
    BY <1>1
  <2>3. \E i \in Int : 1 <= i /\ i <= N
    BY <1>1, <2>2
  <2>4. QED
    BY <1>1, <2>3
<1>3. s[1] \in S
  BY <1>1, <1>2
<1>4. ASSUME NEW n \in S PROVE ~ (key[n] < key[s[1]])
  <2>1. PICK i \in 1 .. N : s[i] = n
    BY <1>1
  <2>2. 1 < i \/ i = 1
    BY <1>1
  <2>3. Sooner(key, s[1], n) \/ s[1] = n
    BY <1>1, <1>2, <2>1, <2>2
  <2>4. key[n] \in Int /\ key[s[1]] \in Int
    BY <1>3
  <2>5. QED
    BY <2>3, <2>4 DEF Sooner
<1>5. QED
  BY <1>3, <1>4

(* Keeping a part of a sequence: the places that stay are in order, and    *)
(* every entry of the part stays.                                          *)
LEMMA KeptSequence ==
    ASSUME NEW T, NEW s \in Seq(T), NEW S
    PROVE  /\ Keep(s, S) \in Seq(T)
           /\ \A k \in DOMAIN Keep(s, S) : Keep(s, S)[k] \in S
           /\ \E at \in [DOMAIN Keep(s, S) -> DOMAIN s] :
                 /\ \A k \in DOMAIN Keep(s, S) : Keep(s, S)[k] = s[at[k]]
                 /\ \A i, j \in DOMAIN Keep(s, S) : i < j => at[i] < at[j]
                 /\ \A n \in DOMAIN s : s[n] \in S => \E k \in DOMAIN Keep(s, S) : at[k] = n
<1> DEFINE D == {k \in DOMAIN s : s[k] \in S}
           at == Ascending(D)
<1>1. D \in SUBSET Int /\ IsFiniteSet(D)
  <2>1. DOMAIN s = 1 .. Len(s) /\ Len(s) \in Nat
    OBVIOUS
  <2>2. IsFiniteSet(1 .. Len(s))
    BY <2>1, FS_Interval
  <2>3. QED
    BY <2>1, <2>2, FS_Subset
<1>2. Keep(s, S) = [k \in DOMAIN at |-> s[at[k]]]
  BY DEF Keep
<1>3. /\ at \in Seq(D) /\ Len(at) = Cardinality(D) /\ Cardinality(D) \in Nat
      /\ \A i, j \in 1 .. Cardinality(D) : i < j => at[i] < at[j]
      /\ \A m \in D : \E i \in 1 .. Cardinality(D) : at[i] = m
  <2> HIDE DEF D
  <2>1. QED
    BY <1>1, AscendingSequence
<1> HIDE DEF at
<1>4. DOMAIN at = 1 .. Cardinality(D) /\ \A k \in DOMAIN at : at[k] \in D
  <2> HIDE DEF D
  <2>1. QED
    BY <1>3
<1>5. \A k \in DOMAIN at : s[at[k]] \in T /\ s[at[k]] \in S /\ at[k] \in DOMAIN s
  BY <1>4
<1>6. Keep(s, S) \in [1 .. Cardinality(D) -> T]
  BY <1>2, <1>4, <1>5
<1>7. Keep(s, S) \in Seq(T) /\ DOMAIN Keep(s, S) = DOMAIN at
  <2> DEFINE kept == Keep(s, S)
             N == Cardinality(D)
  <2>1. kept \in [1 .. N -> T] /\ N \in Nat /\ DOMAIN at = 1 .. N
    BY <1>3, <1>4, <1>6
  <2> HIDE DEF kept, N
  <2>2. kept \in Seq(T) /\ DOMAIN kept = DOMAIN at
    BY <2>1
  <2>3. QED
    BY <2>2 DEF kept
<1>8. at \in [DOMAIN Keep(s, S) -> DOMAIN s]
  BY <1>3, <1>4, <1>5, <1>7
<1>9. QED
  BY <1>2, <1>3, <1>4, <1>5, <1>7, <1>8

(* The entries of a sequence are its first one and those of its tail.      *)
LEMMA TailOf ==
    ASSUME NEW T, NEW s \in Seq(T), s # << >>
    PROVE  /\ Tail(s) \in Seq(T) /\ s[1] \in T /\ 1 \in DOMAIN s
           /\ \A k \in DOMAIN Tail(s) : k + 1 \in DOMAIN s /\ Tail(s)[k] = s[k + 1]
           /\ \A k \in DOMAIN s : k = 1 \/ (k - 1 \in DOMAIN Tail(s) /\ s[k] = Tail(s)[k - 1])
           /\ \A j, k \in DOMAIN Tail(s) : j + 1 = k + 1 => j = k
           /\ Range(s) = {s[1]} \cup Range(Tail(s))
<1>1. Len(s) \in Nat \ {0} /\ DOMAIN s = 1 .. Len(s)
  OBVIOUS
<1>2. Tail(s) \in Seq(T) /\ Len(Tail(s)) = Len(s) - 1 /\ DOMAIN Tail(s) = 1 .. Len(s) - 1
  BY <1>1
<1>3. \A k \in 1 .. Len(s) - 1 : Tail(s)[k] = s[k + 1]
  BY <1>1
<1>4. \A k \in DOMAIN Tail(s) : k + 1 \in DOMAIN s /\ Tail(s)[k] = s[k + 1]
  BY <1>1, <1>2, <1>3
<1>5. \A k \in DOMAIN s : k = 1 \/ (k - 1 \in DOMAIN Tail(s) /\ s[k] = Tail(s)[k - 1])
  BY <1>1, <1>2, <1>3
<1>6. 1 \in DOMAIN s /\ s[1] \in T
  BY <1>1
<1>7. Range(s) = {s[1]} \cup Range(Tail(s))
  <2>1. ASSUME NEW x \in Range(s) PROVE x \in {s[1]} \cup Range(Tail(s))
    <3>1. PICK k \in DOMAIN s : x = s[k]
      BY <2>1 DEF Range
    <3>2. CASE k = 1
      BY <3>1, <3>2
    <3>3. CASE k - 1 \in DOMAIN Tail(s) /\ s[k] = Tail(s)[k - 1]
      BY <3>1, <3>3 DEF Range
    <3>4. QED
      BY <1>5, <3>2, <3>3
  <2>2. ASSUME NEW x \in {s[1]} \cup Range(Tail(s)) PROVE x \in Range(s)
    BY <1>4, <1>6, <2>2 DEF Range
  <2>3. QED
    BY <2>1, <2>2
<1>8. \A j, k \in DOMAIN Tail(s) : j + 1 = k + 1 => j = k
  BY <1>2
<1>9. QED
  BY <1>2, <1>4, <1>5, <1>6, <1>7, <1>8

(* A sorted set as a list: every element in one place.                     *)
LEMMA SortedOnce ==
    ASSUME NEW S \in SUBSET Int, IsFiniteSet(S), NEW key, \A m \in S : key[m] \in Int
    PROVE  /\ Sorted(S, key) \in Seq(S)
           /\ \A k \in DOMAIN Sorted(S, key) : Sorted(S, key)[k] \in S
           /\ \A j, k \in DOMAIN Sorted(S, key) :
                 Sorted(S, key)[j] = Sorted(S, key)[k] => j = k
           /\ Range(Sorted(S, key)) = S
           /\ S = {} => Sorted(S, key) = << >>
<1> DEFINE N == Cardinality(S)
           s == Sorted(S, key)
<1>1. /\ s \in Seq(S) /\ Len(s) = N /\ N \in Nat
      /\ \A i, j \in 1 .. N : i < j => Sooner(key, s[i], s[j])
      /\ \A m \in S : \E i \in 1 .. N : s[i] = m
  BY SortedSequence
<1>2. S = {} => N = 0
  BY FS_EmptySet
<1> HIDE DEF N, s
<1>3. DOMAIN s = 1 .. N /\ \A k \in DOMAIN s : s[k] \in S
  BY <1>1
<1>4. ASSUME NEW j \in DOMAIN s, NEW k \in DOMAIN s, j # k PROVE s[j] # s[k]
  <2>1. j < k \/ k < j
    BY <1>1, <1>3, <1>4
  <2>2. Sooner(key, s[j], s[k]) \/ Sooner(key, s[k], s[j])
    BY <1>1, <1>3, <2>1
  <2>3. QED
    BY <1>3, <2>2, SoonerIsLinear
<1>5. Range(s) = S
  BY <1>1, <1>3 DEF Range
<1>6. S = {} => s = << >>
  BY <1>1, <1>2
<1>7. QED
  BY <1>1, <1>3, <1>4, <1>5, <1>6 DEF s

LEMMA AscendingOnce ==
    ASSUME NEW S \in SUBSET Int, IsFiniteSet(S)
    PROVE  /\ Ascending(S) \in Seq(S)
           /\ \A k \in DOMAIN Ascending(S) : Ascending(S)[k] \in S
           /\ \A j, k \in DOMAIN Ascending(S) : Ascending(S)[j] = Ascending(S)[k] => j = k
           /\ Range(Ascending(S)) = S
           /\ S = {} => Ascending(S) = << >>
<1> DEFINE key == [m \in S |-> m]
<1>1. \A m \in S : key[m] \in Int
  OBVIOUS
<1>2. Ascending(S) = Sorted(S, key)
  BY DEF Ascending
<1> HIDE DEF key
<1>3. QED
  BY <1>1, <1>2, SortedOnce

(* Keeping a part of a list without repetitions.                           *)
LEMMA KeptOnce ==
    ASSUME NEW T, NEW s \in Seq(T), NEW S
    PROVE  /\ Keep(s, S) \in Seq(T)
           /\ \A k \in DOMAIN Keep(s, S) : Keep(s, S)[k] \in S
           /\ Range(Keep(s, S)) = Range(s) \cap S
           /\ (\A j, k \in DOMAIN s : s[j] = s[k] => j = k) =>
                 \A j, k \in DOMAIN Keep(s, S) : Keep(s, S)[j] = Keep(s, S)[k] => j = k
<1> DEFINE t == Keep(s, S)
<1>1. /\ t \in Seq(T) /\ \A k \in DOMAIN t : t[k] \in S
      /\ \E at \in [DOMAIN t -> DOMAIN s] :
            /\ \A k \in DOMAIN t : t[k] = s[at[k]]
            /\ \A i, j \in DOMAIN t : i < j => at[i] < at[j]
            /\ \A n \in DOMAIN s : s[n] \in S => \E k \in DOMAIN t : at[k] = n
  BY KeptSequence
<1> HIDE DEF t
<1>2. PICK at \in [DOMAIN t -> DOMAIN s] :
            /\ \A k \in DOMAIN t : t[k] = s[at[k]]
            /\ \A i, j \in DOMAIN t : i < j => at[i] < at[j]
            /\ \A n \in DOMAIN s : s[n] \in S => \E k \in DOMAIN t : at[k] = n
  BY <1>1
<1>3. DOMAIN t \in SUBSET Int /\ DOMAIN s \in SUBSET Int
  BY <1>1
<1>4. ASSUME NEW j \in DOMAIN t, NEW k \in DOMAIN t, j # k PROVE at[j] # at[k]
  <2>1. j < k \/ k < j
    BY <1>3, <1>4
  <2>2. at[j] \in Int /\ at[k] \in Int
    BY <1>2, <1>3
  <2>3. QED
    BY <1>2, <2>1, <2>2
<1>5. Range(t) = Range(s) \cap S
  <2>1. ASSUME NEW x \in Range(t) PROVE x \in Range(s) \cap S
    BY <1>1, <1>2, <2>1 DEF Range
  <2>2. ASSUME NEW x \in Range(s), x \in S PROVE x \in Range(t)
    <3>1. PICK n \in DOMAIN s : s[n] = x
      BY DEF Range
    <3>2. PICK k \in DOMAIN t : at[k] = n
      BY <1>2, <2>2, <3>1
    <3>3. t[k] = x
      BY <1>2, <3>1, <3>2
    <3>4. QED
      BY <3>3 DEF Range
  <2>3. QED
    BY <2>1, <2>2
<1>6. QED
  BY <1>1, <1>2, <1>4, <1>5 DEF t

(* The rest of a sequence from one of its places on.                       *)
LEMMA RestFrom ==
    ASSUME NEW T, NEW s \in Seq(T), NEW k \in DOMAIN s
    PROVE  /\ SubSeq(s, k, Len(s)) \in Seq(T)
           /\ SubSeq(s, k, Len(s)) # << >> /\ SubSeq(s, k, Len(s))[1] = s[k]
<1>1. k \in Int /\ Len(s) \in Int /\ 1 <= k /\ k <= Len(s) /\ \A i \in k .. Len(s) : s[i] \in T
  OBVIOUS
<1>2. /\ SubSeq(s, k, Len(s)) \in Seq(T)
      /\ Len(SubSeq(s, k, Len(s))) = IF k <= Len(s) THEN Len(s) - k + 1 ELSE 0
      /\ \A i \in 1 .. Len(s) - k + 1 : SubSeq(s, k, Len(s))[i] = s[k + i - 1]
  BY <1>1, SubSeqProperties
<1> DEFINE t == SubSeq(s, k, Len(s))
<1> HIDE DEF t
<1>3. t \in Seq(T) /\ Len(t) = Len(s) - k + 1 /\ \A i \in 1 .. Len(s) - k + 1 : t[i] = s[k + i - 1]
  BY <1>1, <1>2 DEF t
<1>4. 1 \in 1 .. Len(s) - k + 1 /\ k + 1 - 1 = k /\ Len(t) # 0
  BY <1>1, <1>3
<1>5. t[1] = s[k + 1 - 1]
  BY <1>3, <1>4
<1>6. t # << >>
  BY <1>3, <1>4
<1>7. QED
  BY <1>3, <1>4, <1>5, <1>6 DEF t

(* One list behind the other.                                              *)
LEMMA Appended ==
    ASSUME NEW T, NEW s \in Seq(T), NEW t \in Seq(T)
    PROVE  /\ s \o t \in Seq(T) /\ DOMAIN s \in SUBSET DOMAIN (s \o t)
           /\ Len(s) <= Len(s \o t)
           /\ \A k \in DOMAIN s : (s \o t)[k] = s[k] /\ k <= Len(s) /\ k \in Nat
           /\ \A k \in DOMAIN (s \o t) :
                 \/ k \in DOMAIN s
                 \/ /\ k \in Nat /\ k > Len(s) /\ k - Len(s) \in DOMAIN t
                    /\ (s \o t)[k] = t[k - Len(s)]
           /\ \A j, k \in DOMAIN (s \o t) : j - Len(s) = k - Len(s) => j = k
           /\ Range(s \o t) = Range(s) \cup Range(t)
<1>1. /\ s \o t \in Seq(T) /\ Len(s \o t) = Len(s) + Len(t) /\ Len(s) \in Nat /\ Len(t) \in Nat
      /\ \A k \in 1 .. Len(s) + Len(t) :
            (s \o t)[k] = IF k <= Len(s) THEN s[k] ELSE t[k - Len(s)]
  OBVIOUS
<1>2. /\ DOMAIN s = 1 .. Len(s) /\ DOMAIN t = 1 .. Len(t)
      /\ DOMAIN (s \o t) = 1 .. Len(s) + Len(t)
  BY <1>1
<1>3. /\ DOMAIN s \in SUBSET DOMAIN (s \o t) /\ Len(s) <= Len(s \o t)
      /\ \A k \in DOMAIN s : (s \o t)[k] = s[k] /\ k <= Len(s) /\ k \in Nat
  BY <1>1, <1>2
<1>4. \A k \in DOMAIN (s \o t) :
         \/ k \in DOMAIN s
         \/ /\ k \in Nat /\ k > Len(s) /\ k - Len(s) \in DOMAIN t
            /\ (s \o t)[k] = t[k - Len(s)]
  BY <1>1, <1>2
<1>5. \A k \in DOMAIN t : k + Len(s) \in DOMAIN (s \o t) /\ (s \o t)[k + Len(s)] = t[k]
  BY <1>1, <1>2
<1>6. Range(s \o t) = Range(s) \cup Range(t)
  <2>1. ASSUME NEW x \in Range(s \o t) PROVE x \in Range(s) \cup Range(t)
    <3>1. PICK k \in DOMAIN (s \o t) : (s \o t)[k] = x
      BY DEF Range
    <3>2. CASE k \in DOMAIN s
      BY <1>3, <3>1, <3>2 DEF Range
    <3>3. CASE k - Len(s) \in DOMAIN t /\ (s \o t)[k] = t[k - Len(s)]
      BY <3>1, <3>3 DEF Range
    <3>4. QED
      BY <1>4, <3>2, <3>3
  <2>2. ASSUME NEW x \in Range(s) PROVE x \in Range(s \o t)
    BY <1>3 DEF Range
  <2>3. ASSUME NEW x \in Range(t) PROVE x \in Range(s \o t)
    <3>1. PICK k \in DOMAIN t : t[k] = x
      BY DEF Range
    <3>2. QED
      BY <1>5, <3>1 DEF Range
  <2>4. QED
    BY <2>1, <2>2, <2>3
<1>7. \A j, k \in DOMAIN (s \o t) : j - Len(s) = k - Len(s) => j = k
  BY <1>1, <1>2
<1>8. QED
  BY <1>1, <1>3, <1>4, <1>6, <1>7
=============================================================================
