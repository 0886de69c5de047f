-------------------------- MODULE IngestRouteProofs --------------------------
(***************************************************************************)
(* Proofs about IngestRoute: the limiter, the replay cache and the         *)
(* handlers, for any number of clients, events, requests under way and     *)
(* handlers, any rule and any size of the two stores.                      *)
(***************************************************************************)
EXTENDS IngestRoute, FiniteSetTheorems, SequenceTheorems, TLAPS

-----------------------------------------------------------------------------
(* The operators of the stores                                             *)

\* The positions before i in K, and after it, are finitely many; a later position of K has
\* more before it.
LEMMA RankType ==
  ASSUME NEW n \in Nat, NEW K \in SUBSET (1..n)
  PROVE  /\ IsFiniteSet(K) /\ Cardinality(K) \in Nat /\ Cardinality(K) <= n
         /\ \A i \in K : Rank(K, i) \in 0..Cardinality(K) - 1
         /\ \A i, j \in K : i < j => Rank(K, i) < Rank(K, j)
<1>1. IsFiniteSet(1..n) /\ Cardinality(1..n) = n
  BY FS_Interval
<1>2. IsFiniteSet(K) /\ Cardinality(K) \in Nat /\ Cardinality(K) <= n
  BY <1>1, FS_Subset, FS_CardinalityType
<1>3. ASSUME NEW T \in SUBSET K
      PROVE  IsFiniteSet(T) /\ Cardinality(T) \in Nat /\ Cardinality(T) <= Cardinality(K)
  BY <1>2, FS_Subset, FS_CardinalityType
<1>4. ASSUME NEW T \in SUBSET K, NEW i \in K, {j \in K : j < i} \cup {i} \subseteq T
      PROVE  Rank(K, i) < Cardinality(T)
  <2> DEFINE B == {j \in K : j < i}
  <2>1. IsFiniteSet(B) /\ Cardinality(B) \in Nat /\ i \notin B
    BY <1>3
  <2>2. Cardinality(B \cup {i}) = Cardinality(B) + 1
    BY <2>1, FS_AddElement
  <2>3. IsFiniteSet(T) /\ Cardinality(T) \in Nat /\ B \cup {i} \in SUBSET T
    BY <1>3, <1>4
  <2>4. Cardinality(B \cup {i}) <= Cardinality(T)
    BY <2>3, FS_Subset
  <2> HIDE DEF B
  <2>5. Cardinality(B) < Cardinality(T)
    BY <2>1, <2>2, <2>3, <2>4
  <2> QED
    BY <2>5 DEF Rank, B
<1>5. \A i \in K : Rank(K, i) \in 0..Cardinality(K) - 1
  <2> TAKE i \in K
  <2>1. Rank(K, i) < Cardinality(K)
    BY <1>4
  <2>2. Rank(K, i) \in Nat
    BY <1>3 DEF Rank
  <2> QED
    BY <1>2, <2>1, <2>2
<1>6. \A i, j \in K : i < j => Rank(K, i) < Rank(K, j)
  <2> SUFFICES ASSUME NEW i \in K, NEW j \in K, i < j PROVE Rank(K, i) < Rank(K, j)
    OBVIOUS
  <2>0. \A k \in K : k \in Nat
    OBVIOUS
  <2>1. {k \in K : k < i} \cup {i} \subseteq {k \in K : k < j}
    <3> SUFFICES ASSUME NEW k \in K, k < i \/ k = i PROVE k < j
      OBVIOUS
    <3>1. k \in Nat /\ i \in Nat /\ j \in Nat
      BY <2>0
    <3> QED
      BY <3>1
  <2>2. Rank(K, i) < Cardinality({k \in K : k < j})
    BY <1>4, <2>1
  <2> QED
    BY <2>2 DEF Rank
<1> QED
  BY <1>2, <1>5, <1>6

\* The positions of K have the ranks 0, 1, ... up to their number, each rank once.
LEMMA RankOnto ==
  ASSUME NEW n \in Nat, NEW K \in SUBSET (1..n)
  PROVE  /\ \A i, j \in K : Rank(K, i) = Rank(K, j) => i = j
         /\ \A m \in 0..Cardinality(K) - 1 : \E i \in K : Rank(K, i) = m
<1> DEFINE c == Cardinality(K)
           r == [i \in K |-> Rank(K, i)]
<1>1. /\ IsFiniteSet(K) /\ c \in Nat
      /\ \A i \in K : Rank(K, i) \in 0..c - 1
      /\ \A i, j \in K : i < j => Rank(K, i) < Rank(K, j)
  BY RankType
<1>2. \A i, j \in K : Rank(K, i) = Rank(K, j) => i = j
  <2> SUFFICES ASSUME NEW i \in K, NEW j \in K, i # j PROVE Rank(K, i) # Rank(K, j)
    OBVIOUS
  <2>1. i < j \/ j < i
    OBVIOUS
  <2> QED
    BY <1>1, <2>1
<1>3. \A i \in K : r[i] = Rank(K, i)
  OBVIOUS
<1> HIDE DEF c, r
<1>4. r \in [K -> 0..c - 1] /\ \A i, j \in K : r[i] = r[j] => i = j
  <2>1. \A i \in K : r[i] \in 0..c - 1
    BY <1>1, <1>3
  <2> QED
    BY <1>2, <1>3, <2>1 DEF r
<1>5. r \in Injection(K, 0..c - 1)
  BY <1>4 DEF Injection, IsInjective
<1>6. r \in Surjection(K, 0..c - 1)
  <2>1. IsFiniteSet(0..c - 1) /\ Cardinality(0..c - 1) = c
    BY <1>1, FS_Interval
  <2> QED
    BY <1>5, <2>1, FS_Injection DEF c
<1> QED
  BY <1>2, <1>3, <1>6 DEF Surjection, c

\* A set of positions that is not empty has a least one.
LEMMA LeastPosition ==
  ASSUME NEW n \in Nat, NEW K \in SUBSET (1..n), K # {}
  PROVE  \E i \in K : \A j \in K : i <= j
<1>1. IsFiniteSet(K) /\ Cardinality(K) \in Nat
  BY RankType
<1>2. Cardinality(K) # 0
  BY <1>1, FS_EmptySet
<1>3. PICK i \in K : Rank(K, i) = 0
  <2>1. 0 \in 0..Cardinality(K) - 1
    BY <1>1, <1>2
  <2> QED
    BY <2>1, RankOnto
<1>4. {j \in K : j < i} = {}
  <2>1. IsFiniteSet({j \in K : j < i})
    BY <1>1, FS_Subset
  <2> QED
    BY <1>3, <2>1, FS_EmptySet DEF Rank
<1> QED
  BY <1>4

\* Only(s, K) holds exactly the elements of s at the positions in K, one for each.
LEMMA OnlyKeeps ==
  ASSUME NEW S, NEW s \in Seq(S), NEW K \in SUBSET (1..Len(s))
  PROVE  /\ Only(s, K) \in Seq(S) /\ Len(Only(s, K)) = Cardinality(K)
         /\ \E f \in [1..Cardinality(K) -> K] :
              /\ \A n \in 1..Cardinality(K) : Only(s, K)[n] = s[f[n]]
              /\ \A n, m \in 1..Cardinality(K) : f[n] = f[m] => n = m
              /\ \A i \in K : \E n \in 1..Cardinality(K) : f[n] = i
<1> DEFINE c == Cardinality(K)
           f == [n \in 1..c |-> CHOOSE i \in K : Rank(K, i) = n - 1]
<1>1. Len(s) \in Nat /\ \A i \in 1..Len(s) : s[i] \in S
  OBVIOUS
<1>2. /\ c \in Nat
      /\ \A i \in K : Rank(K, i) \in 0..c - 1
      /\ \A i, j \in K : Rank(K, i) = Rank(K, j) => i = j
      /\ \A m \in 0..c - 1 : \E i \in K : Rank(K, i) = m
  BY <1>1, RankType, RankOnto
<1> HIDE DEF c
<1>3. \A n \in 1..c : f[n] \in K /\ Rank(K, f[n]) = n - 1
  <2> TAKE n \in 1..c
  <2>1. n - 1 \in 0..c - 1
    BY <1>2
  <2>2. \E i \in K : Rank(K, i) = n - 1
    BY <1>2, <2>1
  <2> QED
    BY <2>2
<1>4. \A i \in K : \E n \in 1..c : f[n] = i
  <2> TAKE i \in K
  <2>1. Rank(K, i) + 1 \in 1..c
    BY <1>2
  <2>2. Rank(K, f[Rank(K, i) + 1]) = Rank(K, i) /\ f[Rank(K, i) + 1] \in K
    BY <1>2, <1>3, <2>1
  <2> QED
    BY <1>2, <2>1, <2>2
<1>5. \A n, m \in 1..c : f[n] = f[m] => n = m
  <2> SUFFICES ASSUME NEW n \in 1..c, NEW m \in 1..c, f[n] = f[m] PROVE n = m
    OBVIOUS
  <2>1. n - 1 = m - 1
    BY <1>3
  <2> QED
    BY <1>2, <2>1
<1>6. f \in [1..c -> K]
  BY <1>3
<1>7. Only(s, K) = [n \in 1..c |-> s[f[n]]]
  BY DEF Only, c
<1> HIDE DEF f
<1>8. \A n \in 1..c : s[f[n]] \in S
  BY <1>1, <1>6
<1>9. Only(s, K) \in Seq(S) /\ Len(Only(s, K)) = c
  BY <1>2, <1>7, <1>8
<1>10. \A n \in 1..c : Only(s, K)[n] = s[f[n]]
  BY <1>7
<1> QED
  BY <1>4, <1>5, <1>6, <1>9, <1>10 DEF c

\* Eviction keeps the store within its bound and repeats no counter; while no more than
\* MaxBuckets counters are alive it loses none of them.
LEMMA EvictKeeps ==
  ASSUME NEW s \in Seq(Bucket)
  PROVE  /\ Evict(s) \in Seq(Bucket)
         /\ Len(Evict(s)) <= MaxBuckets
         /\ \E f \in [1..Len(Evict(s)) -> 1..Len(s)] :
              /\ \A n \in 1..Len(Evict(s)) : Evict(s)[n] = s[f[n]]
              /\ \A n, m \in 1..Len(Evict(s)) : f[n] = f[m] => n = m
         /\ Lives(s) <= MaxBuckets =>
              \A i \in Alive(s) : \E n \in 1..Len(Evict(s)) : Evict(s)[n] = s[i]
<1> DEFINE K == Kept(s)
<1>1. Len(s) \in Nat /\ K \in SUBSET (1..Len(s)) /\ Alive(s) \in SUBSET (1..Len(s))
  BY DEF Kept, Alive
<1>2. /\ Evict(s) \in Seq(Bucket) /\ Len(Evict(s)) = Cardinality(K)
      /\ \E f \in [1..Cardinality(K) -> K] :
           /\ \A n \in 1..Cardinality(K) : Evict(s)[n] = s[f[n]]
           /\ \A n, m \in 1..Cardinality(K) : f[n] = f[m] => n = m
           /\ \A i \in K : \E n \in 1..Cardinality(K) : f[n] = i
  <2>1. Evict(s) = Only(s, K)
    BY DEF Evict
  <2>2. K \in SUBSET (1..Len(s))
    BY <1>1
  <2> HIDE DEF K
  <2> QED
    <3>1. /\ Only(s, K) \in Seq(Bucket) /\ Len(Only(s, K)) = Cardinality(K)
          /\ \E f \in [1..Cardinality(K) -> K] :
               /\ \A n \in 1..Cardinality(K) : Only(s, K)[n] = s[f[n]]
               /\ \A n, m \in 1..Cardinality(K) : f[n] = f[m] => n = m
               /\ \A i \in K : \E n \in 1..Cardinality(K) : f[n] = i
      BY <2>2, OnlyKeeps
    <3> QED
      BY <2>1, <3>1
<1>3. /\ IsFiniteSet(Alive(s)) /\ Lives(s) \in Nat
      /\ IsFiniteSet(K) /\ Cardinality(K) \in Nat /\ Cardinality(K) <= Len(s)
  BY <1>1, RankType DEF Lives
<1>4. Cardinality(K) <= MaxBuckets
  <2>1. CASE Len(s) <= MaxBuckets
    BY <1>1, <1>3, <2>1, LimiterAssumption
  <2>2. CASE Len(s) > MaxBuckets
    <3> DEFINE After(i) == {j \in Alive(s) : j > i}
               g == [i \in K |-> Cardinality(After(i))]
    <3>1. K = {i \in Alive(s) : Cardinality(After(i)) < MaxBuckets}
      BY <2>2 DEF Kept
    <3>2. \A i \in K : IsFiniteSet(After(i)) /\ Cardinality(After(i)) \in Nat
      <4> TAKE i \in K
      <4>1. After(i) \in SUBSET Alive(s)
        OBVIOUS
      <4> HIDE DEF After
      <4> QED
        BY <1>3, <4>1, FS_Subset, FS_CardinalityType
    <3>3. \A i \in K : g[i] \in 0..MaxBuckets - 1
      <4> TAKE i \in K
      <4>1. Cardinality(After(i)) < MaxBuckets /\ Cardinality(After(i)) \in Nat
        BY <3>1, <3>2
      <4> HIDE DEF After
      <4> QED
        BY <4>1, LimiterAssumption
    <3>4. \A i, j \in K : i < j => g[j] < g[i]
      <4> SUFFICES ASSUME NEW i \in K, NEW j \in K, i < j PROVE g[j] < g[i]
        OBVIOUS
      <4>1. i \in Alive(s) /\ j \in Alive(s) /\ j \notin After(j)
        BY <1>1, <3>1
      <4>2. After(j) \cup {j} \subseteq After(i)
        BY <1>1, <4>1
      <4>3. /\ IsFiniteSet(After(i)) /\ Cardinality(After(i)) \in Nat
            /\ IsFiniteSet(After(j)) /\ Cardinality(After(j)) \in Nat
        BY <3>2
      <4> HIDE DEF After
      <4>4. Cardinality(After(j) \cup {j}) = Cardinality(After(j)) + 1
        BY <4>1, <4>3, FS_AddElement
      <4>5. Cardinality(After(j) \cup {j}) <= Cardinality(After(i))
        BY <4>2, <4>3, FS_Subset
      <4> QED
        BY <4>3, <4>4, <4>5
    <3>5. g \in Injection(K, 0..MaxBuckets - 1)
      <4>1. \A i, j \in K : g[i] = g[j] => i = j
        <5> SUFFICES ASSUME NEW i \in K, NEW j \in K, i # j PROVE g[i] # g[j]
          OBVIOUS
        <5>1. i < j \/ j < i
          BY <1>1
        <5> HIDE DEF g
        <5> QED
          BY <3>3, <3>4, <5>1
      <4> QED
        BY <3>3, <4>1 DEF Injection, IsInjective
    <3>6. IsFiniteSet(0..MaxBuckets - 1) /\ Cardinality(0..MaxBuckets - 1) = MaxBuckets
      BY FS_Interval, LimiterAssumption
    <3> HIDE DEF g, K
    <3> QED
      BY <3>5, <3>6, FS_Injection
  <2> QED
    BY <1>1, <2>1, <2>2, LimiterAssumption
<1>5. Lives(s) <= MaxBuckets => Alive(s) \subseteq K
  <2> SUFFICES ASSUME Lives(s) <= MaxBuckets, NEW i \in Alive(s) PROVE i \in K
    OBVIOUS
  <2> DEFINE After == {j \in Alive(s) : j > i}
  <2>1. CASE Len(s) <= MaxBuckets
    BY <1>1, <2>1, LimiterAssumption DEF Kept
  <2>2. CASE Len(s) > MaxBuckets
    <3>1. After \cup {i} \subseteq Alive(s) /\ i \notin After /\ After \in SUBSET Alive(s)
      BY <1>1
    <3> HIDE DEF After
    <3>2. IsFiniteSet(After) /\ Cardinality(After) \in Nat
      BY <1>3, <3>1, FS_Subset, FS_CardinalityType
    <3>3. Cardinality(After \cup {i}) = Cardinality(After) + 1
      BY <3>1, <3>2, FS_AddElement
    <3>4. Cardinality(After \cup {i}) <= Lives(s)
      BY <1>3, <3>1, FS_Subset DEF Lives
    <3>5. Cardinality(After) < MaxBuckets
      BY <1>3, <3>2, <3>3, <3>4, LimiterAssumption
    <3> QED
      BY <2>2, <3>5 DEF Kept, After
  <2> QED
    BY <1>1, <2>1, <2>2, LimiterAssumption
<1> HIDE DEF K
<1>6. PICK f \in [1..Cardinality(K) -> K] :
        /\ \A n \in 1..Cardinality(K) : Evict(s)[n] = s[f[n]]
        /\ \A n, m \in 1..Cardinality(K) : f[n] = f[m] => n = m
        /\ \A i \in K : \E n \in 1..Cardinality(K) : f[n] = i
  BY <1>2
<1>7. f \in [1..Len(Evict(s)) -> 1..Len(s)]
  BY <1>1, <1>2
<1>8. ASSUME Lives(s) <= MaxBuckets, NEW i \in Alive(s)
      PROVE  \E n \in 1..Len(Evict(s)) : Evict(s)[n] = s[i]
  BY <1>2, <1>5, <1>6, <1>8
<1> QED
  BY <1>2, <1>4, <1>6, <1>7, <1>8

-----------------------------------------------------------------------------
(* The limiter                                                             *)

LEMMA LimiterInitInv == LimiterInit => LimiterInv
<1> SUFFICES ASSUME LimiterInit PROVE LimiterInv
  OBVIOUS
<1>1. buckets \in Seq(Bucket) /\ Len(buckets) = 0
  BY DEF LimiterInit
<1>2. LimiterType
  BY <1>1, LimiterAssumption DEF LimiterInit, LimiterType
<1> QED
  BY <1>1, <1>2, LimiterAssumption DEF LimiterInit, LimiterInv, OneCounter, OutlivesWindow

\* Counting a request of k leaves one counter to a key, takes nothing off another key's
\* counter, and k's own stands at the count the request was judged by.
LEMMA CountedSound ==
  ASSUME LimiterInv, NEW k \in Clients
  PROVE  /\ Counted(k) \in Seq(Bucket)
         /\ OneCounter(Counted(k)) /\ OutlivesWindow(Counted(k))
         /\ \A x \in Clients, n \in Nat :
              HasCount(buckets, x, n) => HasCount(Counted(k), x, n)
         /\ Count(k) \in Nat \ {0}
         /\ Count(k) <= Limit => HasCount(Counted(k), k, Count(k))
         /\ \A n \in Nat : HasCount(buckets, k, n) => n < Count(k)
<1> USE LimiterAssumption
<1>1. /\ buckets \in Seq(Bucket) /\ Len(buckets) \in Nat /\ phase \in 0..Window - 1
      /\ \A i \in 1..Len(buckets) : /\ buckets[i] \in Bucket /\ buckets[i].count \in Nat
                                    /\ buckets[i].ttl \in Nat
      /\ OneCounter(buckets) /\ OutlivesWindow(buckets)
  <2>1. /\ buckets \in Seq(Bucket) /\ Len(buckets) \in Nat /\ phase \in 0..Window - 1
        /\ OneCounter(buckets) /\ OutlivesWindow(buckets)
    BY DEF LimiterInv, LimiterType
  <2>2. \A i \in 1..Len(buckets) : buckets[i] \in Bucket
    BY <2>1
  <2> QED
    BY <2>1, <2>2 DEF Bucket
<1>2. Counter(k) = At(k)
  <2>1. \A i \in 1..Len(buckets) : buckets[i].running => buckets[i].ttl > 0
    BY <1>1 DEF OutlivesWindow
  <2> QED
    BY <2>1 DEF Counter, At, IsBucket, Unexpired
<1>3. CASE At(k) = {}
  <2>1. Counted(k) = Append(buckets, Fresh(k)) /\ Count(k) = 1
    BY <1>2, <1>3 DEF Counted, Count
  <2>2. Fresh(k) \in Bucket
    BY DEF Fresh, Bucket
  <2> DEFINE s == Counted(k)
  <2>3. /\ s \in Seq(Bucket) /\ Len(s) = Len(buckets) + 1
        /\ \A i \in 1..Len(buckets) : s[i] = buckets[i]
        /\ s[Len(s)] = Fresh(k)
    BY <1>1, <2>1, <2>2, AppendProperties
  <2> HIDE DEF s
  <2>4. \A i \in 1..Len(buckets) : ~(buckets[i].key = k /\ buckets[i].running)
    BY <1>3 DEF At, IsBucket
  <2>5. \A i \in 1..Len(s) : i \in 1..Len(buckets) \/ i = Len(s)
    BY <1>1, <2>3
  <2>6. OneCounter(s)
    BY <1>1, <2>3, <2>4, <2>5 DEF OneCounter, Fresh
  <2>7. OutlivesWindow(s)
    BY <1>1, <2>3, <2>5 DEF OutlivesWindow, Fresh
  <2>8. ASSUME NEW x \in Clients, NEW n \in Nat, HasCount(buckets, x, n) PROVE HasCount(s, x, n)
    BY <1>1, <2>3, <2>8 DEF HasCount
  <2>9. HasCount(s, k, 1)
    BY <1>1, <2>3 DEF HasCount, Fresh
  <2>10. \A n \in Nat : ~HasCount(buckets, k, n)
    BY <2>4 DEF HasCount
  <2> QED
    BY <2>1, <2>3, <2>6, <2>7, <2>8, <2>9, <2>10 DEF s
<1>4. CASE At(k) # {}
  <2>1. PICK c \in At(k) : TRUE
    BY <1>4
  <2>2. At(k) = {c} /\ c \in 1..Len(buckets) /\ buckets[c].key = k /\ buckets[c].running
    BY <1>1, <2>1 DEF At, IsBucket, OneCounter
  <2> DEFINE s == [i \in 1..Len(buckets) |->
                     IF i = c /\ buckets[i].count <= Limit
                       THEN [buckets[i] EXCEPT !.count = @ + 1] ELSE buckets[i]]
  <2>3. Counted(k) = s /\ Count(k) = buckets[c].count + 1
    BY <1>2, <2>2 DEF Counted, Count
  <2>4. \A i \in 1..Len(buckets) : /\ s[i] \in Bucket
                                   /\ s[i].key = buckets[i].key
                                   /\ s[i].running = buckets[i].running
                                   /\ s[i].ttl = buckets[i].ttl
                                   /\ s[i].count >= buckets[i].count
    <3> TAKE i \in 1..Len(buckets)
    <3>1. buckets[i] \in Bucket /\ buckets[i].count \in Nat
      BY <1>1
    <3>2. CASE i = c /\ buckets[i].count <= Limit
      <4>1. buckets[i].count + 1 \in 0..Limit + 1
        BY <3>1, <3>2
      <4>2. s[i] = [buckets[i] EXCEPT !.count = @ + 1]
        BY <3>2
      <4> HIDE DEF s
      <4> QED
        BY <3>1, <4>1, <4>2 DEF Bucket
    <3>3. CASE ~(i = c /\ buckets[i].count <= Limit)
      BY <3>1, <3>3
    <3> QED
      BY <3>2, <3>3
  <2>5. buckets[c].count <= Limit => s[c].count = buckets[c].count + 1
    BY <1>1, <2>2 DEF Bucket
  <2>6. s \in Seq(Bucket) /\ Len(s) = Len(buckets)
    BY <1>1, <2>4
  <2> HIDE DEF s
  <2>7. OneCounter(s) /\ OutlivesWindow(s)
    BY <1>1, <2>4, <2>6 DEF OneCounter, OutlivesWindow
  <2>8. ASSUME NEW x \in Clients, NEW n \in Nat, HasCount(buckets, x, n) PROVE HasCount(s, x, n)
    <3>1. PICK i \in 1..Len(buckets) :
            buckets[i].key = x /\ buckets[i].running /\ buckets[i].count >= n
      BY <2>8 DEF HasCount
    <3>2. s[i].count \in Nat /\ s[i].count >= n
      <4>1. s[i] \in Bucket /\ s[i].count >= buckets[i].count /\ buckets[i].count \in Nat
        BY <1>1, <2>4, <3>1
      <4>2. s[i].count \in Nat
        BY <4>1 DEF Bucket
      <4> QED
        BY <3>1, <4>1, <4>2
    <3> QED
      BY <2>4, <2>6, <3>1, <3>2 DEF HasCount
  <2>9. Count(k) <= Limit => HasCount(s, k, Count(k))
    BY <1>1, <2>2, <2>3, <2>4, <2>5, <2>6 DEF HasCount
  <2>10. ASSUME NEW n \in Nat, HasCount(buckets, k, n) PROVE n < Count(k)
    BY <1>1, <2>2, <2>3, <2>10 DEF HasCount, OneCounter
  <2> QED
    BY <1>1, <2>2, <2>3, <2>6, <2>7, <2>8, <2>9, <2>10
<1> QED
  BY <1>3, <1>4

\* Eviction loses the count of a key only when more than MaxBuckets counters are alive, and
\* then the key has no counter left.
LEMMA EvictSound ==
  ASSUME NEW s \in Seq(Bucket), OneCounter(s), OutlivesWindow(s), phase \in 0..Window - 1
  PROVE  /\ OneCounter(Evict(s)) /\ OutlivesWindow(Evict(s))
         /\ \A x \in Clients, n \in Nat :
              HasCount(s, x, n) /\ (Lives(s) <= MaxBuckets \/ x \in Owners(Evict(s)))
                => HasCount(Evict(s), x, n)
<1> DEFINE e == Evict(s)
<1> USE LimiterAssumption
<1>1. PICK f \in [1..Len(e) -> 1..Len(s)] :
        /\ \A n \in 1..Len(e) : e[n] = s[f[n]]
        /\ \A n, m \in 1..Len(e) : f[n] = f[m] => n = m
  BY EvictKeeps
<1>2. Lives(s) <= MaxBuckets => \A i \in Alive(s) : \E n \in 1..Len(e) : e[n] = s[i]
  BY EvictKeeps
<1> HIDE DEF e
<1>3. OneCounter(e)
  BY <1>1 DEF OneCounter
<1>4. OutlivesWindow(e)
  BY <1>1 DEF OutlivesWindow
<1>5. ASSUME NEW x \in Clients, NEW n \in Nat, HasCount(s, x, n),
             Lives(s) <= MaxBuckets \/ x \in Owners(e)
      PROVE  HasCount(e, x, n)
  <2>1. PICK i \in 1..Len(s) : s[i].key = x /\ s[i].running /\ s[i].count >= n
    BY <1>5 DEF HasCount
  <2>2. CASE Lives(s) <= MaxBuckets
    <3>1. s[i].ttl \in Nat /\ phase + s[i].ttl >= Window
      <4>1. s[i] \in Bucket
        BY <2>1
      <4> QED
        BY <2>1, <4>1 DEF OutlivesWindow, Bucket
    <3>2. i \in Alive(s)
      BY <3>1 DEF Alive, Unexpired
    <3> QED
      BY <1>2, <2>1, <2>2, <3>2 DEF HasCount
  <2>3. CASE x \in Owners(e)
    <3>1. PICK m \in 1..Len(e) : e[m].key = x /\ e[m].running
      BY <2>3 DEF Owners
    <3>2. f[m] = i
      BY <1>1, <2>1, <3>1 DEF OneCounter
    <3> QED
      BY <1>1, <2>1, <3>1, <3>2 DEF HasCount
  <2> QED
    BY <1>5, <2>2, <2>3
<1> QED
  BY <1>3, <1>4, <1>5 DEF e

LEMMA RateLimitInv ==
  ASSUME LimiterInv, NEW k \in Clients, NEW ok \in BOOLEAN, RateLimit(k, ok)
  PROVE  LimiterInv'
<1> DEFINE s == Counted(k)
<1> USE LimiterAssumption
<1>1. /\ phase \in 0..Window - 1 /\ phase' = phase
      /\ granted \in [Clients -> 0..Limit + 1] /\ uncounted \subseteq Clients
      /\ \A x \in Clients \ uncounted :
           granted[x] <= Limit /\ (granted[x] > 0 => HasCount(buckets, x, granted[x]))
  BY DEF LimiterInv, LimiterType, RateLimit
<1>2. /\ s \in Seq(Bucket) /\ OneCounter(s) /\ OutlivesWindow(s)
      /\ \A x \in Clients, n \in Nat : HasCount(buckets, x, n) => HasCount(s, x, n)
      /\ Count(k) \in Nat \ {0}
      /\ Count(k) <= Limit => HasCount(s, k, Count(k))
      /\ \A n \in Nat : HasCount(buckets, k, n) => n < Count(k)
  BY CountedSound
<1>3. /\ buckets' = Evict(s)
      /\ uncounted' = IF Lives(s) > MaxBuckets
                         THEN uncounted \cup (Owners(s) \ Owners(Evict(s))) ELSE uncounted
      /\ ok <=> Count(k) <= Limit
      /\ granted' = IF ok /\ granted[k] <= Limit THEN [granted EXCEPT ![k] = @ + 1] ELSE granted
  BY DEF RateLimit, Increment
<1> HIDE DEF s
<1>4. /\ Evict(s) \in Seq(Bucket) /\ Len(Evict(s)) <= MaxBuckets
      /\ OneCounter(Evict(s)) /\ OutlivesWindow(Evict(s))
      /\ \A x \in Clients, n \in Nat :
           HasCount(s, x, n) /\ (Lives(s) <= MaxBuckets \/ x \in Owners(Evict(s)))
             => HasCount(Evict(s), x, n)
  BY <1>1, <1>2, EvictKeeps, EvictSound
<1>5. Lives(s) \in Nat
  <2>1. Len(s) \in Nat /\ Alive(s) \in SUBSET (1..Len(s))
    BY <1>2 DEF Alive
  <2> QED
    BY <2>1, RankType DEF Lives
<1>6. /\ granted' \in [Clients -> 0..Limit + 1] /\ uncounted' \subseteq Clients
      /\ uncounted \subseteq uncounted'
      /\ \A x \in Clients \ {k} : granted'[x] = granted[x]
      /\ granted'[k] = IF ok /\ granted[k] <= Limit THEN granted[k] + 1 ELSE granted[k]
  <2>1. Owners(s) \subseteq Clients
    BY DEF Owners
  <2> QED
    BY <1>1, <1>3, <2>1
<1>7. ASSUME NEW x \in Clients \ uncounted', NEW n \in Nat, HasCount(s, x, n)
      PROVE  HasCount(Evict(s), x, n)
  <2>1. x \in Owners(s)
    BY <1>7 DEF HasCount, Owners
  <2>2. Lives(s) <= MaxBuckets \/ x \in Owners(Evict(s))
    BY <1>3, <1>5, <1>7, <2>1
  <2> QED
    BY <1>4, <1>7, <2>2
<1>8. ASSUME NEW x \in Clients \ uncounted'
      PROVE  /\ granted'[x] <= Limit
             /\ granted'[x] > 0 => HasCount(Evict(s), x, granted'[x])
  <2>1. /\ x \in Clients \ uncounted /\ granted[x] \in Nat /\ granted[x] <= Limit
        /\ granted[x] > 0 => HasCount(buckets, x, granted[x])
    BY <1>1, <1>6, <1>8
  <2>2. CASE granted'[x] = granted[x]
    BY <1>2, <1>7, <2>1, <2>2
  <2>3. CASE granted'[x] # granted[x]
    <3>1. x = k /\ ok /\ granted'[x] = granted[k] + 1
      BY <1>6, <2>3
    <3>2. granted[k] + 1 <= Count(k) /\ Count(k) <= Limit
      BY <1>2, <1>3, <2>1, <3>1
    <3>3. HasCount(s, k, granted[k] + 1)
      <4>1. HasCount(s, k, Count(k))
        BY <1>2, <3>2
      <4>2. \A i \in 1..Len(s) : s[i].count \in Nat
        <5>1. \A i \in 1..Len(s) : s[i] \in Bucket
          BY <1>2
        <5> QED
          BY <5>1 DEF Bucket
      <4> QED
        BY <1>2, <2>1, <3>1, <3>2, <4>1, <4>2 DEF HasCount
    <3> QED
      BY <1>2, <1>7, <2>1, <3>1, <3>2, <3>3
  <2> QED
    BY <2>2, <2>3
<1>9. OutlivesWindow(buckets)'
  BY <1>1, <1>3, <1>4 DEF OutlivesWindow
<1>10. OneCounter(buckets)'
  BY <1>3, <1>4 DEF OneCounter
<1>11. \A x \in Clients \ uncounted' :
         granted'[x] <= Limit /\ (granted'[x] > 0 => HasCount(buckets, x, granted[x])')
  BY <1>3, <1>8 DEF HasCount
<1>12. LimiterType'
  BY <1>1, <1>3, <1>4, <1>6 DEF LimiterType
<1> QED
  BY <1>3, <1>4, <1>9, <1>10, <1>11, <1>12 DEF LimiterInv

LEMMA LimiterTickInv == LimiterInv /\ LimiterTick => LimiterInv'
<1> SUFFICES ASSUME LimiterInv, LimiterTick PROVE LimiterInv'
  OBVIOUS
<1> USE LimiterAssumption
<1>1. /\ phase \in 0..Window - 1 /\ buckets \in Seq(Bucket) /\ Len(buckets) <= MaxBuckets
      /\ Len(buckets) \in Nat
      /\ granted \in [Clients -> 0..Limit + 1] /\ uncounted \subseteq Clients
      /\ OneCounter(buckets) /\ OutlivesWindow(buckets)
      /\ \A x \in Clients \ uncounted :
           granted[x] <= Limit /\ (granted[x] > 0 => HasCount(buckets, x, granted[x]))
  BY DEF LimiterInv, LimiterType
<1>2. \A i \in 1..Len(buckets) : buckets[i] \in Bucket
  BY <1>1
<1>3. ASSUME NEW b \in Bucket
      PROVE  /\ Aged(b) \in Bucket /\ Past(Aged(b)) \in Bucket
             /\ Aged(b).key = b.key /\ Aged(b).running = b.running /\ Aged(b).count = b.count
             /\ Aged(b).ttl = IF b.ttl = 0 THEN 0 ELSE b.ttl - 1
             /\ ~Past(Aged(b)).running /\ b.ttl \in Nat
  <2>1. (IF b.ttl = 0 THEN 0 ELSE b.ttl - 1) \in 0..Window /\ 0 \in 0..Limit + 1 /\ b.ttl \in Nat
    BY DEF Bucket
  <2>2. Aged(b) \in Bucket /\ Aged(b) = [b EXCEPT !.ttl = IF b.ttl = 0 THEN 0 ELSE b.ttl - 1]
    BY <2>1 DEF Aged, Bucket
  <2> QED
    BY <2>1, <2>2 DEF Past, Bucket
<1>4. CASE phase + 1 < Window
  <2>1. /\ phase' = phase + 1 /\ UNCHANGED <<granted, uncounted>>
        /\ buckets' = [i \in 1..Len(buckets) |-> Aged(buckets[i])]
    BY <1>4 DEF LimiterTick
  <2>2. /\ buckets' \in Seq(Bucket) /\ Len(buckets') = Len(buckets)
        /\ \A i \in 1..Len(buckets) :
             /\ buckets'[i].key = buckets[i].key /\ buckets'[i].running = buckets[i].running
             /\ buckets'[i].count = buckets[i].count
    BY <1>1, <1>2, <1>3, <2>1
  <2>3. OneCounter(buckets)'
    BY <1>1, <2>2 DEF OneCounter
  <2>4. OutlivesWindow(buckets)'
    <3>1. \A i \in 1..Len(buckets) :
            /\ buckets[i].ttl \in Nat
            /\ buckets'[i].ttl = IF buckets[i].ttl = 0 THEN 0 ELSE buckets[i].ttl - 1
      BY <1>2, <1>3, <2>1
    <3>2. phase \in Nat /\ Window \in Nat /\ phase + 1 < Window /\ phase' = phase + 1
      BY <1>1, <1>4, <2>1
    <3>3. ASSUME NEW i \in 1..Len(buckets), buckets[i].running
          PROVE  phase' + buckets'[i].ttl >= Window
      <4>1. phase + buckets[i].ttl >= Window
        BY <1>1, <3>3 DEF OutlivesWindow
      <4>2. /\ buckets[i].ttl \in Nat
            /\ buckets'[i].ttl = IF buckets[i].ttl = 0 THEN 0 ELSE buckets[i].ttl - 1
        BY <3>1
      <4> QED
        BY <3>2, <4>1, <4>2
    <3> QED
      BY <2>2, <3>3 DEF OutlivesWindow
  <2>5. \A x \in Clients : HasCount(buckets, x, granted[x]) => HasCount(buckets, x, granted[x])'
    BY <2>1, <2>2 DEF HasCount
  <2>6. phase' \in 0..Window - 1
    BY <1>1, <1>4, <2>1
  <2> QED
    BY <1>1, <2>1, <2>2, <2>3, <2>4, <2>5, <2>6 DEF LimiterInv, LimiterType
<1>5. CASE ~(phase + 1 < Window)
  <2>1. /\ phase' = 0 /\ granted' = [k \in Clients |-> 0] /\ uncounted' = {}
        /\ buckets' = [i \in 1..Len(buckets) |-> Past(Aged(buckets[i]))]
    BY <1>5 DEF LimiterTick
  <2>2. /\ buckets' \in Seq(Bucket) /\ Len(buckets') = Len(buckets)
        /\ \A i \in 1..Len(buckets) : ~buckets'[i].running
    BY <1>1, <1>2, <1>3, <2>1
  <2> QED
    BY <1>1, <2>1, <2>2 DEF LimiterInv, LimiterType, OneCounter, OutlivesWindow
<1> QED
  BY <1>4, <1>5

LEMMA LimiterRestartInv == LimiterInv /\ LimiterRestart => LimiterInv'
<1> SUFFICES ASSUME LimiterInv, LimiterRestart PROVE LimiterInv'
  OBVIOUS
<1>1. buckets' = <<>> /\ buckets' \in Seq(Bucket) /\ Len(buckets') = 0
  BY DEF LimiterRestart
<1> QED
  BY <1>1, LimiterAssumption
  DEF LimiterRestart, LimiterInv, LimiterType, OneCounter, OutlivesWindow

LEMMA LimiterStutter == LimiterInv /\ UNCHANGED limiter => LimiterInv'
BY DEF limiter, LimiterInv, LimiterType, OneCounter, OutlivesWindow, HasCount

-----------------------------------------------------------------------------
(* The replay cache                                                        *)

LEMMA IngestInitInv == IngestInit => IngestInv
<1> SUFFICES ASSUME IngestInit PROVE IngestInv
  OBVIOUS
<1>1. seen \in Seq(Entry) /\ Len(seen) = 0
  BY DEF IngestInit
<1> QED
  BY <1>1, IngestAssumption DEF IngestInit, IngestInv, IngestType, OneEntry

LEMMA WithoutKeeps ==
  ASSUME NEW S, NEW s \in Seq(S), NEW i \in 1..Len(s)
  PROVE  /\ Without(s, i) \in Seq(S) /\ Len(Without(s, i)) = Len(s) - 1
         /\ \A n \in 1..Len(s) - 1 : Without(s, i)[n] = s[IF n < i THEN n ELSE n + 1]
<1> DEFINE a == SubSeq(s, 1, i - 1)
           b == SubSeq(s, i + 1, Len(s))
<1>1. Len(s) \in Nat /\ i \in Nat /\ \A n \in 1..Len(s) : s[n] \in S
  OBVIOUS
<1>2. /\ a \in Seq(S) /\ Len(a) = i - 1
      /\ \A n \in 1..i - 1 : a[n] = s[n]
  <2>1. \A n \in 1..i - 1 : s[n] \in S
    BY <1>1
  <2>2. i - 1 \in Int /\ 1 \in Int
    BY <1>1
  <2>3. /\ a \in Seq(S) /\ Len(a) = IF 1 <= i - 1 THEN i - 1 - 1 + 1 ELSE 0
        /\ \A n \in 1..i - 1 - 1 + 1 : a[n] = s[1 + n - 1]
    BY <2>1, <2>2, SubSeqProperties
  <2> HIDE DEF a
  <2> QED
    BY <1>1, <2>3
<1>3. /\ b \in Seq(S) /\ Len(b) = Len(s) - i
      /\ \A n \in 1..Len(s) - i : b[n] = s[n + i]
  <2>1. \A n \in i + 1..Len(s) : s[n] \in S
    BY <1>1
  <2>2. i + 1 \in Int /\ Len(s) \in Int
    BY <1>1
  <2>3. /\ b \in Seq(S) /\ Len(b) = IF i + 1 <= Len(s) THEN Len(s) - (i + 1) + 1 ELSE 0
        /\ \A n \in 1..Len(s) - (i + 1) + 1 : b[n] = s[(i + 1) + n - 1]
    BY <2>1, <2>2, SubSeqProperties
  <2> HIDE DEF b
  <2> QED
    BY <1>1, <2>3
<1>4. Without(s, i) = a \o b
  BY DEF Without
<1> HIDE DEF a, b
<1>5. /\ a \o b \in Seq(S) /\ Len(a \o b) = Len(a) + Len(b)
      /\ \A n \in 1..Len(a) + Len(b) :
           (a \o b)[n] = IF n <= Len(a) THEN a[n] ELSE b[n - Len(a)]
  BY <1>2, <1>3, ConcatProperties
<1>6. Len(a \o b) = Len(s) - 1
  BY <1>1, <1>2, <1>3, <1>5
<1>7. ASSUME NEW n \in 1..Len(s) - 1
      PROVE  (a \o b)[n] = s[IF n < i THEN n ELSE n + 1]
  <2>1. (a \o b)[n] = IF n <= Len(a) THEN a[n] ELSE b[n - Len(a)]
    BY <1>1, <1>2, <1>3, <1>5
  <2>2. CASE n < i
    BY <1>1, <1>2, <2>1, <2>2
  <2>3. CASE ~(n < i)
    <3>1. n - Len(a) \in 1..Len(s) - i /\ (n - Len(a)) + i = n + 1 /\ ~(n <= Len(a))
      BY <1>1, <1>2, <2>3
    <3> QED
      BY <1>3, <2>1, <2>3, <3>1
  <2> QED
    BY <2>2, <2>3
<1> QED
  BY <1>4, <1>5, <1>6, <1>7

\* Shedding drops at most one entry: one that ran out, or else the oldest.
LEMMA ShedKeeps ==
  ASSUME NEW s \in Seq(Entry), Len(s) <= MaxEntries + 1
  PROVE  /\ Shed(s) \in Seq(Entry) /\ Len(Shed(s)) <= MaxEntries
         /\ \A n \in 1..Len(Shed(s)) : \E m \in 1..Len(s) : Shed(s)[n] = s[m]
         /\ OneEntry(s) => OneEntry(Shed(s))
         /\ \A i \in 1..Len(s) :
              \/ \E n \in 1..Len(Shed(s)) : Shed(s)[n] = s[i]
              \/ Len(s) > MaxEntries /\ ~Live(s[i])
              \/ Len(s) > MaxEntries /\ Dead(s) = {} /\ i = 1
<1> USE IngestAssumption
<1>1. Len(s) \in Nat
  OBVIOUS
<1>2. CASE Len(s) <= MaxEntries
  BY <1>1, <1>2 DEF Shed
<1>3. CASE Len(s) > MaxEntries
  <2> DEFINE i == IF Dead(s) = {} THEN 1
                  ELSE CHOOSE j \in Dead(s) : \A k \in Dead(s) : j <= k
             w == Without(s, i)
  <2>1. Shed(s) = w /\ Len(s) = MaxEntries + 1
    BY <1>1, <1>3 DEF Shed
  <2>2. i \in 1..Len(s) /\ (Dead(s) # {} => i \in Dead(s)) /\ (Dead(s) = {} => i = 1)
    <3>1. Dead(s) \in SUBSET (1..Len(s))
      BY DEF Dead
    <3>2. CASE Dead(s) # {}
      <4>1. \E j \in Dead(s) : \A k \in Dead(s) : j <= k
        BY <1>1, <3>1, <3>2, LeastPosition
      <4> QED
        BY <3>1, <3>2, <4>1
    <3>3. CASE Dead(s) = {}
      BY <1>1, <1>3, <3>3
    <3> QED
      BY <3>2, <3>3
  <2> HIDE DEF i
  <2>3. /\ w \in Seq(Entry) /\ Len(w) = Len(s) - 1
        /\ \A n \in 1..Len(s) - 1 : w[n] = s[IF n < i THEN n ELSE n + 1]
    BY <2>2, WithoutKeeps
  <2> HIDE DEF w
  <2>4. \A n \in 1..Len(w) : (IF n < i THEN n ELSE n + 1) \in 1..Len(s)
    BY <1>1, <2>2, <2>3
  <2>5. OneEntry(s) => OneEntry(w)
    <3> SUFFICES ASSUME OneEntry(s), NEW n \in 1..Len(w), NEW m \in 1..Len(w),
                        w[n].delivery = w[m].delivery, WithinWindow(w[n].delivery)
                 PROVE  n = m
      BY DEF OneEntry
    <3>1. (IF n < i THEN n ELSE n + 1) = (IF m < i THEN m ELSE m + 1)
      BY <2>3, <2>4 DEF OneEntry
    <3> QED
      BY <1>1, <2>2, <2>3, <3>1
  <2>6. ASSUME NEW k \in 1..Len(s), k # i PROVE \E n \in 1..Len(w) : w[n] = s[k]
    <3>1. CASE k < i
      <4>1. k \in 1..Len(w)
        BY <1>1, <2>2, <2>3, <3>1
      <4> QED
        BY <2>3, <3>1, <4>1
    <3>2. CASE ~(k < i)
      <4>1. k - 1 \in 1..Len(w) /\ ~(k - 1 < i) /\ (k - 1) + 1 = k
        BY <1>1, <2>2, <2>3, <2>6, <3>2
      <4> QED
        BY <2>3, <4>1
    <3> QED
      BY <3>1, <3>2
  <2>7. Dead(s) # {} => ~Live(s[i])
    BY <2>2 DEF Dead
  <2> QED
    <3>1. Len(w) <= MaxEntries
      BY <2>1, <2>3
    <3>2. \A n \in 1..Len(w) : \E m \in 1..Len(s) : w[n] = s[m]
      BY <2>3, <2>4
    <3>3. ASSUME NEW k \in 1..Len(s)
          PROVE  \/ \E n \in 1..Len(w) : w[n] = s[k]
                 \/ ~Live(s[k])
                 \/ Dead(s) = {} /\ k = 1
      BY <2>2, <2>6, <2>7
    <3> QED
      BY <1>3, <2>1, <2>3, <2>5, <3>1, <3>2, <3>3
<1> QED
  BY <1>1, <1>2, <1>3

\* Entering a delivery that is not in the cache alive: one fresh entry, the others as before.
LEMMA EnteredKeeps ==
  ASSUME IngestInv, NEW d \in Deliveries, WithinWindow(d)
  PROVE  /\ Entered(d) \in Seq(Entry) /\ Len(Entered(d)) <= MaxEntries + 1
         /\ OneEntry(Entered(d))
         /\ \A i \in 1..Len(seen) : /\ i \in 1..Len(Entered(d))
                                    /\ seen[i].delivery # d => Entered(d)[i] = seen[i]
         /\ \E i \in 1..Len(Entered(d)) :
              /\ Entered(d)[i] = [delivery |-> d, ttl |-> Tolerance]
              /\ Len(Entered(d)) > MaxEntries => i = MaxEntries + 1
<1> DEFINE new == [delivery |-> d, ttl |-> Tolerance]
           E == Entered(d)
<1> USE IngestAssumption
<1>1. /\ seen \in Seq(Entry) /\ Len(seen) \in Nat /\ Len(seen) <= MaxEntries
      /\ OneEntry(seen) /\ new \in Entry
  BY DEF IngestInv, IngestType, Entry
<1>2. CASE Where(d) = {}
  <2>1. E = Append(seen, new)
    BY <1>2 DEF Entered
  <2> HIDE DEF E
  <2>2. /\ E \in Seq(Entry) /\ Len(E) = Len(seen) + 1 /\ E[Len(E)] = new
        /\ \A i \in 1..Len(seen) : E[i] = seen[i]
    BY <1>1, <2>1, AppendProperties
  <2>3. \A i \in 1..Len(seen) : seen[i].delivery # d
    BY <1>2 DEF Where
  <2>4. \A i \in 1..Len(E) : i \in 1..Len(seen) \/ i = Len(E)
    BY <1>1, <2>2
  <2>5. OneEntry(E)
    BY <1>1, <2>2, <2>3, <2>4 DEF OneEntry
  <2>6. Len(E) \in 1..Len(E) /\ (Len(E) > MaxEntries => Len(E) = MaxEntries + 1)
    BY <1>1, <2>2
  <2>7. \A i \in 1..Len(seen) : i \in 1..Len(E)
    BY <1>1, <2>2
  <2> QED
    BY <1>1, <2>2, <2>5, <2>6, <2>7 DEF E
<1>3. CASE Where(d) # {}
  <2>1. E = [i \in 1..Len(seen) |-> IF i \in Where(d) THEN new ELSE seen[i]]
    BY <1>3 DEF Entered
  <2> HIDE DEF E, new
  <2>2. E \in Seq(Entry) /\ Len(E) = Len(seen)
    <3>1. \A i \in 1..Len(seen) : seen[i] \in Entry
      BY <1>1
    <3> QED
      BY <1>1, <2>1, <3>1
  <2>3. \A i \in 1..Len(seen) : E[i] = IF seen[i].delivery = d THEN new ELSE seen[i]
    BY <2>1 DEF Where
  <2>4. \A i \in 1..Len(seen) : E[i].delivery = seen[i].delivery
    BY <2>3 DEF new
  <2>5. OneEntry(E)
    BY <1>1, <2>2, <2>4 DEF OneEntry
  <2>6. PICK i \in 1..Len(seen) : seen[i].delivery = d
    BY <1>3 DEF Where
  <2>7. E[i] = new /\ ~(Len(E) > MaxEntries)
    BY <1>1, <2>2, <2>3, <2>6
  <2> QED
    BY <1>1, <2>2, <2>3, <2>5, <2>6, <2>7 DEF E, new
<1> QED
  BY <1>2, <1>3

LEMMA RememberInv ==
  ASSUME IngestInv, NEW d \in Deliveries, WithinWindow(d), ~Replayed(d), Remember(d)
  PROVE  IngestInv'
<1> DEFINE E == Entered(d)
           new == [delivery |-> d, ttl |-> Tolerance]
           t0 == [delivery |-> d, since |-> 0, twice |-> FALSE]
<1> USE IngestAssumption
<1>1. /\ seen \in Seq(Entry) /\ Len(seen) \in Nat /\ OneEntry(seen)
      /\ \A i \in 1..Len(seen) : seen[i] \in Entry
      /\ taken \subseteq [delivery : Deliveries, since : 0..Tolerance - 1, twice : BOOLEAN]
      /\ \A t \in taken : ~t.twice /\ Remembered(t)
  <2>1. seen \in Seq(Entry)
    BY DEF IngestInv, IngestType
  <2> QED
    BY <2>1 DEF IngestInv, IngestType
<1>2. /\ E \in Seq(Entry) /\ Len(E) <= MaxEntries + 1 /\ OneEntry(E) /\ Len(E) \in Nat
      /\ \A i \in 1..Len(seen) : /\ i \in 1..Len(E)
                                 /\ seen[i].delivery # d => E[i] = seen[i]
      /\ \E i \in 1..Len(E) : E[i] = new /\ (Len(E) > MaxEntries => i = MaxEntries + 1)
  <2>1. E \in Seq(Entry)
    BY EnteredKeeps
  <2> QED
    BY <2>1, EnteredKeeps
<1>3. seen' = Shed(E)
  BY DEF Remember
<1> HIDE DEF E
<1>4. /\ seen' \in Seq(Entry) /\ Len(seen') <= MaxEntries
      /\ \A n \in 1..Len(seen') : \E m \in 1..Len(E) : seen'[n] = E[m]
      /\ OneEntry(seen')
      /\ \A i \in 1..Len(E) :
           \/ \E n \in 1..Len(seen') : seen'[n] = E[i]
           \/ Len(E) > MaxEntries /\ ~Live(E[i])
           \/ Len(E) > MaxEntries /\ Dead(E) = {} /\ i = 1
  BY <1>2, <1>3, ShedKeeps
<1>5. \A t \in taken : t.delivery # d
  <2> SUFFICES ASSUME NEW t \in taken, t.delivery = d PROVE FALSE
    OBVIOUS
  <2>1. PICK i \in Where(d) : seen[i].ttl + t.since >= Tolerance
    BY <1>1 DEF Remembered
  <2>2. i \in 1..Len(seen) /\ t.since \in 0..Tolerance - 1
    BY <1>1 DEF Where
  <2>3. seen[i].ttl \in Nat
    BY <1>1, <2>2 DEF Entry
  <2>4. Live(seen[i])
    BY <2>1, <2>2, <2>3 DEF Live
  <2> QED
    BY <2>1, <2>4 DEF Replayed
<1>6. /\ taken' = {t \in taken : t.delivery # d /\ t.delivery \notin Excused(E, seen')} \cup {t0}
      /\ t0 \in [delivery : Deliveries, since : 0..Tolerance - 1, twice : BOOLEAN]
  BY <1>5 DEF Remember, E
<1>7. Remembered(t0)'
  <2>1. PICK i \in 1..Len(E) : E[i] = new /\ (Len(E) > MaxEntries => i = MaxEntries + 1)
    BY <1>2
  <2>2. Live(E[i])
    BY <2>1 DEF Live
  <2>3. \E n \in 1..Len(seen') : seen'[n] = E[i]
    <3>1. ~(Len(E) > MaxEntries /\ i = 1)
      BY <2>1
    <3> QED
      BY <1>4, <2>2, <3>1
  <2> QED
    BY <2>1, <2>3 DEF Remembered, Where
<1>8. ASSUME NEW t \in taken, t.delivery # d, t.delivery \notin Excused(E, seen')
      PROVE  Remembered(t)'
  <2> SUFFICES ASSUME WithinWindow(t.delivery)
               PROVE  \E n \in 1..Len(seen') :
                        seen'[n].delivery = t.delivery /\ seen'[n].ttl + t.since >= Tolerance
    BY DEF Remembered, Where, WithinWindow
  <2>1. PICK i \in Where(t.delivery) : seen[i].ttl + t.since >= Tolerance
    BY <1>1 DEF Remembered
  <2>2. /\ i \in 1..Len(E) /\ E[i].delivery = t.delivery /\ E[i].ttl + t.since >= Tolerance
        /\ E[i] \in Entry /\ t.since \in 0..Tolerance - 1 /\ t.delivery \in Deliveries
    BY <1>1, <1>2, <1>8, <2>1 DEF Where
  <2>3. Live(E[i])
    BY <2>2 DEF Live, Entry
  <2>4. CASE \E n \in 1..Len(seen') : seen'[n] = E[i]
    BY <2>2, <2>4
  <2>5. CASE Dead(E) = {}
    <3>1. Holds(seen', t.delivery)
      BY <1>8, <2>2, <2>5 DEF Excused, Holds
    <3>2. PICK n \in 1..Len(seen') : seen'[n].delivery = t.delivery
      BY <3>1 DEF Holds
    <3>3. PICK m \in 1..Len(E) : seen'[n] = E[m]
      BY <1>4
    <3>4. m = i
      BY <1>2, <2>2, <3>2, <3>3 DEF OneEntry
    <3> QED
      BY <2>2, <3>3, <3>4
  <2> QED
    BY <1>4, <2>2, <2>3, <2>4, <2>5
<1>9. taken' \subseteq [delivery : Deliveries, since : 0..Tolerance - 1, twice : BOOLEAN]
  BY <1>1, <1>6
<1>10. \A t \in taken' : ~t.twice /\ Remembered(t)'
  <2> SUFFICES ASSUME NEW t \in taken' PROVE ~t.twice /\ Remembered(t)'
    OBVIOUS
  <2> HIDE DEF t0
  <2>1. CASE t = t0
    BY <1>7, <2>1 DEF t0
  <2>2. CASE t \in taken /\ t.delivery # d /\ t.delivery \notin Excused(E, seen')
    BY <1>1, <1>8, <2>2
  <2> QED
    BY <1>6, <2>1, <2>2
<1>11. OneEntry(seen)'
  BY <1>4 DEF OneEntry, WithinWindow
<1> QED
  BY <1>4, <1>9, <1>10, <1>11 DEF IngestInv, IngestType

LEMMA OlderDelivery ==
  ASSUME NEW d \in Deliveries
  PROVE  /\ Older(d) \in Deliveries
         /\ WithinWindow(Older(d)) =>
              WithinWindow(d) /\ \A e \in Deliveries : Older(e) = Older(d) => e = d
<1>1. /\ d.age \in -Tolerance..Tolerance + 1 /\ d.event \in Events
      /\ d = [event |-> d.event, age |-> d.age]
  BY DEF Deliveries, Ages
<1>2. \A e \in Deliveries :
        /\ Older(e) = [event |-> e.event, age |-> IF e.age > Tolerance THEN e.age ELSE e.age + 1]
        /\ e = [event |-> e.event, age |-> e.age] /\ e.age \in -Tolerance..Tolerance + 1
        /\ e.event \in Events
  BY DEF Deliveries, Ages, Older
<1>3. (IF d.age > Tolerance THEN d.age ELSE d.age + 1) \in -Tolerance..Tolerance + 1
  BY <1>1, IngestAssumption
<1>4. Older(d) \in Deliveries
  BY <1>1, <1>2, <1>3 DEF Deliveries, Ages
<1>5. ASSUME WithinWindow(Older(d))
      PROVE  WithinWindow(d) /\ \A e \in Deliveries : Older(e) = Older(d) => e = d
  <2>1. Older(d).age <= Tolerance /\ d.age <= Tolerance /\ Older(d).age = d.age + 1
    BY <1>1, <1>2, <1>5, IngestAssumption DEF WithinWindow
  <2>2. WithinWindow(d)
    BY <1>1, <2>1, IngestAssumption DEF WithinWindow
  <2>3. ASSUME NEW e \in Deliveries, Older(e) = Older(d) PROVE e = d
    <3>1. e.event = d.event
      BY <1>2, <2>3
    <3>2. (IF e.age > Tolerance THEN e.age ELSE e.age + 1) = d.age + 1
      BY <1>2, <2>1, <2>3
    <3>3. e.age = d.age
      BY <1>1, <1>2, <2>1, <3>2, IngestAssumption
    <3> QED
      BY <1>2, <3>1, <3>3
  <2> QED
    BY <2>2, <2>3
<1> QED
  BY <1>4, <1>5

LEMMA IngestTickInv == IngestInv /\ IngestTick => IngestInv'
<1> SUFFICES ASSUME IngestInv, IngestTick PROVE IngestInv'
  OBVIOUS
<1> USE IngestAssumption
<1>1. /\ seen \in Seq(Entry) /\ Len(seen) \in Nat /\ Len(seen) <= MaxEntries /\ OneEntry(seen)
      /\ taken \subseteq [delivery : Deliveries, since : 0..Tolerance - 1, twice : BOOLEAN]
      /\ \A t \in taken : ~t.twice /\ Remembered(t)
  <2>1. seen \in Seq(Entry)
    BY DEF IngestInv, IngestType
  <2> QED
    BY <2>1 DEF IngestInv, IngestType
<1>2. \A i \in 1..Len(seen) : /\ seen[i] \in Entry /\ seen[i].ttl \in Nat
                              /\ seen[i].delivery \in Deliveries
  <2>1. \A i \in 1..Len(seen) : seen[i] \in Entry
    BY <1>1
  <2> QED
    BY <2>1 DEF Entry
<1>3. /\ seen' = [i \in 1..Len(seen) |->
           [delivery |-> Older(seen[i].delivery),
            ttl |-> IF seen[i].ttl = 0 THEN 0 ELSE seen[i].ttl - 1]]
      /\ taken' = {[t EXCEPT !.delivery = Older(@), !.since = @ + 1] :
                     t \in {u \in taken : u.since + 1 < Tolerance}}
  BY DEF IngestTick
<1>4. ASSUME NEW i \in 1..Len(seen)
      PROVE  [delivery |-> Older(seen[i].delivery),
              ttl |-> IF seen[i].ttl = 0 THEN 0 ELSE seen[i].ttl - 1] \in Entry
  <2>1. (IF seen[i].ttl = 0 THEN 0 ELSE seen[i].ttl - 1) \in 0..Tolerance
    BY <1>2 DEF Entry
  <2> QED
    BY <1>2, <2>1, OlderDelivery DEF Entry
<1>5. seen' \in Seq(Entry) /\ Len(seen') = Len(seen)
  <2> DEFINE s == [i \in 1..Len(seen) |->
                     [delivery |-> Older(seen[i].delivery),
                      ttl |-> IF seen[i].ttl = 0 THEN 0 ELSE seen[i].ttl - 1]]
  <2>1. \A i \in 1..Len(seen) : s[i] \in Entry
    BY <1>4
  <2>2. DOMAIN s = 1..Len(seen) /\ s = [i \in 1..Len(seen) |-> s[i]]
    OBVIOUS
  <2> HIDE DEF s
  <2>3. s \in Seq(Entry) /\ Len(s) = Len(seen)
    BY <1>1, <2>1, <2>2
  <2> QED
    BY <1>3, <2>3 DEF s
<1>6. \A i \in 1..Len(seen) :
        /\ seen'[i].delivery = Older(seen[i].delivery)
        /\ seen'[i].ttl = IF seen[i].ttl = 0 THEN 0 ELSE seen[i].ttl - 1
  BY <1>3
<1>7. OneEntry(seen)'
  <2> SUFFICES ASSUME NEW i \in 1..Len(seen), NEW j \in 1..Len(seen),
                      seen'[i].delivery = seen'[j].delivery, WithinWindow(seen'[i].delivery)
               PROVE  i = j
    BY <1>5 DEF OneEntry, WithinWindow
  <2>1. WithinWindow(seen[i].delivery) /\ seen[j].delivery = seen[i].delivery
    BY <1>2, <1>6, OlderDelivery
  <2> QED
    BY <1>1, <2>1 DEF OneEntry
<1>8. ASSUME NEW u \in taken'
      PROVE  /\ u \in [delivery : Deliveries, since : 0..Tolerance - 1, twice : BOOLEAN]
             /\ ~u.twice /\ Remembered(u)'
  <2>1. PICK t \in taken : /\ t.since + 1 < Tolerance
                          /\ u = [t EXCEPT !.delivery = Older(@), !.since = @ + 1]
    BY <1>3
  <2>2. /\ t.delivery \in Deliveries /\ t.since \in 0..Tolerance - 1 /\ t.twice \in BOOLEAN
        /\ u = [delivery |-> Older(t.delivery), since |-> t.since + 1, twice |-> t.twice]
        /\ ~t.twice /\ Remembered(t)
    BY <1>1, <2>1
  <2>3. t.since + 1 \in 0..Tolerance - 1
    BY <2>1, <2>2
  <2>4. u \in [delivery : Deliveries, since : 0..Tolerance - 1, twice : BOOLEAN]
    BY <2>2, <2>3, OlderDelivery
  <2>5. ASSUME WithinWindow(u.delivery)
        PROVE  \E i \in 1..Len(seen) :
                 seen'[i].delivery = u.delivery /\ seen'[i].ttl + u.since >= Tolerance
    <3>1. WithinWindow(t.delivery)
      BY <2>2, <2>5, OlderDelivery
    <3>2. PICK i \in Where(t.delivery) : seen[i].ttl + t.since >= Tolerance
      BY <2>2, <3>1 DEF Remembered
    <3>3. i \in 1..Len(seen) /\ seen[i].delivery = t.delivery /\ seen[i].ttl \in Nat
      BY <1>2, <3>2 DEF Where
    <3>4. seen'[i].delivery = u.delivery
      BY <1>6, <2>2, <3>3
    <3>5. seen'[i].ttl + u.since >= Tolerance
      BY <1>6, <2>2, <3>2, <3>3
    <3> QED
      BY <3>3, <3>4, <3>5
  <2>6. Remembered(u)'
    BY <1>5, <2>5 DEF Remembered, Where, WithinWindow
  <2> QED
    BY <2>2, <2>4, <2>6
<1> QED
  BY <1>1, <1>5, <1>7, <1>8 DEF IngestInv, IngestType

LEMMA IngestRestartInv == IngestInv /\ IngestRestart => IngestInv'
<1> SUFFICES ASSUME IngestInv, IngestRestart PROVE IngestInv'
  OBVIOUS
<1>1. seen' = <<>> /\ seen' \in Seq(Entry) /\ Len(seen') = 0 /\ taken' = {}
  BY DEF IngestRestart
<1> QED
  BY <1>1, IngestAssumption DEF IngestInv, IngestType, OneEntry

LEMMA IngestStutter == IngestInv /\ UNCHANGED ingest => IngestInv'
BY DEF ingest, IngestInv, IngestType, OneEntry, Remembered, Where, WithinWindow

-----------------------------------------------------------------------------
(* The requests                                                            *)

LEMMA RouteInit == Init => RouteInv
BY DEF Init, RouteInv, RouteType, Passed, NoRequest, AckedIsHandled

\* A request under way has a signed delivery.
LEMMA RequestUnderway ==
  ASSUME RouteInv, NEW r \in Requests, req[r].pc # "idle"
  PROVE  /\ req[r] \in Underway /\ EventOf(r) \in Events
         /\ req[r].next \in 1..Handlers /\ req[r].delivery \in Signed
BY DEF RouteInv, RouteType, NoRequest, Underway, Signed, EventOf

LEMMA ArriveInv ==
  ASSUME RouteInv, NEW d \in Signed, NEW mine \in BOOLEAN, Arrive(d, mine),
         UNCHANGED <<done, acked>>, held' \in {NoDelivery} \cup Signed
  PROVE  RouteInv'
<1>1. PICK r \in Requests : \/ req' = req
                           \/ req' = [req EXCEPT ![r] = [pc |-> "verify", delivery |-> d,
                                                         next |-> 1, mine |-> mine]]
  BY DEF Arrive
<1>2. [pc |-> "verify", delivery |-> d, next |-> 1, mine |-> mine] \in Underway
  BY RouteAssumption DEF Underway
<1>3. RouteType'
  BY <1>1, <1>2 DEF RouteInv, RouteType
<1>4. ASSUME NEW q \in Requests PROVE Passed(q)'
  <2>1. Passed(q)
    BY DEF RouteInv
  <2>2. CASE req'[q] = req[q]
    BY <2>1, <2>2 DEF Passed, EventOf
  <2>3. CASE req'[q] = [pc |-> "verify", delivery |-> d, next |-> 1, mine |-> mine]
    BY <2>3 DEF Passed
  <2> QED
    BY <1>1, <2>2, <2>3 DEF RouteInv, RouteType
<1> QED
  BY <1>3, <1>4 DEF RouteInv, AckedIsHandled

\* A request is answered, and what its event's handlers did is kept.
LEMMA AnswerInv ==
  ASSUME RouteInv, NEW r \in Requests, Answer(r), done \subseteq done', held' = held,
         \/ acked' = acked
         \/ req[r].pc = "handle" /\ acked' \subseteq acked \cup {EventOf(r)}
            /\ \A h \in 1..Handlers : <<EventOf(r), h>> \in done'
  PROVE  RouteInv'
<1>1. req' = [req EXCEPT ![r] = NoRequest]
  BY DEF Answer
<1>2. RouteType'
  <2>1. acked' \subseteq Events
    BY RequestUnderway DEF RouteInv, RouteType
  <2> QED
    BY <1>1, <2>1 DEF RouteInv, RouteType
<1>3. ASSUME NEW q \in Requests PROVE Passed(q)'
  <2>1. CASE q = r
    BY <1>1, <2>1 DEF RouteInv, RouteType, Passed, NoRequest
  <2>2. CASE q # r
    <3>1. req'[q] = req[q] /\ Passed(q)
      BY <1>1, <2>2 DEF RouteInv, RouteType
    <3> QED
      BY <3>1 DEF Passed, EventOf
  <2> QED
    BY <2>1, <2>2
<1>4. AckedIsHandled'
  BY DEF RouteInv, AckedIsHandled
<1> QED
  BY <1>2, <1>3, <1>4 DEF RouteInv

\* A request goes on to the next handler, or to the first: those before it have completed.
LEMMA AdvanceInv ==
  ASSUME RouteInv, NEW r \in Requests, NEW q \in Underway,
         q.pc = "handle", q.delivery = req[r].delivery,
         req' = [req EXCEPT ![r] = q], done \subseteq done', UNCHANGED <<held, acked>>,
         \A h \in 1..q.next - 1 : <<EventOf(r), h>> \in done'
  PROVE  RouteInv'
<1>1. RouteType'
  BY DEF RouteInv, RouteType
<1>2. ASSUME NEW o \in Requests PROVE Passed(o)'
  <2>1. CASE o = r
    BY <2>1 DEF RouteInv, RouteType, Passed, EventOf
  <2>2. CASE o # r
    <3>1. req'[o] = req[o] /\ Passed(o)
      BY <2>2 DEF RouteInv, RouteType
    <3> QED
      BY <3>1 DEF Passed, EventOf
  <2> QED
    BY <2>1, <2>2
<1> QED
  BY <1>1, <1>2 DEF RouteInv, AckedIsHandled

LEMMA VerifyRoute ==
  ASSUME RouteInv, NEW r \in Requests, Verify(r)
  PROVE  RouteInv'
<1>1. /\ req[r].pc = "verify" /\ UNCHANGED <<held, done, acked>>
      /\ Answer(r) \/ req' = [req EXCEPT ![r].pc = "handle"]
  BY DEF Verify
<1>2. CASE Answer(r)
  BY <1>1, <1>2, AnswerInv
<1>3. CASE req' = [req EXCEPT ![r].pc = "handle"]
  <2> DEFINE q == [req[r] EXCEPT !.pc = "handle"]
  <2>1. req[r] \in Underway /\ req[r].next = 1
    BY <1>1, RequestUnderway DEF RouteInv, Passed
  <2>2. q \in Underway /\ q.pc = "handle" /\ q.delivery = req[r].delivery /\ q.next = 1
    BY <2>1 DEF Underway
  <2>3. req' = [req EXCEPT ![r] = q]
    BY <1>3 DEF RouteInv, RouteType
  <2>4. \A h \in 1..q.next - 1 : <<EventOf(r), h>> \in done'
    BY <2>2
  <2> HIDE DEF q
  <2> QED
    BY <1>1, <2>2, <2>3, <2>4, AdvanceInv
<1> QED
  BY <1>1, <1>2, <1>3

LEMMA HandleInv ==
  ASSUME RouteInv, NEW r \in Requests, Handle(r)
  PROVE  RouteInv'
<1>1. /\ req[r].pc = "handle" /\ held' = held
      /\ done' = done \cup {<<EventOf(r), req[r].next>>}
  BY DEF Handle
<1>2. /\ req[r] \in Underway /\ req[r].next \in 1..Handlers
      /\ \A h \in 1..req[r].next - 1 : <<EventOf(r), h>> \in done
  BY <1>1, RequestUnderway DEF RouteInv, Passed
<1>3. \A h \in 1..req[r].next : <<EventOf(r), h>> \in done'
  <2>1. \A h \in 1..req[r].next : h \in 1..req[r].next - 1 \/ h = req[r].next
    BY <1>2, RouteAssumption
  <2> QED
    BY <1>1, <1>2, <2>1
<1>4. CASE req[r].next < Handlers
  <2> DEFINE q == [req[r] EXCEPT !.next = @ + 1]
  <2>1. UNCHANGED acked /\ req' = [req EXCEPT ![r].next = @ + 1]
    BY <1>4 DEF Handle
  <2>2. req[r].next + 1 \in 1..Handlers /\ (req[r].next + 1) - 1 = req[r].next
    BY <1>2, <1>4, RouteAssumption
  <2>3. /\ q \in Underway /\ q.pc = "handle" /\ q.delivery = req[r].delivery
        /\ q.next - 1 = req[r].next
    BY <1>1, <1>2, <2>2 DEF Underway
  <2>4. req' = [req EXCEPT ![r] = q]
    BY <2>1 DEF RouteInv, RouteType
  <2> HIDE DEF q
  <2> QED
    BY <1>1, <1>3, <2>1, <2>3, <2>4, AdvanceInv
<1>5. CASE ~(req[r].next < Handlers)
  <2>1. Answer(r) /\ (Acknowledge(r) \/ UNCHANGED acked)
    BY <1>5 DEF Handle
  <2>2. req[r].next = Handlers
    BY <1>2, <1>5, RouteAssumption
  <2>3. acked' \subseteq acked \cup {EventOf(r)}
    BY <2>1 DEF Acknowledge
  <2> QED
    BY <1>1, <1>3, <2>1, <2>2, <2>3, AnswerInv
<1> QED
  BY <1>4, <1>5

LEMMA TickRoute ==
  ASSUME RouteInv, Tick
  PROVE  RouteInv'
<1>1. /\ req' = [r \in Requests |->
           IF req[r].pc = "idle" THEN req[r] ELSE [req[r] EXCEPT !.delivery = Older(@)]]
      /\ held' = IF held = NoDelivery THEN held ELSE Older(held)
      /\ UNCHANGED <<done, acked>>
  BY DEF Tick
<1>2. \A d \in Signed : Older(d) \in Signed /\ Older(d).event = d.event
  <2> TAKE d \in Signed
  <2>1. d.age \in Int /\ (IF d.age > Tolerance THEN d.age ELSE d.age + 1) \in Int
    BY DEF Signed
  <2> QED
    BY <2>1 DEF Signed, Older
<1>3. ASSUME NEW r \in Requests
      PROVE  \/ req'[r] = req[r] /\ req[r] \in {NoRequest} \cup Underway
             \/ /\ req'[r] \in Underway /\ req'[r].pc = req[r].pc /\ req'[r].next = req[r].next
                /\ req'[r].delivery.event = EventOf(r)
  <2>1. CASE req[r].pc = "idle"
    BY <1>1, <2>1 DEF RouteInv, RouteType
  <2>2. CASE req[r].pc # "idle"
    <3>1. req[r] \in Underway /\ req[r].delivery \in Signed
      BY <2>2, RequestUnderway
    <3>2. req'[r] = [req[r] EXCEPT !.delivery = Older(req[r].delivery)]
      BY <1>1, <2>2
    <3>3. Older(req[r].delivery) \in Signed /\ Older(req[r].delivery).event = EventOf(r)
      BY <1>2, <3>1 DEF EventOf
    <3> QED
      BY <3>1, <3>2, <3>3 DEF Underway
  <2> QED
    BY <2>1, <2>2
<1>4. RouteType'
  BY <1>1, <1>2, <1>3 DEF RouteInv, RouteType
<1>5. ASSUME NEW r \in Requests PROVE Passed(r)'
  <2>1. Passed(r) /\ done' = done
    BY <1>1 DEF RouteInv
  <2>2. CASE req'[r] = req[r]
    BY <2>1, <2>2 DEF Passed, EventOf
  <2>3. CASE /\ req'[r].pc = req[r].pc /\ req'[r].next = req[r].next
             /\ req'[r].delivery.event = EventOf(r)
    BY <2>1, <2>3 DEF Passed, EventOf
  <2> QED
    BY <1>3, <2>2, <2>3
<1> QED
  BY <1>1, <1>4, <1>5 DEF RouteInv, AckedIsHandled

LEMMA RestartRoute ==
  ASSUME RouteInv, Restart
  PROVE  RouteInv'
BY DEF Restart, RouteInv, RouteType, Passed, NoRequest, AckedIsHandled

LEMMA RouteStutter ==
  ASSUME RouteInv, UNCHANGED route
  PROVE  RouteInv'
BY DEF route, RouteInv, RouteType, Passed, EventOf, AckedIsHandled

-----------------------------------------------------------------------------
(* The three together                                                      *)

LEMMA AttemptRoute ==
  ASSUME RouteInv, NEW e \in Events, Attempt(e)
  PROVE  RouteInv'
<1>1. PICK ahead \in 0..Ahead :
        LET d == [event |-> e, age |-> -ahead]
        IN  Arrive(d, TRUE) /\ held' \in {held} \cup (IF repeats < MaxRepeats THEN {d} ELSE {})
  BY DEF Attempt
<1> DEFINE d == [event |-> e, age |-> -ahead]
<1>2. d \in Signed
  BY RouteAssumption DEF Signed
<1>3. Arrive(d, TRUE) /\ held' \in {held, d} /\ UNCHANGED <<done, acked>>
  BY <1>1 DEF Attempt
<1>4. held' \in {NoDelivery} \cup Signed
  BY <1>2, <1>3 DEF RouteInv, RouteType
<1> HIDE DEF d
<1> QED
  BY <1>2, <1>3, <1>4, ArriveInv

LEMMA RepeatRoute ==
  ASSUME RouteInv, Repeat
  PROVE  RouteInv'
<1>1. held \in Signed /\ held' = NoDelivery /\ Arrive(held, FALSE) /\ UNCHANGED <<done, acked>>
  BY DEF Repeat, RouteInv, RouteType
<1> QED
  BY <1>1, ArriveInv

LEMMA RouteStep ==
  ASSUME RouteInv, [Next]_vars
  PROVE  RouteInv'
<1>1. ASSUME NEW r \in Requests, HandlerFails(r) PROVE RouteInv'
  <2>1. Answer(r) /\ UNCHANGED <<held, done, acked>>
    BY <1>1 DEF HandlerFails
  <2> QED
    BY <2>1, AnswerInv
<1>2. ASSUME NEW k \in Clients \ {Vendor}, Visit(k) PROVE RouteInv'
  BY <1>2, RouteStutter DEF Visit
<1>3. CASE UNCHANGED vars
  BY <1>3, RouteStutter DEF vars
<1> QED
  BY <1>1, <1>2, <1>3, AttemptRoute, RepeatRoute, VerifyRoute, HandleInv, TickRoute, RestartRoute
  DEF Next, Serve

LEMMA LimiterStep ==
  ASSUME LimiterInv, [Next]_vars
  PROVE  LimiterInv'
<1>1. \/ UNCHANGED limiter \/ LimiterTick \/ LimiterRestart
      \/ \E k \in Clients, ok \in BOOLEAN : RateLimit(k, ok)
  <2>1. ASSUME NEW e \in Events, Attempt(e)
        PROVE  \E ok \in BOOLEAN : RateLimit(Vendor, ok)
    BY <2>1 DEF Attempt, Arrive
  <2>2. Repeat => \E ok \in BOOLEAN : RateLimit(Vendor, ok)
    BY DEF Repeat, Arrive
  <2>3. ASSUME NEW r \in Requests, Serve(r) \/ HandlerFails(r) PROVE UNCHANGED limiter
    BY <2>3 DEF Serve, Verify, Handle, HandlerFails
  <2> QED
    BY <2>1, <2>2, <2>3, RouteAssumption DEF Next, Visit, Restart, Tick, vars
<1> QED
  BY <1>1, LimiterStutter, LimiterTickInv, LimiterRestartInv, RateLimitInv

LEMMA IngestStep ==
  ASSUME IngestInv, RouteInv, [Next]_vars
  PROVE  IngestInv'
<1>1. ASSUME NEW r \in Requests, Verify(r) PROVE IngestInv'
  <2> DEFINE d == req[r].delivery
  <2>1. d \in Signed
    BY <1>1, RequestUnderway DEF Verify
  <2>2. CASE WithinWindow(d) /\ ~Replayed(d)
    <3>1. d \in Deliveries
      BY <2>1, <2>2, IngestAssumption DEF Signed, Deliveries, Ages, WithinWindow
    <3>2. Remember(d)
      BY <1>1, <2>2 DEF Verify
    <3> QED
      BY <2>2, <3>1, <3>2, RememberInv
  <2>3. CASE ~(WithinWindow(d) /\ ~Replayed(d))
    BY <1>1, <2>3, IngestStutter DEF Verify
  <2> QED
    BY <2>2, <2>3
<1>2. \/ UNCHANGED ingest \/ IngestTick \/ IngestRestart \/ \E r \in Requests : Verify(r)
  BY DEF Next, Attempt, Repeat, Visit, Serve, Handle, HandlerFails, Restart, Tick, vars
<1> QED
  BY <1>1, <1>2, IngestStutter, IngestTickInv, IngestRestartInv

\* Whatever requests interleave, and however often the network repeats one, a handler fails
\* or the process restarts, the limiter, the cache and the requests keep their invariants.
THEOREM IngestInvariant == Spec => [](LimiterInv /\ IngestInv /\ RouteInv)
<1>1. Init => LimiterInv /\ IngestInv /\ RouteInv
  BY LimiterInitInv, IngestInitInv, RouteInit DEF Init
<1>2. LimiterInv /\ IngestInv /\ RouteInv /\ [Next]_vars
        => (LimiterInv /\ IngestInv /\ RouteInv)'
  BY LimiterStep, IngestStep, RouteStep
<1> QED
  BY <1>1, <1>2, PTL DEF Spec

\* No client gets more than limit requests through in one window, however the requests of any
\* number of clients and the evictions they cause interleave, as long as its counter was kept.
THEOREM LimitIsKept == Spec => []LimitHolds
<1>1. LimiterInv => LimitHolds
  BY DEF LimiterInv, LimitHolds
<1> QED
  BY <1>1, IngestInvariant, PTL

\* The same signed bytes are not accepted a second time within the tolerance of the first,
\* at any age, unless the process restarted or live entries had to be shed.
THEOREM NoReplayAccepted == Spec => []TakenOnce
<1>1. IngestInv => TakenOnce
  BY DEF IngestInv, TakenOnce
<1> QED
  BY <1>1, IngestInvariant, PTL

\* A 2xx means that every handler has completed for the event, whatever requests for the
\* same event run beside it.
THEOREM AcknowledgedIsHandled == Spec => []AckedIsHandled
<1>1. RouteInv => AckedIsHandled
  BY DEF RouteInv
<1> QED
  BY <1>1, IngestInvariant, PTL

\* A flood of clients or of deliveries degrades coverage and never the bound on memory: the
\* two stores stay within MAX_BUCKETS and MAX_ENTRIES (memory-store.ts:10-12, replay.ts:31).
THEOREM StoresAreBounded == Spec => [](Len(buckets) <= MaxBuckets /\ Len(seen) <= MaxEntries)
<1>1. LimiterInv /\ IngestInv => Len(buckets) <= MaxBuckets /\ Len(seen) <= MaxEntries
  BY DEF LimiterInv, IngestInv
<1> QED
  BY <1>1, IngestInvariant, PTL

=============================================================================
