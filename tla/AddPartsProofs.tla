--------------------------- MODULE AddPartsProofs ---------------------------
(***************************************************************************)
(* Theorems about AddParts, for any registries of any parts and releases,  *)
(* any number of commands, and any number of workers and files of a        *)
(* download.                                                               *)
(***************************************************************************)
EXTENDS AddParts, FiniteSetTheorems, TLAPS

LEMMA MajorType ==
  ASSUME reg \in Registries, NEW at \in Pins, NEW cap, NEW q \in Offers(reg, at, cap)
  PROVE  MajorOf(reg, q, at[q], cap) \in Nat
<1>1. q \in Parts /\ at[q] \in Releases /\ cap \in CapsOf(reg, q, at[q])
  BY DEF Offers, Pins
<1>2. reg.provides[q][at[q]] \subseteq [cap : Capabilities, major : Nat]
  BY <1>1, AddAssumption
<1>3. \E o \in reg.provides[q][at[q]] : o.cap = cap
  BY <1>1 DEF CapsOf
<1>4. (CHOOSE o \in reg.provides[q][at[q]] : o.cap = cap) \in reg.provides[q][at[q]]
  BY <1>3
<1> QED BY <1>2, <1>4 DEF MajorOf

-----------------------------------------------------------------------------
(* The plan                                                                *)

\* A plan puts before a part what it requires and is not installed.
LEMMA PlanFacts ==
  ASSUME reg \in Registries, NEW wants, latest \in [Parts -> Releases],
         Resolve(reg, latest, pins, wants) # Refusal
  PROVE  /\ Resolve(reg, latest, pins, wants) \in Seq(Parts)
         /\ \A i \in 1..Len(Resolve(reg, latest, pins, wants)) :
              \A w \in reg.requires[Resolve(reg, latest, pins, wants)[i]]
                                   [latest[Resolve(reg, latest, pins, wants)[i]]] :
                \/ Offers(reg, pins, w.cap) # {}
                \/ \E j \in 1..i : Meets(Resolve(reg, latest, pins, wants)[j], latest, w)
<1> DEFINE ps == Candidates(reg, latest, pins, wants)
           plans == UNION {Orders(ps, round) : round \in Rounds(reg, latest, pins, ps)}
           plan == Resolve(reg, latest, pins, wants)
<1>1. ~Unmet(reg, latest, pins, wants \cup Requirements(reg, latest, ps)) /\ plan \in plans
  BY DEF Resolve
<1>2. PICK round \in Rounds(reg, latest, pins, ps) : plan \in Orders(ps, round)
  BY <1>1
<1>3. ps \subseteq Parts /\ IsFiniteSet(ps) /\ Cardinality(ps) \in Nat
  <2>1. ps \subseteq Parts
    BY DEF Candidates
  <2> QED BY <2>1, RegistryAssumption, FS_Subset, FS_CardinalityType
<1> HIDE DEF ps, plans, plan
<1> DEFINE n == Cardinality(ps)
<1>4. /\ plan \in [1..n -> ps] /\ \A p \in ps : \E i \in 1..n : plan[i] = p
      /\ \A i, j \in 1..n : i < j =>
           round[plan[i]] < round[plan[j]] \/ (round[plan[i]] = round[plan[j]] /\ plan[i] < plan[j])
  BY <1>2 DEF Orders
<1>5. /\ round \in [ps -> 1..n]
      /\ \A p \in ps : Ready(reg, latest, pins, p, {q \in ps : round[q] < round[p]})
  BY <1>2, <1>3 DEF Rounds
<1>6. plan \in Seq(Parts) /\ Len(plan) = n
  BY <1>3, <1>4
<1>7. ASSUME NEW i \in 1..Len(plan), NEW w \in reg.requires[plan[i]][latest[plan[i]]],
             Offers(reg, pins, w.cap) = {}
      PROVE  \E j \in 1..i : Meets(plan[j], latest, w)
  <2>1. i \in 1..n /\ plan[i] \in ps
    BY <1>4, <1>6, <1>7
  <2>2. w \in Requirements(reg, latest, ps)
    BY <2>1 DEF Requirements
  <2>3. PICK q \in Offers(reg, latest, w.cap) : ~(MajorOf(reg, q, latest[q], w.cap) < w.major)
    BY <1>1, <1>7, <2>2 DEF Unmet, IsInstalled
  <2>4. Offers(reg, latest, w.cap) \subseteq {r \in ps : round[r] < round[plan[i]]} \cup {plan[i]}
    BY <1>5, <1>7, <2>1 DEF Ready, IsInstalled
  <2>5. PICK j \in 1..n : plan[j] = q
    BY <1>4, <2>1, <2>3, <2>4
  <2>6. Meets(q, latest, w)
    <3>1. latest \in Pins
      BY DEF Pins
    <3>2. MajorOf(reg, q, latest[q], w.cap) \in Nat
      BY <2>3, <3>1, MajorType
    <3>3. w.major \in Nat
      <4>1. plan[i] \in Parts /\ latest[plan[i]] \in Releases
        BY <1>3, <2>1
      <4> QED BY <4>1, AddAssumption
    <3> QED BY <2>3, <3>2, <3>3 DEF Meets
  <2>7. CASE q = plan[i]
    <3>1. i \in 1..i
      BY <1>3, <2>1
    <3> QED BY <2>6, <2>7, <3>1
  <2>8. CASE round[q] < round[plan[i]]
    <3>1. ~(i < j)
      <4>1. i < j => round[plan[i]] < round[q] \/ round[plan[i]] = round[q]
        BY <1>4, <2>1, <2>5
      <4>2. q \in ps
        BY <1>4, <2>5
      <4>3. round[q] \in 1..n /\ round[plan[i]] \in 1..n
        BY <1>5, <2>1, <4>2
      <4> QED BY <1>3, <2>8, <4>1, <4>3
    <3>2. j \in 1..i
      BY <1>3, <2>1, <3>1
    <3> QED BY <2>5, <2>6, <3>2
  <2> QED BY <2>3, <2>4, <2>7, <2>8
<1> QED BY <1>6, <1>7 DEF plan

-----------------------------------------------------------------------------
(* Ranks: numbers of parts that put what a part requires before it         *)

LEMMA LeastNat ==
  ASSUME NEW T \in SUBSET Nat, T # {}
  PROVE  \E n \in T : \A k \in T : n <= k
<1> DEFINE below == {0..n : n \in T}
<1>1. below # {} /\ below \subseteq FiniteSubsetsOf(Nat)
  <2>1. \A n \in T : IsFiniteSet(0..n) /\ 0..n \in SUBSET Nat
    BY FS_Interval
  <2>2. \A n \in T : 0..n \in FiniteSubsetsOf(Nat)
    BY <2>1 DEF FiniteSubsetsOf
  <2> QED BY <2>2
<1>2. IsWellFoundedOn(StrictSubsetOrdering(Nat), FiniteSubsetsOf(Nat))
  BY FS_StrictSubsetOrderingWellFounded
<1>3. PICK least \in below : \A s \in below : ~(<<s, least>> \in StrictSubsetOrdering(Nat))
  <2> HIDE DEF below
  <2> QED BY <1>1, <1>2, WFMin
<1>4. PICK n \in T : least = 0..n
  OBVIOUS
<1>5. ASSUME NEW k \in T, k < n PROVE FALSE
  <2>1. 0..k \subseteq 0..n /\ n \notin 0..k /\ n \in 0..n
    BY <1>5
  <2>2. 0..k \in SUBSET Nat /\ 0..n \in SUBSET Nat
    OBVIOUS
  <2>3. <<0..k, 0..n>> \in StrictSubsetOrdering(Nat)
    BY <2>1, <2>2 DEF StrictSubsetOrdering
  <2> QED BY <1>3, <1>4, <2>3
<1> QED BY <1>5

\* What a part requires and is not installed has a lower rank, or is the part itself.
Ranks(db, at, has, ps) ==
  {rank \in [ps -> Nat \ {0}] :
     \A p \in ps : Ready(db, at, has, p, {q \in ps : rank[q] < rank[p]})}

LEMMA ReadyGrows ==
  ASSUME NEW db, NEW at, NEW has, NEW p, NEW few, NEW more, few \subseteq more,
         Ready(db, at, has, p, few)
  PROVE  Ready(db, at, has, p, more)
BY DEF Ready

\* The lowest rank of each part is a ranking, and its round.
LEMMA LowestRank ==
  ASSUME NEW db, NEW at, NEW has, NEW ps, Ranks(db, at, has, ps) # {}
  PROVE  \E low \in Ranks(db, at, has, ps) :
           \A rank \in Ranks(db, at, has, ps), p \in ps : low[p] <= rank[p]
<1> PICK ranks : ranks = Ranks(db, at, has, ps)
  OBVIOUS
<1>1. \A rank \in ranks : /\ rank \in [ps -> Nat \ {0}]
                         /\ \A p \in ps : Ready(db, at, has, p, {q \in ps : rank[q] < rank[p]})
  BY DEF Ranks
<1> DEFINE Values(p) == {rank[p] : rank \in ranks}
           low == [p \in ps |-> CHOOSE n \in Values(p) : \A k \in Values(p) : n <= k]
<1>2. ASSUME NEW p \in ps
      PROVE  low[p] \in Values(p) /\ \A k \in Values(p) : low[p] <= k
  <2>1. Values(p) \in SUBSET Nat /\ Values(p) # {}
    BY <1>1
  <2>2. \E n \in Values(p) : \A k \in Values(p) : n <= k
    <3> HIDE DEF Values
    <3> QED BY <2>1, LeastNat
  <2>3. low[p] = CHOOSE n \in Values(p) : \A k \in Values(p) : n <= k
    OBVIOUS
  <2> HIDE DEF Values, low
  <2> QED BY <2>2, <2>3
<1>3. ASSUME NEW p \in ps
      PROVE  /\ \E rank \in ranks : low[p] = rank[p]
             /\ \A rank \in ranks : low[p] <= rank[p]
  BY <1>2 DEF Values
<1>4. low \in [ps -> Nat \ {0}]
  <2>1. \A p \in ps : low[p] \in Nat \ {0}
    <3> HIDE DEF low
    <3> QED BY <1>1, <1>3
  <2> QED BY <2>1
<1> HIDE DEF low
<1>5. ASSUME NEW p \in ps
      PROVE  Ready(db, at, has, p, {q \in ps : low[q] < low[p]})
  <2>1. PICK rank \in ranks : low[p] = rank[p]
    BY <1>3
  <2>2. {q \in ps : rank[q] < rank[p]} \subseteq {q \in ps : low[q] < low[p]}
    <3> SUFFICES ASSUME NEW q \in ps, rank[q] < rank[p] PROVE low[q] < low[p]
      OBVIOUS
    <3>1. low[q] <= rank[q]
      BY <1>3
    <3>2. low[q] \in Nat /\ low[p] \in Nat /\ rank[q] \in Nat
      BY <1>1, <1>4
    <3> QED BY <2>1, <3>1, <3>2
  <2> QED BY <1>1, <2>2, ReadyGrows
<1>6. low \in ranks
  BY <1>4, <1>5 DEF Ranks
<1> QED BY <1>3, <1>6

\* No rank lower than the number of parts is left out.
LEMMA RanksAreDense ==
  ASSUME NEW db, NEW at, NEW has, NEW ps, IsFiniteSet(ps), NEW low \in Ranks(db, at, has, ps),
         \A rank \in Ranks(db, at, has, ps), p \in ps : low[p] <= rank[p]
  PROVE  low \in [ps -> 1..Cardinality(ps)]
<1>1. /\ low \in [ps -> Nat \ {0}] /\ Cardinality(ps) \in Nat
      /\ \A p \in ps : Ready(db, at, has, p, {q \in ps : low[q] < low[p]})
  BY FS_CardinalityType DEF Ranks
<1>2. ASSUME NEW p \in ps, Cardinality(ps) < low[p] PROVE FALSE
  <2>1. PICK k \in 1..low[p] : \A q \in ps : low[q] # k
    <3> SUFFICES ASSUME \A k \in 1..low[p] : \E q \in ps : low[q] = k PROVE FALSE
      OBVIOUS
    <3> DEFINE bearer == [k \in 1..low[p] |-> CHOOSE q \in ps : low[q] = k]
    <3>1. \A k \in 1..low[p] : bearer[k] \in ps /\ low[bearer[k]] = k
      OBVIOUS
    <3>2. bearer \in [1..low[p] -> ps]
      BY <3>1
    <3>3. low[p] \in Nat /\ IsFiniteSet(1..low[p]) /\ Cardinality(1..low[p]) = low[p]
      <4>1. low[p] \in Nat /\ low[p] > 0
        BY <1>1
      <4> QED BY <4>1, FS_Interval
    <3> HIDE DEF bearer
    <3>4. \E x, y \in 1..low[p] : x # y /\ bearer[x] = bearer[y]
      BY <1>2, <3>2, <3>3, FS_PigeonHole
    <3> QED BY <3>1, <3>4
  <2> DEFINE rank == [q \in ps |-> IF low[q] > k THEN low[q] - 1 ELSE low[q]]
  <2>2. rank \in [ps -> Nat \ {0}]
    BY <1>1, <2>1
  <2>3. ASSUME NEW r \in ps
        PROVE  Ready(db, at, has, r, {q \in ps : rank[q] < rank[r]})
    <3>1. {q \in ps : low[q] < low[r]} \subseteq {q \in ps : rank[q] < rank[r]}
      <4> SUFFICES ASSUME NEW q \in ps, low[q] < low[r] PROVE rank[q] < rank[r]
        OBVIOUS
      <4>1. low[q] \in Nat /\ low[r] \in Nat /\ k \in Nat /\ low[q] # k /\ low[r] # k
        BY <1>1, <2>1
      <4> QED BY <4>1
    <3> HIDE DEF rank
    <3> QED BY <1>1, <3>1, ReadyGrows
  <2>4. rank[p] < low[p]
    <3>1. low[p] \in Nat /\ low[p] > k
      BY <1>1, <2>1
    <3> QED BY <3>1
  <2>5. rank \in Ranks(db, at, has, ps) /\ rank[p] \in Nat
    <3> HIDE DEF rank
    <3> QED BY <2>2, <2>3 DEF Ranks
  <2> HIDE DEF rank
  <2>6. low[p] <= rank[p] /\ low[p] \in Nat
    BY <1>1, <2>5
  <2> QED BY <2>4, <2>5, <2>6
<1>3. \A p \in ps : low[p] \in 1..Cardinality(ps)
  BY <1>1, <1>2
<1> QED BY <1>1, <1>3

\* Parts that can be ranked can be placed in rounds.
LEMMA RoundsExist ==
  ASSUME NEW db, NEW at, NEW has, NEW ps, IsFiniteSet(ps), Ranks(db, at, has, ps) # {}
  PROVE  Rounds(db, at, has, ps) # {}
<1>1. PICK low \in Ranks(db, at, has, ps) :
        \A rank \in Ranks(db, at, has, ps), p \in ps : low[p] <= rank[p]
  BY LowestRank
<1>2. low \in [ps -> 1..Cardinality(ps)] /\ Cardinality(ps) \in Nat
  BY <1>1, RanksAreDense, FS_CardinalityType
<1>3. \A p \in ps : Ready(db, at, has, p, {q \in ps : low[q] < low[p]})
  BY DEF Ranks
<1>4. ASSUME NEW p \in ps, NEW n \in 1..Cardinality(ps), low[p] <= n
      PROVE  Ready(db, at, has, p, {q \in ps : low[q] < n})
  <2>1. {q \in ps : low[q] < low[p]} \subseteq {q \in ps : low[q] < n}
    BY <1>2, <1>4
  <2> QED BY <1>3, <2>1, ReadyGrows
<1>5. ASSUME NEW p \in ps, NEW n \in 1..Cardinality(ps), ~(low[p] <= n),
             Ready(db, at, has, p, {q \in ps : low[q] < n})
      PROVE  FALSE
  <2> DEFINE rank == [low EXCEPT ![p] = n]
  <2>1. rank \in [ps -> Nat \ {0}] /\ rank[p] = n /\ \A q \in ps \ {p} : rank[q] = low[q]
    BY <1>2
  <2> HIDE DEF rank
  <2>2. \A q \in ps : rank[q] <= low[q]
    BY <1>2, <1>5, <2>1
  <2>3. ASSUME NEW r \in ps
        PROVE  Ready(db, at, has, r, {q \in ps : rank[q] < rank[r]})
    <3>1. CASE r = p
      <4>1. {q \in ps : low[q] < n} \subseteq {q \in ps : rank[q] < rank[r]}
        <5> SUFFICES ASSUME NEW q \in ps, low[q] < n PROVE rank[q] < rank[r]
          OBVIOUS
        <5>1. q # p
          BY <1>2, <1>5
        <5> QED BY <2>1, <3>1, <5>1
      <4> QED BY <1>5, <3>1, <4>1, ReadyGrows
    <3>2. CASE r # p
      <4>1. {q \in ps : low[q] < low[r]} \subseteq {q \in ps : rank[q] < rank[r]}
        <5> SUFFICES ASSUME NEW q \in ps, low[q] < low[r] PROVE rank[q] < rank[r]
          OBVIOUS
        <5>1. rank[q] <= low[q] /\ rank[r] = low[r]
          BY <2>1, <2>2, <3>2
        <5>2. rank[q] \in Nat /\ low[q] \in Nat /\ low[r] \in Nat
          BY <1>2, <2>1
        <5> QED BY <5>1, <5>2
      <4> QED BY <1>3, <4>1, ReadyGrows
    <3> QED BY <3>1, <3>2
  <2>4. rank \in Ranks(db, at, has, ps)
    BY <2>1, <2>3 DEF Ranks
  <2>5. low[p] <= rank[p]
    BY <1>1, <2>4
  <2> QED BY <1>5, <2>1, <2>5
<1>6. low \in Rounds(db, at, has, ps)
  BY <1>2, <1>4, <1>5 DEF Rounds
<1> QED BY <1>6

-----------------------------------------------------------------------------
(* Orders                                                                  *)

\* Parts in rounds can be put in order, and an order has each of them.
LEMMA OrdersExist ==
  ASSUME NEW ps \in SUBSET Parts, NEW round \in [ps -> 1..Cardinality(ps)]
  PROVE  Orders(ps, round) # {}
<1> PICK n : n = Cardinality(ps)
  OBVIOUS
<1>1. IsFiniteSet(ps) /\ n \in Nat /\ ps \subseteq Nat /\ round \in [ps -> 1..n]
  BY RegistryAssumption, FS_Subset, FS_CardinalityType
<1> DEFINE Before(q, p) == round[q] < round[p] \/ (round[q] = round[p] /\ q <= p)
           UpTo(p) == {q \in ps : Before(q, p)}
           place == [p \in ps |-> Cardinality(UpTo(p))]
<1>2. \A p, q, r \in ps : /\ Before(p, q) \/ Before(q, p)
                         /\ Before(p, p)
                         /\ (Before(p, q) /\ Before(q, p) => p = q)
                         /\ (Before(p, q) /\ Before(q, r) => Before(p, r))
  <2> SUFFICES ASSUME NEW p \in ps, NEW q \in ps, NEW r \in ps
               PROVE  /\ Before(p, q) \/ Before(q, p)
                      /\ Before(p, p)
                      /\ (Before(p, q) /\ Before(q, p) => p = q)
                      /\ (Before(p, q) /\ Before(q, r) => Before(p, r))
    OBVIOUS
  <2>1. /\ round[p] \in Nat /\ round[q] \in Nat /\ round[r] \in Nat
        /\ p \in Nat /\ q \in Nat /\ r \in Nat
    BY <1>1
  <2> QED BY <2>1
<1>3. ASSUME NEW p \in ps, NEW q \in ps, Before(q, p), q # p
      PROVE  Cardinality(UpTo(q)) < Cardinality(UpTo(p))
  <2>1. UpTo(q) \subseteq UpTo(p) /\ p \in UpTo(p) /\ p \notin UpTo(q)
    <3> HIDE DEF Before
    <3> QED BY <1>2, <1>3
  <2>2. IsFiniteSet(UpTo(p))
    <3>1. UpTo(p) \in SUBSET ps
      OBVIOUS
    <3> HIDE DEF UpTo
    <3> QED BY <1>1, <3>1, FS_Subset
  <2> HIDE DEF UpTo
  <2>3. /\ IsFiniteSet(UpTo(q)) /\ Cardinality(UpTo(q)) <= Cardinality(UpTo(p))
        /\ (Cardinality(UpTo(p)) = Cardinality(UpTo(q)) => UpTo(p) = UpTo(q))
    BY <2>1, <2>2, FS_Subset
  <2>4. Cardinality(UpTo(p)) \in Nat /\ Cardinality(UpTo(q)) \in Nat
    BY <2>2, <2>3, FS_CardinalityType
  <2> QED BY <2>1, <2>3, <2>4
<1>4. ASSUME NEW p \in ps
      PROVE  Cardinality(UpTo(p)) \in 1..n
  <2>1. UpTo(p) \in SUBSET ps /\ p \in UpTo(p)
    BY <1>2
  <2> HIDE DEF UpTo
  <2>2. IsFiniteSet(UpTo(p)) /\ Cardinality(UpTo(p)) <= n
    BY <1>1, <2>1, FS_Subset
  <2>3. Cardinality(UpTo(p)) \in Nat /\ Cardinality(UpTo(p)) # 0
    BY <2>1, <2>2, FS_CardinalityType, FS_EmptySet
  <2> QED BY <1>1, <2>2, <2>3
<1>5. place \in [ps -> 1..n] /\ \A p \in ps : place[p] = Cardinality(UpTo(p))
  BY <1>4
<1> HIDE DEF place, UpTo
<1>6. \A p, q \in ps : ~Before(p, q) => place[q] < place[p]
  <2> HIDE DEF Before
  <2> QED BY <1>2, <1>3, <1>5
<1> HIDE DEF Before
<1>7. place \in Injection(ps, 1..n)
  <2>1. ASSUME NEW p \in ps, NEW q \in ps, place[p] = place[q] PROVE p = q
    <3>1. place[p] \in Nat /\ place[q] \in Nat
      BY <1>5
    <3>2. Before(p, q) /\ Before(q, p)
      BY <1>6, <2>1, <3>1
    <3> QED BY <1>2, <3>2
  <2> QED BY <1>5, <2>1 DEF Injection, IsInjective
<1>8. place \in Surjection(ps, 1..n)
  <2>1. IsFiniteSet(1..n) /\ Cardinality(1..n) = n
    BY <1>1, FS_Interval
  <2> QED BY <1>7, <2>1, FS_Injection
<1> DEFINE order == [i \in 1..n |-> CHOOSE p \in ps : place[p] = i]
<1>9. \A i \in 1..n : order[i] \in ps /\ place[order[i]] = i
  BY <1>8 DEF Surjection
<1>10. order \in [1..n -> ps] /\ DOMAIN order = 1..n
  BY <1>9
<1> HIDE DEF order
<1>11. \A p \in ps : \E i \in 1..n : order[i] = p
  <2> SUFFICES ASSUME NEW p \in ps PROVE order[place[p]] = p /\ place[p] \in 1..n
    OBVIOUS
  <2>1. place[p] \in 1..n /\ order[place[p]] \in ps /\ place[order[place[p]]] = place[p]
    BY <1>5, <1>9
  <2> QED BY <1>7, <2>1 DEF Injection, IsInjective
<1>12. ASSUME NEW i \in 1..n, NEW j \in 1..n, i < j
       PROVE  \/ round[order[i]] < round[order[j]]
              \/ (round[order[i]] = round[order[j]] /\ order[i] < order[j])
  <2>1. order[i] \in ps /\ order[j] \in ps /\ place[order[i]] = i /\ place[order[j]] = j
    BY <1>9
  <2>2. Before(order[i], order[j])
    <3>1. ~(j < i)
      BY <1>12
    <3> QED BY <1>6, <2>1, <3>1
  <2>3. order[i] # order[j]
    BY <1>12, <2>1
  <2>4. order[i] \in Nat /\ order[j] \in Nat
    BY <1>1, <2>1
  <2> QED BY <2>2, <2>3, <2>4 DEF Before
<1>13. order \in Orders(ps, round)
  BY <1>10, <1>11, <1>12 DEF Orders
<1> QED BY <1>13

-----------------------------------------------------------------------------
(* Resolving again                                                         *)

LEMMA CandidatesClosed ==
  ASSUME NEW db, NEW at, NEW has, NEW wants
  PROVE  /\ Candidates(db, at, has, wants) \subseteq Parts
         /\ Providers(db, at, has, wants \cup Requirements(db, at, Candidates(db, at, has, wants)))
              \subseteq Candidates(db, at, has, wants)
<1> PICK ps : ps = Candidates(db, at, has, wants)
  OBVIOUS
<1>1. ps \subseteq Parts
  BY DEF Candidates
<1>2. ASSUME NEW q \in Providers(db, at, has, wants \cup Requirements(db, at, ps))
      PROVE  q \in ps
  <2>1. q \in Parts
    BY DEF Providers, Offers
  <2>2. ASSUME NEW qs \in SUBSET Parts,
               Providers(db, at, has, wants \cup Requirements(db, at, qs)) \subseteq qs
        PROVE  q \in qs
    <3>1. ps \subseteq qs
      BY <2>2 DEF Candidates
    <3>2. Requirements(db, at, ps) \subseteq Requirements(db, at, qs)
      BY <3>1 DEF Requirements
    <3>3. q \in Providers(db, at, has, wants \cup Requirements(db, at, qs))
      BY <3>2 DEF Providers
    <3> QED BY <2>2, <3>3
  <2> QED BY <2>1, <2>2 DEF Candidates
<1> QED BY <1>1, <1>2

\* A plan has the candidates, all of which can be had and placed in rounds.
LEMMA PlanHas ==
  ASSUME NEW db, NEW at, NEW has, NEW wants, NEW ps, ps = Candidates(db, at, has, wants),
         Resolve(db, at, has, wants) # Refusal
  PROVE  /\ ToSet(Resolve(db, at, has, wants)) = ps
         /\ ~Unmet(db, at, has, wants \cup Requirements(db, at, ps))
         /\ Rounds(db, at, has, ps) # {}
<1> PICK plan : plan = Resolve(db, at, has, wants)
  OBVIOUS
<1>1. /\ ~Unmet(db, at, has, wants \cup Requirements(db, at, ps))
      /\ plan \in UNION {Orders(ps, round) : round \in Rounds(db, at, has, ps)}
  BY DEF Resolve
<1>2. PICK round \in Rounds(db, at, has, ps) : plan \in Orders(ps, round)
  BY <1>1
<1>3. plan \in [1..Cardinality(ps) -> ps] /\ \A p \in ps : \E i \in DOMAIN plan : plan[i] = p
  BY <1>2 DEF Orders
<1>4. ToSet(plan) = ps
  BY <1>3 DEF ToSet
<1> QED BY <1>1, <1>2, <1>4

\* Candidates that can be had and ranked make a plan.
LEMMA PlanExists ==
  ASSUME NEW db, NEW at, NEW has, NEW wants, NEW ps, ps = Candidates(db, at, has, wants),
         ~Unmet(db, at, has, wants \cup Requirements(db, at, ps)),
         Ranks(db, at, has, ps) # {}
  PROVE  Resolve(db, at, has, wants) # Refusal /\ ToSet(Resolve(db, at, has, wants)) = ps
<1>1. ps \in SUBSET Parts /\ IsFiniteSet(ps)
  BY CandidatesClosed, RegistryAssumption, FS_Subset
<1>2. PICK round \in Rounds(db, at, has, ps) : TRUE
  BY <1>1, RoundsExist
<1>3. round \in [ps -> 1..Cardinality(ps)]
  BY <1>2 DEF Rounds
<1>4. Orders(ps, round) # {}
  BY <1>1, <1>3, OrdersExist
<1> DEFINE plans == UNION {Orders(ps, turn) : turn \in Rounds(db, at, has, ps)}
<1>5. plans # {}
  BY <1>2, <1>4
<1>6. \A plan \in plans : plan # Refusal
  <2> SUFFICES ASSUME NEW plan \in plans, plan = Refusal PROVE FALSE
    OBVIOUS
  <2>1. plan \in [1..Cardinality(ps) -> ps]
    BY DEF Orders
  <2>2. DOMAIN plan = {1} /\ plan[1] = None
    BY DEF Refusal
  <2>3. None \in ps
    BY <2>1, <2>2
  <2> QED BY <1>1, <2>3, RegistryAssumption
<1> HIDE DEF plans
<1>7. Resolve(db, at, has, wants) = CHOOSE plan \in plans : TRUE
  BY <1>5 DEF Resolve, plans
<1>8. Resolve(db, at, has, wants) # Refusal
  BY <1>5, <1>6, <1>7
<1> QED BY <1>8, PlanHas

\* Once a part of the plan is installed whose requirements are, the rest is the plan.
LEMMA PlanGoesOn ==
  ASSUME NEW db, NEW at \in [Parts -> Releases], NEW has \in Pins, NEW wants, OneOffer(db, at),
         Resolve(db, at, has, wants) # Refusal,
         NEW t \in ToSet(Resolve(db, at, has, wants)), has[t] = None,
         Ready(db, at, has, t, {}),
         NEW then \in Pins, then[t] = at[t], \A q \in Parts \ {t} : then[q] = has[q]
  PROVE  /\ Resolve(db, at, then, wants) # Refusal
         /\ ToSet(Resolve(db, at, then, wants)) = ToSet(Resolve(db, at, has, wants)) \ {t}
<1> PICK ps : ps = Candidates(db, at, has, wants)
  OBVIOUS
<1>1. /\ ToSet(Resolve(db, at, has, wants)) = ps /\ t \in ps
      /\ ~Unmet(db, at, has, wants \cup Requirements(db, at, ps))
      /\ Rounds(db, at, has, ps) # {}
  BY PlanHas
<1>2. /\ ps \subseteq Parts /\ t \in Parts
      /\ Providers(db, at, has, wants \cup Requirements(db, at, ps)) \subseteq ps
  BY <1>1, CandidatesClosed
<1>3. at[t] # None
  BY <1>2, RegistryAssumption
<1>4. \A cap : /\ Offers(db, has, cap) \subseteq Offers(db, then, cap)
               /\ (t \in Offers(db, at, cap) => t \in Offers(db, then, cap))
               /\ Offers(db, then, cap) \subseteq Offers(db, has, cap) \cup {t}
               /\ (t \in Offers(db, then, cap) => t \in Offers(db, at, cap))
  BY <1>2, <1>3 DEF Offers, CapsOf
<1>5. \A cap : t \in Offers(db, at, cap) => Offers(db, at, cap) = {t}
  <2> SUFFICES ASSUME NEW cap, t \in Offers(db, at, cap) PROVE Offers(db, at, cap) = {t}
    OBVIOUS
  <2>1. PICK o \in db.provides[t][at[t]] : o.cap = cap
    BY DEF Offers, CapsOf
  <2> QED BY <1>2, <2>1 DEF OneOffer
<1>6. \A cap : IsInstalled(db, has, cap) => IsInstalled(db, then, cap)
  BY <1>4 DEF IsInstalled
<1>7. \A cap : IsInstalled(db, then, cap) =>
               IsInstalled(db, has, cap) \/ Offers(db, at, cap) = {t}
  BY <1>4, <1>5 DEF IsInstalled
<1>8. \A cap : t \in Offers(db, at, cap) => IsInstalled(db, then, cap)
  BY <1>4 DEF IsInstalled
<1>9. Candidates(db, at, then, wants) = ps \ {t}
  <2>1. Providers(db, at, then, wants \cup Requirements(db, at, ps \ {t})) \subseteq ps \ {t}
    <3> SUFFICES ASSUME NEW w \in wants \cup Requirements(db, at, ps \ {t}),
                        ~IsInstalled(db, then, w.cap), NEW q \in Offers(db, at, w.cap)
                 PROVE  q \in ps \ {t}
      BY DEF Providers
    <3>1. w \in wants \cup Requirements(db, at, ps)
      BY DEF Requirements
    <3>2. ~IsInstalled(db, has, w.cap)
      BY <1>6
    <3>3. q \in Providers(db, at, has, wants \cup Requirements(db, at, ps))
      BY <3>1, <3>2 DEF Providers
    <3> QED BY <1>2, <1>8, <3>3
  <2>2. Candidates(db, at, then, wants) \subseteq ps \ {t}
    <3>1. ps \ {t} \in SUBSET Parts
      BY <1>2
    <3> QED BY <2>1, <3>1 DEF Candidates
  <2>3. ASSUME NEW p \in ps \ {t} PROVE p \in Candidates(db, at, then, wants)
    <3>1. ASSUME NEW qs \in SUBSET Parts,
                 Providers(db, at, then, wants \cup Requirements(db, at, qs)) \subseteq qs
          PROVE  p \in qs
      <4>1. Providers(db, at, has, wants \cup Requirements(db, at, qs \cup {t})) \subseteq qs \cup {t}
        <5> SUFFICES ASSUME NEW w \in wants \cup Requirements(db, at, qs \cup {t}),
                            ~IsInstalled(db, has, w.cap), NEW q \in Offers(db, at, w.cap)
                     PROVE  q \in qs \cup {t}
          BY DEF Providers
        <5>1. CASE IsInstalled(db, then, w.cap)
          BY <1>7, <5>1
        <5>2. CASE w \in db.requires[t][at[t]]
          BY <5>2 DEF Ready
        <5>3. CASE ~IsInstalled(db, then, w.cap) /\ w \in wants \cup Requirements(db, at, qs)
          <6>1. q \in Providers(db, at, then, wants \cup Requirements(db, at, qs))
            BY <5>3 DEF Providers
          <6> QED BY <3>1, <6>1
        <5>4. w \in db.requires[t][at[t]] \/ w \in wants \cup Requirements(db, at, qs)
          BY DEF Requirements
        <5> QED BY <5>1, <5>2, <5>3, <5>4
      <4>2. qs \cup {t} \in SUBSET Parts
        BY <1>2
      <4>3. ps \subseteq qs \cup {t}
        BY <4>1, <4>2 DEF Candidates
      <4> QED BY <4>3
    <3>2. p \in Parts
      BY <1>2
    <3> QED BY <3>1, <3>2 DEF Candidates
  <2> QED BY <2>2, <2>3
<1>10. ~Unmet(db, at, then, wants \cup Requirements(db, at, ps \ {t}))
  <2>1. wants \cup Requirements(db, at, ps \ {t}) \subseteq wants \cup Requirements(db, at, ps)
    BY DEF Requirements
  <2> QED BY <1>1, <1>6, <2>1 DEF Unmet
<1>11. Ranks(db, at, then, ps \ {t}) # {}
  <2>1. PICK round \in Rounds(db, at, has, ps) : TRUE
    BY <1>1
  <2>2. IsFiniteSet(ps) /\ Cardinality(ps) \in Nat
    BY <1>2, RegistryAssumption, FS_Subset, FS_CardinalityType
  <2>3. /\ round \in [ps -> 1..Cardinality(ps)]
        /\ \A p \in ps : Ready(db, at, has, p, {q \in ps : round[q] < round[p]})
    BY <2>1, <2>2 DEF Rounds
  <2> DEFINE rank == [p \in ps \ {t} |-> round[p]]
  <2>4. rank \in [ps \ {t} -> Nat \ {0}]
    BY <2>2, <2>3
  <2>5. ASSUME NEW p \in ps \ {t}
        PROVE  Ready(db, at, then, p, {q \in ps \ {t} : rank[q] < rank[p]})
    <3> SUFFICES ASSUME NEW w \in db.requires[p][at[p]], ~IsInstalled(db, then, w.cap)
                 PROVE  Offers(db, at, w.cap) \subseteq {q \in ps \ {t} : rank[q] < rank[p]} \cup {p}
      BY DEF Ready
    <3>1. Offers(db, at, w.cap) \subseteq {q \in ps : round[q] < round[p]} \cup {p}
      BY <1>6, <2>3 DEF Ready
    <3>2. t \notin Offers(db, at, w.cap)
      BY <1>8
    <3> QED BY <3>1, <3>2
  <2>6. rank \in Ranks(db, at, then, ps \ {t})
    <3> HIDE DEF rank
    <3> QED BY <2>4, <2>5 DEF Ranks
  <2> QED BY <2>6
<1>12. Resolve(db, at, then, wants) # Refusal /\ ToSet(Resolve(db, at, then, wants)) = ps \ {t}
  <2>1. PICK rest : rest = ps \ {t}
    OBVIOUS
  <2>2. /\ rest = Candidates(db, at, then, wants) /\ Ranks(db, at, then, rest) # {}
        /\ ~Unmet(db, at, then, wants \cup Requirements(db, at, rest))
    BY <1>9, <1>10, <1>11, <2>1
  <2>3. Resolve(db, at, then, wants) # Refusal /\ ToSet(Resolve(db, at, then, wants)) = rest
    BY <2>2, PlanExists
  <2> QED BY <2>1, <2>3
<1> QED BY <1>1, <1>12

-----------------------------------------------------------------------------
(* Requirements                                                            *)

LEMMA CommandFacts ==
  ASSUME AddInv
  PROVE  /\ cmd \in Command /\ Nothing \in Pins
         /\ \A s \in {"idle", "add", "fetch", "vendor"} : [cmd EXCEPT !.pc = s] \in Command
         /\ [cmd EXCEPT !.pc = "idle", !.failed = TRUE] \in Command
<1>1. cmd \in Command /\ Nothing \in Pins
  BY DEF AddInv, StateType, Nothing, Pins
<1>2. ASSUME NEW k \in Command, NEW s \in {"idle", "add", "fetch", "vendor"}
      PROVE  [k EXCEPT !.pc = s] \in Command /\ [k EXCEPT !.failed = TRUE] \in Command
  BY <1>2 DEF Command
<1>3. [[cmd EXCEPT !.pc = "idle"] EXCEPT !.failed = TRUE] \in Command
  BY <1>1, <1>2
<1> QED BY <1>1, <1>2, <1>3

LEMMA InitInv == Init => AddInv
<1> SUFFICES ASSUME Init PROVE AddInv
  OBVIOUS
<1>1. Nothing \in Pins /\ Installed = {} /\ pins = Nothing
  BY DEF Init, Nothing, Pins, Installed
<1>2. cmd \in Command /\ cmd.pc = "idle"
  <2>1. cmd = [pc |-> "idle", wants |-> {}, asked |-> Nothing, todo |-> <<>>, planned |-> Nothing,
               found |-> {}, rel |-> None, astray |-> FALSE, failed |-> FALSE]
    BY DEF Init, Begun
  <2> QED BY <1>1, <2>1 DEF Command
<1>3. older \in [Parts -> SUBSET Parts] /\ adrift = {} /\ latest \in [Parts -> Releases] /\ reg \in Registries
  BY DEF Init
<1> QED BY <1>1, <1>2, <1>3 DEF AddInv, StateType, PlanHolds, TargetIsNew, RequirementsMet

\* Steps that leave parts.lock alone.
LEMMA QuietStep ==
  ASSUME AddInv, StateType', UNCHANGED <<reg, repo>>, PlanHolds', TargetIsNew'
  PROVE  AddInv'
BY DEF AddInv, RequirementsMet, Installed, Offers, MajorOf, CapsOf, repo

\* A command that goes on, or ends, with the plan it has.
LEMMA GoOnStep ==
  ASSUME AddInv, latest' \in [Parts -> Releases], UNCHANGED <<reg, repo>>,
         \/ UNCHANGED cmd
         \/ cmd' = [cmd EXCEPT !.pc = "idle"]
         \/ cmd' = [cmd EXCEPT !.pc = "idle", !.failed = TRUE]
         \/ cmd.pc = "fetch" /\ cmd' = [cmd EXCEPT !.pc = "vendor"]
  PROVE  AddInv'
<1>1. cmd \in Command /\ cmd' \in Command
  BY CommandFacts
<1>2. /\ cmd'.todo = cmd.todo /\ cmd'.planned = cmd.planned /\ cmd'.found = cmd.found
      /\ cmd'.rel = cmd.rel /\ cmd'.astray = cmd.astray
      /\ (cmd'.pc = cmd.pc \/ cmd'.pc = "idle" \/ (cmd.pc = "fetch" /\ cmd'.pc = "vendor"))
  BY <1>1 DEF Command
<1>3. StateType'
  BY <1>1 DEF AddInv, StateType, repo
<1>4. PlanHolds'
  BY <1>2 DEF AddInv, PlanHolds, Provided, Meets, Installed, Offers, MajorOf, CapsOf, repo
<1>5. TargetIsNew'
  BY <1>2 DEF AddInv, TargetIsNew, Installed, Target, repo
<1> QED BY <1>3, <1>4, <1>5, QuietStep

LEMMA BeginStep ==
  ASSUME AddInv, NEW caps \in SUBSET Capabilities, NEW asked \in Askings, Begin(caps, asked)
  PROVE  AddInv'
<1>1. asked \in Pins
  BY DEF Askings, Pins
<1>2. cmd' \in Command /\ cmd'.pc = "resolve"
  <2>1. {[cap |-> c, major |-> 0] : c \in caps} \subseteq [cap : Capabilities, major : Nat]
    OBVIOUS
  <2> QED BY <1>1, <2>1, CommandFacts DEF Begin, Begun, Command
<1>3. StateType' /\ UNCHANGED <<reg, repo>>
  BY <1>2 DEF Begin, AddInv, StateType, repo, registry
<1> QED BY <1>2, <1>3, QuietStep DEF PlanHolds, TargetIsNew

LEMMA PlanStep ==
  ASSUME AddInv, Plan
  PROVE  AddInv'
<1>1. cmd.pc = "resolve" /\ UNCHANGED <<reg, latest, repo>>
  BY DEF Plan, registry
<1> DEFINE plan == Resolve(reg, latest, pins, cmd.wants)
<1>2. CASE plan = Refusal
  BY <1>1, <1>2, GoOnStep DEF Plan, AddInv, StateType
<1>3. CASE plan # Refusal
  <2>1. /\ plan \in Seq(Parts)
        /\ \A i \in 1..Len(plan) : \A w \in reg.requires[plan[i]][latest[plan[i]]] :
             Offers(reg, pins, w.cap) # {} \/ \E j \in 1..i : Meets(plan[j], latest, w)
    BY <1>3, PlanFacts DEF AddInv, StateType
  <2>2. cmd' = [cmd EXCEPT !.pc = "add", !.todo = plan, !.planned = latest, !.found = Installed]
    BY <1>3 DEF Plan
  <2> HIDE DEF plan
  <2>3. cmd \in Command /\ latest \in Pins /\ latest \in [Parts -> Releases] /\ Installed \subseteq Parts
    BY DEF AddInv, StateType, Pins, Installed
  <2>4. /\ cmd' \in Command /\ cmd'.pc = "add" /\ cmd'.todo = plan /\ cmd'.planned = latest
        /\ cmd'.found = Installed
    BY <2>1, <2>2, <2>3 DEF Command
  <2>5. ASSUME NEW i \in 1..Len(plan), NEW w \in reg.requires[plan[i]][latest[plan[i]]]
        PROVE  Provided(w, i)'
    <3>1. \A q : Offers(reg, pins, w.cap)' = Offers(reg, pins, w.cap) /\ Meets(q, latest, w)' = Meets(q, latest, w)
      BY <1>1 DEF Meets, Offers, MajorOf, CapsOf, repo
    <3>2. CASE Offers(reg, pins, w.cap) # {}
      <4>1. PICK q : q \in Offers(reg, pins, w.cap)
        BY <3>2
      <4>2. q \in Installed
        BY <4>1 DEF Offers, Installed
      <4> QED BY <1>1, <2>4, <4>1, <4>2 DEF Provided, repo, Offers, CapsOf
    <3>3. CASE \E j \in 1..i : Meets(plan[j], latest, w)
      <4>1. PICK j \in 1..i : Meets(plan[j], latest, w)
        BY <3>3
      <4>2. PICK p \in Parts : p = plan[j] /\ Meets(p, latest, w)
        BY <4>1 DEF Meets, Offers
      <4>3. Meets(p, cmd.planned, w)'
        BY <1>1, <2>4, <4>2 DEF Meets, Offers, MajorOf, CapsOf
      <4> QED BY <2>4, <4>1, <4>2, <4>3 DEF Provided
    <3> QED BY <2>1, <3>2, <3>3
  <2>6. PlanHolds'
    BY <1>1, <2>4, <2>5 DEF PlanHolds, Installed, repo
  <2>7. StateType' /\ TargetIsNew'
    BY <1>1, <2>4 DEF AddInv, StateType, TargetIsNew, repo
  <2> QED BY <1>1, <2>6, <2>7, QuietStep
<1> QED BY <1>2, <1>3

LEMMA AddStep ==
  ASSUME AddInv, Add
  PROVE  AddInv'
<1>1. cmd.pc = "add" /\ UNCHANGED <<reg, latest, repo>> /\ cmd \in Command
  BY CommandFacts DEF Add, registry
<1>2. CASE cmd' = [cmd EXCEPT !.pc = "idle"] \/ Fail
  BY <1>1, <1>2, GoOnStep DEF Fail, AddInv, StateType
<1>3. CASE /\ cmd.todo # <<>> /\ Target \notin Installed
           /\ cmd' = [cmd EXCEPT !.pc = "fetch", !.rel = ReleaseOf(Target),
                                 !.astray = @ \/ ReleaseOf(Target) # cmd.planned[Target]]
  <2>1. Target \in Parts
    BY <1>1, <1>3 DEF Command, Target
  <2>2. ReleaseOf(Target) \in Releases
    BY <1>1, <2>1 DEF ReleaseOf, Command, Pins, AddInv, StateType
  <2>3. /\ cmd' \in Command /\ cmd'.pc = "fetch" /\ cmd'.rel = ReleaseOf(Target)
        /\ cmd'.todo = cmd.todo /\ cmd'.planned = cmd.planned /\ cmd'.found = cmd.found
        /\ (~cmd'.astray => ~cmd.astray /\ cmd'.rel = cmd.planned[Target])
    <3>1. (cmd.astray \/ ReleaseOf(Target) # cmd.planned[Target]) \in BOOLEAN
      OBVIOUS
    <3> HIDE DEF Target
    <3> QED BY <1>1, <1>3, <2>2, <3>1 DEF Command
  <2>4. StateType'
    BY <1>1, <2>3 DEF AddInv, StateType, repo
  <2>5. PlanHolds'
    BY <1>1, <2>3 DEF AddInv, PlanHolds, Provided, Meets, Installed, Offers, MajorOf, CapsOf, repo
  <2>6. TargetIsNew'
    BY <1>1, <1>3, <2>2, <2>3 DEF TargetIsNew, Target, Installed, repo
  <2> QED BY <1>1, <2>4, <2>5, <2>6, QuietStep
<1> QED BY <1>2, <1>3 DEF Add

\* The part added has what it requires, and those there before keep what they have.
LEMMA VendorStep ==
  ASSUME AddInv, Vendor
  PROVE  AddInv'
<1> PICK t : t = Target
  OBVIOUS
<1> PICK todo : todo = cmd.todo
  OBVIOUS
<1>1. /\ cmd.pc = "vendor" /\ UNCHANGED <<reg, latest>> /\ cmd \in Command
      /\ pins' = [pins EXCEPT ![t] = cmd.rel] /\ older' = [older EXCEPT ![t] = cmd.found]
      /\ adrift' = IF cmd.astray THEN adrift \cup {t} ELSE adrift
      /\ StateType
  BY CommandFacts DEF Vendor, registry, AddInv
<1>2. /\ todo # <<>> /\ todo \in Seq(Parts) /\ t = todo[1] /\ t \in Parts
      /\ Tail(todo) \in Seq(Parts)
  BY <1>1 DEF AddInv, TargetIsNew, Target, Command
<1>3. cmd.rel \in Releases /\ pins[t] = None /\ (~cmd.astray => cmd.rel = cmd.planned[t])
  BY <1>1, <1>2 DEF AddInv, TargetIsNew, Installed
<1>4. /\ pins' \in Pins /\ pins'[t] = cmd.rel
      /\ \A q \in Parts \ {t} : pins'[q] = pins[q]
  BY <1>1, <1>2, <1>3 DEF StateType, Pins
<1>5. Installed' = Installed \cup {t}
  <2>1. cmd.rel # None
    BY <1>3, RegistryAssumption
  <2> QED BY <1>2, <1>4, <2>1 DEF Installed
<1>6. \A cap : \A q \in Offers(reg, pins, cap) :
        /\ q \in Parts /\ q # t /\ pins'[q] = pins[q] /\ q \in Offers(reg, pins, cap)'
  <2> SUFFICES ASSUME NEW cap, NEW q \in Offers(reg, pins, cap)
               PROVE  /\ q \in Parts /\ q # t /\ pins'[q] = pins[q]
                      /\ q \in Offers(reg, pins, cap)'
    OBVIOUS
  <2>1. q \in Parts /\ q # t
    BY <1>3 DEF Offers
  <2> QED BY <1>1, <1>4, <2>1 DEF Offers, CapsOf
<1>7. ASSUME NEW w, NEW q \in Parts, Meets(q, cmd.planned, w), pins'[q] = cmd.planned[q]
      PROVE  q \in Offers(reg, pins, w.cap)' /\ MajorOf(reg, q, pins[q], w.cap)' >= w.major
  BY <1>1, <1>7 DEF Meets, Offers, MajorOf, CapsOf
<1>8. \/ cmd' = [cmd EXCEPT !.pc = "add", !.todo = Tail(todo)]
      \/ cmd' = [cmd EXCEPT !.pc = "idle", !.failed = TRUE]
  BY DEF Vendor, Fail
<1>9. /\ cmd' \in Command /\ cmd'.planned = cmd.planned /\ cmd'.found = cmd.found
      /\ cmd'.astray = cmd.astray
      /\ (cmd'.pc = "idle" \/ (cmd'.pc = "add" /\ cmd'.todo = Tail(todo)))
  <2>1. CASE cmd' = [cmd EXCEPT !.pc = "add", !.todo = Tail(todo)]
    BY <1>1, <1>2, <2>1 DEF Command
  <2>2. CASE cmd' = [cmd EXCEPT !.pc = "idle", !.failed = TRUE]
    <3>1. cmd' \in Command
      BY <2>2, CommandFacts
    <3> QED BY <1>1, <2>2, <3>1 DEF Command
  <2> QED BY <1>8, <2>1, <2>2
<1>10. StateType'
  <2>1. older' \in [Parts -> SUBSET Parts] /\ adrift' \subseteq Parts
    <3>1. cmd.found \in SUBSET Parts
      BY <1>1 DEF Command
    <3> QED BY <1>1, <1>2, <3>1 DEF StateType
  <2> QED BY <1>1, <1>4, <1>9, <2>1 DEF StateType
<1>11. ASSUME ~cmd.astray, NEW i \in 1..Len(todo),
              NEW w \in reg.requires[todo[i]][cmd.planned[todo[i]]]
       PROVE  Provided(w, i)
  BY <1>1, <1>11 DEF AddInv, PlanHolds
<1>12. PlanHolds'
  <2>1. SUFFICES ASSUME cmd'.pc = "add", cmd'.todo = Tail(todo)
                 PROVE  PlanHolds'
    BY <1>9 DEF PlanHolds
  <2>2. cmd'.found \subseteq Installed'
    BY <1>1, <1>5, <1>9 DEF AddInv, PlanHolds
  <2>3. ASSUME ~cmd.astray, NEW i \in 1..Len(Tail(todo)),
               NEW w \in reg.requires[Tail(todo)[i]][cmd.planned[Tail(todo)[i]]]
        PROVE  Provided(w, i)'
    <3>1. /\ i \in Nat /\ i + 1 \in 1..Len(todo) /\ Tail(todo)[i] = todo[i + 1]
          /\ \A j \in 1..i : Tail(todo)[j] = todo[j + 1]
      BY <1>2, <2>3
    <3>2. Provided(w, i + 1)
      BY <1>11, <2>3, <3>1
    <3>3. CASE \E p \in cmd.found : p \in Offers(reg, pins, w.cap)
      BY <1>6, <1>9, <3>3 DEF Provided
    <3>4. CASE \E p \in Parts : /\ Meets(p, cmd.planned, w)
                              /\ (pins[p] = cmd.planned[p] \/ \E j \in 1..i + 1 : todo[j] = p)
      <4>1. PICK p \in Parts : /\ Meets(p, cmd.planned, w)
                               /\ (pins[p] = cmd.planned[p] \/ \E j \in 1..i + 1 : todo[j] = p)
        BY <3>4
      <4>2. Meets(p, cmd.planned, w)'
        BY <1>1, <1>9, <4>1 DEF Meets, Offers, MajorOf, CapsOf
      <4>3. pins'[p] = cmd.planned[p] \/ \E j \in 1..i : Tail(todo)[j] = p
        <5>1. CASE p = t
          BY <1>3, <1>4, <2>3, <5>1
        <5>2. CASE p # t /\ pins[p] = cmd.planned[p]
          BY <1>4, <5>2
        <5>3. CASE p # t /\ \E j \in 1..i + 1 : todo[j] = p
          <6>1. PICK j \in 1..i + 1 : todo[j] = p
            BY <5>3
          <6>2. j # 1
            BY <1>2, <5>3, <6>1
          <6>3. j - 1 \in 1..i /\ (j - 1) + 1 = j
            BY <3>1, <6>1, <6>2
          <6> QED BY <3>1, <6>1, <6>3
        <5> QED BY <4>1, <5>1, <5>2, <5>3
      <4> QED BY <1>9, <2>1, <4>2, <4>3 DEF Provided
    <3> QED BY <3>2, <3>3, <3>4 DEF Provided
  <2> QED BY <1>1, <1>9, <2>1, <2>2, <2>3 DEF PlanHolds
<1>13. TargetIsNew'
  BY <1>9 DEF TargetIsNew
<1>14. RequirementsMet'
  <2> SUFFICES ASSUME NEW p \in Installed', p \notin adrift', NEW w \in reg.requires[p][pins'[p]]
               PROVE  \E q \in Offers(reg, pins, w.cap)' :
                        q \in older'[p] \/ MajorOf(reg, q, pins[q], w.cap)' >= w.major
    BY <1>1 DEF RequirementsMet
  <2>1. CASE p # t
    <3>1. p \in Installed /\ p \in Parts /\ p \notin adrift /\ pins'[p] = pins[p] /\ older'[p] = older[p]
      BY <1>1, <1>4, <1>5, <2>1 DEF Installed, StateType
    <3>2. PICK q \in Offers(reg, pins, w.cap) :
            q \in older[p] \/ MajorOf(reg, q, pins[q], w.cap) >= w.major
      BY <3>1 DEF AddInv, RequirementsMet
    <3>3. MajorOf(reg, q, pins[q], w.cap)' = MajorOf(reg, q, pins[q], w.cap)
      BY <1>1, <1>6, <3>2 DEF MajorOf
    <3> QED BY <1>6, <3>1, <3>2, <3>3
  <2>2. CASE p = t
    <3>1. ~cmd.astray /\ pins'[p] = cmd.planned[t] /\ older'[p] = cmd.found
      BY <1>1, <1>2, <1>3, <1>4, <2>2 DEF StateType
    <3>2. 1 \in 1..Len(todo)
      BY <1>2
    <3>3. Provided(w, 1)
      BY <1>2, <1>11, <2>2, <3>1, <3>2
    <3>4. CASE \E q \in cmd.found : q \in Offers(reg, pins, w.cap)
      BY <1>6, <3>1, <3>4
    <3>5. CASE \E q \in Parts : /\ Meets(q, cmd.planned, w)
                              /\ (pins[q] = cmd.planned[q] \/ \E j \in 1..1 : todo[j] = q)
      <4>1. PICK q \in Parts : Meets(q, cmd.planned, w) /\ (pins[q] = cmd.planned[q] \/ q = t)
        BY <1>2, <3>5
      <4>2. pins'[q] = cmd.planned[q]
        BY <1>4, <2>2, <3>1, <4>1
      <4> QED BY <1>7, <4>1, <4>2
    <3> QED BY <3>3, <3>4, <3>5 DEF Provided
  <2> QED BY <2>1, <2>2
<1> QED BY <1>10, <1>12, <1>13, <1>14 DEF AddInv

LEMMA NextStep ==
  ASSUME AddInv, [Next]_vars
  PROVE  AddInv'
<1>1. latest \in [Parts -> Releases]
  BY DEF AddInv, StateType
<1>2. ASSUME NEW p \in Parts, Publish(p) PROVE AddInv'
  <2>1. latest' \in [Parts -> Releases]
    BY <1>1, <1>2 DEF Publish
  <2> QED BY <1>2, <2>1, GoOnStep DEF Publish
<1>3. CASE Refuse
  BY <1>1, <1>3, GoOnStep DEF Refuse, registry
<1>4. CASE AddFails
  BY <1>1, <1>4, GoOnStep DEF AddFails, Fail, registry
<1>5. CASE Fetched
  BY <1>1, <1>5, GoOnStep DEF Fetched, Fail, registry
<1>6. CASE VendorFails
  BY <1>1, <1>6, GoOnStep DEF VendorFails, Fail, registry
<1>7. ASSUME NEW w \in Workers, Fetching(w) PROVE AddInv'
  BY <1>1, <1>7, GoOnStep DEF Fetching, registry
<1>8. CASE UNCHANGED vars
  BY <1>1, <1>8, GoOnStep DEF vars, registry
<1> QED BY <1>2, <1>3, <1>4, <1>5, <1>6, <1>7, <1>8,
           BeginStep, PlanStep, AddStep, VendorStep DEF Next

-----------------------------------------------------------------------------
(* Resuming                                                                *)

LEMMA ResumeInit == Init => ResumeInv
<1> SUFFICES ASSUME Init PROVE ResumeInv
  OBVIOUS
<1>1. cmd.pc = "idle" /\ cmd.failed = FALSE
  BY DEF Init, Begun
<1> QED BY <1>1 DEF Init, ResumeInv

\* A command that goes on, or ends, with the plan it has.
LEMMA ResumeGoOn ==
  ASSUME AddInv, ResumeInv, OneOffer(reg, latest)', UNCHANGED <<reg, pins>>,
         \/ UNCHANGED cmd
         \/ cmd' = [cmd EXCEPT !.pc = "idle"]
         \/ (cmd.pc \in {"add", "fetch", "vendor"}
                /\ cmd' = [cmd EXCEPT !.pc = "idle", !.failed = TRUE])
         \/ (cmd.pc = "fetch" /\ cmd' = [cmd EXCEPT !.pc = "vendor"])
  PROVE  ResumeInv'
<1>1. cmd \in Command
  BY CommandFacts
<1>2. /\ cmd'.todo = cmd.todo /\ cmd'.planned = cmd.planned /\ cmd'.wants = cmd.wants
      /\ cmd'.astray = cmd.astray /\ (cmd'.pc = "resolve" => cmd.pc = "resolve" /\ cmd'.failed = cmd.failed)
      /\ (cmd'.pc \in {"add", "fetch", "vendor"} \/ cmd'.failed =>
             cmd.pc \in {"add", "fetch", "vendor"} \/ cmd.failed)
  BY <1>1 DEF Command
<1>3. Resumable => Resumable'
  BY <1>2 DEF Resumable
<1> QED BY <1>2, <1>3 DEF ResumeInv

\* No candidate is installed in the release the registry has latest.
LEMMA CandidatesAreNew ==
  ASSUME NEW db, NEW at \in [Parts -> Releases], NEW has, NEW wants,
         NEW p \in Candidates(db, at, has, wants)
  PROVE  has[p] # at[p]
<1> PICK ps : ps = Candidates(db, at, has, wants)
  OBVIOUS
<1>1. ps \subseteq Parts /\ Providers(db, at, has, wants \cup Requirements(db, at, ps)) \subseteq ps
  BY CandidatesClosed
<1>2. p \in Providers(db, at, has, wants \cup Requirements(db, at, ps))
  <2> SUFFICES ASSUME p \notin Providers(db, at, has, wants \cup Requirements(db, at, ps)) PROVE FALSE
    OBVIOUS
  <2>1. Providers(db, at, has, wants \cup Requirements(db, at, ps \ {p})) \subseteq ps \ {p}
    <3>1. Requirements(db, at, ps \ {p}) \subseteq Requirements(db, at, ps)
      BY DEF Requirements
    <3>2. Providers(db, at, has, wants \cup Requirements(db, at, ps \ {p}))
            \subseteq Providers(db, at, has, wants \cup Requirements(db, at, ps))
      BY <3>1 DEF Providers
    <3> QED BY <1>1, <3>2
  <2>2. ps \ {p} \in SUBSET Parts
    BY <1>1
  <2> QED BY <2>1, <2>2 DEF Candidates
<1>3. PICK w : ~IsInstalled(db, has, w.cap) /\ p \in Offers(db, at, w.cap)
  BY <1>2 DEF Providers
<1> QED BY <1>3 DEF IsInstalled, Offers

LEMMA ResumePlan ==
  ASSUME AddInv, ResumeInv, Plan
  PROVE  ResumeInv'
<1>1. cmd.pc = "resolve" /\ UNCHANGED <<reg, latest, pins>> /\ cmd \in Command /\ ~cmd.failed
  BY CommandFacts DEF Plan, registry, repo, ResumeInv
<1>2. OneOffer(reg, latest)' /\ OneOffer(reg, latest) /\ latest \in [Parts -> Releases]
  BY <1>1 DEF ResumeInv, OneOffer, Offers, CapsOf, AddInv, StateType
<1> PICK plan : plan = Resolve(reg, latest, pins, cmd.wants)
  OBVIOUS
<1>3. CASE plan = Refusal
  BY <1>1, <1>2, <1>3, ResumeGoOn DEF Plan
<1>4. CASE plan # Refusal
  <2>1. plan \in Seq(Parts) /\ ToSet(plan) = Candidates(reg, latest, pins, cmd.wants)
    BY <1>2, <1>4, PlanFacts, PlanHas DEF AddInv, StateType
  <2>2. \A p \in ToSet(plan) : pins[p] # latest[p]
    BY <1>2, <2>1, CandidatesAreNew
  <2>3. cmd' = [cmd EXCEPT !.pc = "add", !.todo = plan, !.planned = latest, !.found = Installed]
    BY <1>4 DEF Plan
  <2>4. /\ cmd'.todo = plan /\ cmd'.planned = latest /\ cmd'.wants = cmd.wants
        /\ cmd'.pc = "add"
    BY <1>1, <2>3 DEF Command
  <2>5. Resumable'
    BY <1>1, <1>4, <2>2, <2>4 DEF Resumable
  <2>6. cmd'.planned \in [Parts -> Releases] /\ OneOffer(reg, cmd.planned)'
    BY <1>1, <1>2, <2>4 DEF OneOffer, Offers, CapsOf
  <2> QED BY <1>2, <2>4, <2>5, <2>6 DEF ResumeInv
<1> QED BY <1>3, <1>4

LEMMA ResumeAdd ==
  ASSUME AddInv, ResumeInv, Add
  PROVE  ResumeInv'
<1>1. cmd.pc = "add" /\ UNCHANGED <<reg, latest, pins>> /\ cmd \in Command
  BY CommandFacts DEF Add, registry, repo
<1>2. OneOffer(reg, latest)'
  BY <1>1 DEF ResumeInv, OneOffer, Offers, CapsOf
<1>3. CASE cmd' = [cmd EXCEPT !.pc = "idle"] \/ Fail
  BY <1>1, <1>2, <1>3, ResumeGoOn DEF Fail
<1>4. CASE cmd' = [cmd EXCEPT !.pc = "fetch", !.rel = ReleaseOf(Target),
                              !.astray = @ \/ ReleaseOf(Target) # cmd.planned[Target]]
  <2>1. /\ cmd'.todo = cmd.todo /\ cmd'.planned = cmd.planned /\ cmd'.wants = cmd.wants
        /\ cmd'.pc = "fetch" /\ (~cmd'.astray => ~cmd.astray)
    BY <1>1, <1>4 DEF Command
  <2>2. Resumable => Resumable'
    BY <1>1, <2>1 DEF Resumable
  <2>3. OneOffer(reg, cmd.planned)'
    BY <1>1, <2>1 DEF ResumeInv, OneOffer, Offers, CapsOf
  <2> QED BY <1>1, <1>2, <2>1, <2>2, <2>3 DEF ResumeInv
<1> QED BY <1>3, <1>4 DEF Add

\* The part just pinned was to add, and what it requires is there.
LEMMA ResumeVendor ==
  ASSUME AddInv, ResumeInv, Vendor
  PROVE  ResumeInv'
<1> PICK t : t = Target
  OBVIOUS
<1> PICK todo : todo = cmd.todo
  OBVIOUS
<1>1. /\ cmd.pc = "vendor" /\ UNCHANGED <<reg, latest>> /\ cmd \in Command
      /\ pins' = [pins EXCEPT ![t] = cmd.rel] /\ pins \in Pins
  BY CommandFacts DEF Vendor, registry, AddInv, StateType
<1>2. todo # <<>> /\ todo \in Seq(Parts) /\ t = todo[1] /\ t \in Parts
  BY <1>1 DEF AddInv, TargetIsNew, Target, Command
<1>3. pins[t] = None /\ (~cmd.astray => cmd.rel = cmd.planned[t])
  BY <1>1, <1>2 DEF AddInv, TargetIsNew, Installed
<1>4. cmd.planned \in [Parts -> Releases] /\ OneOffer(reg, cmd.planned)
  BY <1>1 DEF ResumeInv
<1>5. \/ cmd' = [cmd EXCEPT !.pc = "add", !.todo = Tail(todo)]
      \/ cmd' = [cmd EXCEPT !.pc = "idle", !.failed = TRUE]
  BY DEF Vendor, Fail
<1>6. /\ cmd'.planned = cmd.planned /\ cmd'.wants = cmd.wants /\ cmd'.astray = cmd.astray
      /\ cmd'.pc # "resolve" /\ (cmd'.todo = todo \/ cmd'.todo = Tail(todo))
  BY <1>1, <1>5 DEF Command
<1>7. ASSUME ~cmd.astray PROVE Resumable'
  <2>1. pins' = [pins EXCEPT ![t] = cmd.planned[t]] /\ pins'[t] = cmd.planned[t]
    BY <1>1, <1>2, <1>3, <1>7 DEF Pins
  <2>2. /\ Resolve(reg, cmd.planned, pins, cmd.wants) # Refusal
        /\ ToSet(Resolve(reg, cmd.planned, pins, cmd.wants))
             = {p \in ToSet(todo) : pins[p] # cmd.planned[p]}
    BY <1>1, <1>7 DEF ResumeInv, Resumable
  <2>3. t \in ToSet(todo) /\ pins[t] # cmd.planned[t]
    <3>1. cmd.planned[t] \in Releases
      BY <1>2, <1>4
    <3> QED BY <1>2, <1>3, <3>1, RegistryAssumption DEF ToSet
  <2>4. Ready(reg, cmd.planned, pins, t, {})
    <3> SUFFICES ASSUME NEW w \in reg.requires[t][cmd.planned[t]]
                 PROVE  IsInstalled(reg, pins, w.cap) \/ Offers(reg, cmd.planned, w.cap) = {t}
      BY DEF Ready
    <3>1. 1 \in 1..Len(todo)
      BY <1>2
    <3>2. Provided(w, 1)
      BY <1>1, <1>2, <1>7, <3>1 DEF AddInv, PlanHolds
    <3>3. CASE \E p \in cmd.found : p \in Offers(reg, pins, w.cap)
      BY <3>3 DEF IsInstalled
    <3>4. CASE \E p \in Parts : /\ Meets(p, cmd.planned, w)
                              /\ (pins[p] = cmd.planned[p] \/ \E j \in 1..1 : todo[j] = p)
      <4>1. PICK p \in Parts : Meets(p, cmd.planned, w) /\ (pins[p] = cmd.planned[p] \/ p = t)
        BY <1>2, <3>4
      <4>2. p \in Offers(reg, cmd.planned, w.cap)
        BY <4>1 DEF Meets
      <4>3. PICK o \in reg.provides[p][cmd.planned[p]] : o.cap = w.cap
        BY <4>2 DEF Offers, CapsOf
      <4>4. Offers(reg, cmd.planned, w.cap) = {p}
        BY <1>4, <4>3 DEF OneOffer
      <4>5. CASE pins[p] = cmd.planned[p]
        BY <4>2, <4>5 DEF IsInstalled, Offers
      <4> QED BY <4>1, <4>4, <4>5
    <3> QED BY <3>2, <3>3, <3>4 DEF Provided
  <2>5. /\ Resolve(reg, cmd.planned, pins', cmd.wants) # Refusal
        /\ ToSet(Resolve(reg, cmd.planned, pins', cmd.wants))
             = ToSet(Resolve(reg, cmd.planned, pins, cmd.wants)) \ {t}
    <3> PICK db, at, has, then, wants :
          /\ db = reg /\ at = cmd.planned /\ has = pins /\ then = pins' /\ wants = cmd.wants
      OBVIOUS
    <3>1. t \in ToSet(Resolve(db, at, has, wants)) /\ Resolve(db, at, has, wants) # Refusal
      BY <2>2, <2>3
    <3>2. then \in Pins /\ then[t] = at[t] /\ \A q \in Parts \ {t} : then[q] = has[q]
      BY <1>1, <1>2, <1>4, <2>1 DEF Pins
    <3>3. at \in [Parts -> Releases] /\ has \in Pins /\ has[t] = None
      BY <1>1, <1>3, <1>4
    <3>4. OneOffer(db, at) /\ Ready(db, at, has, t, {})
      BY <1>4, <2>4
    <3>5. /\ Resolve(db, at, then, wants) # Refusal
          /\ ToSet(Resolve(db, at, then, wants)) = ToSet(Resolve(db, at, has, wants)) \ {t}
      BY <3>1, <3>2, <3>3, <3>4, PlanGoesOn
    <3> QED BY <3>5
  <2>6. ToSet(todo) \subseteq Parts /\ ToSet(Tail(todo)) \cup {t} = ToSet(todo)
    <3>1. ToSet(todo) \subseteq Parts
      BY <1>2 DEF ToSet
    <3>2. ASSUME NEW p \in ToSet(Tail(todo)) PROVE p \in ToSet(todo)
      <4>1. PICK i \in 1..Len(Tail(todo)) : Tail(todo)[i] = p
        BY <1>2, <3>2 DEF ToSet
      <4>2. i + 1 \in DOMAIN todo /\ todo[i + 1] = p
        BY <1>2, <4>1
      <4> QED BY <4>2 DEF ToSet
    <3>3. ASSUME NEW p \in ToSet(todo), p # t PROVE p \in ToSet(Tail(todo))
      <4>1. PICK i \in 1..Len(todo) : todo[i] = p
        BY <1>2, <3>3 DEF ToSet
      <4>2. i - 1 \in DOMAIN Tail(todo) /\ Tail(todo)[i - 1] = p
        BY <1>2, <3>3, <4>1
      <4> QED BY <4>2 DEF ToSet
    <3> QED BY <2>3, <3>1, <3>2, <3>3
  <2>7. \A p \in Parts \ {t} : pins'[p] = pins[p]
    BY <1>1, <2>1 DEF Pins
  <2>8. ToSet(cmd'.todo) \ {t} = ToSet(todo) \ {t} /\ ToSet(cmd'.todo) \subseteq Parts
    BY <1>6, <2>6
  <2>9. {p \in ToSet(cmd'.todo) : pins'[p] # cmd.planned[p]}
          = {p \in ToSet(todo) : pins[p] # cmd.planned[p]} \ {t}
    BY <2>1, <2>7, <2>8
  <2> QED BY <1>1, <1>6, <2>2, <2>5, <2>9 DEF Resumable
<1>8. OneOffer(reg, latest)'
  BY <1>1 DEF ResumeInv, OneOffer, Offers, CapsOf
<1>9. OneOffer(reg, cmd.planned)'
  BY <1>1, <1>4, <1>6 DEF OneOffer, Offers, CapsOf
<1> QED BY <1>4, <1>6, <1>7, <1>8, <1>9 DEF ResumeInv

LEMMA ResumeStep ==
  ASSUME AddInv, ResumeInv, [Next]_vars
  PROVE  ResumeInv'
<1>1. OneOffer(reg, latest)
  BY DEF ResumeInv
<1>2. ASSUME UNCHANGED <<reg, latest>> PROVE OneOffer(reg, latest)'
  BY <1>1, <1>2 DEF OneOffer, Offers, CapsOf
<1>3. ASSUME NEW p \in Parts, Publish(p) PROVE ResumeInv'
  <2>1. OneOffer(reg, latest)'
    BY <1>3 DEF Publish, OneOffer, Offers, CapsOf
  <2> QED BY <1>3, <2>1, ResumeGoOn DEF Publish, repo
<1>4. ASSUME NEW caps, NEW asked, Begin(caps, asked) PROVE ResumeInv'
  <2>1. cmd'.pc = "resolve" /\ cmd'.failed = FALSE
    BY <1>4 DEF Begin, Begun
  <2> QED BY <1>2, <1>4, <2>1 DEF Begin, registry, ResumeInv
<1>5. CASE Refuse
  BY <1>2, <1>5, ResumeGoOn DEF Refuse, registry, repo
<1>6. CASE AddFails
  BY <1>2, <1>6, ResumeGoOn DEF AddFails, Fail, registry, repo
<1>7. CASE Fetched
  BY <1>2, <1>7, ResumeGoOn DEF Fetched, Fail, registry, repo
<1>8. CASE VendorFails
  BY <1>2, <1>8, ResumeGoOn DEF VendorFails, Fail, registry, repo
<1>9. ASSUME NEW w \in Workers, Fetching(w) PROVE ResumeInv'
  BY <1>2, <1>9, ResumeGoOn DEF Fetching, registry, repo
<1>10. CASE UNCHANGED vars
  BY <1>2, <1>10, ResumeGoOn DEF vars, registry, repo
<1> QED BY <1>3, <1>4, <1>5, <1>6, <1>7, <1>8, <1>9, <1>10,
           ResumePlan, ResumeAdd, ResumeVendor DEF Next

-----------------------------------------------------------------------------
(* The temporary directory                                                 *)

\* Only workers at work write, and none is at work but while the command waits for all.
LEMMA TempStep ==
  ASSUME AddInv, TempInv, [Next]_vars
  PROVE  TempInv'
<1>1. cmd \in Command
  BY CommandFacts
<1>2. ASSUME UNCHANGED fetch, cmd.pc \notin {"fetch", "vendor"}
      PROVE  TempInv'
  BY <1>2 DEF TempInv, fetch, Settled
<1>3. ASSUME Cleanup, Settled
      PROVE  TempInv'
  BY <1>3 DEF TempInv, Cleanup, Settled
<1>4. ASSUME UNCHANGED <<fetch, cmd>>
      PROVE  TempInv'
  BY <1>4 DEF TempInv, fetch, Settled
<1>5. ASSUME NEW w \in Workers, Fetching(w)
      PROVE  TempInv'
  <2>1. worker[w].pc # "settled" /\ UNCHANGED cmd
    BY <1>5 DEF Fetching, Work, Take, Download, MakeDir, Write, Reject, DownloadFails, WriteFails
  <2>2. cmd.pc = "fetch"
    BY <2>1 DEF TempInv, Settled
  <2> QED BY <2>1, <2>2 DEF TempInv
<1>6. ASSUME Add
      PROVE  TempInv'
  <2>1. CASE UNCHANGED fetch
    BY <1>2, <1>6, <2>1 DEF Add
  <2>2. CASE cmd' = [cmd EXCEPT !.pc = "fetch", !.rel = ReleaseOf(Target),
                                !.astray = @ \/ ReleaseOf(Target) # cmd.planned[Target]]
    <3>1. cmd'.pc = "fetch"
      BY <1>1, <2>2 DEF Command
    <3> QED BY <3>1 DEF TempInv
  <2> QED BY <1>6, <2>1, <2>2 DEF Add
<1>7. ASSUME Fetched
      PROVE  TempInv'
  <2>1. Settled
    BY <1>7 DEF Fetched, Done
  <2>2. CASE Cleanup
    BY <1>3, <2>1, <2>2
  <2>3. CASE cmd' = [cmd EXCEPT !.pc = "vendor"] /\ UNCHANGED fetch
    <3>1. cmd'.pc = "vendor" /\ Settled'
      BY <1>1, <2>1, <2>3 DEF Command, Settled, fetch
    <3> QED BY <3>1 DEF TempInv
  <2> QED BY <1>7, <2>2, <2>3 DEF Fetched
<1>8. ASSUME Vendor \/ VendorFails
      PROVE  TempInv'
  BY <1>3, <1>8 DEF Vendor, VendorFails, TempInv
<1>9. ASSUME NEW p \in Parts, Publish(p)
      PROVE  TempInv'
  BY <1>4, <1>9 DEF Publish
<1>10. ASSUME NEW caps, NEW asked, Begin(caps, asked)
       PROVE  TempInv'
  BY <1>2, <1>10 DEF Begin
<1>11. ASSUME Plan \/ Refuse \/ AddFails
       PROVE  TempInv'
  BY <1>2, <1>11 DEF Plan, Refuse, AddFails
<1>12. CASE UNCHANGED vars
  BY <1>4, <1>12 DEF vars
<1> QED BY <1>5, <1>6, <1>7, <1>8, <1>9, <1>10, <1>11, <1>12 DEF Next

LEMMA TempStart == Init => TempInv
BY DEF Init, FetchInit, Resting, Settled, TempInv

-----------------------------------------------------------------------------
(* Theorems                                                                *)

\* The inductive invariants: the rest of a plan still finds what it requires and is what
\* resolving again would give, the part being added is new, and workers run only while
\* the command waits for them.
THEOREM AddInvariant == Spec => [](AddInv /\ ResumeInv /\ TempInv)
<1>1. Init => AddInv /\ ResumeInv /\ TempInv
  BY InitInv, ResumeInit, TempStart
<1>2. AddInv /\ ResumeInv /\ TempInv /\ [Next]_vars => (AddInv /\ ResumeInv /\ TempInv)'
  BY NextStep, ResumeStep, TempStep
<1> QED BY <1>1, <1>2, PTL DEF Spec

\* Whatever fails midway, whatever is published meanwhile and whatever is added later, a
\* part `partkit add` installed as planned has what it requires (add-parts.ts:10).
THEOREM NothingIsMissing == Spec => []RequirementsMet
<1>1. AddInv => RequirementsMet
  BY DEF AddInv
<1> QED BY <1>1, AddInvariant, PTL

\* `partkit add` run again after a failure resolves, and to exactly the parts of its plan
\* that are not pinned yet (add-parts.ts:205-206), whatever the registry, its requirements,
\* and where the first run failed.
THEOREM RerunsResume == Spec => []RerunResumes
<1>1. ResumeInv => RerunResumes
  BY DEF ResumeInv, RerunResumes, Resumable
<1> QED BY <1>1, AddInvariant, PTL

\* A command that ended left no temporary directory behind: fetchContent waits for every
\* worker before it throws, and then removes it (registry.ts:371-373).
THEOREM TempAlwaysGone == Spec => []TempIsGone
<1>1. TempInv => TempIsGone
  BY DEF TempInv, TempIsGone
<1> QED BY <1>1, AddInvariant, PTL

\* A part is never added over one that is installed, whether the plan had it or a later
\* command: `partkit add` only ever adds to parts.lock (add.ts:53-54).
THEOREM PinsAreKept == Spec => [][\A p \in Installed : pins'[p] = pins[p]]_pins
<1>1. AddInv /\ [Next]_vars => [\A p \in Installed : pins'[p] = pins[p]]_pins
  <2> SUFFICES ASSUME AddInv, [Next]_vars, pins' # pins
               PROVE  \A p \in Installed : pins'[p] = pins[p]
    BY DEF Installed
  <2>1. Vendor
    BY DEF Next, vars, repo, Publish, Begin, Plan, Refuse, Add, AddFails, Fetched, VendorFails, Fetching
  <2>2. Target \notin Installed
    BY <2>1 DEF Vendor, AddInv, TargetIsNew
  <2>3. \A p \in Parts : p # Target => pins'[p] = pins[p]
    BY <2>1 DEF Vendor, AddInv, StateType, Pins
  <2> QED BY <2>2, <2>3 DEF Installed
<1> QED BY <1>1, AddInvariant, PTL DEF Spec
=============================================================================
