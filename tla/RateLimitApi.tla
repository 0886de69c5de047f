---------------------------- MODULE RateLimitApi ----------------------------
(***************************************************************************)
(* ratelimit.api: the fixed-window limiter (part/src/index.ts) over the    *)
(* built-in store of counters (internal/memory-store.ts).                  *)
(*                                                                         *)
(* rateLimit reads the clock and counts in one turn of the event loop, so  *)
(* it is one step.  Time is relative: the place in the running window and  *)
(* what is left of a counter's life.  Rules are valid, headers are left    *)
(* out, and so is the degraded answer, which a store that fails alone can  *)
(* cause.                                                                  *)
(***************************************************************************)
EXTENDS Naturals, Sequences, FiniteSets

CONSTANTS
  Clients,     \* keys, as identify derives them
  Limit,       \* rule.limit
  Window,      \* rule.windowSeconds
  MaxBuckets   \* MAX_BUCKETS

ASSUME LimiterAssumption ==
  Limit \in Nat \ {0} /\ Window \in Nat \ {0} /\ MaxBuckets \in Nat \ {0}

VARIABLES
  phase,       \* seconds since the running window began
  buckets,     \* the Map of counters, in the order they were inserted
  granted,     \* granted[k]: requests let through in the running window, up to Limit + 1
  uncounted    \* keys whose counter of the running window is gone (history)

limiter == <<phase, buckets, granted, uncounted>>

LimiterInit ==
  /\ phase \in 0..Window - 1
  /\ buckets = <<>>
  /\ granted = [k \in Clients |-> 0] /\ uncounted = {}

Fresh(k) == [key |-> k, running |-> TRUE, count |-> 1, ttl |-> Window]

OfAnyone(b, k) == b.running                          \* mutant: a bucket of the window alone
OfAnyWindow(b, k) == b.key = k                       \* mutant: a bucket of the key alone
\* bucketKey: the key and the start of the window.
IsBucket(b, k) == b.key = k /\ b.running

At(k) == {i \in 1..Len(buckets) : IsBucket(buckets[i], k)}
Unexpired(b) == b.ttl > 0
Counter(k) == {i \in At(k) : Unexpired(buckets[i])}

\* A counter that ran out is written over where it stands.
Counted(k) ==
  IF Counter(k) # {}
    THEN [i \in 1..Len(buckets) |->
           IF i \in Counter(k) /\ buckets[i].count <= Limit
             THEN [buckets[i] EXCEPT !.count = @ + 1] ELSE buckets[i]]
  ELSE IF At(k) # {} THEN [i \in 1..Len(buckets) |-> IF i \in At(k) THEN Fresh(k) ELSE buckets[i]]
  ELSE Append(buckets, Fresh(k))

Alive(s) == {i \in 1..Len(s) : Unexpired(s[i])}

\* Over the cap expired counters go, and then the oldest.
Kept(s) == IF Len(s) > MaxBuckets
             THEN {i \in Alive(s) : Cardinality({j \in Alive(s) : j > i}) < MaxBuckets}
             ELSE 1..Len(s)

\* What is left of a sequence at the positions in K.
Rank(K, i) == Cardinality({j \in K : j < i})
Only(s, K) == [n \in 1..Cardinality(K) |-> s[CHOOSE i \in K : Rank(K, i) = n - 1]]

Evict(s) == Only(s, Kept(s))

Lives(s) == Cardinality(Alive(s))
Owners(s) == {k \in Clients : \E i \in 1..Len(s) : s[i].key = k /\ s[i].running}

\* increment: the count of k, and the store after it.
Increment(k) ==
  /\ buckets' = Evict(Counted(k))
  /\ uncounted' = IF Lives(Counted(k)) > MaxBuckets
                    THEN uncounted \cup (Owners(Counted(k)) \ Owners(buckets'))
                    ELSE uncounted
Count(k) == IF Counter(k) = {} THEN 1
            ELSE buckets[CHOOSE i \in Counter(k) : TRUE].count + 1

\* rateLimit of one request of k, which goes on if ok.
RateLimit(k, ok) ==
  /\ ok <=> Count(k) <= Limit
  /\ Increment(k)
  /\ granted' = IF ok /\ granted[k] <= Limit THEN [granted EXCEPT ![k] = @ + 1] ELSE granted
  /\ UNCHANGED phase

Aged(b) == [b EXCEPT !.ttl = IF @ = 0 THEN 0 ELSE @ - 1]
Past(b) == [b EXCEPT !.running = FALSE]

\* A second passes; a counter outlives its window, and keeps its count until it is swept.
LimiterTick ==
  IF phase + 1 < Window
    THEN /\ phase' = phase + 1
         /\ buckets' = [i \in 1..Len(buckets) |-> Aged(buckets[i])]
         /\ UNCHANGED <<granted, uncounted>>
    ELSE /\ phase' = 0
         /\ buckets' = [i \in 1..Len(buckets) |-> Past(Aged(buckets[i]))]
         /\ granted' = [k \in Clients |-> 0] /\ uncounted' = {}

\* A cold start begins with an empty store.
LimiterRestart ==
  /\ buckets' = <<>> /\ uncounted' = Clients
  /\ UNCHANGED <<phase, granted>>

\* The inductive invariant: a counter is unique in its window, outlives it, and has counted
\* every request that was let through.
Bucket == [key : Clients, running : BOOLEAN, count : 0..Limit + 1, ttl : 0..Window]

LimiterType ==
  /\ phase \in 0..Window - 1
  /\ buckets \in Seq(Bucket)
  /\ granted \in [Clients -> 0..Limit + 1]
  /\ uncounted \subseteq Clients

OneCounter(s) == \A i, j \in 1..Len(s) :
  s[i].running /\ s[j].running /\ s[i].key = s[j].key => i = j

OutlivesWindow(s) == \A i \in 1..Len(s) : s[i].running => phase + s[i].ttl >= Window

\* The counter of k in the running window stands at n or more.
HasCount(s, k, n) == \E i \in 1..Len(s) : s[i].key = k /\ s[i].running /\ s[i].count >= n

LimiterInv ==
  /\ LimiterType
  /\ Len(buckets) <= MaxBuckets
  /\ OneCounter(buckets) /\ OutlivesWindow(buckets)
  /\ \A k \in Clients \ uncounted :
       granted[k] <= Limit /\ (granted[k] > 0 => HasCount(buckets, k, granted[k]))

\* In one window a key is let through at most limit times (contract.json:28), unless its
\* counter was lost with the process or when more than MAX_BUCKETS counters were live.
LimitHolds == \A k \in Clients \ uncounted : granted[k] <= Limit
=============================================================================
