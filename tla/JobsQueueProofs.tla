--------------------------- MODULE JobsQueueProofs ---------------------------
(***************************************************************************)
(* Theorems about JobsQueue: no answered request is forgotten, and what is *)
(* not tried again had its attempts, for any number of requests, keys and  *)
(* workers, and any crashes and interventions.                             *)
(***************************************************************************)
EXTENDS JobsQueue, TLAPS

\* What a step leaves of the promises: a payload that goes from its job is done or ended
\* by hand, unless another job takes it on.
Kept ==
  /\ done \cup byHand \subseteq done' \cup byHand'
  /\ \A j \in Requests, n \in Requests :
       n \in jobs[j].carries => n \in jobs'[j].carries \/ n \in done' \cup byHand'

\* The fields of a job, one by one, for the provers.
LEMMA Fields ==
  ASSUME TypeOK, NEW j \in Requests
  PROVE  /\ jobs[j] \in JobType
         /\ jobs[j].attempts \in 0..MaxAttempts /\ jobs[j].tries \in Nat
         /\ jobs[j].carries \subseteq Requests
         /\ jobs[j].lock \in {"free", "held", "stale"}
         /\ jobs[j].there \in BOOLEAN /\ jobs[j].error \in BOOLEAN
BY DEF TypeOK, JobType

LEMMA NoJobType == NoJob \in JobType /\ ~NoJob.there /\ NoJob.carries = {}
                   /\ NoJob.lock = "free" /\ NoJob.attempts = 0 /\ NoJob.tries = 0
BY JobsAssumption DEF NoJob, JobType

LEMMA NewJobType ==
  ASSUME NEW key \in Keys \cup {None}, NEW carried \in SUBSET Requests
  PROVE  /\ Job(key, carried) \in JobType
         /\ Job(key, carried).there /\ Job(key, carried).carries = carried
         /\ Job(key, carried).lock = "free"
         /\ Job(key, carried).attempts = 0 /\ Job(key, carried).tries = 0
<1>1. 0 \in 0..MaxAttempts /\ None \in Keys \cup {None}
  BY JobsAssumption
<1>2. Job(key, carried) \in JobType
  BY <1>1 DEF Job, NoJob, JobType
<1> QED
  BY <1>2 DEF Job, NoJob

LEMMA StoppedType ==
  ASSUME NEW job \in JobType
  PROVE  /\ Stopped(job) \in JobType
         /\ Stopped(job).there = job.there /\ Stopped(job).carries = job.carries
         /\ Stopped(job).lock = job.lock /\ Stopped(job).tries = job.tries
<1>1. MaxAttempts \in 0..MaxAttempts /\ None \in Keys \cup {None}
  BY JobsAssumption
<1>2. Stopped(job) \in JobType
  BY <1>1 DEF Stopped, JobType
<1> QED
  BY <1>2 DEF Stopped, JobType

LEMMA RenewedType ==
  ASSUME NEW job \in JobType, NEW n \in Requests
  PROVE  /\ Renewed(job, n) \in JobType
         /\ Renewed(job, n).there = job.there /\ Renewed(job, n).carries = job.carries \cup {n}
         /\ Renewed(job, n).lock = job.lock
         /\ Renewed(job, n).tries = 0 /\ Renewed(job, n).attempts = 0
<1>1. 0 \in 0..MaxAttempts
  BY JobsAssumption
<1>2. Renewed(job, n) \in JobType
  BY <1>1 DEF Renewed, JobType
<1> QED
  BY <1>2 DEF Renewed, JobType

-----------------------------------------------------------------------------
(* What every step has in common                                           *)

LEMMA CoverKept ==
  ASSUME TypeOK, Kept, NEW j \in Requests, jobs'[j].carries = jobs[j].carries, Covered(j)
  PROVE  Covered(j)'
BY Fields DEF Kept, Covered

LEMMA AccountKept ==
  ASSUME TypeOK, Kept, NEW n \in Requests, Accounted(n)
  PROVE  Accounted(n)'
BY DEF Kept, Accounted, Carried

\* A job whose lock and counts stay is as good as before.
LEMMA JobKept ==
  ASSUME JobsInv, Kept, NEW j \in Requests, JobInv(j),
         jobs'[j].there = jobs[j].there, jobs'[j].carries = jobs[j].carries,
         jobs'[j].lock = jobs[j].lock, jobs'[j].attempts = jobs[j].attempts,
         jobs'[j].tries = jobs[j].tries, jobs'[j].error = jobs[j].error,
         crashes' = crashes \/ crashes' > 0, Abandoned(j)' => Abandoned(j) \/ crashes' > 0
  PROVE  JobInv(j)'
<1>1. Covered(j) => Covered(j)'
  BY CoverKept DEF JobsInv
<1> QED
  BY <1>1 DEF JobInv, Spent

\* While the workers' jobs stay as they are, so does what is known of the workers.
LEMMA WorkersKept ==
  ASSUME JobsInv, UNCHANGED worker,
         \A j \in Requests : jobs[j].lock = "held" =>
           /\ jobs'[j].there = jobs[j].there /\ jobs'[j].lock = jobs[j].lock
           /\ jobs'[j].carries = jobs[j].carries
  PROVE  OneRunner' /\ \A w \in Workers : WorkerInv(w)'
<1>1. ASSUME NEW w \in Workers, Busy(w)  PROVE worker[w].job \in Requests
  BY <1>1 DEF JobsInv, TypeOK, Busy
<1> QED
  BY <1>1 DEF JobsInv, OneRunner, WorkerInv, Busy

LEMMA Conclude ==
  ASSUME JobsInv, Kept, TypeOK', OneRunner',
         \A n \in Requests : RequestInv(n)', \A w \in Workers : WorkerInv(w)',
         \A j \in Requests : JobInv(j)',
         \A n \in Requests : call'[n].pc = "answered" => call[n].pc = "answered" \/ Accounted(n)'
  PROVE  JobsInv'
<1>1. NothingForgotten'
  BY AccountKept DEF JobsInv, NothingForgotten
<1> QED
  BY <1>1 DEF JobsInv

-----------------------------------------------------------------------------
(* enqueue                                                                 *)

LEMMA EnqueueAnewStep ==
  ASSUME JobsInv, NEW n \in Requests, NEW key \in Keys \cup {None}, EnqueueAnew(n, key)
  PROVE  JobsInv'
<1> DEFINE taken == {j \in Keyed(key) : ~IsAvailable(jobs[j])}
           all == {n} \cup UNION {jobs[i].carries : i \in taken}
<1>1. /\ TypeOK /\ ~jobs[n].there /\ jobs[n].lock = "free" /\ jobs[n].carries = {}
      /\ UNCHANGED <<worker, removal, done, byHand, crashes, hands>>
  BY DEF EnqueueAnew, JobsInv, RequestInv, JobInv, history
<1>2. taken \subseteq Requests /\ n \notin taken
  BY <1>1 DEF Keyed
<1>3. all \in SUBSET Requests
  BY <1>1, <1>2, Fields
<1>4. jobs' = [j \in Requests |-> IF j = n THEN Job(key, all)
                 ELSE IF j \in taken THEN Stopped(jobs[j]) ELSE jobs[j]]
  BY DEF EnqueueAnew
<1>5. call' = [call EXCEPT ![n] = Answered("answered")]
  BY DEF EnqueueAnew
<1> HIDE DEF all
<1>6. /\ jobs'[n] \in JobType /\ jobs'[n].there /\ jobs'[n].lock = "free"
      /\ jobs'[n].carries = all /\ jobs'[n].attempts = 0 /\ jobs'[n].tries = 0
  BY <1>3, <1>4, NewJobType
<1>7. ASSUME NEW j \in Requests \ {n}
      PROVE  /\ jobs'[j] \in JobType /\ jobs'[j].there = jobs[j].there
             /\ jobs'[j].carries = jobs[j].carries /\ jobs'[j].lock = jobs[j].lock
             /\ jobs'[j].tries = jobs[j].tries
  BY <1>1, <1>4, Fields, StoppedType
<1>8. Kept
  BY <1>1, <1>7 DEF Kept
<1>9. TypeOK'
  <2>1. jobs' \in [Requests -> JobType]
    BY <1>4, <1>6, <1>7
  <2> QED
    BY <2>1, <1>1, <1>5 DEF TypeOK, Answered
<1>10. \A m \in Requests : RequestInv(m)'
  BY <1>1, <1>5, <1>7 DEF JobsInv, RequestInv, Answered, TypeOK
<1>11. OneRunner' /\ \A w \in Workers : WorkerInv(w)'
  BY <1>1, <1>7, WorkersKept
<1>12. ASSUME NEW j \in Requests  PROVE JobInv(j)'
  <2>1. CASE j = n
    BY <2>1, <1>6, JobsAssumption DEF JobInv, Spent
  <2>2. CASE j \in taken
    <3>1. Covered(j)'
      <4>1. n \in Requests \ {j} /\ jobs[j].carries \subseteq jobs'[n].carries
        BY <2>2, <1>2, <1>6 DEF all
      <4> QED
        BY <4>1, <2>2, <1>2, <1>7 DEF Covered
    <3>2. jobs'[j].lock = jobs[j].lock /\ jobs'[j].there /\ (Abandoned(j)' <=> Abandoned(j))
      BY <2>2, <1>1, <1>2, <1>7 DEF Keyed, Abandoned
    <3> QED
      BY <3>1, <3>2, <1>1 DEF JobsInv, JobInv
  <2>3. CASE j # n /\ j \notin taken
    BY <2>3, <1>1, <1>4, <1>8, JobKept DEF JobsInv, Abandoned
  <2> QED
    BY <2>1, <2>2, <2>3
<1>13. ASSUME NEW m \in Requests, call'[m].pc = "answered"
       PROVE  call[m].pc = "answered" \/ Accounted(m)'
  BY <1>13, <1>1, <1>5, <1>6 DEF Accounted, Carried, TypeOK, all
<1> QED
  BY <1>8, <1>9, <1>10, <1>11, <1>12, <1>13, Conclude

LEMMA EnqueueStep ==
  ASSUME JobsInv, NEW n \in Requests, NEW key \in Keys \cup {None}, Enqueue(n, key)
  PROVE  JobsInv'
<1>1. /\ TypeOK /\ UNCHANGED <<jobs, worker, removal, done, byHand, crashes, hands>>
      /\ call' = [call EXCEPT ![n] = [pc |-> "insert", key |-> key]] /\ call[n].pc = "new"
  BY DEF Enqueue, JobsInv, history
<1>2. Kept
  BY <1>1 DEF Kept
<1>3. TypeOK'
  BY <1>1 DEF TypeOK
<1>4. \A m \in Requests : RequestInv(m)'
  BY <1>1 DEF JobsInv, RequestInv, TypeOK
<1>5. OneRunner' /\ \A w \in Workers : WorkerInv(w)'
  BY <1>1, WorkersKept
<1>6. \A j \in Requests : JobInv(j)'
  BY <1>1, <1>2, JobKept DEF JobsInv, Abandoned
<1> QED
  BY <1>1, <1>2, <1>3, <1>4, <1>5, <1>6, Conclude DEF TypeOK

LEMMA InsertStep ==
  ASSUME JobsInv, NEW n \in Requests, Insert(n)
  PROVE  JobsInv'
<1> DEFINE key == call[n].key
           same == Keyed(key)
           renewed == {j \in same : MayRenew(jobs[j])}
           pc == IF same = {} \/ renewed # {} THEN "answered" ELSE "null"
<1>1. /\ TypeOK /\ ~jobs[n].there /\ jobs[n].lock = "free" /\ jobs[n].carries = {}
      /\ UNCHANGED <<worker, removal, done, byHand, crashes, hands>>
      /\ key \in Keys \cup {None}
  BY DEF Insert, JobsInv, RequestInv, JobInv, history, TypeOK
<1>2. renewed \subseteq Requests /\ n \notin renewed /\ (same = {} => renewed = {})
  BY <1>1 DEF Keyed
<1>3. /\ jobs' = [j \in Requests |->
           IF same = {} /\ j = n THEN Job(key, {n})
           ELSE IF j \in renewed THEN Renewed(jobs[j], n) ELSE jobs[j]]
      /\ call' = [call EXCEPT ![n] = Answered(pc)]
  BY DEF Insert
<1>4. call' \in [Requests -> [pc : {"new", "insert", "answered", "deduped", "null"},
                            key : Keys \cup {None}]]
  BY <1>1, <1>3 DEF TypeOK, Answered
<1>5. \A m \in Requests \ {n} : call'[m] = call[m]
  BY <1>1, <1>3 DEF TypeOK
<1>6. call'[n].pc \in {"answered", "null"} /\ (call'[n].pc = "answered" => same = {} \/ renewed # {})
  BY <1>1, <1>3 DEF TypeOK, Answered
<1>7. ASSUME same = {}
      PROVE  /\ jobs'[n] \in JobType /\ jobs'[n].there /\ jobs'[n].lock = "free"
             /\ jobs'[n].carries = {n} /\ jobs'[n].attempts = 0 /\ jobs'[n].tries = 0
             /\ \A j \in Requests \ {n} : jobs'[j] = jobs[j]
  BY <1>1, <1>2, <1>3, <1>7, NewJobType
<1>8. ASSUME NEW j \in renewed
      PROVE  /\ jobs'[j] \in JobType /\ jobs'[j].there /\ jobs'[j].lock = "free"
             /\ jobs'[j].carries = jobs[j].carries \cup {n} /\ jobs'[j].attempts = 0
             /\ jobs'[j].tries = 0 /\ jobs[j].lock = "free"
  <2>1. j \in Requests /\ jobs[j].there /\ jobs[j].lock = "free"
    BY DEF Keyed, MayRenew
  <2>2. jobs'[j] = Renewed(jobs[j], n)
    BY <1>2, <1>3, <2>1
  <2>3. jobs[j] \in JobType
    BY <1>1, <2>1, Fields
  <2> QED
    BY <2>1, <2>2, <2>3, RenewedType
<1>9. ASSUME NEW j \in Requests \ renewed, j # n \/ same # {}
      PROVE  jobs'[j] = jobs[j]
  BY <1>3, <1>9
<1> HIDE DEF key, same, renewed, pc
<1>10. Kept
  <2>1. ASSUME NEW j \in Requests  PROVE jobs[j].carries \subseteq jobs'[j].carries
    BY <1>1, <1>7, <1>8, <1>9
  <2> QED
    BY <2>1, <1>1 DEF Kept
<1>11. TypeOK'
  <2>1. ASSUME NEW j \in Requests  PROVE jobs'[j] \in JobType
    BY <1>1, <1>7, <1>8, <1>9, Fields
  <2>2. jobs' \in [Requests -> JobType]
    BY <2>1, <1>3
  <2> QED
    BY <2>2, <1>1, <1>4 DEF TypeOK
<1>12. ASSUME NEW m \in Requests  PROVE RequestInv(m)'
  <2>1. CASE m = n
    BY <2>1, <1>6 DEF RequestInv
  <2>2. CASE m # n
    BY <2>2, <1>2, <1>5, <1>8, <1>9 DEF JobsInv, RequestInv, renewed, same, Keyed
  <2> QED
    BY <2>1, <2>2
<1>13. OneRunner' /\ \A w \in Workers : WorkerInv(w)'
  <2>1. ASSUME NEW j \in Requests, jobs[j].lock = "held"  PROVE jobs'[j] = jobs[j]
    BY <2>1, <1>1, <1>8, <1>9
  <2> QED
    BY <2>1, <1>1, WorkersKept
<1>14. ASSUME NEW j \in Requests  PROVE JobInv(j)'
  <2>1. CASE j \in renewed \/ (j = n /\ same = {})
    BY <2>1, <1>7, <1>8, JobsAssumption DEF JobInv, Spent
  <2>2. CASE ~(j \in renewed \/ (j = n /\ same = {}))
    BY <2>2, <1>1, <1>9, <1>10, JobKept DEF JobsInv, Abandoned
  <2> QED
    BY <2>1, <2>2
<1>15. ASSUME NEW m \in Requests, call'[m].pc = "answered"
       PROVE  call[m].pc = "answered" \/ Accounted(m)'
  <2>1. m = n => \E j \in Requests : n \in jobs'[j].carries
    BY <1>2, <1>6, <1>7, <1>8, <1>15
  <2> QED
    BY <2>1, <1>5, <1>15 DEF Accounted, Carried
<1> QED
  BY <1>10, <1>11, <1>12, <1>13, <1>14, <1>15, Conclude

\* A new job of a request that had none, and nothing else.
LEMMA NewJob ==
  ASSUME JobsInv, NEW n \in Requests, NEW key \in Keys \cup {None}, call[n].pc = "new",
         jobs' = [jobs EXCEPT ![n] = Job(key, {n})],
         call' = [call EXCEPT ![n] = Answered("answered")],
         UNCHANGED <<worker, removal, done, byHand, crashes, hands>>
  PROVE  JobsInv'
<1>1. /\ TypeOK /\ ~jobs[n].there /\ jobs[n].lock = "free" /\ jobs[n].carries = {}
  BY DEF JobsInv, RequestInv, JobInv
<1>2. /\ jobs'[n] \in JobType /\ jobs'[n].there /\ jobs'[n].lock = "free"
      /\ jobs'[n].carries = {n} /\ jobs'[n].attempts = 0 /\ jobs'[n].tries = 0
      /\ \A j \in Requests \ {n} : jobs'[j] = jobs[j]
  BY <1>1, NewJobType DEF TypeOK
<1>3. Kept
  BY <1>1, <1>2 DEF Kept
<1>4. TypeOK'
  <2>1. jobs' \in [Requests -> JobType]
    BY <1>1, <1>2 DEF TypeOK
  <2> QED
    BY <2>1, <1>1 DEF TypeOK, Answered
<1>5. \A m \in Requests : RequestInv(m)'
  BY <1>1, <1>2 DEF JobsInv, RequestInv, Answered, TypeOK
<1>6. OneRunner' /\ \A w \in Workers : WorkerInv(w)'
  BY <1>1, <1>2, WorkersKept
<1>7. ASSUME NEW j \in Requests  PROVE JobInv(j)'
  <2>1. CASE j = n
    BY <2>1, <1>2, JobsAssumption DEF JobInv, Spent
  <2>2. CASE j # n
    BY <2>2, <1>2, <1>3, JobKept DEF JobsInv, Abandoned
  <2> QED
    BY <2>1, <2>2
<1>8. ASSUME NEW m \in Requests, call'[m].pc = "answered"
      PROVE  call[m].pc = "answered" \/ Accounted(m)'
  BY <1>8, <1>1, <1>2 DEF Accounted, Carried, TypeOK
<1> QED
  BY <1>3, <1>4, <1>5, <1>6, <1>7, <1>8, Conclude

LEMMA EnqueueDedupedStep ==
  ASSUME JobsInv, NEW n \in Requests, NEW key \in Keys \cup {None}, EnqueueDeduped(n, key)
  PROVE  JobsInv'
<1>1. CASE Keyed(key) = {}
  BY <1>1, NewJob DEF EnqueueDeduped, history
<1>2. CASE Keyed(key) # {}
  <2>1. /\ TypeOK /\ UNCHANGED <<jobs, worker, removal, done, byHand, crashes, hands>>
        /\ call' = [call EXCEPT ![n] = Answered("deduped")]
    BY <1>2 DEF EnqueueDeduped, JobsInv, history
  <2>2. Kept
    BY <2>1 DEF Kept
  <2>3. TypeOK'
    BY <2>1 DEF TypeOK, Answered
  <2>4. \A m \in Requests : RequestInv(m)'
    BY <2>1 DEF JobsInv, RequestInv, TypeOK, Answered
  <2>5. OneRunner' /\ \A w \in Workers : WorkerInv(w)'
    BY <2>1, WorkersKept
  <2>6. \A j \in Requests : JobInv(j)'
    BY <2>1, <2>2, JobKept DEF JobsInv, Abandoned
  <2>7. \A m \in Requests : call'[m].pc = "answered" => call[m].pc = "answered"
    BY <2>1 DEF TypeOK, Answered
  <2> QED
    BY <2>2, <2>3, <2>4, <2>5, <2>6, <2>7, Conclude
<1> QED
  BY <1>1, <1>2

-----------------------------------------------------------------------------
(* The workers                                                             *)

LEMMA RunningFacts ==
  ASSUME JobsInv, NEW w \in Workers, Busy(w)
  PROVE  /\ worker[w].job \in Requests /\ worker[w].given \subseteq Requests
         /\ jobs[worker[w].job].there /\ jobs[worker[w].job].lock = "held"
         /\ jobs[worker[w].job].carries = worker[w].given
         /\ \A v \in Workers \ {w} : worker[v].job # worker[w].job
BY DEF JobsInv, TypeOK, Busy, WorkerInv, OneRunner

LEMMA RestingType == Resting \in [job : Requests \cup {None}, given : SUBSET Requests]
BY DEF Resting

LEMMA GetJobStep ==
  ASSUME JobsInv, NEW w \in Workers, NEW j \in Requests, GetJob(w, j)
  PROVE  JobsInv'
<1>1. /\ TypeOK /\ UNCHANGED <<call, removal, done, byHand, crashes, hands>>
      /\ jobs[j].there /\ jobs[j].lock = "free" /\ jobs[j].attempts < MaxAttempts
      /\ worker[w] = Resting
  BY Fields, JobsAssumption DEF GetJob, JobsInv, history, IsAvailable, Spent
<1>2. /\ jobs'[j].there = jobs[j].there /\ jobs'[j].lock = "held"
      /\ jobs'[j].carries = jobs[j].carries
      /\ jobs'[j].attempts = jobs[j].attempts + 1 /\ jobs'[j].tries = jobs[j].tries + 1
      /\ jobs'[j] \in JobType
      /\ \A i \in Requests \ {j} : jobs'[i] = jobs[i]
  <2>1. jobs[j].attempts + 1 \in 0..MaxAttempts /\ jobs[j].tries + 1 \in Nat
    BY <1>1, Fields, JobsAssumption
  <2> QED
    BY <2>1, <1>1 DEF GetJob, TypeOK, JobType
<1>3. /\ worker'[w].job = j /\ worker'[w].given = jobs[j].carries
      /\ \A v \in Workers \ {w} : worker'[v] = worker[v]
      /\ worker' \in [Workers -> [job : Requests \cup {None}, given : SUBSET Requests]]
  <2>1. jobs[j].carries \in SUBSET Requests
    BY <1>1, Fields
  <2> QED
    BY <2>1, <1>1 DEF GetJob, TypeOK
<1>4. Kept
  BY <1>1, <1>2 DEF Kept
<1>5. TypeOK'
  <2>1. jobs' \in [Requests -> JobType]
    BY <1>1, <1>2 DEF TypeOK, GetJob
  <2> QED
    BY <2>1, <1>1, <1>3 DEF TypeOK
<1>6. \A n \in Requests : RequestInv(n)'
  BY <1>1, <1>2 DEF JobsInv, RequestInv
<1>7. ASSUME NEW v \in Workers \ {w}, Busy(v)  PROVE worker[v].job # j
  BY <1>1, <1>7, RunningFacts
<1>8. OneRunner' /\ \A v \in Workers : WorkerInv(v)'
  <2>1. OneRunner'
    BY <1>3, <1>7 DEF JobsInv, OneRunner, Busy
  <2>2. ASSUME NEW v \in Workers  PROVE WorkerInv(v)'
    <3>1. CASE v = w
      BY <3>1, <1>1, <1>2, <1>3 DEF WorkerInv
    <3>2. CASE v # w
      BY <3>2, <1>2, <1>3, <1>7, RunningFacts DEF WorkerInv, Busy
    <3> QED
      BY <3>1, <3>2
  <2> QED
    BY <2>1, <2>2
<1>9. ASSUME NEW i \in Requests  PROVE JobInv(i)'
  <2>1. CASE i = j
    <3>1. ~Abandoned(j)'
      BY <1>3 DEF Abandoned
    <3>2. jobs[j].attempts > jobs[j].tries => Covered(j)'
      BY <1>1, <1>2, <1>4, CoverKept DEF JobsInv, JobInv
    <3>3. jobs'[j].attempts > jobs'[j].tries => jobs[j].attempts > jobs[j].tries
      BY <1>1, <1>2, Fields
    <3> QED
      BY <2>1, <3>1, <3>2, <3>3, <1>1, <1>2 DEF JobInv
  <2>2. CASE i # j
    <3>1. Abandoned(i)' => Abandoned(i)
      BY <2>2, <1>1, <1>3, JobsAssumption DEF Abandoned, Resting
    <3> QED
      BY <2>2, <3>1, <1>1, <1>2, <1>4, JobKept DEF JobsInv
  <2> QED
    BY <2>1, <2>2
<1> QED
  BY <1>1, <1>4, <1>5, <1>6, <1>8, <1>9, Conclude

\* A worker lays its job down.
LEMMA WorkerRests ==
  ASSUME JobsInv, NEW w \in Workers, Busy(w), worker' = [worker EXCEPT ![w] = Resting],
         \A i \in Requests \ {worker[w].job} : jobs'[i] = jobs[i]
  PROVE  /\ worker' \in [Workers -> [job : Requests \cup {None}, given : SUBSET Requests]]
         /\ OneRunner' /\ \A v \in Workers : WorkerInv(v)'
         /\ \A i \in Requests \ {worker[w].job} : Abandoned(i)' => Abandoned(i)
<1>1. /\ worker' \in [Workers -> [job : Requests \cup {None}, given : SUBSET Requests]]
      /\ worker'[w] = Resting /\ \A v \in Workers \ {w} : worker'[v] = worker[v]
  BY RestingType DEF JobsInv, TypeOK
<1>2. worker'[w].job = None
  BY <1>1 DEF Resting
<1>3. OneRunner'
  BY <1>1, <1>2 DEF JobsInv, OneRunner, Busy
<1>4. ASSUME NEW v \in Workers  PROVE WorkerInv(v)'
  <2>1. CASE v = w
    BY <2>1, <1>2 DEF WorkerInv, Busy
  <2>2. CASE v # w
    BY <2>2, <1>1, RunningFacts DEF WorkerInv, Busy
  <2> QED
    BY <2>1, <2>2
<1>5. ASSUME NEW i \in Requests \ {worker[w].job}, Abandoned(i)'  PROVE Abandoned(i)
  BY <1>1, <1>5 DEF Abandoned
<1> QED
  BY <1>1, <1>3, <1>4, <1>5

LEMMA SucceedStep ==
  ASSUME JobsInv, NEW w \in Workers, Succeed(w)
  PROVE  JobsInv'
<1> DEFINE j == worker[w].job
<1>1. /\ TypeOK /\ Busy(w) /\ j \in Requests /\ jobs[j].there /\ worker[w].given \subseteq Requests
      /\ jobs[j].carries = worker[w].given
      /\ UNCHANGED <<call, removal, byHand, crashes, hands>>
      /\ done' = done \cup worker[w].given
      /\ worker' = [worker EXCEPT ![w] = Resting]
  BY RunningFacts DEF Succeed, JobsInv
<1>2. jobs' = [jobs EXCEPT ![j] = NoJob]
  BY DEF Succeed
<1> HIDE DEF j
<1>3. jobs'[j] = NoJob /\ \A i \in Requests \ {j} : jobs'[i] = jobs[i]
  BY <1>1, <1>2 DEF TypeOK
<1>4. Kept
  BY <1>1, <1>3 DEF Kept
<1>5. /\ worker' \in [Workers -> [job : Requests \cup {None}, given : SUBSET Requests]]
      /\ OneRunner' /\ \A v \in Workers : WorkerInv(v)'
      /\ \A i \in Requests \ {j} : Abandoned(i)' => Abandoned(i)
  BY <1>1, <1>3, WorkerRests DEF j
<1>6. TypeOK'
  <2>1. jobs' \in [Requests -> JobType]
    BY <1>1, <1>2, NoJobType DEF TypeOK
  <2> QED
    BY <2>1, <1>1, <1>5 DEF TypeOK
<1>7. \A n \in Requests : RequestInv(n)'
  BY <1>1, <1>3, NoJobType DEF JobsInv, RequestInv
<1>8. ASSUME NEW i \in Requests  PROVE JobInv(i)'
  <2>1. CASE i = j
    BY <2>1, <1>3, NoJobType DEF JobInv
  <2>2. CASE i # j
    BY <2>2, <1>1, <1>3, <1>4, <1>5, JobKept DEF JobsInv
  <2> QED
    BY <2>1, <2>2
<1> QED
  BY <1>1, <1>4, <1>5, <1>6, <1>7, <1>8, Conclude

LEMMA ThrowStep ==
  ASSUME JobsInv, NEW w \in Workers, Throw(w)
  PROVE  JobsInv'
<1> DEFINE j == worker[w].job
<1>1. /\ TypeOK /\ Busy(w) /\ j \in Requests /\ jobs[j].there
      /\ UNCHANGED <<call, removal, done, byHand, crashes, hands>>
      /\ worker' = [worker EXCEPT ![w] = Resting]
  BY RunningFacts DEF Throw, JobsInv, history
<1>2. jobs' = [jobs EXCEPT ![j].lock = "free", ![j].error = TRUE]
  BY DEF Throw
<1> HIDE DEF j
<1>3. /\ jobs'[j].there = jobs[j].there /\ jobs'[j].carries = jobs[j].carries
      /\ jobs'[j].lock = "free" /\ jobs'[j].error = TRUE /\ jobs'[j] \in JobType
      /\ jobs'[j].attempts = jobs[j].attempts /\ jobs'[j].tries = jobs[j].tries
      /\ \A i \in Requests \ {j} : jobs'[i] = jobs[i]
  <2>1. jobs'[j] = [jobs[j] EXCEPT !.lock = "free", !.error = TRUE]
    BY <1>1, <1>2 DEF TypeOK
  <2>2. \A i \in Requests \ {j} : jobs'[i] = jobs[i]
    BY <1>1, <1>2 DEF TypeOK
  <2>3. jobs[j] \in JobType
    BY <1>1, Fields
  <2> QED
    BY <2>1, <2>2, <2>3 DEF JobType
<1>4. Kept
  BY <1>1, <1>3 DEF Kept
<1>5. /\ worker' \in [Workers -> [job : Requests \cup {None}, given : SUBSET Requests]]
      /\ OneRunner' /\ \A v \in Workers : WorkerInv(v)'
      /\ \A i \in Requests \ {j} : Abandoned(i)' => Abandoned(i)
  BY <1>1, <1>3, WorkerRests DEF j
<1>6. TypeOK'
  <2>1. jobs' \in [Requests -> JobType]
    BY <1>1, <1>2, <1>3 DEF TypeOK
  <2> QED
    BY <2>1, <1>1, <1>5 DEF TypeOK
<1>7. \A n \in Requests : RequestInv(n)'
  BY <1>1, <1>3 DEF JobsInv, RequestInv
<1>8. ASSUME NEW i \in Requests  PROVE JobInv(i)'
  <2>1. CASE i = j
    <3>1. Covered(i) => Covered(i)'
      BY <2>1, <1>1, <1>3, <1>4, CoverKept
    <3> QED
      BY <2>1, <3>1, <1>1, <1>3 DEF JobsInv, JobInv
  <2>2. CASE i # j
    BY <2>2, <1>1, <1>3, <1>4, <1>5, JobKept DEF JobsInv
  <2> QED
    BY <2>1, <2>2
<1> QED
  BY <1>1, <1>4, <1>5, <1>6, <1>7, <1>8, Conclude

LEMMA CrashStep ==
  ASSUME JobsInv, NEW w \in Workers, Crash(w)
  PROVE  JobsInv'
<1>1. /\ TypeOK /\ Busy(w) /\ UNCHANGED <<jobs, call, removal, done, byHand, hands>>
      /\ crashes' = crashes + 1 /\ worker' = [worker EXCEPT ![w] = Resting]
  BY DEF Crash, JobsInv, history
<1>2. crashes' \in Nat /\ crashes' > 0
  BY <1>1 DEF TypeOK
<1>3. Kept
  BY <1>1 DEF Kept
<1>4. /\ worker' \in [Workers -> [job : Requests \cup {None}, given : SUBSET Requests]]
      /\ OneRunner' /\ \A v \in Workers : WorkerInv(v)'
  BY <1>1, WorkerRests
<1>5. TypeOK'
  BY <1>1, <1>2, <1>4 DEF TypeOK
<1>6. \A n \in Requests : RequestInv(n)'
  BY <1>1 DEF JobsInv, RequestInv
<1>7. \A i \in Requests : JobInv(i)'
  BY <1>1, <1>2, <1>3, JobKept DEF JobsInv
<1> QED
  BY <1>1, <1>3, <1>4, <1>5, <1>6, <1>7, Conclude

-----------------------------------------------------------------------------
(* One job that no worker runs is written to                               *)

\* A job whose lock is left behind changes, or one the operator sees to.
LEMMA OneJobStep ==
  ASSUME JobsInv, NEW j \in Requests, Kept, jobs[j].there, jobs[j].lock # "held" \/ Abandoned(j),
         NEW job \in JobType, jobs' = [jobs EXCEPT ![j] = job], job.there => jobs[j].there,
         JobInv(j)', UNCHANGED <<call, worker, removal, crashes>>,
         done' \subseteq Requests, byHand' \subseteq Requests, hands' \in Nat
  PROVE  JobsInv'
<1>1. TypeOK /\ jobs'[j] = job /\ \A i \in Requests \ {j} : jobs'[i] = jobs[i]
  BY DEF JobsInv, TypeOK
<1>2. TypeOK'
  BY <1>1 DEF TypeOK
<1>3. \A n \in Requests : RequestInv(n)'
  BY <1>1 DEF JobsInv, RequestInv
<1>4. ASSUME NEW w \in Workers, Busy(w)  PROVE worker[w].job \in Requests \ {j}
  BY <1>4, RunningFacts DEF Abandoned
<1>5. OneRunner' /\ \A w \in Workers : WorkerInv(w)'
  BY <1>1, <1>4 DEF JobsInv, OneRunner, WorkerInv, Busy
<1>6. ASSUME NEW i \in Requests \ {j}  PROVE JobInv(i)'
  BY <1>1, JobKept DEF JobsInv, Abandoned
<1> QED
  BY <1>2, <1>3, <1>5, <1>6, Conclude

\* The lock of a dead worker moves on.
LEMMA UnlockStep ==
  ASSUME JobsInv, NEW j \in Requests, NEW lock \in {"stale", "free"},
         jobs[j].lock # "free", jobs[j].lock # "held" \/ Abandoned(j),
         jobs' = [jobs EXCEPT ![j].lock = lock],
         UNCHANGED <<call, worker, removal, done, byHand, crashes>>, hands' \in Nat
  PROVE  JobsInv'
<1> DEFINE job == [jobs[j] EXCEPT !.lock = lock]
<1>1. TypeOK /\ jobs[j].there
  BY Fields DEF JobsInv, JobInv
<1>2. Abandoned(j)
  BY <1>1, RunningFacts, JobsAssumption DEF Abandoned, Busy
<1>3. crashes > 0
  BY <1>2 DEF JobsInv, JobInv
<1>4. /\ job \in JobType /\ job.there = jobs[j].there /\ job.carries = jobs[j].carries
      /\ job.attempts = jobs[j].attempts /\ job.tries = jobs[j].tries
      /\ job.error = jobs[j].error
  BY <1>1, Fields DEF JobType
<1>5. jobs' = [jobs EXCEPT ![j] = job]
  OBVIOUS
<1> HIDE DEF job
<1>6. jobs'[j] = job /\ \A i \in Requests \ {j} : jobs'[i] = jobs[i]
  BY <1>1, <1>5 DEF TypeOK
<1>7. Kept
  BY <1>4, <1>6 DEF Kept
<1>8. JobInv(j)'
  <2>1. Covered(j) => Covered(j)'
    BY <1>1, <1>4, <1>6, <1>7, CoverKept
  <2> QED
    BY <2>1, <1>1, <1>3, <1>4, <1>6 DEF JobsInv, JobInv
<1> QED
  BY <1>1, <1>4, <1>5, <1>7, <1>8, OneJobStep DEF TypeOK

LEMMA GoStaleStep ==
  ASSUME JobsInv, NEW j \in Requests, GoStale(j)
  PROVE  JobsInv'
BY UnlockStep DEF GoStale, history, JobsInv, TypeOK

LEMMA ResetLockedStep ==
  ASSUME JobsInv, NEW j \in Requests, ResetLocked(j)
  PROVE  JobsInv'
BY UnlockStep DEF ResetLocked, history, JobsInv, TypeOK

LEMMA ForceUnlockStep ==
  ASSUME JobsInv, NEW j \in Requests, ForceUnlock(j)
  PROVE  JobsInv'
<1>1. hands' \in Nat
  BY DEF ForceUnlock, Hand, JobsInv, TypeOK
<1> QED
  BY <1>1, UnlockStep DEF ForceUnlock, history

\* The requests of a job are in the operator's hands.
LEMMA TakenOver ==
  ASSUME TypeOK, NEW j \in Requests, byHand' = byHand \cup jobs[j].carries, UNCHANGED done,
         \A i \in Requests \ {j} : jobs'[i] = jobs[i]
  PROVE  Kept /\ byHand' \subseteq Requests
         /\ (jobs'[j].carries = jobs[j].carries => Covered(j)')
BY Fields DEF Kept, Covered, TypeOK

LEMMA CompleteJobStep ==
  ASSUME JobsInv, NEW j \in Requests, CompleteJob(j)
  PROVE  JobsInv'
<1>1. /\ TypeOK /\ jobs[j].there /\ jobs[j].lock # "held" /\ hands' \in Nat
      /\ byHand' = byHand \cup jobs[j].carries /\ jobs' = [jobs EXCEPT ![j] = NoJob]
      /\ UNCHANGED <<call, worker, removal, done, crashes>>
  BY DEF CompleteJob, Hand, Open, JobsInv, TypeOK
<1>2. jobs'[j] = NoJob /\ \A i \in Requests \ {j} : jobs'[i] = jobs[i]
  BY <1>1 DEF TypeOK
<1>3. JobInv(j)'
  BY <1>2, NoJobType DEF JobInv
<1> QED
  BY <1>1, <1>2, <1>3, NoJobType, TakenOver, OneJobStep DEF TypeOK

LEMMA PermanentlyFailJobStep ==
  ASSUME JobsInv, NEW j \in Requests, PermanentlyFailJob(j)
  PROVE  JobsInv'
<1> DEFINE job == [jobs[j] EXCEPT !.error = TRUE, !.attempts = MaxAttempts]
<1>1. /\ TypeOK /\ jobs[j].there /\ jobs[j].lock # "held" /\ hands' \in Nat
      /\ byHand' = byHand \cup jobs[j].carries
      /\ UNCHANGED <<call, worker, removal, done, crashes>>
  BY DEF PermanentlyFailJob, Hand, Open, JobsInv, TypeOK
<1>2. /\ job \in JobType /\ job.there = jobs[j].there /\ job.carries = jobs[j].carries
      /\ job.lock = jobs[j].lock /\ job.error
  <2>1. jobs[j] \in JobType /\ MaxAttempts \in 0..MaxAttempts
    BY <1>1, Fields, JobsAssumption
  <2> QED
    BY <2>1 DEF JobType
<1>3. jobs' = [jobs EXCEPT ![j] = job]
  BY DEF PermanentlyFailJob
<1> HIDE DEF job
<1>4. jobs'[j] = job /\ \A i \in Requests \ {j} : jobs'[i] = jobs[i]
  BY <1>1, <1>3 DEF TypeOK
<1>5. Kept /\ byHand' \subseteq Requests /\ Covered(j)'
  BY <1>1, <1>2, <1>4, TakenOver
<1>6. JobInv(j)'
  BY <1>1, <1>2, <1>4, <1>5 DEF JobsInv, JobInv, Abandoned
<1> QED
  BY <1>1, <1>2, <1>3, <1>5, <1>6, OneJobStep DEF TypeOK

LEMMA RescheduleJobStep ==
  ASSUME JobsInv, NEW j \in Requests, NEW attempts \in 0..MaxAttempts,
         RescheduleJob(j, attempts)
  PROVE  JobsInv'
<1> DEFINE job == [jobs[j] EXCEPT !.attempts = attempts, !.tries = attempts]
<1>1. /\ TypeOK /\ jobs[j].there /\ jobs[j].lock # "held" /\ hands' \in Nat
      /\ UNCHANGED <<call, worker, removal, done, crashes>>
  BY DEF RescheduleJob, Hand, Open, JobsInv, TypeOK
<1>2. /\ job \in JobType /\ job.there = jobs[j].there /\ job.carries = jobs[j].carries
      /\ job.lock = jobs[j].lock /\ job.attempts = attempts /\ job.tries = attempts
  <2>1. jobs[j] \in JobType /\ attempts \in Nat
    BY <1>1, Fields
  <2> QED
    BY <2>1 DEF JobType
<1>3. jobs' = [jobs EXCEPT ![j] = job]
  BY DEF RescheduleJob
<1> HIDE DEF job
<1>4. jobs'[j] = job /\ \A i \in Requests \ {j} : jobs'[i] = jobs[i]
  BY <1>1, <1>3 DEF TypeOK
<1>5. Kept /\ byHand' \subseteq Requests /\ (attempts >= MaxAttempts => Covered(j)')
  <2>1. CASE attempts < MaxAttempts
    <3>1. byHand' = byHand
      BY <2>1 DEF RescheduleJob
    <3>2. ~(attempts >= MaxAttempts)
      BY <2>1, JobsAssumption
    <3> QED
      BY <3>1, <3>2, <1>1, <1>2, <1>4 DEF Kept, TypeOK
  <2>2. CASE ~(attempts < MaxAttempts)
    <3>1. byHand' = byHand \cup jobs[j].carries
      BY <2>2 DEF RescheduleJob
    <3> QED
      BY <3>1, <1>1, <1>2, <1>4, TakenOver
  <2> QED
    BY <2>1, <2>2
<1>6. JobInv(j)'
  <2>1. ~(attempts > attempts)
    OBVIOUS
  <2> QED
    BY <2>1, <1>1, <1>2, <1>4, <1>5 DEF JobsInv, JobInv, Abandoned, Spent
<1> QED
  BY <1>1, <1>2, <1>3, <1>5, <1>6, OneJobStep DEF TypeOK

\* Several jobs are written to: those of workers are only stopped.
LEMMA ManyJobsStep ==
  ASSUME JobsInv, Kept, UNCHANGED <<call, worker, crashes>>, removal' \in Keys \cup {None},
         done' \subseteq Requests, byHand' \subseteq Requests, hands' \in Nat,
         jobs' \in [Requests -> JobType],
         \A j \in Requests : jobs'[j].there => jobs[j].there,
         \A j \in Requests : jobs[j].lock = "held" =>
           /\ jobs'[j].there = jobs[j].there /\ jobs'[j].lock = jobs[j].lock
           /\ jobs'[j].carries = jobs[j].carries,
         \A j \in Requests : JobInv(j)'
  PROVE  JobsInv'
<1>1. TypeOK'
  BY DEF JobsInv, TypeOK
<1>2. \A n \in Requests : RequestInv(n)'
  BY DEF JobsInv, RequestInv
<1>3. OneRunner' /\ \A w \in Workers : WorkerInv(w)'
  BY WorkersKept
<1> QED
  BY <1>1, <1>2, <1>3, Conclude

LEMMA RemoveJobStep ==
  ASSUME JobsInv, NEW key \in Keys, RemoveJob(key)
  PROVE  JobsInv'
<1> DEFINE open == {j \in Keyed(key) : Open(jobs[j])}
<1>1. /\ TypeOK /\ hands' \in Nat /\ UNCHANGED <<call, worker, done, crashes>>
      /\ byHand' = byHand \cup UNION {jobs[j].carries : j \in open}
      /\ jobs' = [j \in Requests |-> IF j \in open THEN NoJob ELSE jobs[j]]
      /\ removal' \in Keys \cup {None}
  BY DEF RemoveJob, Hand, JobsInv, TypeOK
<1>2. \A j \in open : j \in Requests /\ jobs[j].lock # "held" /\ jobs'[j] = NoJob
  BY <1>1 DEF Keyed, Open
<1>3. \A j \in Requests \ open : jobs'[j] = jobs[j]
  BY <1>1
<1> HIDE DEF open
<1>4. Kept /\ byHand' \subseteq Requests
  <2>1. byHand' \subseteq Requests
    <3>1. \A j \in open : jobs[j].carries \subseteq Requests
      BY <1>1, <1>2, Fields
    <3> QED
      BY <3>1, <1>1 DEF TypeOK
  <2>2. ASSUME NEW j \in Requests, NEW n \in jobs[j].carries
        PROVE  n \in jobs'[j].carries \/ n \in done' \cup byHand'
    <3>1. CASE j \in open
      BY <3>1, <1>1
    <3>2. CASE j \notin open
      BY <3>2, <1>3
    <3> QED
      BY <3>1, <3>2
  <2> QED
    BY <2>1, <2>2, <1>1 DEF Kept
<1>5. jobs' \in [Requests -> JobType]
  BY <1>1, NoJobType, Fields
<1>6. ASSUME NEW j \in Requests  PROVE JobInv(j)'
  <2>1. CASE j \in open
    BY <2>1, <1>2, NoJobType DEF JobInv
  <2>2. CASE j \notin open
    BY <2>2, <1>1, <1>3, <1>4, JobKept DEF JobsInv, Abandoned
  <2> QED
    BY <2>1, <2>2
<1>7. \A j \in Requests : jobs'[j].there => jobs[j].there
  BY <1>2, <1>3, NoJobType
<1>8. \A j \in Requests : jobs[j].lock = "held" => jobs'[j] = jobs[j]
  BY <1>2, <1>3
<1> QED
  BY <1>1, <1>4, <1>5, <1>6, <1>7, <1>8, ManyJobsStep DEF TypeOK

LEMMA RemoveLockedStep ==
  ASSUME JobsInv, RemoveLocked
  PROVE  JobsInv'
<1> DEFINE same == Keyed(removal)
<1>1. /\ TypeOK /\ UNCHANGED <<call, worker, done, crashes, hands>>
      /\ byHand' = byHand \cup UNION {jobs[j].carries : j \in same}
      /\ jobs' = [j \in Requests |-> IF j \in same THEN Stopped(jobs[j]) ELSE jobs[j]]
      /\ removal' = None /\ same \subseteq Requests
  BY DEF RemoveLocked, JobsInv, Keyed
<1> HIDE DEF same
<1>2. ASSUME NEW j \in Requests
      PROVE  /\ jobs'[j] \in JobType /\ jobs'[j].there = jobs[j].there
             /\ jobs'[j].carries = jobs[j].carries /\ jobs'[j].lock = jobs[j].lock
             /\ jobs'[j].tries = jobs[j].tries
  BY <1>1, Fields, StoppedType
<1>3. Kept /\ byHand' \subseteq Requests
  BY <1>1, <1>2, Fields DEF Kept, TypeOK
<1>4. jobs' \in [Requests -> JobType]
  BY <1>1, <1>2
<1>5. ASSUME NEW j \in Requests  PROVE JobInv(j)'
  <2>1. CASE j \in same
    <3>1. Covered(j)'
      BY <2>1, <1>1, <1>2 DEF Covered
    <3> QED
      BY <3>1, <1>1, <1>2 DEF JobsInv, JobInv, Abandoned
  <2>2. CASE j \notin same
    BY <2>2, <1>1, <1>3, JobKept DEF JobsInv, Abandoned
  <2> QED
    BY <2>1, <2>2
<1> QED
  BY <1>1, <1>2, <1>3, <1>4, <1>5, ManyJobsStep DEF TypeOK

-----------------------------------------------------------------------------
(* The theorems                                                            *)

LEMMA StutterStep ==
  ASSUME JobsInv, UNCHANGED vars
  PROVE  JobsInv'
<1>1. UNCHANGED <<jobs, call, worker, removal, done, byHand, crashes, hands>>
  BY DEF vars, history
<1>2. Kept /\ TypeOK'
  BY <1>1 DEF Kept, JobsInv, TypeOK
<1>3. \A n \in Requests : RequestInv(n)'
  BY <1>1 DEF JobsInv, RequestInv
<1>4. OneRunner' /\ \A w \in Workers : WorkerInv(w)'
  BY <1>1, WorkersKept
<1>5. \A j \in Requests : JobInv(j)'
  BY <1>1, <1>2, JobKept DEF JobsInv, Abandoned
<1> QED
  BY <1>1, <1>2, <1>3, <1>4, <1>5, Conclude

LEMMA InitLemma == Init => JobsInv
<1> SUFFICES ASSUME Init PROVE JobsInv
  OBVIOUS
<1>1. TypeOK
  BY NoJobType, RestingType, JobsAssumption DEF Init, TypeOK
<1>2. \A n \in Requests : RequestInv(n) /\ call[n].pc = "new"
  BY NoJobType DEF Init, RequestInv
<1>3. \A w \in Workers : ~Busy(w)
  BY DEF Init, Busy, Resting
<1>4. \A j \in Requests : JobInv(j)
  <2>1. ~(0 > 0)
    OBVIOUS
  <2>2. \A j \in Requests : jobs[j] = NoJob
    BY DEF Init
  <2> QED
    BY <2>1, <2>2, NoJobType DEF JobInv
<1> QED
  BY <1>1, <1>2, <1>3, <1>4 DEF JobsInv, WorkerInv, OneRunner, NothingForgotten

LEMMA StepLemma == JobsInv /\ [Next]_vars => JobsInv'
<1> SUFFICES ASSUME JobsInv, [Next]_vars PROVE JobsInv'
  OBVIOUS
<1>1. ASSUME NEW n \in Requests, NEW key \in Keys \cup {None},
             EnqueueAnew(n, key) \/ Enqueue(n, key) \/ EnqueueDeduped(n, key)
      PROVE  JobsInv'
  BY <1>1, EnqueueAnewStep, EnqueueStep, EnqueueDedupedStep
<1>2. ASSUME NEW n \in Requests, Insert(n) PROVE JobsInv'
  BY <1>2, InsertStep
<1>3. ASSUME NEW w \in Workers, Work(w) \/ Crash(w) PROVE JobsInv'
  BY <1>3, SucceedStep, ThrowStep, CrashStep DEF Work
<1>4. ASSUME NEW w \in Workers, NEW j \in Requests, GetJob(w, j) PROVE JobsInv'
  BY <1>4, GetJobStep
<1>5. ASSUME NEW j \in Requests, GoStale(j) \/ ResetLocked(j) PROVE JobsInv'
  BY <1>5, GoStaleStep, ResetLockedStep
<1>6. CASE Operator
  BY <1>6, CompleteJobStep, PermanentlyFailJobStep, ForceUnlockStep, RescheduleJobStep,
     RemoveJobStep DEF Operator
<1>7. CASE RemoveLocked
  BY <1>7, RemoveLockedStep
<1>8. CASE UNCHANGED vars
  BY <1>8, StutterStep
<1> QED
  BY <1>1, <1>2, <1>3, <1>4, <1>5, <1>6, <1>7, <1>8 DEF Next

\* The inductive invariant holds: a running job is one worker's, and the job table accounts
\* for every request it answered.
THEOREM JobsInvariant == Spec => []JobsInv
<1> QED
  BY InitLemma, StepLemma, PTL DEF Spec

\* Every variable has its type.
THEOREM TypeCorrect == Spec => []TypeOK
<1>1. JobsInv => TypeOK
  BY DEF JobsInv
<1> QED
  BY JobsInvariant, <1>1, PTL

\* An answered request is done, or ended by hand, or carried by a job, however enqueues,
\* workers, dying workers and the operator interleave.
THEOREM NoRequestIsForgotten == Spec => []NothingForgotten
<1>1. JobsInv => NothingForgotten
  BY DEF JobsInv
<1> QED
  BY JobsInvariant, <1>1, PTL

\* No job is run by two workers, and a worker runs the payload its job carries: what is
\* deleted when the handler ends is what the handler was given.
THEOREM RunsWhatIsCarried == Spec => [](OneRunner /\ \A w \in Workers : WorkerInv(w))
<1>1. JobsInv => OneRunner /\ \A w \in Workers : WorkerInv(w)
  BY DEF JobsInv
<1> QED
  BY JobsInvariant, <1>1, PTL

\* A job that is not tried again had all its attempts and is listed, or is seen to elsewhere.
THEOREM DeadLettersHadTheirAttempts == Spec => []DeadLettersAreTrue
<1>1. JobsInv => DeadLettersAreTrue
  <2> SUFFICES ASSUME JobsInv, NEW j \in Requests, jobs[j].there, jobs[j].lock = "free",
                      Spent(jobs[j]), ~Covered(j)
               PROVE  jobs[j].tries >= MaxAttempts /\ (Listed(jobs[j]) \/ crashes > 0)
    BY DEF DeadLettersAreTrue
  <2>1. ~(jobs[j].attempts > jobs[j].tries)
    BY DEF JobsInv, JobInv
  <2>2. jobs[j].tries >= MaxAttempts
    <3>1. jobs[j].attempts \in Nat /\ jobs[j].tries \in Nat /\ MaxAttempts \in Nat
      BY Fields, JobsAssumption DEF JobsInv
    <3>2. jobs[j].attempts >= MaxAttempts
      BY DEF Spent
    <3> QED
      BY <2>1, <3>1, <3>2
  <2>3. jobs[j].error \/ crashes > 0
    BY DEF JobsInv, JobInv
  <2> QED
    BY <2>2, <2>3 DEF Listed
<1> QED
  BY JobsInvariant, <1>1, PTL
=============================================================================
