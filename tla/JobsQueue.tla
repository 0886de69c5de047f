------------------------------ MODULE JobsQueue ------------------------------
(***************************************************************************)
(* jobs.queue: the job table and the SQL functions the part installs       *)
(* (part/migrations/001-install-graphile-worker.sql), which enqueue and    *)
(* the operator call, and the workers that share the table.                *)
(*                                                                         *)
(* A function of several statements takes a fresh snapshot for each, and   *)
(* what it has written stays locked until its transaction ends: it is two  *)
(* steps only where the first statement wrote nothing.  The workers are    *)
(* graphile-worker's, outside the repository.                              *)
(*                                                                         *)
(* A job bears the name of the request that inserted it, and its payload   *)
(* is the requests it carries: one that replaces others speaks for them.   *)
(* Due times, priorities and named queues are left out (they only delay),  *)
(* and so are transactions of the application: an enqueue rolled back was  *)
(* never made.  Handlers end within the four hours a lock is good for.     *)
(***************************************************************************)
EXTENDS Naturals

CONSTANTS
  Requests,    \* calls of enqueue
  Keys,        \* job keys
  None,        \* null
  Workers,     \* the slots of runWorker and drainOnce that take a job at a time
  MaxAttempts, \* max_attempts of a job as it is enqueued
  MaxCrashes,  \* bound: workers that die
  MaxHands     \* bound: interventions of an operator

ASSUME JobsAssumption ==
  /\ None \notin Keys /\ None \notin Requests
  /\ MaxAttempts \in Nat \ {0} /\ MaxCrashes \in Nat /\ MaxHands \in Nat

VARIABLES
  jobs,        \* _private_jobs, by the request that inserted the row
  call,        \* what a request is at, or was answered
  worker,      \* the job a worker runs, and the payload it was given
  removal,     \* the key of a remove_job between its two statements
  done,        \* requests whose payload a handler completed with (history)
  byHand,      \* requests whose job the operator ended (history)
  crashes, hands

history == <<done, byHand>>
vars == <<jobs, call, worker, removal, history, crashes, hands>>

NoJob == [there |-> FALSE, key |-> None, attempts |-> 0, lock |-> "free", error |-> FALSE,
          carries |-> {}, tries |-> 0]
Job(key, carried) == [NoJob EXCEPT !.there = TRUE, !.key = key, !.carries = carried]
Answered(pc) == [pc |-> pc, key |-> None]
Resting == [job |-> None, given |-> {}]

Init ==
  /\ jobs = [j \in Requests |-> NoJob]
  /\ call = [n \in Requests |-> [pc |-> "new", key |-> None]]
  /\ worker = [w \in Workers |-> Resting]
  /\ removal = None
  /\ done = {} /\ byHand = {}
  /\ crashes = 0 /\ hands = 0

Spent(job) == job.attempts >= MaxAttempts
NeverLast(job) == job.lock = "free" /\ job.attempts + 1 < MaxAttempts    \* mutant: < off by one
\* The generated column is_available.
IsAvailable(job) == job.lock = "free" /\ ~Spent(job)

Keyed(key) == {j \in Requests : key # None /\ jobs[j].there /\ jobs[j].key = key}
Stopped(job) == [job EXCEPT !.key = None, !.attempts = MaxAttempts]

-----------------------------------------------------------------------------
(* enqueue: SELECT * FROM add_job(...)                                     *)

\* add_jobs with a job of the key that is locked, or spent: its key is cleared, it is
\* not tried again, and a new job is inserted.
EnqueueAnew(n, key) ==
  LET taken == {j \in Keyed(key) : ~IsAvailable(jobs[j])}
  IN  /\ call[n].pc = "new" /\ taken # {}
      /\ jobs' = [j \in Requests |->
           IF j = n THEN Job(key, {n} \cup UNION {jobs[i].carries : i \in taken})
           ELSE IF j \in taken THEN Stopped(jobs[j]) ELSE jobs[j]]
      /\ call' = [call EXCEPT ![n] = Answered("answered")]
      /\ UNCHANGED <<worker, removal, history, crashes, hands>>

\* Without one the first statement writes nothing.
Enqueue(n, key) ==
  /\ call[n].pc = "new" /\ \A j \in Keyed(key) : IsAvailable(jobs[j])
  /\ call' = [call EXCEPT ![n] = [pc |-> "insert", key |-> key]]
  /\ UNCHANGED <<jobs, worker, removal, history, crashes, hands>>

RenewedWorn(job, n) ==                              \* mutant: the attempts are kept
  [job EXCEPT !.error = FALSE, !.carries = @ \cup {n}, !.tries = 0]
\* ON CONFLICT DO UPDATE: the new payload, and always the whole retry budget.
Renewed(job, n) ==
  [job EXCEPT !.attempts = 0, !.error = FALSE, !.carries = @ \cup {n}, !.tries = 0]

Anything(job) == TRUE                               \* mutant: a locked row is updated too
\* WHERE jobs.locked_at IS NULL.
MayRenew(job) == job.lock = "free"

\* The second statement; if it is not reached all is rolled back.  A job of the key that
\* was locked since the first one is not updated and no row returned: add_job returns
\* null, and enqueue takes the row of nulls it selects from that for a job.
Insert(n) ==
  LET same == Keyed(call[n].key)
      renewed == {j \in same : MayRenew(jobs[j])}
  IN  /\ call[n].pc = "insert"
      /\ jobs' = [j \in Requests |->
           IF same = {} /\ j = n THEN Job(call[n].key, {n})
           ELSE IF j \in renewed THEN Renewed(jobs[j], n) ELSE jobs[j]]
      /\ call' = [call EXCEPT ![n] = Answered(IF same = {} \/ renewed # {} THEN "answered" ELSE "null")]
      /\ UNCHANGED <<worker, removal, history, crashes, hands>>

\* unsafe_dedupe, in one statement: a job of the key is left as it is, running or spent.
EnqueueDeduped(n, key) ==
  /\ call[n].pc = "new" /\ key # None
  /\ IF Keyed(key) = {}
       THEN /\ jobs' = [jobs EXCEPT ![n] = Job(key, {n})]
            /\ call' = [call EXCEPT ![n] = Answered("answered")]
       ELSE /\ call' = [call EXCEPT ![n] = Answered("deduped")]
            /\ UNCHANGED jobs
  /\ UNCHANGED <<worker, removal, history, crashes, hands>>

-----------------------------------------------------------------------------
(* The workers                                                             *)

GetJob(w, j) ==
  /\ worker[w] = Resting
  /\ jobs[j].there /\ IsAvailable(jobs[j])
  /\ jobs' = [jobs EXCEPT ![j].lock = "held", ![j].attempts = @ + 1, ![j].tries = @ + 1]
  /\ worker' = [worker EXCEPT ![w] = [job |-> j, given |-> jobs[j].carries]]
  /\ UNCHANGED <<call, removal, history, crashes, hands>>

Busy(w) == worker[w].job # None

\* The handler completes and the job is deleted.
Succeed(w) ==
  /\ Busy(w)
  /\ jobs' = [jobs EXCEPT ![worker[w].job] = NoJob]
  /\ done' = done \cup worker[w].given
  /\ worker' = [worker EXCEPT ![w] = Resting]
  /\ UNCHANGED <<call, removal, byHand, crashes, hands>>

\* The handler throws: last_error is written and the lock released.
Throw(w) ==
  /\ Busy(w)
  /\ jobs' = [jobs EXCEPT ![worker[w].job].lock = "free", ![worker[w].job].error = TRUE]
  /\ worker' = [worker EXCEPT ![w] = Resting]
  /\ UNCHANGED <<call, removal, history, crashes, hands>>

\* The process dies, and its job stays locked.
Crash(w) ==
  /\ Busy(w) /\ crashes < MaxCrashes
  /\ crashes' = crashes + 1
  /\ worker' = [worker EXCEPT ![w] = Resting]
  /\ UNCHANGED <<jobs, call, removal, history, hands>>

Abandoned(j) == \A w \in Workers : worker[w].job # j

\* Four hours after.
GoStale(j) ==
  /\ jobs[j].lock = "held" /\ Abandoned(j)
  /\ jobs' = [jobs EXCEPT ![j].lock = "stale"]
  /\ UNCHANGED <<call, worker, removal, history, crashes, hands>>

\* Workers look for stale locks from time to time.
ResetLocked(j) ==
  /\ jobs[j].lock = "stale"
  /\ jobs' = [jobs EXCEPT ![j].lock = "free"]
  /\ UNCHANGED <<call, worker, removal, history, crashes, hands>>

-----------------------------------------------------------------------------
(* The operator                                                            *)

Hand == hands < MaxHands /\ hands' = hands + 1

\* locked_at is null or locked_at < now() - interval '4 hours'.
Open(job) == job.there /\ job.lock \in {"free", "stale"}

CompleteJob(j) ==
  /\ Hand /\ Open(jobs[j])
  /\ byHand' = byHand \cup jobs[j].carries
  /\ jobs' = [jobs EXCEPT ![j] = NoJob]
  /\ UNCHANGED <<call, worker, removal, done, crashes>>

PermanentlyFailJob(j) ==
  /\ Hand /\ Open(jobs[j])
  /\ byHand' = byHand \cup jobs[j].carries
  /\ jobs' = [jobs EXCEPT ![j].error = TRUE, ![j].attempts = MaxAttempts]
  /\ UNCHANGED <<call, worker, removal, done, crashes>>

\* The operator says how many attempts are behind the job, or how many it may have in all:
\* attempts stands for MaxAttempts less the ones it is left with, so a new max_attempts
\* is any that leaves it no more than MaxAttempts.  If none is left, that ends it.
RescheduleJob(j, attempts) ==
  /\ Hand /\ Open(jobs[j])
  /\ jobs' = [jobs EXCEPT ![j].attempts = attempts, ![j].tries = attempts]
  /\ byHand' = IF attempts < MaxAttempts THEN byHand ELSE byHand \cup jobs[j].carries
  /\ UNCHANGED <<call, worker, removal, done, crashes>>

\* force_unlock_workers, of workers that died: the function does not look whether they
\* did, and the operator is taken to.
ForceUnlock(j) ==
  /\ Hand /\ jobs[j].lock # "free" /\ Abandoned(j)
  /\ jobs' = [jobs EXCEPT ![j].lock = "free"]
  /\ UNCHANGED <<call, worker, removal, history, crashes>>

\* remove_job: a job that is open is deleted.
RemoveJob(key) ==
  LET open == {j \in Keyed(key) : Open(jobs[j])}
  IN  /\ Hand /\ removal = None
      /\ byHand' = byHand \cup UNION {jobs[j].carries : j \in open}
      /\ jobs' = [j \in Requests |-> IF j \in open THEN NoJob ELSE jobs[j]]
      /\ removal' = IF open = {} THEN key ELSE None
      /\ UNCHANGED <<call, worker, done, crashes>>

\* Otherwise whatever job has the key by now is not tried again.
RemoveLocked ==
  /\ removal # None
  /\ byHand' = byHand \cup UNION {jobs[j].carries : j \in Keyed(removal)}
  /\ jobs' = [j \in Requests |-> IF j \in Keyed(removal) THEN Stopped(jobs[j]) ELSE jobs[j]]
  /\ removal' = None
  /\ UNCHANGED <<call, worker, done, crashes, hands>>

\* listFailed: the dead letters.
Listed(job) == Spent(job) /\ job.error

-----------------------------------------------------------------------------
Work(w) == Succeed(w) \/ Throw(w)
Operator ==
  \/ \E j \in Requests : CompleteJob(j) \/ PermanentlyFailJob(j) \/ ForceUnlock(j)
  \/ \E j \in Requests, attempts \in 0..MaxAttempts : RescheduleJob(j, attempts)
  \/ \E key \in Keys : RemoveJob(key)
Next ==
  \/ \E n \in Requests, key \in Keys \cup {None} :
       EnqueueAnew(n, key) \/ Enqueue(n, key) \/ EnqueueDeduped(n, key)
  \/ \E n \in Requests : Insert(n)
  \/ \E w \in Workers : Work(w) \/ Crash(w) \/ \E j \in Requests : GetJob(w, j)
  \/ \E j \in Requests : GoStale(j) \/ ResetLocked(j)
  \/ Operator \/ RemoveLocked

Spec == Init /\ [][Next]_vars

\* Handlers end, jobs are taken in their order, so each has its turn, and stale locks
\* are found.
FairSpec ==
  /\ Spec
  /\ \A w \in Workers : WF_vars(Work(w))
  /\ \A j \in Requests : /\ SF_vars(\E w \in Workers : GetJob(w, j))
                         /\ WF_vars(GoStale(j)) /\ WF_vars(ResetLocked(j))
-----------------------------------------------------------------------------
(* What must hold                                                          *)

JobType ==
  [there : BOOLEAN, key : Keys \cup {None}, attempts : 0..MaxAttempts,
   lock : {"free", "held", "stale"}, error : BOOLEAN, carries : SUBSET Requests, tries : Nat]

TypeOK ==
  /\ jobs \in [Requests -> JobType]
  /\ call \in [Requests -> [pc : {"new", "insert", "answered", "deduped", "null"},
                            key : Keys \cup {None}]]
  /\ worker \in [Workers -> [job : Requests \cup {None}, given : SUBSET Requests]]
  /\ removal \in Keys \cup {None}
  /\ done \subseteq Requests /\ byHand \subseteq Requests
  /\ crashes \in Nat /\ hands \in Nat

Carried(n) == \E j \in Requests : n \in jobs[j].carries
Accounted(n) == n \in done \cup byHand \/ Carried(n)

\* A request answered with a job is acted upon with its own information or a later one:
\* a run that was given an older payload never takes it away, whoever overtakes whom (the
\* comment in add_jobs, migration 195-199), unless an operator ends the job.
NothingForgotten == \A n \in Requests : call[n].pc = "answered" => Accounted(n)

\* What the job was to do is seen to elsewhere.
Covered(j) ==
  \A n \in jobs[j].carries :
    n \in done \cup byHand \/ \E i \in Requests \ {j} : n \in jobs[i].carries

\* A job that is not tried again had all its attempts since the last request it carries
\* ("always reset error/retry state") and is listed as failed, or another carries its
\* requests on, or they are done, or ended by hand.  An attempt whose worker died counts,
\* and leaves nothing to list.
DeadLettersAreTrue ==
  \A j \in Requests : jobs[j].there /\ jobs[j].lock = "free" /\ Spent(jobs[j]) =>
    \/ jobs[j].tries >= MaxAttempts /\ (Listed(jobs[j]) \/ crashes > 0)
    \/ Covered(j)

\* A request answered with a job is done in the end, or its job's attempts are exhausted,
\* or an operator ended it, whatever crashes.
Over(n) == \/ n \in done \cup byHand
           \/ \E j \in Requests : /\ n \in jobs[j].carries
                                  /\ jobs[j].lock = "free" /\ Spent(jobs[j])
EveryJobEnds == \A n \in Requests : call[n].pc = "answered" ~> Over(n)

\* "enqueue records a job [...] it returns the job id and run_at" (contract.json:44): what
\* returned and failed not is accounted for.
EnqueueRecords == \A n \in Requests : call[n].pc = "null" => Accounted(n)
-----------------------------------------------------------------------------
(* The inductive invariant                                                 *)

\* A request has no job before it inserts one.
RequestInv(n) == call[n].pc \in {"new", "insert"} => ~jobs[n].there

\* A running job is locked for one worker, and its payload is what the worker was given.
WorkerInv(w) == Busy(w) =>
  /\ jobs[worker[w].job].there /\ jobs[worker[w].job].lock = "held"
  /\ jobs[worker[w].job].carries = worker[w].given
OneRunner == \A w, v \in Workers : Busy(w) /\ worker[w].job = worker[v].job => w = v

\* Attempts are counted up without a try only for what is seen to elsewhere, an attempt
\* that left no error had its worker die, and so had one that left a lock.
JobInv(j) ==
  /\ ~jobs[j].there => jobs[j].carries = {} /\ jobs[j].lock = "free"
  /\ jobs[j].attempts > jobs[j].tries => Covered(j)
  /\ jobs[j].there /\ jobs[j].lock = "free" /\ Spent(jobs[j]) =>
       jobs[j].error \/ crashes > 0 \/ Covered(j)
  /\ jobs[j].lock # "free" /\ Abandoned(j) => crashes > 0

JobsInv ==
  /\ TypeOK
  /\ \A n \in Requests : RequestInv(n)
  /\ \A w \in Workers : WorkerInv(w)
  /\ OneRunner
  /\ \A j \in Requests : JobInv(j)
  /\ NothingForgotten
=============================================================================
