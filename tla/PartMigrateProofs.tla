------------------------- MODULE PartMigrateProofs -------------------------
(***************************************************************************)
(* Proofs about PartMigrate, for any number of deploys, parts, checkouts   *)
(* and faults.                                                             *)
(***************************************************************************)
EXTENDS PartMigrate, TLAPS

Executed == [seq : Nat \ {0}, sha : Shas, whole : BOOLEAN]

-----------------------------------------------------------------------------
(* Facts about plans                                                       *)

LEMMA CheckoutFiles ==
  ASSUME NEW co \in Checkouts, NEW p \in DOMAIN co
  PROVE  /\ p \in Parts /\ Len(co[p]) \in Nat
         /\ \A s \in 1..Len(co[p]) : co[p][s] \in Shas
BY MigrateAssumption

LEMMA AppliedMember ==
  ASSUME NEW p, NEW s
  PROVE  s \in AppliedSeqs(p) <=> \E row \in ledger : row.part = p /\ row.seq = s
BY DEF AppliedSeqs

LEMMA PendingMember ==
  ASSUME NEW co, NEW m
  PROVE  m \in Pending(co) <=>
           \E p \in DOMAIN co : \E s \in (1..Len(co[p])) \ AppliedSeqs(p) :
             m = [part |-> p, seq |-> s, sha |-> co[p][s]]
BY DEF Pending

LEMMA PendingType ==
  ASSUME NEW co \in Checkouts
  PROVE  Pending(co) \subseteq Migration
BY CheckoutFiles, PendingMember DEF Migration

\* The first migration of a fresh plan is the next one of its part: all earlier
\* ones are recorded and it is not.
LEMMA FirstIsNext ==
  ASSUME NEW co \in Checkouts, NEW m, IsFirst(m, Pending(co))
  PROVE  /\ m \in Migration
         /\ m.part \in DOMAIN co /\ m.seq \in 1..Len(co[m.part]) /\ m.sha = co[m.part][m.seq]
         /\ m.seq \notin AppliedSeqs(m.part)
         /\ 1..(m.seq - 1) \subseteq AppliedSeqs(m.part)
<1>1. PICK p \in DOMAIN co, s \in Nat :
        /\ s \in (1..Len(co[p])) \ AppliedSeqs(p)
        /\ m = [part |-> p, seq |-> s, sha |-> co[p][s]]
  BY PendingMember DEF IsFirst
<1>2. m \in Migration
  BY PendingType DEF IsFirst
<1>3. ASSUME NEW t \in 1..(s - 1), t \notin AppliedSeqs(p) PROVE FALSE
  <2>1. Len(co[p]) \in Nat /\ p \in Nat
    BY CheckoutFiles, MigrateAssumption
  <2>2. [part |-> p, seq |-> t, sha |-> co[p][t]] \in Pending(co)
    BY <1>1, <1>3, <2>1, PendingMember
  <2>3. s <= t
    BY <1>1, <2>1, <2>2 DEF IsFirst, Precedes
  <2> QED
    BY <1>1, <1>3, <2>3
<1> QED
  BY <1>1, <1>2, <1>3

\* Recording the first migration of a fresh plan leaves the rest a fresh plan.
LEMMA RecordFirst ==
  ASSUME NEW co \in Checkouts, NEW m, IsFirst(m, Pending(co)), Verified(co),
         ledger \subseteq Migration, ledger' = ledger \cup {m}
  PROVE  /\ Verified(co)'
         /\ Pending(co)' = Pending(co) \ {m}
         /\ \A p \in Parts : AppliedSeqs(p)' =
              IF p = m.part THEN AppliedSeqs(p) \cup {m.seq} ELSE AppliedSeqs(p)
<1>1. /\ m \in Migration
      /\ m.part \in DOMAIN co /\ m.seq \in 1..Len(co[m.part]) /\ m.sha = co[m.part][m.seq]
      /\ m.seq \notin AppliedSeqs(m.part)
      /\ 1..(m.seq - 1) \subseteq AppliedSeqs(m.part)
  BY FirstIsNext
<1>2. \A p : AppliedSeqs(p)' =
        IF p = m.part THEN AppliedSeqs(p) \cup {m.seq} ELSE AppliedSeqs(p)
  BY DEF AppliedSeqs
<1>3. Verified(co)'
  <2> SUFFICES ASSUME NEW p \in DOMAIN co
               PROVE  /\ \E n \in 0..Len(co[p]) : AppliedSeqs(p)' = 1..n
                      /\ \A row \in ledger' : row.part = p => row.sha = co[p][row.seq]
    BY DEF Verified
  <2>1. PICK n \in 0..Len(co[p]) : AppliedSeqs(p) = 1..n
    BY DEF Verified
  <2>2. CASE p = m.part
    <3>1. m.seq = n + 1
      <4>1. m.seq \in Nat /\ m.seq >= 1 /\ n \in Nat
        BY <1>1, <2>1, CheckoutFiles
      <4>2. m.seq \notin 1..n /\ 1..(m.seq - 1) \subseteq 1..n
        BY <1>1, <2>1, <2>2
      <4>3. m.seq = 1 \/ m.seq - 1 \in 1..n
        BY <4>1, <4>2
      <4> QED
        BY <4>1, <4>2, <4>3
    <3>2. n + 1 \in 0..Len(co[p])
      BY <1>1, <2>2, <3>1, CheckoutFiles
    <3>3. (1..n) \cup {n + 1} = 1..(n + 1)
      BY <2>1, CheckoutFiles
    <3>4. AppliedSeqs(p)' = 1..(n + 1)
      BY <1>2, <2>1, <2>2, <3>1, <3>3
    <3> QED
      BY <1>1, <2>2, <3>2, <3>4 DEF Verified
  <2>3. CASE p # m.part
    BY <1>2, <2>1, <2>3 DEF Verified
  <2> QED
    BY <2>2, <2>3
<1>4. \A x : x \in Pending(co)' <=> x \in Pending(co) \ {m}
  <2> TAKE x
  <2>1. x \in Pending(co)' <=>
          \E p \in DOMAIN co : \E s \in (1..Len(co[p])) \ AppliedSeqs(p)' :
            x = [part |-> p, seq |-> s, sha |-> co[p][s]]
    BY DEF Pending
  <2>2. ASSUME NEW p \in DOMAIN co, NEW s \in 1..Len(co[p]), x = [part |-> p, seq |-> s, sha |-> co[p][s]]
        PROVE  s \notin AppliedSeqs(p)' <=> (s \notin AppliedSeqs(p) /\ x # m)
    <3>1. x = m <=> p = m.part /\ s = m.seq
      BY <1>1, <2>2 DEF Migration
    <3> QED
      BY <1>2, <3>1
  <2> QED
    BY <2>1, <2>2, PendingMember
<1> QED
  BY <1>2, <1>3, <1>4

-----------------------------------------------------------------------------
LEMMA InitInv == Init => MigrateInv
BY MigrateAssumption
   DEF Init, MigrateInv, TypeOK, LockInv, PlanFresh, LedgerContiguous, LedgerNeverAhead,
       ExactlyOnce, RunInOrder, RanAfterLedger, RecordsWhatRan, SuccessIsTrue, AppliedSeqs,
       Running

\* Executing a migration that is next in its part keeps the history in order.
LEMMA HistoryGrows ==
  ASSUME MigrateInv, NEW p \in Parts, NEW e \in Executed,
         ran' = [ran EXCEPT ![p] = Append(@, e)],
         1..(e.seq - 1) \subseteq AppliedSeqs(p), e.seq \notin AppliedSeqs(p),
         ledger \subseteq ledger',
         e.sha \notin NoTx => [part |-> p, seq |-> e.seq, sha |-> e.sha] \in ledger'
  PROVE  /\ ExactlyOnce' /\ RunInOrder' /\ RanAfterLedger'
         /\ \A q \in Parts : \A i \in DOMAIN ran[q] : i \in DOMAIN ran'[q] /\ ran'[q][i] = ran[q][i]
         /\ \E i \in DOMAIN ran'[p] : ran'[p][i] = e
<1>1. /\ ran[p] \in Seq(Executed) /\ Len(ran[p]) \in Nat
      /\ DOMAIN ran'[p] = 1..(Len(ran[p]) + 1) /\ DOMAIN ran[p] = 1..Len(ran[p])
      /\ ran'[p][Len(ran[p]) + 1] = e
      /\ \A i \in 1..Len(ran[p]) : ran'[p][i] = ran[p][i] /\ ran[p][i].seq \in Nat
      /\ \A q \in Parts \ {p} : ran'[q] = ran[q]
  <2>1. ran \in [Parts -> Seq(Executed)]
    BY DEF MigrateInv, TypeOK, Executed
  <2>2. ran[p] \in Seq(Executed) /\ ran'[p] = Append(ran[p], e)
    BY <2>1
  <2>3. \A q \in Parts \ {p} : ran'[q] = ran[q]
    BY <2>1
  <2>4. \A i \in 1..Len(ran[p]) : ran[p][i] \in Executed
    BY <2>2
  <2>5. \A i \in 1..Len(ran[p]) : ran[p][i].seq \in Nat
    BY <2>4 DEF Executed
  <2>6. /\ DOMAIN ran'[p] = 1..(Len(ran[p]) + 1) /\ DOMAIN ran[p] = 1..Len(ran[p])
        /\ Len(ran[p]) \in Nat
        /\ ran'[p][Len(ran[p]) + 1] = e
        /\ \A i \in 1..Len(ran[p]) : ran'[p][i] = ran[p][i]
    BY <2>2
  <2> QED
    BY <2>2, <2>3, <2>5, <2>6
<1>2. e.seq \in Nat
  BY DEF Executed
<1>3. \A i \in DOMAIN ran[p] : ran[p][i].seq <= e.seq
  <2> SUFFICES ASSUME NEW i \in DOMAIN ran[p], ~(ran[p][i].seq <= e.seq) PROVE FALSE
    OBVIOUS
  <2>1. e.seq \in 1..(ran[p][i].seq - 1)
    BY <1>1, <1>2 DEF Executed
  <2> QED
    BY <2>1 DEF MigrateInv, RanAfterLedger
<1>4. \A i \in DOMAIN ran[p] : ran[p][i].sha \notin NoTx => ran[p][i].seq < e.seq
  <2> TAKE i \in DOMAIN ran[p]
  <2> DEFINE row == [part |-> p, seq |-> ran[p][i].seq, sha |-> ran[p][i].sha]
  <2>1. ran[p][i].sha \notin NoTx => ran[p][i].seq \in AppliedSeqs(p)
    <3>1. ran[p][i].sha \notin NoTx => row \in ledger
      BY DEF MigrateInv, ExactlyOnce
    <3>2. row.part = p /\ row.seq = ran[p][i].seq
      OBVIOUS
    <3> QED
      BY <3>1, <3>2, AppliedMember
  <2> QED
    BY <1>1, <1>2, <1>3, <2>1
<1>5. \A q : AppliedSeqs(q) \subseteq AppliedSeqs(q)'
  BY DEF AppliedSeqs
<1>6. ExactlyOnce'
  <2> SUFFICES ASSUME NEW q \in Parts, NEW i \in DOMAIN ran'[q], ran'[q][i].sha \notin NoTx
               PROVE  /\ [part |-> q, seq |-> ran'[q][i].seq, sha |-> ran'[q][i].sha] \in ledger'
                      /\ \A j \in DOMAIN ran'[q] : j > i => ran'[q][j].seq > ran'[q][i].seq
    BY DEF ExactlyOnce
  <2>1. CASE q # p
    BY <1>1, <2>1 DEF MigrateInv, ExactlyOnce
  <2>2. CASE q = p /\ i = Len(ran[p]) + 1
    BY <1>1, <2>2
  <2>3. CASE q = p /\ i \in 1..Len(ran[p])
    BY <1>1, <1>2, <1>4, <2>3 DEF MigrateInv, ExactlyOnce
  <2> QED
    BY <1>1, <2>1, <2>2, <2>3
<1>7. RunInOrder'
  BY <1>1, <1>2, <1>3 DEF MigrateInv, RunInOrder
<1>8. RanAfterLedger'
  BY <1>1, <1>5 DEF MigrateInv, RanAfterLedger
<1> QED
  BY <1>1, <1>6, <1>7, <1>8

-----------------------------------------------------------------------------
(* Steps that leave the database alone                                     *)

\* Everything about the ledger and the history only depends on them.
LEMMA DatabaseKept ==
  ASSUME MigrateInv, UNCHANGED <<ledger, ran>>
  PROVE  /\ LedgerContiguous' /\ LedgerNeverAhead' /\ ExactlyOnce' /\ RunInOrder'
         /\ RanAfterLedger'
         /\ \A co : Verified(co)' = Verified(co) /\ Pending(co)' = Pending(co)
BY DEF MigrateInv, LedgerContiguous, LedgerNeverAhead, ExactlyOnce, RunInOrder, RanAfterLedger,
       AppliedSeqs, Verified, Pending

\* A step of one run: the lock is free or with that run, before and after.
LEMMA StepOfOne ==
  ASSUME MigrateInv, NEW r \in Runners,
         \A o \in Runners \ {r} : pc'[o] = pc[o],
         \/ lock' = lock
         \/ lock = NoRunner /\ lock' = r
         \/ lock = r /\ lock' = NoRunner,
         (lock' = r) <=> pc'[r] \in {"plan", "next", "in_tx", "record", "unlock"}
  PROVE  LockInv'
BY MigrateAssumption DEF MigrateInv, LockInv

LEMMA QuietStep ==
  ASSUME MigrateInv, TypeOK', LockInv', UNCHANGED <<ledger, ran>>, NEW r \in Runners,
         \A o \in Runners \ {r} : /\ pc'[o] = pc[o] /\ plan'[o] = plan[o]
                                  /\ checkout'[o] = checkout[o] /\ result'[o] = result[o],
         pc'[r] # "record",
         Running(r)' => Verified(checkout'[r]) /\ plan'[r] = Pending(checkout'[r]),
         result'[r] = "ok" => \A p \in DOMAIN checkout'[r] : \A s \in 1..Len(checkout'[r][p]) :
           [part |-> p, seq |-> s, sha |-> checkout'[r][p][s]] \in ledger
  PROVE  MigrateInv'
<1>1. PlanFresh'
  <2> SUFFICES ASSUME NEW o \in Runners, Running(o)'
               PROVE  Verified(checkout[o])' /\ plan'[o] = Pending(checkout[o])'
    BY DEF PlanFresh
  <2>1. UNCHANGED ledger
    OBVIOUS
  <2>2. CASE o = r
    BY <2>1, <2>2 DEF Verified, Pending, AppliedSeqs
  <2>3. CASE o # r
    BY <2>1, <2>3 DEF MigrateInv, PlanFresh, Running, Verified, Pending, AppliedSeqs
  <2> QED
    BY <2>2, <2>3
<1>2. RecordsWhatRan'
  BY DEF MigrateInv, RecordsWhatRan
<1>3. SuccessIsTrue'
  BY DEF MigrateInv, SuccessIsTrue
<1> QED
  BY <1>1, <1>2, <1>3, DatabaseKept DEF MigrateInv

\* When every file of a verified checkout is applied, all are recorded.
LEMMA NothingPending ==
  ASSUME NEW co \in Checkouts, Verified(co), Pending(co) = {}, ledger \subseteq Migration,
         NEW p \in DOMAIN co, NEW s \in 1..Len(co[p])
  PROVE  [part |-> p, seq |-> s, sha |-> co[p][s]] \in ledger
<1>1. s \in AppliedSeqs(p)
  <2>1. s \notin AppliedSeqs(p) => [part |-> p, seq |-> s, sha |-> co[p][s]] \in Pending(co)
    BY DEF Pending
  <2> QED
    BY <2>1
<1>2. PICK row \in ledger : row.part = p /\ row.seq = s
  BY <1>1, AppliedMember
<1>3. row.sha = co[p][s] /\ row \in Migration
  BY <1>2 DEF Verified
<1> QED
  BY <1>2, <1>3 DEF Migration

LEMMA QuietSteps ==
  ASSUME MigrateInv, NEW r \in Runners,
         \/ Start(r) \/ AcquireLock(r) \/ MakePlan(r) \/ BeginTx(r) \/ RollbackTx(r)
         \/ RecordFails(r) \/ Succeed(r) \/ ReleaseLock(r) \/ LoseSession(r)
  PROVE  MigrateInv'
<1> USE DEF MigrateInv, Goto, Abandon, Fault
<1>1. TypeOK'
  <2>1. UNCHANGED <<ledger, ran>>
    BY DEF Start, AcquireLock, MakePlan, BeginTx, RollbackTx, RecordFails, Succeed,
           ReleaseLock, LoseSession
  <2>2. lock' \in Runners \cup {NoRunner} /\ faults' \in 0..MaxFaults
    BY MigrateAssumption
    DEF TypeOK, Start, AcquireLock, MakePlan, BeginTx, RollbackTx, RecordFails, Succeed,
        ReleaseLock, LoseSession
  <2>3. /\ pc' \in [Runners -> {"idle", "lock", "plan", "next", "in_tx", "record", "unlock"}]
        /\ result' \in [Runners -> {"none", "ok"}]
    BY DEF TypeOK, Start, AcquireLock, MakePlan, BeginTx, RollbackTx, RecordFails, Succeed,
           ReleaseLock, LoseSession
  <2>4. /\ checkout' \in [Runners -> Checkouts]
        /\ plan' \in [Runners -> SUBSET Migration]
    BY PendingType
    DEF TypeOK, Start, AcquireLock, MakePlan, BeginTx, RollbackTx, RecordFails, Succeed,
        ReleaseLock, LoseSession
  <2> QED
    BY <2>1, <2>2, <2>3, <2>4 DEF TypeOK
<1>2. LockInv'
  BY StepOfOne, MigrateAssumption
  DEF TypeOK, LockInv, Start, AcquireLock, MakePlan, BeginTx, RollbackTx, RecordFails, Succeed,
      ReleaseLock, LoseSession
<1>3. \A o \in Runners \ {r} : /\ pc'[o] = pc[o] /\ plan'[o] = plan[o]
                               /\ checkout'[o] = checkout[o] /\ result'[o] = result[o]
  BY DEF TypeOK, Start, AcquireLock, MakePlan, BeginTx, RollbackTx, RecordFails, Succeed,
         ReleaseLock, LoseSession
<1>4. UNCHANGED <<ledger, ran>> /\ pc'[r] # "record"
  BY DEF TypeOK, Start, AcquireLock, MakePlan, BeginTx, RollbackTx, RecordFails, Succeed,
         ReleaseLock, LoseSession
<1>5. Running(r)' => Verified(checkout'[r]) /\ plan'[r] = Pending(checkout'[r])
  BY DEF TypeOK, Running, PlanFresh, Start, AcquireLock, MakePlan, BeginTx, RollbackTx,
         RecordFails, Succeed, ReleaseLock, LoseSession
<1>6. result'[r] = "ok" => \A p \in DOMAIN checkout'[r] : \A s \in 1..Len(checkout'[r][p]) :
        [part |-> p, seq |-> s, sha |-> checkout'[r][p][s]] \in ledger
  <2>1. CASE Succeed(r)
    <3>1. /\ Verified(checkout[r]) /\ Pending(checkout[r]) = {} /\ checkout[r] \in Checkouts
          /\ checkout'[r] = checkout[r] /\ ledger \subseteq Migration
      BY <2>1 DEF Succeed, PlanFresh, Running, TypeOK
    <3> QED
      BY <3>1, NothingPending
  <2>3. CASE MakePlan(r)
    BY <2>3 DEF MakePlan, TypeOK
  <2>4. CASE \/ Start(r) \/ AcquireLock(r) \/ BeginTx(r) \/ RollbackTx(r) \/ RecordFails(r)
             \/ ReleaseLock(r) \/ LoseSession(r)
    <3>1. checkout' = checkout /\ result' = result
      BY <2>4 DEF Start, AcquireLock, BeginTx, RollbackTx, RecordFails, ReleaseLock, LoseSession
    <3> QED
      BY <3>1 DEF SuccessIsTrue
  <2> QED
    BY <2>1, <2>3, <2>4
<1> HIDE DEF MigrateInv
<1> QED
  BY <1>1, <1>2, <1>3, <1>4, <1>5, <1>6, QuietStep

-----------------------------------------------------------------------------
(* Steps that execute or record a migration                                *)

LEMMA FirstIsUnique ==
  ASSUME NEW P, P \subseteq Migration, NEW m, NEW n, IsFirst(m, P), IsFirst(n, P)
  PROVE  m.part = n.part /\ m.seq = n.seq
<1>1. m \in Migration /\ n \in Migration /\ Precedes(m, n) /\ Precedes(n, m)
  BY DEF IsFirst
<1>2. m.part \in Nat /\ n.part \in Nat /\ m.seq \in Nat /\ n.seq \in Nat
  BY <1>1, MigrateAssumption DEF Migration
<1> QED
  BY <1>1, <1>2 DEF Precedes

\* While r is running no other run is.
LEMMA OthersNotRunning ==
  ASSUME MigrateInv, NEW r \in Runners, Running(r), NEW o \in Runners \ {r}
  PROVE  ~Running(o)
BY DEF MigrateInv, LockInv, Running

\* In a running run the first migration is not recorded yet.
LEMMA FirstNotTaken ==
  ASSUME MigrateInv, NEW r \in Runners, Running(r), NEW m, IsFirst(m, plan[r])
  PROVE  ~Taken(m)
<1>1. IsFirst(m, Pending(checkout[r])) /\ checkout[r] \in Checkouts
  BY DEF MigrateInv, PlanFresh, TypeOK
<1>2. m.seq \notin AppliedSeqs(m.part)
  BY <1>1, FirstIsNext
<1> QED
  BY <1>2, AppliedMember DEF Taken

\* What it takes for the invariant when the first migration m is recorded.
LEMMA RecordingStep ==
  ASSUME MigrateInv, NEW r \in Runners, Running(r), NEW m, IsFirst(m, plan[r]),
         ledger' = ledger \cup {m}, plan' = [plan EXCEPT ![r] = @ \ {m}],
         pc' = [pc EXCEPT ![r] = "next"], UNCHANGED <<lock, checkout, result>>,
         faults' = faults,
         ran' \in [Parts -> Seq(Executed)],
         \A q \in Parts : \A i \in DOMAIN ran[q] : i \in DOMAIN ran'[q] /\ ran'[q][i] = ran[q][i],
         \E i \in DOMAIN ran'[m.part] :
           ran'[m.part][i] = [seq |-> m.seq, sha |-> m.sha, whole |-> TRUE],
         ExactlyOnce', RunInOrder', RanAfterLedger'
  PROVE  MigrateInv'
<1>0. PICK co \in Checkouts : co = checkout[r]
  BY DEF MigrateInv, TypeOK
<1>1. /\ Verified(co) /\ plan[r] = Pending(co)
      /\ ledger \subseteq Migration /\ IsFirst(m, Pending(co))
  BY <1>0 DEF MigrateInv, PlanFresh, TypeOK
<1>2. /\ m \in Migration /\ m.seq \in Nat /\ m.part \in Parts
      /\ m.seq \notin AppliedSeqs(m.part)
      /\ 1..(m.seq - 1) \subseteq AppliedSeqs(m.part)
  BY <1>1, FirstIsNext DEF Migration
<1>3. /\ Verified(co)' /\ Pending(co)' = Pending(co) \ {m}
      /\ \A p \in Parts : AppliedSeqs(p)' =
           IF p = m.part THEN AppliedSeqs(p) \cup {m.seq} ELSE AppliedSeqs(p)
  BY <1>1, RecordFirst
<1>4. TypeOK'
  BY <1>2 DEF MigrateInv, TypeOK, Executed
<1>5. LockInv'
  BY DEF MigrateInv, TypeOK, LockInv, Running
<1>6. PlanFresh'
  <2> SUFFICES ASSUME NEW o \in Runners, Running(o)'
               PROVE  Verified(checkout[o])' /\ plan'[o] = Pending(checkout[o])'
    BY DEF PlanFresh
  <2>1. o = r
    BY OthersNotRunning DEF Running, MigrateInv, TypeOK
  <2>2. checkout' = checkout /\ plan'[r] = plan[r] \ {m}
    BY DEF MigrateInv, TypeOK
  <2>3. checkout'[r] = co
    BY <1>0, <2>2
  <2>4. Verified(checkout[r])'
    BY <1>3, <2>3 DEF Verified
  <2>5. Pending(checkout[r])' = Pending(co) \ {m}
    BY <1>3, <2>3 DEF Pending
  <2> QED
    BY <1>1, <2>1, <2>2, <2>4, <2>5
<1>7. LedgerContiguous'
  <2> SUFFICES ASSUME NEW p \in Parts
               PROVE  /\ \A s \in AppliedSeqs(p)' : 1..s \subseteq AppliedSeqs(p)'
                      /\ \A a, b \in ledger' :
                           a.part = p /\ b.part = p /\ a.seq = b.seq => a = b
    BY DEF LedgerContiguous
  <2>1. \A s \in AppliedSeqs(p)' : 1..s \subseteq AppliedSeqs(p)'
    <3>1. 1..m.seq = (1..(m.seq - 1)) \cup {m.seq}
      BY <1>2 DEF Migration
    <3>2. ASSUME NEW s \in AppliedSeqs(p) PROVE 1..s \subseteq AppliedSeqs(p)'
      BY <1>3 DEF MigrateInv, LedgerContiguous
    <3>3. p = m.part => 1..m.seq \subseteq AppliedSeqs(p)'
      BY <1>2, <1>3, <3>1
    <3> QED
      BY <1>3, <3>2, <3>3
  <2>2. \A a \in ledger : ~(a.part = m.part /\ a.seq = m.seq)
    BY <1>2, AppliedMember
  <2> QED
    BY <2>1, <2>2 DEF MigrateInv, LedgerContiguous
<1>8. LedgerNeverAhead'
  <2> SUFFICES ASSUME NEW row \in ledger'
               PROVE  \E i \in DOMAIN ran'[row.part] :
                        ran'[row.part][i] = [seq |-> row.seq, sha |-> row.sha, whole |-> TRUE]
    BY DEF LedgerNeverAhead
  <2>1. CASE row = m
    BY <2>1
  <2>2. CASE row \in ledger
    BY <1>1, <2>2 DEF MigrateInv, LedgerNeverAhead, Migration
  <2> QED
    BY <2>1, <2>2
<1>9. RecordsWhatRan'
  <2>1. \A o \in Runners : pc'[o] # "record"
    BY OthersNotRunning DEF MigrateInv, TypeOK, Running
  <2> QED
    BY <2>1 DEF RecordsWhatRan
<1>10. SuccessIsTrue'
  BY DEF MigrateInv, SuccessIsTrue
<1> QED
  BY <1>4, <1>5, <1>6, <1>7, <1>8, <1>9, <1>10 DEF MigrateInv

LEMMA HistoryType ==
  ASSUME MigrateInv, NEW p \in Parts, NEW e \in Executed, ran' = [ran EXCEPT ![p] = Append(@, e)]
  PROVE  ran' \in [Parts -> Seq(Executed)]
<1>1. ran \in [Parts -> Seq(Executed)]
  BY DEF MigrateInv, TypeOK, Executed
<1>2. Append(ran[p], e) \in Seq(Executed)
  BY <1>1
<1> QED
  BY <1>1, <1>2

LEMMA CommitInv ==
  ASSUME MigrateInv, NEW r \in Runners, CommitTx(r)
  PROVE  MigrateInv'
<1>1. Running(r) /\ checkout[r] \in Checkouts
  BY DEF CommitTx, Running, MigrateInv, TypeOK
<1>2. PICK m \in plan[r] :
        /\ IsFirst(m, plan[r])
        /\ ledger' = ledger \cup {m}
        /\ ran' = [ran EXCEPT ![m.part] = Append(@, [seq |-> m.seq, sha |-> m.sha, whole |-> TRUE])]
        /\ plan' = [plan EXCEPT ![r] = @ \ {m}]
        /\ Goto(r, "next")
  BY <1>1, FirstNotTaken DEF CommitTx
<1> DEFINE e == [seq |-> m.seq, sha |-> m.sha, whole |-> TRUE]
<1>3. /\ m \in Migration /\ m.part \in Parts /\ e \in Executed
      /\ m.seq \notin AppliedSeqs(m.part)
      /\ 1..(m.seq - 1) \subseteq AppliedSeqs(m.part)
  <2>1. IsFirst(m, Pending(checkout[r]))
    BY <1>1, <1>2 DEF MigrateInv, PlanFresh
  <2> QED
    BY <1>1, <2>1, FirstIsNext DEF Migration, Executed
<1>4. [part |-> m.part, seq |-> m.seq, sha |-> m.sha] = m
  BY <1>3 DEF Migration
<1>5. /\ ExactlyOnce' /\ RunInOrder' /\ RanAfterLedger'
      /\ \A q \in Parts : \A i \in DOMAIN ran[q] : i \in DOMAIN ran'[q] /\ ran'[q][i] = ran[q][i]
      /\ \E i \in DOMAIN ran'[m.part] : ran'[m.part][i] = e
  BY <1>2, <1>3, <1>4, HistoryGrows
<1>6. ran' \in [Parts -> Seq(Executed)]
  BY <1>2, <1>3, HistoryType
<1> QED
  BY <1>1, <1>2, <1>5, <1>6, RecordingStep DEF CommitTx, Goto

LEMMA RecordInv ==
  ASSUME MigrateInv, NEW r \in Runners, RecordNoTx(r)
  PROVE  MigrateInv'
<1>1. Running(r)
  BY DEF RecordNoTx, Running
<1>2. PICK m \in plan[r] :
        /\ IsFirst(m, plan[r])
        /\ ledger' = ledger \cup {m}
        /\ plan' = [plan EXCEPT ![r] = @ \ {m}]
        /\ Goto(r, "next")
  BY <1>1, FirstNotTaken DEF RecordNoTx
<1>3. UNCHANGED <<ran, lock, checkout, result, faults>> /\ ran \in [Parts -> Seq(Executed)]
  BY DEF RecordNoTx, MigrateInv, TypeOK, Executed
<1>4. \E i \in DOMAIN ran[m.part] : ran[m.part][i] = [seq |-> m.seq, sha |-> m.sha, whole |-> TRUE]
  BY <1>2 DEF RecordNoTx, MigrateInv, RecordsWhatRan
<1>5. ledger \subseteq ledger' /\ \A p : AppliedSeqs(p) \subseteq AppliedSeqs(p)'
  BY <1>2 DEF AppliedSeqs
<1>6. ExactlyOnce' /\ RunInOrder' /\ RanAfterLedger'
  BY <1>3, <1>5 DEF MigrateInv, ExactlyOnce, RunInOrder, RanAfterLedger
<1> QED
  BY <1>1, <1>2, <1>3, <1>4, <1>6, RecordingStep DEF Goto

LEMMA RunNoTxInv ==
  ASSUME MigrateInv, NEW r \in Runners, RunNoTx(r)
  PROVE  MigrateInv'
<1>1. Running(r) /\ checkout[r] \in Checkouts
  BY DEF RunNoTx, Running, MigrateInv, TypeOK
<1>2. PICK m \in plan[r], whole \in BOOLEAN :
       /\ IsFirst(m, plan[r]) /\ m.sha \in NoTx
       /\ ran' = [ran EXCEPT ![m.part] =
                    Append(@, [seq |-> m.seq, sha |-> m.sha, whole |-> whole])]
       /\ IF whole THEN Goto(r, "record") /\ UNCHANGED <<plan, faults>>
                   ELSE Fault /\ Abandon(r)
  BY DEF RunNoTx
<1> DEFINE e == [seq |-> m.seq, sha |-> m.sha, whole |-> whole]
<1>3. UNCHANGED <<lock, ledger, checkout, result>>
  BY DEF RunNoTx
<1>4. /\ m \in Migration /\ m.part \in Parts /\ e \in Executed
      /\ m.seq \notin AppliedSeqs(m.part)
      /\ 1..(m.seq - 1) \subseteq AppliedSeqs(m.part)
  <2>1. IsFirst(m, Pending(checkout[r]))
    BY <1>1, <1>2 DEF MigrateInv, PlanFresh
  <2> QED
    BY <1>1, <2>1, FirstIsNext DEF Migration, Executed
<1>5. /\ ExactlyOnce' /\ RunInOrder' /\ RanAfterLedger'
      /\ \A q \in Parts : \A i \in DOMAIN ran[q] : i \in DOMAIN ran'[q] /\ ran'[q][i] = ran[q][i]
      /\ \E i \in DOMAIN ran'[m.part] : ran'[m.part][i] = e
  BY <1>2, <1>3, <1>4, HistoryGrows
<1>6. ran' \in [Parts -> Seq(Executed)]
  BY <1>2, <1>4, HistoryType
<1>7. \/ whole = TRUE /\ pc' = [pc EXCEPT ![r] = "record"] /\ UNCHANGED <<plan, faults>>
      \/ /\ pc' = [pc EXCEPT ![r] = "unlock"] /\ plan' = [plan EXCEPT ![r] = {}]
         /\ faults < MaxFaults /\ faults' = faults + 1
  BY <1>2 DEF Goto, Fault, Abandon
<1>8. TypeOK'
  <2>1. faults' \in 0..MaxFaults /\ plan' \in [Runners -> SUBSET Migration]
    BY <1>7, MigrateAssumption DEF MigrateInv, TypeOK
  <2>2. pc' \in [Runners -> {"idle", "lock", "plan", "next", "in_tx", "record", "unlock"}]
    BY <1>7 DEF MigrateInv, TypeOK
  <2> QED
    BY <1>3, <1>6, <2>1, <2>2 DEF MigrateInv, TypeOK, Executed
<1>9. LockInv'
  BY <1>3, <1>7, <1>1 DEF MigrateInv, LockInv, TypeOK, Running
<1>10. PlanFresh'
  <2> SUFFICES ASSUME NEW o \in Runners, Running(o)'
               PROVE  Verified(checkout[o])' /\ plan'[o] = Pending(checkout[o])'
    BY DEF PlanFresh
  <2>1. o = r /\ plan' = plan
    BY <1>1, <1>7, OthersNotRunning DEF Running, MigrateInv, TypeOK
  <2> QED
    BY <1>1, <1>3, <2>1 DEF MigrateInv, PlanFresh, Verified, Pending, AppliedSeqs
<1>11. LedgerContiguous'
  BY <1>3 DEF MigrateInv, LedgerContiguous, AppliedSeqs
<1>12. LedgerNeverAhead'
  BY <1>3, <1>5 DEF MigrateInv, LedgerNeverAhead, TypeOK, Migration
<1>13. RecordsWhatRan'
  <2> SUFFICES ASSUME NEW o \in Runners, pc'[o] = "record", NEW n \in plan'[o], IsFirst(n, plan'[o])
               PROVE  \E i \in DOMAIN ran'[n.part] :
                        ran'[n.part][i] = [seq |-> n.seq, sha |-> n.sha, whole |-> TRUE]
    BY DEF RecordsWhatRan
  <2>1. o = r /\ plan' = plan /\ whole = TRUE
    BY <1>1, <1>7, OthersNotRunning DEF Running, MigrateInv, TypeOK
  <2>2. plan[r] \subseteq Migration
    BY DEF MigrateInv, TypeOK
  <2>3. n.part = m.part /\ n.seq = m.seq
    BY <1>2, <2>1, <2>2, FirstIsUnique
  <2>4. n.sha = m.sha
    <3>1. IsFirst(m, Pending(checkout[r])) /\ IsFirst(n, Pending(checkout[r]))
      BY <1>1, <1>2, <2>1 DEF MigrateInv, PlanFresh
    <3> QED
      BY <1>1, <2>3, <3>1, FirstIsNext
  <2> QED
    BY <1>5, <2>1, <2>3, <2>4
<1>14. SuccessIsTrue'
  BY <1>3 DEF MigrateInv, SuccessIsTrue
<1> QED
  BY <1>5, <1>8, <1>9, <1>10, <1>11, <1>12, <1>13, <1>14 DEF MigrateInv

-----------------------------------------------------------------------------
LEMMA StepInv == MigrateInv /\ [Next]_vars => MigrateInv'
<1> SUFFICES ASSUME MigrateInv, [Next]_vars PROVE MigrateInv'
  OBVIOUS
<1>1. CASE UNCHANGED vars
  <2>1. TypeOK' /\ LockInv'
    BY <1>1 DEF vars, runVars, MigrateInv, TypeOK, LockInv
  <2>2. PlanFresh'
    BY <1>1 DEF vars, runVars, MigrateInv, PlanFresh, Running, Verified, Pending, AppliedSeqs
  <2>3. RecordsWhatRan' /\ SuccessIsTrue'
    BY <1>1 DEF vars, runVars, MigrateInv, RecordsWhatRan, SuccessIsTrue
  <2> QED
    BY <1>1, <2>1, <2>2, <2>3, DatabaseKept DEF vars, MigrateInv
<1>2. CASE Next
  BY <1>2, QuietSteps, CommitInv, RecordInv, RunNoTxInv DEF Next, RunStep
<1> QED
  BY <1>1, <1>2

\* The invariant behind the theorems below.
THEOREM MigrateInvariant == Spec => []MigrateInv
BY InitInv, StepInv, PTL DEF Spec

\* A plan is carried out only while it is what would be planned again.
THEOREM PlansStayFresh == Spec => []PlanFresh
<1>1. MigrateInv => PlanFresh
  BY DEF MigrateInv
<1> QED
  BY <1>1, MigrateInvariant, PTL

\* A transactional migration is executed once and recorded with it.
THEOREM TransactionalExactlyOnce == Spec => []ExactlyOnce
<1>1. MigrateInv => ExactlyOnce
  BY DEF MigrateInv
<1> QED
  BY <1>1, MigrateInvariant, PTL

\* The ledger never records a migration the database has not been through.
THEOREM LedgerIsTrue == Spec => [](LedgerContiguous /\ LedgerNeverAhead /\ RunInOrder)
<1>1. MigrateInv => LedgerContiguous /\ LedgerNeverAhead /\ RunInOrder
  BY DEF MigrateInv
<1> QED
  BY <1>1, MigrateInvariant, PTL

\* A run that reported success left every file of its checkout recorded.
THEOREM SuccessReported == Spec => []SuccessIsTrue
<1>1. MigrateInv => SuccessIsTrue
  BY DEF MigrateInv
<1> QED
  BY <1>1, MigrateInvariant, PTL

\* A verified ledger holds files of the checkout and nothing else of its parts.
LEMMA VerifiedMatches ==
  ASSUME NEW co \in Checkouts, ledger \subseteq Migration, Verified(co)
  PROVE  LedgerMatches(co)
<1> SUFFICES ASSUME NEW row \in ledger, row.part \in DOMAIN co
             PROVE  row.seq <= Len(co[row.part]) /\ row.sha = co[row.part][row.seq]
  BY DEF LedgerMatches
<1>1. PICK n \in 0..Len(co[row.part]) : AppliedSeqs(row.part) = 1..n
  BY DEF Verified
<1>2. row.seq \in 1..n
  BY <1>1, AppliedMember
<1>3. Len(co[row.part]) \in Nat
  BY CheckoutFiles
<1> QED
  BY <1>2, <1>3 DEF Verified

\* No statement of a migration runs from a checkout that diverges from the ledger.
THEOREM DivergenceStopsRuns == Spec => DivergenceStops
<1>1. ASSUME MigrateInv, [Next]_vars, NEW p \in Parts, ran'[p] # ran[p]
      PROVE  \E r \in Runners : pc[r] # pc'[r] /\ LedgerMatches(checkout[r])
  <2>1. PICK r \in Runners : CommitTx(r) \/ RunNoTx(r)
    BY <1>1 DEF Next, RunStep, vars, Start, AcquireLock, MakePlan, BeginTx, RollbackTx,
                RecordNoTx, RecordFails, Succeed, ReleaseLock, LoseSession
  <2>2. Running(r) /\ pc[r] # pc'[r]
    BY <1>1, <2>1 DEF CommitTx, RunNoTx, Running, Goto, Abandon, MigrateInv, TypeOK
  <2>3. checkout[r] \in Checkouts /\ ledger \subseteq Migration /\ Verified(checkout[r])
    BY <1>1, <2>2 DEF MigrateInv, TypeOK, PlanFresh
  <2> QED
    BY <2>2, <2>3, VerifiedMatches
<1>2. MigrateInv /\ [Next]_vars =>
        (\A p \in Parts : ran'[p] # ran[p] =>
           \E r \in Runners : pc[r] # pc'[r] /\ LedgerMatches(checkout[r]))
  BY <1>1
<1> QED
  BY <1>2, MigrateInvariant, PTL DEF Spec, DivergenceStops

=============================================================================
