---------------------------- MODULE PartMigrate ----------------------------
(***************************************************************************)
(* `partkit migrate`: packages/core/src/ops/migrate.ts.  Any number of     *)
(* deploys run runMigrations against one Postgres database, each over a    *)
(* session of its own; they serialize on a session advisory lock.  A step  *)
(* is a statement, or a transaction's commit: what a transaction did is    *)
(* seen by nobody before it.  A session that ends, by a crash of the       *)
(* process or a lost connection, is rolled back and gives up the lock.     *)
(*                                                                         *)
(* A migration is its part, its number and the bytes of its file (sha);    *)
(* the empty ledger also stands for a ledger table not yet created.        *)
(***************************************************************************)
EXTENDS Integers, Sequences

CONSTANTS
  Runners,     \* deploys running `partkit migrate`
  NoRunner,    \* the advisory lock is free
  Parts,       \* part names, as their positions in alphabetical order
  Shas,        \* contents a migration file can have
  NoTx,        \* the contents whose first line is -- partkit:no-transaction
  Checkouts,   \* states of a repository: installed part -> its files in order
  MaxFaults    \* bound on failing statements and lost sessions

ASSUME MigrateAssumption ==
  /\ NoRunner \notin Runners
  /\ Parts \subseteq Nat
  /\ NoTx \subseteq Shas
  /\ \A co \in Checkouts : DOMAIN co \subseteq Parts
                           /\ \A p \in DOMAIN co : co[p] \in Seq(Shas)
  /\ MaxFaults \in Nat

VARIABLES
  lock,        \* holder of pg_advisory_lock(MIGRATE_LOCK_KEY)
  ledger,      \* rows of _part_migrations
  ran,         \* ran[p]: what was executed of part p, in order (ghost)
  pc,          \* pc[r]: where runMigrations stands
  checkout,    \* checkout[r]: the repository r's plan was made from
  plan,        \* plan[r]: migrations r has still to apply
  result,      \* result[r]: how the last run that made a plan ended
  faults

runVars == <<pc, checkout, plan, result>>
vars == <<lock, ledger, ran, runVars, faults>>

Migration == [part : Parts, seq : Nat \ {0}, sha : Shas]

\* Execution order: parts alphabetical, numbers ascending.
Precedes(m, n) == m.part < n.part \/ (m.part = n.part /\ m.seq <= n.seq)
IsFirst(m, P) == m \in P /\ \A n \in P : Precedes(m, n)

-----------------------------------------------------------------------------
(* planMigrations                                                          *)

AppliedSeqs(p) == {row.seq : row \in {m \in ledger : m.part = p}}

VerifiedByNumber(co) ==             \* mutant: the bytes are not compared
  \A p \in DOMAIN co : \E n \in 0..Len(co[p]) : AppliedSeqs(p) = 1..n

\* Rows numbered 1..n, no more of them than there are files, each byte-identical
\* to its file.
Verified(co) ==
  \A p \in DOMAIN co :
    /\ \E n \in 0..Len(co[p]) : AppliedSeqs(p) = 1..n
    /\ \A row \in ledger : row.part = p => row.sha = co[p][row.seq]

\* Files after the last verified row.
Pending(co) ==
  UNION {{[part |-> p, seq |-> s, sha |-> co[p][s]] : s \in (1..Len(co[p])) \ AppliedSeqs(p)}
           : p \in DOMAIN co}

-----------------------------------------------------------------------------
Init ==
  /\ lock = NoRunner
  /\ ledger = {}
  /\ ran = [p \in Parts |-> <<>>]
  /\ pc = [r \in Runners |-> "idle"]
  /\ checkout \in [Runners -> Checkouts]
  /\ plan = [r \in Runners |-> {}]
  /\ result = [r \in Runners |-> "none"]
  /\ faults = 0

Goto(r, label) == pc' = [pc EXCEPT ![r] = label]

Start(r) ==
  /\ pc[r] = "idle"
  /\ Goto(r, "lock")
  /\ UNCHANGED <<lock, ledger, ran, checkout, plan, result, faults>>

AcquireNothing(r) ==                \* mutant: the lock excludes nobody
  /\ pc[r] = "lock"
  /\ lock' = r
  /\ Goto(r, "plan")
  /\ UNCHANGED <<ledger, ran, checkout, plan, result, faults>>

AcquireLock(r) ==
  /\ pc[r] = "lock"
  /\ lock = NoRunner
  /\ lock' = r
  /\ Goto(r, "plan")
  /\ UNCHANGED <<ledger, ran, checkout, plan, result, faults>>

\* The plan is made under the lock from the files and the ledger of that
\* moment; any divergence between them fails the run.
MakePlan(r) ==
  /\ pc[r] = "plan"
  /\ \E co \in Checkouts :
       /\ checkout' = [checkout EXCEPT ![r] = co]
       /\ IF Verified(co)
            THEN /\ plan' = [plan EXCEPT ![r] = Pending(co)]
                 /\ Goto(r, "next")
            ELSE Goto(r, "unlock") /\ UNCHANGED plan
  /\ result' = [result EXCEPT ![r] = "none"]
  /\ UNCHANGED <<lock, ledger, ran, faults>>

\* BEGIN, the file's SQL, RESET search_path
BeginTx(r) ==
  /\ pc[r] = "next"
  /\ \E m \in plan[r] : IsFirst(m, plan[r]) /\ m.sha \notin NoTx
  /\ Goto(r, "in_tx")
  /\ UNCHANGED <<lock, ledger, ran, checkout, plan, result, faults>>

Fault == faults < MaxFaults /\ faults' = faults + 1

AbandonQuietly(r) ==                \* mutant: the error is swallowed
  plan' = [plan EXCEPT ![r] = {}] /\ Goto(r, "next")
AbandonLocked(r) ==                 \* mutant: no unlock on the error path
  plan' = [plan EXCEPT ![r] = {}] /\ Goto(r, "idle")
Abandon(r) == plan' = [plan EXCEPT ![r] = {}] /\ Goto(r, "unlock")

Taken(m) == \E row \in ledger : row.part = m.part /\ row.seq = m.seq

\* The INSERT into the ledger meets PRIMARY KEY (part, seq); then COMMIT.
CommitTx(r) ==
  /\ pc[r] = "in_tx"
  /\ \E m \in plan[r] :
       /\ IsFirst(m, plan[r])
       /\ IF Taken(m)
            THEN Abandon(r) /\ UNCHANGED <<ledger, ran>>
            ELSE /\ ledger' = ledger \cup {m}
                 /\ ran' = [ran EXCEPT ![m.part] =
                              Append(@, [seq |-> m.seq, sha |-> m.sha, whole |-> TRUE])]
                 /\ plan' = [plan EXCEPT ![r] = @ \ {m}]
                 /\ Goto(r, "next")
  /\ UNCHANGED <<lock, checkout, result, faults>>

RollbackNothing(r) ==               \* mutant: no BEGIN around the file's SQL
  /\ pc[r] = "in_tx"
  /\ Fault
  /\ \E m \in plan[r] : /\ IsFirst(m, plan[r])
                        /\ ran' = [ran EXCEPT ![m.part] =
                             Append(@, [seq |-> m.seq, sha |-> m.sha, whole |-> TRUE])]
  /\ Abandon(r)
  /\ UNCHANGED <<lock, ledger, checkout, result>>

\* A statement of the transaction fails: ROLLBACK, and the run throws.
RollbackTx(r) ==
  /\ pc[r] = "in_tx"
  /\ Fault
  /\ Abandon(r)
  /\ UNCHANGED <<lock, ledger, ran, checkout, result>>

\* Outside a transaction the SQL takes effect as it goes, all of it or a part.
RunNoTx(r) ==
  /\ pc[r] = "next"
  /\ \E m \in plan[r], whole \in BOOLEAN :
       /\ IsFirst(m, plan[r]) /\ m.sha \in NoTx
       /\ ran' = [ran EXCEPT ![m.part] =
                    Append(@, [seq |-> m.seq, sha |-> m.sha, whole |-> whole])]
       /\ IF whole THEN Goto(r, "record") /\ UNCHANGED <<plan, faults>>
                   ELSE Fault /\ Abandon(r)
  /\ UNCHANGED <<lock, ledger, checkout, result>>

RecordNoTx(r) ==
  /\ pc[r] = "record"
  /\ \E m \in plan[r] :
       /\ IsFirst(m, plan[r])
       /\ IF Taken(m)
            THEN Abandon(r) /\ UNCHANGED ledger
            ELSE /\ ledger' = ledger \cup {m}
                 /\ plan' = [plan EXCEPT ![r] = @ \ {m}]
                 /\ Goto(r, "next")
  /\ UNCHANGED <<lock, ran, checkout, result, faults>>

\* "the ledger is behind the database"
RecordFails(r) ==
  /\ pc[r] = "record"
  /\ Fault
  /\ Abandon(r)
  /\ UNCHANGED <<lock, ledger, ran, checkout, result>>

Succeed(r) ==
  /\ pc[r] = "next"
  /\ plan[r] = {}
  /\ Goto(r, "unlock")
  /\ result' = [result EXCEPT ![r] = "ok"]
  /\ UNCHANGED <<lock, ledger, ran, checkout, plan, faults>>

\* finally: pg_advisory_unlock
ReleaseLock(r) ==
  /\ pc[r] = "unlock"
  /\ lock' = NoRunner
  /\ Goto(r, "idle")
  /\ UNCHANGED <<ledger, ran, checkout, plan, result, faults>>

\* The session ends.  An open transaction is rolled back by the server, or was
\* committed just before (CommitTx); statements outside one stay done.
LoseSession(r) ==
  /\ pc[r] # "idle"
  /\ Fault
  /\ lock' = IF lock = r THEN NoRunner ELSE lock
  /\ plan' = [plan EXCEPT ![r] = {}]
  /\ Goto(r, "idle")
  /\ UNCHANGED <<ledger, ran, checkout, result>>

RunStep(r) ==
  \/ MakePlan(r) \/ BeginTx(r) \/ CommitTx(r) \/ RollbackTx(r) \/ RunNoTx(r)
  \/ RecordNoTx(r) \/ RecordFails(r) \/ Succeed(r) \/ ReleaseLock(r)

Next == \E r \in Runners : Start(r) \/ AcquireLock(r) \/ RunStep(r) \/ LoseSession(r)

Spec == Init /\ [][Next]_vars

\* A run that has begun goes on, and Postgres grants a free lock to its waiters
\* in turn.
FairSpec == Spec /\ \A r \in Runners : WF_vars(RunStep(r)) /\ SF_vars(AcquireLock(r))

-----------------------------------------------------------------------------
(* What must hold                                                          *)

Running(r) == pc[r] \in {"next", "in_tx", "record"}

TypeOK ==
  /\ lock \in Runners \cup {NoRunner}
  /\ ledger \subseteq Migration
  /\ ran \in [Parts -> Seq([seq : Nat \ {0}, sha : Shas, whole : BOOLEAN])]
  /\ pc \in [Runners -> {"idle", "lock", "plan", "next", "in_tx", "record", "unlock"}]
  /\ checkout \in [Runners -> Checkouts]
  /\ plan \in [Runners -> SUBSET Migration]
  /\ result \in [Runners -> {"none", "ok"}]
  /\ faults \in 0..MaxFaults

\* The plan is never stale while it is carried out: at every step it is exactly
\* what planMigrations would compute again (the lock covers plan and apply).
PlanFresh ==
  \A r \in Runners : Running(r) => /\ Verified(checkout[r])
                                   /\ plan[r] = Pending(checkout[r])

\* The ledger records each part's migrations as 1..n, one row each: the
\* hand-edit check of planMigrations never fires on what migrate wrote itself.
LedgerContiguous ==
  \A p \in Parts :
    /\ \A s \in AppliedSeqs(p) : 1..s \subseteq AppliedSeqs(p)
    /\ \A a, b \in ledger : a.part = p /\ b.part = p /\ a.seq = b.seq => a = b

\* The ledger never claims what the database does not have: a recorded migration
\* was executed to its end, with those bytes.
LedgerNeverAhead ==
  \A row \in ledger : \E i \in DOMAIN ran[row.part] :
    ran[row.part][i] = [seq |-> row.seq, sha |-> row.sha, whole |-> TRUE]

\* A transactional migration is executed once in the life of the database, and
\* is recorded when it is: a deploy that races, fails or is cut off leaves none
\* applied but unrecorded.
ExactlyOnce ==
  \A p \in Parts : \A i \in DOMAIN ran[p] : ran[p][i].sha \notin NoTx =>
    /\ [part |-> p, seq |-> ran[p][i].seq, sha |-> ran[p][i].sha] \in ledger
    /\ \A j \in DOMAIN ran[p] : j > i => ran[p][j].seq > ran[p][i].seq

\* A part's migrations run in order, and one runs again (a no-transaction one,
\* cut off before it was recorded) only before any later one has run.
RunInOrder ==
  \A p \in Parts : \A i, j \in DOMAIN ran[p] : i < j => ran[p][i].seq <= ran[p][j].seq

\* A run that ended well left the database at its checkout, for good: all of the
\* checkout's files are recorded, byte for byte.
SuccessIsTrue ==
  \A r \in Runners : result[r] = "ok" =>
    \A p \in DOMAIN checkout[r] : \A s \in 1..Len(checkout[r][p]) :
      [part |-> p, seq |-> s, sha |-> checkout[r][p][s]] \in ledger

\* Nothing is executed by a checkout that disagrees with the ledger: an applied
\* file that is missing or whose bytes changed stops the run before its first
\* statement, whichever of the checkout's parts the file belongs to.
LedgerMatches(co) ==
  \A row \in ledger : row.part \in DOMAIN co =>
    row.seq <= Len(co[row.part]) /\ row.sha = co[row.part][row.seq]

DivergenceStops ==
  [][\A p \in Parts : ran'[p] # ran[p] =>
       \E r \in Runners : pc[r] # pc'[r] /\ LedgerMatches(checkout[r])]_vars

\* Every run ends, and so gives the lock up.
RunsEnd == \A r \in Runners : pc[r] # "idle" ~> pc[r] = "idle"

-----------------------------------------------------------------------------
(* The inductive invariant                                                 *)

\* A run holds the lock from its plan to its unlock.
LockInv ==
  \A r \in Runners : (lock = r) <=> pc[r] \in {"plan", "next", "in_tx", "record", "unlock"}

\* What was executed has all of its part's earlier migrations recorded.
RanAfterLedger ==
  \A p \in Parts : \A i \in DOMAIN ran[p] : 1..(ran[p][i].seq - 1) \subseteq AppliedSeqs(p)

\* A run about to record a migration has executed it to the end.
RecordsWhatRan ==
  \A r \in Runners : pc[r] = "record" => \A m \in plan[r] : IsFirst(m, plan[r]) =>
    \E i \in DOMAIN ran[m.part] : ran[m.part][i] = [seq |-> m.seq, sha |-> m.sha, whole |-> TRUE]

MigrateInv ==
  /\ TypeOK
  /\ LockInv
  /\ PlanFresh
  /\ LedgerContiguous
  /\ LedgerNeverAhead
  /\ ExactlyOnce
  /\ RunInOrder
  /\ RanAfterLedger
  /\ RecordsWhatRan
  /\ SuccessIsTrue
=============================================================================
