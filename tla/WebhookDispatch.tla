-------------------------- MODULE WebhookDispatch --------------------------
(***************************************************************************)
(* The outbound webhook sender, part webhooks.dispatch 1.0.0               *)
(* (registry/parts/webhooks.dispatch/1.0.0/part/src/internal/store.ts and  *)
(* sql.ts, with the tables of migrations/001-create-dispatch-tables.sql).  *)
(*                                                                         *)
(* Each SQL statement is one step and so is the HTTP request.  Callers run *)
(* dispatch(); drains run deliverDue(), any number of them at once, since  *)
(* the part takes no lock.  A drain that throws (a failed statement) or    *)
(* whose process dies forgets its page; the tables stay.                   *)
(***************************************************************************)
EXTENDS Integers, Sequences

CONSTANTS
  Endpoints, Messages, Keys,
  NoKey,         \* the NULL idempotency_key, which never conflicts
  Callers,       \* processes that call dispatch
  Drains,        \* processes that call deliverDue
  MaxAttempts,   \* MAX_ATTEMPTS
  BaseBackoff, MaxBackoff,
  RetryAfters,   \* values of a 429's Retry-After header
  Batch,         \* deliverDue's LIMIT
  Horizon,       \* bound on time: instants past it count as one instant
  MaxCrashes     \* bound on the drains lost in the middle of a pass

ASSUME DispatchAssumption ==
  /\ NoKey \notin Keys
  /\ MaxAttempts \in Nat \ {0}
  /\ Batch \in Nat \ {0}
  /\ Horizon \in Nat
  /\ MaxCrashes \in Nat

VARIABLES
  endpoints,     \* table webhooks_dispatch_endpoints: registered ids
  outbox,        \* table webhooks_dispatch_outbox, a row per message id
  log,           \* table webhooks_dispatch_attempts, a set per message
  caller,        \* where each dispatch call stands, and its arguments
  answers,       \* <<endpoint, key, message>> of every messageId returned
  clock,
  pc,            \* pc[d]: the next statement of drain d's pass
  started,       \* started[d]: the pass's `now`
  page,          \* page[d]: rows the pass still has to attempt, as selected
  attempt,       \* attempt[d]: the attempt in flight
  sends,         \* sends[m]: HTTP requests made for m
  taken,         \* messages whose event an endpoint has taken
  refused,       \* messages some endpoint answered with a permanent 4xx
  crashes

tables == <<endpoints, outbox, log>>
drainVars == <<pc, started, page, attempt>>
wire == <<sends, taken, refused>>
callVars == <<caller, answers>>
vars == <<tables, callVars, clock, drainVars, wire, crashes>>

\* What deliver() returns: a 2xx, a 429, any other 4xx, or a 5xx or network error.
Replies == {"ok", "throttled", "permanent", "transient"}
Outcomes == {"delivered", "retrying", "dead"}
Row == [ep : Endpoints, key : Keys \cup {NoKey}, count : Nat, next : 0..Horizon,
        status : {"pending", "delivered", "dead"}]
NoRow == [status |-> "none"]
Attempt == [no : Nat, outcome : Outcomes, next : 0..Horizon]
NoAttempt == [no |-> 0, outcome |-> "retrying", next |-> 0]

Stored(m) == outbox[m] # NoRow
Terminal(m) == outbox[m].status \in {"delivered", "dead"}

-----------------------------------------------------------------------------
(* The retry policy, a pure function of the attempt number and the reply.  *)

Backoff(no) == LET wait == BaseBackoff * 2 ^ (no - 1)
               IN  IF wait < MaxBackoff THEN wait ELSE MaxBackoff

Later(t, delay) == IF delay \in 0..(Horizon - t) THEN t + delay ELSE Horizon

OutcomeEarly(no, reply) ==          \* mutant: the budget is one attempt short
  CASE reply = "ok" -> "delivered"
    [] reply = "permanent" -> "dead"
    [] OTHER -> IF no >= MaxAttempts - 1 THEN "dead" ELSE "retrying"

Outcome(no, reply) ==
  CASE reply = "ok" -> "delivered"
    [] reply = "permanent" -> "dead"
    [] OTHER -> IF no >= MaxAttempts THEN "dead" ELSE "retrying"

\* A Retry-After header, when the 429 has one, replaces the backoff.
Delays(no, reply) ==
  {Backoff(no)} \cup (IF reply = "throttled" THEN RetryAfters ELSE {})

-----------------------------------------------------------------------------
NotCalling == [at |-> "idle"]

Init ==
  /\ endpoints = {}
  /\ outbox = [m \in Messages |-> NoRow]
  /\ log = [m \in Messages |-> {}]
  /\ caller = [c \in Callers |-> NotCalling]
  /\ answers = {}
  /\ clock = 0
  /\ pc = [d \in Drains |-> "idle"]
  /\ started = [d \in Drains |-> 0]
  /\ page = [d \in Drains |-> <<>>]
  /\ attempt = [d \in Drains |-> NoAttempt]
  /\ sends = [m \in Messages |-> 0]
  /\ taken = {}
  /\ refused = {}
  /\ crashes = 0

-----------------------------------------------------------------------------
(* registerEndpoint and dispatch                                           *)

RegisterEndpoint(e) ==
  /\ e \notin endpoints
  /\ endpoints' = endpoints \cup {e}
  /\ UNCHANGED <<outbox, log, callVars, clock, drainVars, wire, crashes>>

\* SELECT_ENDPOINT found the endpoint; without one the call throws.
DispatchBegin(c, e, k) ==
  /\ caller[c] = NotCalling
  /\ e \in endpoints
  /\ caller' = [caller EXCEPT ![c] = [at |-> "insert", ep |-> e, key |-> k]]
  /\ UNCHANGED <<tables, answers, clock, drainVars, wire, crashes>>

ConflictsPending(m, e, k) ==        \* mutant: a partial index, on pending rows
  k # NoKey /\ outbox[m].status = "pending" /\ outbox[m].ep = e /\ outbox[m].key = k

\* The UNIQUE (endpoint_id, idempotency_key) of the outbox; NULLs are distinct.
Conflicts(m, e, k) == k # NoKey /\ Stored(m) /\ outbox[m].ep = e /\ outbox[m].key = k

Answer(c, m) ==
  /\ answers' = answers \cup {<<caller[c].ep, caller[c].key, m>>}
  /\ caller' = [caller EXCEPT ![c] = NotCalling]

\* INSERT ... ON CONFLICT DO NOTHING RETURNING id, under a fresh id.
DispatchInsert(c) ==
  /\ caller[c].at = "insert"
  /\ IF \E m \in Messages : Conflicts(m, caller[c].ep, caller[c].key)
       THEN /\ caller' = [caller EXCEPT ![c].at = "lookup"]
            /\ UNCHANGED <<outbox, answers>>
       ELSE \E m \in Messages :
              /\ ~Stored(m)
              /\ outbox' = [outbox EXCEPT ![m] =
                   [ep |-> caller[c].ep, key |-> caller[c].key, count |-> 0,
                    next |-> clock, status |-> "pending"]]
              /\ Answer(c, m)
  /\ UNCHANGED <<endpoints, log, clock, drainVars, wire, crashes>>

DispatchLookup(c) ==
  /\ caller[c].at = "lookup"
  /\ \E m \in Messages : Conflicts(m, caller[c].ep, caller[c].key) /\ Answer(c, m)
  /\ UNCHANGED <<tables, clock, drainVars, wire, crashes>>

\* The call fails or its process dies; the application may call again.
DispatchAbort(c) ==
  /\ caller[c] # NotCalling
  /\ caller' = [caller EXCEPT ![c] = NotCalling]
  /\ UNCHANGED <<tables, answers, clock, drainVars, wire, crashes>>

-----------------------------------------------------------------------------
(* deliverDue                                                              *)

DueUnexhausted(t) ==                \* mutant: the last attempt is never selected
  {m \in Messages : /\ outbox[m].status = "pending" /\ outbox[m].next <= t
                    /\ outbox[m].count < MaxAttempts - 1}

Due(t) == {m \in Messages : outbox[m].status = "pending" /\ outbox[m].next <= t}

\* ORDER BY next_attempt_at LIMIT batch: the earliest rows, all when they fit.
IsDuePage(s, t) ==
  /\ \A i, j \in DOMAIN s : i < j => s[i] # s[j] /\ outbox[s[i]].next <= outbox[s[j]].next
  /\ \A m \in Due(t) : \/ \E i \in DOMAIN s : s[i] = m
                       \/ /\ Len(s) = Batch
                          /\ \A i \in DOMAIN s : outbox[s[i]].next <= outbox[m].next

SelectDue(d) ==
  /\ pc[d] = "idle"
  /\ \E n \in 1..Batch : \E s \in [1..n -> Due(clock)] :
       /\ IsDuePage(s, clock)
       /\ page' = [page EXCEPT ![d] =
                     [i \in 1..n |-> [msg |-> s[i], count |-> outbox[s[i]].count]]]
  /\ started' = [started EXCEPT ![d] = clock]
  /\ pc' = [pc EXCEPT ![d] = "send"]
  /\ UNCHANGED <<tables, callVars, clock, attempt, wire, crashes>>

\* The HTTP request and its reply.  The attempt is numbered from the row as it
\* was selected, and the next one is due relative to the start of the pass.
Send(d) ==
  /\ pc[d] = "send"
  /\ LET m == Head(page[d]).msg
         no == Head(page[d]).count + 1
     IN  \E reply \in Replies :
           /\ \E delay \in Delays(no, reply) :
                attempt' = [attempt EXCEPT ![d] =
                  [no |-> no, outcome |-> Outcome(no, reply),
                   next |-> Later(started[d], delay)]]
           /\ sends' = [sends EXCEPT ![m] = @ + 1]
           /\ \/ reply \in {"ok", "transient"} /\ taken' = taken \cup {m}
              \/ reply # "ok" /\ taken' = taken
           /\ refused' = IF reply = "permanent" THEN refused \cup {m} ELSE refused
  /\ pc' = [pc EXCEPT ![d] = "log"]
  /\ UNCHANGED <<tables, callVars, clock, started, page, crashes>>

\* INSERT_ATTEMPT
LogAttempt(d) ==
  /\ pc[d] = "log"
  /\ LET m == Head(page[d]).msg
     IN  log' = [log EXCEPT ![m] = @ \cup {[no |-> attempt[d].no, outcome |-> attempt[d].outcome]}]
  /\ pc' = [pc EXCEPT ![d] = "mark"]
  /\ UNCHANGED <<endpoints, outbox, callVars, clock, started, page, attempt, wire, crashes>>

\* Mutants of Marked.  attempt_count = attempt_count + 1:
MarkedIncrement(row, a) ==
  IF row.status # "pending" THEN row
  ELSE IF a.outcome = "retrying" THEN [row EXCEPT !.count = @ + 1, !.next = a.next]
       ELSE [row EXCEPT !.status = a.outcome, !.count = @ + 1]

\* no statement has the guard on status, or only MARK_DEAD lacks it:
MarkedAlways(row, a) ==
  IF a.outcome = "retrying"
    THEN [row EXCEPT !.status = "pending", !.count = a.no, !.next = a.next]
    ELSE [row EXCEPT !.status = a.outcome, !.count = a.no]

MarkedDeadAlways(row, a) ==
  IF a.outcome = "dead" THEN [row EXCEPT !.status = "dead", !.count = a.no]
  ELSE IF row.status # "pending" THEN row ELSE MarkedAlways(row, a)

\* a retry does not count:
MarkedUncounted(row, a) ==
  IF row.status = "pending" /\ a.outcome = "retrying" THEN [row EXCEPT !.next = a.next]
  ELSE IF row.status = "pending" THEN MarkedAlways(row, a) ELSE row

\* MARK_DELIVERED, MARK_RETRY and MARK_DEAD, all WHERE status = 'pending'.
Marked(row, a) ==
  IF row.status # "pending"
    THEN row
    ELSE CASE a.outcome = "delivered" -> [row EXCEPT !.status = "delivered", !.count = a.no]
           [] a.outcome = "retrying"  -> [row EXCEPT !.count = a.no, !.next = a.next]
           [] a.outcome = "dead"      -> [row EXCEPT !.status = "dead", !.count = a.no]

\* The row is written and the loop goes on, or stops at the pass budget.
MarkRow(d) ==
  /\ pc[d] = "mark"
  /\ LET m == Head(page[d]).msg
     IN  outbox' = [outbox EXCEPT ![m] = Marked(@, attempt[d])]
  /\ attempt' = [attempt EXCEPT ![d] = NoAttempt]
  /\ \/ /\ Len(page[d]) > 1
        /\ page' = [page EXCEPT ![d] = Tail(@)]
        /\ pc' = [pc EXCEPT ![d] = "send"]
        /\ UNCHANGED started
     \/ /\ page' = [page EXCEPT ![d] = <<>>]
        /\ pc' = [pc EXCEPT ![d] = "idle"]
        /\ started' = [started EXCEPT ![d] = 0]
  /\ UNCHANGED <<endpoints, log, callVars, clock, wire, crashes>>

\* A statement of the pass throws, or its process dies.
DrainCrash(d) ==
  /\ pc[d] # "idle"
  /\ crashes < MaxCrashes
  /\ crashes' = crashes + 1
  /\ pc' = [pc EXCEPT ![d] = "idle"]
  /\ page' = [page EXCEPT ![d] = <<>>]
  /\ attempt' = [attempt EXCEPT ![d] = NoAttempt]
  /\ started' = [started EXCEPT ![d] = 0]
  /\ UNCHANGED <<tables, callVars, clock, wire>>

Tick ==
  /\ clock < Horizon
  /\ clock' = clock + 1
  /\ UNCHANGED <<tables, callVars, drainVars, wire, crashes>>

Dispatching ==
  \/ \E e \in Endpoints : RegisterEndpoint(e)
  \/ \E c \in Callers, e \in Endpoints, k \in Keys \cup {NoKey} : DispatchBegin(c, e, k)
  \/ \E c \in Callers : DispatchInsert(c) \/ DispatchLookup(c) \/ DispatchAbort(c)

DrainStep(d) == SelectDue(d) \/ Send(d) \/ LogAttempt(d) \/ MarkRow(d)

Next ==
  \/ Dispatching
  \/ \E d \in Drains : DrainStep(d) \/ DrainCrash(d)
  \/ Tick

Spec == Init /\ [][Next]_vars

\* A cron keeps calling deliverDue, and a started pass keeps running.
FairSpec == Spec /\ WF_vars(Tick) /\ \A d \in Drains : WF_vars(DrainStep(d))

-----------------------------------------------------------------------------
(* What must hold                                                          *)

TablesType ==
  /\ endpoints \subseteq Endpoints
  /\ outbox \in [Messages -> Row \cup {NoRow}]
  /\ log \in [Messages -> SUBSET [no : Nat, outcome : Outcomes]]

Call == [at : {"insert", "lookup"}, ep : Endpoints, key : Keys \cup {NoKey}]

CallsType ==
  /\ caller \in [Callers -> {NotCalling} \cup Call]
  /\ answers \subseteq Endpoints \X (Keys \cup {NoKey}) \X Messages

DueRow == [msg : Messages, count : Nat]

DrainsType ==
  /\ pc \in [Drains -> {"idle", "send", "log", "mark"}]
  /\ started \in [Drains -> 0..Horizon]
  /\ page \in [Drains -> Seq(DueRow)]
  /\ attempt \in [Drains -> Attempt]

WireType ==
  /\ sends \in [Messages -> Nat]
  /\ taken \subseteq Messages
  /\ refused \subseteq Messages

TypeOK ==
  /\ TablesType /\ CallsType /\ DrainsType /\ WireType
  /\ clock \in 0..Horizon
  /\ crashes \in 0..MaxCrashes

-----------------------------------------------------------------------------
(* The inductive invariant: what a drain knows of the rows on its page.    *)

DrainInv(d) ==
  /\ pc[d] # "idle" => page[d] # <<>>
  /\ \A i \in DOMAIN page[d] :
       Stored(page[d][i].msg) /\ page[d][i].count <= sends[page[d][i].msg]
  /\ pc[d] \in {"log", "mark"} =>
       LET m == Head(page[d]).msg
           a == attempt[d]
       IN  /\ a.no \in 1..sends[m]
           /\ a.outcome = "delivered" => m \in taken
           /\ a.outcome = "dead" => m \in refused \/ a.no >= MaxAttempts
           /\ pc[d] = "mark" => [no |-> a.no, outcome |-> a.outcome] \in log[m]

RowInv(m) == Stored(m) => outbox[m].count <= sends[m]

\* The deployment seams.md:103 asks for.
OneDrain == \A d, e \in Drains : d = e

\* What a drain that runs alone knows besides: its rows are still as it selected them, and
\* every request is counted in its row, is the one in hand or was cut short by a crash.
InHand(m) == \E d \in Drains : pc[d] \in {"log", "mark"} /\ Head(page[d]).msg = m

LonePage(d) ==
  /\ \A i, j \in DOMAIN page[d] : page[d][i].msg = page[d][j].msg => i = j
  /\ \A i \in DOMAIN page[d] :
       LET row == outbox[page[d][i].msg]
       IN  row.status = "pending" /\ row.count = page[d][i].count
  /\ pc[d] \in {"log", "mark"} =>
       /\ attempt[d].no = Head(page[d]).count + 1
       /\ attempt[d].outcome = "retrying" => attempt[d].no < MaxAttempts

BudgetRow(m) ==
  IF Stored(m)
    THEN /\ outbox[m].count <= MaxAttempts
         /\ outbox[m].status = "pending" => outbox[m].count < MaxAttempts
         /\ sends[m] <= outbox[m].count + crashes + (IF InHand(m) THEN 1 ELSE 0)
    ELSE sends[m] = 0

BudgetInv == (\A d \in Drains : LonePage(d)) /\ (\A m \in Messages : BudgetRow(m))

KeysUnique == \A m, n \in Messages :
  Stored(m) /\ Conflicts(n, outbox[m].ep, outbox[m].key) => m = n

-----------------------------------------------------------------------------

\* An idempotency key names one event for good: whatever calls race, are cut
\* short or repeated, every messageId returned for (endpoint, key) is the same
\* and its row is stored with that endpoint and key (store.ts dispatch).
OneEventPerKey ==
  /\ \A a, b \in answers : a[1] = b[1] /\ a[2] = b[2] /\ a[2] # NoKey => a[3] = b[3]
  /\ \A a \in answers : Stored(a[3]) /\ outbox[a[3]].ep = a[1] /\ outbox[a[3]].key = a[2]

\* No attempt is lost from sight: a row that was settled or rescheduled has in
\* its delivery log the attempt that did it, with its number and its outcome
\* (attemptDelivery inserts the attempt before it marks the row).
SettlementIsLogged ==
  \A m \in Messages : Stored(m) /\ outbox[m].count > 0 =>
    [no |-> outbox[m].count,
     outcome |-> IF Terminal(m) THEN outbox[m].status ELSE "retrying"] \in log[m]

\* The dead-letter rule is exact with any number of overlapping drains: a row is
\* dead only if the endpoint refused it for good or MaxAttempts requests were
\* really made, and delivered only if the endpoint took it.
NoFalseSettlement ==
  \A m \in Messages :
    /\ outbox[m].status = "dead" => m \in refused \/ sends[m] >= MaxAttempts
    /\ outbox[m].status = "delivered" => m \in taken

\* With one drain at a time the attempt budget is exact but for crashes: each
\* interrupted attempt costs at most one request more than MAX_ATTEMPTS.
BudgetUpToCrashes == \A m \in Messages : sends[m] <= MaxAttempts + crashes

\* A settled row is never touched again (the comment at sql.ts:40-43): no drain,
\* however late, flips it back to pending or settles it a second time.
SettledForGood ==
  [][\A m \in Messages : Terminal(m) => outbox'[m] = outbox[m]]_vars

\* Every message accepted by dispatch is delivered or dead-lettered in the end.
NothingDropped == \A m \in Messages : Stored(m) ~> Terminal(m)

\* The strengthening of the three invariants above that every step keeps.
DispatchInv ==
  /\ TypeOK
  /\ \A d \in Drains : DrainInv(d)
  /\ \A m \in Messages : RowInv(m)
  /\ KeysUnique
  /\ OneEventPerKey
  /\ SettlementIsLogged
  /\ NoFalseSettlement

\* The promise to the application, and the refinement mapping to it.
Promise == INSTANCE OutboxPromise WITH
             state <- [m \in Messages |-> outbox[m].status], tries <- sends
PromiseSpec == Promise!Spec
=============================================================================
