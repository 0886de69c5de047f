--------------------------- MODULE BillingMirror ---------------------------
(***************************************************************************)
(* billing.subscription: the mirror of the vendor's subscriptions, derived *)
(* from webhook events (part/src/internal/billing.ts, store.ts, sql.ts and *)
(* the two adapters).                                                      *)
(*                                                                         *)
(* The vendor changes a subscription and emits an event that carries its   *)
(* state; it delivers every event again until it is answered 200, in any   *)
(* order, and now and then once more after that.  A request is served in   *)
(* the statements it issues.  Under READ COMMITTED the upsert decides by   *)
(* the row as it is when it is written, but what its SELECT returns is     *)
(* read from the snapshot taken when the statement began.                  *)
(*                                                                         *)
(* A row's lifecycle columns are abstracted to the event they came from.   *)
(* Events are timed in seconds, so that several may bear the same time.    *)
(***************************************************************************)
EXTENDS Naturals, Sequences

CONSTANTS
  Subs,       \* vendor subscription ids
  Users,      \* app users, as carried in a subscription's metadata
  Routes,     \* webhook requests that may be served at once
  None,       \* null
  Blank,      \* the empty string
  MaxEvents,  \* bound: events emitted
  MaxFaults,  \* bound: requests cut short, by a crash, an error or a lost answer
  MaxRepeats  \* bound: deliveries of events already answered 200

ASSUME BillingAssumption ==
  /\ None \notin Users /\ Blank \notin Users \cup {None}
  /\ MaxEvents \in Nat /\ MaxFaults \in Nat /\ MaxRepeats \in Nat

VARIABLES
  sent,       \* the events emitted, oldest first; an event's id is its place
  acked,      \* events the vendor was answered 200 for
  mirror,     \* billing_subscriptions, by vendor subscription id
  ledger,     \* billing_events: the event ids recorded
  route,      \* the requests under way
  fired,      \* how often the handlers were run for an event
  faults, repeats

vendor == <<sent, acked>>
tables == <<mirror, ledger>>
vars == <<vendor, tables, route, fired, faults, repeats>>

Ids == 1..MaxEvents
NoRow == [ev |-> 0, user |-> None, planned |-> FALSE, at |-> 0]
Idle == [pc |-> "idle", ev |-> 0, user |-> None, seen |-> FALSE, notice |-> FALSE]
Goto(r, pc) == route' = [route EXCEPT ![r].pc = pc]
Event(r) == sent[route[r].ev]
Row(r) == mirror[Event(r).sub]

Init ==
  /\ sent = <<>> /\ acked = {}
  /\ mirror = [s \in Subs |-> NoRow] /\ ledger = {}
  /\ route = [r \in Routes |-> Idle]
  /\ fired = [e \in Ids |-> 0]
  /\ faults = 0 /\ repeats = 0

-----------------------------------------------------------------------------
(* The vendor, and the calls that change a subscription there              *)

\* What the adapters make of a vendor's event: a subscription created, updated or
\* canceled, a failed payment, or nothing (other types, an empty subscription id).
Kinds == {"changed", "failed", "ignored"}
Now == IF sent = <<>> THEN {1} ELSE {sent[Len(sent)].at, sent[Len(sent)].at + 1}

Emit(kind, s, user) ==
  /\ Len(sent) < MaxEvents
  /\ \E t \in Now : sent' = Append(sent, [kind |-> kind, sub |-> s, at |-> t, user |-> user])
  /\ UNCHANGED <<acked, tables, route, fired, faults, repeats>>

\* What a change's metadata may say of the owner.
Carried == Users \cup {None, Blank}

Known(s) == \E i \in 1..Len(sent) : sent[i].sub = s

\* createCheckout hands the user and the plan to the vendor as metadata and writes
\* nothing; the subscription may as well be created at the vendor, without them or with
\* an owner that is the empty string, which the adapters hand on.
CreateCheckout(s) ==
  /\ ~Known(s)
  /\ \E user \in Carried : Emit("changed", s, user)

\* cancelAtPeriodEnd, reactivate and changePlan read the row, call the vendor and
\* answer with what it said; the vendor also changes a subscription by itself, and
\* its metadata may be edited there.
ChangeSubscription(s) == Known(s) /\ \E user \in Carried : Emit("changed", s, user)

\* payment_failed carries the subscription, not the user.
FailPayment(s) == Known(s) /\ Emit("failed", s, None)
Unrelated == Emit("ignored", None, None)

-----------------------------------------------------------------------------
(* POST /api/webhooks/billing                                              *)

\* The signature and its time are good: every delivery is signed anew.
Deliver(r, e) ==
  /\ route[r].pc = "idle" /\ e \in 1..Len(sent)
  /\ e \in acked => repeats < MaxRepeats
  /\ repeats' = IF e \in acked THEN repeats + 1 ELSE repeats
  /\ route' = [route EXCEPT ![r] =
       [Idle EXCEPT !.ev = e, !.user = sent[e].user,
                    !.pc = IF sent[e].kind = "ignored" THEN "record"
                           ELSE IF sent[e].user = None THEN "lookup" ELSE "upsert"]]
  /\ UNCHANGED <<vendor, tables, fired, faults>>

\* Whose subscription it is: for a failed payment to tell the handlers, else for the
\* owner, without whom the event is recorded and nothing more.
LookUp(r) ==
  /\ route[r].pc = "lookup"
  /\ route' = [route EXCEPT
       ![r].user = Row(r).user,
       ![r].notice = Event(r).kind = "failed",
       ![r].pc = IF Event(r).kind = "failed" \/ Row(r) = NoRow THEN "record" ELSE "upsert"]
  /\ UNCHANGED <<vendor, tables, fired, faults, repeats>>

\* The table refuses an empty owner, row or no row: a storage error.
RefuseBlank(r) ==
  /\ route[r].pc = "upsert" /\ route[r].user = Blank
  /\ route' = [route EXCEPT ![r] = Idle]
  /\ UNCHANGED <<vendor, tables, fired, faults, repeats>>

BeginUpsert(r) ==
  /\ route[r].pc = "upsert" /\ route[r].user # Blank
  /\ route' = [route EXCEPT ![r].pc = "write", ![r].seen = Row(r) # NoRow]
  /\ UNCHANGED <<vendor, tables, fired, faults, repeats>>

StaleAnyway(row, at) == TRUE                                         \* mutant
FirstOnly(row, at) == row = NoRow                                    \* mutant
Supersedes(row, at) == row = NoRow \/ at >= row.at

UpsertedWhole(r) ==                                                  \* mutant
  [ev |-> route[r].ev, at |-> Event(r).at, user |-> route[r].user,
   planned |-> Event(r).user # None]
\* On conflict the owner stays, and the plan id unless the event brings one.
Upserted(r) ==
  [ev |-> route[r].ev, at |-> Event(r).at,
   user |-> IF Row(r) = NoRow THEN route[r].user ELSE Row(r).user,
   planned |-> Event(r).user # None \/ Row(r).planned]

\* A stale event writes nothing and returns the row as of the snapshot: if it had none,
\* the upsert returned no row, which is a storage error.
EndUpsert(r) ==
  /\ route[r].pc = "write"
  /\ IF Supersedes(Row(r), Event(r).at)
       THEN /\ mirror' = [mirror EXCEPT ![Event(r).sub] = Upserted(r)]
            /\ route' = [route EXCEPT ![r].pc = "record", ![r].notice = TRUE]
       ELSE /\ UNCHANGED mirror
            /\ route' = [route EXCEPT ![r] =
                 IF @.seen THEN [@ EXCEPT !.pc = "record", !.notice = TRUE] ELSE Idle]
  /\ UNCHANGED <<vendor, ledger, fired, faults, repeats>>

FreshAlways(r) == TRUE                                               \* mutant
Fresh(r) == route[r].ev \notin ledger

\* INSERT ... ON CONFLICT DO NOTHING: only the first delivery recorded runs the handlers.
Record(r) ==
  /\ route[r].pc = "record"
  /\ ledger' = ledger \cup {route[r].ev}
  /\ Goto(r, IF Fresh(r) /\ route[r].notice THEN "fire" ELSE "answer")
  /\ UNCHANGED <<vendor, mirror, fired, faults, repeats>>

Fire(r) ==
  /\ route[r].pc = "fire"
  /\ fired' = [fired EXCEPT ![route[r].ev] = @ + 1]
  /\ Goto(r, "answer")
  /\ UNCHANGED <<vendor, tables, faults, repeats>>

Answer(r) ==
  /\ route[r].pc = "answer"
  /\ acked' = acked \cup {route[r].ev}
  /\ route' = [route EXCEPT ![r] = Idle]
  /\ UNCHANGED <<sent, tables, fired, faults, repeats>>

FailQuietly(r) ==                                                    \* mutant
  /\ route[r].pc # "idle" /\ faults < MaxFaults
  /\ faults' = faults + 1
  /\ acked' = acked \cup {route[r].ev}
  /\ route' = [route EXCEPT ![r] = Idle]
  /\ UNCHANGED <<sent, tables, fired, repeats>>

\* The process dies, a statement or the configuration fails (500), or the answer is
\* lost: the vendor is not answered 200 and delivers again.  A 400 asks it not to; it
\* takes a signature or a time that Deliver excludes.
Fail(r) ==
  /\ route[r].pc # "idle" /\ faults < MaxFaults
  /\ faults' = faults + 1
  /\ route' = [route EXCEPT ![r] = Idle]
  /\ UNCHANGED <<vendor, tables, fired, repeats>>

-----------------------------------------------------------------------------
Change ==
  \/ Unrelated
  \/ \E s \in Subs : CreateCheckout(s) \/ ChangeSubscription(s) \/ FailPayment(s)
Serve(r) ==
  LookUp(r) \/ RefuseBlank(r) \/ BeginUpsert(r) \/ EndUpsert(r) \/ Record(r) \/ Fire(r) \/ Answer(r)
Next ==
  \/ Change
  \/ \E r \in Routes : Serve(r) \/ Fail(r) \/ \E e \in Ids : Deliver(r, e)

Spec == Init /\ [][Next]_vars

\* A request runs on, and the vendor retries each event that was not answered 200, on a
\* schedule of its own.
FairSpec ==
  /\ Spec
  /\ \A r \in Routes : WF_vars(Serve(r))
  /\ \A e \in Ids : SF_vars(e \notin acked /\ \E r \in Routes : Deliver(r, e))
-----------------------------------------------------------------------------
(* What must hold                                                          *)

Owners == Users \cup {None}
EventType == [kind : Kinds, sub : Subs \cup {None}, at : Nat, user : Carried]
RowType == [ev : 0..MaxEvents, user : Owners, planned : BOOLEAN, at : Nat]
RequestType ==
  [pc : {"idle", "lookup", "upsert", "write", "record", "fire", "answer"},
   ev : 0..MaxEvents, user : Carried, seen : BOOLEAN, notice : BOOLEAN]

TypeOK ==
  /\ sent \in Seq(EventType) /\ Len(sent) <= MaxEvents
  /\ acked \subseteq ledger /\ ledger \subseteq 1..Len(sent)
  /\ mirror \in [Subs -> RowType]
  /\ route \in [Routes -> RequestType]
  /\ \A r \in Routes : route[r].pc # "idle" => route[r].ev \in 1..Len(sent)
  /\ fired \in [Ids -> Nat]
  /\ faults \in Nat /\ repeats \in Nat

\* The row a subscription event that names its owner should leave: its own, or a
\* later one.
Reflected(e) ==
  sent[e].kind = "changed" /\ sent[e].user # None =>
    /\ mirror[sent[e].sub] # NoRow
    /\ mirror[sent[e].sub].at >= sent[e].at

\* An event recorded as processed, after which no redelivery is promised, is in the
\* mirror or superseded there: whatever is cut short between the upsert and the ledger,
\* and whatever overtakes it (the comment at billing.ts:163-168).
RecordedIsReflected == \A e \in ledger : Reflected(e)

\* Once the last change of a subscription is recorded the mirror shows it, in whatever
\* order the events came, how often and how many at once, provided it names its owner
\* and no other change the table takes fell into the same second (sql.ts:8-11).
Acceptable(i) == sent[i].kind = "changed" /\ sent[i].user # Blank
Newest(e) ==
  /\ Acceptable(e) /\ sent[e].user # None
  /\ \A i \in 1..Len(sent) : i # e /\ Acceptable(i) /\ sent[i].sub = sent[e].sub =>
       i < e /\ sent[i].at < sent[e].at
NewestWins == \A e \in ledger : Newest(e) => mirror[sent[e].sub].ev = e

\* The handlers run at most once for an event, however many deliveries of it are served
\* at once ("exactly once, only on the fresh delivery", billing.ts:166).
HandlersOnce == \A e \in Ids : fired[e] <= 1

\* No delivery, however late, takes the mirror back before an event it shows, to
\* another owner, or to no plan (sql.ts:8-11).
MirrorNeverRewinds ==
  [][\A s \in Subs : mirror[s] # NoRow =>
       /\ mirror'[s].at >= mirror[s].at
       /\ mirror'[s].user = mirror[s].user
       /\ mirror[s].planned => mirror'[s].planned]_vars

\* Every event but one the table can never take is recorded in the end, whatever is cut
\* short and however often another is refused (billing.ts:257-276).
EveryEventRecorded ==
  \A e \in Ids : (e <= Len(sent) /\ sent[e].user # Blank) ~> e \in ledger

-----------------------------------------------------------------------------
(* The inductive invariant: what a request under way has done              *)

\* Only a change and a failed payment name a subscription, and a failed payment no user.
SentInv ==
  \A e \in 1..Len(sent) :
    /\ sent[e].kind # "ignored" => sent[e].sub \in Subs
    /\ sent[e].kind = "failed" => sent[e].user = None

\* A row bears the time of the change it came from.
RowInv(s) == mirror[s] # NoRow =>
  /\ mirror[s].ev \in 1..Len(sent)
  /\ Acceptable(mirror[s].ev) /\ sent[mirror[s].ev].sub = s
  /\ sent[mirror[s].ev].at = mirror[s].at

RouteInv(r) ==
  /\ route[r].pc = "lookup" => Event(r).kind # "ignored" /\ Event(r).user = None
  /\ route[r].pc \in {"upsert", "write"} =>
       Event(r).kind = "changed" /\ (Event(r).user = Blank => route[r].user = Blank)
  /\ route[r].pc = "write" => route[r].user # Blank
  /\ route[r].pc \in {"record", "fire", "answer"} => Reflected(route[r].ev)
  /\ route[r].pc \in {"fire", "answer"} => route[r].ev \in ledger
  /\ route[r].pc = "fire" => fired[route[r].ev] = 0

\* The handlers are one request's to run, the one that recorded the event.
OneRunsHandlers ==
  /\ \A r, q \in Routes : r # q /\ route[r].pc = "fire" /\ route[q].pc = "fire" =>
       route[r].ev # route[q].ev
  /\ \A e \in Ids : fired[e] > 0 => e \in ledger

BillingInv ==
  /\ TypeOK
  /\ SentInv
  /\ \A s \in Subs : RowInv(s)
  /\ \A r \in Routes : RouteInv(r)
  /\ OneRunsHandlers
  /\ RecordedIsReflected
  /\ HandlersOnce
=============================================================================
