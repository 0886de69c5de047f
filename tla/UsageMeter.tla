----------------------------- MODULE UsageMeter -----------------------------
(***************************************************************************)
(* billing.usage: the metered-usage ledger and the pass that reports it to *)
(* the biller (part/src/internal/usage.ts and sql.ts, with the table of    *)
(* migrations/001-create-usage-tables.sql and the Stripe adapter).         *)
(*                                                                         *)
(* Each SQL statement is a step and so is the request to the biller.       *)
(* Passes take no lock and may overlap; one that throws or whose process   *)
(* dies forgets its page.  A row is its place in the ledger, which is both *)
(* its id and its seq.  Quantities, times and metadata, and the read-only  *)
(* total and summary, are left out.                                        *)
(***************************************************************************)
EXTENDS Naturals, Sequences

CONSTANTS
  Keys,       \* (subject, meter, idempotency key) of a call that gives a key
  NoKey,      \* no key given: NULL, which never conflicts
  Callers,    \* processes that call record
  Drains,     \* processes that call reportDue
  Batch,      \* its LIMIT
  Rejected,   \* rows the biller refuses for good
  MaxRows,    \* bound: events recorded
  MaxCuts,    \* bound: requests and statements that fail, processes that die
  MaxLapses   \* bound: event ids the biller forgets

ASSUME UsageAssumption ==
  /\ NoKey \notin Keys
  /\ Batch \in Nat \ {0} /\ MaxRows \in Nat /\ MaxCuts \in Nat /\ MaxLapses \in Nat
  /\ Rejected \subseteq 1..MaxRows

VARIABLES
  events,     \* billing_usage_events, in the order of seq
  caller,     \* caller[c]: the key whose row it is about to look up, or Idle
  answers,    \* <<key, row>> of every eventId returned
  drain,      \* the passes under way
  known,      \* rows whose id the biller remembers: its dedupe window
  billed,     \* billed[e]: how often the biller counted e
  lapsed,     \* rows forgotten before they were marked (history)
  cuts, lapses

calls == <<caller, answers>>
biller == <<known, billed, lapsed, lapses>>
meterVars == <<events, calls, drain, biller, cuts>>

EventIds == 1..MaxRows
Stored == 1..Len(events)
NotCalling == [key |-> NoKey]
Resting == [pc |-> "idle", page |-> <<>>]
Current(d) == Head(drain[d].page)
Holds(d, e) == \E i \in 1..Len(drain[d].page) : drain[d].page[i] = e

MeterInit ==
  /\ events = <<>>
  /\ caller = [c \in Callers |-> NotCalling] /\ answers = {}
  /\ drain = [d \in Drains |-> Resting]
  /\ known = {} /\ billed = [e \in EventIds |-> 0] /\ lapsed = {}
  /\ cuts = 0 /\ lapses = 0

-----------------------------------------------------------------------------
(* record                                                                  *)

ConflictsUnreported(k, e) ==        \* mutant: a partial index, on unreported rows
  k # NoKey /\ events[e].key = k /\ ~events[e].reported

\* UNIQUE (subject_id, meter, idempotency_key); NULLs are distinct.
Conflicts(k, e) == k # NoKey /\ events[e].key = k

\* INSERT ... ON CONFLICT DO NOTHING RETURNING id; a conflict is looked up next.
RecordUsage(c, k) ==
  /\ caller[c] = NotCalling
  /\ IF \E e \in Stored : Conflicts(k, e)
       THEN /\ caller' = [caller EXCEPT ![c].key = k]
            /\ UNCHANGED <<events, answers>>
       ELSE /\ Len(events) < MaxRows
            /\ events' = Append(events, [key |-> k, attempts |-> 0, reported |-> FALSE])
            /\ answers' = answers \cup {<<k, Len(events) + 1>>}
            /\ UNCHANGED caller
  /\ UNCHANGED <<drain, biller, cuts>>

Resolve(c) ==
  /\ caller[c] # NotCalling
  /\ \E e \in Stored : /\ Conflicts(caller[c].key, e)
                       /\ answers' = answers \cup {<<caller[c].key, e>>}
  /\ caller' = [caller EXCEPT ![c] = NotCalling]
  /\ UNCHANGED <<events, drain, biller, cuts>>

\* The lookup fails or the process dies; the application may call again.
Abort(c) ==
  /\ caller[c] # NotCalling
  /\ caller' = [caller EXCEPT ![c] = NotCalling]
  /\ UNCHANGED <<events, answers, drain, biller, cuts>>

-----------------------------------------------------------------------------
(* reportDue                                                               *)

Unreported == {e \in Stored : ~events[e].reported}

OldestFirst(e, f) == e < f          \* mutant: ORDER BY seq
Before(e, f) ==
  \/ events[e].attempts < events[f].attempts
  \/ events[e].attempts = events[f].attempts /\ e < f

\* ORDER BY report_attempts, seq LIMIT batch.
IsPage(page) ==
  /\ \A i, j \in 1..Len(page) : i < j => Before(page[i], page[j])
  /\ \A e \in Unreported : \/ \E i \in 1..Len(page) : page[i] = e
                           \/ Len(page) = Batch /\ \A i \in 1..Len(page) : Before(page[i], e)

SelectUnreported(d) ==
  /\ drain[d].pc = "idle"
  /\ \E n \in 1..Batch : \E page \in [1..n -> Unreported] :
       IsPage(page) /\ drain' = [drain EXCEPT ![d] = [pc |-> "report", page |-> page]]
  /\ UNCHANGED <<events, calls, biller, cuts>>

\* The pass goes on with the next row, or ends: with its page or out of MAX_PASS_MS.
Advance(d) ==
  \E next \in {Tail(drain[d].page), <<>>} :
    drain' = [drain EXCEPT ![d] =
                IF next = <<>> THEN Resting ELSE [pc |-> "report", page |-> next]]

StepTo(d, pc) == drain' = [drain EXCEPT ![d].pc = pc]
Break == cuts < MaxCuts /\ cuts' = cuts + 1

\* The biller counts an id it does not remember.
TakeAlways(e) == known' = known \cup {e} /\ billed' = [billed EXCEPT ![e] = @ + 1]  \* mutant
Take(e) ==
  /\ known' = known \cup {e}
  /\ billed' = IF e \in known THEN billed ELSE [billed EXCEPT ![e] = @ + 1]

\* The row is reported before it is marked.
Report(d) ==
  /\ drain[d].pc = "report" /\ Current(d) \notin Rejected
  /\ Take(Current(d)) /\ StepTo(d, "mark")
  /\ UNCHANGED <<events, calls, lapsed, lapses, cuts>>

RejectQuietly(d) ==                 \* mutant: the adapter swallows the vendor's error
  /\ drain[d].pc = "report" /\ Current(d) \in Rejected
  /\ StepTo(d, "mark")
  /\ UNCHANGED <<events, calls, biller, cuts>>

Reject(d) ==
  /\ drain[d].pc = "report" /\ Current(d) \in Rejected
  /\ StepTo(d, "bump")
  /\ UNCHANGED <<events, calls, biller, cuts>>

\* The biller is down, or it took the event and its answer is late or lost.
ReportFails(d) ==
  /\ drain[d].pc = "report" /\ Break
  /\ \/ Current(d) \notin Rejected /\ Take(Current(d))
     \/ UNCHANGED <<known, billed>>
  /\ StepTo(d, "bump")
  /\ UNCHANGED <<events, calls, lapsed, lapses>>

\* UPDATE ... WHERE reported_at IS NULL.
Mark(d) ==
  /\ drain[d].pc = "mark"
  /\ events' = [events EXCEPT ![Current(d)].reported = TRUE]
  /\ Advance(d)
  /\ UNCHANGED <<calls, biller, cuts>>

\* A mark that throws is counted as a failed report.
MarkFails(d) ==
  /\ drain[d].pc = "mark" /\ Break
  /\ StepTo(d, "bump")
  /\ UNCHANGED <<events, calls, biller>>

\* Failures past MaxCuts + 1, which only rejected rows reach, count as one.
Bumped(e) ==
  IF events[e].reported \/ events[e].attempts > MaxCuts THEN events
  ELSE [events EXCEPT ![e].attempts = @ + 1]

\* Best effort: a bump that fails is ignored.
Bump(d) ==
  /\ drain[d].pc = "bump"
  /\ \/ events' = Bumped(Current(d)) /\ UNCHANGED cuts
     \/ Break /\ UNCHANGED events
  /\ Advance(d)
  /\ UNCHANGED <<calls, biller>>

\* The process dies, or the adapter throws a configuration error, which ends the pass.
Crash(d) ==
  /\ drain[d].pc # "idle" /\ Break
  /\ drain' = [drain EXCEPT ![d] = Resting]
  /\ UNCHANGED <<events, calls, biller>>

\* The dedupe window of an id ends.  It is a day or more and a pass is bounded to
\* MAX_PASS_MS and a request, so no pass that selected the row before is still on it.
Forget(e) ==
  /\ e \in known /\ \A d \in Drains : ~Holds(d, e)
  /\ lapses < MaxLapses /\ lapses' = lapses + 1
  /\ known' = known \ {e}
  /\ lapsed' = IF events[e].reported THEN lapsed ELSE lapsed \cup {e}
  /\ UNCHANGED <<events, calls, drain, billed, cuts>>

-----------------------------------------------------------------------------
Call(c) == Resolve(c) \/ Abort(c) \/ \E k \in Keys \cup {NoKey} : RecordUsage(c, k)
Run(d) == Report(d) \/ Reject(d) \/ Mark(d) \/ Bump(d)
MeterNext ==
  \/ \E c \in Callers : Call(c)
  \/ \E d \in Drains :
       SelectUnreported(d) \/ Run(d) \/ ReportFails(d) \/ MarkFails(d) \/ Crash(d)
  \/ \E e \in EventIds : Forget(e)

MeterSpec == MeterInit /\ [][MeterNext]_meterVars

\* A cron calls reportDue again and again, and a pass runs on unless it is cut.
FairMeterSpec ==
  MeterSpec /\ \A d \in Drains : WF_meterVars(SelectUnreported(d)) /\ WF_meterVars(Run(d))
-----------------------------------------------------------------------------
(* What must hold                                                          *)

UsageRow == [key : Keys \cup {NoKey}, attempts : Nat, reported : BOOLEAN]
DrainType == [pc : {"idle", "report", "mark", "bump"}, page : Seq(EventIds)]

MeterTypeOK ==
  /\ events \in Seq(UsageRow) /\ Len(events) <= MaxRows
  /\ caller \in [Callers -> [key : Keys \cup {NoKey}]]
  /\ answers \subseteq (Keys \cup {NoKey}) \X Stored
  /\ drain \in [Drains -> DrainType]
  /\ \A d \in Drains : /\ drain[d].pc # "idle" => drain[d].page # <<>>
                       /\ \A i \in 1..Len(drain[d].page) : drain[d].page[i] \in Stored
  /\ known \subseteq Stored /\ lapsed \subseteq Stored
  /\ billed \in [EventIds -> Nat]
  /\ cuts \in Nat /\ lapses \in Nat

\* A key names one event, whatever calls with it race, fail and are repeated
\* (contract.json:56).
OneEventPerKey ==
  \A a, b \in answers : a[1] = b[1] /\ a[1] # NoKey => a[2] = b[2]

\* An event is marked reported only if the biller counted it, whatever is cut between
\* the report and the mark (contract.json:58, "never drops").
ReportedIsBilled == \A e \in Stored : events[e].reported => billed[e] > 0

\* An event is billed twice only if it stayed unmarked until the biller forgot it:
\* neither overlapping passes nor lost answers do it (SPEC.md:49-51).
BilledOnce == \A e \in EventIds : billed[e] > 1 => e \in lapsed

\* An event the biller does not refuse is reported in the end, whatever rejected events
\* are in front of it and whatever fails (contract.json:58, sql.ts:49-50).
NothingStarves ==
  \A e \in EventIds \ Rejected : e \in Stored ~> e \in Stored /\ events[e].reported
-----------------------------------------------------------------------------
(* The inductive invariant: what a pass and the biller know of a row       *)

KeysUnique ==
  \A e, f \in Stored : e # f /\ events[e].key = events[f].key => events[e].key = NoKey

AnswersTrue == \A a \in answers : events[a[2]].key = a[1]

\* Only acceptable rows are marked, and a row about to be marked is one the biller
\* counted and still remembers.
DrainInv(d) == drain[d].pc = "mark" => Current(d) \in known

\* While a row may still be reported, what was billed for it is remembered.
UsageRowInv(e) ==
  /\ events[e].reported => billed[e] > 0
  /\ billed[e] > 0 /\ (~events[e].reported \/ \E d \in Drains : Holds(d, e)) =>
       e \in known \cup lapsed
  /\ e \in known => billed[e] > 0

UsageInv ==
  /\ MeterTypeOK
  /\ KeysUnique
  /\ AnswersTrue
  /\ \A d \in Drains : DrainInv(d)
  /\ \A e \in Stored : UsageRowInv(e)
  /\ \A e \in EventIds \ Stored : billed[e] = 0
  /\ BilledOnce
=============================================================================
