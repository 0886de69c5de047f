---------------------------- MODULE BillingProofs ----------------------------
(***************************************************************************)
(* Theorems about the two billing parts: about BillingMirror, for any      *)
(* number of subscriptions, users, events, deliveries and requests served  *)
(* at once, and about UsageMeter, for any number of events, keys, calls    *)
(* and reporting passes, any page size and any faults.  The two share no   *)
(* state.                                                                  *)
(***************************************************************************)
EXTENDS BillingMirror, UsageMeter, SequenceTheorems, TLAPS

\* A request under way serves an event that was sent.
LEMMA RequestFacts ==
  ASSUME BillingInv, NEW r \in Routes, route[r].pc # "idle"
  PROVE  /\ route[r] \in RequestType /\ route[r].ev \in 1..Len(sent) /\ route[r].ev \in Ids
         /\ Event(r) \in EventType
BY BillingAssumption DEF BillingInv, TypeOK, Ids, Event

LEMMA TimeFacts ==
  ASSUME BillingInv, NEW s \in Subs
  PROVE  mirror[s] \in RowType /\ mirror[s].at \in Nat /\ mirror[s].at >= mirror[s].at
<1>1. mirror[s] \in RowType
  BY DEF BillingInv, TypeOK
<1> QED
  BY <1>1 DEF RowType

\* A recorded change stays reflected as long as rows only move on.
LEMMA ReflectedKept ==
  ASSUME BillingInv, UNCHANGED sent,
         \A s \in Subs : mirror[s] # NoRow => mirror'[s] # NoRow /\ mirror'[s].at >= mirror[s].at,
         mirror' \in [Subs -> RowType],
         NEW e \in 1..Len(sent), Reflected(e)
  PROVE  Reflected(e)'
<1>1. CASE sent[e].kind = "changed" /\ sent[e].user # None
  <2>1. sent[e].sub \in Subs /\ sent[e].at \in Nat
    <3>1. sent[e] \in EventType
      BY DEF BillingInv, TypeOK
    <3> QED
      BY <1>1, <3>1 DEF BillingInv, SentInv, EventType
  <2>2. mirror[sent[e].sub].at \in Nat /\ mirror'[sent[e].sub].at \in Nat
    BY <2>1 DEF BillingInv, TypeOK, RowType
  <2> QED
    BY <1>1, <2>1, <2>2 DEF Reflected
<1> QED
  BY <1>1 DEF Reflected

\* What a request does takes nothing from the others.
LEMMA OthersKept ==
  ASSUME BillingInv, NEW q \in Routes, UNCHANGED sent,
         \A s \in Subs : mirror[s] # NoRow => mirror'[s] # NoRow /\ mirror'[s].at >= mirror[s].at,
         mirror' \in [Subs -> RowType],
         ledger \subseteq ledger', route'[q] = route[q],
         route[q].pc = "fire" => fired'[route[q].ev] = fired[route[q].ev]
  PROVE  RouteInv(q)'
<1>1. RouteInv(q)
  BY DEF BillingInv
<1>2. route[q].pc \in {"record", "fire", "answer"} => Reflected(route[q].ev)'
  BY <1>1, ReflectedKept, RequestFacts DEF RouteInv
<1> QED
  BY <1>1, <1>2 DEF RouteInv, Event

\* A step of a request that changes no table and runs no handler.
LEMMA QuietStep ==
  ASSUME BillingInv, NEW r \in Routes, NEW new, TypeOK',
         UNCHANGED <<sent, tables, fired>>, route' = [route EXCEPT ![r] = new],
         RouteInv(r)', new.pc # "fire"
  PROVE  BillingInv'
<1>1. \A q \in Routes \ {r} : route'[q] = route[q]
  BY DEF BillingInv, TypeOK
<1>2. route'[r] = new
  BY DEF BillingInv, TypeOK
<1>3. \A s \in Subs : mirror[s].at >= mirror[s].at
  BY TimeFacts
<1>4. \A q \in Routes : RouteInv(q)'
  BY <1>1, <1>3, OthersKept DEF tables, TypeOK
<1>5. SentInv' /\ (\A s \in Subs : RowInv(s)')
  BY DEF BillingInv, SentInv, RowInv, Acceptable, tables
<1>6. OneRunsHandlers'
  BY <1>1, <1>2 DEF BillingInv, OneRunsHandlers, tables
<1>7. RecordedIsReflected' /\ HandlersOnce'
  BY DEF BillingInv, RecordedIsReflected, Reflected, HandlersOnce, tables
<1> QED
  BY <1>4, <1>5, <1>6, <1>7 DEF BillingInv

-----------------------------------------------------------------------------
(* The vendor                                                              *)

LEMMA InitInv == Init => BillingInv
BY BillingAssumption
   DEF Init, BillingInv, TypeOK, SentInv, RowInv, RouteInv, OneRunsHandlers,
       RecordedIsReflected, HandlersOnce, Ids, NoRow, RowType, Owners, Carried, Idle, RequestType

LEMMA EmitStep ==
  ASSUME BillingInv, NEW kind \in Kinds, NEW s \in Subs \cup {None}, NEW user \in Carried,
         kind # "ignored" => s \in Subs, kind = "failed" => user = None, Emit(kind, s, user)
  PROVE  BillingInv'
<1>1. PICK t \in Now :
        sent' = Append(sent, [kind |-> kind, sub |-> s, at |-> t, user |-> user])
  BY DEF Emit
<1>2. sent \in Seq(EventType) /\ Len(sent) \in Nat /\ t \in Nat
  <2>1. sent \in Seq(EventType) /\ Len(sent) \in Nat
    BY DEF BillingInv, TypeOK
  <2>2. CASE sent = <<>>
    BY <2>1, <2>2 DEF Now
  <2>3. CASE sent # <<>>
    <3>1. sent[Len(sent)] \in EventType
      BY <2>1, <2>3
    <3> QED
      BY <2>1, <2>3, <3>1 DEF Now, EventType
  <2> QED
    BY <2>1, <2>2, <2>3
<1> DEFINE e0 == [kind |-> kind, sub |-> s, at |-> t, user |-> user]
<1>3. e0 \in EventType
  BY <1>2 DEF EventType
<1>4. /\ sent' \in Seq(EventType) /\ Len(sent') = Len(sent) + 1
      /\ \A e \in 1..Len(sent) : e \in 1..Len(sent') /\ sent'[e] = sent[e]
      /\ sent'[Len(sent) + 1] = e0
  BY <1>1, <1>2, <1>3
<1>5. UNCHANGED <<mirror, ledger, acked, route, fired, faults, repeats>>
  BY DEF Emit, tables
<1>6. TypeOK'
  BY <1>2, <1>4, <1>5, BillingAssumption DEF BillingInv, TypeOK, Emit
<1>7. SentInv'
  <2> SUFFICES ASSUME NEW e \in 1..Len(sent')
               PROVE  /\ sent'[e].kind # "ignored" => sent'[e].sub \in Subs
                      /\ sent'[e].kind = "failed" => sent'[e].user = None
    BY DEF SentInv
  <2>1. CASE e = Len(sent) + 1
    BY <2>1, <1>4
  <2>2. CASE e # Len(sent) + 1
    BY <2>2, <1>2, <1>4 DEF BillingInv, SentInv
  <2> QED
    BY <2>1, <2>2
<1>8. \A x \in Subs : RowInv(x)'
  BY <1>4, <1>5 DEF BillingInv, RowInv, Acceptable
<1>9. \A r \in Routes : RouteInv(r)'
  <2> SUFFICES ASSUME NEW r \in Routes PROVE RouteInv(r)'
    OBVIOUS
  <2>1. CASE route[r].pc = "idle"
    BY <2>1, <1>5 DEF RouteInv
  <2>2. CASE route[r].pc # "idle"
    <3>1. sent'[route[r].ev] = sent[route[r].ev]
      BY <2>2, <1>4, RequestFacts
    <3> QED
      BY <3>1, <1>5 DEF BillingInv, RouteInv, Event, Reflected
  <2> QED
    BY <2>1, <2>2
<1>10. RecordedIsReflected'
  BY <1>4, <1>5 DEF BillingInv, RecordedIsReflected, Reflected, TypeOK
<1>11. OneRunsHandlers' /\ HandlersOnce'
  BY <1>5 DEF BillingInv, OneRunsHandlers, HandlersOnce
<1> QED
  BY <1>6, <1>7, <1>8, <1>9, <1>10, <1>11 DEF BillingInv

-----------------------------------------------------------------------------
(* The request                                                             *)

LEMMA DeliverStep ==
  ASSUME BillingInv, NEW r \in Routes, NEW e \in Ids, Deliver(r, e)
  PROVE  BillingInv'
<1> DEFINE new == [Idle EXCEPT !.ev = e, !.user = sent[e].user,
                     !.pc = IF sent[e].kind = "ignored" THEN "record"
                            ELSE IF sent[e].user = None THEN "lookup" ELSE "upsert"]
<1>1. /\ e \in 1..Len(sent) /\ e \in 0..MaxEvents
      /\ sent[e] \in EventType
  BY BillingAssumption DEF Deliver, BillingInv, TypeOK, Ids
<1>2. /\ new \in RequestType /\ new.ev = e /\ new.pc \in {"record", "lookup", "upsert"}
      /\ new.pc = "record" => sent[e].kind = "ignored"
      /\ new.pc = "lookup" => sent[e].kind # "ignored" /\ sent[e].user = None
      /\ new.pc = "upsert" => sent[e].kind # "ignored" /\ sent[e].user # None
  BY <1>1 DEF Idle, RequestType, EventType
<1>3. /\ route' = [route EXCEPT ![r] = new]
      /\ UNCHANGED <<sent, tables, fired, acked, faults>>
  BY DEF Deliver, vendor
<1>4. route'[r] = new
  BY <1>3 DEF BillingInv, TypeOK
<1>5. TypeOK'
  BY <1>1, <1>2, <1>3 DEF Deliver, BillingInv, TypeOK, tables
<1>6. RouteInv(r)'
  <2>1. new.user = sent[e].user
    BY DEF Idle
  <2> QED
    BY <1>1, <1>2, <1>3, <1>4, <2>1 DEF RouteInv, Event, Reflected, tables, BillingInv,
                                        SentInv, EventType, Kinds
<1> QED
  BY <1>2, <1>3, <1>5, <1>6, QuietStep

LEMMA LookUpStep ==
  ASSUME BillingInv, NEW r \in Routes, LookUp(r)
  PROVE  BillingInv'
<1> DEFINE next == IF Event(r).kind = "failed" \/ Row(r) = NoRow THEN "record" ELSE "upsert"
           new == [route[r] EXCEPT !.user = Row(r).user, !.notice = Event(r).kind = "failed",
                                   !.pc = next]
<1>1. /\ route[r] \in RequestType /\ route[r].ev \in 1..Len(sent) /\ Event(r) \in EventType
      /\ Event(r).kind # "ignored" /\ Event(r).user = None /\ Event(r).sub \in Subs
  BY RequestFacts DEF LookUp, BillingInv, RouteInv, SentInv, Event
<1>2. Row(r).user \in Carried
  BY <1>1 DEF Row, BillingInv, TypeOK, RowType, Owners, Carried
<1>3. route' = [route EXCEPT ![r] = new]
  BY <1>1 DEF LookUp, BillingInv, TypeOK, RequestType
<1>4. new \in RequestType /\ new.ev = route[r].ev /\ new.pc = next
  BY <1>1, <1>2 DEF RequestType
<1>5. route'[r] = new
  BY <1>3 DEF BillingInv, TypeOK
<1>6. UNCHANGED <<sent, acked, tables, fired, faults, repeats>>
  BY DEF LookUp, vendor
<1>7. TypeOK'
  BY <1>1, <1>3, <1>4, <1>6 DEF BillingInv, TypeOK, tables
<1>8. RouteInv(r)'
  BY <1>1, <1>4, <1>5, <1>6, BillingAssumption
     DEF RouteInv, Event, Reflected, tables, EventType, Kinds
<1>9. new.pc # "fire"
  BY <1>4
<1> HIDE DEF new
<1> QED
  BY <1>3, <1>6, <1>7, <1>8, <1>9, QuietStep

LEMMA BeginUpsertStep ==
  ASSUME BillingInv, NEW r \in Routes, BeginUpsert(r)
  PROVE  BillingInv'
<1> DEFINE new == [route[r] EXCEPT !.pc = "write", !.seen = Row(r) # NoRow]
<1>1. /\ route[r] \in RequestType /\ route[r].ev \in 1..Len(sent)
      /\ Event(r).kind = "changed" /\ Event(r).user # Blank /\ route[r].user # Blank
  BY RequestFacts DEF BeginUpsert, BillingInv, RouteInv
<1>2. route' = [route EXCEPT ![r] = new]
  BY <1>1 DEF BeginUpsert, BillingInv, TypeOK, RequestType
<1>3. new \in RequestType /\ new.ev = route[r].ev /\ new.user = route[r].user /\ new.pc = "write"
  BY <1>1 DEF RequestType
<1>4. route'[r] = new
  BY <1>2 DEF BillingInv, TypeOK
<1>5. UNCHANGED <<sent, acked, tables, fired, faults, repeats>>
  BY DEF BeginUpsert, vendor
<1>6. TypeOK'
  BY <1>1, <1>2, <1>3, <1>5 DEF BillingInv, TypeOK, tables
<1>7. RouteInv(r)'
  BY <1>1, <1>3, <1>4, <1>5 DEF RouteInv, Event
<1> QED
  BY <1>2, <1>3, <1>5, <1>6, <1>7, QuietStep

LEMMA AnswerStep ==
  ASSUME BillingInv, NEW r \in Routes, Answer(r)
  PROVE  BillingInv'
<1>1. route[r].ev \in ledger
  BY DEF Answer, BillingInv, RouteInv
<1>2. Idle \in RequestType /\ Idle.pc = "idle" /\ route'[r] = Idle
  BY BillingAssumption DEF Answer, BillingInv, TypeOK, Idle, RequestType, Carried
<1>3. TypeOK'
  BY <1>1, <1>2 DEF Answer, BillingInv, TypeOK, tables
<1>4. RouteInv(r)'
  BY <1>2 DEF RouteInv
<1> QED
  BY <1>2, <1>3, <1>4, QuietStep DEF Answer, tables

\* A request that ends without having written.
LEMMA FailStep ==
  ASSUME BillingInv, NEW r \in Routes, Fail(r) \/ RefuseBlank(r)
  PROVE  BillingInv'
<1>0. /\ route' = [route EXCEPT ![r] = Idle] /\ UNCHANGED <<vendor, tables, fired, repeats>>
      /\ faults' \in Nat
  BY DEF Fail, RefuseBlank, BillingInv, TypeOK
<1>1. Idle \in RequestType /\ Idle.pc = "idle" /\ route'[r] = Idle
  BY <1>0, BillingAssumption DEF BillingInv, TypeOK, Idle, RequestType, Carried
<1>2. TypeOK'
  BY <1>0, <1>1 DEF BillingInv, TypeOK, tables, vendor
<1>3. RouteInv(r)'
  BY <1>1 DEF RouteInv
<1> QED
  BY <1>0, <1>1, <1>2, <1>3, QuietStep DEF tables, vendor

-----------------------------------------------------------------------------
(* The steps that write                                                    *)

\* What the upsert leaves of the mirror: the row is the event's or as it was.
LEMMA UpsertFacts ==
  ASSUME BillingInv, NEW r \in Routes, EndUpsert(r), NEW e \in Ids, e = route[r].ev
  PROVE  /\ Event(r).kind = "changed" /\ Event(r).sub \in Subs
         /\ mirror' \in [Subs -> RowType]
         /\ \A s \in Subs : mirror[s] # NoRow =>
              /\ mirror'[s] # NoRow /\ mirror'[s].at >= mirror[s].at
              /\ mirror'[s].user = mirror[s].user
              /\ mirror[s].planned => mirror'[s].planned
         /\ \A s \in Subs : RowInv(s)'
         /\ Reflected(e)'
<1>1. /\ route[r] \in RequestType /\ route[r].ev \in 1..Len(sent) /\ route[r].ev \in Ids
      /\ Event(r) \in EventType /\ Event(r).kind = "changed" /\ Event(r).sub \in Subs
      /\ route[r].user \in Owners /\ Event(r).user # Blank
      /\ sent' = sent /\ Event(r) = sent[e]
  BY RequestFacts DEF EndUpsert, BillingInv, RouteInv, SentInv, Event, vendor, RequestType,
                      Owners, Carried
<1>2. Row(r) \in RowType /\ Row(r) = mirror[Event(r).sub]
  BY <1>1 DEF Row, BillingInv, TypeOK
<1>3. Event(r).at \in Nat /\ \A s \in Subs : mirror[s].at \in Nat
  BY <1>1, TimeFacts DEF EventType
<1>4. CASE Supersedes(Row(r), Event(r).at)
  <2> DEFINE new == Upserted(r)
  <2>1. /\ new \in RowType /\ new # NoRow /\ new.ev = route[r].ev /\ new.at = Event(r).at
        /\ Row(r) # NoRow => new.user = Row(r).user /\ (Row(r).planned => new.planned)
    BY <1>1, <1>2, <1>3 DEF Upserted, RowType, NoRow, Ids, RequestType
  <2>2. /\ mirror'[Event(r).sub] = new
        /\ \A s \in Subs \ {Event(r).sub} : mirror'[s] = mirror[s]
        /\ mirror' \in [Subs -> RowType]
    BY <1>1, <1>4, <2>1 DEF EndUpsert, BillingInv, TypeOK
  <2> HIDE DEF new
  <2>3. Row(r) # NoRow => new.at >= Row(r).at
    BY <1>4, <2>1 DEF Supersedes
  <2>4. \A s \in Subs : mirror[s] # NoRow =>
          /\ mirror'[s] # NoRow /\ mirror'[s].at >= mirror[s].at
          /\ mirror'[s].user = mirror[s].user
          /\ mirror[s].planned => mirror'[s].planned
    BY <1>2, <1>3, <2>1, <2>2, <2>3
  <2>5. \A s \in Subs : RowInv(s)'
    BY <1>1, <2>1, <2>2 DEF BillingInv, RowInv, Acceptable
  <2>6. Reflected(e)'
    BY <1>1, <1>3, <2>1, <2>2 DEF Reflected
  <2> QED
    BY <1>1, <2>2, <2>4, <2>5, <2>6
<1>5. CASE ~Supersedes(Row(r), Event(r).at)
  <2>1. mirror' = mirror
    BY <1>5 DEF EndUpsert
  <2>2. Row(r) # NoRow /\ Row(r).at >= Event(r).at
    BY <1>2, <1>3, <1>5, <1>1 DEF Supersedes
  <2>3. \A s \in Subs : mirror[s].at >= mirror[s].at
    BY TimeFacts
  <2>4. mirror' \in [Subs -> RowType] /\ \A s \in Subs : RowInv(s)'
    BY <1>1, <2>1 DEF BillingInv, TypeOK, RowInv, Acceptable
  <2>5. Reflected(e)'
    BY <1>1, <1>2, <2>1, <2>2 DEF Reflected
  <2> QED
    BY <1>1, <2>1, <2>3, <2>4, <2>5
<1> QED
  BY <1>4, <1>5

LEMMA EndUpsertStep ==
  ASSUME BillingInv, NEW r \in Routes, EndUpsert(r)
  PROVE  BillingInv'
<1>0. PICK e \in Ids : e = route[r].ev
  BY RequestFacts DEF EndUpsert
<1>1. route[r] \in RequestType /\ e \in 1..Len(sent)
  BY <1>0, RequestFacts DEF EndUpsert
<1>2. UNCHANGED <<sent, acked, ledger, fired, faults, repeats>>
  BY DEF EndUpsert, vendor
<1>3. /\ route'[r].pc \in {"record", "idle"} /\ route'[r] \in RequestType
      /\ route'[r].pc = "record" => route'[r].ev = e
      /\ \A q \in Routes \ {r} : route'[q] = route[q]
      /\ route' \in [Routes -> RequestType]
  <2> DEFINE new == IF Supersedes(Row(r), Event(r).at) \/ route[r].seen
                      THEN [route[r] EXCEPT !.pc = "record", !.notice = TRUE] ELSE Idle
  <2>1. route' = [route EXCEPT ![r] = new]
    BY <1>1 DEF EndUpsert, BillingInv, TypeOK, RequestType
  <2>2. /\ new.pc \in {"record", "idle"} /\ new \in RequestType
        /\ new.pc = "record" => new.ev = e
    <3>1. Idle \in RequestType /\ Idle.pc = "idle"
      BY BillingAssumption DEF RequestType, Idle, Carried
    <3>2. LET on == [route[r] EXCEPT !.pc = "record", !.notice = TRUE]
          IN  on \in RequestType /\ on.pc = "record" /\ on.ev = route[r].ev
      BY <1>1 DEF RequestType
    <3> QED
      BY <1>0, <3>1, <3>2
  <2> HIDE DEF new
  <2> QED
    BY <2>1, <2>2 DEF BillingInv, TypeOK
<1>5. TypeOK'
  <2>1. \A q \in Routes : route'[q].pc # "idle" => route'[q].ev \in 1..Len(sent)
    BY <1>1, <1>3 DEF BillingInv, TypeOK
  <2> QED
    BY <1>2, <1>3, <2>1, <1>0, UpsertFacts DEF BillingInv, TypeOK
<1>6. \A q \in Routes : RouteInv(q)'
  <2>1. RouteInv(r)'
    BY <1>3, <1>0, UpsertFacts DEF RouteInv
  <2>2. ASSUME NEW q \in Routes \ {r} PROVE RouteInv(q)'
    BY <1>2, <1>3, <1>0, UpsertFacts, OthersKept
  <2> QED
    BY <2>1, <2>2
<1>7. RecordedIsReflected'
  BY <1>2, <1>0, UpsertFacts, ReflectedKept DEF BillingInv, RecordedIsReflected, TypeOK
<1>8. OneRunsHandlers' /\ HandlersOnce'
  BY <1>2, <1>3 DEF BillingInv, OneRunsHandlers, HandlersOnce
<1> QED
  BY <1>2, <1>5, <1>6, <1>7, <1>8, <1>0, UpsertFacts DEF BillingInv, SentInv

LEMMA RecordStep ==
  ASSUME BillingInv, NEW r \in Routes, Record(r)
  PROVE  BillingInv'
<1>0. PICK e \in Ids : e = route[r].ev
  BY RequestFacts DEF Record
<1> DEFINE next == IF Fresh(r) /\ route[r].notice THEN "fire" ELSE "answer"
<1>1. /\ route[r] \in RequestType /\ e \in 1..Len(sent) /\ e \in Ids
      /\ Reflected(e)
  BY <1>0, RequestFacts DEF Record, BillingInv, RouteInv
<1>2. UNCHANGED <<sent, acked, mirror, fired, faults, repeats>> /\ ledger' = ledger \cup {e}
  BY <1>0 DEF Record, vendor
<1>3. /\ route'[r] = [route[r] EXCEPT !.pc = next]
      /\ \A q \in Routes \ {r} : route'[q] = route[q]
  BY DEF Record, Goto, BillingInv, TypeOK
<1>4. route'[r] \in RequestType /\ route'[r].ev = e /\ route'[r].pc = next
  BY <1>0, <1>1, <1>3 DEF RequestType
<1>5. TypeOK'
  <2>1. route' \in [Routes -> RequestType]
    BY <1>3, <1>4 DEF Record, Goto, BillingInv, TypeOK
  <2> QED
    BY <1>1, <1>2, <1>3, <1>4, <2>1 DEF BillingInv, TypeOK
<1>6. next = "fire" => e \notin ledger
  BY <1>0 DEF Fresh
<1>7. e \notin ledger => fired[e] = 0
  BY <1>1 DEF BillingInv, TypeOK, OneRunsHandlers
<1>8. Reflected(e)'
  BY <1>1, <1>2 DEF Reflected
<1>9. \A q \in Routes : RouteInv(q)'
  <2>1. RouteInv(r)'
    BY <1>2, <1>4, <1>6, <1>7, <1>8 DEF RouteInv
  <2>2. ASSUME NEW q \in Routes \ {r} PROVE RouteInv(q)'
    <3>1. \A s \in Subs : mirror[s].at >= mirror[s].at
      BY TimeFacts
    <3> QED
      BY <1>2, <1>3, <3>1, OthersKept DEF BillingInv, TypeOK
  <2> QED
    BY <2>1, <2>2
<1>10. RecordedIsReflected'
  BY <1>2, <1>8 DEF BillingInv, RecordedIsReflected, Reflected
<1>11. OneRunsHandlers' /\ HandlersOnce'
  <2>1. \A q \in Routes : route[q].pc = "fire" => route[q].ev \in ledger
    BY DEF BillingInv, RouteInv
  <2> QED
    <3>1. \A q \in Routes \ {r} : route'[q].pc = "fire" => route'[q].ev \in ledger
      BY <1>3, <2>1
    <3>2. route'[r].pc = "fire" => route'[r].ev \notin ledger
      BY <1>4, <1>6
    <3>3. OneRunsHandlers'
      BY <1>2, <1>3, <3>1, <3>2 DEF BillingInv, OneRunsHandlers
    <3> QED
      BY <1>2, <3>3 DEF BillingInv, HandlersOnce
<1>12. SentInv' /\ \A s \in Subs : RowInv(s)'
  BY <1>2 DEF BillingInv, SentInv, RowInv, Acceptable
<1> QED
  BY <1>5, <1>9, <1>10, <1>11, <1>12 DEF BillingInv

LEMMA FireStep ==
  ASSUME BillingInv, NEW r \in Routes, Fire(r)
  PROVE  BillingInv'
<1>0. PICK e \in Ids : e = route[r].ev
  BY RequestFacts DEF Fire
<1>1. /\ route[r] \in RequestType /\ e \in 1..Len(sent) /\ e \in Ids
      /\ Reflected(e) /\ e \in ledger /\ fired[e] = 0
  BY <1>0, RequestFacts DEF Fire, BillingInv, RouteInv
<1>2. UNCHANGED <<sent, acked, tables, mirror, ledger, faults, repeats>>
  BY DEF Fire, vendor, tables
<1>3. /\ route'[r] = [route[r] EXCEPT !.pc = "answer"]
      /\ \A q \in Routes \ {r} : route'[q] = route[q]
  BY DEF Fire, Goto, BillingInv, TypeOK
<1>4. route'[r] \in RequestType /\ route'[r].ev = e /\ route'[r].pc = "answer"
  BY <1>0, <1>1, <1>3 DEF RequestType
<1>5. /\ fired'[e] = 1 /\ \A i \in Ids \ {e} : fired'[i] = fired[i]
      /\ fired' \in [Ids -> Nat]
  BY <1>0, <1>1 DEF Fire, BillingInv, TypeOK
<1>6. TypeOK'
  <2>1. route' \in [Routes -> RequestType]
    BY <1>3, <1>4 DEF Fire, Goto, BillingInv, TypeOK
  <2> QED
    BY <1>1, <1>2, <1>3, <1>4, <1>5, <2>1 DEF BillingInv, TypeOK
<1>7. \A q \in Routes \ {r} : route[q].pc = "fire" => route[q].ev # e /\ route[q].ev \in Ids
  BY <1>0, RequestFacts DEF Fire, BillingInv, OneRunsHandlers
<1>8. \A q \in Routes : RouteInv(q)'
  <2>1. RouteInv(r)'
    BY <1>1, <1>2, <1>4 DEF RouteInv, Reflected
  <2>2. ASSUME NEW q \in Routes \ {r} PROVE RouteInv(q)'
    <3>1. \A s \in Subs : mirror[s].at >= mirror[s].at
      BY TimeFacts
    <3> QED
      BY <1>2, <1>3, <1>5, <1>7, <3>1, OthersKept DEF BillingInv, TypeOK
  <2> QED
    BY <2>1, <2>2
<1>9. OneRunsHandlers' /\ HandlersOnce'
  <2>1. \A i \in Ids : fired'[i] <= 1
    BY <1>5 DEF BillingInv, HandlersOnce
  <2>2. \A i \in Ids : fired'[i] > 0 => i \in ledger
    BY <1>1, <1>5 DEF BillingInv, OneRunsHandlers
  <2>3. route'[r].pc # "fire"
    BY <1>4
  <2> QED
    BY <1>2, <1>3, <2>1, <2>2, <2>3 DEF BillingInv, OneRunsHandlers, HandlersOnce
<1>10. SentInv' /\ RecordedIsReflected' /\ \A s \in Subs : RowInv(s)'
  BY <1>2 DEF BillingInv, SentInv, RowInv, Acceptable, RecordedIsReflected, Reflected
<1> QED
  BY <1>6, <1>8, <1>9, <1>10 DEF BillingInv

-----------------------------------------------------------------------------
(* The theorems                                                            *)

\* The inductive invariant of the mirror, the ledger and the requests under way.
THEOREM BillingInvariant == Spec => []BillingInv
<1>1. BillingInv /\ [Next]_vars => BillingInv'
  <2> SUFFICES ASSUME BillingInv, [Next]_vars PROVE BillingInv'
    OBVIOUS
  <2>1. CASE Change
    <3>1. CASE Unrelated
      BY <3>1, EmitStep DEF Unrelated, Kinds, Carried
    <3>2. ASSUME NEW s \in Subs, CreateCheckout(s) \/ ChangeSubscription(s) PROVE BillingInv'
      BY <3>2, EmitStep DEF CreateCheckout, ChangeSubscription, Kinds, Carried
    <3>3. ASSUME NEW s \in Subs, FailPayment(s) PROVE BillingInv'
      BY <3>3, EmitStep DEF FailPayment, Kinds, Carried
    <3> QED
      BY <2>1, <3>1, <3>2, <3>3 DEF Change
  <2>2. ASSUME NEW r \in Routes, Serve(r) PROVE BillingInv'
    BY <2>2, LookUpStep, FailStep, BeginUpsertStep, EndUpsertStep, RecordStep, FireStep,
       AnswerStep DEF Serve
  <2>3. ASSUME NEW r \in Routes, Fail(r) \/ RefuseBlank(r) PROVE BillingInv'
    BY <2>3, FailStep
  <2>4. ASSUME NEW r \in Routes, NEW e \in Ids, Deliver(r, e) PROVE BillingInv'
    BY <2>4, DeliverStep
  <2>5. CASE UNCHANGED vars
    BY <2>5 DEF vars, vendor, tables, BillingInv, TypeOK, SentInv, RowInv, RouteInv, Event,
                OneRunsHandlers, RecordedIsReflected, Reflected, HandlersOnce, Acceptable
  <2> QED
    BY <2>1, <2>2, <2>3, <2>4, <2>5 DEF Next
<1> QED
  BY InitInv, <1>1, PTL DEF Spec

\* Type correctness of the tables and of the requests under way.
THEOREM TypeCorrect == Spec => []TypeOK
<1>1. BillingInv => TypeOK
  BY DEF BillingInv
<1> QED
  BY BillingInvariant, <1>1, PTL

\* ingestWebhook records an event only once the mirror has it or something later.
THEOREM NoLostUpdate == Spec => []RecordedIsReflected
<1>1. BillingInv => RecordedIsReflected
  BY DEF BillingInv
<1> QED
  BY BillingInvariant, <1>1, PTL

\* Once the last change of a subscription is recorded the mirror shows it, whatever the
\* order, the number and the overlap of the deliveries of all events.
THEOREM LastChangeWins == Spec => []NewestWins
<1>1. BillingInv => NewestWins
  <2> SUFFICES ASSUME BillingInv, NEW e \in ledger, Newest(e) PROVE mirror[sent[e].sub].ev = e
    BY DEF NewestWins
  <2>1. e \in 1..Len(sent) /\ sent[e] \in EventType /\ sent[e].sub \in Subs
    BY DEF BillingInv, TypeOK, SentInv, Newest, Acceptable
  <2>2. mirror[sent[e].sub] # NoRow /\ mirror[sent[e].sub].at >= sent[e].at
    BY DEF BillingInv, RecordedIsReflected, Reflected, Newest, Acceptable
  <2> DEFINE i == mirror[sent[e].sub].ev
  <2>3. /\ i \in 1..Len(sent) /\ Acceptable(i) /\ sent[i].sub = sent[e].sub
        /\ sent[i].at >= sent[e].at
    BY <2>1, <2>2 DEF BillingInv, RowInv
  <2>4. sent[i].at \in Nat /\ sent[e].at \in Nat
    <3>1. sent[i] \in EventType
      BY <2>3 DEF BillingInv, TypeOK
    <3> QED
      BY <2>1, <3>1 DEF EventType
  <2>5. i # e => sent[i].at < sent[e].at
    BY <2>3 DEF Newest
  <2> QED
    BY <2>3, <2>4, <2>5
<1> QED
  BY BillingInvariant, <1>1, PTL

\* The handlers run at most once for an event, whatever deliveries of it overlap.
THEOREM HandlersAtMostOnce == Spec => []HandlersOnce
<1>1. BillingInv => HandlersOnce
  BY DEF BillingInv
<1> QED
  BY BillingInvariant, <1>1, PTL

\* No delivery takes a row back in time, to another owner or to no plan.
THEOREM MirrorMovesOn == Spec => MirrorNeverRewinds
<1> DEFINE Step == \A s \in Subs : mirror[s] # NoRow =>
                     /\ mirror'[s].at >= mirror[s].at
                     /\ mirror'[s].user = mirror[s].user
                     /\ mirror[s].planned => mirror'[s].planned
<1>1. BillingInv /\ [Next]_vars => Step
  <2> SUFFICES ASSUME BillingInv, [Next]_vars PROVE Step
    OBVIOUS
  <2>1. ASSUME NEW r \in Routes, EndUpsert(r) PROVE Step
    <3>1. PICK e \in Ids : e = route[r].ev
      BY <2>1, RequestFacts DEF EndUpsert
    <3> QED
      BY <2>1, <3>1, UpsertFacts
  <2>2. CASE UNCHANGED mirror
    <3>1. \A s \in Subs : mirror[s].at >= mirror[s].at
      BY TimeFacts
    <3> QED
      BY <2>2, <3>1
  <2>3. UNCHANGED mirror \/ \E r \in Routes : EndUpsert(r)
    BY DEF Next, Change, Unrelated, CreateCheckout, ChangeSubscription, FailPayment, Emit, Serve,
           LookUp, RefuseBlank, BeginUpsert, Record, Fire, Answer, Fail, Deliver, vars, tables
  <2> QED
    BY <2>1, <2>2, <2>3
<1>2. BillingInv /\ [Next]_vars => [Step]_vars
  BY <1>1
<1> QED
  BY BillingInvariant, <1>2, PTL DEF Spec, MirrorNeverRewinds

-----------------------------------------------------------------------------
(* UsageMeter                                                              *)

\* A pass that is under way in good order.
Sound(pass) ==
  /\ pass \in DrainType
  /\ pass.pc # "idle" => pass.page # <<>>
  /\ \A i \in 1..Len(pass.page) : pass.page[i] \in Stored

LEMMA LedgerFacts ==
  ASSUME UsageInv
  PROVE  /\ events \in Seq(UsageRow) /\ Len(events) \in Nat /\ Stored \subseteq EventIds
         /\ \A e \in Stored : events[e] \in UsageRow /\ billed[e] \in Nat
BY UsageAssumption DEF UsageInv, MeterTypeOK, Stored, EventIds

LEMMA DrainFacts ==
  ASSUME UsageInv, NEW d \in Drains
  PROVE  /\ Sound(drain[d])
         /\ drain[d].pc # "idle" =>
              Current(d) \in Stored /\ Holds(d, Current(d)) /\ drain[d].page \in Seq(EventIds)
<1>1. Sound(drain[d])
  BY DEF UsageInv, MeterTypeOK, Sound
<1>2. ASSUME drain[d].pc # "idle"
      PROVE  Current(d) \in Stored /\ Holds(d, Current(d)) /\ drain[d].page \in Seq(EventIds)
  <2>1. drain[d].page \in Seq(EventIds) /\ drain[d].page # <<>>
    BY <1>1, <1>2 DEF Sound, DrainType
  <2>2. 1 \in 1..Len(drain[d].page) /\ Head(drain[d].page) = drain[d].page[1]
    BY <2>1
  <2> QED
    BY <1>1, <2>1, <2>2 DEF Sound, Current, Holds
<1> QED
  BY <1>1, <1>2

\* A pass at another statement of the same row.
LEMMA StepToFacts ==
  ASSUME UsageInv, NEW d \in Drains, drain[d].pc # "idle",
         NEW pc \in {"report", "mark", "bump"}, StepTo(d, pc)
  PROVE  LET new == [drain[d] EXCEPT !.pc = pc]
         IN  /\ drain' = [drain EXCEPT ![d] = new] /\ Sound(new) /\ new.pc = pc
             /\ new.page = drain[d].page
             /\ \A i \in 1..Len(new.page) : Holds(d, new.page[i])
<1> DEFINE new == [drain[d] EXCEPT !.pc = pc]
<1>1. Sound(drain[d])
  BY DrainFacts
<1>2. new \in DrainType /\ new.pc = pc /\ new.page = drain[d].page
  BY <1>1 DEF Sound, DrainType
<1>3. drain' = [drain EXCEPT ![d] = new]
  BY DEF StepTo, UsageInv, MeterTypeOK
<1> QED
  BY <1>1, <1>2, <1>3 DEF Sound, Holds

LEMMA RestingFacts ==
  Sound(Resting) /\ Resting.pc = "idle" /\ 1..Len(Resting.page) = {}
<1>1. Resting.page = <<>> /\ Resting.pc = "idle" /\ 1..Len(Resting.page) = {}
  BY DEF Resting
<1>2. Resting \in DrainType
  BY DEF Resting, DrainType
<1> QED
  BY <1>1, <1>2 DEF Sound

\* A pass that goes on with the rest of its page, or ends.
LEMMA AdvanceFacts ==
  ASSUME UsageInv, NEW d \in Drains, drain[d].pc # "idle", Advance(d)
  PROVE  \E new : /\ drain' = [drain EXCEPT ![d] = new] /\ Sound(new) /\ new.pc # "mark"
                  /\ \A i \in 1..Len(new.page) : Holds(d, new.page[i])
<1>1. PICK next \in {Tail(drain[d].page), <<>>} :
        drain' = [drain EXCEPT ![d] =
                    IF next = <<>> THEN Resting ELSE [pc |-> "report", page |-> next]]
  BY DEF Advance
<1>3. CASE next = <<>>
  BY <1>1, <1>3, RestingFacts
<1>4. CASE next # <<>>
  <2> DEFINE new == [pc |-> "report", page |-> next]
  <2>1. /\ drain[d].page \in Seq(EventIds) /\ drain[d].page # <<>>
        /\ \A i \in 1..Len(drain[d].page) : drain[d].page[i] \in Stored
    BY DrainFacts DEF Sound
  <2>0. next = Tail(drain[d].page)
    BY <1>1, <1>4
  <2>2. /\ next \in Seq(EventIds) /\ Len(next) = Len(drain[d].page) - 1
        /\ \A i \in 1..Len(next) : next[i] = drain[d].page[i + 1]
    BY <2>0, <2>1
  <2>3. \A i \in 1..Len(next) : i + 1 \in 1..Len(drain[d].page)
    BY <2>1, <2>2
  <2>4. \A i \in 1..Len(next) : next[i] \in Stored /\ Holds(d, next[i])
    BY <2>1, <2>2, <2>3 DEF Holds
  <2>5. new \in DrainType /\ new.pc = "report" /\ new.page = next
    BY <2>2 DEF DrainType
  <2>6. Sound(new)
    BY <1>4, <2>4, <2>5 DEF Sound
  <2>7. drain' = [drain EXCEPT ![d] = new]
    BY <1>1, <1>4
  <2> HIDE DEF new
  <2> QED
    BY <2>4, <2>5, <2>6, <2>7
<1> QED
  BY <1>3, <1>4

-----------------------------------------------------------------------------
(* The steps of a pass                                                     *)

\* A step that leaves the biller alone and marks only what was billed.
LEMMA TableStep ==
  ASSUME UsageInv, NEW d \in Drains, NEW new, drain' = [drain EXCEPT ![d] = new], Sound(new),
         new.pc # "mark",
         \A i \in 1..Len(new.page) : Holds(d, new.page[i]) \/ ~events[new.page[i]].reported,
         UNCHANGED <<calls, biller>>, cuts' \in Nat,
         events' \in Seq(UsageRow), Len(events') = Len(events),
         \A e \in Stored : /\ events'[e].key = events[e].key
                           /\ events[e].reported => events'[e].reported
                           /\ events'[e].reported => events[e].reported \/ billed[e] > 0
  PROVE  UsageInv'
<1>1. Stored' = Stored /\ UNCHANGED <<caller, answers, known, billed, lapsed, lapses>>
  BY DEF Stored, calls, biller
<1>2. drain'[d] = new /\ \A c \in Drains \ {d} : drain'[c] = drain[c]
  BY DEF UsageInv, MeterTypeOK
<1>3. \A c \in Drains : Sound(drain'[c])
  BY <1>2, DrainFacts
<1>4. MeterTypeOK'
  <2>1. drain' \in [Drains -> DrainType]
    BY <1>3 DEF UsageInv, MeterTypeOK, Sound
  <2> QED
    BY <1>1, <1>3, <2>1 DEF UsageInv, MeterTypeOK, Sound
<1>5. KeysUnique' /\ AnswersTrue'
  <2>1. \A a \in answers : a[2] \in Stored
    BY DEF UsageInv, MeterTypeOK
  <2> QED
    BY <1>1, <2>1 DEF UsageInv, KeysUnique, AnswersTrue
<1>6. \A c \in Drains : DrainInv(c)'
  BY <1>1, <1>2 DEF UsageInv, DrainInv, Current
<1>7. \A e \in Stored : UsageRowInv(e)'
  <2> SUFFICES ASSUME NEW e \in Stored PROVE UsageRowInv(e)'
    OBVIOUS
  <2>1. UsageRowInv(e)
    BY DEF UsageInv
  <2>2. ASSUME NEW c \in Drains, Holds(c, e)'
        PROVE  ~events[e].reported \/ \E b \in Drains : Holds(b, e)
    BY <1>2, <2>2 DEF Holds
  <2> QED
    BY <1>1, <2>1, <2>2 DEF UsageRowInv
<1>8. BilledOnce' /\ \A e \in EventIds \ Stored' : billed'[e] = 0
  BY <1>1 DEF UsageInv, BilledOnce
<1> QED
  BY <1>1, <1>4, <1>5, <1>6, <1>7, <1>8 DEF UsageInv

\* The biller takes the row at hand.
LEMMA TakeStep ==
  ASSUME UsageInv, NEW d \in Drains, drain[d].pc # "idle", Take(Current(d)),
         NEW pc \in {"mark", "bump"}, StepTo(d, pc),
         UNCHANGED <<events, calls, lapsed, lapses>>, cuts' \in Nat
  PROVE  UsageInv'
<1>0. PICK e \in Stored : e = Current(d) /\ Holds(d, e)
  BY DrainFacts
<1> DEFINE new == [drain[d] EXCEPT !.pc = pc]
<1>1. /\ drain' = [drain EXCEPT ![d] = new] /\ Sound(new) /\ new.pc = pc
      /\ new.page = drain[d].page
  BY StepToFacts
<1> HIDE DEF new
<1>2. drain'[d] = new /\ \A c \in Drains \ {d} : drain'[c] = drain[c]
  BY <1>1 DEF UsageInv, MeterTypeOK
<1>3. /\ known' = known \cup {e} /\ e \in EventIds /\ billed[e] \in Nat
      /\ \A f \in EventIds \ {e} : billed'[f] = billed[f]
      /\ billed' \in [EventIds -> Nat]
      /\ IF e \in known THEN billed'[e] = billed[e] ELSE billed'[e] = billed[e] + 1
  BY <1>0, LedgerFacts DEF Take, UsageInv, MeterTypeOK
<1>4. Stored' = Stored /\ UNCHANGED <<caller, answers>>
  BY DEF Stored, calls
<1>5. \A c \in Drains : \A f : Holds(c, f)' => Holds(c, f)
  BY <1>1, <1>2 DEF Holds
<1>6. \A c \in Drains : Sound(drain'[c])
  BY <1>1, <1>2, DrainFacts
<1>7. MeterTypeOK'
  <2>1. drain' \in [Drains -> DrainType]
    BY <1>1, <1>6 DEF UsageInv, MeterTypeOK, Sound
  <2> QED
    BY <1>0, <1>3, <1>4, <1>6, <2>1 DEF UsageInv, MeterTypeOK, Sound
<1>8. KeysUnique' /\ AnswersTrue'
  BY <1>4 DEF UsageInv, KeysUnique, AnswersTrue
<1>9. \A c \in Drains : DrainInv(c)'
  BY <1>0, <1>1, <1>2, <1>3 DEF UsageInv, DrainInv, Current
<1>10. UsageRowInv(e)'
  BY <1>0, <1>3 DEF UsageInv, UsageRowInv
<1>11. \A f \in Stored \ {e} : UsageRowInv(f)'
  BY <1>3, <1>5, LedgerFacts DEF UsageInv, UsageRowInv
<1>12. BilledOnce'
  <2>1. billed[e] > 0 => e \in known \cup lapsed
    BY <1>0 DEF UsageInv, UsageRowInv
  <2>2. billed'[e] > 1 => e \in lapsed
    BY <1>3, <2>1 DEF UsageInv, BilledOnce
  <2> QED
    BY <1>3, <2>2 DEF UsageInv, BilledOnce
<1>13. \A f \in EventIds \ Stored' : billed'[f] = 0
  BY <1>0, <1>3, <1>4 DEF UsageInv
<1> QED
  BY <1>4, <1>7, <1>8, <1>9, <1>10, <1>11, <1>12, <1>13 DEF UsageInv

\* A pass that goes elsewhere in its row without a trace.
LEMMA IdleStep ==
  ASSUME UsageInv, NEW d \in Drains, drain[d].pc # "idle", StepTo(d, "bump"),
         UNCHANGED <<events, calls, biller>>, cuts' \in Nat
  PROVE  UsageInv'
<1> DEFINE new == [drain[d] EXCEPT !.pc = "bump"]
<1>1. /\ drain' = [drain EXCEPT ![d] = new] /\ Sound(new) /\ new.pc = "bump"
      /\ \A i \in 1..Len(new.page) : Holds(d, new.page[i])
  BY StepToFacts
<1> HIDE DEF new
<1> QED
  BY <1>1, TableStep, LedgerFacts

LEMMA BreakFacts ==
  ASSUME UsageInv, Break
  PROVE  cuts' \in Nat
BY DEF UsageInv, MeterTypeOK, Break

LEMMA SelectStep ==
  ASSUME UsageInv, NEW d \in Drains, SelectUnreported(d)
  PROVE  UsageInv'
<1>1. PICK n \in 1..Batch : \E page \in [1..n -> Unreported] :
        drain' = [drain EXCEPT ![d] = [pc |-> "report", page |-> page]]
  BY DEF SelectUnreported
<1>2. PICK page \in [1..n -> Unreported] :
        drain' = [drain EXCEPT ![d] = [pc |-> "report", page |-> page]]
  BY <1>1
<1> DEFINE new == [pc |-> "report", page |-> page]
<1>3. n \in Nat \ {0} /\ Unreported \subseteq Stored /\ Stored \subseteq EventIds
  BY UsageAssumption, LedgerFacts DEF Unreported
<1>4. page \in Seq(EventIds) /\ Len(page) = n /\ page # <<>>
  <2>1. page \in [1..n -> EventIds]
    BY <1>3
  <2>2. page \in Seq(EventIds)
    BY <1>3, <2>1, SeqDef
  <2>3. Len(page) = n
    BY <1>3, <2>1, <2>2
  <2> QED
    BY <1>3, <2>2, <2>3
<1>5. \A i \in 1..Len(page) : page[i] \in Stored /\ ~events[page[i]].reported
  BY <1>3, <1>4 DEF Unreported
<1>6. new \in DrainType /\ new.pc = "report" /\ new.page = page
  BY <1>4 DEF DrainType
<1>7. Sound(new)
  BY <1>4, <1>5, <1>6 DEF Sound
<1> HIDE DEF new
<1>8. UNCHANGED <<events, calls, biller, cuts>>
  BY DEF SelectUnreported
<1>9. cuts' \in Nat
  BY <1>8 DEF UsageInv, MeterTypeOK
<1> QED
  BY <1>2, <1>5, <1>6, <1>7, <1>8, <1>9, TableStep, LedgerFacts DEF new

LEMMA MarkStep ==
  ASSUME UsageInv, NEW d \in Drains, Mark(d)
  PROVE  UsageInv'
<1>1. PICK e \in Stored : e = Current(d)
  BY DrainFacts DEF Mark
<1>2. billed[e] > 0
  BY <1>1 DEF Mark, UsageInv, DrainInv, UsageRowInv
<1>3. /\ events' = [events EXCEPT ![e].reported = TRUE]
      /\ UNCHANGED <<calls, biller, cuts>>
  BY <1>1 DEF Mark
<1>4. events \in Seq(UsageRow) /\ events[e] \in UsageRow /\ e \in 1..Len(events)
  BY LedgerFacts DEF Stored
<1>5. /\ events' \in Seq(UsageRow) /\ Len(events') = Len(events)
      /\ \A f \in Stored : events'[f] = IF f = e THEN [events[e] EXCEPT !.reported = TRUE]
                                                 ELSE events[f]
  <2>1. [events[e] EXCEPT !.reported = TRUE] \in UsageRow
    BY <1>4 DEF UsageRow
  <2> QED
    BY <1>3, <1>4, <2>1 DEF Stored
<1>6. \A f \in Stored : /\ events'[f].key = events[f].key
                        /\ events[f].reported => events'[f].reported
                        /\ events'[f].reported => events[f].reported \/ billed[f] > 0
  BY <1>2, <1>4, <1>5 DEF UsageRow
<1>7. cuts' \in Nat
  BY <1>3 DEF UsageInv, MeterTypeOK
<1> QED
  BY <1>3, <1>5, <1>6, <1>7, AdvanceFacts, TableStep DEF Mark

LEMMA BumpStep ==
  ASSUME UsageInv, NEW d \in Drains, Bump(d)
  PROVE  UsageInv'
<1>1. PICK e \in Stored : e = Current(d)
  BY DrainFacts DEF Bump
<1>2. events \in Seq(UsageRow) /\ events[e] \in UsageRow /\ e \in 1..Len(events)
  BY LedgerFacts DEF Stored
<1>3. /\ events' = events \/ events' = [events EXCEPT ![e].attempts = @ + 1]
      /\ UNCHANGED <<calls, biller>>
  BY <1>1 DEF Bump, Bumped
<1>4. /\ events' \in Seq(UsageRow) /\ Len(events') = Len(events)
      /\ \A f \in Stored : /\ events'[f].key = events[f].key
                           /\ events'[f].reported = events[f].reported
  <2>1. CASE events' = events
    BY <1>2, <2>1
  <2>2. CASE events' = [events EXCEPT ![e].attempts = @ + 1]
    <3>1. [events[e] EXCEPT !.attempts = @ + 1] \in UsageRow
      BY <1>2 DEF UsageRow
    <3>2. /\ events' \in Seq(UsageRow) /\ Len(events') = Len(events)
          /\ \A f \in Stored : events'[f] =
               IF f = e THEN [events[e] EXCEPT !.attempts = @ + 1] ELSE events[f]
      BY <1>2, <2>2, <3>1 DEF Stored
    <3> QED
      BY <1>2, <3>2 DEF UsageRow
  <2> QED
    BY <1>3, <2>1, <2>2
<1>5. cuts' \in Nat
  BY BreakFacts DEF Bump, UsageInv, MeterTypeOK
<1> QED
  BY <1>3, <1>4, <1>5, AdvanceFacts, TableStep DEF Bump

LEMMA CrashStep ==
  ASSUME UsageInv, NEW d \in Drains, Crash(d)
  PROVE  UsageInv'
<1>1. drain' = [drain EXCEPT ![d] = Resting] /\ cuts' \in Nat
  BY BreakFacts DEF Crash
<1> QED
  BY <1>1, RestingFacts, TableStep, LedgerFacts DEF Crash

LEMMA PassSteps ==
  ASSUME UsageInv, NEW d \in Drains,
         Report(d) \/ Reject(d) \/ ReportFails(d) \/ MarkFails(d)
  PROVE  UsageInv'
<1>1. CASE Report(d)
  <2>1. cuts' \in Nat
    BY <1>1 DEF Report, UsageInv, MeterTypeOK
  <2> QED
    BY <1>1, <2>1, TakeStep DEF Report
<1>2. CASE Reject(d)
  <2>1. cuts' \in Nat
    BY <1>2 DEF Reject, UsageInv, MeterTypeOK
  <2> QED
    BY <1>2, <2>1, IdleStep DEF Reject
<1>3. CASE ReportFails(d)
  <2>1. cuts' \in Nat
    BY <1>3, BreakFacts DEF ReportFails
  <2>2. CASE Take(Current(d))
    BY <1>3, <2>1, <2>2, TakeStep DEF ReportFails
  <2>3. CASE UNCHANGED <<known, billed>>
    BY <1>3, <2>1, <2>3, IdleStep DEF ReportFails, biller
  <2> QED
    BY <1>3, <2>2, <2>3 DEF ReportFails
<1>4. CASE MarkFails(d)
  <2>1. cuts' \in Nat
    BY <1>4, BreakFacts DEF MarkFails
  <2> QED
    BY <1>4, <2>1, IdleStep DEF MarkFails
<1> QED
  BY <1>1, <1>2, <1>3, <1>4

-----------------------------------------------------------------------------
(* The biller's window and the calls of record                             *)

LEMMA ForgetStep ==
  ASSUME UsageInv, NEW e \in EventIds, Forget(e)
  PROVE  UsageInv'
<1>1. e \in Stored /\ e \in known
  BY DEF Forget, UsageInv, MeterTypeOK
<1>2. /\ Stored' = Stored /\ known' = known \ {e} /\ lapsed \subseteq lapsed'
      /\ ~events[e].reported => e \in lapsed'
      /\ lapsed' \subseteq lapsed \cup {e}
      /\ UNCHANGED <<events, caller, answers, drain, billed, cuts>>
  BY DEF Forget, Stored, calls
<1>3. \A d \in Drains : ~Holds(d, e)
  BY DEF Forget
<1>4. MeterTypeOK'
  BY <1>1, <1>2 DEF UsageInv, MeterTypeOK, Forget
<1>5. KeysUnique' /\ AnswersTrue'
  BY <1>2 DEF UsageInv, KeysUnique, AnswersTrue
<1>6. ASSUME NEW d \in Drains PROVE DrainInv(d)'
  <2>1. drain[d].pc = "mark" => Current(d) # e
    BY <1>3, DrainFacts
  <2> QED
    BY <1>2, <2>1 DEF UsageInv, DrainInv, Current
<1>7. ASSUME NEW f \in Stored PROVE UsageRowInv(f)'
  <2>1. UsageRowInv(f)
    BY DEF UsageInv
  <2>2. \A d \in Drains : Holds(d, f)' <=> Holds(d, f)
    BY <1>2 DEF Holds
  <2> QED
    BY <1>2, <1>3, <2>1, <2>2 DEF UsageRowInv
<1>8. BilledOnce' /\ \A f \in EventIds \ Stored' : billed'[f] = 0
  BY <1>2 DEF UsageInv, BilledOnce
<1> QED
  BY <1>2, <1>4, <1>5, <1>6, <1>7, <1>8 DEF UsageInv

\* A call that leaves the ledger alone.
LEMMA CallStep ==
  ASSUME UsageInv, UNCHANGED <<events, drain, biller, cuts>>,
         caller' \in [Callers -> [key : Keys \cup {NoKey}]],
         \A a \in answers' : \/ a \in answers
                             \/ /\ a \in (Keys \cup {NoKey}) \X Stored
                                /\ events[a[2]].key = a[1]
  PROVE  UsageInv'
<1>1. Stored' = Stored /\ UNCHANGED <<known, billed, lapsed, lapses>>
  BY DEF Stored, biller
<1>2. MeterTypeOK'
  BY <1>1 DEF UsageInv, MeterTypeOK
<1>3. KeysUnique' /\ AnswersTrue' /\ BilledOnce'
  BY <1>1 DEF UsageInv, KeysUnique, AnswersTrue, BilledOnce
<1>4. \A d \in Drains : DrainInv(d)'
  BY <1>1 DEF UsageInv, DrainInv, Current
<1>5. \A e \in Stored : UsageRowInv(e)'
  BY <1>1 DEF UsageInv, UsageRowInv, Holds
<1> QED
  BY <1>1, <1>2, <1>3, <1>4, <1>5 DEF UsageInv

LEMMA ResolveStep ==
  ASSUME UsageInv, NEW c \in Callers, Resolve(c) \/ Abort(c)
  PROVE  UsageInv'
<1>1. caller[c] \in [key : Keys \cup {NoKey}] /\ NotCalling \in [key : Keys \cup {NoKey}]
  BY DEF UsageInv, MeterTypeOK, NotCalling
<1>2. /\ caller' = [caller EXCEPT ![c] = NotCalling]
      /\ UNCHANGED <<events, drain, biller, cuts>>
  BY DEF Resolve, Abort
<1>3. caller' \in [Callers -> [key : Keys \cup {NoKey}]]
  BY <1>1, <1>2 DEF UsageInv, MeterTypeOK
<1>4. \A a \in answers' : \/ a \in answers
                          \/ /\ a \in (Keys \cup {NoKey}) \X Stored
                             /\ events[a[2]].key = a[1]
  BY <1>1 DEF Resolve, Abort, Conflicts
<1> QED
  BY <1>2, <1>3, <1>4, CallStep

LEMMA RecordUsageStep ==
  ASSUME UsageInv, NEW c \in Callers, NEW k \in Keys \cup {NoKey}, RecordUsage(c, k)
  PROVE  UsageInv'
<1>1. CASE \E e \in Stored : Conflicts(k, e)
  <2>1. caller' \in [Callers -> [key : Keys \cup {NoKey}]]
    BY <1>1 DEF RecordUsage, UsageInv, MeterTypeOK
  <2> QED
    BY <1>1, <2>1, CallStep DEF RecordUsage
<1>2. CASE ~ \E e \in Stored : Conflicts(k, e)
  <2> DEFINE row == [key |-> k, attempts |-> 0, reported |-> FALSE]
  <2>0. PICK e : e = Len(events) + 1
    OBVIOUS
  <2>1. /\ Len(events) < MaxRows /\ events' = Append(events, row)
        /\ answers' = answers \cup {<<k, e>>}
        /\ UNCHANGED <<caller, drain, known, billed, lapsed, lapses, cuts>>
    BY <1>2, <2>0 DEF RecordUsage, biller
  <2>2. row \in UsageRow /\ row.key = k /\ ~row.reported
    BY DEF UsageRow
  <2>3. events \in Seq(UsageRow) /\ Len(events) \in Nat
    BY LedgerFacts
  <2> HIDE DEF row
  <2>4. /\ events' \in Seq(UsageRow) /\ Len(events') = Len(events) + 1
        /\ \A f \in 1..Len(events) : events'[f] = events[f]
        /\ events'[e] = row
    BY <2>1, <2>2, <2>3, <2>0, AppendProperties
  <2>5. /\ Stored' = Stored \cup {e} /\ e \notin Stored /\ e \in EventIds
        /\ Len(events') <= MaxRows /\ \A f \in Stored : events'[f] = events[f]
    BY <2>0, <2>1, <2>3, <2>4, UsageAssumption DEF Stored, EventIds
  <2>6. \A d \in Drains : ~Holds(d, e)
    BY <2>5 DEF UsageInv, MeterTypeOK, Holds
  <2>7. e \notin known /\ billed[e] = 0
    BY <2>5 DEF UsageInv, MeterTypeOK
  <2>8. MeterTypeOK'
    BY <2>1, <2>4, <2>5 DEF UsageInv, MeterTypeOK
  <2>9. KeysUnique'
    <3>1. \A f \in Stored : events[f].key = k => k = NoKey
      BY <1>2 DEF Conflicts
    <3> QED
      BY <2>2, <2>4, <2>5, <3>1 DEF UsageInv, KeysUnique
  <2>10. AnswersTrue'
    <3>1. ASSUME NEW a \in answers PROVE events'[a[2]].key = a[1]
      BY <2>5, <3>1 DEF UsageInv, MeterTypeOK, AnswersTrue
    <3>2. events'[<<k, e>>[2]].key = <<k, e>>[1]
      BY <2>2, <2>4
    <3> QED
      BY <2>1, <3>1, <3>2 DEF AnswersTrue
  <2>11. \A d \in Drains : DrainInv(d)'
    BY <2>1 DEF UsageInv, DrainInv, Current
  <2>12. \A f \in Stored : UsageRowInv(f)'
    BY <2>1, <2>5 DEF UsageInv, UsageRowInv, Holds
  <2>13. UsageRowInv(e)'
    <3>1. events'[e] = row /\ ~row.reported
      BY <2>2, <2>4
    <3> QED
      BY <2>1, <2>7, <3>1 DEF UsageRowInv
  <2>14. BilledOnce' /\ \A f \in EventIds \ Stored' : billed'[f] = 0
    BY <2>1, <2>5 DEF UsageInv, BilledOnce
  <2> QED
    BY <2>5, <2>8, <2>9, <2>10, <2>11, <2>12, <2>13, <2>14 DEF UsageInv
<1> QED
  BY <1>1, <1>2

-----------------------------------------------------------------------------
LEMMA InitUsage ==
  ASSUME MeterInit
  PROVE  UsageInv
<1>1. Stored = {} /\ events \in Seq(UsageRow) /\ Len(events) = 0
  BY DEF MeterInit, Stored
<1>2. /\ drain \in [Drains -> DrainType]
      /\ \A d \in Drains : drain[d].pc = "idle" /\ 1..Len(drain[d].page) = {}
  BY RestingFacts DEF MeterInit, Sound
<1>3. MeterTypeOK
  BY <1>1, <1>2, UsageAssumption DEF MeterInit, MeterTypeOK, NotCalling
<1> QED
  BY <1>1, <1>2, <1>3
     DEF MeterInit, UsageInv, KeysUnique, AnswersTrue, DrainInv, BilledOnce

LEMMA NextUsage ==
  ASSUME UsageInv, MeterNext
  PROVE  UsageInv'
<1>1. CASE \E c \in Callers : Call(c)
  BY <1>1, ResolveStep, RecordUsageStep DEF Call
<1>2. ASSUME NEW d \in Drains,
             SelectUnreported(d) \/ Run(d) \/ ReportFails(d) \/ MarkFails(d) \/ Crash(d)
      PROVE  UsageInv'
  BY <1>2, SelectStep, PassSteps, MarkStep, BumpStep, CrashStep DEF Run
<1>3. CASE \E e \in EventIds : Forget(e)
  BY <1>3, ForgetStep
<1> QED
  BY <1>1, <1>2, <1>3 DEF MeterNext

LEMMA StutterUsage ==
  ASSUME UsageInv, UNCHANGED meterVars
  PROVE  UsageInv'
<1>1. cuts' \in Nat /\ caller' \in [Callers -> [key : Keys \cup {NoKey}]]
  BY DEF meterVars, calls, UsageInv, MeterTypeOK
<1> QED
  BY <1>1, CallStep DEF meterVars, calls

\* The inductive invariant holds in every reachable state.
THEOREM UsageInvariant == MeterSpec => []UsageInv
<1>1. UsageInv /\ [MeterNext]_meterVars => UsageInv'
  BY NextUsage, StutterUsage
<1> QED
  BY InitUsage, <1>1, PTL DEF MeterSpec

\* Every variable keeps its type.
THEOREM MeterTypeCorrect == MeterSpec => []MeterTypeOK
<1>1. UsageInv => MeterTypeOK
  BY DEF UsageInv
<1> QED
  BY <1>1, UsageInvariant, PTL

\* Whatever calls of record race, fail and are repeated, one key is answered with one
\* event: the unique constraint keeps keys apart and every answer is the row of its key.
THEOREM KeyNamesOneEvent == MeterSpec => []OneEventPerKey
<1>1. ASSUME UsageInv PROVE OneEventPerKey
  <2>1. \A a \in answers : a[2] \in Stored
    BY <1>1 DEF UsageInv, MeterTypeOK
  <2> QED
    BY <1>1, <2>1 DEF UsageInv, AnswersTrue, KeysUnique, OneEventPerKey
<1> QED
  BY <1>1, UsageInvariant, PTL

\* No event is marked reported that the biller has not counted.
THEOREM NothingDropped == MeterSpec => []ReportedIsBilled
<1>1. UsageInv => ReportedIsBilled
  BY DEF UsageInv, UsageRowInv, ReportedIsBilled
<1> QED
  BY <1>1, UsageInvariant, PTL

\* Overlapping passes, lost answers and crashes bill an event once, as long as the biller
\* remembers its id until it is marked.
THEOREM NoDoubleBilling == MeterSpec => []BilledOnce
<1>1. UsageInv => BilledOnce
  BY DEF UsageInv
<1> QED
  BY <1>1, UsageInvariant, PTL
=============================================================================
