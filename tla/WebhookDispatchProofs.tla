----------------------- MODULE WebhookDispatchProofs -----------------------
(***************************************************************************)
(* Proofs about WebhookDispatch, for any number of drains and callers, any *)
(* retry policy and any number of crashes.                                 *)
(***************************************************************************)
EXTENDS WebhookDispatch, SequenceTheorems, TLAPS

-----------------------------------------------------------------------------
(* Facts about the retry policy and about a marked row.                    *)

\* The rescheduled time stays within the horizon, whatever the delay.
LEMMA LaterInHorizon ==
  ASSUME NEW t \in 0..Horizon, NEW delay
  PROVE  Later(t, delay) \in 0..Horizon
BY DispatchAssumption DEF Later

\* An attempt ends in one of the three outcomes the log's CHECK admits, and
\* "delivered" and "dead" only for the replies that justify them.
LEMMA OutcomeJustified ==
  ASSUME NEW no \in Nat, NEW reply \in Replies
  PROVE  /\ Outcome(no, reply) \in Outcomes
         /\ Outcome(no, reply) = "delivered" => reply = "ok"
         /\ Outcome(no, reply) = "dead" => reply = "permanent" \/ no >= MaxAttempts
BY DispatchAssumption DEF Outcome, Outcomes, Replies

\* Marking keeps a row's identity; a settled row it does not change at all, and
\* a pending one takes the number and the outcome of the attempt.
LEMMA MarkedRow ==
  ASSUME NEW row \in Row, NEW a \in Attempt
  PROVE  /\ Marked(row, a) \in Row
         /\ Marked(row, a).ep = row.ep /\ Marked(row, a).key = row.key
         /\ row.status # "pending" => Marked(row, a) = row
         /\ row.status = "pending" =>
              /\ Marked(row, a).count = a.no
              /\ Marked(row, a).status = IF a.outcome = "retrying" THEN "pending" ELSE a.outcome
BY DEF Marked, Row, Attempt, Outcomes

LEMMA NoAttemptType == NoAttempt \in Attempt
BY DispatchAssumption DEF NoAttempt, Attempt, Outcomes

LEMMA StoredRow ==
  ASSUME TablesType, NEW m \in Messages
  PROVE  /\ Stored(m) <=> outbox[m] \in Row
         /\ ~Stored(m) <=> outbox[m].status = "none"
BY DEF TablesType, Stored, Row, NoRow

-----------------------------------------------------------------------------
(* Type correctness                                                        *)

LEMMA InitType == Init => TypeOK
<1> SUFFICES ASSUME Init PROVE TypeOK
  OBVIOUS
<1>1. TablesType /\ CallsType /\ WireType
  BY DEF Init, TablesType, CallsType, WireType
<1>2. DrainsType
  BY NoAttemptType, DispatchAssumption DEF Init, DrainsType
<1> QED
  BY <1>1, <1>2, DispatchAssumption DEF Init, TypeOK

\* The arguments of a call that has begun.
LEMMA CallInProgress ==
  ASSUME CallsType, NEW c \in Callers, caller[c] # NotCalling
  PROVE  caller[c] \in Call
BY DEF CallsType

LEMMA AnswerType ==
  ASSUME CallsType, NEW c \in Callers, caller[c] \in Call, NEW m \in Messages, Answer(c, m)
  PROVE  CallsType'
<1>1. <<caller[c].ep, caller[c].key, m>> \in Endpoints \X (Keys \cup {NoKey}) \X Messages
  BY DEF Call
<1> QED
  BY <1>1 DEF Answer, CallsType

LEMMA DispatchingType == TypeOK /\ Dispatching => TypeOK'
<1> SUFFICES ASSUME TypeOK, Dispatching PROVE TypeOK'
  OBVIOUS
<1> USE DEF TypeOK
<1>1. /\ UNCHANGED <<drainVars, wire, clock, crashes>>
      /\ DrainsType' /\ WireType'
  BY DEF Dispatching, RegisterEndpoint, DispatchBegin, DispatchInsert, DispatchLookup,
         DispatchAbort, drainVars, wire, DrainsType, WireType
<1>2. CASE \E e \in Endpoints : RegisterEndpoint(e)
  BY <1>1, <1>2 DEF RegisterEndpoint, callVars, TablesType, CallsType
<1>3. ASSUME NEW c \in Callers, NEW e \in Endpoints, NEW k \in Keys \cup {NoKey},
             DispatchBegin(c, e, k)
      PROVE  TypeOK'
  BY <1>1, <1>3 DEF DispatchBegin, tables, TablesType, CallsType, Call
<1>4. ASSUME NEW c \in Callers, DispatchInsert(c) PROVE TypeOK'
  <2>1. caller[c] \in Call
    BY <1>4, CallInProgress DEF DispatchInsert, NotCalling
  <2>2. CASE \E m \in Messages : Conflicts(m, caller[c].ep, caller[c].key)
    <3>1. [caller[c] EXCEPT !.at = "lookup"] \in Call
      BY <2>1 DEF Call
    <3>2. CallsType'
      BY <1>4, <2>2, <3>1 DEF DispatchInsert, CallsType
    <3> QED
      BY <1>1, <1>4, <2>2, <3>2 DEF DispatchInsert, TablesType
  <2>3. CASE ~ \E m \in Messages : Conflicts(m, caller[c].ep, caller[c].key)
    <3>1. PICK m \in Messages :
            /\ outbox' = [outbox EXCEPT ![m] =
                 [ep |-> caller[c].ep, key |-> caller[c].key, count |-> 0,
                  next |-> clock, status |-> "pending"]]
            /\ Answer(c, m)
      BY <1>4, <2>3 DEF DispatchInsert
    <3>2. [ep |-> caller[c].ep, key |-> caller[c].key, count |-> 0,
           next |-> clock, status |-> "pending"] \in Row
      BY <2>1 DEF Row, Call
    <3>3. TablesType'
      BY <1>4, <3>1, <3>2 DEF DispatchInsert, TablesType
    <3> QED
      BY <1>1, <2>1, <3>1, <3>3, AnswerType
  <2> QED
    BY <2>2, <2>3
<1>5. ASSUME NEW c \in Callers, DispatchLookup(c) PROVE TypeOK'
  <2>1. caller[c] \in Call
    BY <1>5, CallInProgress DEF DispatchLookup, NotCalling
  <2>2. CallsType'
    BY <1>5, <2>1, AnswerType DEF DispatchLookup
  <2> QED
    BY <1>1, <1>5, <2>2 DEF DispatchLookup, tables, TablesType
<1>6. ASSUME NEW c \in Callers, DispatchAbort(c) PROVE TypeOK'
  BY <1>1, <1>6 DEF DispatchAbort, tables, TablesType, CallsType
<1> QED
  BY <1>2, <1>3, <1>4, <1>5, <1>6 DEF Dispatching

\* A drain that is not idle has a row in hand, and keeps its numbers.
LEMMA RowInHand ==
  ASSUME DrainsType, NEW d \in Drains, page[d] # <<>>
  PROVE  /\ Head(page[d]) \in DueRow
         /\ Head(page[d]).msg \in Messages /\ Head(page[d]).count \in Nat
         /\ Head(page[d]) = page[d][1] /\ 1 \in DOMAIN page[d]
         /\ Tail(page[d]) \in Seq(DueRow)
<1>1. page[d] \in Seq(DueRow)
  BY DEF DrainsType
<1>2. Head(page[d]) \in DueRow /\ Tail(page[d]) \in Seq(DueRow)
  BY <1>1, HeadTailProperties
<1>3. Head(page[d]) = page[d][1] /\ 1 \in DOMAIN page[d]
  BY <1>1
<1> QED
  BY <1>2, <1>3 DEF DueRow

LEMMA PageRows ==
  ASSUME DrainsType, NEW d \in Drains
  PROVE  /\ page[d] \in Seq(DueRow)
         /\ \A i \in DOMAIN page[d] : page[d][i].msg \in Messages /\ page[d][i].count \in Nat
<1>1. page[d] \in Seq(DueRow)
  BY DEF DrainsType
<1>2. \A i \in DOMAIN page[d] : page[d][i] \in DueRow
  BY <1>1, ElementOfSeq
<1> QED
  BY <1>1, <1>2 DEF DueRow

LEMMA DrainStepType ==
  ASSUME TypeOK, NEW d \in Drains, DrainInv(d), DrainStep(d) \/ DrainCrash(d)
  PROVE  TypeOK'
<1> USE DEF TypeOK
<1>1. CallsType' /\ clock' \in 0..Horizon /\ crashes' \in 0..MaxCrashes
  BY DispatchAssumption DEF DrainStep, SelectDue, Send, LogAttempt, MarkRow, DrainCrash, callVars, CallsType
<1>2. CASE SelectDue(d)
  <2>1. PICK n \in 1..Batch : \E s \in [1..n -> Due(clock)] :
          page' = [page EXCEPT ![d] = [i \in 1..n |-> [msg |-> s[i], count |-> outbox[s[i]].count]]]
    BY <1>2 DEF SelectDue
  <2>2. PICK s \in [1..n -> Due(clock)] :
          page' = [page EXCEPT ![d] = [i \in 1..n |-> [msg |-> s[i], count |-> outbox[s[i]].count]]]
    BY <2>1
  <2>3. \A m \in Due(clock) : m \in Messages /\ outbox[m].count \in Nat
    BY DEF Due, TablesType, Row, NoRow
  <2>4. [i \in 1..n |-> [msg |-> s[i], count |-> outbox[s[i]].count]] \in Seq(DueRow)
    BY <2>3, DispatchAssumption DEF DueRow
  <2>5. DrainsType'
    BY <1>2, <2>2, <2>4 DEF SelectDue, DrainsType
  <2> QED
    BY <1>1, <1>2, <2>5 DEF SelectDue, tables, TablesType, wire, WireType
<1>3. CASE Send(d)
  <2> DEFINE m == Head(page[d]).msg
             no == Head(page[d]).count + 1
  <2>1. m \in Messages /\ no \in Nat
    BY <1>3, RowInHand DEF Send, DrainInv, DueRow
  <2>2. started[d] \in 0..Horizon
    BY DEF DrainsType
  <2>3. PICK reply \in Replies : \E delay \in Delays(no, reply) :
          attempt' = [attempt EXCEPT ![d] = [no |-> no, outcome |-> Outcome(no, reply),
                                             next |-> Later(started[d], delay)]]
    BY <1>3 DEF Send
  <2>4. PICK delay \in Delays(no, reply) :
          attempt' = [attempt EXCEPT ![d] = [no |-> no, outcome |-> Outcome(no, reply),
                                             next |-> Later(started[d], delay)]]
    BY <2>3
  <2>5. [no |-> no, outcome |-> Outcome(no, reply), next |-> Later(started[d], delay)] \in Attempt
    BY <2>1, <2>2, OutcomeJustified, LaterInHorizon DEF Attempt
  <2>6. DrainsType'
    BY <1>3, <2>4, <2>5 DEF Send, DrainsType
  <2>7. WireType'
    BY <1>3, <2>1 DEF Send, WireType
  <2> QED
    BY <1>1, <1>3, <2>6, <2>7 DEF Send, tables, TablesType
<1>4. CASE LogAttempt(d)
  <2>1. Head(page[d]).msg \in Messages
    BY <1>4, RowInHand DEF LogAttempt, DrainInv
  <2>2. [no |-> attempt[d].no, outcome |-> attempt[d].outcome] \in [no : Nat, outcome : Outcomes]
    BY DEF DrainsType, Attempt
  <2>3. TablesType'
    BY <1>4, <2>1, <2>2 DEF LogAttempt, TablesType
  <2> QED
    BY <1>1, <1>4, <2>3 DEF LogAttempt, wire, WireType, DrainsType
<1>5. CASE MarkRow(d)
  <2>1. page[d] # <<>> /\ Stored(Head(page[d]).msg)
    BY <1>5 DEF MarkRow, DrainInv, DrainsType
  <2>2. /\ Head(page[d]).msg \in Messages
        /\ outbox[Head(page[d]).msg] \in Row
        /\ attempt[d] \in Attempt
    BY <2>1, RowInHand, StoredRow DEF DrainsType
  <2>3. TablesType'
    BY <1>5, <2>2, MarkedRow DEF MarkRow, TablesType
  <2>4. DrainsType'
    <3>1. attempt' \in [Drains -> Attempt]
      BY <1>5, NoAttemptType DEF MarkRow, DrainsType
    <3>2. Tail(page[d]) \in Seq(DueRow) /\ <<>> \in Seq(DueRow)
      BY <2>1, RowInHand
    <3>3. CASE /\ page' = [page EXCEPT ![d] = Tail(@)]
               /\ pc' = [pc EXCEPT ![d] = "send"]
               /\ UNCHANGED started
      BY <3>1, <3>2, <3>3 DEF DrainsType
    <3>4. CASE /\ page' = [page EXCEPT ![d] = <<>>]
               /\ pc' = [pc EXCEPT ![d] = "idle"]
               /\ started' = [started EXCEPT ![d] = 0]
      BY <3>1, <3>2, <3>4, DispatchAssumption DEF DrainsType
    <3> QED
      BY <1>5, <3>3, <3>4 DEF MarkRow
  <2> QED
    BY <1>1, <1>5, <2>3, <2>4 DEF MarkRow, wire, WireType
<1>6. CASE DrainCrash(d)
  <2>1. DrainsType'
    BY <1>6, NoAttemptType, DispatchAssumption DEF DrainCrash, DrainsType
  <2> QED
    BY <1>1, <1>6, <2>1 DEF DrainCrash, tables, TablesType, wire, WireType
<1> QED
  BY <1>2, <1>3, <1>4, <1>5, <1>6 DEF DrainStep

-----------------------------------------------------------------------------
(* The inductive invariant                                                 *)

LEMMA InitInv == Init => DispatchInv
<1> SUFFICES ASSUME Init PROVE DispatchInv
  OBVIOUS
<1>1. TypeOK
  BY InitType
<1>2. \A m \in Messages : ~Stored(m) /\ outbox[m].status = "none"
  BY DEF Init, Stored, NoRow
<1>3. \A d \in Drains : DrainInv(d)
  BY DEF Init, DrainInv
<1>4. KeysUnique /\ OneEventPerKey
  BY <1>2 DEF Init, KeysUnique, OneEventPerKey
<1> QED
  BY <1>1, <1>2, <1>3, <1>4 DEF DispatchInv, RowInv, SettlementIsLogged, NoFalseSettlement

\* Rows are only added, with count 0 and under a key that was free; what a drain
\* knows of the rows on its page is not disturbed.
LEMMA RowsKept ==
  ASSUME DispatchInv, UNCHANGED <<log, drainVars, wire>>,
         \A m \in Messages : Stored(m) => outbox'[m] = outbox[m],
         \A m \in Messages : ~Stored(m) =>
            \/ outbox'[m] = outbox[m]
            \/ outbox'[m] \in Row /\ outbox'[m].count = 0 /\ outbox'[m].status = "pending",
         TypeOK'
  PROVE  /\ \A d \in Drains : DrainInv(d)'
         /\ \A m \in Messages : RowInv(m)'
         /\ SettlementIsLogged'
         /\ NoFalseSettlement'
<1>1. \A m \in Messages : Stored(m) => Stored(m)'
  BY DEF Stored
<1>2. \A d \in Drains : DrainInv(d)'
  <2> SUFFICES ASSUME NEW d \in Drains PROVE DrainInv(d)'
    OBVIOUS
  <2>1. DrainInv(d)
    BY DEF DispatchInv
  <2>2. \A i \in DOMAIN page[d] : page[d][i].msg \in Messages
    BY PageRows DEF DispatchInv, TypeOK
  <2> QED
    BY <1>1, <2>1, <2>2 DEF DrainInv, drainVars, wire
<1>3. \A m \in Messages : RowInv(m)'
  BY DEF DispatchInv, RowInv, wire, Stored, TypeOK, WireType
<1>4. SettlementIsLogged'
  BY DEF DispatchInv, SettlementIsLogged, Stored, Terminal
<1>5. NoFalseSettlement'
  BY DEF DispatchInv, NoFalseSettlement, wire, Stored, NoRow
<1> QED
  BY <1>2, <1>3, <1>4, <1>5

LEMMA InsertInv ==
  ASSUME DispatchInv, NEW c \in Callers, DispatchInsert(c), TypeOK'
  PROVE  DispatchInv'
<1> DEFINE e == caller[c].ep
           k == caller[c].key
<1>1. CASE \E m \in Messages : Conflicts(m, e, k)
  <2>1. UNCHANGED <<outbox, answers>>
    BY <1>1 DEF DispatchInsert
  <2>2. KeysUnique' /\ OneEventPerKey'
    BY <2>1 DEF DispatchInv, KeysUnique, OneEventPerKey, Stored, Conflicts
  <2> QED
    BY <2>1, <2>2, RowsKept DEF DispatchInv, DispatchInsert
<1>2. CASE ~ \E m \in Messages : Conflicts(m, e, k)
  <2>1. PICK m \in Messages :
          /\ ~Stored(m)
          /\ outbox' = [outbox EXCEPT ![m] =
               [ep |-> e, key |-> k, count |-> 0, next |-> clock, status |-> "pending"]]
          /\ Answer(c, m)
    BY <1>2 DEF DispatchInsert
  <2>2. /\ outbox'[m] = [ep |-> e, key |-> k, count |-> 0, next |-> clock, status |-> "pending"]
        /\ \A n \in Messages \ {m} : outbox'[n] = outbox[n]
        /\ outbox'[m] # NoRow /\ Stored(m)'
    BY <2>1 DEF DispatchInv, TypeOK, TablesType, NoRow, Stored
  <2>3. outbox'[m] \in Row
    BY <2>2 DEF TypeOK, TablesType
  <2>4. KeysUnique'
    BY <1>2, <2>1, <2>2 DEF DispatchInv, KeysUnique, Conflicts, Stored
  <2>5. OneEventPerKey'
    <3>1. answers' = answers \cup {<<e, k, m>>}
      BY <2>1 DEF Answer
    <3>2. \A a \in answers : a[3] \in Messages /\ a[3] # m
      BY <2>1 DEF DispatchInv, TypeOK, CallsType, OneEventPerKey
    <3>3. \A a \in answers : ~(a[1] = e /\ a[2] = k /\ k # NoKey)
      BY <1>2, <3>2 DEF DispatchInv, OneEventPerKey, Conflicts
    <3> QED
      BY <2>2, <3>1, <3>2, <3>3 DEF DispatchInv, OneEventPerKey, Stored
  <2> QED
    BY <2>1, <2>2, <2>3, <2>4, <2>5, RowsKept DEF DispatchInv, DispatchInsert
<1> QED
  BY <1>1, <1>2

LEMMA LookupInv ==
  ASSUME DispatchInv, NEW c \in Callers, DispatchLookup(c), TypeOK'
  PROVE  DispatchInv'
<1> DEFINE e == caller[c].ep
           k == caller[c].key
<1>1. PICK m \in Messages : Conflicts(m, e, k) /\ Answer(c, m)
  BY DEF DispatchLookup
<1>2. UNCHANGED <<outbox, log, drainVars, wire>> /\ answers' = answers \cup {<<e, k, m>>}
  BY <1>1 DEF DispatchLookup, tables, Answer
<1>3. KeysUnique'
  BY <1>2 DEF DispatchInv, KeysUnique, Stored, Conflicts
<1>4. \A a \in answers : a[3] \in Messages
  BY DEF DispatchInv, TypeOK, CallsType
<1>5. \A a \in answers : a[1] = e /\ a[2] = k => a[3] = m
  BY <1>1, <1>4 DEF DispatchInv, OneEventPerKey, KeysUnique, Conflicts
<1>6. OneEventPerKey'
  BY <1>1, <1>2, <1>5 DEF DispatchInv, OneEventPerKey, Conflicts, Stored
<1> QED
  BY <1>2, <1>3, <1>6, RowsKept DEF DispatchInv

LEMMA DispatchingInv == DispatchInv /\ Dispatching => DispatchInv'
<1> SUFFICES ASSUME DispatchInv, Dispatching PROVE DispatchInv'
  OBVIOUS
<1>1. TypeOK'
  BY DispatchingType DEF DispatchInv
<1>2. CASE UNCHANGED <<outbox, log, answers, drainVars, wire>>
  <2>1. KeysUnique' /\ OneEventPerKey'
    BY <1>2 DEF DispatchInv, KeysUnique, OneEventPerKey, Stored, Conflicts
  <2> QED
    BY <1>1, <1>2, <2>1, RowsKept DEF DispatchInv
<1>3. CASE \E c \in Callers : DispatchInsert(c) \/ DispatchLookup(c)
  BY <1>1, <1>3, InsertInv, LookupInv
<1>4. UNCHANGED <<outbox, log, answers, drainVars, wire>>
        \/ \E c \in Callers : DispatchInsert(c) \/ DispatchLookup(c)
  BY DEF Dispatching, RegisterEndpoint, DispatchBegin, DispatchAbort, tables, callVars
<1> QED
  BY <1>2, <1>3, <1>4

-----------------------------------------------------------------------------
(* The steps of a drain                                                    *)

\* A drain adds no row and changes no row's endpoint or key.
LEMMA IdentityKept ==
  ASSUME DispatchInv, answers' = answers,
         \A m \in Messages : \/ outbox'[m] = outbox[m]
                             \/ /\ Stored(m) /\ outbox'[m] \in Row
                                /\ outbox'[m].ep = outbox[m].ep
                                /\ outbox'[m].key = outbox[m].key
  PROVE  KeysUnique' /\ OneEventPerKey'
<1>1. \A m \in Messages : /\ Stored(m)' <=> Stored(m)
                          /\ Stored(m) => /\ outbox'[m].ep = outbox[m].ep
                                          /\ outbox'[m].key = outbox[m].key
  BY DEF Stored, Row, NoRow
<1>2. \A a \in answers : a[3] \in Messages
  BY DEF DispatchInv, TypeOK, CallsType
<1>3. KeysUnique'
  BY <1>1 DEF DispatchInv, KeysUnique, Conflicts
<1>4. OneEventPerKey'
  BY <1>1, <1>2 DEF DispatchInv, OneEventPerKey
<1> QED
  BY <1>3, <1>4

\* Another drain's knowledge is about facts that only grow.
LEMMA OtherDrain ==
  ASSUME DispatchInv, NEW o \in Drains,
         pc'[o] = pc[o], page'[o] = page[o], attempt'[o] = attempt[o],
         \A m \in Messages : /\ Stored(m) => Stored(m)'
                             /\ sends[m] <= sends'[m] /\ sends'[m] \in Nat
                             /\ log[m] \subseteq log'[m],
         taken \subseteq taken', refused \subseteq refused'
  PROVE  DrainInv(o)'
<1>1. /\ DrainInv(o)
      /\ \A i \in DOMAIN page[o] : page[o][i].msg \in Messages /\ page[o][i].count \in Nat
      /\ page[o] # <<>> => Head(page[o]).msg \in Messages
      /\ attempt[o].no \in Nat
      /\ sends \in [Messages -> Nat]
  BY PageRows, RowInHand DEF DispatchInv, TypeOK, DrainsType, WireType, Attempt
<1>2. pc[o] \in {"log", "mark"} => Head(page[o]).msg \in Messages
  BY <1>1 DEF DrainInv
<1> QED
  BY <1>1, <1>2 DEF DrainInv

LEMMA SelectInv ==
  ASSUME DispatchInv, NEW d \in Drains, SelectDue(d), TypeOK'
  PROVE  DispatchInv'
<1>1. UNCHANGED <<tables, answers, wire>>
  BY DEF SelectDue, callVars
<1>2. PICK n \in 1..Batch : \E s \in [1..n -> Due(clock)] :
        page' = [page EXCEPT ![d] = [i \in 1..n |-> [msg |-> s[i], count |-> outbox[s[i]].count]]]
  BY DEF SelectDue
<1>3. PICK s \in [1..n -> Due(clock)] :
        page' = [page EXCEPT ![d] = [i \in 1..n |-> [msg |-> s[i], count |-> outbox[s[i]].count]]]
  BY <1>2
<1>4. \A m \in Due(clock) : m \in Messages /\ Stored(m) /\ outbox[m].count <= sends[m]
  BY DEF Due, DispatchInv, RowInv, Stored, NoRow
<1>5. page'[d] = [i \in 1..n |-> [msg |-> s[i], count |-> outbox[s[i]].count]] /\ pc'[d] = "send"
  BY <1>3 DEF SelectDue, DispatchInv, TypeOK, DrainsType
<1>6. DrainInv(d)'
  <2>1. DOMAIN page'[d] = 1..n /\ n >= 1
    BY <1>5, DispatchAssumption
  <2>2. page'[d] # <<>>
    BY <2>1
  <2>3. \A i \in 1..n : /\ page'[d][i].msg = s[i]
                        /\ page'[d][i].count = outbox[s[i]].count
                        /\ s[i] \in Due(clock)
    BY <1>5
  <2>4. \A i \in DOMAIN page'[d] : /\ Stored(page[d][i].msg)'
                                   /\ page'[d][i].count <= sends'[page'[d][i].msg]
    BY <1>1, <1>4, <2>1, <2>3 DEF tables, wire, Stored
  <2> QED
    BY <1>5, <2>2, <2>4 DEF DrainInv
<1>7. \A o \in Drains \ {d} : DrainInv(o)'
  <2> TAKE o \in Drains \ {d}
  <2>1. pc'[o] = pc[o] /\ page'[o] = page[o] /\ attempt'[o] = attempt[o]
    BY <1>3 DEF SelectDue, DispatchInv, TypeOK, DrainsType
  <2> QED
    BY <1>1, <2>1, OtherDrain DEF tables, wire, Stored, DispatchInv, TypeOK, WireType
<1>8. KeysUnique' /\ OneEventPerKey'
  BY <1>1, IdentityKept DEF tables
<1> QED
  BY <1>1, <1>6, <1>7, <1>8
  DEF DispatchInv, tables, wire, RowInv, Stored, SettlementIsLogged, Terminal, NoFalseSettlement

LEMMA SendInv ==
  ASSUME DispatchInv, NEW d \in Drains, Send(d), TypeOK'
  PROVE  DispatchInv'
<1> DEFINE m == Head(page[d]).msg
           no == Head(page[d]).count + 1
<1>1. /\ page[d] # <<>> /\ m \in Messages /\ no \in Nat \ {0}
      /\ Head(page[d]) = page[d][1] /\ 1 \in DOMAIN page[d]
  <2>1. page[d] # <<>>
    BY DEF Send, DispatchInv, DrainInv
  <2> QED
    BY <2>1, RowInHand DEF DispatchInv, TypeOK
<1>2. no - 1 <= sends[m]
  <2>1. page[d][1].count <= sends[page[d][1].msg]
    BY <1>1 DEF DispatchInv, DrainInv
  <2>2. sends[m] \in Nat /\ Head(page[d]).count \in Nat
    BY <1>1, RowInHand DEF DispatchInv, DrainInv, Send, TypeOK, WireType
  <2> QED
    BY <1>1, <2>1, <2>2
<1>3. /\ UNCHANGED <<outbox, log, answers>>
      /\ sends' = [sends EXCEPT ![m] = @ + 1]
      /\ taken \subseteq taken' /\ refused \subseteq refused'
  BY DEF Send, tables, callVars
<1>4. PICK reply \in Replies :
        /\ \E delay \in Delays(no, reply) :
             attempt' = [attempt EXCEPT ![d] =
               [no |-> no, outcome |-> Outcome(no, reply),
                next |-> Later(started[d], delay)]]
        /\ reply = "ok" => m \in taken'
        /\ reply = "permanent" => m \in refused'
  BY DEF Send
<1>5. attempt'[d].no = no /\ attempt'[d].outcome = Outcome(no, reply)
  BY <1>4 DEF DispatchInv, TypeOK, DrainsType
<1>6. /\ attempt'[d].outcome = "delivered" => m \in taken'
      /\ attempt'[d].outcome = "dead" => m \in refused' \/ no >= MaxAttempts
  BY <1>1, <1>4, <1>5, OutcomeJustified
<1>7. \A x \in Messages : /\ sends[x] <= sends'[x] /\ sends[x] \in Nat /\ sends'[x] \in Nat
                          /\ x = m => sends'[x] = sends[x] + 1
  BY <1>1, <1>3 DEF DispatchInv, TypeOK, WireType
<1>8. pc'[d] = "log" /\ page' = page
  BY DEF Send, DispatchInv, TypeOK, DrainsType
<1>9. DrainInv(d)'
  <2>1. attempt'[d].no \in 1..sends'[m]
    BY <1>1, <1>2, <1>5, <1>7
  <2>2. \A i \in DOMAIN page[d] : /\ Stored(page[d][i].msg)'
                                  /\ page[d][i].count <= sends'[page[d][i].msg]
    <3> TAKE i \in DOMAIN page[d]
    <3>1. /\ Stored(page[d][i].msg) /\ page[d][i].msg \in Messages /\ page[d][i].count \in Nat
          /\ page[d][i].count <= sends[page[d][i].msg]
      BY PageRows DEF DispatchInv, DrainInv, TypeOK
    <3>2. Stored(page[d][i].msg)'
      BY <1>3, <1>8, <3>1 DEF Stored
    <3>3. page[d][i].count <= sends'[page[d][i].msg]
      BY <1>7, <3>1
    <3> QED
      BY <1>8, <3>2, <3>3
  <2> QED
    BY <1>1, <1>5, <1>6, <1>8, <2>1, <2>2 DEF DrainInv
<1>10. \A o \in Drains \ {d} : DrainInv(o)'
  <2> TAKE o \in Drains \ {d}
  <2>1. pc'[o] = pc[o] /\ page'[o] = page[o] /\ attempt'[o] = attempt[o]
    BY <1>4, <1>8 DEF Send, DispatchInv, TypeOK, DrainsType
  <2> QED
    BY <1>3, <1>7, <2>1, OtherDrain DEF Stored
<1>11. KeysUnique' /\ OneEventPerKey'
  BY <1>3, IdentityKept
<1>12. \A x \in Messages : RowInv(x)'
  BY <1>3, <1>7 DEF DispatchInv, RowInv, Stored, TypeOK, TablesType, Row, NoRow
<1>13. SettlementIsLogged' /\ NoFalseSettlement'
  BY <1>3, <1>7, DispatchAssumption
  DEF DispatchInv, SettlementIsLogged, NoFalseSettlement, Stored, Terminal
<1> QED
  BY <1>9, <1>10, <1>11, <1>12, <1>13 DEF DispatchInv

LEMMA LogInv ==
  ASSUME DispatchInv, NEW d \in Drains, LogAttempt(d), TypeOK'
  PROVE  DispatchInv'
<1> DEFINE m == Head(page[d]).msg
           entry == [no |-> attempt[d].no, outcome |-> attempt[d].outcome]
<1>1. m \in Messages
  BY RowInHand DEF LogAttempt, DispatchInv, DrainInv, TypeOK
<1>2. UNCHANGED <<outbox, answers, page, attempt, wire>> /\ log' = [log EXCEPT ![m] = @ \cup {entry}]
  BY DEF LogAttempt, callVars
<1>3. entry \in log'[m] /\ \A x \in Messages : log[x] \subseteq log'[x]
  BY <1>1, <1>2 DEF DispatchInv, TypeOK, TablesType
<1>4. pc[d] = "log" /\ pc'[d] = "mark"
  BY DEF LogAttempt, DispatchInv, TypeOK, DrainsType
<1>5. DrainInv(d)'
  BY <1>2, <1>3, <1>4 DEF DispatchInv, DrainInv, wire, Stored
<1>6. \A o \in Drains \ {d} : DrainInv(o)'
  <2> TAKE o \in Drains \ {d}
  <2>1. pc'[o] = pc[o]
    BY DEF LogAttempt, DispatchInv, TypeOK, DrainsType
  <2> QED
    BY <1>2, <1>3, <2>1, OtherDrain DEF Stored, wire, DispatchInv, TypeOK, WireType
<1>7. KeysUnique' /\ OneEventPerKey'
  BY <1>2, IdentityKept
<1>8. /\ \A x \in Messages : RowInv(x)'
      /\ SettlementIsLogged' /\ NoFalseSettlement'
  BY <1>2, <1>3
  DEF DispatchInv, RowInv, SettlementIsLogged, NoFalseSettlement, Stored, Terminal, wire
<1> QED
  BY <1>5, <1>6, <1>7, <1>8 DEF DispatchInv

LEMMA MarkInv ==
  ASSUME DispatchInv, NEW d \in Drains, MarkRow(d), TypeOK'
  PROVE  DispatchInv'
<1> DEFINE m == Head(page[d]).msg
           a == attempt[d]
<1>1. /\ page[d] \in Seq(DueRow) /\ page[d] # <<>> /\ m \in Messages
      /\ 1 \in DOMAIN page[d] /\ Head(page[d]) = page[d][1]
  <2>1. page[d] # <<>>
    BY DEF MarkRow, DispatchInv, DrainInv
  <2> QED
    BY <2>1, RowInHand, PageRows DEF DispatchInv, TypeOK
<1>2. /\ Stored(m) /\ outbox[m] \in Row /\ a \in Attempt /\ a.no \in 1..sends[m]
      /\ a.outcome = "delivered" => m \in taken
      /\ a.outcome = "dead" => m \in refused \/ a.no >= MaxAttempts
      /\ [no |-> a.no, outcome |-> a.outcome] \in log[m]
  BY <1>1, StoredRow DEF MarkRow, DispatchInv, DrainInv, TypeOK, DrainsType
<1>3. /\ UNCHANGED <<log, answers, wire>>
      /\ outbox' = [outbox EXCEPT ![m] = Marked(outbox[m], a)]
  BY DEF MarkRow, callVars
<1>4. /\ outbox'[m] = Marked(outbox[m], a) /\ outbox'[m] \in Row
      /\ \A x \in Messages \ {m} : outbox'[x] = outbox[x]
  BY <1>1, <1>2, <1>3, MarkedRow DEF DispatchInv, TypeOK, TablesType
<1>5. \A x \in Messages : Stored(x) => Stored(x)'
  BY <1>4 DEF Stored, Row, NoRow
<1>6. KeysUnique' /\ OneEventPerKey'
  BY <1>2, <1>3, <1>4, IdentityKept, MarkedRow
<1>7. DrainInv(d)'
  <2>1. pc'[d] \in {"idle", "send"}
    BY DEF MarkRow, DispatchInv, TypeOK, DrainsType
  <2>2. CASE page'[d] = <<>> /\ pc'[d] = "idle"
    BY <2>2 DEF DrainInv
  <2>3. CASE page'[d] = Tail(page[d]) /\ Len(page[d]) > 1
    <3>1. /\ Tail(page[d]) \in Seq(DueRow)
          /\ Len(Tail(page[d])) = Len(page[d]) - 1
          /\ \A i \in 1..Len(Tail(page[d])) : Tail(page[d])[i] = page[d][i + 1]
      BY <1>1, HeadTailProperties
    <3>2. page'[d] # <<>>
      <4>1. Len(page[d]) \in Nat /\ Len(Tail(page[d])) >= 1
        BY <1>1, <2>3, <3>1
      <4> QED
        BY <2>3, <4>1
    <3>3. \A i \in DOMAIN page'[d] : i + 1 \in DOMAIN page[d] /\ page'[d][i] = page[d][i + 1]
      BY <1>1, <2>3, <3>1
    <3>4. \A i \in DOMAIN page[d] : /\ outbox'[page[d][i].msg] # NoRow
                                    /\ page[d][i].count <= sends[page[d][i].msg]
      BY <1>5, PageRows DEF DispatchInv, DrainInv, TypeOK, Stored
    <3>5. \A i \in DOMAIN page'[d] : /\ Stored(page[d][i].msg)'
                                     /\ page'[d][i].count <= sends'[page'[d][i].msg]
      BY <1>3, <3>3, <3>4 DEF wire, Stored
    <3> QED
      BY <2>1, <3>2, <3>5 DEF DrainInv
  <2> QED
    BY <2>2, <2>3 DEF MarkRow, DispatchInv, TypeOK, DrainsType
<1>8. \A o \in Drains \ {d} : DrainInv(o)'
  <2> TAKE o \in Drains \ {d}
  <2>1. pc'[o] = pc[o] /\ page'[o] = page[o] /\ attempt'[o] = attempt[o]
    BY DEF MarkRow, DispatchInv, TypeOK, DrainsType
  <2> QED
    BY <1>3, <1>5, <2>1, OtherDrain DEF wire, DispatchInv, TypeOK, WireType
<1>9. \A x \in Messages : RowInv(x)'
  BY <1>2, <1>3, <1>4, MarkedRow
  DEF DispatchInv, RowInv, Stored, wire, TypeOK, WireType
<1>10. SettlementIsLogged'
  <2>1. CASE outbox[m].status = "pending"
    BY <1>2, <1>3, <1>4, <2>1, MarkedRow
    DEF DispatchInv, SettlementIsLogged, Stored, Terminal, Attempt, Outcomes
  <2>2. CASE outbox[m].status # "pending"
    BY <1>2, <1>3, <1>4, <2>2, MarkedRow DEF DispatchInv, SettlementIsLogged, Stored, Terminal
  <2> QED
    BY <2>1, <2>2
<1>11. NoFalseSettlement'
  <2>1. a.no >= MaxAttempts => sends[m] >= MaxAttempts
    BY <1>1, <1>2, DispatchAssumption DEF DispatchInv, TypeOK, WireType
  <2> QED
    BY <1>2, <1>3, <1>4, <2>1, MarkedRow DEF DispatchInv, NoFalseSettlement, wire
<1> QED
  BY <1>6, <1>7, <1>8, <1>9, <1>10, <1>11 DEF DispatchInv

LEMMA CrashInv ==
  ASSUME DispatchInv, NEW d \in Drains, DrainCrash(d), TypeOK'
  PROVE  DispatchInv'
<1>1. UNCHANGED <<tables, answers, wire>>
  BY DEF DrainCrash, callVars
<1>2. DrainInv(d)'
  BY DEF DrainCrash, DrainInv, DispatchInv, TypeOK, DrainsType
<1>3. \A o \in Drains \ {d} : DrainInv(o)'
  <2> TAKE o \in Drains \ {d}
  <2>1. pc'[o] = pc[o] /\ page'[o] = page[o] /\ attempt'[o] = attempt[o]
    BY DEF DrainCrash, DispatchInv, TypeOK, DrainsType
  <2> QED
    BY <1>1, <2>1, OtherDrain DEF tables, wire, Stored, DispatchInv, TypeOK, WireType
<1>4. KeysUnique' /\ OneEventPerKey'
  BY <1>1, IdentityKept DEF tables
<1> QED
  BY <1>1, <1>2, <1>3, <1>4
  DEF DispatchInv, tables, wire, RowInv, Stored, SettlementIsLogged, Terminal, NoFalseSettlement

LEMMA DrainInvKept ==
  ASSUME DispatchInv, NEW d \in Drains, DrainStep(d) \/ DrainCrash(d)
  PROVE  DispatchInv'
<1>1. TypeOK'
  BY DrainStepType DEF DispatchInv
<1> QED
  BY <1>1, SelectInv, SendInv, LogInv, MarkInv, CrashInv DEF DrainStep

LEMMA TickInv == DispatchInv /\ Tick => DispatchInv'
<1> SUFFICES ASSUME DispatchInv, Tick PROVE DispatchInv'
  OBVIOUS
<1>1. TypeOK'
  BY DispatchAssumption
  DEF DispatchInv, TypeOK, Tick, tables, callVars, drainVars, wire,
         TablesType, CallsType, DrainsType, WireType
<1>2. UNCHANGED <<outbox, log, answers, drainVars, wire>>
  BY DEF Tick, tables, callVars
<1>3. KeysUnique' /\ OneEventPerKey'
  BY <1>2, IdentityKept
<1> QED
  BY <1>1, <1>2, <1>3, RowsKept DEF DispatchInv

LEMMA StutterInv == DispatchInv /\ UNCHANGED vars => DispatchInv'
<1> SUFFICES ASSUME DispatchInv, UNCHANGED vars PROVE DispatchInv'
  OBVIOUS
<1>1. TypeOK'
  BY DEF DispatchInv, TypeOK, vars, tables, callVars, drainVars, wire,
         TablesType, CallsType, DrainsType, WireType
<1>2. UNCHANGED <<outbox, log, answers, drainVars, wire>>
  BY DEF vars, tables, callVars
<1>3. KeysUnique' /\ OneEventPerKey'
  BY <1>2, IdentityKept
<1> QED
  BY <1>1, <1>2, <1>3, RowsKept DEF DispatchInv

\* The invariant behind every theorem below: whatever dispatch calls and drains
\* interleave, crash and repeat, the facts of DispatchInv hold in every state.
THEOREM DispatchInvariant == Spec => []DispatchInv
<1>1. DispatchInv /\ [Next]_vars => DispatchInv'
  BY DispatchingInv, DrainInvKept, TickInv, StutterInv DEF Next
<1> QED
  BY InitInv, <1>1, PTL DEF Spec

\* Every variable keeps its type.
THEOREM TypeCorrect == Spec => []TypeOK
<1>1. DispatchInv => TypeOK
  BY DEF DispatchInv
<1> QED
  BY <1>1, DispatchInvariant, PTL

\* dispatch is idempotent per (endpoint, key) under every race and retry.
THEOREM Idempotent == Spec => []OneEventPerKey
<1>1. DispatchInv => OneEventPerKey
  BY DEF DispatchInv
<1> QED
  BY <1>1, DispatchInvariant, PTL

\* What attemptDelivery did to a row can be read in the row's delivery log.
THEOREM LoggedBeforeSettled == Spec => []SettlementIsLogged
<1>1. DispatchInv => SettlementIsLogged
  BY DEF DispatchInv
<1> QED
  BY <1>1, DispatchInvariant, PTL

\* A message is dead-lettered or delivered only for a real reason, with any
\* number of overlapping drains.
THEOREM SettlementIsTrue == Spec => []NoFalseSettlement
<1>1. DispatchInv => NoFalseSettlement
  BY DEF DispatchInv
<1> QED
  BY <1>1, DispatchInvariant, PTL

-----------------------------------------------------------------------------
(* The attempt budget of a drain that runs alone                           *)

LEMMA BudgetInit == Init => BudgetInv
BY DEF Init, BudgetInv, LonePage, BudgetRow, Stored

\* Calls of dispatch and the clock: rows are only added, with count 0.
LEMMA BudgetRowsAdded ==
  ASSUME DispatchInv, BudgetInv, UNCHANGED <<drainVars, wire, crashes>>,
         \A m \in Messages : Stored(m) => outbox'[m] = outbox[m],
         \A m \in Messages : ~Stored(m) =>
            \/ outbox'[m] = outbox[m]
            \/ outbox'[m] # NoRow /\ outbox'[m].count = 0
  PROVE  BudgetInv'
<1>1. \A d \in Drains : LonePage(d)'
  <2> SUFFICES ASSUME NEW d \in Drains PROVE LonePage(d)'
    OBVIOUS
  <2>1. \A i \in DOMAIN page[d] : outbox'[page[d][i].msg] = outbox[page[d][i].msg]
    BY PageRows DEF DispatchInv, TypeOK, DrainInv
  <2> QED
    BY <2>1 DEF BudgetInv, LonePage, drainVars
<1>2. \A m \in Messages : BudgetRow(m)'
  <2> SUFFICES ASSUME NEW m \in Messages PROVE BudgetRow(m)'
    OBVIOUS
  <2>1. InHand(m)' <=> InHand(m)
    BY DEF InHand, drainVars
  <2>2. BudgetRow(m) /\ sends' = sends /\ crashes' = crashes
    BY DEF BudgetInv, wire
  <2>3. CASE Stored(m)
    BY <2>1, <2>2, <2>3 DEF BudgetRow, Stored
  <2>4. CASE ~Stored(m) /\ outbox'[m] = outbox[m]
    BY <2>2, <2>4 DEF BudgetRow, Stored
  <2>5. CASE ~Stored(m) /\ outbox'[m] # NoRow /\ outbox'[m].count = 0
    <3>1. sends[m] = 0 /\ Stored(m)' /\ crashes \in Nat
      BY <2>2, <2>5, DispatchAssumption DEF BudgetRow, Stored, DispatchInv, TypeOK
    <3> QED
      BY <2>2, <2>5, <3>1, DispatchAssumption DEF BudgetRow
  <2> QED
    BY <2>3, <2>4, <2>5
<1> QED
  BY <1>1, <1>2 DEF BudgetInv

LEMMA BudgetDispatching ==
  ASSUME DispatchInv, BudgetInv, Dispatching \/ Tick \/ UNCHANGED vars
  PROVE  BudgetInv'
<1>1. ASSUME NEW c \in Callers, DispatchInsert(c) PROVE BudgetInv'
  <2>1. UNCHANGED <<drainVars, wire, crashes>>
    BY <1>1 DEF DispatchInsert
  <2>2. CASE UNCHANGED outbox
    BY <2>1, <2>2, BudgetRowsAdded
  <2>3. CASE \E m \in Messages :
               /\ ~Stored(m)
               /\ outbox' = [outbox EXCEPT ![m] =
                    [ep |-> caller[c].ep, key |-> caller[c].key, count |-> 0,
                     next |-> clock, status |-> "pending"]]
    <3>1. outbox \in [Messages -> Row \cup {NoRow}]
      BY DEF DispatchInv, TypeOK, TablesType
    <3>2. [ep |-> caller[c].ep, key |-> caller[c].key, count |-> 0,
           next |-> clock, status |-> "pending"] # NoRow
      BY DEF NoRow
    <3> QED
      BY <2>1, <2>3, <3>1, <3>2, BudgetRowsAdded
  <2> QED
    BY <1>1, <2>2, <2>3 DEF DispatchInsert
<1>2. UNCHANGED <<outbox, drainVars, wire, crashes>> \/ \E c \in Callers : DispatchInsert(c)
  BY DEF Dispatching, RegisterEndpoint, DispatchBegin, DispatchLookup, DispatchAbort, Tick, vars, tables
<1> QED
  BY <1>1, <1>2, BudgetRowsAdded

LEMMA BudgetSelect ==
  ASSUME DispatchInv, BudgetInv, OneDrain, NEW d \in Drains, SelectDue(d)
  PROVE  BudgetInv'
<1>1. UNCHANGED <<outbox, wire, crashes>> /\ pc[d] = "idle"
  BY DEF SelectDue, tables
<1>2. PICK n \in 1..Batch : \E s \in [1..n -> Due(clock)] :
        /\ IsDuePage(s, clock)
        /\ page' = [page EXCEPT ![d] = [i \in 1..n |-> [msg |-> s[i], count |-> outbox[s[i]].count]]]
  BY DEF SelectDue
<1>3. PICK s \in [1..n -> Due(clock)] :
        /\ IsDuePage(s, clock)
        /\ page' = [page EXCEPT ![d] = [i \in 1..n |-> [msg |-> s[i], count |-> outbox[s[i]].count]]]
  BY <1>2
<1>4. page'[d] = [i \in 1..n |-> [msg |-> s[i], count |-> outbox[s[i]].count]] /\ pc'[d] = "send"
  BY <1>3 DEF SelectDue, DispatchInv, TypeOK, DrainsType
<1>5. LonePage(d)'
  <2>1. \A i, j \in 1..n : s[i] = s[j] => i = j
    <3> SUFFICES ASSUME NEW i \in 1..n, NEW j \in 1..n, i # j PROVE s[i] # s[j]
      OBVIOUS
    <3>1. i < j \/ j < i
      OBVIOUS
    <3> QED
      BY <1>3, <3>1 DEF IsDuePage
  <2>2. DOMAIN page'[d] = 1..n
    BY <1>4
  <2>3. \A i \in 1..n : page'[d][i].msg = s[i] /\ page'[d][i].count = outbox'[s[i]].count
    BY <1>1, <1>4
  <2>4. \A i \in 1..n : outbox'[s[i]].status = "pending"
    BY <1>1, <1>3 DEF Due
  <2> QED
    BY <1>4, <2>1, <2>2, <2>3, <2>4 DEF LonePage
<1>6. \A m \in Messages : ~InHand(m) /\ ~InHand(m)'
  BY <1>1, <1>4 DEF OneDrain, InHand
<1>7. \A m \in Messages : BudgetRow(m)'
  BY <1>1, <1>6 DEF BudgetInv, BudgetRow, Stored, wire
<1> QED
  BY <1>5, <1>7 DEF BudgetInv, OneDrain

LEMMA BudgetSend ==
  ASSUME DispatchInv, BudgetInv, OneDrain, NEW d \in Drains, Send(d)
  PROVE  BudgetInv'
<1> DEFINE m == Head(page[d]).msg
           no == Head(page[d]).count + 1
<1>1. /\ page[d] # <<>> /\ m \in Messages /\ no \in Nat \ {0}
      /\ Head(page[d]) = page[d][1] /\ 1 \in DOMAIN page[d]
  <2>1. page[d] # <<>>
    BY DEF Send, DispatchInv, DrainInv
  <2> QED
    BY <2>1, RowInHand DEF DispatchInv, TypeOK
<1>2. /\ UNCHANGED <<outbox, page, crashes>> /\ pc[d] = "send" /\ pc'[d] = "log"
      /\ sends' = [sends EXCEPT ![m] = @ + 1]
  BY DEF Send, tables, DispatchInv, TypeOK, DrainsType
<1>3. PICK reply \in Replies : \E delay \in Delays(no, reply) :
        attempt' = [attempt EXCEPT ![d] =
          [no |-> no, outcome |-> Outcome(no, reply), next |-> Later(started[d], delay)]]
  BY DEF Send
<1>4. attempt'[d].no = no /\ attempt'[d].outcome = Outcome(no, reply)
  BY <1>3 DEF DispatchInv, TypeOK, DrainsType
<1>5. Outcome(no, reply) = "retrying" => no < MaxAttempts
  BY <1>1, DispatchAssumption DEF Outcome, Replies
<1>6. LonePage(d)'
  BY <1>2, <1>4, <1>5 DEF BudgetInv, LonePage
<1>7. \A x \in Messages : ~InHand(x) /\ (InHand(x)' <=> x = m)
  BY <1>2 DEF OneDrain, InHand
<1>8. \A x \in Messages : BudgetRow(x)'
  <2> SUFFICES ASSUME NEW x \in Messages PROVE BudgetRow(x)'
    OBVIOUS
  <2>1. BudgetRow(x) /\ sends[x] \in Nat /\ crashes \in Nat /\ (Stored(x)' <=> Stored(x))
    BY <1>2, DispatchAssumption DEF BudgetInv, DispatchInv, TypeOK, WireType, Stored
  <2>2. x = m => Stored(x)
    BY <1>1 DEF DispatchInv, DrainInv
  <2>3. sends'[x] = IF x = m THEN sends[x] + 1 ELSE sends[x]
    BY <1>1, <1>2 DEF DispatchInv, TypeOK, WireType
  <2>4. CASE Stored(x)
    <3>1. outbox[x].count \in Nat
      BY <2>4, StoredRow DEF DispatchInv, TypeOK, Row
    <3> HIDE DEF m
    <3> QED
      BY <1>2, <1>7, <2>1, <2>3, <2>4, <3>1 DEF BudgetRow
  <2>5. CASE ~Stored(x)
    BY <2>1, <2>2, <2>3, <2>5 DEF BudgetRow
  <2> QED
    BY <2>4, <2>5
<1> QED
  BY <1>6, <1>8 DEF BudgetInv, OneDrain

LEMMA BudgetLog ==
  ASSUME DispatchInv, BudgetInv, NEW d \in Drains, LogAttempt(d)
  PROVE  BudgetInv'
<1>1. UNCHANGED <<outbox, page, attempt, wire, crashes>> /\ pc[d] = "log"
  BY DEF LogAttempt
<1>2. \A e \in Drains : pc'[e] \in {"log", "mark"} <=> pc[e] \in {"log", "mark"}
  BY <1>1 DEF LogAttempt, DispatchInv, TypeOK, DrainsType
<1>3. \A e \in Drains : LonePage(e)'
  BY <1>1, <1>2 DEF BudgetInv, LonePage
<1>4. \A m \in Messages : InHand(m)' <=> InHand(m)
  BY <1>1, <1>2 DEF InHand
<1>5. \A m \in Messages : BudgetRow(m)'
  BY <1>1, <1>4 DEF BudgetInv, BudgetRow, Stored, wire
<1> QED
  BY <1>3, <1>5 DEF BudgetInv

LEMMA BudgetMark ==
  ASSUME DispatchInv, BudgetInv, OneDrain, NEW d \in Drains, MarkRow(d)
  PROVE  BudgetInv'
<1> DEFINE m == Head(page[d]).msg
           a == attempt[d]
<1>1. /\ page[d] \in Seq(DueRow) /\ page[d] # <<>> /\ m \in Messages
      /\ 1 \in DOMAIN page[d] /\ Head(page[d]) = page[d][1]
  <2>1. page[d] # <<>>
    BY DEF MarkRow, DispatchInv, DrainInv
  <2> QED
    BY <2>1, RowInHand, PageRows DEF DispatchInv, TypeOK
<1>2. /\ pc[d] = "mark" /\ UNCHANGED <<sends, crashes>>
      /\ outbox' = [outbox EXCEPT ![m] = Marked(outbox[m], a)]
  BY DEF MarkRow, wire
<1>3. /\ Stored(m) /\ outbox[m] \in Row /\ a \in Attempt
      /\ outbox[m].status = "pending" /\ a.no = outbox[m].count + 1
      /\ a.outcome = "retrying" => a.no < MaxAttempts
  BY <1>1, <1>2, StoredRow
  DEF BudgetInv, LonePage, DispatchInv, DrainInv, TypeOK, DrainsType
<1>4. /\ outbox'[m] = Marked(outbox[m], a) /\ outbox'[m] \in Row
      /\ outbox'[m].count = a.no
      /\ outbox'[m].status = "pending" => a.no < MaxAttempts
      /\ \A x \in Messages \ {m} : outbox'[x] = outbox[x]
  BY <1>1, <1>2, <1>3, MarkedRow DEF DispatchInv, TypeOK, TablesType, Attempt, Outcomes
<1>5. \A x \in Messages : ~InHand(x)' /\ (InHand(x) <=> x = m)
  <2>1. pc'[d] \in {"send", "idle"}
    BY DEF MarkRow, DispatchInv, TypeOK, DrainsType
  <2> QED
    BY <1>2, <2>1 DEF OneDrain, InHand
<1>6. LonePage(d)'
  <2>1. pc'[d] \in {"idle", "send"}
    BY DEF MarkRow, DispatchInv, TypeOK, DrainsType
  <2>2. CASE page'[d] = <<>>
    BY <2>1, <2>2 DEF LonePage
  <2>3. CASE page'[d] = Tail(page[d]) /\ Len(page[d]) > 1
    <3>1. \A i \in DOMAIN page'[d] : /\ i \in Nat /\ i + 1 \in DOMAIN page[d] /\ i + 1 # 1
                                     /\ page'[d][i] = page[d][i + 1]
      BY <1>1, <2>3, HeadTailProperties
    <3>2. /\ \A i, j \in DOMAIN page[d] : page[d][i].msg = page[d][j].msg => i = j
          /\ \A i \in DOMAIN page[d] : /\ outbox[page[d][i].msg].status = "pending"
                                       /\ outbox[page[d][i].msg].count = page[d][i].count
      BY DEF BudgetInv, LonePage
    <3>3. \A i, j \in DOMAIN page'[d] : page'[d][i].msg = page'[d][j].msg => i = j
      BY <3>1, <3>2
    <3>4. \A i \in DOMAIN page'[d] : page'[d][i].msg \in Messages \ {m}
      BY <1>1, <3>1, <3>2, PageRows DEF DispatchInv, TypeOK
    <3>5. \A i \in DOMAIN page'[d] : /\ outbox'[page'[d][i].msg].status = "pending"
                                     /\ outbox'[page'[d][i].msg].count = page'[d][i].count
      BY <1>4, <3>1, <3>2, <3>4
    <3> QED
      BY <2>1, <3>3, <3>5 DEF LonePage
  <2> QED
    BY <2>2, <2>3 DEF MarkRow, DispatchInv, TypeOK, DrainsType
<1>7. \A x \in Messages : BudgetRow(x)'
  <2> SUFFICES ASSUME NEW x \in Messages PROVE BudgetRow(x)'
    OBVIOUS
  <2>1. BudgetRow(x) /\ sends[x] \in Nat /\ crashes \in Nat
    BY DispatchAssumption DEF BudgetInv, DispatchInv, TypeOK, WireType
  <2>2. CASE x # m
    <3>1. outbox'[x] = outbox[x] /\ ~InHand(x) /\ ~InHand(x)'
      BY <1>4, <1>5, <2>2
    <3> QED
      BY <1>2, <2>1, <3>1 DEF BudgetRow, Stored
  <2>3. CASE x = m
    <3>1. /\ sends[x] <= outbox[x].count + crashes + 1 /\ outbox[x].count \in Nat
          /\ outbox[x].count < MaxAttempts
      BY <1>3, <1>5, <2>1, <2>3 DEF BudgetRow, Row
    <3>2. Stored(x)' /\ ~InHand(x)'
      BY <1>4, <1>5, <2>3 DEF Stored, Row, NoRow
    <3>3. outbox'[x].count = outbox[x].count + 1 /\ sends' = sends /\ crashes' = crashes
      BY <1>2, <1>3, <1>4, <2>3
    <3>4. outbox'[x].count <= MaxAttempts /\ sends[x] <= outbox'[x].count + crashes
      BY <2>1, <3>1, <3>3, DispatchAssumption
    <3>5. outbox'[x].status = "pending" => outbox'[x].count < MaxAttempts
      BY <1>4, <2>3
    <3>6. sends'[x] <= outbox'[x].count + crashes' + 0
      BY <2>1, <3>1, <3>3, <3>4
    <3> QED
      BY <3>2, <3>4, <3>5, <3>6 DEF BudgetRow
  <2> QED
    BY <2>2, <2>3
<1> QED
  BY <1>6, <1>7 DEF BudgetInv, OneDrain

LEMMA BudgetCrash ==
  ASSUME DispatchInv, BudgetInv, OneDrain, NEW d \in Drains, DrainCrash(d)
  PROVE  BudgetInv'
<1>1. UNCHANGED <<outbox, sends>> /\ crashes' = crashes + 1
  BY DEF DrainCrash, tables, wire
<1>2. pc'[d] = "idle" /\ page'[d] = <<>>
  BY DEF DrainCrash, DispatchInv, TypeOK, DrainsType
<1>3. LonePage(d)' /\ \A m \in Messages : ~InHand(m)'
  BY <1>2 DEF LonePage, InHand, OneDrain
<1>4. \A m \in Messages : BudgetRow(m)'
  <2> SUFFICES ASSUME NEW m \in Messages PROVE BudgetRow(m)'
    OBVIOUS
  <2>1. BudgetRow(m) /\ sends[m] \in Nat /\ crashes \in Nat /\ (Stored(m)' <=> Stored(m))
    BY <1>1, DispatchAssumption DEF BudgetInv, DispatchInv, TypeOK, WireType, Stored
  <2>2. Stored(m) => outbox[m].count \in Nat
    BY StoredRow DEF DispatchInv, TypeOK, Row
  <2> QED
    BY <1>1, <1>3, <2>1, <2>2 DEF BudgetRow
<1> QED
  BY <1>3, <1>4 DEF BudgetInv, OneDrain

LEMMA BudgetStep ==
  ASSUME DispatchInv, BudgetInv, OneDrain, [Next]_vars
  PROVE  BudgetInv'
BY BudgetDispatching, BudgetSelect, BudgetSend, BudgetLog, BudgetMark, BudgetCrash DEF Next, DrainStep

\* Every request is paid for: counted in its row, in flight, or charged to a crash.
LEMMA BudgetBound ==
  ASSUME DispatchInv, BudgetInv
  PROVE  BudgetUpToCrashes
<1> SUFFICES ASSUME NEW m \in Messages PROVE sends[m] <= MaxAttempts + crashes
  BY DEF BudgetUpToCrashes
<1>1. BudgetRow(m) /\ sends[m] \in Nat /\ crashes \in Nat
  BY DispatchAssumption DEF BudgetInv, DispatchInv, TypeOK, WireType
<1>2. CASE ~Stored(m)
  BY <1>1, <1>2, DispatchAssumption DEF BudgetRow
<1>3. CASE Stored(m) /\ ~InHand(m)
  BY <1>1, <1>3, StoredRow, DispatchAssumption DEF BudgetRow, DispatchInv, TypeOK, Row
<1>4. CASE Stored(m) /\ InHand(m)
  <2>1. PICK d \in Drains : pc[d] \in {"log", "mark"} /\ Head(page[d]).msg = m
    BY <1>4 DEF InHand
  <2>2. page[d] # <<>>
    BY <2>1 DEF DispatchInv, DrainInv
  <2>3. outbox[m].status = "pending"
    BY <2>1, <2>2, RowInHand DEF BudgetInv, LonePage, DispatchInv, TypeOK
  <2>4. outbox[m].count \in Nat /\ outbox[m].count < MaxAttempts
    BY <1>1, <1>4, <2>3, StoredRow DEF BudgetRow, DispatchInv, TypeOK, Row
  <2> QED
    BY <1>1, <1>4, <2>4, DispatchAssumption DEF BudgetRow
<1> QED
  BY <1>2, <1>3, <1>4

\* Where one drain runs at a time, however many messages are due and wherever it
\* is cut short, no event is sent more than MaxAttempts times plus once per crash.
THEOREM LoneDrainKeepsBudget == OneDrain => (Spec => []BudgetUpToCrashes)
<1> SUFFICES ASSUME OneDrain PROVE Spec => []BudgetUpToCrashes
  OBVIOUS
<1>1. DispatchInv /\ BudgetInv /\ [Next]_vars => BudgetInv'
  BY BudgetStep
<1>2. DispatchInv /\ BudgetInv => BudgetUpToCrashes
  BY BudgetBound
<1> QED
  BY BudgetInit, DispatchInvariant, <1>1, <1>2, PTL DEF Spec

-----------------------------------------------------------------------------
(* Transitions of a row, and the refinement                                *)

\* Each step of the implementation is one of these changes to the tables.
LEMMA RowSteps ==
  ASSUME DispatchInv, Next
  PROVE  \/ /\ UNCHANGED wire
            /\ \/ UNCHANGED outbox
               \/ \E m \in Messages, r \in Row :
                    /\ ~Stored(m) /\ r.status = "pending"
                    /\ outbox' = [outbox EXCEPT ![m] = r]
               \/ \E d \in Drains : MarkRow(d)
         \/ UNCHANGED outbox /\ \E d \in Drains : Send(d)
<1>1. ASSUME NEW c \in Callers, DispatchInsert(c)
      PROVE  \/ UNCHANGED outbox
             \/ \E m \in Messages, r \in Row :
                  /\ ~Stored(m) /\ r.status = "pending"
                  /\ outbox' = [outbox EXCEPT ![m] = r]
  <2>1. caller[c] \in Call /\ clock \in 0..Horizon
    BY <1>1, CallInProgress DEF DispatchInsert, NotCalling, DispatchInv, TypeOK
  <2>2. [ep |-> caller[c].ep, key |-> caller[c].key, count |-> 0,
         next |-> clock, status |-> "pending"] \in Row
    BY <2>1 DEF Row, Call
  <2> QED
    BY <1>1, <2>2 DEF DispatchInsert
<1>2. ASSUME NEW c \in Callers, DispatchInsert(c) PROVE UNCHANGED wire
  BY <1>2 DEF DispatchInsert
<1> QED
  BY <1>1, <1>2
  DEF Next, Dispatching, RegisterEndpoint, DispatchBegin, DispatchLookup, DispatchAbort,
      DrainStep, SelectDue, Send, LogAttempt, MarkRow, DrainCrash, Tick, tables

\* A drain that marks a row marks the one in hand.
LEMMA MarkStep ==
  ASSUME DispatchInv, NEW d \in Drains, MarkRow(d)
  PROVE  \E m \in Messages :
           /\ outbox[m] \in Row
           /\ outbox' = [outbox EXCEPT ![m] = Marked(outbox[m], attempt[d])]
           /\ attempt[d] \in Attempt
           /\ attempt[d].outcome = "delivered" => m \in taken
           /\ attempt[d].outcome = "dead" => m \in refused \/ sends[m] >= MaxAttempts
<1> DEFINE m == Head(page[d]).msg
<1>1. page[d] # <<>>
  BY DEF MarkRow, DispatchInv, DrainInv
<1>2. m \in Messages /\ 1 \in DOMAIN page[d] /\ Head(page[d]) = page[d][1]
  BY <1>1, RowInHand DEF DispatchInv, TypeOK
<1>3. outbox[m] \in Row /\ attempt[d] \in Attempt /\ sends[m] \in Nat
  BY <1>2, StoredRow DEF DispatchInv, DrainInv, TypeOK, DrainsType, WireType
<1>4. /\ attempt[d].no \in 1..sends[m]
      /\ attempt[d].outcome = "delivered" => m \in taken
      /\ attempt[d].outcome = "dead" => m \in refused \/ attempt[d].no >= MaxAttempts
  BY DEF MarkRow, DispatchInv, DrainInv
<1>5. outbox' = [outbox EXCEPT ![m] = Marked(outbox[m], attempt[d])]
  BY DEF MarkRow
<1>6. attempt[d].no >= MaxAttempts => sends[m] >= MaxAttempts
  BY <1>3, <1>4, DispatchAssumption
<1> QED
  BY <1>2, <1>3, <1>4, <1>5, <1>6

\* A settled row is never touched again, by any drain however late.
THEOREM SettledRowsAreFinal == Spec => SettledForGood
<1>1. ASSUME DispatchInv, [Next]_vars
      PROVE  \A m \in Messages : Terminal(m) => outbox'[m] = outbox[m]
  <2> SUFFICES ASSUME NEW m \in Messages, Terminal(m) PROVE outbox'[m] = outbox[m]
    OBVIOUS
  <2>1. Stored(m) /\ outbox[m].status # "pending"
    BY DEF Terminal, Stored, NoRow
  <2>2. outbox \in [Messages -> Row \cup {NoRow}]
    BY <1>1 DEF DispatchInv, TypeOK, TablesType
  <2>3. CASE UNCHANGED outbox
    BY <2>3
  <2>4. CASE \E x \in Messages, r \in Row : ~Stored(x) /\ outbox' = [outbox EXCEPT ![x] = r]
    BY <2>1, <2>2, <2>4
  <2>5. ASSUME NEW d \in Drains, MarkRow(d) PROVE outbox'[m] = outbox[m]
    BY <1>1, <2>1, <2>2, <2>5, MarkStep, MarkedRow
  <2>6. UNCHANGED vars => UNCHANGED outbox
    BY DEF vars, tables
  <2> QED
    BY <1>1, <2>3, <2>4, <2>5, <2>6, RowSteps
<1> QED
  BY <1>1, DispatchInvariant, PTL DEF Spec, SettledForGood

LEMMA PromiseInit == Init => Promise!Init
BY DEF Init, Promise!Init, NoRow

LEMMA PromiseStep ==
  ASSUME DispatchInv, [Next]_vars
  PROVE  [Promise!Next]_(Promise!vars)
<1> DEFINE st == [m \in Messages |-> outbox[m].status]
<1>1. outbox \in [Messages -> Row \cup {NoRow}] /\ sends \in [Messages -> Nat]
  BY DEF DispatchInv, TypeOK, TablesType, WireType
<1>2. CASE UNCHANGED <<outbox, wire>>
  BY <1>2 DEF Promise!vars, wire
<1>3. ASSUME NEW m \in Messages, NEW r \in Row, ~Stored(m), r.status = "pending",
             outbox' = [outbox EXCEPT ![m] = r], UNCHANGED wire
      PROVE  Promise!Accept(m)
  <2>1. outbox[m].status = "none"
    BY <1>3 DEF Stored, NoRow
  <2>2. st' = [st EXCEPT ![m] = "pending"]
    BY <1>1, <1>3
  <2> QED
    BY <1>3, <2>1, <2>2 DEF Promise!Accept, wire
<1>4. ASSUME NEW d \in Drains, MarkRow(d)
      PROVE  [Promise!Next]_(Promise!vars)
  <2>1. UNCHANGED wire
    BY <1>4 DEF MarkRow
  <2>2. PICK m \in Messages :
           /\ outbox[m] \in Row
           /\ outbox' = [outbox EXCEPT ![m] = Marked(outbox[m], attempt[d])]
           /\ attempt[d] \in Attempt
           /\ attempt[d].outcome = "delivered" => m \in taken
           /\ attempt[d].outcome = "dead" => m \in refused \/ sends[m] >= MaxAttempts
    BY <1>4, MarkStep
  <2>3. st' = [st EXCEPT ![m] = Marked(outbox[m], attempt[d]).status]
    BY <1>1, <2>2
  <2>4. attempt[d].outcome \in Outcomes
    BY <2>2 DEF Attempt
  <2>5. CASE outbox[m].status # "pending" \/ attempt[d].outcome = "retrying"
    <3>1. st' = st
      BY <2>2, <2>3, <2>5, MarkedRow
    <3> QED
      BY <2>1, <3>1 DEF Promise!vars, wire
  <2>6. CASE outbox[m].status = "pending" /\ attempt[d].outcome = "delivered"
    <3>1. Promise!Deliver(m)
      BY <2>1, <2>2, <2>3, <2>6, MarkedRow DEF Promise!Deliver, wire
    <3> QED
      BY <3>1 DEF Promise!Next
  <2>7. CASE outbox[m].status = "pending" /\ attempt[d].outcome = "dead"
    <3>1. Promise!DeadLetter(m)
      BY <2>1, <2>2, <2>3, <2>7, MarkedRow DEF Promise!DeadLetter, wire
    <3> QED
      BY <3>1 DEF Promise!Next
  <2> QED
    BY <2>4, <2>5, <2>6, <2>7 DEF Outcomes
<1>5. ASSUME NEW d \in Drains, Send(d), UNCHANGED outbox
      PROVE  \E m \in Messages : Promise!Try(m)
  <2> DEFINE m == Head(page[d]).msg
  <2>1. page[d] # <<>>
    BY <1>5 DEF Send, DispatchInv, DrainInv
  <2>2. m \in Messages /\ 1 \in DOMAIN page[d] /\ Head(page[d]) = page[d][1]
    BY <2>1, RowInHand DEF DispatchInv, TypeOK
  <2>3. outbox[m].status # "none"
    BY <2>2, StoredRow DEF DispatchInv, DrainInv, TypeOK
  <2>4. /\ sends' = [sends EXCEPT ![m] = @ + 1]
        /\ \/ taken' = taken \cup {m} /\ refused' = refused
           \/ refused' = refused \cup {m} /\ taken' = taken
           \/ UNCHANGED <<taken, refused>>
    BY <1>5 DEF Send
  <2>5. st[m] # "none" /\ st' = st
    BY <1>5, <2>2, <2>3
  <2>6. Promise!Try(m)
    BY <2>4, <2>5 DEF Promise!Try
  <2> QED
    BY <2>2, <2>6
<1>6. CASE Next
  BY <1>2, <1>3, <1>4, <1>5, <1>6, RowSteps DEF Promise!Next
<1>7. UNCHANGED vars => UNCHANGED <<outbox, wire>>
  BY DEF vars, tables
<1> QED
  BY <1>2, <1>6, <1>7

\* deliverDue and dispatch, statement by statement and with any number of
\* drains, implement the promise: accepted once, offered at least once, ended in
\* one place for a true reason.
THEOREM KeepsThePromise == Spec => PromiseSpec
<1>1. DispatchInv /\ [Next]_vars => [Promise!Next]_(Promise!vars)
  BY PromiseStep
<1> QED
  BY <1>1, PromiseInit, DispatchInvariant, PTL DEF Spec, PromiseSpec, Promise!Spec

=============================================================================
