----------------------------- MODULE IngestRoute ----------------------------
(***************************************************************************)
(* One server process of an app that mounts webhookHandler of              *)
(* webhooks.ingest under /api, where the middleware of ratelimit.api       *)
(* counts every request (the two parts' examples), and the vendor that     *)
(* calls it.                                                               *)
(*                                                                         *)
(* A request is limited, verified and handed to the handlers one after the *)
(* other, with an await between any two; requests interleave.  The vendor  *)
(* signs every attempt afresh and goes on until it is answered 2xx.  The   *)
(* network may repeat a delivery byte by byte.  The limiter, the replay    *)
(* cache and the requests under way are gone when the process is.          *)
(***************************************************************************)
EXTENDS RateLimitApi, WebhookIngest

CONSTANTS
  Vendor,      \* the client the vendor's requests come from
  Requests,    \* requests under way at once
  Handlers,    \* how many handlers onWebhook registered
  NoDelivery,  \* of a request that is none
  Ahead,       \* how far the vendor's clock may be ahead
  MaxRepeats,  \* bound: deliveries the network repeats
  MaxFaults    \* bound: handlers that fail, answers that are lost, restarts

\* Without a handler every request is answered 500 at once.
ASSUME RouteAssumption == Vendor \in Clients /\ Handlers \in Nat \ {0} /\ Ahead \in Nat

VARIABLES
  req,         \* the requests under way
  held,        \* a delivery the network kept, to repeat it later
  done,        \* <<e, h>>: handler h has completed for event e
  acked,       \* events the vendor was answered 2xx for
  repeats, faults

route == <<req, held, done, acked, repeats, faults>>
vars == <<limiter, ingest, route>>

NoRequest == [pc |-> "idle", delivery |-> NoDelivery, next |-> 1, mine |-> FALSE]
EventOf(r) == req[r].delivery.event
Answer(r) == req' = [req EXCEPT ![r] = NoRequest]
Acknowledge(r) == acked' = acked \cup (IF req[r].mine THEN {EventOf(r)} ELSE {})
Fault == faults < MaxFaults /\ faults' = faults + 1

Init ==
  /\ LimiterInit /\ IngestInit
  /\ req = [r \in Requests |-> NoRequest]
  /\ held = NoDelivery /\ done = {} /\ acked = {}
  /\ repeats = 0 /\ faults = 0

\* The middleware answers 429 or lets the request on to the route.
Arrive(d, mine) ==
  \E r \in Requests, ok \in BOOLEAN :
    /\ req[r].pc = "idle"
    /\ RateLimit(Vendor, ok)
    /\ req' = IF ok THEN [req EXCEPT ![r] = [pc |-> "verify", delivery |-> d,
                                             next |-> 1, mine |-> mine]]
                    ELSE req

\* The vendor signs an event and calls, unless it still waits for an answer.
Attempt(e) ==
  /\ e \notin acked
  /\ \A r \in Requests : req[r].mine => EventOf(r) # e
  /\ \E ahead \in 0..Ahead :
       LET d == [event |-> e, age |-> -ahead]
       IN  Arrive(d, TRUE) /\ held' \in {held} \cup (IF repeats < MaxRepeats THEN {d} ELSE {})
  /\ UNCHANGED <<ingest, done, acked, repeats, faults>>

Repeat ==
  /\ held # NoDelivery /\ held' = NoDelivery
  /\ repeats' = repeats + 1
  /\ Arrive(held, FALSE)
  /\ UNCHANGED <<ingest, done, acked, faults>>

\* Requests of others to the app's other routes.
Visit(k) ==
  /\ \E ok \in BOOLEAN : RateLimit(k, ok)
  /\ UNCHANGED <<ingest, route>>

\* verifyWebhook: 400, or on to the handlers.
Verify(r) ==
  LET d == req[r].delivery
  IN  /\ req[r].pc = "verify"
      /\ IF WithinWindow(d) /\ ~Replayed(d)
           THEN Remember(d) /\ req' = [req EXCEPT ![r].pc = "handle"]
           ELSE Answer(r) /\ UNCHANGED ingest
      /\ UNCHANGED <<limiter, held, done, acked, repeats, faults>>

\* The next handler completes.  The last one is followed by the 200, which may be lost.
Handle(r) ==
  /\ req[r].pc = "handle"
  /\ done' = done \cup {<<EventOf(r), req[r].next>>}
  /\ IF req[r].next < Handlers
       THEN req' = [req EXCEPT ![r].next = @ + 1] /\ UNCHANGED <<acked, faults>>
       ELSE /\ Answer(r)
            /\ \/ Acknowledge(r) /\ UNCHANGED faults
               \/ UNCHANGED acked /\ Fault
  /\ UNCHANGED <<limiter, ingest, held, repeats>>

HandlerSwallowed(r) ==              \* mutant: a failed handler does not end the loop
  /\ req[r].pc = "handle" /\ Fault
  /\ IF req[r].next < Handlers
       THEN req' = [req EXCEPT ![r].next = @ + 1] /\ UNCHANGED acked
       ELSE Answer(r) /\ Acknowledge(r)
  /\ UNCHANGED <<limiter, ingest, held, done, repeats>>

\* A handler throws: 500, and the handlers after it do not run.
HandlerFails(r) ==
  /\ req[r].pc = "handle" /\ Fault
  /\ Answer(r)
  /\ UNCHANGED <<limiter, ingest, held, done, acked, repeats>>

\* The process is replaced; the vendor's requests under way fail.
Restart ==
  /\ Fault
  /\ LimiterRestart /\ IngestRestart
  /\ req' = [r \in Requests |-> NoRequest]
  /\ UNCHANGED <<held, done, acked, repeats>>

\* A second passes.  The body of a fresh request is read before the tolerance is over.
Tick ==
  /\ \A r \in Requests : req[r].pc = "verify" => req[r].delivery.age < Tolerance
  /\ LimiterTick /\ IngestTick
  /\ req' = [r \in Requests |->
       IF req[r].pc = "idle" THEN req[r] ELSE [req[r] EXCEPT !.delivery = Older(@)]]
  /\ held' = IF held = NoDelivery THEN held ELSE Older(held)
  /\ UNCHANGED <<done, acked, repeats, faults>>

Serve(r) == Verify(r) \/ Handle(r)
Next ==
  \/ \E e \in Events : Attempt(e)
  \/ Repeat
  \/ \E k \in Clients \ {Vendor} : Visit(k)
  \/ \E r \in Requests : Serve(r) \/ HandlerFails(r)
  \/ Restart
  \/ Tick

Spec == Init /\ [][Next]_vars

\* The clock and the process run on, and the vendor keeps trying what was not acknowledged.
FairSpec ==
  /\ Spec
  /\ WF_vars(Tick)
  /\ \A r \in Requests : WF_vars(Serve(r))
  /\ \A e \in Events : SF_vars(Attempt(e))
-----------------------------------------------------------------------------
(* What must hold                                                          *)

\* What the vendor was answered 2xx for every handler has completed (contract.json:63).
AckedIsHandled == \A e \in acked, h \in 1..Handlers : <<e, h>> \in done

\* The inductive invariant: the handlers a request has passed have completed for its event.
Signed == [event : Events, age : Int]
Underway == [pc : {"verify", "handle"}, delivery : Signed, next : 1..Handlers, mine : BOOLEAN]

RouteType ==
  /\ req \in [Requests -> {NoRequest} \cup Underway]
  /\ held \in {NoDelivery} \cup Signed
  /\ acked \subseteq Events

Passed(r) ==
  /\ req[r].pc = "verify" => req[r].next = 1
  /\ req[r].pc = "handle" => \A h \in 1..req[r].next - 1 : <<EventOf(r), h>> \in done

RouteInv ==
  /\ RouteType
  /\ \A r \in Requests : Passed(r)
  /\ AckedIsHandled

\* Every event is acknowledged in the end, whatever failures, restarts, repeated deliveries
\* and other clients' traffic come between: a refused attempt, 429, 400 or 500, costs the
\* vendor no later one, for it is signed afresh (replay.ts:10-11, contract.json:30 of
\* ratelimit.api).
EventsGetThrough == \A e \in Events : <>(e \in acked)
=============================================================================
