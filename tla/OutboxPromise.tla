--------------------------- MODULE OutboxPromise ---------------------------
(***************************************************************************)
(* What webhooks.dispatch promises the application that hands it an event: *)
(* the event is queued once, it is offered to the endpoint at least once,  *)
(* and it ends in exactly one of two places.  It ends "delivered" only if  *)
(* the endpoint has taken it, and "dead" only if the endpoint has refused  *)
(* it for good or the attempt budget is used up.  How many drains work on  *)
(* the outbox, in which statements and with which crashes, is left out.    *)
(***************************************************************************)
EXTENDS Naturals

CONSTANTS
  Messages,      \* ids an outbox row can have
  MaxAttempts    \* attempts after which a transient failure is final

VARIABLES
  state,         \* state[m]: "none", "pending", "delivered" or "dead"
  tries,         \* tries[m]: how often m was offered to its endpoint
  taken,         \* messages the endpoint has taken
  refused        \* messages the endpoint has refused for good (a 4xx)

vars == <<state, tries, taken, refused>>

Init ==
  /\ state = [m \in Messages |-> "none"]
  /\ tries = [m \in Messages |-> 0]
  /\ taken = {}
  /\ refused = {}

Accept(m) ==
  /\ state[m] = "none"
  /\ state' = [state EXCEPT ![m] = "pending"]
  /\ UNCHANGED <<tries, taken, refused>>

\* A message may be offered again after it was settled: at least once.
Try(m) ==
  /\ state[m] # "none"
  /\ tries' = [tries EXCEPT ![m] = @ + 1]
  /\ \/ taken' = taken \cup {m} /\ refused' = refused
     \/ refused' = refused \cup {m} /\ taken' = taken
     \/ UNCHANGED <<taken, refused>>
  /\ UNCHANGED state

Deliver(m) ==
  /\ state[m] = "pending"
  /\ m \in taken
  /\ state' = [state EXCEPT ![m] = "delivered"]
  /\ UNCHANGED <<tries, taken, refused>>

DeadLetter(m) ==
  /\ state[m] = "pending"
  /\ m \in refused \/ tries[m] >= MaxAttempts
  /\ state' = [state EXCEPT ![m] = "dead"]
  /\ UNCHANGED <<tries, taken, refused>>

Next == \E m \in Messages : Accept(m) \/ Try(m) \/ Deliver(m) \/ DeadLetter(m)

Settled(m) == state[m] \in {"delivered", "dead"}

\* Every queued message is settled in the end.
Progress == \A m \in Messages : (state[m] = "pending") ~> Settled(m)

Spec == Init /\ [][Next]_vars
FairSpec == Spec /\ Progress
=============================================================================
