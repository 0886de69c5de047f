---------------------------- MODULE WebhookIngest ---------------------------
(***************************************************************************)
(* webhooks.ingest: what verifyWebhook accepts (part/src/index.ts with     *)
(* internal/crypto.ts and replay.ts).                                      *)
(*                                                                         *)
(* A delivery is an event and the timestamp signed with it, and that pair  *)
(* stands for the signature, the key of the replay cache: the same bytes   *)
(* have the same one.  Time is relative: the age of the timestamp, below   *)
(* zero when the vendor's clock is ahead, and what is left of an entry's   *)
(* life.  Deliveries older than the tolerance differ no more.  Authentic   *)
(* ones alone are modelled: parsing and the comparison of signatures       *)
(* decide without a state.                                                 *)
(***************************************************************************)
EXTENDS Integers, Sequences, FiniteSets

CONSTANTS
  Events,      \* what the vendor has to deliver
  Tolerance,   \* WEBHOOK_TOLERANCE_SECONDS
  MaxEntries   \* MAX_ENTRIES

ASSUME IngestAssumption == Tolerance \in Nat \ {0} /\ MaxEntries \in Nat \ {0}

VARIABLES
  seen,        \* the Map of signatures, in the order they were inserted
  taken        \* deliveries accepted within the last Tolerance seconds (history)

ingest == <<seen, taken>>

Ages == -Tolerance..Tolerance + 1
Deliveries == [event : Events, age : Ages]
Older(d) == [d EXCEPT !.age = IF @ > Tolerance THEN @ ELSE @ + 1]

IngestInit == seen = <<>> /\ taken = {}

\* assertWithinWindow.
WithinWindow(d) == d.age \in -Tolerance..Tolerance

Where(d) == {i \in 1..Len(seen) : seen[i].delivery = d}

LiveLate(entry) == entry.ttl > 1                     \* mutant: forgotten a second early
Live(entry) == entry.ttl > 0
Replayed(d) == \E i \in Where(d) : Live(seen[i])

\* A key that ran out is written over where it stands.
Entered(d) ==
  LET entry == [delivery |-> d, ttl |-> Tolerance]
  IN  IF Where(d) = {} THEN Append(seen, entry)
      ELSE [i \in 1..Len(seen) |-> IF i \in Where(d) THEN entry ELSE seen[i]]

Without(s, i) == SubSeq(s, 1, i - 1) \o SubSeq(s, i + 1, Len(s))
Dead(s) == {i \in 1..Len(s) : ~Live(s[i])}

\* One over the cap: an expired entry goes, or else the oldest.
Shed(s) ==
  IF Len(s) <= MaxEntries THEN s
  ELSE Without(s, IF Dead(s) = {} THEN 1 ELSE CHOOSE i \in Dead(s) : \A j \in Dead(s) : i <= j)

Holds(s, d) == \E i \in 1..Len(s) : s[i].delivery = d

\* Entries shed because every one was live.
Excused(s, s2) == IF Dead(s) # {} THEN {} ELSE {d \in Deliveries : Holds(s, d) /\ ~Holds(s2, d)}

\* assertNotReplayed of a delivery that is not refused.
Remember(d) ==
  /\ seen' = Shed(Entered(d))
  /\ taken' = {t \in taken : t.delivery # d /\ t.delivery \notin Excused(Entered(d), seen')}
              \cup {[delivery |-> d, since |-> 0, twice |-> \E t \in taken : t.delivery = d]}

\* Seconds pass; what is out of the window is out of reach.
IngestTick ==
  /\ seen' = [i \in 1..Len(seen) |->
       [delivery |-> Older(seen[i].delivery),
        ttl |-> IF seen[i].ttl = 0 THEN 0 ELSE seen[i].ttl - 1]]
  /\ taken' = {[t EXCEPT !.delivery = Older(@), !.since = @ + 1] :
                 t \in {u \in taken : u.since + 1 < Tolerance}}

IngestRestart == seen' = <<>> /\ taken' = {}

\* The inductive invariant: what was accepted and can still be verified has an entry in the
\* cache, which lives until the tolerance of its acceptance is over.
Entry == [delivery : Deliveries, ttl : 0..Tolerance]

IngestType ==
  /\ seen \in Seq(Entry)
  /\ taken \subseteq [delivery : Deliveries, since : 0..Tolerance - 1, twice : BOOLEAN]

OneEntry(s) == \A i, j \in 1..Len(s) :
  s[i].delivery = s[j].delivery /\ WithinWindow(s[i].delivery) => i = j

Remembered(t) == WithinWindow(t.delivery) =>
  \E i \in Where(t.delivery) : seen[i].ttl + t.since >= Tolerance

IngestInv ==
  /\ IngestType
  /\ Len(seen) <= MaxEntries
  /\ OneEntry(seen)
  /\ \A t \in taken : ~t.twice /\ Remembered(t)

\* The same bytes are not accepted twice within the tolerance of the first time
\* (contract.json:60), unless the process restarted or the cache was over MAX_ENTRIES
\* with live entries alone.
TakenOnce == \A t \in taken : ~t.twice
=============================================================================
