------------------------------ MODULE ApiKeys ------------------------------
(***************************************************************************)
(* API keys, part auth.apikey 1.0.0                                        *)
(* (registry/parts/auth.apikey/1.0.0/part/src/internal/store.ts and        *)
(* sql.ts, with the table of its migration 001).                           *)
(*                                                                         *)
(* A step is a SQL statement.  verifyKey reads the row and answers later;  *)
(* rotateKey reads it, inserts the successor and then retires the old key, *)
(* under no lock and with no condition on what it had read.  Secrets,      *)
(* owners, names and scopes decide nothing here; last_used_at, which only  *)
(* listings show, is left out.  The process's and the database's clock are *)
(* one.                                                                    *)
(***************************************************************************)
EXTENDS Naturals

CONSTANTS
  Keys,        \* prefixes generateKey can return, each at most once
  Callers,     \* operations under way
  Graces,      \* values of graceSeconds
  Expiries,    \* values of expiresAt
  NoKey,
  Horizon      \* bound on the clock

Never == Horizon + 1       \* an instant the clock does not reach, or null

ASSUME KeysAssumption ==
  /\ NoKey \notin Keys
  /\ Horizon \in Nat
  /\ Graces \subseteq Nat
  /\ Expiries \subseteq 0..Never

VARIABLES
  keys,        \* table auth_apikey_keys
  parent,      \* the key each was rotated from (history)
  work,        \* work[c]: where an operation stands and what it read
  clock,
  refused,     \* keys verifyKey has refused as revoked or expired (history)
  relapsed,    \* keys it granted in a verification begun after that (history)
  raced,       \* keys of which two rotations were under way together (history)
  halved       \* keys of which a rotation ended after its insert (history)

keyVars == <<keys, parent, work, clock, refused, relapsed, raced, halved>>

\* The three statuses of a row: expires_at, revoked_at, and rotated_at with grace_until.
Row == [expires : 0..Never, revoked : BOOLEAN, rotated : BOOLEAN, grace : 0..Never]
NoRow == [expires |-> "none"]
Fresh(e) == [expires |-> e, revoked |-> FALSE, rotated |-> FALSE, grace |-> Never]

Stored(k) == keys[k] # NoRow
Rotated(k) == keys[k].rotated
Rotating(c) == work[c].pc \in {"insert", "retire"}

AtRest == [pc |-> "idle", key |-> NoKey, row |-> NoRow, grace |-> 0, late |-> FALSE]
Busy(pc, k, g, late) == [pc |-> pc, key |-> k, row |-> keys[k], grace |-> g, late |-> late]

KeysInit ==
  /\ keys = [k \in Keys |-> NoRow]
  /\ parent = [k \in Keys |-> NoKey]
  /\ work = [c \in Callers |-> AtRest]
  /\ clock = 0
  /\ refused = {} /\ relapsed = {} /\ raced = {} /\ halved = {}

-----------------------------------------------------------------------------
(* issueKey and revokeKey: one statement each                              *)

Issue(k, e) ==
  /\ ~Stored(k)
  /\ keys' = [keys EXCEPT ![k] = Fresh(e)]
  /\ UNCHANGED <<parent, work, clock, refused, relapsed, raced, halved>>

Revoke(k) ==
  /\ Stored(k)
  /\ keys' = [keys EXCEPT ![k].revoked = TRUE]
  /\ UNCHANGED <<parent, work, clock, refused, relapsed, raced, halved>>

-----------------------------------------------------------------------------
(* verifyKey, by a caller who holds the secret                             *)

VerifyLoad(c, k) ==
  /\ work[c].pc = "idle" /\ Stored(k)
  /\ work' = [work EXCEPT ![c] = Busy("verify", k, 0, k \in refused)]
  /\ UNCHANGED <<keys, parent, clock, refused, relapsed, raced, halved>>

Verdict(row) ==
  IF row.revoked THEN "revoked"
  ELSE IF clock >= row.grace \/ clock >= row.expires THEN "expired" ELSE "granted"

VerifyAnswer(c) ==
  /\ work[c].pc = "verify"
  /\ LET granted == Verdict(work[c].row) = "granted"
         k == work[c].key
     IN  /\ refused' = IF granted THEN refused ELSE refused \cup {k}
         /\ relapsed' = IF granted /\ work[c].late THEN relapsed \cup {k} ELSE relapsed
  /\ work' = [work EXCEPT ![c] = AtRest]
  /\ UNCHANGED <<keys, parent, clock, raced, halved>>

-----------------------------------------------------------------------------
(* rotateKey                                                               *)

LiveUnchecked(k) == ~keys[k].revoked    \* mutant: rotated_at is not looked at
Live(k) == ~Rotated(k) /\ ~keys[k].revoked

RotateLoad(c, k, g) ==
  /\ work[c].pc = "idle" /\ Stored(k) /\ Live(k)
  /\ work' = [work EXCEPT ![c] = Busy("insert", k, g, FALSE)]
  /\ raced' = IF \E d \in Callers : Rotating(d) /\ work[d].key = k
                THEN raced \cup {k} ELSE raced
  /\ UNCHANGED <<keys, parent, clock, refused, relapsed, halved>>

Later(g) == IF clock + g < Never THEN clock + g ELSE Never

\* UPDATE ... WHERE prefix = $1
Retired(c) ==
  [keys EXCEPT ![work[c].key].rotated = TRUE, ![work[c].key].grace = Later(work[c].grace)]

RotateRetireFirst(c) ==                 \* mutant: the old key is retired first
  /\ work[c].pc = "insert"
  /\ keys' = Retired(c)
  /\ work' = [work EXCEPT ![c].pc = "retire"]
  /\ UNCHANGED <<parent, clock, refused, relapsed, raced, halved>>

\* The successor carries the expiry over.
RotateInsert(c) ==
  /\ work[c].pc = "insert"
  /\ \E n \in Keys :
       /\ ~Stored(n)
       /\ keys' = [keys EXCEPT ![n] = Fresh(work[c].row.expires)]
       /\ parent' = [parent EXCEPT ![n] = work[c].key]
  /\ work' = [work EXCEPT ![c].pc = "retire"]
  /\ UNCHANGED <<clock, refused, relapsed, raced, halved>>

RotateRetire(c) ==
  /\ work[c].pc = "retire"
  /\ keys' = Retired(c)
  /\ work' = [work EXCEPT ![c] = AtRest]
  /\ UNCHANGED <<parent, clock, refused, relapsed, raced, halved>>

\* A statement throws, or the process dies.
Break(c) ==
  /\ work[c].pc # "idle"
  /\ work' = [work EXCEPT ![c] = AtRest]
  /\ halved' = IF work[c].pc = "retire" THEN halved \cup {work[c].key} ELSE halved
  /\ UNCHANGED <<keys, parent, clock, refused, relapsed, raced>>

Tick ==
  /\ clock < Horizon
  /\ clock' = clock + 1
  /\ UNCHANGED <<keys, parent, work, refused, relapsed, raced, halved>>

Verify(c) == (\E k \in Keys : VerifyLoad(c, k)) \/ VerifyAnswer(c)
Rotate(c) ==
  (\E k \in Keys, g \in Graces : RotateLoad(c, k, g)) \/ RotateInsert(c) \/ RotateRetire(c)

KeysNext ==
  \/ \E k \in Keys : Revoke(k) \/ \E e \in Expiries : Issue(k, e)
  \/ \E c \in Callers : Verify(c) \/ Rotate(c) \/ Break(c)
  \/ Tick

KeysSpec == KeysInit /\ [][KeysNext]_keyVars

-----------------------------------------------------------------------------
(* What must hold                                                          *)

Call ==
  [pc : {"verify", "insert", "retire"}, key : Keys, row : Row, grace : Graces \cup {0},
   late : BOOLEAN]

KeysTypeOK ==
  /\ keys \in [Keys -> Row \cup {NoRow}]
  /\ parent \in [Keys -> Keys \cup {NoKey}]
  /\ work \in [Callers -> Call \cup {AtRest}]
  /\ clock \in 0..Horizon
  /\ refused \subseteq Keys /\ relapsed \subseteq Keys
  /\ raced \subseteq Keys /\ halved \subseteq Keys

\* A refusal is final (contract.json invariants 4 and 6): a key that verifyKey has
\* refused as revoked or expired passes no verification begun since, whatever rotates,
\* revokes or fails meanwhile, unless two rotations of it were under way together.
RefusalIsFinal == relapsed \subseteq raced

\* "so a failure leaves the old key fully valid, never an outage" (SPEC.md:76-77):
\* no key is on its way out before its successor is stored.
NoOutage == \A k \in Keys : Stored(k) /\ Rotated(k) => \E n \in Keys : parent[n] = k

\* A key has one successor, unless its rotations overlapped or one was cut between
\* its two statements (seams.md:105-108).
OneSuccessor ==
  \A m, n \in Keys : m # n /\ parent[m] = parent[n] /\ parent[m] # NoKey =>
    parent[m] \in raced \cup halved

-----------------------------------------------------------------------------
(* The inductive invariant                                                 *)

Dead(row) == row.revoked \/ clock >= row.grace \/ clock >= row.expires

\* A row that was read, against the row as it is: nothing has come back to life.
Older(row, now) ==
  row.expires = now.expires /\ (row.revoked => now.revoked) /\ now.grace <= row.grace

CallInv(c) ==
  /\ work[c].pc # "idle" => Stored(work[c].key)
  /\ work[c].pc = "verify" => work[c].key \in raced \/ Older(work[c].row, keys[work[c].key])
  /\ work[c].pc = "verify" /\ work[c].late => work[c].key \in raced \/ Dead(work[c].row)
  /\ Rotating(c) => work[c].key \in raced \/ ~Rotated(work[c].key)
  /\ work[c].pc = "insert" =>
       work[c].key \in raced \cup halved \/ \A n \in Keys : parent[n] # work[c].key
  /\ work[c].pc = "retire" => \E n \in Keys : parent[n] = work[c].key

\* Rotations of a key under way together are on record.
Loners ==
  \A c, d \in Callers : c # d /\ Rotating(c) /\ Rotating(d) /\ work[c].key = work[d].key =>
    work[c].key \in raced

\* A successor is a stored key, and its parent rotated or about to be.
Lineage ==
  \A n \in Keys : parent[n] # NoKey =>
    /\ Stored(n) /\ Stored(parent[n])
    /\ \/ parent[n] \in raced \cup halved
       \/ Rotated(parent[n])
       \/ \E c \in Callers : work[c].pc = "retire" /\ work[c].key = parent[n]

GraceIsOfRotation == \A k \in Keys : Stored(k) /\ ~Rotated(k) => keys[k].grace = Never

RefusedAreDead == \A k \in refused : Stored(k) /\ (k \in raced \/ Dead(keys[k]))

KeysInv ==
  /\ KeysTypeOK
  /\ \A c \in Callers : CallInv(c)
  /\ Loners
  /\ Lineage
  /\ GraceIsOfRotation
  /\ RefusedAreDead
  /\ NoOutage
  /\ OneSuccessor
  /\ RefusalIsFinal
=============================================================================
