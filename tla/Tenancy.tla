------------------------------ MODULE Tenancy ------------------------------
(***************************************************************************)
(* Organizations and memberships, part auth.tenancy 1.1.0                  *)
(* (registry/parts/auth.tenancy/1.1.0/part/src/index.ts and                *)
(* internal/sql.ts, with the tables of its migration 001).                 *)
(*                                                                         *)
(* Each operation is one SQL statement, run by Postgres under READ         *)
(* COMMITTED.  What its CTEs read is the database as it was when the       *)
(* statement began; the row it writes, and the constraints, are those of   *)
(* the moment it writes.  So a guarded operation is two steps, and other   *)
(* statements may commit between them.  Reads change nothing and are left  *)
(* out.                                                                    *)
(***************************************************************************)
CONSTANTS
  Orgs,      \* ids randomUUID can return, each at most once
  Users,     \* principals, opaque to the part
  Calls      \* connections with a statement under way

VARIABLES
  orgs,      \* table auth_tenant_organization: its ids
  used,      \* ids ever given out
  members,   \* table auth_tenant_membership: its rows
  call,      \* call[c]: the statement of c with what it read, or its answer
  overlaps   \* orgs where two statements about to demote or remove different
             \* members were under way together (history)

vars == <<orgs, used, members, call, overlaps>>

Roles == {"owner", "admin", "member"}
Member == [org : Orgs, user : Users, role : Roles]
Answered(code) == [op |-> "none", code |-> code]
Idle(c) == call[c].op = "none"

RowsOf(o, u) == {m \in members : m.org = o /\ m.user = u}
Owners(o) == {m.user : m \in {n \in members : n.org = o /\ n.role = "owner"}}

Init ==
  /\ orgs = {} /\ used = {} /\ members = {}
  /\ call = [c \in Calls |-> Answered("none")]
  /\ overlaps = {}

-----------------------------------------------------------------------------
(* createOrganization and deleteOrganization read nothing: one step each.  *)

Seed(o, u) == [org |-> o, user |-> u, role |-> "owner"]

CreateOrganization(o, u) ==
  /\ o \notin used
  /\ orgs' = orgs \cup {o}
  /\ used' = used \cup {o}
  /\ members' = members \cup {Seed(o, u)}
  /\ UNCHANGED <<call, overlaps>>

\* A statement whose row was deleted after it read it finds nothing to write,
\* even if the member was added again since: that is another row.
Losing(gone) ==
  [c \in Calls |->
     IF /\ call[c].op \in {"set", "remove"}
        /\ call[c].row = "live"
        /\ \E m \in gone : m.org = call[c].org /\ m.user = call[c].user
       THEN [call[c] EXCEPT !.row = "gone"]
       ELSE call[c]]

\* ON DELETE CASCADE
DeleteOrganization(o) ==
  /\ o \in orgs
  /\ orgs' = orgs \ {o}
  /\ members' = {m \in members : m.org # o}
  /\ call' = Losing({m \in members : m.org = o})
  /\ UNCHANGED <<used, overlaps>>

-----------------------------------------------------------------------------
(* A statement begins: it takes its snapshot and evaluates its CTEs.       *)

BeginAdd(c, o, u, r) ==
  /\ Idle(c)
  /\ call' = [call EXCEPT ![c] =
       [op |-> "add", org |-> o, user |-> u, role |-> r, orgExists |-> o \in orgs]]
  /\ UNCHANGED <<orgs, used, members, overlaps>>

SoleMember(o, u) ==                 \* mutant: owner_count counts every member
  Owners(o) # {} /\ {m.user : m \in {n \in members : n.org = o}} = {u}

\* owner_count <= 1 for a member who is an owner: there is no other one.
SoleOwner(o, u) == Owners(o) = {u}

\* A setRole that keeps or makes an owner has nothing to guard.
Drops(op, r) == op = "remove" \/ r # "owner"

\* c is going to take its member, who may be an owner by then, off the owners.
Dropping(c) ==
  /\ call[c].op \in {"set", "remove"}
  /\ Drops(call[c].op, call[c].role)
  /\ call[c].row = "live" /\ ~call[c].blocked

BeginWrite(c, op, o, u, r) ==
  /\ Idle(c)
  /\ LET live == RowsOf(o, u) # {}
         rivals == {d \in Calls : Dropping(d) /\ call[d].org = o /\ call[d].user # u}
     IN  /\ call' = [call EXCEPT ![c] =
              [op |-> op, org |-> o, user |-> u, role |-> r,
               row |-> IF live THEN "live" ELSE "none",
               blocked |-> Drops(op, r) /\ SoleOwner(o, u)]]
         /\ overlaps' = IF live /\ Drops(op, r) /\ ~SoleOwner(o, u) /\ rivals # {}
                          THEN overlaps \cup {o} ELSE overlaps
  /\ UNCHANGED <<orgs, used, members>>

-----------------------------------------------------------------------------
(* The statement writes, commits and answers.                              *)

AddCodeNoForeignKey(c) ==           \* mutant: no foreign key
  IF ~call[c].orgExists THEN "not_found"
  ELSE IF RowsOf(call[c].org, call[c].user) # {} THEN "already_member" ELSE "ok"

\* org_exists was read; the foreign key, and the primary key with ON CONFLICT DO
\* NOTHING, are checked against the tables of now.
AddCode(c) ==
  IF ~call[c].orgExists THEN "not_found"
  ELSE IF call[c].org \notin orgs THEN "storage"
  ELSE IF RowsOf(call[c].org, call[c].user) # {} THEN "already_member" ELSE "ok"

EndAdd(c) ==
  /\ call[c].op = "add"
  /\ members' = IF AddCode(c) = "ok"
                  THEN members \cup {[org |-> call[c].org, user |-> call[c].user,
                                      role |-> call[c].role]}
                  ELSE members
  /\ call' = [call EXCEPT ![c] = Answered(AddCode(c))]
  /\ UNCHANGED <<orgs, used, overlaps>>

CodeOfUpsert(c) ==                  \* mutant: INSERT ... ON CONFLICT DO UPDATE
  IF call[c].row = "none" THEN "not_a_member"
  ELSE IF ~call[c].blocked /\ call[c].org \in orgs THEN "ok" ELSE "last_owner"

\* existed = 0 is not_a_member; existed = 1 with no row written is last_owner.
Code(c) == IF call[c].row = "none" THEN "not_a_member"
           ELSE IF call[c].row = "live" /\ ~call[c].blocked THEN "ok" ELSE "last_owner"

EndSetRole(c) ==
  /\ call[c].op = "set"
  /\ LET o == call[c].org  u == call[c].user
     IN  members' = IF Code(c) = "ok"
                      THEN (members \ RowsOf(o, u)) \cup
                             {[org |-> o, user |-> u, role |-> call[c].role]}
                      ELSE members
  /\ call' = [call EXCEPT ![c] = Answered(Code(c))]
  /\ UNCHANGED <<orgs, used, overlaps>>

EndRemoveMember(c) ==
  /\ call[c].op = "remove"
  /\ LET rows == IF Code(c) = "ok" THEN RowsOf(call[c].org, call[c].user) ELSE {}
     IN  /\ members' = members \ rows
         /\ call' = [Losing(rows) EXCEPT ![c] = Answered(Code(c))]
  /\ UNCHANGED <<orgs, used, overlaps>>

\* The connection is lost before the statement commits.
Fail(c) ==
  /\ ~Idle(c)
  /\ call' = [call EXCEPT ![c] = Answered("storage")]
  /\ UNCHANGED <<orgs, used, members, overlaps>>

Begin(c) ==
  \E o \in Orgs, u \in Users :
    \/ \E r \in Roles : BeginAdd(c, o, u, r) \/ BeginWrite(c, "set", o, u, r)
    \/ BeginWrite(c, "remove", o, u, "member")

End(c) == EndAdd(c) \/ EndSetRole(c) \/ EndRemoveMember(c) \/ Fail(c)

Next ==
  \/ \E o \in Orgs, u \in Users : CreateOrganization(o, u)
  \/ \E o \in Orgs : DeleteOrganization(o)
  \/ \E c \in Calls : Begin(c) \/ End(c)

Spec == Init /\ [][Next]_vars

-----------------------------------------------------------------------------
(* What must hold                                                          *)

Adding == [op : {"add"}, org : Orgs, user : Users, role : Roles, orgExists : BOOLEAN]
Writing == [op : {"set", "remove"}, org : Orgs, user : Users, role : Roles,
            row : {"none", "live", "gone"}, blocked : BOOLEAN]
Answer == [op : {"none"},
           code : {"none", "ok", "storage", "not_found", "already_member",
                   "not_a_member", "last_owner"}]

TypeOK ==
  /\ orgs \subseteq used /\ used \subseteq Orgs
  /\ members \subseteq Member
  /\ call \in [Calls -> Answer \cup Adding \cup Writing]
  /\ overlaps \subseteq Orgs

Ownerless(o) == o \in orgs /\ Owners(o) = {}

\* The last-owner guard has no hole but the one READ COMMITTED leaves: an
\* organization without an owner has seen two statements, each about to demote or
\* remove another member, under way at once (contract.json invariants 3 and 7).
OwnerlessNeedsOverlap == \A o \in Orgs : Ownerless(o) => o \in overlaps

\* No membership outlives its organization, whatever add races the delete
\* (contract.json invariant 9).
NoOrphans == \A m \in members : m.org \in orgs

\* A user has one role in an organization, whatever adds and role changes race
\* (contract.json invariant 4).
OneMembership ==
  \A m, n \in members : m.org = n.org /\ m.user = n.user => m = n

\* A member who was removed comes back only by being added: a role change that
\* read the row before does not restore the access, nor does it rewrite the row of
\* one who was added again since.
RevokedStaysRevoked ==
  [][\A o \in orgs, u \in Users : RowsOf(o, u)' \notin {{}, RowsOf(o, u)} =>
       \E c \in Calls : /\ IF RowsOf(o, u) = {} THEN call[c].op = "add"
                             ELSE call[c].op = "set" /\ call[c].row = "live"
                        /\ call[c].org = o /\ call[c].user = u /\ call[c] # call'[c]]_vars

-----------------------------------------------------------------------------
(* The inductive invariant: what a statement under way knows.              *)

\* A row that was read and not deleted since is still there.
LiveRows ==
  \A c \in Calls : call[c].op \in {"set", "remove"} /\ call[c].row = "live" =>
    RowsOf(call[c].org, call[c].user) # {}

\* Short of an overlap, the statements that take owners away from an organization
\* are all about one member, and leave another owner there.
OneVictim ==
  \A c, d \in Calls : Dropping(c) /\ Dropping(d) /\ call[c].org = call[d].org =>
    call[c].user = call[d].user \/ call[c].org \in overlaps

OwnerRemains ==
  \A c \in Calls : Dropping(c) => \/ call[c].org \in overlaps
                                  \/ \E v \in Owners(call[c].org) : v # call[c].user

TenancyInv ==
  /\ TypeOK
  /\ NoOrphans
  /\ OneMembership
  /\ LiveRows
  /\ OneVictim
  /\ OwnerRemains
  /\ OwnerlessNeedsOverlap
=============================================================================
