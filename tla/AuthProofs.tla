----------------------------- MODULE AuthProofs -----------------------------
(***************************************************************************)
(* Theorems about the two auth parts: about Tenancy, for any number of     *)
(* organizations, users and statements under way at once, and about        *)
(* ApiKeys, for any number of keys and of operations under way at once.    *)
(* The two share no state.                                                 *)
(***************************************************************************)
EXTENDS Tenancy, ApiKeys, TLAPS


LEMMA InitInv == Init => TenancyInv
BY DEF Init, TenancyInv, TypeOK, NoOrphans, OneMembership, LiveRows, OneVictim, OwnerRemains,
       OwnerlessNeedsOverlap, Ownerless, Owners, RowsOf, Dropping, Answered, Answer

-----------------------------------------------------------------------------
(* Steps that leave the membership table alone                             *)

\* A call that stops writing, or starts without taking anyone off the owners,
\* keeps what the other calls know.
LEMMA QuietStep ==
  ASSUME TenancyInv, TypeOK', UNCHANGED <<orgs, members, overlaps>>, NEW c \in Calls,
         \A d \in Calls \ {c} : call'[d] = call[d],
         call'[c].op \in {"set", "remove"} /\ call'[c].row = "live" =>
           RowsOf(call'[c].org, call'[c].user) # {},
         ~Dropping(c)'
  PROVE  TenancyInv'
<1>1. NoOrphans' /\ OneMembership' /\ OwnerlessNeedsOverlap'
  BY DEF TenancyInv, NoOrphans, OneMembership, OwnerlessNeedsOverlap, Ownerless, Owners
<1>2. \A d \in Calls : Dropping(d)' => d # c /\ Dropping(d) /\ call'[d] = call[d]
  BY DEF Dropping
<1>3. LiveRows'
  BY DEF TenancyInv, LiveRows, RowsOf
<1>4. OneVictim' /\ OwnerRemains'
  BY <1>2 DEF TenancyInv, OneVictim, OwnerRemains, Owners
<1> QED
  BY <1>1, <1>3, <1>4 DEF TenancyInv

LEMMA BeginAddStep ==
  ASSUME TenancyInv, NEW c \in Calls, NEW o \in Orgs, NEW u \in Users, NEW r \in Roles,
         BeginAdd(c, o, u, r)
  PROVE  TenancyInv'
<1>1. /\ call'[c] = [op |-> "add", org |-> o, user |-> u, role |-> r, orgExists |-> o \in orgs]
      /\ \A d \in Calls \ {c} : call'[d] = call[d]
  BY DEF BeginAdd, TenancyInv, TypeOK
<1>2. call'[c] \in Adding
  BY <1>1 DEF Adding
<1>3. TypeOK'
  BY <1>2 DEF BeginAdd, TenancyInv, TypeOK
<1>4. ~Dropping(c)'
  BY <1>1 DEF Dropping, Drops
<1> QED
  BY <1>1, <1>3, <1>4, QuietStep DEF BeginAdd

LEMMA FailStep ==
  ASSUME TenancyInv, NEW c \in Calls, Fail(c)
  PROVE  TenancyInv'
<1>1. call'[c] = Answered("storage") /\ \A d \in Calls \ {c} : call'[d] = call[d]
  BY DEF Fail, TenancyInv, TypeOK
<1>2. call'[c] \in Answer /\ call'[c].op = "none"
  BY <1>1 DEF Answer, Answered
<1>3. TypeOK'
  BY <1>2 DEF Fail, TenancyInv, TypeOK
<1>4. ~Dropping(c)'
  BY <1>2 DEF Dropping
<1> QED
  BY <1>1, <1>2, <1>3, <1>4, QuietStep DEF Fail

\* The guard reads the owners of the moment; a rival that could take the last of
\* them away is an overlap.
LEMMA BeginWriteStep ==
  ASSUME TenancyInv, NEW c \in Calls, NEW op \in {"set", "remove"},
         NEW o \in Orgs, NEW u \in Users, NEW r \in Roles, BeginWrite(c, op, o, u, r)
  PROVE  TenancyInv'
<1> DEFINE live == RowsOf(o, u) # {}
           rivals == {d \in Calls : Dropping(d) /\ call[d].org = o /\ call[d].user # u}
<1>1. /\ call'[c] = [op |-> op, org |-> o, user |-> u, role |-> r,
                     row |-> IF live THEN "live" ELSE "none",
                     blocked |-> Drops(op, r) /\ SoleOwner(o, u)]
      /\ \A d \in Calls \ {c} : call'[d] = call[d]
      /\ overlaps' = IF live /\ Drops(op, r) /\ ~SoleOwner(o, u) /\ rivals # {}
                       THEN overlaps \cup {o} ELSE overlaps
      /\ UNCHANGED <<orgs, used, members>>
  BY DEF BeginWrite, TenancyInv, TypeOK
<1> HIDE DEF rivals
<1>2. call'[c] \in Writing
  BY <1>1 DEF Writing
<1>3. TypeOK' /\ overlaps \subseteq overlaps'
  BY <1>1, <1>2 DEF BeginWrite, TenancyInv, TypeOK
<1>4. NoOrphans' /\ OneMembership' /\ OwnerlessNeedsOverlap'
  BY <1>1, <1>3 DEF TenancyInv, NoOrphans, OneMembership, OwnerlessNeedsOverlap, Ownerless, Owners
<1>5. LiveRows'
  <2> SUFFICES ASSUME NEW d \in Calls, (call[d].op \in {"set", "remove"} /\ call[d].row = "live")'
               PROVE  (RowsOf(call[d].org, call[d].user) # {})'
    BY DEF LiveRows
  <2>1. CASE d = c
    BY <1>1, <2>1 DEF RowsOf
  <2>2. CASE d # c
    BY <1>1, <2>2 DEF TenancyInv, LiveRows, RowsOf
  <2> QED
    BY <2>1, <2>2
<1>6. \A d \in Calls \ {c} : Dropping(d)' <=> Dropping(d)
  <2> TAKE d \in Calls \ {c}
  <2>1. call'[d] = call[d]
    BY <1>1
  <2> QED
    BY <2>1 DEF Dropping, Drops
<1>7. Dropping(c)' => live /\ Drops(op, r) /\ ~SoleOwner(o, u)
  <2> SUFFICES ASSUME Dropping(c)'
               PROVE  live /\ Drops(op, r) /\ ~SoleOwner(o, u)
    OBVIOUS
  <2>1. call'[c].op = op /\ call'[c].role = r /\ call'[c].row = IF live THEN "live" ELSE "none"
    BY <1>1
  <2>2. call'[c].blocked = (Drops(op, r) /\ SoleOwner(o, u))
    BY <1>1
  <2>3. Drops(call'[c].op, call'[c].role) /\ call'[c].row = "live" /\ ~call'[c].blocked
    BY DEF Dropping, Drops
  <2> HIDE DEF live
  <2>4. live /\ Drops(op, r)
    BY <2>1, <2>3
  <2> QED
    BY <2>2, <2>3, <2>4
<1>8. ASSUME NEW d \in Calls \ {c}, Dropping(c)', Dropping(d), call[d].org = o, call[d].user # u
      PROVE  o \in overlaps'
  BY <1>1, <1>7, <1>8 DEF rivals
<1>9. OneVictim'
  <2> SUFFICES ASSUME NEW a \in Calls, NEW b \in Calls, Dropping(a)', Dropping(b)',
                      call'[a].org = call'[b].org, call'[a].user # call'[b].user
               PROVE  call'[a].org \in overlaps'
    BY DEF OneVictim
  <2>1. CASE a = c
    BY <1>1, <1>6, <1>8, <2>1
  <2>2. CASE b = c
    BY <1>1, <1>6, <1>8, <2>2
  <2>3. CASE a # c /\ b # c
    BY <1>1, <1>3, <1>6, <2>3 DEF TenancyInv, OneVictim
  <2> QED
    BY <2>1, <2>2, <2>3
<1>10. OwnerRemains'
  <2> SUFFICES ASSUME NEW d \in Calls, Dropping(d)', (call[d].org \notin overlaps)'
               PROVE  (\E v \in Owners(call[d].org) : v # call[d].user)'
    BY DEF OwnerRemains
  <2>1. Owners(call[d].org)' = Owners(call'[d].org)
    BY <1>1 DEF Owners
  <2>2. CASE d = c
    <3>1. o \in orgs
      BY <1>7, <2>2 DEF RowsOf, TenancyInv, NoOrphans
    <3>2. Owners(o) # {}
      BY <1>1, <1>3, <2>2, <3>1 DEF TenancyInv, OwnerlessNeedsOverlap, Ownerless
    <3>3. Owners(o) # {u}
      BY <1>7, <2>2 DEF SoleOwner
    <3> QED
      BY <1>1, <2>1, <2>2, <3>2, <3>3
  <2>3. CASE d # c
    BY <1>1, <1>3, <1>6, <2>1, <2>3 DEF TenancyInv, OwnerRemains
  <2> QED
    BY <2>2, <2>3
<1> QED
  BY <1>3, <1>4, <1>5, <1>9, <1>10 DEF TenancyInv

-----------------------------------------------------------------------------
(* Steps that write the membership table                                   *)

\* The argument of the whole proof: no step takes an owner off an organization
\* except the member a dropping call had read, so the owner the call counted on
\* is there afterwards, for it and for the other calls about the same member.
LEMMA OwnersKept ==
  ASSUME TenancyInv, TypeOK', NoOrphans', OneMembership', LiveRows', overlaps' = overlaps,
         \A p \in orgs' : p \in orgs \/ Owners(p)' # {},
         \A d \in Calls : Dropping(d)' => Dropping(d) /\ call'[d] = call[d],
         \A p \in Orgs : \/ Owners(p) \subseteq Owners(p)'
                         \/ \E c \in Calls : /\ Dropping(c) /\ call[c].org = p
                                             /\ Owners(p) \ {call[c].user} \subseteq Owners(p)'
                         \/ p \notin orgs' /\ \A d \in Calls : Dropping(d)' => call[d].org # p
  PROVE  TenancyInv'
<1>1. OneVictim'
  <2> SUFFICES ASSUME NEW a \in Calls, NEW b \in Calls, Dropping(a)', Dropping(b)',
                      (call[a].org = call[b].org)'
               PROVE  (call[a].user = call[b].user \/ call[a].org \in overlaps)'
    BY DEF OneVictim
  <2> QED
    BY DEF TenancyInv, OneVictim
<1>2. OwnerRemains'
  <2> SUFFICES ASSUME NEW d \in Calls, Dropping(d)', call[d].org \notin overlaps
               PROVE  \E v \in Owners(call[d].org)' : v # call[d].user
    BY DEF OwnerRemains
  <2>1. Dropping(d)
    OBVIOUS
  <2>2. PICK v \in Owners(call[d].org) : v # call[d].user
    BY <2>1 DEF TenancyInv, OwnerRemains
  <2>3. call[d].org \in Orgs
    BY <2>1 DEF TenancyInv, TypeOK, Dropping, Answer, Adding, Writing
  <2>4. \A c \in Calls : Dropping(c) /\ call[c].org = call[d].org => call[c].user = call[d].user
    BY <2>1 DEF TenancyInv, OneVictim
  <2> QED
    BY <2>2, <2>3, <2>4
<1>3. OwnerlessNeedsOverlap'
  <2> SUFFICES ASSUME NEW p \in Orgs, p \in orgs', Owners(p)' = {}
               PROVE  p \in overlaps
    BY DEF OwnerlessNeedsOverlap, Ownerless
  <2>1. p \in orgs
    OBVIOUS
  <2>2. CASE Owners(p) \subseteq Owners(p)'
    BY <2>1, <2>2 DEF TenancyInv, OwnerlessNeedsOverlap, Ownerless
  <2>3. ASSUME NEW c \in Calls, Dropping(c), call[c].org = p,
               Owners(p) \ {call[c].user} \subseteq Owners(p)'
        PROVE  p \in overlaps
    BY <2>3 DEF TenancyInv, OwnerRemains
  <2> QED
    BY <2>2, <2>3
<1> QED
  BY <1>1, <1>2, <1>3 DEF TenancyInv

LEMMA CreateStep ==
  ASSUME TenancyInv, NEW o \in Orgs, NEW u \in Users, CreateOrganization(o, u)
  PROVE  TenancyInv'
<1>1. Seed(o, u) \in Member /\ Seed(o, u).org = o
  BY DEF Seed, Member, Roles
<1>2. \A m \in members : m.org # o
  BY DEF CreateOrganization, TenancyInv, TypeOK, NoOrphans
<1>3. TypeOK' /\ NoOrphans' /\ OneMembership'
  <2>1. TypeOK'
    BY <1>1 DEF CreateOrganization, TenancyInv, TypeOK
  <2>2. NoOrphans'
    BY <1>1 DEF CreateOrganization, TenancyInv, NoOrphans
  <2>3. OneMembership'
    BY <1>1, <1>2 DEF CreateOrganization, TenancyInv, OneMembership
  <2> QED
    BY <2>1, <2>2, <2>3
<1>4. LiveRows'
  BY DEF CreateOrganization, TenancyInv, LiveRows, RowsOf
<1>5. \A p \in Orgs : Owners(p) \subseteq Owners(p)'
  BY DEF CreateOrganization, Owners
<1>6. u \in Owners(o)'
  <2>1. Seed(o, u) \in members' /\ Seed(o, u).role = "owner" /\ Seed(o, u).user = u
    BY DEF CreateOrganization, Seed
  <2> QED
    BY <1>1, <2>1 DEF Owners
<1>7. \A d \in Calls : Dropping(d)' => Dropping(d) /\ call'[d] = call[d]
  BY DEF CreateOrganization, Dropping
<1> QED
  BY <1>3, <1>4, <1>5, <1>6, <1>7, OwnersKept DEF CreateOrganization

\* What a call knows after some rows were deleted.
LEMMA LosingKnows ==
  ASSUME TypeOK, NEW gone, NEW d \in Calls
  PROVE  /\ Losing(gone)[d] \in Answer \cup Adding \cup Writing
         /\ \/ Losing(gone)[d] = call[d]
            \/ /\ Losing(gone)[d] \in Writing /\ Losing(gone)[d].row = "gone"
         /\ Losing(gone)[d].op \in {"set", "remove"} /\ Losing(gone)[d].row = "live" =>
              \A m \in gone : ~(m.org = call[d].org /\ m.user = call[d].user)
<1> DEFINE hit == /\ call[d].op \in {"set", "remove"} /\ call[d].row = "live"
                  /\ \E m \in gone : m.org = call[d].org /\ m.user = call[d].user
<1>1. CASE hit
  <2>1. call[d] \in Writing
    BY <1>1 DEF TypeOK, Answer, Adding, Writing
  <2>2. Losing(gone)[d] = [call[d] EXCEPT !.row = "gone"]
    BY <1>1 DEF Losing
  <2>3. Losing(gone)[d] \in Writing /\ Losing(gone)[d].row = "gone"
    BY <2>1, <2>2 DEF Writing
  <2> QED
    BY <2>3
<1>2. CASE ~hit
  <2>1. Losing(gone)[d] = call[d]
    BY <1>2 DEF Losing
  <2> QED
    BY <1>2, <2>1 DEF TypeOK
<1> QED
  BY <1>1, <1>2

LEMMA DeleteStep ==
  ASSUME TenancyInv, NEW o \in Orgs, DeleteOrganization(o)
  PROVE  TenancyInv'
<1> DEFINE gone == {m \in members : m.org = o}
<1>1. /\ call' = Losing(gone) /\ members' = {m \in members : m.org # o}
      /\ orgs' = orgs \ {o} /\ UNCHANGED <<used, overlaps>> /\ TypeOK
  BY DEF DeleteOrganization, TenancyInv
<1> HIDE DEF gone
<1>2. call' \in [Calls -> Answer \cup Adding \cup Writing]
  <2>1. call' = [d \in Calls |-> call'[d]]
    BY <1>1 DEF Losing
  <2> QED
    BY <1>1, <2>1, LosingKnows
<1>3. TypeOK' /\ NoOrphans' /\ OneMembership'
  BY <1>1, <1>2 DEF TenancyInv, TypeOK, NoOrphans, OneMembership
<1>4. ASSUME NEW d \in Calls, (call[d].op \in {"set", "remove"} /\ call[d].row = "live")'
      PROVE  call'[d] = call[d] /\ call[d].org # o
  <2>1. call'[d] = call[d] /\ \A m \in gone : ~(m.org = call[d].org /\ m.user = call[d].user)
    BY <1>1, <1>4, LosingKnows
  <2>2. RowsOf(call[d].org, call[d].user) # {}
    BY <1>4, <2>1 DEF TenancyInv, LiveRows
  <2> QED
    BY <2>1, <2>2 DEF RowsOf, gone
<1>5. LiveRows'
  <2> SUFFICES ASSUME NEW d \in Calls, (call[d].op \in {"set", "remove"} /\ call[d].row = "live")'
               PROVE  (RowsOf(call[d].org, call[d].user) # {})'
    BY DEF LiveRows
  <2>1. RowsOf(call[d].org, call[d].user) # {}
    BY <1>4 DEF TenancyInv, LiveRows
  <2> QED
    BY <1>1, <1>4, <2>1 DEF RowsOf
<1>6. \A d \in Calls : Dropping(d)' => Dropping(d) /\ call'[d] = call[d] /\ call[d].org # o
  BY <1>4 DEF Dropping
<1>7. \A p \in Orgs : p # o => Owners(p) \subseteq Owners(p)'
  BY <1>1 DEF Owners
<1> QED
  BY <1>1, <1>3, <1>5, <1>6, <1>7, OwnersKept

LEMMA EndAddStep ==
  ASSUME TenancyInv, NEW c \in Calls, EndAdd(c)
  PROVE  TenancyInv'
<1> DEFINE new == [org |-> call[c].org, user |-> call[c].user, role |-> call[c].role]
<1>1. call'[c] = Answered(AddCode(c)) /\ \A d \in Calls \ {c} : call'[d] = call[d]
  BY DEF EndAdd, TenancyInv, TypeOK
<1>2. call[c] \in Adding
  BY DEF EndAdd, TenancyInv, TypeOK, Answer, Adding, Writing
<1>3. call'[c] \in Answer /\ call'[c].op = "none"
  BY <1>1 DEF Answer, Answered, AddCode
<1>4. new \in Member
  BY <1>2 DEF Adding, Member
<1>5. TypeOK'
  BY <1>1, <1>3, <1>4 DEF EndAdd, TenancyInv, TypeOK
<1>6. members \subseteq members' /\ members' \subseteq members \cup {new}
  BY DEF EndAdd
<1>7. AddCode(c) = "ok" => call[c].org \in orgs /\ RowsOf(call[c].org, call[c].user) = {}
  BY DEF AddCode
<1>8. NoOrphans'
  BY <1>7 DEF EndAdd, TenancyInv, NoOrphans
<1>9. OneMembership'
  <2>1. CASE AddCode(c) = "ok"
    <3>1. \A m \in members : ~(m.org = new.org /\ m.user = new.user)
      BY <1>7, <2>1 DEF RowsOf
    <3> QED
      BY <1>6, <3>1 DEF TenancyInv, OneMembership
  <2>2. CASE AddCode(c) # "ok"
    BY <2>2 DEF EndAdd, TenancyInv, OneMembership
  <2> QED
    BY <2>1, <2>2
<1>10. LiveRows'
  <2> SUFFICES ASSUME NEW d \in Calls, (call[d].op \in {"set", "remove"} /\ call[d].row = "live")'
               PROVE  (RowsOf(call[d].org, call[d].user) # {})'
    BY DEF LiveRows
  <2>1. call'[d] = call[d]
    BY <1>1, <1>3
  <2>2. RowsOf(call[d].org, call[d].user) # {}
    BY <2>1 DEF TenancyInv, LiveRows
  <2> QED
    BY <1>6, <2>1, <2>2 DEF RowsOf
<1>11. \A d \in Calls : Dropping(d)' => Dropping(d) /\ call'[d] = call[d]
  BY <1>1, <1>3 DEF Dropping
<1>12. \A p \in Orgs : Owners(p) \subseteq Owners(p)'
  BY <1>6 DEF Owners
<1> QED
  BY <1>5, <1>8, <1>9, <1>10, <1>11, <1>12, OwnersKept DEF EndAdd

LEMMA EndSetRoleStep ==
  ASSUME TenancyInv, NEW c \in Calls, EndSetRole(c)
  PROVE  TenancyInv'
<1>1. call'[c] = Answered(Code(c)) /\ \A d \in Calls \ {c} : call'[d] = call[d]
  BY DEF EndSetRole, TenancyInv, TypeOK
<1>2. call[c] \in Writing
  BY DEF EndSetRole, TenancyInv, TypeOK, Answer, Adding, Writing
<1> PICK o \in Orgs, u \in Users : call[c].org = o /\ call[c].user = u
  BY <1>2 DEF Writing
<1> DEFINE new == [org |-> o, user |-> u, role |-> call[c].role]
<1>3. call'[c] \in Answer /\ call'[c].op = "none"
  BY <1>1, <1>2 DEF Answer, Answered, Code, Writing
<1>4. new \in Member
  BY <1>2 DEF Writing, Member
<1>5. TypeOK'
  <2>1. members' \subseteq Member
    BY <1>4 DEF EndSetRole, TenancyInv, TypeOK
  <2> QED
    BY <1>1, <1>3, <2>1 DEF EndSetRole, TenancyInv, TypeOK
<1>6. CASE Code(c) # "ok"
  <2>1. UNCHANGED <<orgs, members, overlaps>> /\ ~Dropping(c)'
    BY <1>3, <1>6 DEF EndSetRole, Dropping
  <2> QED
    BY <1>1, <1>3, <1>5, <2>1, QuietStep
<1>7. CASE Code(c) = "ok"
  <2>1. members' = (members \ RowsOf(o, u)) \cup {new}
    BY <1>7 DEF EndSetRole
  <2>2. call[c].row = "live" /\ ~call[c].blocked
    BY <1>7 DEF Code
  <2>3. RowsOf(o, u) # {}
    BY <2>2 DEF EndSetRole, TenancyInv, LiveRows
  <2>4. NoOrphans'
    BY <2>1, <2>3 DEF EndSetRole, TenancyInv, NoOrphans, RowsOf
  <2>5. OneMembership'
    BY <2>1 DEF TenancyInv, OneMembership, RowsOf
  <2>6. LiveRows'
    <3> SUFFICES ASSUME NEW d \in Calls, (call[d].op \in {"set", "remove"} /\ call[d].row = "live")'
                 PROVE  (RowsOf(call[d].org, call[d].user) # {})'
      BY DEF LiveRows
    <3>1. call'[d] = call[d]
      BY <1>1, <1>3
    <3>2. RowsOf(call[d].org, call[d].user) # {}
      BY <3>1 DEF TenancyInv, LiveRows
    <3>3. PICK m \in members : m.org = call[d].org /\ m.user = call[d].user
      BY <3>2 DEF RowsOf
    <3>4. CASE m \in RowsOf(o, u)
      <4>1. new \in members' /\ new.org = call[d].org /\ new.user = call[d].user
        BY <2>1, <3>3, <3>4 DEF RowsOf
      <4> QED
        BY <3>1, <4>1 DEF RowsOf
    <3>5. CASE m \notin RowsOf(o, u)
      BY <2>1, <3>1, <3>3, <3>5 DEF RowsOf
    <3> QED
      BY <3>4, <3>5
  <2>7. \A d \in Calls : Dropping(d)' => Dropping(d) /\ call'[d] = call[d]
    BY <1>1, <1>3 DEF Dropping
  <2>8. \A p \in Orgs : Owners(p) \ {u} \subseteq Owners(p)'
    BY <2>1 DEF Owners, RowsOf
  <2>9. \A p \in Orgs : p # o => Owners(p) \subseteq Owners(p)'
    BY <2>1 DEF Owners, RowsOf
  <2>10. Dropping(c) \/ Owners(o) \subseteq Owners(o)'
    <3>1. CASE Drops("set", call[c].role)
      BY <2>2, <3>1 DEF EndSetRole, Dropping
    <3>2. CASE ~Drops("set", call[c].role)
      <4>1. new \in members' /\ new.role = "owner" /\ new.org = o /\ new.user = u
        BY <2>1, <3>2 DEF Drops
      <4>2. u \in {m.user : m \in {n \in members' : n.org = o /\ n.role = "owner"}}
        BY <4>1
      <4> QED
        BY <2>1, <4>2 DEF Owners, RowsOf
    <3> QED
      BY <3>1, <3>2
  <2> QED
    BY <1>5, <2>4, <2>5, <2>6, <2>7, <2>8, <2>9, <2>10, OwnersKept DEF EndSetRole
<1> QED
  BY <1>6, <1>7

LEMMA EndRemoveStep ==
  ASSUME TenancyInv, NEW c \in Calls, EndRemoveMember(c)
  PROVE  TenancyInv'
<1>1. call[c] \in Writing
  BY DEF EndRemoveMember, TenancyInv, TypeOK, Answer, Adding, Writing
<1> PICK o \in Orgs, u \in Users : call[c].org = o /\ call[c].user = u
  BY <1>1 DEF Writing
<1> DEFINE rows == IF Code(c) = "ok" THEN RowsOf(o, u) ELSE {}
<1>2. /\ call' = [Losing(rows) EXCEPT ![c] = Answered(Code(c))]
      /\ members' = members \ rows
      /\ UNCHANGED <<orgs, used, overlaps>> /\ TypeOK
  BY DEF EndRemoveMember, TenancyInv
<1>3. rows = {} \/ (Dropping(c) /\ rows = RowsOf(o, u))
  BY DEF Code, Dropping, Drops, EndRemoveMember
<1> HIDE DEF rows
<1>4. /\ call'[c] = Answered(Code(c))
      /\ \A d \in Calls \ {c} : call'[d] = Losing(rows)[d]
      /\ call' = [d \in Calls |-> call'[d]]
  BY <1>2 DEF Losing
<1>5. call'[c] \in Answer /\ call'[c].op = "none"
  BY <1>1, <1>4 DEF Answer, Answered, Code, Writing
<1>6. TypeOK'
  <2>1. \A d \in Calls : call'[d] \in Answer \cup Adding \cup Writing
    BY <1>2, <1>4, <1>5, LosingKnows
  <2>2. call' \in [Calls -> Answer \cup Adding \cup Writing]
    BY <1>4, <2>1
  <2> QED
    BY <1>2, <2>2 DEF TypeOK
<1>7. NoOrphans' /\ OneMembership'
  BY <1>2 DEF TenancyInv, NoOrphans, OneMembership
<1>8. ASSUME NEW d \in Calls, (call[d].op \in {"set", "remove"} /\ call[d].row = "live")'
      PROVE  /\ call'[d] = call[d]
             /\ \A m \in rows : ~(m.org = call[d].org /\ m.user = call[d].user)
  BY <1>2, <1>4, <1>5, <1>8, LosingKnows
<1>9. LiveRows'
  <2> SUFFICES ASSUME NEW d \in Calls, (call[d].op \in {"set", "remove"} /\ call[d].row = "live")'
               PROVE  (RowsOf(call[d].org, call[d].user) # {})'
    BY DEF LiveRows
  <2>1. RowsOf(call[d].org, call[d].user) # {}
    BY <1>8 DEF TenancyInv, LiveRows
  <2>2. PICK m \in members : m.org = call[d].org /\ m.user = call[d].user
    BY <2>1 DEF RowsOf
  <2>3. m \in members'
    BY <1>2, <1>8, <2>2
  <2> QED
    BY <1>8, <2>2, <2>3 DEF RowsOf
<1>10. \A d \in Calls : Dropping(d)' => Dropping(d) /\ call'[d] = call[d]
  BY <1>8 DEF Dropping
<1>11. ASSUME NEW p \in Orgs
       PROVE  Owners(p) \subseteq Owners(p)' \/
              (Dropping(c) /\ p = o /\ Owners(p) \ {u} \subseteq Owners(p)')
  <2>1. CASE rows = {}
    BY <1>2, <2>1 DEF Owners
  <2>2. CASE Dropping(c) /\ rows = RowsOf(o, u)
    BY <1>2, <2>2 DEF Owners, RowsOf
  <2> QED
    BY <1>3, <2>1, <2>2
<1> QED
  BY <1>2, <1>6, <1>7, <1>9, <1>10, <1>11, OwnersKept

-----------------------------------------------------------------------------
(* The theorems                                                            *)

LEMMA NextInv == TenancyInv /\ [Next]_vars => TenancyInv'
<1> SUFFICES ASSUME TenancyInv, [Next]_vars
             PROVE  TenancyInv'
  OBVIOUS
<1>1. ASSUME NEW o \in Orgs, NEW u \in Users, CreateOrganization(o, u)
      PROVE  TenancyInv'
  BY <1>1, CreateStep
<1>2. ASSUME NEW o \in Orgs, DeleteOrganization(o)
      PROVE  TenancyInv'
  BY <1>2, DeleteStep
<1>3. ASSUME NEW c \in Calls, Begin(c)
      PROVE  TenancyInv'
  <2>1. PICK o \in Orgs, u \in Users :
          \/ \E r \in Roles : BeginAdd(c, o, u, r) \/ BeginWrite(c, "set", o, u, r)
          \/ BeginWrite(c, "remove", o, u, "member")
    BY <1>3 DEF Begin
  <2> QED
    BY <2>1, BeginAddStep, BeginWriteStep DEF Roles
<1>4. ASSUME NEW c \in Calls, End(c)
      PROVE  TenancyInv'
  BY <1>4, EndAddStep, EndSetRoleStep, EndRemoveStep, FailStep DEF End
<1>5. CASE UNCHANGED vars
  BY <1>5 DEF vars, TenancyInv, TypeOK, NoOrphans, OneMembership, LiveRows, OneVictim,
              OwnerRemains, OwnerlessNeedsOverlap, Ownerless, Owners, RowsOf, Dropping
<1> QED
  BY <1>1, <1>2, <1>3, <1>4, <1>5 DEF Next

\* The inductive invariant holds in every reachable state.
THEOREM TenancyInvariant == Spec => []TenancyInv
<1> QED
  BY InitInv, NextInv, PTL DEF Spec

\* The tables keep their columns' types and an organization id is used once.
THEOREM TypeCorrect == Spec => []TypeOK
<1>1. TenancyInv => TypeOK
  BY DEF TenancyInv
<1> QED
  BY <1>1, TenancyInvariant, PTL

\* The only hole in the last-owner guard is two drops of different members of one
\* organization under way together, whatever else runs.
THEOREM LastOwnerGuard == Spec => []OwnerlessNeedsOverlap
<1>1. TenancyInv => OwnerlessNeedsOverlap
  BY DEF TenancyInv
<1> QED
  BY <1>1, TenancyInvariant, PTL

\* No add that races a delete leaves a membership without its organization.
THEOREM NoOrphanMembership == Spec => []NoOrphans
<1>1. TenancyInv => NoOrphans
  BY DEF TenancyInv
<1> QED
  BY <1>1, TenancyInvariant, PTL

\* However adds and role changes race, a user has at most one role in an
\* organization.
THEOREM OneRole == Spec => []OneMembership
<1>1. TenancyInv => OneMembership
  BY DEF TenancyInv
<1> QED
  BY <1>1, TenancyInvariant, PTL

\* A membership appears in a standing organization only by an add's write, and changes only
\* by that of a role change whose row is still the one it read.
THEOREM Revoked == Spec => RevokedStaysRevoked
<1> DEFINE A == \A o \in orgs, u \in Users : RowsOf(o, u)' \notin {{}, RowsOf(o, u)} =>
       \E c \in Calls : /\ IF RowsOf(o, u) = {} THEN call[c].op = "add"
                             ELSE call[c].op = "set" /\ call[c].row = "live"
                        /\ call[c].org = o /\ call[c].user = u /\ call[c] # call'[c]
<1>1. TenancyInv /\ [Next]_vars => [A]_vars
  <2> SUFFICES ASSUME TenancyInv, Next, NEW o \in orgs, NEW u \in Users,
                      RowsOf(o, u)' \notin {{}, RowsOf(o, u)}
               PROVE  \E c \in Calls :
                        /\ IF RowsOf(o, u) = {} THEN call[c].op = "add"
                           ELSE call[c].op = "set" /\ call[c].row = "live"
                        /\ call[c].org = o /\ call[c].user = u /\ call[c] # call'[c]
    OBVIOUS
  \* A row is new; for if one only went, it was the only one of its user.
  <2>0. \E m \in members' : m \notin members /\ m.org = o /\ m.user = u
    <3>1. PICK m : m \in RowsOf(o, u)'
      OBVIOUS
    <3>2. m \in members' /\ m.org = o /\ m.user = u
      BY <3>1 DEF RowsOf
    <3>3. CASE m \in members
      <4>1. RowsOf(o, u) = {m}
        BY <3>2, <3>3 DEF RowsOf, TenancyInv, OneMembership
      <4>2. PICK n : n \in RowsOf(o, u)' /\ n \notin {m}
        BY <3>1, <4>1
      <4> QED
        BY <4>1, <4>2 DEF RowsOf
    <3> QED
      BY <3>2, <3>3
  <2>1. ASSUME NEW p \in Orgs, NEW v \in Users, CreateOrganization(p, v)
        PROVE  FALSE
    BY <2>0, <2>1 DEF CreateOrganization, Seed, TenancyInv, TypeOK
  <2>2. ASSUME NEW p \in Orgs, DeleteOrganization(p)
        PROVE  FALSE
    BY <2>0, <2>2 DEF DeleteOrganization
  <2>3. ASSUME NEW c \in Calls, Begin(c) \/ Fail(c) \/ EndRemoveMember(c)
        PROVE  FALSE
    BY <2>0, <2>3 DEF Begin, BeginAdd, BeginWrite, Fail, EndRemoveMember
  <2>4. ASSUME NEW c \in Calls, EndSetRole(c)
        PROVE  /\ RowsOf(o, u) # {} /\ call[c].op = "set" /\ call[c].row = "live"
               /\ call[c].org = o /\ call[c].user = u /\ call[c] # call'[c]
    <3>1. Code(c) = "ok" /\ call[c].org = o /\ call[c].user = u
      BY <2>0, <2>4 DEF EndSetRole
    <3>2. call[c].row = "live" /\ RowsOf(call[c].org, call[c].user) # {}
      BY <2>4, <3>1 DEF Code, EndSetRole, TenancyInv, LiveRows
    <3>3. call[c].op = "set" /\ call'[c].op = "none"
      BY <2>4 DEF EndSetRole, TenancyInv, TypeOK, Answered
    <3> QED
      BY <3>1, <3>2, <3>3
  <2>5. ASSUME NEW c \in Calls, EndAdd(c)
        PROVE  /\ RowsOf(o, u) = {} /\ call[c].op = "add"
               /\ call[c].org = o /\ call[c].user = u /\ call[c] # call'[c]
    <3>1. call[c].op = "add" /\ call[c].org = o /\ call[c].user = u /\ AddCode(c) = "ok"
      BY <2>0, <2>5 DEF EndAdd
    <3>2. RowsOf(o, u) = {}
      BY <3>1 DEF AddCode
    <3>3. call'[c].op = "none"
      BY <2>5 DEF EndAdd, TenancyInv, TypeOK, Answered
    <3> QED
      BY <3>1, <3>2, <3>3
  <2> QED
    BY <2>1, <2>2, <2>3, <2>4, <2>5 DEF Next, End
<1> QED
  BY <1>1, TenancyInvariant, PTL DEF Spec, RevokedStaysRevoked

-----------------------------------------------------------------------------
(* ApiKeys                                                                 *)


USE DEF Never

LEMMA RowFacts ==
  /\ NoRow \notin Row
  /\ \A e \in 0..Never : Fresh(e) \in Row /\ Fresh(e) # NoRow
BY KeysAssumption DEF Row, NoRow, Fresh

\* The call of an operation under way is a Call, on a stored key.
LEMMA BusyFacts ==
  ASSUME KeysInv, NEW c \in Callers, work[c].pc # "idle"
  PROVE  /\ work[c] \in Call /\ work[c].key \in Keys /\ work[c].row \in Row
         /\ Stored(work[c].key) /\ keys[work[c].key] \in Row
BY DEF KeysInv, KeysTypeOK, CallInv, Call, AtRest, Stored

LEMMA KeysInitInv == KeysInit => KeysInv
BY KeysAssumption
   DEF KeysInit, KeysInv, KeysTypeOK, CallInv, Loners, Lineage, GraceIsOfRotation, RefusedAreDead,
       NoOutage, OneSuccessor, RefusalIsFinal, AtRest, Rotating, Stored

-----------------------------------------------------------------------------
(* Steps that leave the operations under way alone                         *)

\* Rows may appear, unrotated, and die; they do not rotate.
LEMMA TableStep ==
  ASSUME KeysInv, KeysTypeOK', UNCHANGED <<parent, work, refused, relapsed, raced, halved>>,
         \A k \in Keys : Stored(k) =>
           /\ Stored(k)' /\ (Rotated(k)' <=> Rotated(k))
           /\ keys'[k].grace = keys[k].grace /\ keys'[k].expires = keys[k].expires
           /\ keys[k].revoked => keys'[k].revoked,
         \A k \in Keys : Stored(k)' /\ ~Stored(k) => ~Rotated(k)' /\ keys'[k].grace = Never,
         clock <= clock'
  PROVE  KeysInv'
<1>1. ASSUME NEW c \in Callers PROVE CallInv(c)'
  <2>1. CallInv(c)
    BY DEF KeysInv
  <2>2. CASE work[c].pc = "idle"
    BY <2>1, <2>2 DEF CallInv, Rotating
  <2>3. CASE work[c].pc # "idle"
    <3>1. /\ work[c].key \in Keys /\ work[c].row \in Row
          /\ Stored(work[c].key) /\ keys[work[c].key] \in Row
      BY <2>3, BusyFacts
    <3>2. Dead(work[c].row) => Dead(work[c].row)'
      BY <3>1 DEF Dead, Row, KeysInv, KeysTypeOK
    <3> QED
      BY <2>1, <3>1, <3>2 DEF CallInv, Rotating, Older
  <2> QED
    BY <2>2, <2>3
<1>2. Loners' /\ OneSuccessor' /\ RefusalIsFinal'
  BY DEF KeysInv, Loners, OneSuccessor, RefusalIsFinal, Rotating
<1>3. Lineage'
  BY DEF KeysInv, Lineage, KeysTypeOK
<1>4. GraceIsOfRotation' /\ NoOutage'
  BY DEF KeysInv, GraceIsOfRotation, NoOutage
<1>5. RefusedAreDead'
  BY DEF KeysInv, RefusedAreDead, KeysTypeOK, Dead, Row, Stored
<1> QED
  BY <1>1, <1>2, <1>3, <1>4, <1>5 DEF KeysInv

LEMMA IssueStep ==
  ASSUME KeysInv, NEW k \in Keys, NEW e \in Expiries, Issue(k, e)
  PROVE  KeysInv'
<1>1. e \in 0..Never
  BY KeysAssumption
<1>2. keys'[k] = Fresh(e) /\ \A j \in Keys \ {k} : keys'[j] = keys[j]
  BY DEF Issue, KeysInv, KeysTypeOK
<1>3. KeysTypeOK'
  BY <1>1, RowFacts DEF Issue, KeysInv, KeysTypeOK
<1>4. \A j \in Keys : Stored(j) => j # k /\ keys'[j] = keys[j]
  BY <1>2 DEF Issue
<1>5. ~keys'[k].rotated /\ keys'[k].grace = Never
  BY <1>2 DEF Fresh
<1>6. clock <= clock'
  BY DEF Issue, KeysInv, KeysTypeOK
<1> QED
  BY <1>2, <1>3, <1>4, <1>5, <1>6, TableStep DEF Issue, Stored, Rotated

LEMMA RevokeStep ==
  ASSUME KeysInv, NEW k \in Keys, Revoke(k)
  PROVE  KeysInv'
<1>1. keys[k] \in Row
  BY DEF Revoke, Stored, KeysInv, KeysTypeOK
<1>2. /\ keys'[k] = [keys[k] EXCEPT !.revoked = TRUE]
      /\ \A j \in Keys \ {k} : keys'[j] = keys[j]
  BY DEF Revoke, KeysInv, KeysTypeOK
<1>3. /\ keys'[k] \in Row /\ keys'[k].rotated = keys[k].rotated /\ keys'[k].revoked
      /\ keys'[k].grace = keys[k].grace /\ keys'[k].expires = keys[k].expires
  BY <1>1, <1>2 DEF Row
<1>4. KeysTypeOK'
  BY <1>3 DEF Revoke, KeysInv, KeysTypeOK
<1>5. clock <= clock'
  BY DEF Revoke, KeysInv, KeysTypeOK
<1> QED
  BY <1>1, <1>2, <1>3, <1>4, <1>5, RowFacts, TableStep DEF Revoke, Stored, Rotated

LEMMA TickStep ==
  ASSUME KeysInv, Tick
  PROVE  KeysInv'
<1>1. KeysTypeOK' /\ clock <= clock'
  BY KeysAssumption DEF Tick, KeysInv, KeysTypeOK
<1> QED
  BY <1>1, TableStep DEF Tick, Stored, Rotated

-----------------------------------------------------------------------------
(* Steps of verifyKey                                                      *)

\* Starting or ending an operation leaves the others' knowledge alone, as long as
\* the histories only grow.
LEMMA OthersKeep ==
  ASSUME KeysInv, UNCHANGED <<keys, parent, clock>>, NEW c \in Callers,
         NEW d \in Callers \ {c}, work'[d] = work[d],
         raced \subseteq raced', halved \subseteq halved'
  PROVE  CallInv(d)'
BY DEF KeysInv, CallInv, Rotating, Stored, Rotated, Older, Dead

LEMMA VerifyLoadStep ==
  ASSUME KeysInv, NEW c \in Callers, NEW k \in Keys, VerifyLoad(c, k)
  PROVE  KeysInv'
<1>1. /\ work'[c] = Busy("verify", k, 0, k \in refused)
      /\ \A d \in Callers \ {c} : work'[d] = work[d]
  BY DEF VerifyLoad, KeysInv, KeysTypeOK
<1>2. /\ work'[c].pc = "verify" /\ work'[c].key = k /\ work'[c].row = keys[k]
      /\ work'[c].late = (k \in refused) /\ keys[k] \in Row
  BY <1>1 DEF VerifyLoad, Busy, Stored, KeysInv, KeysTypeOK
<1>3. KeysTypeOK'
  <2>1. work'[c] \in Call
    BY <1>1, <1>2 DEF Busy, Call
  <2> QED
    BY <2>1 DEF VerifyLoad, KeysInv, KeysTypeOK
<1>4. CallInv(c)'
  <2>1. Stored(k)'
    BY <1>2 DEF VerifyLoad, Stored
  <2>2. Older(work'[c].row, keys'[work'[c].key])
    BY <1>2 DEF VerifyLoad, Older, Row
  <2>3. k \in refused => k \in raced' \/ Dead(keys[k])'
    BY <1>2 DEF VerifyLoad, KeysInv, RefusedAreDead, Dead
  <2> QED
    BY <1>2, <2>1, <2>2, <2>3 DEF VerifyLoad, CallInv, Rotating, Dead
<1>5. \A d \in Callers : CallInv(d)'
  BY <1>1, <1>4, OthersKeep DEF VerifyLoad
<1>6. Loners'
  BY <1>1, <1>2 DEF VerifyLoad, KeysInv, Loners, Rotating
<1>7. Lineage'
  BY <1>1 DEF VerifyLoad, KeysInv, Lineage, Stored, Rotated
<1> QED
  BY <1>3, <1>5, <1>6, <1>7
     DEF VerifyLoad, KeysInv, GraceIsOfRotation, RefusedAreDead, NoOutage, OneSuccessor,
         RefusalIsFinal, Stored, Rotated, Dead

\* A refusal now is about the row as it is now, unless the key was raced.
LEMMA VerifyAnswerStep ==
  ASSUME KeysInv, NEW c \in Callers, VerifyAnswer(c)
  PROVE  KeysInv'
<1> DEFINE k == work[c].key
<1>1. work'[c] = AtRest /\ \A d \in Callers \ {c} : work'[d] = work[d]
  BY DEF VerifyAnswer, KeysInv, KeysTypeOK
<1>2. /\ work[c].pc = "verify" /\ k \in Keys /\ work[c].row \in Row
      /\ Stored(k) /\ keys[k] \in Row
  BY BusyFacts DEF VerifyAnswer
<1>3. CallInv(c) /\ clock \in Nat
  BY KeysAssumption DEF KeysInv, KeysTypeOK
<1>4. ASSUME Verdict(work[c].row) # "granted" PROVE k \in raced \/ Dead(keys[k])
  <2>1. Dead(work[c].row)
    BY <1>4 DEF Verdict, Dead
  <2>2. Older(work[c].row, keys[k]) => Dead(keys[k])
    BY <1>2, <1>3, <2>1 DEF Older, Dead, Row
  <2> QED
    BY <1>2, <1>3, <2>2 DEF CallInv
<1>5. ASSUME Verdict(work[c].row) = "granted", work[c].late PROVE k \in raced
  <2>1. ~Dead(work[c].row)
    BY <1>5, <1>2 DEF Verdict, Dead, Row
  <2> QED
    BY <1>2, <1>3, <1>5, <2>1 DEF CallInv
<1>6. KeysTypeOK'
  BY <1>1, <1>2 DEF VerifyAnswer, KeysInv, KeysTypeOK
<1>7. RefusedAreDead'
  BY <1>2, <1>4 DEF VerifyAnswer, KeysInv, RefusedAreDead, Stored, Dead
<1>8. RefusalIsFinal'
  BY <1>5 DEF VerifyAnswer, KeysInv, RefusalIsFinal
<1>9. CallInv(c)'
  BY <1>1 DEF CallInv, AtRest, Rotating
<1>10. \A d \in Callers : CallInv(d)'
  BY <1>1, <1>9, OthersKeep DEF VerifyAnswer
<1>11. Loners' /\ Lineage'
  BY <1>1, <1>2
     DEF VerifyAnswer, KeysInv, Loners, Lineage, Rotating, AtRest, Stored, Rotated
<1> QED
  BY <1>6, <1>7, <1>8, <1>10, <1>11
     DEF VerifyAnswer, KeysInv, GraceIsOfRotation, NoOutage, OneSuccessor, Stored, Rotated

-----------------------------------------------------------------------------
(* Steps of rotateKey                                                      *)

LEMMA RotateLoadStep ==
  ASSUME KeysInv, NEW c \in Callers, NEW k \in Keys, NEW g \in Graces, RotateLoad(c, k, g)
  PROVE  KeysInv'
<1>1. /\ work'[c] = Busy("insert", k, g, FALSE) /\ work[c].pc = "idle"
      /\ \A d \in Callers \ {c} : work'[d] = work[d]
  BY DEF RotateLoad, KeysInv, KeysTypeOK
<1>2. /\ work'[c].pc = "insert" /\ work'[c].key = k /\ ~Rotated(k) /\ Stored(k)
      /\ keys[k] \in Row
  BY <1>1 DEF RotateLoad, Live, Busy, Stored, KeysInv, KeysTypeOK
<1>3. raced \subseteq raced' /\ \A d \in Callers : Rotating(d) /\ work[d].key = k => k \in raced'
  BY DEF RotateLoad
<1>4. KeysTypeOK'
  <2>1. work'[c] \in Call
    BY <1>1, <1>2 DEF Busy, Call
  <2> QED
    BY <2>1 DEF RotateLoad, KeysInv, KeysTypeOK
<1>5. k \in raced' \cup halved \/ \A n \in Keys : parent[n] # k
  <2> SUFFICES ASSUME NEW n \in Keys, parent[n] = k, k \notin raced \cup halved
               PROVE  k \in raced'
    BY <1>3
  <2>1. parent[n] # NoKey
    BY KeysAssumption
  <2>2. PICK d \in Callers : work[d].pc = "retire" /\ work[d].key = k
    BY <1>2, <2>1 DEF KeysInv, Lineage
  <2> QED
    BY <1>3, <2>2 DEF Rotating
<1>6. CallInv(c)'
  BY <1>2, <1>5 DEF RotateLoad, CallInv, Stored, Rotated, Rotating
<1>7. \A d \in Callers : CallInv(d)'
  BY <1>1, <1>3, <1>6, OthersKeep DEF RotateLoad
<1>8. Loners'
  BY <1>1, <1>2, <1>3 DEF KeysInv, Loners, Rotating
<1>9. Lineage'
  <2>1. \A d \in Callers : work[d].pc = "retire" => work'[d] = work[d]
    BY <1>1
  <2>2. \A n \in Keys : parent[n] # NoKey =>
          /\ Stored(n) /\ Stored(parent[n])
          /\ \/ parent[n] \in raced' \cup halved
             \/ Rotated(parent[n])
             \/ \E d \in Callers : work'[d].pc = "retire" /\ work'[d].key = parent[n]
    BY <1>3, <2>1 DEF KeysInv, Lineage
  <2> QED
    BY <2>2 DEF RotateLoad, Lineage, Stored, Rotated
<1> QED
  BY <1>3, <1>4, <1>7, <1>8, <1>9
     DEF RotateLoad, KeysInv, GraceIsOfRotation, RefusedAreDead, NoOutage, OneSuccessor,
         RefusalIsFinal, Stored, Rotated, Dead

LEMMA RotateInsertStep ==
  ASSUME KeysInv, NEW c \in Callers, RotateInsert(c)
  PROVE  KeysInv'
<1> DEFINE k == work[c].key
<1>1. PICK n \in Keys :
        /\ ~Stored(n)
        /\ keys' = [keys EXCEPT ![n] = Fresh(work[c].row.expires)]
        /\ parent' = [parent EXCEPT ![n] = k]
  BY DEF RotateInsert
<1>2. /\ work[c].pc = "insert" /\ work[c] \in Call /\ k \in Keys /\ work[c].row \in Row
      /\ Stored(k) /\ k # NoKey
  BY BusyFacts, KeysAssumption DEF RotateInsert
<1>3. /\ work'[c] = [work[c] EXCEPT !.pc = "retire"]
      /\ \A d \in Callers \ {c} : work'[d] = work[d]
  BY DEF RotateInsert, KeysInv, KeysTypeOK
<1>4. work'[c].pc = "retire" /\ work'[c].key = k /\ work'[c] \in Call
  BY <1>2, <1>3 DEF Call
<1>5. /\ Fresh(work[c].row.expires) \in Row /\ Fresh(work[c].row.expires) # NoRow
      /\ ~Fresh(work[c].row.expires).rotated /\ Fresh(work[c].row.expires).grace = Never
  BY <1>2, RowFacts DEF Row, Fresh
<1>6. /\ keys'[n] = Fresh(work[c].row.expires) /\ \A j \in Keys \ {n} : keys'[j] = keys[j]
      /\ parent'[n] = k /\ \A j \in Keys \ {n} : parent'[j] = parent[j]
  BY <1>1 DEF KeysInv, KeysTypeOK
<1>7. \A j \in Keys : Stored(j) => j # n /\ keys'[j] = keys[j]
  BY <1>1, <1>6
<1>8. parent[n] = NoKey /\ \A j \in Keys : parent[j] # n
  BY <1>1, KeysAssumption DEF KeysInv, Lineage
<1>9. KeysTypeOK'
  BY <1>1, <1>2, <1>4, <1>5 DEF RotateInsert, KeysInv, KeysTypeOK
<1>10. CallInv(c)'
  BY <1>2, <1>4, <1>6, <1>7 DEF RotateInsert, KeysInv, CallInv, Rotating, Stored, Rotated
<1>11. ASSUME NEW d \in Callers \ {c} PROVE CallInv(d)'
  <2>1. CallInv(d) /\ work'[d] = work[d]
    BY <1>3 DEF KeysInv
  <2>2. CASE work[d].pc = "idle"
    BY <2>1, <2>2 DEF CallInv, Rotating
  <2>3. CASE work[d].pc # "idle"
    <3>1. work[d].key \in Keys /\ Stored(work[d].key)
      BY <2>3, BusyFacts
    <3>2. work[d].pc = "insert" /\ work[d].key = k => k \in raced
      BY <1>2 DEF KeysInv, Loners, Rotating
    <3>3. \A j \in Keys : parent'[j] = work[d].key => parent[j] = work[d].key \/ work[d].key = k
      BY <1>6
    <3>4. \A j \in Keys : parent[j] = work[d].key => parent'[j] = work[d].key
      BY <1>6, <1>8, <3>1, KeysAssumption
    <3>5. keys'[work[d].key] = keys[work[d].key]
      BY <1>7, <3>1
    <3> QED
      BY <2>1, <3>1, <3>2, <3>3, <3>4, <3>5
         DEF RotateInsert, CallInv, Rotating, Stored, Rotated, Older, Dead
  <2> QED
    BY <2>2, <2>3
<1>12. Loners'
  BY <1>2, <1>3, <1>4 DEF RotateInsert, KeysInv, Loners, Rotating
<1>13. Lineage'
  <2> SUFFICES ASSUME NEW m \in Keys, parent'[m] # NoKey
               PROVE  /\ Stored(m)' /\ Stored(parent[m])'
                      /\ \/ parent'[m] \in raced \cup halved
                         \/ Rotated(parent[m])'
                         \/ \E d \in Callers : work'[d].pc = "retire" /\ work'[d].key = parent'[m]
    BY DEF RotateInsert, Lineage
  <2>1. CASE m = n
    BY <1>2, <1>4, <1>5, <1>6, <1>7, <2>1 DEF Stored
  <2>2. CASE m # n
    <3>1. parent'[m] = parent[m] /\ parent[m] \in Keys
      BY <1>6, <2>2 DEF KeysInv, KeysTypeOK
    <3>2. /\ Stored(m) /\ Stored(parent[m])
          /\ \/ parent[m] \in raced \cup halved
             \/ Rotated(parent[m])
             \/ \E d \in Callers : work[d].pc = "retire" /\ work[d].key = parent[m]
      BY <3>1 DEF KeysInv, Lineage
    <3> QED
      BY <1>2, <1>3, <1>7, <3>1, <3>2 DEF Stored, Rotated
  <2> QED
    BY <2>1, <2>2
<1>14. GraceIsOfRotation' /\ RefusedAreDead'
  BY <1>5, <1>6, <1>7
     DEF RotateInsert, KeysInv, KeysTypeOK, GraceIsOfRotation, RefusedAreDead, Stored, Rotated, Dead
<1>15. NoOutage'
  BY <1>5, <1>6, <1>8, KeysAssumption DEF KeysInv, NoOutage, Stored, Rotated
<1>16. OneSuccessor'
  BY <1>2, <1>6 DEF RotateInsert, KeysInv, CallInv, OneSuccessor
<1> QED
  BY <1>9, <1>10, <1>11, <1>12, <1>13, <1>14, <1>15, <1>16
     DEF RotateInsert, KeysInv, RefusalIsFinal

LEMMA RotateRetireStep ==
  ASSUME KeysInv, NEW c \in Callers, RotateRetire(c)
  PROVE  KeysInv'
<1> DEFINE k == work[c].key
<1>1. /\ work[c].pc = "retire" /\ work[c] \in Call /\ k \in Keys /\ Stored(k) /\ keys[k] \in Row
  BY BusyFacts DEF RotateRetire
<1>2. work'[c] = AtRest /\ \A d \in Callers \ {c} : work'[d] = work[d]
  BY DEF RotateRetire, KeysInv, KeysTypeOK
<1>3. Later(work[c].grace) \in 0..Never
  <2>1. work[c].grace \in Nat /\ clock \in Nat /\ Horizon \in Nat
    <3>1. work[c].grace \in Graces \cup {0}
      BY <1>1 DEF Call
    <3>2. \A g \in Graces \cup {0} : g \in Nat
      BY KeysAssumption
    <3>3. clock \in Nat /\ Horizon \in Nat
      BY KeysAssumption DEF KeysInv, KeysTypeOK
    <3> QED
      BY <3>1, <3>2, <3>3
  <2> QED
    BY <2>1 DEF Later
<1>4. /\ keys'[k] = [keys[k] EXCEPT !.rotated = TRUE, !.grace = Later(work[c].grace)]
      /\ \A j \in Keys \ {k} : keys'[j] = keys[j]
  BY <1>1 DEF RotateRetire, Retired, KeysInv, KeysTypeOK
<1>5. /\ keys'[k] \in Row /\ keys'[k].rotated /\ keys'[k].revoked = keys[k].revoked
      /\ keys'[k].expires = keys[k].expires
  BY <1>1, <1>3, <1>4 DEF Row
<1>6. k \in raced \/ keys[k].grace = Never
  BY <1>1 DEF KeysInv, CallInv, GraceIsOfRotation, Rotating
<1>7. k \in raced \/ keys'[k].grace <= keys[k].grace
  BY <1>5, <1>6, KeysAssumption DEF Row
<1>8. KeysTypeOK'
  BY <1>1, <1>2, <1>5 DEF RotateRetire, Retired, KeysInv, KeysTypeOK
<1>9. \A j \in Keys : Stored(j) => Stored(j)'
  BY <1>4, <1>5, RowFacts DEF Stored
<1>10. ASSUME NEW d \in Callers PROVE CallInv(d)'
  <2>1. CASE d = c
    BY <1>2, <2>1 DEF CallInv, AtRest, Rotating
  <2>2. CASE d # c /\ work[d].pc = "idle"
    BY <1>2, <2>2 DEF CallInv, Rotating
  <2>3. CASE d # c /\ work[d].pc # "idle"
    <3>1. CallInv(d) /\ work'[d] = work[d]
      BY <1>2, <2>3 DEF KeysInv
    <3>2. /\ work[d].key \in Keys /\ Stored(work[d].key) /\ work[d].row \in Row
          /\ keys[work[d].key] \in Row
      BY <2>3, BusyFacts
    <3>3. CASE work[d].key = k
      <4>1. Rotating(d) => k \in raced
        BY <1>1, <2>3, <3>3 DEF KeysInv, Loners, Rotating
      <4>2. Older(work[d].row, keys[k]) => k \in raced \/ Older(work[d].row, keys'[k])
        BY <1>1, <1>5, <1>7, <3>2 DEF Older, Row
      <4> QED
        BY <1>9, <3>1, <3>2, <3>3, <4>1, <4>2 DEF RotateRetire, CallInv, Rotating, Dead
    <3>4. CASE work[d].key # k
      BY <1>4, <3>1, <3>2, <3>4
         DEF RotateRetire, CallInv, Rotating, Stored, Rotated, Older, Dead
    <3> QED
      BY <3>3, <3>4
  <2> QED
    BY <2>1, <2>2, <2>3
<1>11. Loners'
  BY <1>2 DEF RotateRetire, KeysInv, Loners, Rotating, AtRest
<1>12. Lineage'
  <2> SUFFICES ASSUME NEW m \in Keys, parent[m] # NoKey
               PROVE  /\ Stored(m)' /\ Stored(parent[m])'
                      /\ \/ parent[m] \in raced \cup halved
                         \/ Rotated(parent[m])'
                         \/ \E d \in Callers : work'[d].pc = "retire" /\ work'[d].key = parent[m]
    BY DEF RotateRetire, Lineage
  <2>1. parent[m] \in Keys
    BY DEF KeysInv, KeysTypeOK
  <2>2. Stored(m)' /\ Stored(parent[m])'
    BY <1>9, <2>1 DEF RotateRetire, KeysInv, Lineage
  <2>3. CASE parent[m] = k
    BY <1>5, <2>2, <2>3 DEF RotateRetire, Rotated
  <2>4. CASE parent[m] # k
    <3>1. \/ parent[m] \in raced \cup halved
          \/ Rotated(parent[m])
          \/ \E d \in Callers \ {c} : work[d].pc = "retire" /\ work[d].key = parent[m]
      BY <2>4 DEF KeysInv, Lineage
    <3> QED
      BY <1>2, <1>4, <2>1, <2>2, <2>4, <3>1 DEF RotateRetire, Rotated
  <2> QED
    BY <2>3, <2>4
<1>13. GraceIsOfRotation'
  BY <1>4, <1>5 DEF KeysInv, GraceIsOfRotation, Stored, Rotated
<1>14. RefusedAreDead'
  <2> SUFFICES ASSUME NEW j \in refused
               PROVE  Stored(j)' /\ (j \in raced \/ Dead(keys'[j]))
    BY DEF RotateRetire, RefusedAreDead, Dead
  <2>1. j \in Keys /\ Stored(j) /\ (j \in raced \/ Dead(keys[j]))
    BY DEF KeysInv, KeysTypeOK, RefusedAreDead
  <2>2. CASE j = k
    <3>1. clock \in Nat /\ clock < Never
      BY KeysAssumption DEF KeysInv, KeysTypeOK
    <3> QED
      BY <1>5, <1>6, <1>9, <2>1, <2>2, <3>1, KeysAssumption DEF Dead
  <2>3. CASE j # k
    BY <1>4, <1>9, <2>1, <2>3
  <2> QED
    BY <2>2, <2>3
<1>15. NoOutage'
  BY <1>1, <1>4 DEF RotateRetire, KeysInv, CallInv, NoOutage, Stored, Rotated
<1> QED
  BY <1>8, <1>10, <1>11, <1>12, <1>13, <1>14, <1>15
     DEF RotateRetire, KeysInv, OneSuccessor, RefusalIsFinal

LEMMA BreakStep ==
  ASSUME KeysInv, NEW c \in Callers, Break(c)
  PROVE  KeysInv'
<1>1. work'[c] = AtRest /\ \A d \in Callers \ {c} : work'[d] = work[d]
  BY DEF Break, KeysInv, KeysTypeOK
<1>2. work[c].key \in Keys /\ halved \subseteq halved'
  BY BusyFacts DEF Break
<1>3. KeysTypeOK'
  BY <1>1, <1>2 DEF Break, KeysInv, KeysTypeOK
<1>4. CallInv(c)'
  BY <1>1 DEF CallInv, AtRest, Rotating
<1>5. \A d \in Callers : CallInv(d)'
  BY <1>1, <1>2, <1>4, OthersKeep DEF Break
<1>6. Loners'
  BY <1>1 DEF Break, KeysInv, Loners, Rotating, AtRest
<1>7. Lineage'
  BY <1>1 DEF Break, KeysInv, Lineage, Stored, Rotated
<1> QED
  BY <1>2, <1>3, <1>5, <1>6, <1>7
     DEF Break, KeysInv, GraceIsOfRotation, RefusedAreDead, NoOutage, OneSuccessor,
         RefusalIsFinal, Stored, Rotated, Dead

-----------------------------------------------------------------------------
(* The theorems                                                            *)

\* The inductive invariant of the key table and of the operations under way.
THEOREM KeysInvariant == KeysSpec => []KeysInv
<1>1. KeysInv /\ [KeysNext]_keyVars => KeysInv'
  <2> SUFFICES ASSUME KeysInv, [KeysNext]_keyVars PROVE KeysInv'
    OBVIOUS
  <2>1. ASSUME NEW k \in Keys, NEW e \in Expiries, Issue(k, e) PROVE KeysInv'
    BY <2>1, IssueStep
  <2>2. ASSUME NEW k \in Keys, Revoke(k) PROVE KeysInv'
    BY <2>2, RevokeStep
  <2>3. ASSUME NEW c \in Callers, Verify(c) PROVE KeysInv'
    BY <2>3, VerifyLoadStep, VerifyAnswerStep DEF Verify
  <2>4. ASSUME NEW c \in Callers, Rotate(c) PROVE KeysInv'
    BY <2>4, RotateLoadStep, RotateInsertStep, RotateRetireStep DEF Rotate
  <2>5. ASSUME NEW c \in Callers, Break(c) PROVE KeysInv'
    BY <2>5, BreakStep
  <2>6. CASE Tick
    BY <2>6, TickStep
  <2>7. CASE UNCHANGED keyVars
    BY <2>7
       DEF keyVars, KeysInv, KeysTypeOK, CallInv, Loners, Lineage, GraceIsOfRotation, RefusedAreDead,
           NoOutage, OneSuccessor, RefusalIsFinal, Stored, Rotated, Rotating, Older, Dead
  <2> QED
    BY <2>1, <2>2, <2>3, <2>4, <2>5, <2>6, <2>7 DEF KeysNext
<1> QED
  BY KeysInitInv, <1>1, PTL DEF KeysSpec

\* Type correctness of the table and of the operations under way.
THEOREM KeysTypeCorrect == KeysSpec => []KeysTypeOK
<1>1. KeysInv => KeysTypeOK
  BY DEF KeysInv
<1> QED
  BY KeysInvariant, <1>1, PTL

\* A key that verifyKey refused as revoked or expired is not granted again, unless two
\* calls of rotateKey held it at once.
THEOREM RefusedForGood == KeysSpec => []RefusalIsFinal
<1>1. KeysInv => RefusalIsFinal
  BY DEF KeysInv
<1> QED
  BY KeysInvariant, <1>1, PTL

\* rotateKey sets no key's grace running before its successor is stored.
THEOREM SuccessorFirst == KeysSpec => []NoOutage
<1>1. KeysInv => NoOutage
  BY DEF KeysInv
<1> QED
  BY KeysInvariant, <1>1, PTL

\* rotateKey mints a second successor of a key only if its calls overlapped or one was
\* cut between its statements.
THEOREM SuccessorUnique == KeysSpec => []OneSuccessor
<1>1. KeysInv => OneSuccessor
  BY DEF KeysInv
<1> QED
  BY KeysInvariant, <1>1, PTL
=============================================================================
