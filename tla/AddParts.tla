------------------------------ MODULE AddParts ------------------------------
(***************************************************************************)
(* `partkit add` of several targets (packages/core/src/ops/add-parts.ts):  *)
(* a plan is resolved from the registry's index and its parts are added    *)
(* one by one, each downloaded first, while new releases are published.    *)
(*                                                                         *)
(* What addPart and vendorPart do to the files of the repository is the    *)
(* subject of PartRepo and one step here.  Targets are capabilities: a     *)
(* pack stands for its own, a part for the one it is named for.  One       *)
(* command runs at a time.                                                 *)
(***************************************************************************)
EXTENDS ResolvePlan, FetchContent

CONSTANTS
  Capabilities,
  Registries,  \* what releases provide and require: the registries considered
  MaxRuns,     \* bound: commands
  MaxAsked     \* bound: parts a command asks a release of

ASSUME AddAssumption ==
  /\ MaxRuns \in Nat /\ MaxAsked \in Nat
  /\ \A each \in Registries : \A p \in Parts, r \in Releases :
       each.provides[p][r] \cup each.requires[p][r] \subseteq [cap : Capabilities, major : Nat]

VARIABLES
  reg,         \* the registry; its releases never change
  latest,      \* its index: the latest release of each part
  pins,        \* parts.lock
  cmd,         \* the command under way, or the last one
  older,       \* older[p]: parts that were there before p's command (history)
  adrift,      \* parts whose command had installed a release it did not plan (history)
  runs

registry == <<reg, latest>>
repo == <<pins, older, adrift>>
vars == <<fetch, registry, repo, cmd, runs>>

Nothing == [p \in Parts |-> None]
Installed == {p \in Parts : pins[p] # None}
Target == Head(cmd.todo)
Begun(wants, asked) ==
  [pc |-> "resolve", wants |-> wants, asked |-> asked, todo |-> <<>>, planned |-> Nothing,
   found |-> {}, rel |-> None, astray |-> FALSE, failed |-> FALSE]

\* addPart's release: the one asked for, or else the latest of an index read again.
ReleaseOf(p) == IF cmd.asked[p] # None THEN cmd.asked[p] ELSE latest[p]

Init ==
  /\ FetchInit
  /\ reg \in Registries
  /\ latest \in {at \in [Parts -> Releases] : OneOffer(reg, at)}
  /\ pins = Nothing
  /\ cmd = [Begun({}, Nothing) EXCEPT !.pc = "idle"]
  /\ older = [p \in Parts |-> {}] /\ adrift = {}
  /\ runs = 0

Publish(p) ==
  /\ latest[p] + 1 \in Releases
  /\ latest' = [latest EXCEPT ![p] = @ + 1]
  /\ OneOffer(reg, latest')
  /\ UNCHANGED <<fetch, reg, repo, cmd, runs>>

Begin(caps, asked) ==
  /\ cmd.pc = "idle" /\ runs < MaxRuns
  /\ runs' = runs + 1
  /\ cmd' = Begun({[cap |-> c, major |-> 0] : c \in caps}, asked)
  /\ UNCHANGED <<fetch, registry, repo>>

\* The whole plan is resolved, and every adapter and version in it checked, before
\* anything is installed.
Plan ==
  /\ cmd.pc = "resolve"
  /\ LET todo == Resolve(reg, latest, pins, cmd.wants)
     IN  cmd' = IF todo = Refusal THEN [cmd EXCEPT !.pc = "idle"]
                ELSE [cmd EXCEPT !.pc = "add", !.todo = todo, !.planned = latest,
                                 !.found = Installed]
  /\ UNCHANGED <<fetch, registry, repo, runs>>

Refuse ==
  /\ cmd.pc = "resolve"
  /\ cmd' = [cmd EXCEPT !.pc = "idle"]
  /\ UNCHANGED <<fetch, registry, repo, runs>>

\* The rest of the plan is not attempted.
Fail == cmd' = [cmd EXCEPT !.pc = "idle", !.failed = TRUE]

Overlap(p, r) == \E q \in Installed : CapsOf(reg, q, pins[q]) \cap CapsOf(reg, p, r) # {}

\* addPart: what is installed, or provided by an installed part, is refused.
Add ==
  /\ cmd.pc = "add"
  /\ IF cmd.todo = <<>>
       THEN cmd' = [cmd EXCEPT !.pc = "idle"] /\ UNCHANGED fetch
     ELSE IF Target \in Installed \/ Overlap(Target, ReleaseOf(Target))
       THEN Fail /\ UNCHANGED fetch
     ELSE /\ cmd' = [cmd EXCEPT !.pc = "fetch", !.rel = ReleaseOf(Target),
                                !.astray = @ \/ ReleaseOf(Target) # cmd.planned[Target]]
          /\ StartFetch
  /\ UNCHANGED <<registry, repo, runs>>

\* The registry is down, the part unattested, an npm range conflicts.
AddFails ==
  /\ cmd.pc = "add" /\ cmd.todo # <<>>
  /\ Fail
  /\ UNCHANGED <<fetch, registry, repo, runs>>

\* A temporary directory whose removal fails is left behind on purpose (registry.ts:390):
\* that is not modelled.
Fetched ==
  /\ cmd.pc = "fetch" /\ Done
  /\ IF Threw THEN Fail /\ Cleanup
     ELSE cmd' = [cmd EXCEPT !.pc = "vendor"] /\ UNCHANGED fetch
  /\ UNCHANGED <<registry, repo, runs>>

\* The tree is materialized, matches its attestation and is pinned.  What follows the
\* pin, package.json and .env.example, may still fail.
Vendor ==
  /\ cmd.pc = "vendor"
  /\ Cleanup
  /\ pins' = [pins EXCEPT ![Target] = cmd.rel]
  /\ older' = [older EXCEPT ![Target] = cmd.found]
  /\ adrift' = IF cmd.astray THEN adrift \cup {Target} ELSE adrift
  /\ \/ cmd' = [cmd EXCEPT !.pc = "add", !.todo = Tail(@)]
     \/ Fail
  /\ UNCHANGED <<registry, runs>>

VendorFails ==
  /\ cmd.pc = "vendor"
  /\ Cleanup /\ Fail
  /\ UNCHANGED <<registry, repo, runs>>

Fetching(w) ==
  /\ Work(w) \/ DownloadFails(w) \/ WriteFails(w)
  /\ UNCHANGED <<registry, repo, cmd, runs>>

-----------------------------------------------------------------------------
\* The releases asked for, of some of the parts (`part@1.2.0`).
Askings ==
  {asked \in [Parts -> Releases \cup {None}] : Cardinality({p \in Parts : asked[p] # None}) <= MaxAsked}

Next ==
  \/ \E p \in Parts : Publish(p)
  \/ \E caps \in SUBSET Capabilities \ {{}}, asked \in Askings : Begin(caps, asked)
  \/ Plan \/ Refuse \/ Add \/ AddFails \/ Fetched \/ Vendor \/ VendorFails
  \/ \E w \in Workers : Fetching(w)

Spec == Init /\ [][Next]_vars
-----------------------------------------------------------------------------
(* What must hold                                                          *)

\* Whatever fails midway and whatever is added later, an installed part finds what it
\* requires installed ("pulls in requires", add-parts.ts:10), in the major it requires
\* unless the provider was there before.  A command that installs another release than it
\* planned, one asked for or just published, promises nothing.
RequirementsMet ==
  \A p \in Installed \ adrift : \A w \in reg.requires[p][pins[p]] :
    \E q \in Offers(reg, pins, w.cap) :
      q \in older[p] \/ MajorOf(reg, q, pins[q], w.cap) >= w.major

\* Run again after a failure the command has exactly the parts to add that the first run
\* has not pinned (add-parts.ts:205-206), as long as no release was published in between.
\* One that failed after its pin is taken for added: what its add left undone stays so.
\* One that was installed before and is planned for what a later release provides is
\* refused, and is to add again.
RerunResumes ==
  cmd.pc = "idle" /\ cmd.failed /\ ~cmd.astray /\ latest = cmd.planned =>
    LET rest == Resolve(reg, latest, pins, cmd.wants)
    IN  rest # Refusal /\ ToSet(rest) = {p \in ToSet(cmd.todo) : pins[p] # latest[p]}

\* A command leaves no temporary directory behind: none is removed under a worker that
\* still writes and would make it again (registry.ts:371-373).
TempIsGone == cmd.pc = "idle" => ~made
-----------------------------------------------------------------------------
(* The inductive invariants                                                *)

Pins == [Parts -> Releases \cup {None}]
Command ==
  [pc : {"idle", "resolve", "add", "fetch", "vendor"}, todo : Seq(Parts),
   wants : SUBSET [cap : Capabilities, major : Nat], asked : Pins, planned : Pins,
   found : SUBSET Parts, rel : Releases \cup {None}, astray : BOOLEAN, failed : BOOLEAN]

StateType ==
  /\ reg \in Registries /\ latest \in [Parts -> Releases]
  /\ pins \in Pins /\ cmd \in Command
  /\ older \in [Parts -> SUBSET Parts] /\ adrift \subseteq Parts

\* Of these releases p provides what is wanted, in a major that will do.
Meets(p, at, w) == p \in Offers(reg, at, w.cap) /\ MajorOf(reg, p, at[p], w.cap) >= w.major

\* It was there before the command, or is in its plan no later than place i.
Provided(w, i) ==
  \/ \E p \in cmd.found : p \in Offers(reg, pins, w.cap)
  \/ \E p \in Parts : /\ Meets(p, cmd.planned, w)
                     /\ (pins[p] = cmd.planned[p] \/ \E j \in 1..i : cmd.todo[j] = p)

\* The parts still to add find what they require, in their order, unless the command
\* installed what it did not plan.
PlanHolds ==
  cmd.pc \in {"add", "fetch", "vendor"} =>
    /\ cmd.found \subseteq Installed
    /\ ~cmd.astray =>
         \A i \in 1..Len(cmd.todo) :
           \A w \in reg.requires[cmd.todo[i]][cmd.planned[cmd.todo[i]]] : Provided(w, i)

\* The part being added is the first of them, in the release planned for it.
TargetIsNew ==
  cmd.pc \in {"fetch", "vendor"} =>
    /\ cmd.todo # <<>> /\ cmd.rel \in Releases /\ Target \notin Installed
    /\ ~cmd.astray => cmd.rel = cmd.planned[Target]

AddInv == StateType /\ PlanHolds /\ TargetIsNew /\ RequirementsMet

\* Resolved again, with the releases it planned, a command has the rest of its plan to add.
Resumable ==
  LET rest == Resolve(reg, cmd.planned, pins, cmd.wants)
  IN  rest # Refusal /\ ToSet(rest) = {p \in ToSet(cmd.todo) : pins[p] # cmd.planned[p]}

ResumeInv ==
  /\ OneOffer(reg, latest)
  /\ cmd.pc = "resolve" => ~cmd.failed
  /\ cmd.pc \in {"add", "fetch", "vendor"} \/ cmd.failed =>
       /\ cmd.planned \in [Parts -> Releases] /\ OneOffer(reg, cmd.planned)
       /\ ~cmd.astray => Resumable

\* Workers run only while the command waits for them.
TempInv ==
  /\ cmd.pc # "fetch" => Settled
  /\ cmd.pc \notin {"fetch", "vendor"} => ~made
=============================================================================
