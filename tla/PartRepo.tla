------------------------------ MODULE PartRepo ------------------------------
(***************************************************************************)
(* A repository of vendored parts and the commands that change it:         *)
(* `partkit add`, `upgrade` and `eject` (packages/core/src/ops/*.ts with   *)
(* vendor.ts, materialize.ts, hash.ts and lockfile.ts).                    *)
(*                                                                         *)
(* Every awaited file operation that another command, a failure or a kill  *)
(* can fall between is a step.  The commands take no lock: each reads      *)
(* parts.lock and package.json once, early, and writes back what it read.  *)
(* A release stands for a version with its adapter; a file's content for   *)
(* the release it came from; the text of AGENTS.md for the list in it.     *)
(* .env.example and the warnings printed are left out, and package.json    *)
(* and AGENTS.md are written whole.                                        *)
(***************************************************************************)
EXTENDS Naturals, FiniteSets

CONSTANTS
  Procs,      \* command lines that may run at once
  Parts,      \* part names; each is also the capability the part is named for
  Releases,   \* releases of a part in the registry
  Files,      \* files of a release
  Provides,   \* Provides[p][r]: capabilities of release r of part p
  Needs,      \* Needs[p][r]: its npm dependencies
  Commands,   \* the commands people use, of "add", "upgrade", "eject"
  MaxCuts,    \* bound: kills and failed file operations in a behaviour
  MaxRuns,    \* bound: commands started in a behaviour
  MaxTogether,\* bound: how many of them, the first, may start while another runs
  None, Bad, Torn

ASSUME RepoAssumption ==
  /\ None \notin Releases /\ Commands \subseteq {"add", "upgrade", "eject"}
  /\ MaxCuts \in Nat /\ MaxRuns \in Nat /\ MaxTogether \in 0..MaxRuns

VARIABLES
  lock,       \* parts.lock: the release pinned for each part, or Torn
  disk,       \* directories: <<"parts"|"tmp"|"ejected", part>>
  deps,       \* package.json: the names in dependencies
  listed,     \* AGENTS.md: its list of installed parts
  proc,       \* the commands under way
  hurt,       \* parts a cut or overlapped command may have left half done (history)
  stray,      \* a kill or a failed sweep may have left a staged tree (history)
  cuts,       \* kills and failures so far
  runs        \* commands started so far

repo == <<lock, disk, deps, listed>>
vars == <<repo, proc, hurt, stray, cuts, runs>>

Unlisted == [p \in Parts |-> None]
NoDir == [tree |-> [f \in Files |-> None], att |-> None]
Genuine(r) == [tree |-> [f \in Files |-> r], att |-> r]
Place(c) == <<IF proc[c].op = "upgrade" THEN "tmp" ELSE "parts", proc[c].part>>
Here(c) == <<"parts", proc[c].part>>

Started(op, pc, targets) ==
  [op |-> op, pc |-> pc, targets |-> targets, todo |-> targets, part |-> None, rel |-> None,
   lf |-> Unlisted, pkg |-> {}, left |-> {}, flaw |-> FALSE, alone |-> TRUE]
Idle == Started("add", "idle", {})
Active == {c \in Procs : proc[c].pc # "idle"}
Goto(c, pc) == proc' = [proc EXCEPT ![c].pc = pc]
Finish(c) == proc' = [proc EXCEPT ![c] = Idle]

\* "One provider per capability per repo" (add.ts:59, docs/03-architecture.md:47).
OneProvider(pins) ==
  \A p, q \in Parts : p # q /\ pins[p] # None /\ pins[q] # None =>
    Provides[p][pins[p]] \cap Provides[q][pins[q]] = {}

\* A repository some parts were added to before.
Init ==
  /\ lock \in {pins \in [Parts -> Releases \cup {None}] : OneProvider(pins)}
  /\ listed = lock
  /\ deps = UNION {Needs[p][lock[p]] : p \in {q \in Parts : lock[q] # None}}
  /\ disk = [x \in {"parts", "tmp", "ejected"} \X Parts |->
              IF x[1] = "parts" /\ lock[x[2]] # None THEN Genuine(lock[x[2]]) ELSE NoDir]
  /\ proc = [c \in Procs |-> Idle]
  /\ hurt = {} /\ stray = FALSE /\ cuts = 0 /\ runs = 0

-----------------------------------------------------------------------------
(* A command starts, reads the lockfile and decides                        *)

Begin(c, op, targets) ==
  /\ c \notin Active /\ runs < (IF Active = {} THEN MaxRuns ELSE MaxTogether)
  /\ runs' = runs + 1
  /\ LET company == Active # {}
     IN  /\ proc' = [d \in Procs |->
              IF d = c
                THEN [Started(op, IF op = "add" THEN "resolve" ELSE "pick", targets)
                        EXCEPT !.alone = ~company]
                ELSE IF d \in Active THEN [proc[d] EXCEPT !.alone = FALSE] ELSE proc[d]]
         /\ hurt' = IF company
                      THEN hurt \cup targets \cup UNION {proc[d].targets : d \in Active}
                      ELSE hurt
  /\ UNCHANGED <<repo, stray, cuts>>

\* addParts drops the targets whose capability an installed part provides.
Resolve(c) ==
  /\ proc[c].pc = "resolve"
  /\ IF lock = Torn
       THEN Finish(c)
       ELSE proc' = [proc EXCEPT
              ![c].pc = "pick",
              ![c].todo = {p \in @ : \A q \in Parts :
                             lock[q] # None => p \notin Provides[q][lock[q]]}]
  /\ UNCHANGED <<repo, hurt, stray, cuts, runs>>

\* The next part of the plan, at the release the command line asks for.
Pick(c) ==
  /\ proc[c].pc = "pick"
  /\ IF proc[c].todo = {}
       THEN Finish(c)
       ELSE \E p \in proc[c].todo,
               r \in IF proc[c].op = "eject" THEN {None} ELSE Releases :
              proc' = [proc EXCEPT ![c].pc = "open", ![c].part = p, ![c].rel = r,
                                   ![c].todo = @ \ {p}]
  /\ UNCHANGED <<repo, hurt, stray, cuts, runs>>

OverlapIgnored(p, r) == FALSE                                        \* mutant
Overlap(p, r) == \E q \in Parts :
  lock[q] # None /\ Provides[q][lock[q]] \cap Provides[p][r] # {}

Refused(op, p, r) ==
  CASE op = "add" -> lock[p] # None \/ Overlap(p, r)
    [] OTHER -> lock[p] = None

Open(c) ==
  LET p == proc[c].part  r == proc[c].rel  op == proc[c].op
  IN  /\ proc[c].pc = "open"
      /\ IF lock = Torn \/ Refused(op, p, r) \/ (op = "upgrade" /\ lock[p] = r)
           THEN Finish(c)
         ELSE proc' = [proc EXCEPT ![c].lf = lock,
                                   ![c].pc = IF op = "eject" THEN "move" ELSE "plan"]
      /\ UNCHANGED <<repo, hurt, stray, cuts, runs>>

PlanDeps(c) ==
  /\ proc[c].pc = "plan"
  /\ proc' = [proc EXCEPT ![c].pkg = deps, ![c].pc = "clear"]
  /\ UNCHANGED <<repo, hurt, stray, cuts, runs>>

-----------------------------------------------------------------------------
(* vendorPart: into parts/ for add, into .upgrade-tmp for upgrade          *)

Staging == {"clear", "copy", "hash", "attest"}
Swapping == {"rmold", "rename"}

\* What an exception makes of a command: upgrade has a finally.
Thrown(c) ==
  IF proc[c].op = "upgrade" /\ proc[c].pc \in Staging \cup Swapping
    THEN [proc[c] EXCEPT !.pc = "sweep", !.flaw = TRUE]
    ELSE Idle

\* The registry is down, the adapter is not installable, a version conflicts; in
\* vendorPart, before it touches the directory, the part is not attested or a download
\* fails.
Refuse(c) ==
  /\ proc[c].pc \in {"resolve", "plan", "clear"}
  /\ proc' = [proc EXCEPT ![c] = Thrown(c)]
  /\ UNCHANGED <<repo, hurt, stray, cuts, runs>>

Cleared(c) == [disk EXCEPT ![Place(c)] = NoDir]

Clear(c) ==
  /\ proc[c].pc = "clear"
  /\ disk' = Cleared(c)
  /\ proc' = [proc EXCEPT ![c].pc = "copy", ![c].left = Files]
  /\ UNCHANGED <<lock, deps, listed, hurt, stray, cuts, runs>>

\* What the registry served may not be what was attested.
Copy(c) ==
  /\ proc[c].pc = "copy"
  /\ \E f \in proc[c].left, got \in {proc[c].rel, Bad} :
       /\ disk' = [disk EXCEPT ![Place(c)].tree[f] = got]
       /\ proc' = [proc EXCEPT ![c].left = @ \ {f},
                               ![c].pc = IF proc[c].left = {f} THEN "hash" ELSE "copy"]
  /\ UNCHANGED <<lock, deps, listed, hurt, stray, cuts, runs>>

AnyHash(c) == TRUE                                                   \* mutant
HashMatches(c) == disk[Place(c)].tree = Genuine(proc[c].rel).tree

Hash(c) ==
  /\ proc[c].pc = "hash" /\ disk[Place(c)] # NoDir
  /\ IF HashMatches(c)
       THEN Goto(c, "attest") /\ UNCHANGED disk
       ELSE /\ disk' = Cleared(c)
            /\ proc' = [proc EXCEPT ![c] = Thrown(c)]
  /\ UNCHANGED <<lock, deps, listed, hurt, stray, cuts, runs>>

Attest(c) ==
  /\ proc[c].pc = "attest" /\ disk[Place(c)] # NoDir
  /\ disk' = [disk EXCEPT ![Place(c)].att = proc[c].rel]
  /\ Goto(c, IF proc[c].op = "upgrade" THEN "rmold" ELSE "lock")
  /\ UNCHANGED <<lock, deps, listed, hurt, stray, cuts, runs>>

\* Another command removed the directory from under this one (ENOENT), or put one
\* where it renames to (ENOTEMPTY).
Disturbed(c) ==
  /\ \/ proc[c].pc = "copy" /\ proc[c].left # Files /\ disk[Place(c)] = NoDir
     \/ proc[c].pc \in {"hash", "attest", "rename"} /\ disk[Place(c)] = NoDir
     \/ proc[c].pc = "rename" /\ disk[Here(c)] # NoDir
  /\ proc' = [proc EXCEPT ![c] = Thrown(c)]
  /\ UNCHANGED <<repo, hurt, stray, cuts, runs>>

-----------------------------------------------------------------------------
(* upgrade: swap the staged tree in, sweep the stage                       *)

RemoveOld(c) ==
  /\ proc[c].pc = "rmold"
  /\ disk' = [disk EXCEPT ![Here(c)] = NoDir]
  /\ Goto(c, "rename")
  /\ UNCHANGED <<lock, deps, listed, hurt, stray, cuts, runs>>

Rename(c) ==
  /\ proc[c].pc = "rename" /\ disk[Place(c)] # NoDir /\ disk[Here(c)] = NoDir
  /\ disk' = [disk EXCEPT ![Here(c)] = disk[Place(c)], ![Place(c)] = NoDir]
  /\ Goto(c, "sweep")
  /\ UNCHANGED <<lock, deps, listed, hurt, stray, cuts, runs>>

SweptOnSuccess(c) ==                        \* mutant: no finally
  IF proc[c].flaw THEN disk ELSE [x \in DOMAIN disk |-> IF x[1] = "tmp" THEN NoDir ELSE disk[x]]
Swept(c) == [x \in DOMAIN disk |-> IF x[1] = "tmp" THEN NoDir ELSE disk[x]]

Sweep(c) ==
  /\ proc[c].pc = "sweep"
  /\ disk' = Swept(c)
  /\ IF proc[c].flaw THEN Finish(c) ELSE Goto(c, "lock")
  /\ stray' = FALSE
  /\ UNCHANGED <<lock, deps, listed, hurt, cuts, runs>>

-----------------------------------------------------------------------------
(* eject: move the code out and void its attestation; any exception is     *)
(* taken to say that there was nothing to move                             *)

Move(c) ==
  LET to == <<"ejected", proc[c].part>>
  IN  /\ proc[c].pc = "move"
      /\ IF disk[Here(c)] = NoDir
           THEN proc' = [proc EXCEPT ![c].pc = "lock", ![c].flaw = TRUE] /\ UNCHANGED disk
         ELSE IF disk[to] # NoDir
           THEN Finish(c) /\ UNCHANGED disk
         ELSE disk' = [disk EXCEPT ![to] = disk[Here(c)], ![Here(c)] = NoDir] /\ Goto(c, "void")
      /\ UNCHANGED <<lock, deps, listed, hurt, stray, cuts, runs>>

Void(c) ==
  /\ proc[c].pc = "void"
  /\ disk' = [disk EXCEPT ![<<"ejected", proc[c].part>>].att = None]
  /\ Goto(c, "lock")
  /\ UNCHANGED <<lock, deps, listed, hurt, stray, cuts, runs>>

-----------------------------------------------------------------------------
(* Every command ends the same way: lockfile, package.json, AGENTS.md      *)

Pinned(c) == IF proc[c].op = "eject" THEN None ELSE proc[c].rel

\* writeFile truncates, then writes from the start: over what another command wrote
\* in between, whose longer text may stick out behind.
TruncateLock(c) ==
  /\ proc[c].pc = "lock"
  /\ lock' = Torn
  /\ proc' = [proc EXCEPT ![c].pc = "write", ![c].lf[proc[c].part] = Pinned(c)]
  /\ UNCHANGED <<disk, deps, listed, hurt, stray, cuts, runs>>

WriteLock(c) ==
  /\ proc[c].pc = "write"
  /\ lock' \in {proc[c].lf} \cup IF lock \in {Torn, proc[c].lf} THEN {} ELSE {Torn}
  /\ Goto(c, IF proc[c].op = "eject" THEN "list" ELSE "deps")
  /\ UNCHANGED <<disk, deps, listed, hurt, stray, cuts, runs>>

ApplyDeps(c) ==
  LET needs == Needs[proc[c].part][proc[c].rel]
  IN  /\ proc[c].pc = "deps"
      /\ deps' = IF needs \subseteq proc[c].pkg THEN deps ELSE proc[c].pkg \cup needs
      /\ Goto(c, "list")
      /\ UNCHANGED <<lock, disk, listed, hurt, stray, cuts, runs>>

\* addParts goes on to the next part of its plan.
Complete(c) == IF proc[c].op = "add" THEN Goto(c, "pick") ELSE Finish(c)

\* The part is in order again if nothing else ran meanwhile.
SyncAgents(c) ==
  /\ proc[c].pc = "list"
  /\ listed' = proc[c].lf
  /\ Complete(c)
  /\ hurt' = IF proc[c].alone /\ ~proc[c].flaw THEN hurt \ {proc[c].part} ELSE hurt
  /\ UNCHANGED <<lock, disk, deps, stray, cuts, runs>>

-----------------------------------------------------------------------------
(* Kills and failed file operations                                        *)

Writing == {"lock", "write", "deps", "list"}

\* The part in parts/ is at stake: an upgrade's is safe until the swap.
Exposed(c) ==
  \/ proc[c].pc \in Writing \cup Swapping \cup {"move", "void"}
  \/ proc[c].op = "add" /\ proc[c].pc \in Staging
  \/ proc[c].op = "upgrade" /\ proc[c].pc = "sweep" /\ ~proc[c].flaw

Staged(c) == proc[c].op = "upgrade" /\ proc[c].pc \in Staging \cup Swapping \cup {"sweep"}

\* What a recursive removal cut short leaves: some of the files.
Removing(c) ==
  CASE proc[c].pc = "clear" -> {Place(c)}
    [] proc[c].pc = "rmold" -> {Here(c)}
    [] proc[c].pc = "sweep" -> {<<"tmp", proc[c].part>>}
    [] OTHER -> {}
Gutted(d, gone) == [d EXCEPT !.tree = [f \in Files |-> IF f \in gone THEN None ELSE @[f]]]

Cut(c) ==
  /\ c \in Active /\ cuts < MaxCuts
  /\ cuts' = cuts + 1
  /\ \E gone \in SUBSET Files :
       /\ Removing(c) = {} => gone = {}
       /\ disk' = [x \in DOMAIN disk |->
                     IF x \in Removing(c) THEN Gutted(disk[x], gone) ELSE disk[x]]
  /\ hurt' = IF Exposed(c) THEN hurt \cup {proc[c].part} ELSE hurt
  /\ UNCHANGED <<lock, deps, listed, runs>>

Kill(c) ==
  /\ Cut(c) /\ Finish(c)
  /\ stray' = (stray \/ Staged(c))

\* An AGENTS.md that cannot be read is a warning; one that cannot be written ends the
\* command.
Fault(c) ==
  /\ Cut(c)
  /\ stray' = (stray \/ proc[c].pc = "sweep")
  /\ \/ /\ proc[c].pc \in Staging \cup Swapping \cup Writing \cup {"sweep"}
        /\ proc' = [proc EXCEPT ![c] = Thrown(c)]
     \/ /\ proc[c].pc \in {"move", "void"}
        /\ proc' = [proc EXCEPT ![c].pc = "lock", ![c].flaw = TRUE]
     \/ proc[c].pc = "list" /\ Complete(c)

-----------------------------------------------------------------------------
Start(c) == \E op \in Commands, targets \in SUBSET Parts :
  /\ targets # {} /\ (op = "add" \/ Cardinality(targets) = 1)
  /\ Begin(c, op, targets)

Decide(c) == Resolve(c) \/ Pick(c) \/ Open(c) \/ PlanDeps(c)
Vendor(c) == Refuse(c) \/ Clear(c) \/ Copy(c) \/ Hash(c) \/ Attest(c) \/ Disturbed(c)
Swap(c) == RemoveOld(c) \/ Rename(c) \/ Sweep(c)
Eject(c) == Move(c) \/ Void(c)
Conclude(c) == TruncateLock(c) \/ WriteLock(c) \/ ApplyDeps(c) \/ SyncAgents(c)

Next == \E c \in Procs :
  \/ Start(c) \/ Decide(c) \/ Vendor(c) \/ Swap(c) \/ Eject(c) \/ Conclude(c)
  \/ Kill(c) \/ Fault(c)

Spec == Init /\ [][Next]_vars

-----------------------------------------------------------------------------
(* What must hold                                                          *)

Packages == UNION {Needs[p][r] : p \in Parts, r \in Releases}
Pins == [Parts -> Releases \cup {None}]
Directory == [tree : [Files -> Releases \cup {None, Bad}], att : Releases \cup {None}]
Command ==
  [op : {"add", "upgrade", "eject"}, targets : SUBSET Parts, todo : SUBSET Parts,
   part : Parts \cup {None}, rel : Releases \cup {None}, lf : Pins,
   pkg : SUBSET Packages, left : SUBSET Files,
   flaw : BOOLEAN, alone : BOOLEAN,
   pc : {"idle", "resolve", "pick", "open", "plan", "sweep", "move", "void"}
          \cup Staging \cup Swapping \cup Writing]

TypeOK ==
  /\ lock \in Pins \cup {Torn} /\ listed \in Pins
  /\ disk \in [{"parts", "tmp", "ejected"} \X Parts -> Directory]
  /\ deps \subseteq Packages
  /\ proc \in [Procs -> Command]
  /\ hurt \subseteq Parts /\ stray \in BOOLEAN /\ cuts \in 0..MaxCuts /\ runs \in 0..MaxRuns

\* guardRepo finds a part with this pin neither untracked, missing nor modified.
GuardClean(p, pin) ==
  IF pin = None THEN disk[<<"parts", p>>] = NoDir
                ELSE disk[<<"parts", p>>].tree = Genuine(pin).tree

\* verifyRepo finds the attestation of what is pinned.
VerifyClean(p, pin) == pin # None => disk[<<"parts", p>>].att = pin

\* The part on disk is the attested release of the pin, with what it needs in
\* package.json and AGENTS.md; or there is no trace of it.
Fits(p, pin) ==
  /\ GuardClean(p, pin) /\ VerifyClean(p, pin)
  /\ listed[p] = pin
  /\ pin # None => Needs[p][pin] \subseteq deps
InStep(p) == Fits(p, lock[p])

\* Whatever is killed, fails or runs at once, only the part a command was about is
\* out of step: the other parts, and the part of a command that failed its integrity
\* check or of an upgrade still staging, are as they were; and a command that then
\* runs alone to its end on that part puts it right (upgrade.ts:85-86, vendor.ts:16-21).
DamageIsLocal ==
  lock # Torn =>
    \A p \in Parts \ hurt :
      InStep(p) \/ \E c \in Active : proc[c].part = p /\ Exposed(c)

\* The inductive invariant behind it.  A command is at steps that suit it.
Holding == {"plan", "sweep", "move", "void"} \cup Staging \cup Swapping \cup Writing

Shape(c) ==
  LET k == proc[c]
  IN  /\ k.todo \subseteq k.targets
      /\ k.pc \in Holding \cup {"open"} =>
           /\ k.part \in k.targets
           /\ k.op # "eject" => k.rel \in Releases
      /\ k.pc = "resolve" => k.op = "add"
      /\ k.pc \in {"plan", "deps"} \cup Staging => k.op # "eject"
      /\ k.pc \in Swapping \cup {"sweep"} => k.op = "upgrade"
      /\ k.pc \in {"move", "void"} => k.op = "eject"
      /\ k.flaw => k.op = "eject" \/ k.pc = "sweep"
      /\ k.pc \in {"write", "deps", "list"} => k.lf[k.part] = Pinned(c)

\* A command had no company, or all its parts are given up as hurt.
Company(c) == c \in Active => IF proc[c].alone THEN Active = {c} ELSE proc[c].targets \subseteq hurt

\* What a command read of a part it is not about, and may write back, is still so.
Preserves(c, p) ==
  LET k == proc[c]
  IN  k.pc \in Holding /\ p # k.part =>
        /\ Fits(p, k.lf[p])
        /\ k.op # "eject" /\ k.pc \notin {"plan", "list"} /\ k.lf[p] # None =>
             Needs[p][k.lf[p]] \subseteq k.pkg

\* What a command without company has made of its part so far.
Achieved(c) ==
  LET k == proc[c]
  IN  /\ IF k.pc = "write" THEN lock = Torn ELSE lock = k.lf
      /\ k.pc = "attest" => disk[Place(c)].tree = Genuine(k.rel).tree
      /\ k.pc \in Swapping => disk[Place(c)] = Genuine(k.rel)
      /\ k.pc = "rename" => disk[Here(c)] = NoDir
      /\ k.pc = "sweep" /\ ~k.flaw => disk[Here(c)] = Genuine(k.rel)
      /\ k.op # "eject" =>
           /\ k.pc \in Writing => disk[Here(c)] = Genuine(k.rel)
           /\ k.pc \notin {"plan", "list"} => deps = k.pkg
           /\ k.pc = "list" => Needs[k.part][k.rel] \subseteq deps
      /\ k.op = "eject" /\ k.pc # "move" /\ (~k.flaw \/ k.part \notin hurt) =>
           disk[Here(c)] = NoDir

\* What it has left alone of a part that was in order.
Spared(c) ==
  LET k == proc[c]
  IN  /\ k.op = "add" /\ k.pc \in {"plan"} \cup Staging => k.lf[k.part] = None /\ listed[k.part] = None
      /\ ~Exposed(c) \/ k.pc \in {"clear", "move"} => Fits(k.part, k.lf[k.part])

OneByOne(c) ==
  c \in Active /\ proc[c].alone /\ proc[c].pc \in Holding =>
    Achieved(c) /\ (proc[c].part \notin hurt => Spared(c))

RepoInv ==
  /\ TypeOK
  /\ \A c \in Procs : Shape(c) /\ Company(c) /\ OneByOne(c)
  /\ \A c \in Procs, p \in Parts \ hurt : Preserves(c, p)
  /\ DamageIsLocal

\* Unless a kill or a failed sweep kept the last upgrade from it, no staged tree is
\* left under parts/, where guard would take it for a part (upgrade.ts:100-102).
StageIsSwept ==
  Active = {} /\ ~stray => \A p \in Parts : disk[<<"tmp", p>>] = NoDir

\* A staged tree has an upgrade under way that will sweep it.
StageInv ==
  ~stray => \A p \in Parts : disk[<<"tmp", p>>] # NoDir => \E c \in Active : Staged(c)

\* An add or eject that found one provider per capability among the other parts
\* leaves it so, whatever another command wrote since the check (add.ts:59-70).
AddKeepsOneProvider ==
  [][\A c \in Procs :
       /\ proc[c].pc = "write" /\ proc'[c].pc \in {"deps", "list"} /\ lock' # Torn
       /\ proc[c].op # "upgrade" /\ OneProvider([proc[c].lf EXCEPT ![proc[c].part] = None])
       => OneProvider(lock')]_vars

\* What an add found when it read the lockfile is true of what it will write.
NoOverlap(c) ==
  LET k == proc[c]
  IN  k.op = "add" /\ k.pc \in {"plan", "lock", "write"} \cup Staging =>
        \A q \in Parts \ {k.part} :
          k.lf[q] # None => Provides[q][k.lf[q]] \cap Provides[k.part][k.rel] = {}
=============================================================================
