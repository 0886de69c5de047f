--------------------------- MODULE PartRepoProofs ---------------------------
(***************************************************************************)
(* Theorems about PartRepo, for any number of command lines, parts,        *)
(* releases and files, and any bounds on commands and cuts.                *)
(***************************************************************************)
EXTENDS PartRepo, TLAPS

Dirs == {"parts", "tmp", "ejected"} \X Parts

LEMMA DirectoryFacts ==
  /\ NoDir \in Directory
  /\ \A r \in Releases : Genuine(r) \in Directory /\ Genuine(r) # NoDir
  /\ \A d \in Directory, r \in Releases :
       d.tree = Genuine(r).tree /\ d.att = r <=> d = Genuine(r)
<1>1. NoDir \in Directory /\ \A r \in Releases : Genuine(r) \in Directory
  BY DEF NoDir, Genuine, Directory
<1>2. \A r \in Releases : Genuine(r).att = r /\ NoDir.att = None
  BY DEF NoDir, Genuine
<1>3. ASSUME NEW d \in Directory, NEW r \in Releases
      PROVE  d.tree = Genuine(r).tree /\ d.att = r <=> d = Genuine(r)
  <2>1. d = [tree |-> d.tree, att |-> d.att]
    BY DEF Directory
  <2> QED BY <2>1 DEF Genuine
<1> QED BY <1>1, <1>2, <1>3, RepoAssumption

LEMMA ProcFacts ==
  ASSUME TypeOK, NEW c \in Procs
  PROVE  /\ proc[c] \in Command /\ DOMAIN disk = Dirs
         /\ Idle \in Command /\ Idle.pc = "idle"
         /\ c \in Active <=> proc[c].pc # "idle"
<1>1. Idle \in Command /\ Idle.pc = "idle"
  BY DEF Idle, Started, Command, Unlisted, Pins
<1>2. proc[c] \in Command /\ DOMAIN disk = Dirs
  BY DEF TypeOK, Dirs
<1> QED BY <1>1, <1>2 DEF Active

\* The part of a command that is past its choice is one of its targets.
LEMMA PartFacts ==
  ASSUME RepoInv, NEW c \in Procs, proc[c].pc \in Holding \cup {"open"}
  PROVE  /\ proc[c].part \in proc[c].targets /\ proc[c].part \in Parts
         /\ Here(c) \in Dirs /\ Place(c) \in Dirs
         /\ proc[c].op # "eject" => proc[c].rel \in Releases
<1>1. proc[c] \in Command
  BY ProcFacts DEF RepoInv
<1>2. proc[c].targets \in SUBSET Parts
  BY <1>1 DEF Command
<1>3. proc[c].part \in proc[c].targets /\ (proc[c].op # "eject" => proc[c].rel \in Releases)
  BY DEF RepoInv, Shape
<1> QED BY <1>2, <1>3 DEF Here, Place, Dirs

-----------------------------------------------------------------------------
(* The commands keep their types                                           *)

\* A step of one command that makes of it a command, and of the disk a disk.
LEMMA TypeFrame ==
  ASSUME TypeOK, NEW c \in Procs, NEW k \in Command, proc' = [proc EXCEPT ![c] = k],
         disk' \in [Dirs -> Directory], lock' \in Pins \cup {Torn}, listed' \in Pins,
         deps' \in SUBSET Packages,
         hurt' \subseteq Parts, stray' \in BOOLEAN, UNCHANGED runs,
         cuts' = cuts \/ (cuts < MaxCuts /\ cuts' = cuts + 1)
  PROVE  TypeOK'
<1>1. proc' \in [Procs -> Command]
  BY DEF TypeOK
<1>2. cuts' \in 0..MaxCuts /\ runs' \in 0..MaxRuns
  BY RepoAssumption DEF TypeOK
<1> QED BY <1>1, <1>2 DEF TypeOK, Dirs, Pins, Command, Directory

\* A command that goes on, with what it has read.
LEMMA Going ==
  ASSUME NEW k \in Command
  PROVE  /\ \A s \in {"pick", "open", "move", "void"} \cup Holding :
              [k EXCEPT !.pc = s] \in Command
         /\ [k EXCEPT !.pc = "sweep", !.flaw = TRUE] \in Command
         /\ [k EXCEPT !.pc = "lock", !.flaw = TRUE] \in Command
<1>1. ASSUME NEW s \in {"pick", "open", "move", "void"} \cup Holding PROVE [k EXCEPT !.pc = s] \in Command
  BY DEF Command, Holding, Staging, Swapping, Writing
<1>2. ASSUME NEW m \in Command PROVE [m EXCEPT !.flaw = TRUE] \in Command
  BY DEF Command
<1>3. [k EXCEPT !.pc = "sweep"] \in Command /\ [k EXCEPT !.pc = "lock"] \in Command
  BY <1>1 DEF Holding, Writing
<1>4. /\ [[k EXCEPT !.pc = "sweep"] EXCEPT !.flaw = TRUE] \in Command
      /\ [[k EXCEPT !.pc = "lock"] EXCEPT !.flaw = TRUE] \in Command
  BY <1>2, <1>3
<1> QED BY <1>1, <1>4

LEMMA ThrownType ==
  ASSUME TypeOK, NEW c \in Procs
  PROVE  Thrown(c) \in Command
BY ProcFacts, Going DEF Thrown, Idle, Started

-----------------------------------------------------------------------------
(* What a step of one command leaves to the others                         *)

\* A command whose part is not given up has no company.
LEMMA Loner ==
  ASSUME RepoInv, NEW c \in Active, proc[c].pc \in Holding \cup {"open"},
         proc[c].part \notin hurt
  PROVE  proc[c].alone /\ Active = {c}
<1>1. c \in Procs /\ proc[c].part \in proc[c].targets
  BY PartFacts DEF Active
<1> QED BY <1>1 DEF RepoInv, Company

LEMMA ExposedHolds ==
  ASSUME NEW c, Exposed(c)
  PROVE  proc[c].pc \in Holding
BY DEF Exposed, Holding

\* A part that is not given up is in step, but for what an exposed command does to its own.
LEMMA Unexposed ==
  ASSUME RepoInv, lock # Torn, NEW c \in Active, NEW p \in Parts \ hurt,
         p # proc[c].part \/ ~Exposed(c)
  PROVE  Fits(p, lock[p])
<1>1. InStep(p) \/ \E d \in Active : proc[d].part = p /\ Exposed(d)
  BY DEF RepoInv, DamageIsLocal
<1>2. ASSUME NEW d \in Active, proc[d].part = p, Exposed(d) PROVE FALSE
  <2>1. d # c
    BY <1>2
  <2>2. proc[d].pc \in Holding
    BY <1>2, ExposedHolds
  <2>3. Active = {d}
    BY <1>2, <2>2, Loner
  <2> QED BY <2>1, <2>3
<1> QED BY <1>1, <1>2 DEF InStep

\* Of a part the step keeps directory, listing and the dependencies listed for it.
Kept(p) ==
  /\ disk'[<<"parts", p>>] = disk[<<"parts", p>>] /\ listed'[p] = listed[p]
  /\ listed[p] # None /\ Needs[p][listed[p]] \subseteq deps => Needs[p][listed[p]] \subseteq deps'

FitsNext(p, pin) ==
  /\ IF pin = None THEN disk'[<<"parts", p>>] = NoDir
                   ELSE disk'[<<"parts", p>>].tree = Genuine(pin).tree
  /\ pin # None => disk'[<<"parts", p>>].att = pin
  /\ listed'[p] = pin
  /\ pin # None => Needs[p][pin] \subseteq deps'

LEMMA KeptFits ==
  ASSUME NEW p, NEW pin, Kept(p), Fits(p, pin)
  PROVE  FitsNext(p, pin)
BY DEF Kept, Fits, FitsNext, GuardClean, VerifyClean

\* The part a command is at work on.
Own(c, p) == proc[c].pc \in Holding /\ p = proc[c].part

\* A step of command c alone, which keeps every part but its own.
Turn(c) ==
  /\ \A d \in Procs \ {c} : proc'[d] = proc[d]
  /\ proc'[c].pc # "idle" => proc'[c].targets = proc[c].targets /\ proc'[c].alone = proc[c].alone
  /\ hurt \subseteq hurt' \/ (proc[c].alone /\ \A p \in hurt : ~Own(c, p) => p \in hurt')
  /\ \A p \in Parts \ hurt' : ~Own(c, p) => Kept(p)
  /\ \/ lock' = lock \/ lock' = Torn
     \/ (lock' = proc[c].lf /\ proc[c].pc \in Holding)

LEMMA CompanyKept ==
  ASSUME RepoInv, NEW c \in Active, Turn(c)
  PROVE  \A d \in Procs : Company(d)'
<1> SUFFICES ASSUME NEW d \in Procs, d \in Active'
             PROVE  IF proc'[d].alone THEN Active' = {d} ELSE proc'[d].targets \subseteq hurt'
  BY DEF Company
<1>1. c \in Procs /\ Active' \subseteq Active
  BY DEF Active, Turn
<1>2. d \in Active /\ proc'[d].pc # "idle"
  BY <1>1 DEF Active
<1>3. proc'[d].targets = proc[d].targets /\ proc'[d].alone = proc[d].alone
  BY <1>2 DEF Turn
<1>4. IF proc[d].alone THEN Active = {d} ELSE proc[d].targets \subseteq hurt
  BY <1>2 DEF RepoInv, Company
<1>5. CASE proc[d].alone
  BY <1>1, <1>2, <1>3, <1>4, <1>5
<1>6. CASE ~proc[d].alone
  <2>1. hurt \subseteq hurt'
    <3>1. ~proc[c].alone
      BY <1>2, <1>4, <1>6, <1>1 DEF RepoInv, Company
    <3> QED BY <3>1 DEF Turn
  <2> QED BY <1>3, <1>4, <1>6, <2>1
<1> QED BY <1>5, <1>6

LEMMA OthersKept ==
  ASSUME RepoInv, NEW c \in Active, Turn(c), NEW d \in Procs \ {c}
  PROVE  Shape(d)' /\ OneByOne(d)'
<1>1. proc'[d] = proc[d] /\ c \in Procs
  BY DEF Turn, Active
<1>2. Shape(d)'
  BY <1>1 DEF RepoInv, Shape, Pinned
<1>3. ~(d \in Active' /\ proc'[d].alone)
  BY <1>1 DEF RepoInv, Company, Active
<1> QED BY <1>2, <1>3 DEF OneByOne

LEMMA OthersPreserve ==
  ASSUME RepoInv, NEW c \in Active, Turn(c), NEW d \in Procs \ {c}, NEW p \in Parts \ hurt'
  PROVE  Preserves(d, p)'
<1>1. proc'[d] = proc[d] /\ c \in Procs
  BY DEF Turn, Active
<1> SUFFICES ASSUME proc[d].pc \in Holding, p # proc[d].part
             PROVE  Preserves(d, p)'
  BY <1>1 DEF Preserves
<1>2. d \in Active
  BY DEF Active, Holding, Staging, Swapping, Writing
<1>3. ~proc[c].alone /\ hurt \subseteq hurt' /\ proc[c].targets \subseteq hurt
  <2>1. ~proc[c].alone
    BY <1>1, <1>2 DEF RepoInv, Company
  <2> QED BY <1>1, <2>1 DEF RepoInv, Company, Turn
<1>4. Preserves(d, p) /\ Kept(p)
  <2>1. p \notin hurt /\ ~Own(c, p)
    BY <1>1, <1>3, PartFacts DEF Own
  <2> QED BY <2>1 DEF RepoInv, Turn
<1>5. FitsNext(p, proc[d].lf[p])
  BY <1>4, KeptFits DEF Preserves
<1>6. Fits(p, proc[d].lf[p])'
  BY <1>1, <1>5 DEF FitsNext, Fits, GuardClean, VerifyClean
<1> QED BY <1>1, <1>4, <1>6 DEF Preserves

LEMMA LocalKept ==
  ASSUME RepoInv, NEW c \in Active, Turn(c), lock' # Torn,
         \A p \in Parts \ hurt' : Own(c, p) =>
           FitsNext(p, lock'[p]) \/ (c \in Active' /\ proc'[c].part = p /\ Exposed(c)')
  PROVE  DamageIsLocal'
<1> SUFFICES ASSUME NEW p \in Parts \ hurt', ~Own(c, p)
             PROVE  FitsNext(p, lock'[p])
  BY DEF DamageIsLocal, InStep, Fits, FitsNext, GuardClean, VerifyClean
<1>1. p \notin hurt /\ Kept(p) /\ c \in Procs
  BY DEF Turn, Active
<1>2. CASE lock' = lock
  <2>1. p # proc[c].part \/ ~Exposed(c)
    BY ExposedHolds DEF Own
  <2>2. Fits(p, lock[p])
    BY <1>1, <1>2, <2>1, Unexposed
  <2> QED BY <1>1, <1>2, <2>2, KeptFits
<1>3. CASE lock' = proc[c].lf /\ proc[c].pc \in Holding
  <2>1. Fits(p, proc[c].lf[p])
    BY <1>1, <1>3 DEF RepoInv, Preserves, Own
  <2> QED BY <1>1, <1>3, <2>1, KeptFits
<1> QED BY <1>2, <1>3 DEF Turn

\* A command that goes on with what it has read keeps what it may write back.
LEMMA OwnPreserve ==
  ASSUME RepoInv, NEW c \in Active, Turn(c), NEW p \in Parts \ hurt', proc[c].pc \in Holding,
         proc'[c].part = proc[c].part, proc'[c].op = proc[c].op, proc'[c].pkg = proc[c].pkg,
         p # proc[c].part => proc'[c].lf[p] = proc[c].lf[p],
         proc'[c].pc \in Holding \ {"plan", "list"} => proc[c].pc \notin {"plan", "list"}
  PROVE  Preserves(c, p)'
<1> SUFFICES ASSUME proc'[c].pc \in Holding, p # proc'[c].part
             PROVE  Preserves(c, p)'
  BY DEF Preserves
<1>1. p \notin hurt /\ Kept(p) /\ c \in Procs
  BY DEF Turn, Active, Own
<1>2. Preserves(c, p)
  BY <1>1 DEF RepoInv
<1>3. FitsNext(p, proc[c].lf[p])
  BY <1>1, <1>2, KeptFits DEF Preserves
<1>4. Fits(p, proc[c].lf[p])'
  BY <1>3 DEF FitsNext, Fits, GuardClean, VerifyClean
<1> QED BY <1>2, <1>4 DEF Preserves

LEMMA TurnKeepsInv ==
  ASSUME RepoInv, TypeOK', NEW c \in Active, Turn(c), Shape(c)', OneByOne(c)',
         \A p \in Parts \ hurt' : Preserves(c, p)',
         lock' # Torn =>
           \A p \in Parts \ hurt' : Own(c, p) =>
             FitsNext(p, lock'[p]) \/ (c \in Active' /\ proc'[c].part = p /\ Exposed(c)')
  PROVE  RepoInv'
<1>1. \A d \in Procs : Shape(d)' /\ Company(d)' /\ OneByOne(d)'
  BY CompanyKept, OthersKept
<1>2. \A d \in Procs, p \in Parts \ hurt' : Preserves(d, p)'
  BY OthersPreserve
<1>3. DamageIsLocal'
  BY LocalKept DEF DamageIsLocal
<1> QED BY <1>1, <1>2, <1>3 DEF RepoInv

-----------------------------------------------------------------------------
(* Deciding: nothing but the command changes                               *)

\* A step after which the command is k and everything else is as it was.
LEMMA QuietTurn ==
  ASSUME RepoInv, NEW c \in Active, NEW k \in Command, proc' = [proc EXCEPT ![c] = k],
         UNCHANGED <<repo, hurt, cuts, runs>>, stray' \in BOOLEAN,
         k.pc # "idle" => k.targets = proc[c].targets /\ k.alone = proc[c].alone
  PROVE  /\ TypeOK' /\ Turn(c) /\ proc'[c] = k
         /\ \A p, pin : Fits(p, pin) => FitsNext(p, pin)
<1>1. c \in Procs /\ TypeOK
  BY DEF RepoInv, Active
<1>2. proc'[c] = k /\ \A d \in Procs \ {c} : proc'[d] = proc[d]
  BY <1>1 DEF TypeOK
<1>3. \A p : Kept(p)
  BY DEF Kept, repo
<1>4. Turn(c)
  BY <1>2, <1>3 DEF Turn, repo
<1>5. TypeOK'
  <2>1. /\ lock' \in Pins \cup {Torn} /\ listed' \in Pins /\ deps' \in SUBSET Packages
        /\ disk' \in [Dirs -> Directory] /\ hurt' \subseteq Parts
    BY <1>1 DEF TypeOK, repo, Dirs
  <2> QED BY <1>1, <2>1, TypeFrame
<1> QED BY <1>2, <1>3, <1>4, <1>5, KeptFits

\* Nothing is asked of a command that ended.
LEMMA IdleInv ==
  ASSUME NEW c \in Procs, proc'[c] = Idle
  PROVE  /\ Shape(c)' /\ OneByOne(c)' /\ c \notin Active'
         /\ \A p \in Parts \ hurt' : Preserves(c, p)'
BY DEF Idle, Started, Shape, OneByOne, Active, Preserves, Holding, Staging, Swapping, Writing

\* A command ends.  Its part is as it was, or is given up.
LEMMA EndStep ==
  ASSUME RepoInv, NEW c \in Active, proc' = [proc EXCEPT ![c] = Idle],
         UNCHANGED <<lock, deps, listed, runs>>, disk' \in [Dirs -> Directory],
         cuts' = cuts \/ (cuts < MaxCuts /\ cuts' = cuts + 1), stray' \in BOOLEAN,
         hurt \subseteq hurt', hurt' \subseteq Parts,
         \A p \in Parts \ hurt' :
           (p # proc[c].part \/ ~Exposed(c)) /\ disk'[<<"parts", p>>] = disk[<<"parts", p>>]
  PROVE  RepoInv'
<1>1. c \in Procs /\ Idle \in Command /\ Idle.pc = "idle" /\ TypeOK
  BY ProcFacts DEF RepoInv, Active
<1>2. proc'[c] = Idle /\ \A d \in Procs \ {c} : proc'[d] = proc[d]
  BY <1>1 DEF TypeOK
<1>3. TypeOK'
  <2>1. lock' \in Pins \cup {Torn} /\ listed' \in Pins /\ deps' \in SUBSET Packages
    BY <1>1 DEF TypeOK
  <2> QED BY <1>1, <2>1, TypeFrame
<1>4. \A p \in Parts \ hurt' : Kept(p)
  BY DEF Kept
<1>5. Turn(c)
  BY <1>1, <1>2, <1>4 DEF Turn
<1>6. lock' # Torn => \A p \in Parts \ hurt' : Own(c, p) => FitsNext(p, lock'[p])
  BY <1>4, KeptFits, Unexposed
<1> QED BY <1>1, <1>2, <1>3, <1>5, <1>6, IdleInv, TurnKeepsInv

\* A command may end where its part is not exposed.
LEMMA QuitStep ==
  ASSUME RepoInv, NEW c \in Active, proc' = [proc EXCEPT ![c] = Idle], ~Exposed(c),
         UNCHANGED <<repo, hurt, cuts, runs>>, stray' \in BOOLEAN
  PROVE  RepoInv'
<1>1. disk' \in [Dirs -> Directory] /\ hurt' \subseteq Parts
  BY DEF RepoInv, TypeOK, Dirs, repo
<1> QED BY <1>1, EndStep DEF repo

LEMMA ResolveStep ==
  ASSUME RepoInv, NEW c \in Procs, Resolve(c)
  PROVE  RepoInv'
<1>1. c \in Active /\ proc[c].pc = "resolve" /\ UNCHANGED <<repo, hurt, stray, cuts, runs>>
  BY DEF Resolve, Active
<1>2. TypeOK /\ proc[c] \in Command /\ stray' \in BOOLEAN /\ ~Exposed(c) /\ Shape(c)
  BY <1>1, ProcFacts DEF RepoInv, TypeOK, Exposed, Writing, Staging, Swapping
<1>3. CASE proc' = [proc EXCEPT ![c] = Idle]
  BY <1>1, <1>2, <1>3, QuitStep
<1>4. CASE lock # Torn
  <2> DEFINE k == [proc[c] EXCEPT !.pc = "pick",
                     !.todo = {p \in @ : \A q \in Parts :
                                 lock[q] # None => p \notin Provides[q][lock[q]]}]
  <2>1. proc' = [proc EXCEPT ![c] = k]
    BY <1>4 DEF Resolve
  <2>2. k \in Command
    BY <1>2 DEF Command
  <2>3. k.targets = proc[c].targets /\ k.alone = proc[c].alone /\ k.pc = "pick"
        /\ k.todo \subseteq k.targets /\ k.flaw = proc[c].flaw /\ k.op = proc[c].op
    BY <1>2 DEF Command, Shape
  <2> HIDE DEF k
  <2>4. TypeOK' /\ Turn(c) /\ proc'[c] = k
    BY <1>1, <1>2, <2>1, <2>2, <2>3, QuietTurn
  <2>5. k.pc \notin Holding
    BY <2>3 DEF Holding, Staging, Swapping, Writing
  <2>6. Shape(c)'
    BY <1>1, <1>2, <2>3, <2>4, <2>5 DEF Shape, Holding, Staging, Swapping, Writing
  <2>7. OneByOne(c)' /\ \A p \in Parts \ hurt' : Preserves(c, p)'
    BY <2>4, <2>5 DEF OneByOne, Preserves
  <2>8. \A p : ~Own(c, p)
    BY <1>1 DEF Own, Holding, Staging, Swapping, Writing
  <2> QED BY <1>1, <2>4, <2>6, <2>7, <2>8, TurnKeepsInv
<1> QED BY <1>3, <1>4 DEF Resolve, Finish

LEMMA PickStep ==
  ASSUME RepoInv, NEW c \in Procs, Pick(c)
  PROVE  RepoInv'
<1>1. c \in Active /\ proc[c].pc = "pick" /\ UNCHANGED <<repo, hurt, stray, cuts, runs>>
  BY DEF Pick, Active
<1>2. TypeOK /\ proc[c] \in Command /\ stray' \in BOOLEAN /\ ~Exposed(c) /\ Shape(c)
  BY <1>1, ProcFacts DEF RepoInv, TypeOK, Exposed, Writing, Staging, Swapping
<1>3. CASE proc' = [proc EXCEPT ![c] = Idle]
  BY <1>1, <1>2, <1>3, QuitStep
<1>4. CASE proc[c].todo # {}
  <2>1. PICK p \in proc[c].todo, r \in IF proc[c].op = "eject" THEN {None} ELSE Releases :
          proc' = [proc EXCEPT ![c].pc = "open", ![c].part = p, ![c].rel = r,
                               ![c].todo = @ \ {p}]
    BY <1>4 DEF Pick
  <2> DEFINE k == [proc[c] EXCEPT !.pc = "open", !.part = p, !.rel = r, !.todo = @ \ {p}]
  <2>2. proc' = [proc EXCEPT ![c] = k]
    BY <2>1
  <2>3. proc[c].todo \subseteq proc[c].targets /\ proc[c].targets \subseteq Parts
    BY <1>2 DEF Command, Shape
  <2>4. k \in Command
    BY <1>2, <2>3 DEF Command
  <2>5. /\ k.targets = proc[c].targets /\ k.alone = proc[c].alone /\ k.pc = "open"
        /\ k.todo \subseteq k.targets /\ k.flaw = proc[c].flaw /\ k.op = proc[c].op
        /\ k.part \in k.targets /\ (k.op # "eject" => k.rel \in Releases)
    BY <1>2, <2>3 DEF Command
  <2> HIDE DEF k
  <2>6. TypeOK' /\ Turn(c) /\ proc'[c] = k
    BY <1>1, <1>2, <2>2, <2>4, <2>5, QuietTurn
  <2>7. k.pc \notin Holding
    BY <2>5 DEF Holding, Staging, Swapping, Writing
  <2>8. Shape(c)'
    BY <1>1, <1>2, <2>5, <2>6, <2>7 DEF Shape, Staging, Swapping
  <2>9. OneByOne(c)' /\ \A q \in Parts \ hurt' : Preserves(c, q)'
    BY <2>6, <2>7 DEF OneByOne, Preserves
  <2>10. \A q : ~Own(c, q)
    BY <1>1 DEF Own, Holding, Staging, Swapping, Writing
  <2> QED BY <1>1, <2>6, <2>8, <2>9, <2>10, TurnKeepsInv
<1> QED BY <1>3, <1>4 DEF Pick, Finish

\* What an alone command has read is what there is.
LEMMA OpenStep ==
  ASSUME RepoInv, NEW c \in Procs, Open(c)
  PROVE  RepoInv'
<1>1. c \in Active /\ proc[c].pc = "open" /\ UNCHANGED <<repo, hurt, stray, cuts, runs>>
  BY DEF Open, Active
<1>2. TypeOK /\ proc[c] \in Command /\ stray' \in BOOLEAN /\ ~Exposed(c) /\ Shape(c)
  BY <1>1, ProcFacts DEF RepoInv, TypeOK, Exposed, Writing, Staging, Swapping
<1>3. CASE proc' = [proc EXCEPT ![c] = Idle]
  BY <1>1, <1>2, <1>3, QuitStep
<1>4. CASE lock # Torn /\ ~Refused(proc[c].op, proc[c].part, proc[c].rel)
           /\ proc' = [proc EXCEPT ![c].lf = lock,
                                   ![c].pc = IF proc[c].op = "eject" THEN "move" ELSE "plan"]
  <2> DEFINE k == [proc[c] EXCEPT !.lf = lock,
                                  !.pc = IF proc[c].op = "eject" THEN "move" ELSE "plan"]
  <2>1. proc' = [proc EXCEPT ![c] = k] /\ lock \in Pins
    BY <1>2, <1>4 DEF TypeOK
  <2>2. k \in Command
    BY <1>2, <2>1 DEF Command
  <2>3. /\ k.targets = proc[c].targets /\ k.alone = proc[c].alone /\ k.todo = proc[c].todo
        /\ k.flaw = proc[c].flaw /\ k.op = proc[c].op /\ k.part = proc[c].part
        /\ k.rel = proc[c].rel /\ k.lf = lock
        /\ k.pc = IF proc[c].op = "eject" THEN "move" ELSE "plan"
    BY <1>2 DEF Command
  <2> HIDE DEF k
  <2>4. /\ TypeOK' /\ Turn(c) /\ proc'[c] = k
        /\ \A p, pin : Fits(p, pin) => FitsNext(p, pin)
    BY <1>1, <1>2, <2>1, <2>2, <2>3, QuietTurn
  <2>5. Shape(c)'
    BY <1>1, <1>2, <2>3, <2>4 DEF Shape, Staging, Swapping
  <2>6. ASSUME NEW p \in Parts \ hurt' PROVE Fits(p, lock[p]) /\ FitsNext(p, lock[p])
    BY <1>1, <1>2, <1>4, <2>4, Unexposed
  <2>7. ASSUME NEW p \in Parts \ hurt' PROVE Preserves(c, p)'
    <3>1. Fits(p, proc[c].lf[p])'
      BY <2>3, <2>4, <2>6 DEF Fits, FitsNext, GuardClean, VerifyClean
    <3> QED BY <2>3, <2>4, <3>1 DEF Preserves
  <2>8. OneByOne(c)'
    <3>1. Achieved(c)'
      BY <1>1, <2>3, <2>4 DEF Achieved, repo, Staging, Swapping, Writing
    <3>2. proc'[c].part \notin hurt' => Spared(c)'
      <4> SUFFICES ASSUME k.part \notin hurt PROVE Spared(c)'
        BY <1>1, <2>4
      <4>1. k.part \in Parts
        BY <1>1, <1>2, <2>3, PartFacts
      <4>2. Fits(k.part, lock[k.part]) /\ FitsNext(k.part, lock[k.part])
        BY <1>1, <2>6, <4>1
      <4>3. k.op = "add" => k.lf[k.part] = None /\ listed'[k.part] = None
        BY <1>4, <2>3, <4>2 DEF Refused, FitsNext
      <4>4. Fits(proc[c].part, proc[c].lf[proc[c].part])'
        BY <2>3, <2>4, <4>2 DEF Fits, FitsNext, GuardClean, VerifyClean
      <4> QED BY <2>4, <4>3, <4>4 DEF Spared
    <3> QED BY <3>1, <3>2 DEF OneByOne
  <2>9. \A p : ~Own(c, p)
    BY <1>1 DEF Own, Holding, Staging, Swapping, Writing
  <2> QED BY <1>1, <2>4, <2>5, <2>7, <2>8, <2>9, TurnKeepsInv
<1> QED BY <1>3, <1>4 DEF Open, Finish

LEMMA PlanDepsStep ==
  ASSUME RepoInv, NEW c \in Procs, PlanDeps(c)
  PROVE  RepoInv'
<1>1. c \in Active /\ proc[c].pc = "plan" /\ UNCHANGED <<repo, hurt, stray, cuts, runs>>
  BY DEF PlanDeps, Active
<1>2. TypeOK /\ proc[c] \in Command /\ stray' \in BOOLEAN /\ ~Exposed(c) /\ Shape(c)
  BY <1>1, ProcFacts DEF RepoInv, TypeOK, Exposed, Writing, Staging, Swapping
<1>3. proc[c].pc \in Holding
  BY <1>1 DEF Holding
<1> DEFINE k == [proc[c] EXCEPT !.pkg = deps, !.pc = "clear"]
<1>4. proc' = [proc EXCEPT ![c] = k]
  BY DEF PlanDeps
<1>5. k \in Command
  <2>1. deps \in SUBSET Packages
    BY <1>2 DEF TypeOK
  <2> QED BY <1>2, <2>1 DEF Command, Staging
<1>6. /\ k.targets = proc[c].targets /\ k.alone = proc[c].alone /\ k.todo = proc[c].todo
      /\ k.flaw = proc[c].flaw /\ k.op = proc[c].op /\ k.part = proc[c].part
      /\ k.rel = proc[c].rel /\ k.lf = proc[c].lf /\ k.pc = "clear" /\ k.pkg = deps
  BY <1>2 DEF Command
<1> HIDE DEF k
<1>7. /\ TypeOK' /\ Turn(c) /\ proc'[c] = k
      /\ \A p, pin : Fits(p, pin) => FitsNext(p, pin)
  BY <1>1, <1>2, <1>4, <1>5, <1>6, QuietTurn
<1>8. Shape(c)'
  BY <1>1, <1>2, <1>6, <1>7 DEF Shape, Holding, Staging, Swapping
<1>9. ASSUME NEW p \in Parts \ hurt' PROVE Preserves(c, p)'
  <2> SUFFICES ASSUME p # proc[c].part PROVE Preserves(c, p)'
    BY <1>6, <1>7 DEF Preserves
  <2>1. Fits(p, k.lf[p]) /\ FitsNext(p, k.lf[p])
    BY <1>1, <1>3, <1>6, <1>7 DEF RepoInv, Preserves
  <2>2. Fits(p, proc[c].lf[p])'
    BY <1>7, <2>1 DEF Fits, FitsNext, GuardClean, VerifyClean
  <2>3. k.lf[p] # None => Needs[p][k.lf[p]] \subseteq k.pkg
    BY <1>6, <2>1 DEF Fits
  <2> QED BY <1>7, <2>2, <2>3 DEF Preserves
<1>10. OneByOne(c)'
  <2> SUFFICES ASSUME k.alone PROVE Achieved(c)' /\ (k.part \notin hurt => Spared(c)')
    BY <1>1, <1>7 DEF OneByOne
  <2>1. Achieved(c) /\ (k.part \notin hurt => Spared(c))
    BY <1>1, <1>3, <1>6 DEF RepoInv, OneByOne
  <2>2. Achieved(c)'
    BY <1>1, <1>2, <1>6, <1>7, <2>1 DEF Achieved, Shape, repo, Staging, Swapping, Writing
  <2>3. ASSUME Spared(c) PROVE Spared(c)'
    <3>1. Fits(k.part, k.lf[k.part])
      BY <1>2, <1>6, <2>3 DEF Spared
    <3>2. Fits(proc[c].part, proc[c].lf[proc[c].part])'
      BY <1>7, <3>1 DEF Fits, FitsNext, GuardClean, VerifyClean
    <3>3. k.op = "add" => k.lf[k.part] = None /\ listed'[k.part] = None
      BY <1>1, <1>6, <2>3 DEF Spared, repo
    <3> QED BY <1>7, <3>2, <3>3 DEF Spared
  <2> QED BY <2>1, <2>2, <2>3
<1>11. ASSUME lock' # Torn, NEW p \in Parts \ hurt', Own(c, p)
       PROVE  FitsNext(p, lock'[p])
  BY <1>1, <1>2, <1>7, <1>11, Unexposed DEF repo
<1>12. lock' # Torn => \A p \in Parts \ hurt' : Own(c, p) => FitsNext(p, lock'[p])
  BY <1>11
<1> QED BY <1>1, <1>7, <1>8, <1>9, <1>10, <1>12, TurnKeepsInv

-----------------------------------------------------------------------------
(* A command goes on with what it has read                                 *)

\* The command as it was, further on.
Onward(k, m) ==
  /\ k.op = m.op /\ k.targets = m.targets /\ k.todo = m.todo /\ k.part = m.part
  /\ k.rel = m.rel /\ k.pkg = m.pkg /\ k.alone = m.alone

\* In the step only c is different, and no directory under parts/ but its own.
Advance(c, k) ==
  /\ proc' = [proc EXCEPT ![c] = k] /\ Onward(k, proc[c])
  /\ disk' \in [Dirs -> Directory]
  /\ \A p \in Parts : p # proc[c].part => disk'[<<"parts", p>>] = disk[<<"parts", p>>]
  /\ cuts' = cuts \/ (cuts < MaxCuts /\ cuts' = cuts + 1)
  /\ stray' \in BOOLEAN /\ hurt \subseteq hurt' /\ hurt' \subseteq Parts
  /\ UNCHANGED <<listed, runs>>

\* What remains to be shown of a step: the command suits its steps, and what it made of
\* its part if it is alone.
LEMMA AdvanceKeepsInv ==
  ASSUME RepoInv, NEW c \in Active, NEW k \in Command, Advance(c, k),
         proc[c].pc \in Holding, k.pc \in Holding \ {"plan"},
         proc[c].pc \in {"plan", "list"} => k.pc = "list",
         \A p \in Parts : p # proc[c].part => k.lf[p] = proc[c].lf[p],
         \/ lock' \in {lock, Torn} /\ UNCHANGED deps
         \/ lock' = proc[c].lf /\ UNCHANGED deps
         \/ proc[c].op # "eject" /\ proc[c].pc = "deps" /\ UNCHANGED lock
            /\ (deps' = deps \/ proc[c].pkg \subseteq deps') /\ deps' \in SUBSET Packages,
         Shape(c)',
         proc[c].alone /\ Achieved(c) => Achieved(c)',
         proc[c].alone /\ Achieved(c) /\ Spared(c) /\ proc[c].part \notin hurt' => Spared(c)'
  PROVE  RepoInv'
<1>1. c \in Procs /\ TypeOK /\ proc[c] \in Command
  BY ProcFacts DEF RepoInv, Active
<1>2. proc'[c] = k /\ \A d \in Procs \ {c} : proc'[d] = proc[d]
  BY <1>1 DEF TypeOK, Advance
<1>3. TypeOK'
  <2>1. lock \in Pins \cup {Torn} /\ listed' \in Pins /\ deps \in SUBSET Packages /\ proc[c].lf \in Pins
    BY <1>1 DEF TypeOK, Advance, Command
  <2>2. lock' \in Pins \cup {Torn} /\ deps' \in SUBSET Packages
    BY <2>1
  <2> QED BY <1>1, <2>1, <2>2, TypeFrame DEF Advance
<1>4. ASSUME NEW p \in Parts \ hurt', ~Own(c, p) PROVE Kept(p)
  <2>1. p # proc[c].part /\ p \notin hurt
    BY <1>4 DEF Own, Advance
  <2>2. disk'[<<"parts", p>>] = disk[<<"parts", p>>] /\ listed'[p] = listed[p]
    BY <2>1 DEF Advance
  <2>3. CASE UNCHANGED deps
    BY <2>2, <2>3 DEF Kept
  <2>4. CASE proc[c].op # "eject" /\ proc[c].pc = "deps" /\ proc[c].pkg \subseteq deps'
    <3>1. Preserves(c, p)
      BY <1>1, <2>1 DEF RepoInv
    <3>2. listed[p] = proc[c].lf[p] /\ (listed[p] # None => Needs[p][listed[p]] \subseteq proc[c].pkg)
      BY <2>1, <2>4, <3>1 DEF Preserves, Fits
    <3> QED BY <2>2, <2>4, <3>2 DEF Kept
  <2> QED BY <2>3, <2>4
<1>5. Turn(c)
  <2>1. lock' = lock \/ lock' = Torn \/ (lock' = proc[c].lf /\ proc[c].pc \in Holding)
    OBVIOUS
  <2> QED BY <1>2, <1>4, <2>1 DEF Turn, Advance, Onward
<1>6. ASSUME NEW p \in Parts \ hurt' PROVE Preserves(c, p)'
  BY <1>2, <1>5, OwnPreserve DEF Advance, Onward
<1>7. OneByOne(c)'
  <2>1. OneByOne(c) /\ (proc'[c].part \notin hurt' => proc[c].part \notin hurt)
    BY <1>1, <1>2 DEF RepoInv, Advance, Onward
  <2> QED BY <1>2, <2>1 DEF OneByOne, Advance, Onward
<1>8. c \in Active'
  BY <1>1, <1>2 DEF Active, Holding, Staging, Swapping, Writing
<1>9. ASSUME lock' # Torn, NEW p \in Parts \ hurt', Own(c, p)
      PROVE  FitsNext(p, lock'[p]) \/ (c \in Active' /\ proc'[c].part = p /\ Exposed(c)')
  <2> SUFFICES ASSUME ~Exposed(c)' PROVE FitsNext(p, lock'[p])
    BY <1>2, <1>8, <1>9 DEF Own, Advance, Onward
  <2>1. p \notin hurt /\ p = proc[c].part /\ k.part = p /\ k.alone = proc[c].alone
    BY <1>9 DEF Own, Advance, Onward
  <2>2. k.alone
    BY <2>1, Loner
  <2>3. Achieved(c)' /\ Spared(c)'
    BY <1>2, <1>7, <1>8, <2>1, <2>2 DEF OneByOne
  <2>4. Fits(p, proc[c].lf[p])'
    BY <1>2, <2>1, <2>3 DEF Spared
  <2>5. lock' = proc'[c].lf
    BY <1>9, <2>3 DEF Achieved
  <2> QED BY <2>4, <2>5 DEF Fits, FitsNext, GuardClean, VerifyClean
<1>10. lock' # Torn =>
         \A p \in Parts \ hurt' : Own(c, p) =>
           FitsNext(p, lock'[p]) \/ (c \in Active' /\ proc'[c].part = p /\ Exposed(c)')
  BY <1>9
<1> QED BY <1>3, <1>5, <1>6, <1>7, <1>10, TurnKeepsInv

LEMMA Context ==
  ASSUME RepoInv, NEW c \in Procs, proc[c].pc \in Holding
  PROVE  /\ c \in Active /\ TypeOK /\ proc[c] \in Command /\ Shape(c)
         /\ proc[c].part \in Parts /\ Here(c) \in Dirs /\ Place(c) \in Dirs
         /\ proc[c].op # "eject" => proc[c].rel \in Releases
         /\ disk \in [Dirs -> Directory] /\ stray \in BOOLEAN /\ hurt \subseteq Parts
<1>1. c \in Active
  BY DEF Active, Holding, Staging, Swapping, Writing
<1> QED BY <1>1, ProcFacts, PartFacts DEF RepoInv, TypeOK, Dirs

\* What a command leaves alone of its part it goes on leaving alone.
LEMMA SparedKept ==
  ASSUME NEW c, NEW k, Spared(c), proc'[c] = k, Onward(k, proc[c]), k.lf = proc[c].lf,
         UNCHANGED <<listed, deps>>,
         k.op = "add" /\ k.pc \in {"plan"} \cup Staging => proc[c].pc \in {"plan"} \cup Staging,
         \/ (Exposed(c)' /\ k.pc \notin {"clear", "move"})
         \/ (~Exposed(c) /\ disk'[<<"parts", k.part>>] = disk[<<"parts", k.part>>])
  PROVE  Spared(c)'
<1>1. k.op = "add" /\ k.pc \in {"plan"} \cup Staging => k.lf[k.part] = None /\ listed'[k.part] = None
  BY DEF Spared, Onward
<1>2. CASE ~Exposed(c) /\ disk'[<<"parts", k.part>>] = disk[<<"parts", k.part>>]
  <2>1. Fits(k.part, k.lf[k.part])
    BY <1>2 DEF Spared, Onward
  <2>2. Kept(k.part)
    BY <1>2 DEF Kept
  <2>3. Fits(proc[c].part, proc[c].lf[proc[c].part])'
    BY <2>1, <2>2, KeptFits DEF Fits, FitsNext, GuardClean, VerifyClean
  <2> QED BY <1>1, <2>3 DEF Spared
<1>3. CASE Exposed(c)' /\ k.pc \notin {"clear", "move"}
  BY <1>1, <1>3 DEF Spared
<1> QED BY <1>2, <1>3

LEMMA StagingSpares ==
  ASSUME NEW c \in Procs, NEW k, proc[c] \in Command, Spared(c), proc'[c] = k, Onward(k, proc[c]),
         k.lf = proc[c].lf, UNCHANGED <<listed, deps>>, proc[c].op # "eject",
         proc[c].pc \in Staging, k.pc \in Staging \ {"clear"} \/ (k.op # "add" /\ k.pc = "sweep"),
         proc[c].op = "upgrade" => disk'[Here(c)] = disk[Here(c)]
  PROVE  Spared(c)'
<1>1. CASE proc[c].op = "add"
  <2>1. Exposed(c)' /\ k.pc \notin {"clear", "move"}
    BY <1>1 DEF Exposed, Onward, Staging
  <2> QED BY <2>1, SparedKept
<1>2. CASE proc[c].op = "upgrade"
  <2>1. ~Exposed(c) /\ k.op # "add" /\ disk'[<<"parts", k.part>>] = disk[<<"parts", k.part>>]
    BY <1>2 DEF Exposed, Onward, Writing, Staging, Swapping, Here
  <2> QED BY <2>1, SparedKept
<1> QED BY <1>1, <1>2 DEF Command

LEMMA ClearStep ==
  ASSUME RepoInv, NEW c \in Procs, Clear(c)
  PROVE  RepoInv'
<1>1. proc[c].pc = "clear" /\ proc[c].pc \in Holding
  BY DEF Clear, Holding, Staging
<1>2. /\ c \in Active /\ TypeOK /\ proc[c] \in Command /\ Shape(c) /\ Place(c) \in Dirs
      /\ disk \in [Dirs -> Directory] /\ stray \in BOOLEAN /\ hurt \subseteq Parts
      /\ proc[c].op # "eject"
  BY <1>1, Context DEF Shape, Staging
<1> DEFINE k == [proc[c] EXCEPT !.pc = "copy", !.left = Files]
<1>3. /\ proc' = [proc EXCEPT ![c] = k] /\ proc'[c] = k
      /\ disk' = [disk EXCEPT ![Place(c)] = NoDir]
      /\ UNCHANGED <<lock, deps, listed, hurt, stray, cuts, runs>>
  BY <1>2 DEF Clear, Cleared, TypeOK
<1>4. k \in Command /\ Onward(k, proc[c]) /\ k.pc = "copy" /\ k.lf = proc[c].lf /\ k.flaw = proc[c].flaw
  BY <1>2 DEF Command, Onward, Staging
<1> HIDE DEF k
<1>5. Advance(c, k)
  <2>1. disk' \in [Dirs -> Directory]
    BY <1>2, <1>3, DirectoryFacts
  <2>2. \A p \in Parts : p # proc[c].part => disk'[<<"parts", p>>] = disk[<<"parts", p>>]
    BY <1>2, <1>3 DEF Place, Dirs
  <2> QED BY <1>2, <1>3, <1>4, <2>1, <2>2 DEF Advance
<1>6. Shape(c)'
  BY <1>1, <1>2, <1>3, <1>4 DEF Shape, Onward, Holding, Staging, Swapping
<1>7. Achieved(c) => Achieved(c)'
  BY <1>1, <1>2, <1>3, <1>4 DEF Achieved, Onward, Staging, Swapping, Writing
<1>8. Spared(c) => Spared(c)'
  <2>1. proc[c].op = "upgrade" => disk'[Here(c)] = disk[Here(c)]
    BY <1>2, <1>3 DEF Place, Here, Dirs
  <2> QED BY <1>1, <1>2, <1>3, <1>4, <2>1, StagingSpares DEF Staging
<1>9. k.pc \in Holding \ {"plan", "list"}
  BY <1>4 DEF Holding, Staging
<1> QED BY <1>1, <1>2, <1>3, <1>4, <1>5, <1>6, <1>7, <1>8, <1>9, AdvanceKeepsInv

LEMMA CopyStep ==
  ASSUME RepoInv, NEW c \in Procs, Copy(c)
  PROVE  RepoInv'
<1>1. proc[c].pc = "copy" /\ proc[c].pc \in Holding
  BY DEF Copy, Holding, Staging
<1>2. /\ c \in Active /\ TypeOK /\ proc[c] \in Command /\ Shape(c) /\ Place(c) \in Dirs
      /\ disk \in [Dirs -> Directory] /\ stray \in BOOLEAN /\ hurt \subseteq Parts
      /\ proc[c].op # "eject" /\ proc[c].rel \in Releases
  BY <1>1, Context DEF Shape, Staging
<1>3. PICK f \in proc[c].left, got \in {proc[c].rel, Bad} :
        /\ disk' = [disk EXCEPT ![Place(c)].tree[f] = got]
        /\ proc' = [proc EXCEPT ![c].left = @ \ {f},
                                ![c].pc = IF proc[c].left = {f} THEN "hash" ELSE "copy"]
  BY DEF Copy
<1> DEFINE k == [proc[c] EXCEPT !.left = @ \ {f},
                                !.pc = IF proc[c].left = {f} THEN "hash" ELSE "copy"]
<1>4. /\ proc' = [proc EXCEPT ![c] = k] /\ proc'[c] = k
      /\ UNCHANGED <<lock, deps, listed, hurt, stray, cuts, runs>>
  BY <1>2, <1>3 DEF Copy, TypeOK
<1>5. /\ k \in Command /\ Onward(k, proc[c]) /\ k.pc \in {"copy", "hash"}
      /\ k.lf = proc[c].lf /\ k.flaw = proc[c].flaw
  BY <1>2 DEF Command, Onward, Staging
<1> HIDE DEF k
<1>6. Advance(c, k)
  <2>1. disk' \in [Dirs -> Directory]
    <3>1. [disk[Place(c)] EXCEPT !.tree[f] = got] \in Directory
      <4>1. disk[Place(c)] \in Directory
        BY <1>2
      <4> QED BY <1>2, <4>1 DEF Directory
    <3> QED BY <1>2, <1>3, <3>1
  <2>2. \A p \in Parts : p # proc[c].part => disk'[<<"parts", p>>] = disk[<<"parts", p>>]
    BY <1>2, <1>3 DEF Place, Dirs
  <2> QED BY <1>2, <1>4, <1>5, <2>1, <2>2 DEF Advance
<1>7. Shape(c)'
  BY <1>1, <1>2, <1>4, <1>5 DEF Shape, Onward, Holding, Staging, Swapping
<1>8. Achieved(c) => Achieved(c)'
  BY <1>1, <1>2, <1>4, <1>5 DEF Achieved, Onward, Staging, Swapping, Writing
<1>9. Spared(c) => Spared(c)'
  <2>1. proc[c].op = "upgrade" => disk'[Here(c)] = disk[Here(c)]
    BY <1>2, <1>3 DEF Place, Here, Dirs
  <2> QED BY <1>1, <1>2, <1>4, <1>5, <2>1, StagingSpares DEF Staging
<1>10. k.pc \in Holding \ {"plan", "list"}
  BY <1>5 DEF Holding, Staging
<1> QED BY <1>1, <1>2, <1>4, <1>5, <1>6, <1>7, <1>8, <1>9, <1>10, AdvanceKeepsInv

\* A failed integrity check, or a disturbed upgrade: the stage will be swept.
LEMMA FlawedUpgrade ==
  ASSUME RepoInv, NEW c \in Procs, proc[c].op = "upgrade", proc[c].pc \in Staging,
         proc' = [proc EXCEPT ![c] = Thrown(c)],
         disk' = disk \/ disk' = Cleared(c),
         UNCHANGED <<lock, deps, listed, hurt, stray, cuts, runs>>
  PROVE  RepoInv'
<1>1. proc[c].pc \in Holding
  BY DEF Holding
<1>2. /\ c \in Active /\ TypeOK /\ proc[c] \in Command /\ Shape(c) /\ Place(c) \in Dirs
      /\ disk \in [Dirs -> Directory] /\ stray \in BOOLEAN /\ hurt \subseteq Parts
  BY <1>1, Context
<1> DEFINE k == [proc[c] EXCEPT !.pc = "sweep", !.flaw = TRUE]
<1>3. proc' = [proc EXCEPT ![c] = k] /\ proc'[c] = k
  BY <1>2 DEF Thrown, TypeOK
<1>4. /\ k \in Command /\ Onward(k, proc[c]) /\ k.pc = "sweep"
      /\ k.lf = proc[c].lf /\ k.flaw
  <2>1. k \in Command
    BY <1>2, Going
  <2> QED BY <1>2, <2>1 DEF Command, Onward
<1> HIDE DEF k
<1>5. disk' \in [Dirs -> Directory] /\ \A p \in Parts : disk'[<<"parts", p>>] = disk[<<"parts", p>>]
  BY <1>2, DirectoryFacts DEF Cleared, Place, Dirs
<1>6. Advance(c, k)
  BY <1>2, <1>3, <1>4, <1>5 DEF Advance
<1>7. Shape(c)'
  BY <1>2, <1>3, <1>4 DEF Shape, Onward, Holding, Staging, Swapping
<1>8. Achieved(c) => Achieved(c)'
  BY <1>2, <1>3, <1>4 DEF Achieved, Onward, Staging, Swapping, Writing
<1>9. Spared(c) => Spared(c)'
  <2>1. disk'[Here(c)] = disk[Here(c)]
    BY <1>1, <1>5, PartFacts DEF Here
  <2> QED BY <1>2, <1>3, <1>4, <2>1, StagingSpares DEF Onward
<1>10. k.pc \in Holding \ {"plan", "list"} /\ proc[c].pc \notin {"plan", "list"}
  BY <1>4 DEF Holding, Staging
<1> QED BY <1>1, <1>2, <1>3, <1>4, <1>6, <1>7, <1>8, <1>9, <1>10, AdvanceKeepsInv

\* A failed integrity check, a disturbed or a refused add: nothing of the part is left, as
\* nothing was there before.
LEMMA FlawedAdd ==
  ASSUME RepoInv, NEW c \in Procs, proc[c].op = "add", proc[c].pc \in Staging,
         proc' = [proc EXCEPT ![c] = Thrown(c)],
         proc[c].pc = "clear" \/ disk[Place(c)] = NoDir \/ disk' = Cleared(c),
         disk' = disk \/ disk' = Cleared(c),
         UNCHANGED <<lock, deps, listed, hurt, stray, cuts, runs>>
  PROVE  RepoInv'
<1>1. proc[c].pc \in Holding
  BY DEF Holding
<1>2. /\ c \in Active /\ TypeOK /\ proc[c] \in Command /\ Shape(c) /\ Place(c) \in Dirs
      /\ proc[c].part \in Parts
      /\ disk \in [Dirs -> Directory] /\ stray \in BOOLEAN /\ hurt \subseteq Parts
  BY <1>1, Context
<1>3. proc' = [proc EXCEPT ![c] = Idle] /\ proc'[c] = Idle /\ Idle \in Command
      /\ \A d \in Procs \ {c} : proc'[d] = proc[d]
  BY <1>2, ProcFacts DEF Thrown, TypeOK
<1>4. /\ disk' \in [Dirs -> Directory]
      /\ disk' = disk \/ disk'[<<"parts", proc[c].part>>] = NoDir
      /\ \A p \in Parts : p # proc[c].part => disk'[<<"parts", p>>] = disk[<<"parts", p>>]
  BY <1>2, DirectoryFacts DEF Cleared, Place, Dirs
<1>5. TypeOK'
  <2>1. lock' \in Pins \cup {Torn} /\ listed' \in Pins /\ deps' \in SUBSET Packages
    BY <1>2 DEF TypeOK
  <2> QED BY <1>2, <1>3, <1>4, <2>1, TypeFrame
<1>6. Turn(c)
  <2>1. \A p \in Parts \ hurt' : ~Own(c, p) => Kept(p)
    BY <1>1, <1>4 DEF Own, Kept
  <2>2. proc'[c].pc = "idle"
    BY <1>3 DEF Idle, Started
  <2> QED BY <1>3, <2>1, <2>2 DEF Turn
<1>7. lock' # Torn => \A p \in Parts \ hurt' : Own(c, p) => FitsNext(p, lock'[p])
  <2> SUFFICES ASSUME proc[c].part \notin hurt
               PROVE  FitsNext(proc[c].part, lock[proc[c].part])
    BY DEF Own
  <2>1. Achieved(c) /\ Spared(c)
    BY <1>1, <1>2, Loner DEF RepoInv, OneByOne
  <2>2. lock = proc[c].lf
    BY <2>1 DEF Achieved, Staging
  <2>3. proc[c].lf[proc[c].part] = None /\ listed[proc[c].part] = None
    BY <2>1 DEF Spared
  <2>4. disk'[<<"parts", proc[c].part>>] = NoDir
    <3>1. proc[c].pc = "clear" => disk[<<"parts", proc[c].part>>] = NoDir
      BY <2>1, <2>3 DEF Spared, Fits, GuardClean
    <3>2. Place(c) = <<"parts", proc[c].part>>
      BY DEF Place
    <3> QED BY <1>2, <1>4, <3>1, <3>2 DEF Cleared
  <2> QED BY <2>2, <2>3, <2>4 DEF FitsNext
<1> QED BY <1>2, <1>3, <1>5, <1>6, <1>7, IdleInv, TurnKeepsInv

\* A command that is refused leaves its part as it was; an upgrade sweeps first.
LEMMA RefuseStep ==
  ASSUME RepoInv, NEW c \in Procs, Refuse(c)
  PROVE  RepoInv'
<1>1. /\ proc[c].pc \in {"resolve", "plan", "clear"} /\ proc' = [proc EXCEPT ![c] = Thrown(c)]
      /\ UNCHANGED <<repo, hurt, stray, cuts, runs>>
  BY DEF Refuse
<1>2. c \in Active /\ proc[c] \in Command /\ stray' \in BOOLEAN /\ Shape(c)
  BY <1>1, ProcFacts DEF RepoInv, TypeOK, Active
<1>3. CASE proc[c].pc \in {"resolve", "plan"}
  <2>1. ~Exposed(c) /\ Thrown(c) = Idle
    BY <1>3 DEF Exposed, Thrown, Writing, Staging, Swapping
  <2> QED BY <1>1, <1>2, <2>1, QuitStep
<1>4. CASE proc[c].pc = "clear"
  <2>1. proc[c].pc \in Staging /\ proc[c].op \in {"add", "upgrade"}
    BY <1>2, <1>4 DEF Shape, Staging, Command
  <2>2. disk' = disk /\ UNCHANGED <<lock, deps, listed, hurt, stray, cuts, runs>>
    BY <1>1 DEF repo
  <2> QED BY <1>1, <1>4, <2>1, <2>2, FlawedAdd, FlawedUpgrade
<1> QED BY <1>1, <1>3, <1>4

LEMMA HashStep ==
  ASSUME RepoInv, NEW c \in Procs, Hash(c)
  PROVE  RepoInv'
<1>1. proc[c].pc = "hash" /\ proc[c].pc \in Holding /\ proc[c].pc \in Staging
  BY DEF Hash, Holding, Staging
<1>2. /\ c \in Active /\ TypeOK /\ proc[c] \in Command /\ Shape(c)
      /\ disk \in [Dirs -> Directory] /\ stray \in BOOLEAN /\ hurt \subseteq Parts
      /\ proc[c].op # "eject"
      /\ UNCHANGED <<lock, deps, listed, hurt, stray, cuts, runs>>
  BY <1>1, Context DEF Shape, Hash
<1>3. CASE ~HashMatches(c)
  <2>1. proc' = [proc EXCEPT ![c] = Thrown(c)] /\ disk' = Cleared(c)
    BY <1>3 DEF Hash
  <2> QED BY <1>1, <1>2, <2>1, FlawedAdd, FlawedUpgrade DEF Command
<1>4. CASE HashMatches(c)
  <2> DEFINE k == [proc[c] EXCEPT !.pc = "attest"]
  <2>1. proc' = [proc EXCEPT ![c] = k] /\ proc'[c] = k /\ disk' = disk
    BY <1>2, <1>4 DEF Hash, Goto, TypeOK
  <2>2. /\ k \in Command /\ Onward(k, proc[c]) /\ k.pc = "attest"
        /\ k.lf = proc[c].lf /\ k.flaw = proc[c].flaw
    BY <1>2 DEF Command, Onward, Staging
  <2> HIDE DEF k
  <2>3. Advance(c, k)
    BY <1>2, <2>1, <2>2 DEF Advance
  <2>4. Shape(c)'
    BY <1>1, <1>2, <2>1, <2>2 DEF Shape, Onward, Holding, Staging, Swapping
  <2>5. Achieved(c) => Achieved(c)'
    BY <1>1, <1>2, <1>4, <2>1, <2>2
       DEF Achieved, Onward, Staging, Swapping, Writing, HashMatches, Place
  <2>6. Spared(c) => Spared(c)'
    <3>1. disk'[Here(c)] = disk[Here(c)]
      BY <2>1
    <3> QED BY <1>1, <1>2, <2>1, <2>2, <3>1, StagingSpares DEF Staging
  <2>7. k.pc \in Holding \ {"plan", "list"}
    BY <2>2 DEF Holding, Staging
  <2> QED BY <1>1, <1>2, <2>1, <2>2, <2>3, <2>4, <2>5, <2>6, <2>7, AdvanceKeepsInv
<1> QED BY <1>3, <1>4

LEMMA AttestStep ==
  ASSUME RepoInv, NEW c \in Procs, Attest(c)
  PROVE  RepoInv'
<1>1. proc[c].pc = "attest" /\ proc[c].pc \in Holding
  BY DEF Attest, Holding, Staging
<1>2. /\ c \in Active /\ TypeOK /\ proc[c] \in Command /\ Shape(c) /\ Place(c) \in Dirs
      /\ disk \in [Dirs -> Directory] /\ stray \in BOOLEAN /\ hurt \subseteq Parts
      /\ proc[c].op # "eject" /\ proc[c].rel \in Releases
      /\ UNCHANGED <<lock, deps, listed, hurt, stray, cuts, runs>>
  BY <1>1, Context DEF Shape, Staging, Attest
<1> DEFINE k == [proc[c] EXCEPT !.pc = IF proc[c].op = "upgrade" THEN "rmold" ELSE "lock"]
<1>3. /\ proc' = [proc EXCEPT ![c] = k] /\ proc'[c] = k
      /\ disk' = [disk EXCEPT ![Place(c)].att = proc[c].rel]
  BY <1>2 DEF Attest, Goto, TypeOK
<1>4. /\ k \in Command /\ Onward(k, proc[c])
      /\ k.pc = (IF proc[c].op = "upgrade" THEN "rmold" ELSE "lock")
      /\ k.lf = proc[c].lf /\ k.flaw = proc[c].flaw
  BY <1>2 DEF Command, Onward, Swapping, Writing
<1> HIDE DEF k
<1>5. Advance(c, k)
  <2>1. [disk[Place(c)] EXCEPT !.att = proc[c].rel] \in Directory
    <3>1. disk[Place(c)] \in Directory
      BY <1>2
    <3> QED BY <1>2, <3>1 DEF Directory
  <2>2. disk' \in [Dirs -> Directory]
    BY <1>2, <1>3, <2>1
  <2>3. \A p \in Parts : p # proc[c].part => disk'[<<"parts", p>>] = disk[<<"parts", p>>]
    BY <1>2, <1>3 DEF Place, Dirs
  <2> QED BY <1>2, <1>3, <1>4, <2>2, <2>3 DEF Advance
<1>6. Shape(c)'
  BY <1>1, <1>2, <1>3, <1>4 DEF Shape, Onward, Holding, Staging, Swapping, Writing
<1>7. Achieved(c) => Achieved(c)'
  <2> SUFFICES ASSUME Achieved(c) PROVE Achieved(c)'
    OBVIOUS
  <2>1. disk[Place(c)].tree = Genuine(proc[c].rel).tree /\ lock = proc[c].lf /\ deps = proc[c].pkg
    BY <1>1, <1>2 DEF Achieved
  <2>2. disk'[Place(c)] = Genuine(proc[c].rel)
    <3>1. disk[Place(c)] \in Directory
      BY <1>2
    <3>2. /\ disk'[Place(c)] \in Directory /\ disk'[Place(c)].att = proc[c].rel
          /\ disk'[Place(c)].tree = disk[Place(c)].tree
      BY <1>2, <1>3, <3>1 DEF Directory
    <3> QED BY <1>2, <2>1, <3>2, DirectoryFacts
  <2>3. proc[c].op # "upgrade" => Place(c) = Here(c)
    BY DEF Place, Here
  <2>4. Place(c)' = Place(c) /\ Here(c)' = Here(c) /\ Genuine(k.rel) = Genuine(proc[c].rel)
    BY <1>3, <1>4 DEF Place, Here, Onward
  <2> QED BY <1>2, <1>3, <1>4, <2>1, <2>2, <2>3, <2>4 DEF Achieved, Onward, Swapping, Writing, Staging
<1>8. Spared(c) => Spared(c)'
  <2>1. Exposed(c)' /\ k.pc \notin {"clear", "move"} /\ k.pc \notin {"plan"} \cup Staging
    BY <1>3, <1>4 DEF Exposed, Swapping, Writing, Staging
  <2> QED BY <1>2, <1>3, <1>4, <2>1, SparedKept
<1>9. k.pc \in Holding \ {"plan", "list"}
  BY <1>4 DEF Holding, Swapping, Writing
<1> QED BY <1>1, <1>2, <1>3, <1>4, <1>5, <1>6, <1>7, <1>8, <1>9, AdvanceKeepsInv

LEMMA DisturbedStep ==
  ASSUME RepoInv, NEW c \in Procs, Disturbed(c)
  PROVE  RepoInv'
<1>1. /\ proc' = [proc EXCEPT ![c] = Thrown(c)] /\ proc[c].pc \in {"copy", "hash", "attest", "rename"}
      /\ UNCHANGED <<lock, disk, deps, listed, hurt, stray, cuts, runs>> /\ proc[c].pc \in Holding
  BY DEF Disturbed, repo, Holding, Staging, Swapping
<1>2. c \in Active /\ TypeOK /\ proc[c] \in Command /\ Shape(c)
      /\ disk \in [Dirs -> Directory] /\ stray \in BOOLEAN /\ hurt \subseteq Parts
  BY <1>1, Context
<1>3. CASE proc[c].pc # "rename"
  <2>1. proc[c].pc \in Staging /\ disk[Place(c)] = NoDir /\ proc[c].op # "eject"
    BY <1>1, <1>2, <1>3 DEF Disturbed, Staging, Shape
  <2> QED BY <1>1, <1>2, <2>1, FlawedAdd, FlawedUpgrade DEF Command
<1>4. CASE proc[c].pc = "rename"
  <2> DEFINE k == [proc[c] EXCEPT !.pc = "sweep", !.flaw = TRUE]
  <2>1. proc[c].op = "upgrade"
    BY <1>2, <1>4 DEF Shape, Swapping
  <2>2. proc' = [proc EXCEPT ![c] = k] /\ proc'[c] = k
    BY <1>1, <1>2, <1>4, <2>1 DEF Thrown, TypeOK, Swapping
  <2>3. /\ k \in Command /\ Onward(k, proc[c]) /\ k.pc = "sweep"
        /\ k.lf = proc[c].lf /\ k.flaw
    <3>1. k \in Command
      BY <1>2, Going
    <3> QED BY <1>2, <3>1 DEF Command, Onward
  <2> HIDE DEF k
  <2>4. Advance(c, k)
    BY <1>1, <1>2, <2>2, <2>3 DEF Advance
  <2>5. Shape(c)'
    BY <1>1, <1>2, <2>1, <2>2, <2>3 DEF Shape, Onward, Holding, Staging, Swapping
  <2>6. ~Achieved(c)
    <3>1. proc[c].rel \in Releases /\ Genuine(proc[c].rel) # NoDir
      BY <1>1, <2>1, Context, DirectoryFacts
    <3>2. disk[Place(c)] = NoDir \/ disk[Here(c)] # NoDir
      BY <1>4 DEF Disturbed
    <3> QED BY <1>4, <3>1, <3>2 DEF Achieved, Swapping
  <2>7. k.pc \in Holding \ {"plan", "list"}
    BY <2>3 DEF Holding
  <2> QED BY <1>1, <1>2, <1>4, <2>2, <2>3, <2>4, <2>5, <2>6, <2>7, AdvanceKeepsInv
<1> QED BY <1>3, <1>4

-----------------------------------------------------------------------------
(* The swap                                                                *)

LEMMA RemoveOldStep ==
  ASSUME RepoInv, NEW c \in Procs, RemoveOld(c)
  PROVE  RepoInv'
<1>1. proc[c].pc = "rmold" /\ proc[c].pc \in Holding
  BY DEF RemoveOld, Holding, Swapping
<1>2. /\ c \in Active /\ TypeOK /\ proc[c] \in Command /\ Shape(c) /\ Here(c) \in Dirs /\ Place(c) \in Dirs
      /\ disk \in [Dirs -> Directory] /\ stray \in BOOLEAN /\ hurt \subseteq Parts
      /\ proc[c].op = "upgrade"
      /\ UNCHANGED <<lock, deps, listed, hurt, stray, cuts, runs>>
  BY <1>1, Context DEF Shape, Swapping, RemoveOld
<1> DEFINE k == [proc[c] EXCEPT !.pc = "rename"]
<1>3. /\ proc' = [proc EXCEPT ![c] = k] /\ proc'[c] = k
      /\ disk' = [disk EXCEPT ![Here(c)] = NoDir]
  BY <1>2 DEF RemoveOld, Goto, TypeOK
<1>4. /\ k \in Command /\ Onward(k, proc[c]) /\ k.pc = "rename"
      /\ k.lf = proc[c].lf /\ k.flaw = proc[c].flaw
  BY <1>2 DEF Command, Onward, Swapping
<1> HIDE DEF k
<1>5. Advance(c, k)
  <2>1. disk' \in [Dirs -> Directory]
    BY <1>2, <1>3, DirectoryFacts
  <2>2. \A p \in Parts : p # proc[c].part => disk'[<<"parts", p>>] = disk[<<"parts", p>>]
    BY <1>2, <1>3 DEF Here, Dirs
  <2> QED BY <1>2, <1>3, <1>4, <2>1, <2>2 DEF Advance
<1>6. Shape(c)'
  BY <1>1, <1>2, <1>3, <1>4 DEF Shape, Onward, Holding, Staging, Swapping
<1>7. Achieved(c) => Achieved(c)'
  <2>1. disk'[Here(c)] = NoDir /\ disk'[Place(c)] = disk[Place(c)]
    BY <1>2, <1>3 DEF Here, Place
  <2>2. Place(c)' = Place(c) /\ Here(c)' = Here(c)
    BY <1>3, <1>4 DEF Place, Here, Onward
  <2> QED BY <1>1, <1>2, <1>3, <1>4, <2>1, <2>2 DEF Achieved, Onward, Swapping, Writing
<1>8. Spared(c) => Spared(c)'
  <2>1. Exposed(c)' /\ k.pc \notin {"clear", "move"} /\ k.pc \notin {"plan"} \cup Staging
    BY <1>3, <1>4 DEF Exposed, Swapping, Writing, Staging
  <2> QED BY <1>2, <1>3, <1>4, <2>1, SparedKept
<1>9. k.pc \in Holding \ {"plan", "list"}
  BY <1>4 DEF Holding, Swapping
<1> QED BY <1>1, <1>2, <1>3, <1>4, <1>5, <1>6, <1>7, <1>8, <1>9, AdvanceKeepsInv

LEMMA RenameStep ==
  ASSUME RepoInv, NEW c \in Procs, Rename(c)
  PROVE  RepoInv'
<1>1. proc[c].pc = "rename" /\ proc[c].pc \in Holding
  BY DEF Rename, Holding, Swapping
<1>2. /\ c \in Active /\ TypeOK /\ proc[c] \in Command /\ Shape(c) /\ Here(c) \in Dirs /\ Place(c) \in Dirs
      /\ disk \in [Dirs -> Directory] /\ stray \in BOOLEAN /\ hurt \subseteq Parts
      /\ proc[c].op = "upgrade" /\ ~proc[c].flaw
      /\ UNCHANGED <<lock, deps, listed, hurt, stray, cuts, runs>>
  BY <1>1, Context DEF Shape, Swapping, Rename
<1> DEFINE k == [proc[c] EXCEPT !.pc = "sweep"]
<1>3. /\ proc' = [proc EXCEPT ![c] = k] /\ proc'[c] = k
      /\ disk' = [disk EXCEPT ![Here(c)] = disk[Place(c)], ![Place(c)] = NoDir]
  BY <1>2 DEF Rename, Goto, TypeOK
<1>4. /\ k \in Command /\ Onward(k, proc[c]) /\ k.pc = "sweep"
      /\ k.lf = proc[c].lf /\ k.flaw = proc[c].flaw
  BY <1>2 DEF Command, Onward
<1> HIDE DEF k
<1>5. /\ disk' \in [Dirs -> Directory] /\ disk'[Here(c)] = disk[Place(c)]
      /\ \A p \in Parts : p # proc[c].part => disk'[<<"parts", p>>] = disk[<<"parts", p>>]
  <2>1. disk[Place(c)] \in Directory /\ Here(c) # Place(c)
    BY <1>2 DEF Here, Place
  <2>2. disk' \in [Dirs -> Directory] /\ disk'[Here(c)] = disk[Place(c)]
    BY <1>2, <1>3, <2>1, DirectoryFacts
  <2>3. \A p \in Parts : p # proc[c].part => disk'[<<"parts", p>>] = disk[<<"parts", p>>]
    BY <1>2, <1>3 DEF Here, Place, Dirs
  <2> QED BY <2>2, <2>3
<1>6. Advance(c, k)
  BY <1>2, <1>3, <1>4, <1>5 DEF Advance
<1>7. Shape(c)'
  BY <1>1, <1>2, <1>3, <1>4 DEF Shape, Onward, Holding, Staging, Swapping
<1>8. Achieved(c) => Achieved(c)'
  <2>1. Here(c)' = Here(c)
    BY <1>3, <1>4 DEF Here, Onward
  <2> QED BY <1>1, <1>2, <1>3, <1>4, <1>5, <2>1 DEF Achieved, Onward, Swapping, Writing
<1>9. Spared(c) => Spared(c)'
  <2>1. Exposed(c)' /\ k.pc \notin {"clear", "move"} /\ k.pc \notin {"plan"} \cup Staging
    BY <1>2, <1>3, <1>4 DEF Exposed, Onward, Staging
  <2> QED BY <1>2, <1>3, <1>4, <2>1, SparedKept
<1>10. k.pc \in Holding \ {"plan", "list"}
  BY <1>4 DEF Holding
<1> QED BY <1>1, <1>2, <1>3, <1>4, <1>6, <1>7, <1>8, <1>9, <1>10, AdvanceKeepsInv

LEMMA SweepStep ==
  ASSUME RepoInv, NEW c \in Procs, Sweep(c)
  PROVE  RepoInv'
<1>1. proc[c].pc = "sweep" /\ proc[c].pc \in Holding
  BY DEF Sweep, Holding
<1>2. /\ c \in Active /\ TypeOK /\ proc[c] \in Command /\ Shape(c) /\ Here(c) \in Dirs
      /\ disk \in [Dirs -> Directory] /\ stray' \in BOOLEAN /\ hurt \subseteq Parts
      /\ proc[c].op = "upgrade" /\ UNCHANGED <<lock, deps, listed, hurt, cuts, runs>>
  BY <1>1, Context DEF Shape, Sweep
<1>3. disk' \in [Dirs -> Directory] /\ \A p \in Parts : disk'[<<"parts", p>>] = disk[<<"parts", p>>]
  BY <1>2, DirectoryFacts DEF Sweep, Swept, Dirs
<1>4. CASE proc[c].flaw
  <2>1. ~Exposed(c) /\ proc' = [proc EXCEPT ![c] = Idle]
    BY <1>1, <1>2, <1>4 DEF Exposed, Sweep, Finish, Writing, Staging, Swapping
  <2> QED BY <1>2, <1>3, <2>1, EndStep
<1>5. CASE ~proc[c].flaw
  <2> DEFINE k == [proc[c] EXCEPT !.pc = "lock"]
  <2>1. proc' = [proc EXCEPT ![c] = k] /\ proc'[c] = k
    BY <1>2, <1>5 DEF Sweep, Goto, TypeOK
  <2>2. /\ k \in Command /\ Onward(k, proc[c]) /\ k.pc = "lock"
        /\ k.lf = proc[c].lf /\ k.flaw = proc[c].flaw
    BY <1>2 DEF Command, Onward, Writing
  <2> HIDE DEF k
  <2>3. Advance(c, k)
    BY <1>2, <1>3, <2>1, <2>2 DEF Advance
  <2>4. Shape(c)'
    BY <1>1, <1>2, <1>5, <2>1, <2>2 DEF Shape, Onward, Holding, Staging, Swapping
  <2>5. Achieved(c) => Achieved(c)'
    <3>1. Here(c)' = Here(c) /\ disk'[Here(c)] = disk[Here(c)]
      BY <1>1, <1>3, <2>1, <2>2, PartFacts DEF Here, Onward
    <3> QED BY <1>1, <1>2, <1>5, <2>1, <2>2, <3>1 DEF Achieved, Onward, Swapping, Writing
  <2>6. Spared(c) => Spared(c)'
    <3>1. Exposed(c)' /\ k.pc \notin {"clear", "move"} /\ k.pc \notin {"plan"} \cup Staging
      BY <2>1, <2>2 DEF Exposed, Writing, Staging
    <3> QED BY <1>2, <2>1, <2>2, <3>1, SparedKept
  <2>7. k.pc \in Holding \ {"plan", "list"}
    BY <2>2 DEF Holding, Writing
  <2> QED BY <1>1, <1>2, <2>1, <2>2, <2>3, <2>4, <2>5, <2>6, <2>7, AdvanceKeepsInv
<1> QED BY <1>4, <1>5

-----------------------------------------------------------------------------
(* Eject                                                                   *)

LEMMA MoveStep ==
  ASSUME RepoInv, NEW c \in Procs, Move(c)
  PROVE  RepoInv'
<1>1. proc[c].pc = "move" /\ proc[c].pc \in Holding
  BY DEF Move, Holding
<1> DEFINE to == <<"ejected", proc[c].part>>
<1>2. /\ c \in Active /\ TypeOK /\ proc[c] \in Command /\ Shape(c) /\ Here(c) \in Dirs /\ to \in Dirs
      /\ disk \in [Dirs -> Directory] /\ stray \in BOOLEAN /\ hurt \subseteq Parts
      /\ proc[c].op = "eject" /\ proc[c].part \in Parts
      /\ UNCHANGED <<lock, deps, listed, hurt, stray, cuts, runs>>
  BY <1>1, Context DEF Shape, Move, Dirs
<1>3. CASE disk[Here(c)] = NoDir
  <2> DEFINE k == [proc[c] EXCEPT !.pc = "lock", !.flaw = TRUE]
  <2>1. proc' = [proc EXCEPT ![c] = k] /\ proc'[c] = k /\ disk' = disk
    BY <1>2, <1>3 DEF Move, TypeOK
  <2>2. k \in Command
    BY <1>2, Going
  <2>3. Onward(k, proc[c]) /\ k.pc = "lock" /\ k.lf = proc[c].lf /\ k.flaw
    BY <1>2 DEF Command, Onward
  <2> HIDE DEF k
  <2>4. Advance(c, k)
    BY <1>2, <2>1, <2>2, <2>3 DEF Advance
  <2>5. Shape(c)'
    BY <1>1, <1>2, <2>1, <2>3 DEF Shape, Onward, Holding, Staging, Swapping
  <2>6. Achieved(c) => Achieved(c)'
    BY <1>1, <1>2, <1>3, <2>1, <2>3 DEF Achieved, Here, Onward, Swapping, Writing
  <2>7. Spared(c) => Spared(c)'
    <3>1. Exposed(c)' /\ k.pc \notin {"clear", "move"} /\ k.op # "add"
      BY <1>2, <2>1, <2>3 DEF Exposed, Writing, Onward
    <3> QED BY <1>2, <2>1, <2>3, <3>1, SparedKept
  <2>8. k.pc \in Holding \ {"plan", "list"}
    BY <2>3 DEF Holding, Writing
  <2> QED BY <1>1, <1>2, <2>1, <2>2, <2>3, <2>4, <2>5, <2>6, <2>7, <2>8, AdvanceKeepsInv
<1>4. CASE disk[Here(c)] # NoDir /\ disk[to] # NoDir
  \* There is something in the way: the part, which is still as it was, stays.
  <2>1. proc' = [proc EXCEPT ![c] = Idle] /\ disk' = disk
    BY <1>4 DEF Move, Finish
  <2>2. Idle \in Command /\ Idle.pc = "idle"
    BY <1>2, ProcFacts
  <2>3. /\ TypeOK' /\ Turn(c) /\ proc'[c] = Idle
        /\ \A p, pin : Fits(p, pin) => FitsNext(p, pin)
    BY <1>2, <2>1, <2>2, QuietTurn DEF repo
  <2>4. lock' # Torn => \A p \in Parts \ hurt' : Own(c, p) => FitsNext(p, lock'[p])
    <3> SUFFICES ASSUME proc[c].part \notin hurt
                 PROVE  FitsNext(proc[c].part, lock[proc[c].part])
      BY <1>2 DEF Own
    <3>1. Achieved(c) /\ Spared(c)
      BY <1>1, <1>2, Loner DEF RepoInv, OneByOne
    <3>2. lock = proc[c].lf /\ Fits(proc[c].part, proc[c].lf[proc[c].part])
      BY <1>1, <3>1 DEF Achieved, Spared
    <3> QED BY <2>3, <3>2
  <2> QED BY <1>2, <2>3, <2>4, IdleInv, TurnKeepsInv
<1>5. CASE disk[Here(c)] # NoDir /\ disk[to] = NoDir
  <2> DEFINE k == [proc[c] EXCEPT !.pc = "void"]
  <2>1. /\ proc' = [proc EXCEPT ![c] = k] /\ proc'[c] = k
        /\ disk' = [disk EXCEPT ![to] = disk[Here(c)], ![Here(c)] = NoDir]
    BY <1>2, <1>5 DEF Move, Goto, TypeOK
  <2>2. k \in Command /\ Onward(k, proc[c]) /\ k.pc = "void" /\ k.lf = proc[c].lf /\ k.flaw = proc[c].flaw
    BY <1>2 DEF Command, Onward
  <2> HIDE DEF k
  <2>3. disk' \in [Dirs -> Directory] /\ disk'[Here(c)] = NoDir
    <3>1. disk[Here(c)] \in Directory
      BY <1>2
    <3> QED BY <1>2, <2>1, <3>1, DirectoryFacts
  <2>4. \A p \in Parts : p # proc[c].part => disk'[<<"parts", p>>] = disk[<<"parts", p>>]
    BY <1>2, <2>1 DEF Here, Dirs
  <2>5. Advance(c, k)
    BY <1>2, <2>1, <2>2, <2>3, <2>4 DEF Advance
  <2>6. Shape(c)'
    BY <1>1, <1>2, <2>1, <2>2 DEF Shape, Onward, Holding, Staging, Swapping
  <2>7. Achieved(c) => Achieved(c)'
    BY <1>1, <1>2, <2>1, <2>2, <2>3 DEF Achieved, Here, Onward, Swapping, Writing
  <2>8. Spared(c) => Spared(c)'
    <3>1. Exposed(c)' /\ k.pc \notin {"clear", "move"} /\ k.op # "add"
      BY <1>2, <2>1, <2>2 DEF Exposed, Writing, Onward
    <3> QED BY <1>2, <2>1, <2>2, <3>1, SparedKept
  <2>9. k.pc \in Holding \ {"plan", "list"}
    BY <2>2 DEF Holding
  <2> QED BY <1>1, <1>2, <2>1, <2>2, <2>5, <2>6, <2>7, <2>8, <2>9, AdvanceKeepsInv
<1> QED BY <1>3, <1>4, <1>5

LEMMA VoidStep ==
  ASSUME RepoInv, NEW c \in Procs, Void(c)
  PROVE  RepoInv'
<1>1. proc[c].pc = "void" /\ proc[c].pc \in Holding
  BY DEF Void, Holding
<1> DEFINE to == <<"ejected", proc[c].part>>
<1>2. /\ c \in Active /\ TypeOK /\ proc[c] \in Command /\ Shape(c) /\ Here(c) \in Dirs /\ to \in Dirs
      /\ disk \in [Dirs -> Directory] /\ stray \in BOOLEAN /\ hurt \subseteq Parts
      /\ proc[c].op = "eject" /\ proc[c].part \in Parts
      /\ UNCHANGED <<lock, deps, listed, hurt, stray, cuts, runs>>
  BY <1>1, Context DEF Shape, Void, Dirs
<1> DEFINE k == [proc[c] EXCEPT !.pc = "lock"]
<1>3. /\ proc' = [proc EXCEPT ![c] = k] /\ proc'[c] = k
      /\ disk' = [disk EXCEPT ![to].att = None]
  BY <1>2 DEF Void, Goto, TypeOK
<1>4. k \in Command /\ Onward(k, proc[c]) /\ k.pc = "lock" /\ k.lf = proc[c].lf /\ k.flaw = proc[c].flaw
  BY <1>2 DEF Command, Onward, Writing
<1> HIDE DEF k
<1>5. disk' \in [Dirs -> Directory] /\ \A p \in Parts : disk'[<<"parts", p>>] = disk[<<"parts", p>>]
  <2>1. [disk[to] EXCEPT !.att = None] \in Directory
    <3>1. disk[to] \in Directory
      BY <1>2
    <3> QED BY <3>1 DEF Directory
  <2>2. disk' \in [Dirs -> Directory]
    BY <1>2, <1>3, <2>1
  <2>3. \A p \in Parts : disk'[<<"parts", p>>] = disk[<<"parts", p>>]
    BY <1>2, <1>3 DEF Dirs
  <2> QED BY <2>2, <2>3
<1>6. Advance(c, k)
  BY <1>2, <1>3, <1>4, <1>5 DEF Advance
<1>7. Shape(c)'
  BY <1>1, <1>2, <1>3, <1>4 DEF Shape, Onward, Holding, Staging, Swapping
<1>8. Achieved(c) => Achieved(c)'
  <2>1. Here(c)' = Here(c) /\ disk'[Here(c)] = disk[Here(c)]
    BY <1>2, <1>3, <1>4, <1>5 DEF Here, Onward
  <2> QED BY <1>1, <1>2, <1>3, <1>4, <2>1 DEF Achieved, Onward, Swapping, Writing
<1>9. Spared(c) => Spared(c)'
  <2>1. Exposed(c)' /\ k.pc \notin {"clear", "move"} /\ k.op # "add"
    BY <1>2, <1>3, <1>4 DEF Exposed, Writing, Onward
  <2> QED BY <1>2, <1>3, <1>4, <2>1, SparedKept
<1>10. k.pc \in Holding \ {"plan", "list"}
  BY <1>4 DEF Holding, Writing
<1> QED BY <1>1, <1>2, <1>3, <1>4, <1>6, <1>7, <1>8, <1>9, <1>10, AdvanceKeepsInv

-----------------------------------------------------------------------------
(* The lockfile and what follows it                                        *)

LEMMA TruncateLockStep ==
  ASSUME RepoInv, NEW c \in Procs, TruncateLock(c)
  PROVE  RepoInv'
<1>1. proc[c].pc = "lock" /\ proc[c].pc \in Holding
  BY DEF TruncateLock, Holding, Writing
<1>2. /\ c \in Active /\ TypeOK /\ proc[c] \in Command /\ Shape(c) /\ proc[c].part \in Parts
      /\ disk \in [Dirs -> Directory] /\ stray \in BOOLEAN /\ hurt \subseteq Parts
      /\ UNCHANGED <<disk, deps, listed, hurt, stray, cuts, runs>> /\ lock' = Torn
  BY <1>1, Context DEF TruncateLock
<1> DEFINE k == [proc[c] EXCEPT !.pc = "write", !.lf[proc[c].part] = Pinned(c)]
<1>3. proc' = [proc EXCEPT ![c] = k] /\ proc'[c] = k
  BY <1>2 DEF TruncateLock, TypeOK
<1>4. Pinned(c) \in Releases \cup {None} /\ proc[c].lf \in Pins
  BY <1>2 DEF Pinned, Command
<1>5. k \in Command
  <2>1. [proc[c].lf EXCEPT ![proc[c].part] = Pinned(c)] \in Pins
    BY <1>4 DEF Pins
  <2> QED BY <1>2, <2>1 DEF Command, Writing
<1>6. /\ Onward(k, proc[c]) /\ k.pc = "write" /\ k.flaw = proc[c].flaw
      /\ k.lf = [proc[c].lf EXCEPT ![proc[c].part] = Pinned(c)]
  BY <1>2 DEF Command, Onward
<1>7. /\ k.lf[k.part] = Pinned(c)
      /\ \A p \in Parts : p # proc[c].part => k.lf[p] = proc[c].lf[p]
  BY <1>2, <1>4, <1>6 DEF Pins, Onward
<1> HIDE DEF k
<1>8. Advance(c, k)
  BY <1>2, <1>3, <1>6 DEF Advance
<1>9. Shape(c)'
  BY <1>1, <1>2, <1>3, <1>6, <1>7 DEF Shape, Onward, Pinned, Holding, Staging, Swapping
<1>10. Achieved(c) => Achieved(c)'
  BY <1>1, <1>2, <1>3, <1>6 DEF Achieved, Here, Onward, Swapping, Writing
<1>11. Spared(c)'
  BY <1>3, <1>6 DEF Spared, Exposed, Writing, Staging
<1>12. k.pc \in Holding \ {"plan", "list"}
  BY <1>6 DEF Holding, Writing
<1> QED BY <1>1, <1>2, <1>3, <1>5, <1>7, <1>8, <1>9, <1>10, <1>11, <1>12, AdvanceKeepsInv

LEMMA WriteLockStep ==
  ASSUME RepoInv, NEW c \in Procs, WriteLock(c)
  PROVE  RepoInv'
<1>1. proc[c].pc = "write" /\ proc[c].pc \in Holding
  BY DEF WriteLock, Holding, Writing
<1>2. /\ c \in Active /\ TypeOK /\ proc[c] \in Command /\ Shape(c) /\ proc[c].part \in Parts
      /\ disk \in [Dirs -> Directory] /\ stray \in BOOLEAN /\ hurt \subseteq Parts
      /\ UNCHANGED <<disk, deps, listed, hurt, stray, cuts, runs>>
      /\ lock' \in {proc[c].lf, Torn} /\ (lock = Torn => lock' = proc[c].lf)
  BY <1>1, Context DEF WriteLock
<1> DEFINE k == [proc[c] EXCEPT !.pc = IF proc[c].op = "eject" THEN "list" ELSE "deps"]
<1>3. proc' = [proc EXCEPT ![c] = k] /\ proc'[c] = k
  BY <1>2 DEF WriteLock, Goto, TypeOK
<1>4. /\ k \in Command /\ Onward(k, proc[c]) /\ k.lf = proc[c].lf /\ k.flaw = proc[c].flaw
      /\ k.pc = IF proc[c].op = "eject" THEN "list" ELSE "deps"
  BY <1>2 DEF Command, Onward, Writing
<1> HIDE DEF k
<1>5. Advance(c, k)
  BY <1>2, <1>3, <1>4 DEF Advance
<1>6. Shape(c)'
  BY <1>1, <1>2, <1>3, <1>4 DEF Shape, Onward, Pinned, Holding, Staging, Swapping, Writing
<1>7. Achieved(c) => Achieved(c)'
  BY <1>1, <1>2, <1>3, <1>4 DEF Achieved, Here, Onward, Swapping, Writing
<1>8. Spared(c)'
  BY <1>3, <1>4 DEF Spared, Exposed, Writing, Staging
<1>9. k.pc \in Holding \ {"plan"}
  BY <1>4 DEF Holding, Writing
<1> QED BY <1>1, <1>2, <1>3, <1>4, <1>5, <1>6, <1>7, <1>8, <1>9, AdvanceKeepsInv

LEMMA ApplyDepsStep ==
  ASSUME RepoInv, NEW c \in Procs, ApplyDeps(c)
  PROVE  RepoInv'
<1>1. proc[c].pc = "deps" /\ proc[c].pc \in Holding
  BY DEF ApplyDeps, Holding, Writing
<1> DEFINE needs == Needs[proc[c].part][proc[c].rel]
<1>2. /\ c \in Active /\ TypeOK /\ proc[c] \in Command /\ Shape(c) /\ proc[c].part \in Parts
      /\ disk \in [Dirs -> Directory] /\ stray \in BOOLEAN /\ hurt \subseteq Parts
      /\ proc[c].op # "eject" /\ proc[c].rel \in Releases
      /\ UNCHANGED <<disk, lock, listed, hurt, stray, cuts, runs>>
      /\ deps' = IF needs \subseteq proc[c].pkg THEN deps ELSE proc[c].pkg \cup needs
  BY <1>1, Context DEF ApplyDeps, Shape
<1> DEFINE k == [proc[c] EXCEPT !.pc = "list"]
<1>3. proc' = [proc EXCEPT ![c] = k] /\ proc'[c] = k
  BY <1>2 DEF ApplyDeps, Goto, TypeOK
<1>4. /\ k \in Command /\ Onward(k, proc[c]) /\ k.lf = proc[c].lf /\ k.flaw = proc[c].flaw
      /\ k.pc = "list"
  BY <1>2 DEF Command, Onward, Writing
<1>5. needs \subseteq Packages /\ proc[c].pkg \subseteq Packages /\ deps \subseteq Packages
  BY <1>2 DEF Packages, Command, TypeOK
<1> HIDE DEF k, needs
<1>6. (deps' = deps \/ proc[c].pkg \subseteq deps') /\ deps' \in SUBSET Packages
  BY <1>2, <1>5
<1>7. Advance(c, k)
  BY <1>2, <1>3, <1>4 DEF Advance
<1>8. Shape(c)'
  BY <1>1, <1>2, <1>3, <1>4 DEF Shape, Onward, Pinned, Holding, Staging, Swapping, Writing
<1>9. Achieved(c) => Achieved(c)'
  <2> SUFFICES ASSUME Achieved(c) PROVE Achieved(c)'
    OBVIOUS
  <2>1. deps = proc[c].pkg
    BY <1>1, <1>2 DEF Achieved
  <2>2. Needs[k.part][k.rel] \subseteq deps'
    BY <1>2, <1>4, <2>1 DEF Onward, needs
  <2> QED BY <1>1, <1>2, <1>3, <1>4, <2>2 DEF Achieved, Here, Onward, Swapping, Writing
<1>10. Spared(c)'
  BY <1>3, <1>4 DEF Spared, Exposed, Writing, Staging
<1>11. k.pc \in Holding \ {"plan"}
  BY <1>4 DEF Holding, Writing
<1> QED BY <1>1, <1>2, <1>3, <1>4, <1>6, <1>7, <1>8, <1>9, <1>10, <1>11, AdvanceKeepsInv

LEMMA SyncAgentsStep ==
  ASSUME RepoInv, NEW c \in Procs, SyncAgents(c)
  PROVE  RepoInv'
<1>1. proc[c].pc = "list" /\ proc[c].pc \in Holding
  BY DEF SyncAgents, Holding, Writing
<1>2. /\ c \in Active /\ TypeOK /\ proc[c] \in Command /\ Shape(c) /\ proc[c].part \in Parts
      /\ disk \in [Dirs -> Directory] /\ stray \in BOOLEAN /\ hurt \subseteq Parts
      /\ (proc[c].op # "eject" => proc[c].rel \in Releases)
      /\ UNCHANGED <<lock, disk, deps, stray, cuts, runs>> /\ listed' = proc[c].lf
      /\ hurt' = IF proc[c].alone /\ ~proc[c].flaw THEN hurt \ {proc[c].part} ELSE hurt
  BY <1>1, Context DEF SyncAgents
<1>3. PICK k \in Command : /\ proc' = [proc EXCEPT ![c] = k] /\ k.pc \in {"pick", "idle"}
                           /\ k.todo \subseteq k.targets /\ (k.flaw => k.op = "eject")
                           /\ (k.pc = "pick" => k.targets = proc[c].targets /\ k.alone = proc[c].alone)
  <2>1. CASE proc[c].op = "add"
    <3> DEFINE k == [proc[c] EXCEPT !.pc = "pick"]
    <3>1. proc' = [proc EXCEPT ![c] = k]
      BY <2>1 DEF SyncAgents, Complete, Goto
    <3>2. k \in Command
      BY <1>2, Going
    <3>3. /\ k.pc = "pick" /\ k.targets = proc[c].targets /\ k.alone = proc[c].alone
          /\ k.todo = proc[c].todo /\ k.flaw = proc[c].flaw /\ k.op = proc[c].op
      BY <1>2 DEF Command
    <3>4. k.todo \subseteq k.targets /\ (k.flaw => k.op = "eject")
      BY <1>1, <1>2, <3>3 DEF Shape
    <3> HIDE DEF k
    <3> QED BY <3>1, <3>2, <3>3, <3>4
  <2>2. CASE proc[c].op # "add"
    <3>1. proc' = [proc EXCEPT ![c] = Idle]
      BY <2>2 DEF SyncAgents, Complete, Finish
    <3>2. Idle \in Command /\ Idle.pc = "idle" /\ Idle.todo = {} /\ Idle.flaw = FALSE
      BY <1>2, ProcFacts DEF Idle, Started
    <3> QED BY <3>1, <3>2
  <2> QED BY <2>1, <2>2
<1>4. proc'[c] = k /\ \A d \in Procs \ {c} : proc'[d] = proc[d]
  BY <1>2, <1>3 DEF TypeOK
<1>5. TypeOK'
  <2>1. lock' \in Pins \cup {Torn} /\ listed' \in Pins /\ deps' \in SUBSET Packages
    BY <1>2 DEF TypeOK, Command
  <2> QED BY <1>2, <1>3, <2>1, TypeFrame
<1>6. ASSUME NEW p \in Parts \ hurt', ~Own(c, p) PROVE Kept(p)
  <2>1. p # proc[c].part /\ p \notin hurt
    BY <1>1, <1>2, <1>6 DEF Own
  <2>2. Preserves(c, p)
    BY <2>1 DEF RepoInv
  <2>3. listed[p] = proc[c].lf[p]
    BY <1>1, <2>1, <2>2 DEF Preserves, Fits
  <2> QED BY <1>2, <2>3 DEF Kept
<1>7. Turn(c)
  <2>1. hurt \subseteq hurt' \/ (proc[c].alone /\ \A p \in hurt : ~Own(c, p) => p \in hurt')
    BY <1>1, <1>2 DEF Own
  <2> QED BY <1>2, <1>3, <1>4, <1>6, <2>1 DEF Turn
<1>8. Shape(c)' /\ OneByOne(c)' /\ \A p \in Parts \ hurt' : Preserves(c, p)'
  <2>1. k.pc \notin Holding \cup {"open", "resolve"}
    BY <1>3 DEF Holding, Staging, Swapping, Writing
  <2>2. k.todo \subseteq k.targets /\ (k.flaw => k.op = "eject") /\ k.pc # "resolve"
    BY <1>3
  <2>3. Shape(c)'
    BY <1>4, <2>1, <2>2 DEF Shape, Holding, Staging, Swapping, Writing
  <2> QED BY <1>4, <2>1, <2>3 DEF OneByOne, Preserves
<1>9. ASSUME NEW p \in Parts \ hurt', Own(c, p) PROVE FitsNext(p, lock'[p])
  <2>1. p = proc[c].part /\ proc[c].alone /\ (~proc[c].flaw \/ p \notin hurt)
    BY <1>1, <1>2, <1>9, Loner DEF Own
  <2>2. Achieved(c)
    BY <1>1, <1>2, <2>1 DEF RepoInv, OneByOne
  <2>3. lock' = proc[c].lf /\ listed' = proc[c].lf /\ proc[c].lf[p] = Pinned(c)
    BY <1>1, <1>2, <2>1, <2>2 DEF Achieved, Shape
  <2>4. CASE proc[c].op = "eject"
    <3>1. disk'[<<"parts", p>>] = NoDir /\ Pinned(c) = None
      BY <1>1, <1>2, <2>1, <2>2, <2>4 DEF Achieved, Here, Pinned
    <3> QED BY <2>3, <3>1 DEF FitsNext
  <2>5. CASE proc[c].op # "eject"
    <3>1. /\ disk'[<<"parts", p>>] = Genuine(proc[c].rel) /\ Pinned(c) = proc[c].rel
          /\ Needs[p][proc[c].rel] \subseteq deps'
      BY <1>1, <1>2, <2>1, <2>2, <2>5 DEF Achieved, Here, Pinned, Writing
    <3>2. proc[c].rel # None
      BY <1>2, <2>5, RepoAssumption
    <3> QED BY <2>3, <3>1, <3>2 DEF FitsNext, Genuine
  <2> QED BY <2>4, <2>5
<1>10. lock' # Torn => \A p \in Parts \ hurt' : Own(c, p) => FitsNext(p, lock'[p])
  BY <1>9
<1> QED BY <1>2, <1>5, <1>7, <1>8, <1>10, TurnKeepsInv

-----------------------------------------------------------------------------
(* Kills and failures                                                      *)

LEMMA CutFacts ==
  ASSUME RepoInv, NEW c \in Procs, Cut(c)
  PROVE  /\ c \in Active /\ UNCHANGED <<lock, deps, listed, runs>>
         /\ disk' \in [Dirs -> Directory] /\ cuts < MaxCuts /\ cuts' = cuts + 1
         /\ hurt \subseteq hurt' /\ hurt' \subseteq Parts
         /\ Exposed(c) => proc[c].part \in hurt'
         /\ \A p \in Parts \ hurt' : disk'[<<"parts", p>>] = disk[<<"parts", p>>]
         /\ \A p \in Parts : p # proc[c].part => disk'[<<"parts", p>>] = disk[<<"parts", p>>]
<1>1. /\ c \in Active /\ UNCHANGED <<lock, deps, listed, runs>> /\ cuts < MaxCuts /\ cuts' = cuts + 1
      /\ hurt' = IF Exposed(c) THEN hurt \cup {proc[c].part} ELSE hurt
  BY DEF Cut
<1>2. TypeOK /\ disk \in [Dirs -> Directory] /\ DOMAIN disk = Dirs /\ hurt \subseteq Parts
  BY DEF RepoInv, TypeOK, Dirs
<1>3. Exposed(c) => proc[c].part \in Parts
  BY ExposedHolds, PartFacts
<1>4. PICK gone \in SUBSET Files :
        disk' = [x \in DOMAIN disk |-> IF x \in Removing(c) THEN Gutted(disk[x], gone) ELSE disk[x]]
  BY DEF Cut
<1>5. \A d \in Directory : Gutted(d, gone) \in Directory
  BY DEF Gutted, Directory
<1>6. disk' \in [Dirs -> Directory]
  BY <1>2, <1>4, <1>5
<1>7. Removing(c) \subseteq {Here(c), <<"tmp", proc[c].part>>} /\ (Here(c) \in Removing(c) => Exposed(c))
  <2>1. CASE proc[c].pc = "clear"
    BY <2>1, Context DEF Removing, Place, Here, Exposed, Holding, Staging, Shape, Command
  <2>2. CASE proc[c].pc = "rmold"
    BY <2>2 DEF Removing, Here, Exposed, Swapping
  <2>3. CASE proc[c].pc = "sweep"
    BY <2>3 DEF Removing, Here
  <2>4. CASE proc[c].pc \notin {"clear", "rmold", "sweep"}
    BY <2>4 DEF Removing
  <2> QED BY <2>1, <2>2, <2>3, <2>4
<1>8. \A p \in Parts : p # proc[c].part \/ ~Exposed(c) => disk'[<<"parts", p>>] = disk[<<"parts", p>>]
  <2> SUFFICES ASSUME NEW p \in Parts, p # proc[c].part \/ ~Exposed(c)
               PROVE  disk'[<<"parts", p>>] = disk[<<"parts", p>>]
    OBVIOUS
  <2>1. <<"parts", p>> \in Dirs /\ <<"parts", p>> \notin Removing(c)
    BY <1>7 DEF Dirs, Here
  <2> QED BY <1>2, <1>4, <2>1
<1> QED BY <1>1, <1>2, <1>3, <1>6, <1>8

LEMMA KillStep ==
  ASSUME RepoInv, NEW c \in Procs, Kill(c)
  PROVE  RepoInv'
<1>1. Cut(c) /\ proc' = [proc EXCEPT ![c] = Idle]
  BY DEF Kill, Finish
<1>2. stray' \in BOOLEAN
  BY DEF Kill, RepoInv, TypeOK
<1>3. \A p \in Parts \ hurt' :
        (p # proc[c].part \/ ~Exposed(c)) /\ disk'[<<"parts", p>>] = disk[<<"parts", p>>]
  BY <1>1, CutFacts
<1> QED BY <1>1, <1>2, <1>3, CutFacts, EndStep

LEMMA FaultStep ==
  ASSUME RepoInv, NEW c \in Procs, Fault(c)
  PROVE  RepoInv'
<1>1. Cut(c) /\ stray' \in BOOLEAN
  BY DEF Fault, RepoInv, TypeOK
<1>2. proc[c].pc \in Staging \cup Swapping \cup Writing \cup {"sweep", "move", "void"} /\ proc[c].pc \in Holding
  BY DEF Fault, Holding, Writing
<1>3. c \in Active /\ TypeOK /\ proc[c] \in Command /\ Shape(c)
  BY <1>2, Context
<1>4. CASE proc' = [proc EXCEPT ![c] = Idle]
  <2>1. \A p \in Parts \ hurt' :
          (p # proc[c].part \/ ~Exposed(c)) /\ disk'[<<"parts", p>>] = disk[<<"parts", p>>]
    BY <1>1, CutFacts
  <2> QED BY <1>1, <1>4, <2>1, CutFacts, EndStep
<1>5. ASSUME NEW s \in {"sweep", "lock"}, proc' = [proc EXCEPT ![c].pc = s, ![c].flaw = TRUE],
             s = "sweep" => proc[c].op = "upgrade" /\ proc[c].pc \in Staging \cup Swapping,
             s = "lock" => proc[c].op = "eject" /\ proc[c].pc \in {"move", "void"}
      PROVE  RepoInv'
  <2> DEFINE k == [proc[c] EXCEPT !.pc = s, !.flaw = TRUE]
  <2>1. proc' = [proc EXCEPT ![c] = k] /\ proc'[c] = k
    BY <1>3, <1>5 DEF TypeOK
  <2>2. k \in Command
    BY <1>3, <1>5, Going
  <2>3. Onward(k, proc[c]) /\ k.pc = s /\ k.lf = proc[c].lf /\ k.flaw
    BY <1>3 DEF Command, Onward
  <2> HIDE DEF k
  <2>4. Advance(c, k) /\ UNCHANGED <<lock, deps, listed>>
    BY <1>1, <2>1, <2>3, CutFacts DEF Advance
  <2>5. Shape(c)'
    BY <1>2, <1>3, <1>5, <2>1, <2>3 DEF Shape, Onward, Holding, Staging, Swapping, Writing
  <2>6. proc[c].part \in hurt' \/ (s = "sweep" /\ ~Exposed(c))
    BY <1>1, <1>5, CutFacts DEF Exposed
  <2>7. Achieved(c) => Achieved(c)'
    <3> SUFFICES ASSUME Achieved(c) PROVE Achieved(c)'
      OBVIOUS
    <3>1. lock' = k.lf
      BY <1>5, <2>3, <2>4 DEF Achieved, Staging, Swapping
    <3>2. CASE s = "sweep"
      <4>1. deps' = k.pkg
        BY <1>5, <2>3, <2>4, <3>2 DEF Achieved, Onward, Staging, Swapping
      <4> QED BY <1>5, <2>1, <2>3, <3>1, <3>2, <4>1 DEF Achieved, Onward, Swapping, Writing
    <3>3. CASE s = "lock"
      BY <1>5, <2>1, <2>3, <2>6, <3>1, <3>3 DEF Achieved, Onward, Swapping, Writing
    <3> QED BY <3>2, <3>3
  <2>8. ASSUME Spared(c), proc[c].part \notin hurt' PROVE Spared(c)'
    <3>1. s = "sweep" /\ ~Exposed(c) /\ proc[c].part \in Parts
      BY <1>2, <2>6, <2>8, Context
    <3>2. disk'[<<"parts", k.part>>] = disk[<<"parts", k.part>>] /\ k.op # "add"
      BY <1>1, <1>5, <2>3, <2>8, <3>1, CutFacts DEF Onward
    <3> QED BY <2>1, <2>3, <2>4, <2>8, <3>1, <3>2, SparedKept
  <2>9. k.pc \in Holding \ {"plan", "list"} /\ proc[c].pc \notin {"plan", "list"}
    BY <1>5, <2>3 DEF Holding, Writing, Staging, Swapping
  <2> QED BY <1>2, <1>3, <2>1, <2>2, <2>3, <2>4, <2>5, <2>7, <2>8, <2>9, AdvanceKeepsInv
<1>6. CASE proc' = [proc EXCEPT ![c] = Thrown(c)]
  <2>1. CASE proc[c].op = "upgrade" /\ proc[c].pc \in Staging \cup Swapping
    <3>1. proc' = [proc EXCEPT ![c].pc = "sweep", ![c].flaw = TRUE]
      BY <1>6, <2>1 DEF Thrown
    <3> QED BY <1>5, <2>1, <3>1
  <2>2. CASE ~(proc[c].op = "upgrade" /\ proc[c].pc \in Staging \cup Swapping)
    BY <1>4, <1>6, <2>2 DEF Thrown
  <2> QED BY <2>1, <2>2
<1>7. CASE proc[c].pc \in {"move", "void"} /\ proc' = [proc EXCEPT ![c].pc = "lock", ![c].flaw = TRUE]
  <2>1. proc[c].op = "eject"
    BY <1>3, <1>7 DEF Shape
  <2> QED BY <1>5, <1>7, <2>1
<1>8. CASE proc[c].pc = "list" /\ proc[c].op = "add" /\ proc' = [proc EXCEPT ![c].pc = "pick"]
  \* AGENTS.md was not read: the part is given up, and the next one is picked.
  <2> DEFINE k == [proc[c] EXCEPT !.pc = "pick"]
  <2>1. proc' = [proc EXCEPT ![c] = k] /\ proc'[c] = k /\ \A d \in Procs \ {c} : proc'[d] = proc[d]
    BY <1>3, <1>8 DEF TypeOK
  <2>2. k \in Command
    BY <1>3, Going
  <2>3. /\ k.pc = "pick" /\ k.targets = proc[c].targets /\ k.alone = proc[c].alone
        /\ k.todo \subseteq k.targets /\ ~k.flaw /\ k.pc \notin Holding
    BY <1>3, <1>8 DEF Command, Shape, Holding, Staging, Swapping, Writing
  <2> HIDE DEF k
  <2>4. /\ hurt \subseteq hurt' /\ proc[c].part \in hurt'
        /\ UNCHANGED <<lock, deps, listed>>
        /\ \A p \in Parts \ hurt' : disk'[<<"parts", p>>] = disk[<<"parts", p>>]
    BY <1>1, <1>8, CutFacts DEF Exposed, Writing
  <2>5. TypeOK'
    <3>1. lock' \in Pins \cup {Torn} /\ listed' \in Pins /\ deps' \in SUBSET Packages
      BY <1>3, <2>4 DEF TypeOK
    <3> QED BY <1>1, <1>3, <2>1, <2>2, <3>1, CutFacts, TypeFrame
  <2>6. Turn(c)
    BY <2>1, <2>3, <2>4 DEF Turn, Kept
  <2>7. Shape(c)' /\ OneByOne(c)' /\ \A p \in Parts \ hurt' : Preserves(c, p)'
    BY <2>1, <2>3 DEF Shape, OneByOne, Preserves, Holding, Staging, Swapping, Writing
  <2>8. \A p \in Parts \ hurt' : ~Own(c, p)
    BY <2>4 DEF Own
  <2> QED BY <1>3, <2>5, <2>6, <2>7, <2>8, TurnKeepsInv
<1> QED BY <1>4, <1>6, <1>7, <1>8 DEF Fault, Complete, Goto, Finish

-----------------------------------------------------------------------------
(* Starting, and the invariant                                             *)

\* A command that starts in company gives up the parts of all of them.
LEMMA StartStep ==
  ASSUME RepoInv, NEW c \in Procs, Start(c)
  PROVE  RepoInv'
<1>1. PICK op \in Commands, targets \in SUBSET Parts : Begin(c, op, targets)
  BY DEF Start
<1> DEFINE k == [Started(op, IF op = "add" THEN "resolve" ELSE "pick", targets)
                   EXCEPT !.alone = ~(Active # {})]
<1>2. /\ proc' = [d \in Procs |-> IF d = c THEN k
                    ELSE IF d \in Active THEN [proc[d] EXCEPT !.alone = FALSE] ELSE proc[d]]
      /\ hurt' = IF Active # {} THEN hurt \cup targets \cup UNION {proc[d].targets : d \in Active}
                                ELSE hurt
      /\ UNCHANGED <<repo, stray, cuts>> /\ c \notin Active
      /\ runs < (IF Active = {} THEN MaxRuns ELSE MaxTogether) /\ runs' = runs + 1
  BY <1>1 DEF Begin
<1>3. /\ k \in Command /\ k.pc \in {"resolve", "pick"} /\ k.op = op /\ (k.pc = "resolve" => k.op = "add")
      /\ k.targets = targets /\ k.todo = targets /\ k.flaw = FALSE /\ k.alone = (Active = {})
  BY RepoAssumption DEF Started, Command, Unlisted, Pins
<1> HIDE DEF k
<1>4. TypeOK /\ proc'[c] = k
  BY <1>2 DEF RepoInv
<1>5. ASSUME NEW d \in Procs \ {c}
      PROVE  /\ proc[d] \in Command /\ proc'[d] \in Command /\ proc'[d].pc = proc[d].pc
             /\ proc'[d].op = proc[d].op /\ proc'[d].targets = proc[d].targets
             /\ proc'[d].todo = proc[d].todo /\ proc'[d].part = proc[d].part
             /\ proc'[d].rel = proc[d].rel /\ proc'[d].lf = proc[d].lf
             /\ proc'[d].pkg = proc[d].pkg /\ proc'[d].flaw = proc[d].flaw
             /\ (d \in Active => proc'[d].alone = FALSE)
  <2>1. proc[d] \in Command
    BY <1>4 DEF TypeOK
  <2>2. CASE d \in Active
    <3>1. proc'[d] = [proc[d] EXCEPT !.alone = FALSE]
      BY <1>2, <1>5, <2>2
    <3> QED BY <2>1, <3>1 DEF Command
  <2>3. CASE d \notin Active
    <3>1. proc'[d] = proc[d]
      BY <1>2, <1>5, <2>3
    <3> QED BY <2>1, <2>3, <3>1
  <2> QED BY <2>2, <2>3
<1>6. /\ Active' = Active \cup {c} /\ hurt \subseteq hurt' /\ hurt' \subseteq Parts
      /\ Active # {} => targets \subseteq hurt' /\ \A d \in Active : proc[d].targets \subseteq hurt'
  <2>1. Active' = Active \cup {c}
    BY <1>3, <1>4, <1>5 DEF Active
  <2>2. \A d \in Active : proc[d].targets \subseteq Parts
    BY <1>4 DEF Active, TypeOK, Command
  <2> QED BY <1>2, <1>4, <2>1, <2>2 DEF TypeOK
<1>7. TypeOK'
  <2>1. proc' \in [Procs -> Command]
    BY <1>2, <1>3, <1>4, <1>5
  <2>2. runs' \in 0..MaxRuns
    BY <1>2, <1>4, RepoAssumption DEF TypeOK
  <2> QED BY <1>2, <1>4, <1>6, <2>1, <2>2 DEF TypeOK, repo
<1>8. k.pc \notin Holding \cup {"open"}
  BY <1>3 DEF Holding, Staging, Swapping, Writing
<1>9. ASSUME NEW d \in Procs PROVE Shape(d)' /\ Company(d)' /\ OneByOne(d)'
  <2>1. CASE d = c
    <3>1. Shape(d)'
      BY <1>3, <1>4, <1>8, <2>1 DEF Shape, Holding, Staging, Swapping, Writing
    <3>2. Company(d)'
      BY <1>3, <1>4, <1>6, <2>1 DEF Company
    <3> QED BY <1>4, <1>8, <2>1, <3>1, <3>2 DEF OneByOne
  <2>2. CASE d # c
    <3>1. Shape(d)'
      <4>1. Shape(d) /\ d \in Procs \ {c}
        BY <2>2 DEF RepoInv
      <4>2. Pinned(d)' = Pinned(d)
        BY <1>5, <4>1 DEF Pinned
      <4> QED BY <1>5, <4>1, <4>2 DEF Shape
    <3>2. Company(d)' /\ ~(d \in Active' /\ proc'[d].alone)
      BY <1>5, <1>6, <2>2 DEF Company
    <3> QED BY <3>1, <3>2 DEF OneByOne
  <2> QED BY <2>1, <2>2
<1>10. \A p, pin : Fits(p, pin) => Fits(p, pin)'
  BY <1>2 DEF Fits, GuardClean, VerifyClean, repo
<1>11. ASSUME NEW d \in Procs, NEW p \in Parts \ hurt' PROVE Preserves(d, p)'
  <2>1. CASE d = c
    BY <1>4, <1>8, <2>1 DEF Preserves
  <2>2. CASE d # c
    <3> SUFFICES ASSUME proc[d].pc \in Holding, p # proc[d].part PROVE Preserves(d, p)'
      BY <1>5, <2>2 DEF Preserves
    <3>1. Preserves(d, p)
      BY <1>6 DEF RepoInv
    <3>2. Fits(p, proc[d].lf[p])'
      <4>1. FitsNext(p, proc[d].lf[p])
        BY <1>2, <3>1 DEF Preserves, Fits, FitsNext, GuardClean, VerifyClean, repo
      <4>2. proc'[d].lf = proc[d].lf
        BY <1>5, <2>2
      <4> QED BY <4>1, <4>2 DEF Fits, FitsNext, GuardClean, VerifyClean
    <3> QED BY <1>5, <2>2, <3>1, <3>2 DEF Preserves
  <2> QED BY <2>1, <2>2
<1>12. DamageIsLocal'
  <2> SUFFICES ASSUME lock # Torn, NEW p \in Parts \ hurt' PROVE InStep(p)'
    BY <1>2 DEF DamageIsLocal, repo
  <2>1. InStep(p) \/ \E d \in Active : proc[d].part = p /\ Exposed(d)
    BY <1>6 DEF RepoInv, DamageIsLocal
  <2>2. ASSUME NEW d \in Active, proc[d].part = p, Exposed(d) PROVE FALSE
    <3>1. p \in proc[d].targets
      BY <2>2, ExposedHolds, PartFacts DEF Active
    <3> QED BY <1>6, <3>1
  <2> QED BY <1>2, <2>1, <2>2 DEF InStep, Fits, GuardClean, VerifyClean, repo
<1> QED BY <1>7, <1>9, <1>11, <1>12 DEF RepoInv

LEMMA InitInv == Init => RepoInv
<1> SUFFICES ASSUME Init PROVE RepoInv
  OBVIOUS
<1>1. lock \in Pins /\ listed = lock
  BY DEF Init, Pins
<1>2. disk = [x \in Dirs |-> IF x[1] = "parts" /\ lock[x[2]] # None THEN Genuine(lock[x[2]]) ELSE NoDir]
  BY DEF Init, Dirs
<1>3. \A c \in Procs : proc[c] = Idle
  BY DEF Init
<1>4. Idle \in Command /\ Idle.pc = "idle" /\ Idle.todo \subseteq Idle.targets /\ Idle.flaw = FALSE
  BY DEF Idle, Started, Command, Unlisted, Pins
<1>5. \A p \in Parts : lock[p] # None => Needs[p][lock[p]] \subseteq deps
  BY DEF Init
<1>6. TypeOK
  <2>1. disk \in [Dirs -> Directory]
    BY <1>1, <1>2, DirectoryFacts DEF Dirs, Pins
  <2>2. deps \subseteq Packages
    BY <1>1 DEF Init, Packages, Pins
  <2>3. proc \in [Procs -> Command]
    BY <1>4 DEF Init
  <2>4. /\ hurt \subseteq Parts /\ stray \in BOOLEAN /\ cuts \in 0..MaxCuts /\ runs \in 0..MaxRuns
        /\ lock \in Pins \cup {Torn} /\ listed \in Pins
    <3>1. hurt = {} /\ stray = FALSE /\ cuts = 0 /\ runs = 0
      BY DEF Init
    <3>2. cuts \in 0..MaxCuts /\ runs \in 0..MaxRuns
      BY <3>1, RepoAssumption
    <3> QED BY <1>1, <3>1, <3>2
  <2> QED BY <2>1, <2>2, <2>3, <2>4 DEF TypeOK, Dirs
<1>7. \A p \in Parts : InStep(p)
  BY <1>1, <1>2, <1>5 DEF InStep, Fits, GuardClean, VerifyClean, Dirs, Genuine
<1>8. Active = {}
  BY <1>3, <1>4 DEF Active
<1>9. ASSUME NEW c \in Procs PROVE Shape(c) /\ Company(c) /\ OneByOne(c) /\ \A p : Preserves(c, p)
  <2>1. proc[c].pc \notin Holding \cup {"open"}
    BY <1>3, <1>4 DEF Holding, Staging, Swapping, Writing
  <2>2. Shape(c)
    BY <1>3, <1>4, <2>1 DEF Shape, Holding, Staging, Swapping, Writing
  <2> QED BY <1>8, <2>1, <2>2 DEF Company, OneByOne, Preserves
<1> QED BY <1>6, <1>7, <1>9 DEF RepoInv, DamageIsLocal

LEMMA StutterInv == RepoInv /\ UNCHANGED vars => RepoInv'
BY DEF RepoInv, TypeOK, Directory, Command, Shape, Pinned, Company, OneByOne, Preserves, Achieved,
       Spared, DamageIsLocal, InStep, Fits, GuardClean, VerifyClean, Place, Here, Exposed, Active,
       vars, repo

LEMMA RepoInvStep == RepoInv /\ [Next]_vars => RepoInv'
<1> SUFFICES ASSUME RepoInv, [Next]_vars PROVE RepoInv'
  OBVIOUS
<1>1. ASSUME NEW c \in Procs, Start(c) PROVE RepoInv'
  BY <1>1, StartStep
<1>2. ASSUME NEW c \in Procs, Decide(c) PROVE RepoInv'
  BY <1>2, ResolveStep, PickStep, OpenStep, PlanDepsStep DEF Decide
<1>3. ASSUME NEW c \in Procs, Vendor(c) PROVE RepoInv'
  BY <1>3, RefuseStep, ClearStep, CopyStep, HashStep, AttestStep, DisturbedStep DEF Vendor
<1>4. ASSUME NEW c \in Procs, Swap(c) PROVE RepoInv'
  BY <1>4, RemoveOldStep, RenameStep, SweepStep DEF Swap
<1>5. ASSUME NEW c \in Procs, Eject(c) PROVE RepoInv'
  BY <1>5, MoveStep, VoidStep DEF Eject
<1>6. ASSUME NEW c \in Procs, Conclude(c) PROVE RepoInv'
  BY <1>6, TruncateLockStep, WriteLockStep, ApplyDepsStep, SyncAgentsStep DEF Conclude
<1>7. ASSUME NEW c \in Procs, Kill(c) \/ Fault(c) PROVE RepoInv'
  BY <1>7, KillStep, FaultStep
<1> QED BY <1>1, <1>2, <1>3, <1>4, <1>5, <1>6, <1>7, StutterInv DEF Next

\* Commands are at steps that suit them; of a part that is not given up they hold what is
\* true and will write back what is true; and what a command without company made of its
\* own part so far, it made right.  (ops/add.ts, upgrade.ts, eject.ts, vendor.ts)
THEOREM RepoInvariant == Spec => []RepoInv
BY InitInv, RepoInvStep, PTL DEF Spec

\* parts.lock, the directories, package.json, AGENTS.md and the commands keep their types.
THEOREM TypeCorrect == Spec => []TypeOK
<1>1. RepoInv => TypeOK
  BY DEF RepoInv
<1> QED BY <1>1, RepoInvariant, PTL

\* Whatever is killed, fails or runs at once, only the part a command was about can be
\* out of step with its pin, for any number of commands, parts, releases and files
\* (upgrade.ts:85-86, vendor.ts:16-21).
THEOREM DamageStaysLocal == Spec => []DamageIsLocal
<1>1. RepoInv => DamageIsLocal
  BY DEF RepoInv
<1> QED BY <1>1, RepoInvariant, PTL

-----------------------------------------------------------------------------
(* The stage                                                               *)

\* A step of one command, once it has started, is a step of no other.
LEMMA ElseKept ==
  ASSUME TypeOK, NEW c \in Procs,
         Decide(c) \/ Vendor(c) \/ Swap(c) \/ Eject(c) \/ Conclude(c) \/ Kill(c) \/ Fault(c)
  PROVE  \A d \in Procs \ {c} : proc'[d] = proc[d]
BY DEF TypeOK, Decide, Resolve, Pick, Open, PlanDeps, Vendor, Refuse, Clear, Copy, Hash, Attest,
       Disturbed, Swap, RemoveOld, Rename, Sweep, Eject, Move, Void, Conclude, TruncateLock, WriteLock,
       ApplyDeps, SyncAgents, Complete, Kill, Fault, Goto, Finish

\* Where a step leaves the stage to be swept.
LEMMA StageFrame ==
  ASSUME StageInv, NEW c \in Procs,
         \A d \in Procs \ {c} : proc'[d].pc = proc[d].pc /\ proc'[d].op = proc[d].op,
         \/ stray'
         \/ \A p \in Parts : disk'[<<"tmp", p>>] = NoDir
         \/ Staged(c)'
         \/ ~stray /\ ~Staged(c) /\ \A p \in Parts : disk'[<<"tmp", p>>] = disk[<<"tmp", p>>]
  PROVE  StageInv'
<1>1. \A d : Staged(d)' => proc'[d].pc # "idle"
  BY DEF Staged, Staging, Swapping
<1>2. CASE Staged(c)'
  BY <1>1, <1>2 DEF StageInv, Active
<1>3. CASE ~stray /\ ~Staged(c) /\ \A p \in Parts : disk'[<<"tmp", p>>] = disk[<<"tmp", p>>]
  <2> SUFFICES ASSUME NEW p \in Parts, disk[<<"tmp", p>>] # NoDir
               PROVE  \E d \in Active' : Staged(d)'
    BY <1>3 DEF StageInv
  <2>1. PICK d \in Active : Staged(d)
    BY <1>3 DEF StageInv
  <2>2. d \in Procs \ {c} /\ d \in Active'
    BY <1>3, <2>1 DEF Active
  <2> QED BY <2>1, <2>2 DEF Staged
<1> QED BY <1>2, <1>3 DEF StageInv

\* A command at work on the directory of an addition leaves the stage alone.
LEMMA StageFarFrom ==
  ASSUME TypeOK, NEW c \in Procs, proc[c] \in Command, Shape(c), proc[c].op # "upgrade",
         proc[c].pc \in Staging, Refuse(c) \/ Clear(c) \/ Copy(c) \/ Hash(c) \/ Attest(c) \/ Disturbed(c)
  PROVE  \A p \in Parts : disk'[<<"tmp", p>>] = disk[<<"tmp", p>>]
<1>1. Place(c) = <<"parts", proc[c].part>> /\ disk \in [Dirs -> Directory]
  BY DEF Place, TypeOK, Dirs
<1>2. \A p \in Parts : <<"tmp", p>> \in Dirs /\ <<"tmp", p>> # Place(c)
  BY <1>1 DEF Dirs
<1> QED BY <1>1, <1>2 DEF Refuse, Clear, Copy, Hash, Attest, Disturbed, Cleared, repo

LEMMA VendorStage ==
  ASSUME RepoInv, StageInv, NEW c \in Procs, Vendor(c)
  PROVE  StageInv'
<1>1. TypeOK /\ proc[c] \in Command /\ Shape(c)
  BY ProcFacts DEF RepoInv
<1>2. /\ \A d \in Procs \ {c} : proc'[d].pc = proc[d].pc /\ proc'[d].op = proc[d].op
      /\ stray' = stray
  BY <1>1 DEF TypeOK, Vendor, Refuse, Clear, Copy, Hash, Attest, Disturbed, Goto
<1>3. /\ proc[c].pc \in Staging \cup {"rename", "resolve", "plan"}
      /\ proc[c].pc = "rename" => proc[c].op = "upgrade"
      /\ proc[c].pc \in {"resolve", "plan"} => Refuse(c)
  BY <1>1 DEF Vendor, Refuse, Clear, Copy, Hash, Attest, Disturbed, Staging, Shape, Swapping
<1>4. CASE proc[c].op = "upgrade" /\ proc[c].pc \notin {"resolve", "plan"}
  <2>1. Thrown(c).op = "upgrade" /\ Thrown(c).pc = "sweep"
    BY <1>1, <1>3, <1>4 DEF Thrown, Swapping, Command
  <2>2. proc'[c].op = "upgrade" /\ proc'[c].pc \in Staging \cup Swapping \cup {"sweep"}
    <3>1. CASE Clear(c)
      BY <1>1, <1>4, <3>1 DEF Clear, TypeOK, Command, Staging
    <3>2. CASE Copy(c)
      BY <1>1, <1>4, <3>2 DEF Copy, TypeOK, Command, Staging
    <3>3. CASE Hash(c)
      BY <1>1, <1>4, <2>1, <3>3 DEF Hash, Goto, TypeOK, Command, Staging
    <3>4. CASE Attest(c)
      BY <1>1, <1>4, <3>4 DEF Attest, Goto, TypeOK, Command, Swapping
    <3>5. CASE Disturbed(c)
      BY <1>1, <2>1, <3>5 DEF Disturbed, TypeOK
    <3>6. CASE Refuse(c)
      BY <1>1, <2>1, <3>6 DEF Refuse, TypeOK
    <3> QED BY <3>1, <3>2, <3>3, <3>4, <3>5, <3>6 DEF Vendor
  <2>3. Staged(c)'
    BY <2>2 DEF Staged
  <2> QED BY <1>2, <2>3, StageFrame
<1>5. CASE proc[c].op # "upgrade" /\ proc[c].pc \notin {"resolve", "plan"}
  <2>1. \A p \in Parts : disk'[<<"tmp", p>>] = disk[<<"tmp", p>>]
    BY <1>1, <1>3, <1>5, StageFarFrom DEF Vendor
  <2>2. ~Staged(c)
    BY <1>5 DEF Staged
  <2> QED BY <1>2, <2>1, <2>2, StageFrame
<1>6. CASE proc[c].pc \in {"resolve", "plan"}
  <2>1. ~Staged(c) /\ disk' = disk
    BY <1>3, <1>6 DEF Staged, Staging, Swapping, Refuse, repo
  <2> QED BY <1>2, <2>1, StageFrame
<1> QED BY <1>4, <1>5, <1>6

LEMMA SwapStage ==
  ASSUME RepoInv, StageInv, NEW c \in Procs, Swap(c)
  PROVE  StageInv'
<1>1. TypeOK /\ proc[c] \in Command /\ Shape(c) /\ DOMAIN disk = Dirs
  BY ProcFacts DEF RepoInv
<1>2. \A d \in Procs \ {c} : proc'[d].pc = proc[d].pc /\ proc'[d].op = proc[d].op
  BY <1>1 DEF TypeOK, Swap, RemoveOld, Rename, Sweep, Goto, Finish
<1>3. CASE Sweep(c)
  <2>1. \A p \in Parts : disk'[<<"tmp", p>>] = NoDir
    BY <1>1, <1>3 DEF Sweep, Swept, Dirs
  <2> QED BY <1>2, <2>1, StageFrame
<1>4. CASE RemoveOld(c) \/ Rename(c)
  <2>1. proc[c].op = "upgrade"
    BY <1>1, <1>4 DEF RemoveOld, Rename, Shape, Swapping
  <2>2. proc'[c].op = "upgrade" /\ proc'[c].pc \in {"rename", "sweep"}
    BY <1>1, <1>4, <2>1 DEF RemoveOld, Rename, Goto, TypeOK, Command
  <2>3. Staged(c)'
    BY <2>2 DEF Staged, Swapping
  <2> QED BY <1>2, <2>3, StageFrame
<1> QED BY <1>3, <1>4 DEF Swap

\* Deciding, ejecting and writing the records are not for a staged tree.
LEMMA OtherStage ==
  ASSUME RepoInv, StageInv, NEW c \in Procs, Decide(c) \/ Eject(c) \/ Conclude(c)
  PROVE  StageInv'
<1>1. TypeOK /\ disk \in [Dirs -> Directory]
  BY DEF RepoInv, TypeOK, Dirs
<1>2. /\ \A d \in Procs \ {c} : proc'[d].pc = proc[d].pc /\ proc'[d].op = proc[d].op
      /\ stray' = stray
  BY <1>1 DEF TypeOK, Decide, Resolve, Pick, Open, PlanDeps, Eject, Move, Void, Conclude,
       TruncateLock, WriteLock, ApplyDeps, SyncAgents, Complete, Goto, Finish
<1>3. ~Staged(c)
  BY DEF Staged, Staging, Swapping, Decide, Resolve, Pick, Open, PlanDeps, Eject, Move, Void,
         Conclude, TruncateLock, WriteLock, ApplyDeps, SyncAgents
<1>4. \A p \in Parts : disk'[<<"tmp", p>>] = disk[<<"tmp", p>>]
  <2>1. CASE Eject(c)
    BY <1>1, <2>1 DEF Eject, Move, Void, Here, Dirs
  <2>2. CASE Decide(c) \/ Conclude(c)
    BY <2>2 DEF Decide, Resolve, Pick, Open, PlanDeps, Conclude, TruncateLock, WriteLock,
                ApplyDeps, SyncAgents, repo
  <2> QED BY <2>1, <2>2
<1> QED BY <1>2, <1>3, <1>4, StageFrame

\* A kill may leave a staged tree behind, and so may a failing sweep; other failures go on
\* to the sweep.
LEMMA CutStage ==
  ASSUME RepoInv, StageInv, NEW c \in Procs, Kill(c) \/ Fault(c)
  PROVE  StageInv'
<1>1. TypeOK /\ proc[c] \in Command /\ Shape(c) /\ DOMAIN disk = Dirs
  BY ProcFacts DEF RepoInv
<1>2. /\ \A d \in Procs \ {c} : proc'[d].pc = proc[d].pc /\ proc'[d].op = proc[d].op
      /\ stray => stray'
  BY <1>1 DEF TypeOK, Kill, Fault, Complete, Goto, Finish
<1>3. CASE ~Staged(c)
  <2>1. \A p : <<"tmp", p>> \notin Removing(c)
    BY <1>1, <1>3 DEF Removing, Place, Here, Staged, Shape, Staging, Swapping
  <2>2. \A p \in Parts : disk'[<<"tmp", p>>] = disk[<<"tmp", p>>]
    BY <1>1, <2>1 DEF Kill, Fault, Cut, Dirs
  <2> QED BY <1>2, <1>3, <2>2, StageFrame
<1>4. CASE Staged(c)
  <2>1. CASE Kill(c) \/ proc[c].pc = "sweep"
    <3>1. stray'
      BY <1>4, <2>1 DEF Kill, Fault
    <3> QED BY <1>2, <3>1, StageFrame
  <2>2. CASE Fault(c) /\ proc[c].pc # "sweep"
    <3>1. proc[c].op = "upgrade" /\ proc[c].pc \in Staging \cup Swapping
      BY <1>4, <2>2 DEF Staged
    <3>2. proc'[c].op = "upgrade" /\ proc'[c].pc = "sweep"
      <4>1. Thrown(c).op = "upgrade" /\ Thrown(c).pc = "sweep"
        BY <1>1, <3>1 DEF Thrown, Command
      <4>2. proc' = [proc EXCEPT ![c] = Thrown(c)]
        BY <2>2, <3>1 DEF Fault, Staging, Swapping
      <4> QED BY <1>1, <4>1, <4>2 DEF TypeOK
    <3>3. Staged(c)'
      BY <3>2 DEF Staged
    <3> QED BY <1>2, <3>3, StageFrame
  <2> QED BY <2>1, <2>2
<1> QED BY <1>3, <1>4

LEMMA StageInvStep == RepoInv /\ StageInv /\ [Next]_vars => StageInv'
<1> SUFFICES ASSUME RepoInv, StageInv, [Next]_vars PROVE StageInv'
  OBVIOUS
<1>1. ASSUME NEW c \in Procs, Start(c) PROVE StageInv'
  <2>1. PICK op \in Commands, targets \in SUBSET Parts : Begin(c, op, targets)
    BY <1>1 DEF Start
  <2>2. c \notin Active /\ UNCHANGED <<repo, stray>>
    BY <2>1 DEF Begin
  <2>3. \A d \in Procs \ {c} : proc'[d].pc = proc[d].pc /\ proc'[d].op = proc[d].op
    <3> SUFFICES ASSUME NEW d \in Procs \ {c}
                 PROVE  proc'[d].pc = proc[d].pc /\ proc'[d].op = proc[d].op
      OBVIOUS
    <3>1. proc'[d] = IF d \in Active THEN [proc[d] EXCEPT !.alone = FALSE] ELSE proc[d]
      BY <2>1 DEF Begin
    <3>2. proc[d] \in Command
      BY DEF RepoInv, TypeOK
    <3> QED BY <3>1, <3>2 DEF Command
  <2>4. ~Staged(c)
    BY <2>2 DEF Active, Staged, Staging, Swapping
  <2>5. stray' = stray /\ \A p \in Parts : disk'[<<"tmp", p>>] = disk[<<"tmp", p>>]
    BY <2>2 DEF repo
  <2> QED BY <2>3, <2>4, <2>5, StageFrame
<1>2. ASSUME NEW c \in Procs, Decide(c) \/ Eject(c) \/ Conclude(c) PROVE StageInv'
  BY <1>2, OtherStage
<1>3. ASSUME NEW c \in Procs, Vendor(c) PROVE StageInv'
  BY <1>3, VendorStage
<1>4. ASSUME NEW c \in Procs, Swap(c) PROVE StageInv'
  BY <1>4, SwapStage
<1>5. ASSUME NEW c \in Procs, Kill(c) \/ Fault(c) PROVE StageInv'
  BY <1>5, CutStage
<1>6. CASE UNCHANGED vars
  BY <1>6 DEF StageInv, Staged, Active, vars, repo
<1> QED BY <1>1, <1>2, <1>3, <1>4, <1>5, <1>6 DEF Next

\* No staged tree outlives the upgrades, however the commands overlap or fail, unless a kill
\* or a failing sweep kept the last one from sweeping (upgrade.ts:86-104, its finally).
THEOREM StageAlwaysSwept == Spec => []StageIsSwept
<1>1. Init => StageInv
  BY DEF Init, StageInv
<1>2. StageInv => StageIsSwept
  BY DEF StageInv, StageIsSwept
<1> QED BY <1>1, <1>2, StageInvStep, RepoInvariant, PTL DEF Spec

-----------------------------------------------------------------------------
(* One provider per capability                                             *)

\* The steps from the check for other providers to the write of the lockfile.
Checked == {"plan", "lock", "write"} \cup Staging

\* A step of another command changes nothing of it.
LEMMA OverlapFrame ==
  ASSUME NEW c, NoOverlap(c),
         proc'[c].op = "add" /\ proc'[c].pc \in Checked =>
           /\ proc[c].op = "add" /\ proc[c].pc \in Checked
           /\ proc'[c].part = proc[c].part /\ proc'[c].rel = proc[c].rel
           /\ \A q \in Parts \ {proc[c].part} : proc'[c].lf[q] = proc[c].lf[q]
  PROVE  NoOverlap(c)'
BY DEF NoOverlap, Checked

LEMMA OverlapInit == Init => \A c \in Procs : NoOverlap(c)
<1>1. Idle.pc = "idle"
  BY DEF Idle, Started
<1> QED BY <1>1 DEF Init, NoOverlap, Staging

\* Open looks for other providers in the lockfile it keeps.
LEMMA OverlapOpen ==
  ASSUME TypeOK, NEW c \in Procs, Open(c)
  PROVE  NoOverlap(c)'
<1>1. proc[c] \in Command /\ Idle.pc = "idle"
  BY ProcFacts
<1>2. CASE proc' = [proc EXCEPT ![c] = Idle]
  <2>1. proc'[c].pc = "idle"
    BY <1>1, <1>2 DEF TypeOK
  <2> QED BY <2>1 DEF NoOverlap, Staging
<1>3. CASE ~Refused(proc[c].op, proc[c].part, proc[c].rel)
           /\ proc' = [proc EXCEPT ![c].lf = lock,
                                   ![c].pc = IF proc[c].op = "eject" THEN "move" ELSE "plan"]
  <2>1. /\ proc'[c].op = proc[c].op /\ proc'[c].part = proc[c].part
        /\ proc'[c].rel = proc[c].rel /\ proc'[c].lf = lock
    BY <1>1, <1>3 DEF TypeOK, Command
  <2>2. proc[c].op = "add" => ~Overlap(proc[c].part, proc[c].rel)
    BY <1>3 DEF Refused
  <2> QED BY <2>1, <2>2 DEF NoOverlap, Overlap
<1> QED BY <1>2, <1>3 DEF Open, Finish

\* The other steps of a command between the check and the write keep what was checked.
LEMMA OverlapOwn ==
  ASSUME RepoInv, NEW c \in Procs, NoOverlap(c),
         \/ Resolve(c) \/ Pick(c) \/ PlanDeps(c)
         \/ Vendor(c) \/ Swap(c) \/ Eject(c) \/ Conclude(c) \/ Kill(c) \/ Fault(c)
  PROVE  NoOverlap(c)'
<1>1. TypeOK /\ proc[c] \in Command /\ Shape(c) /\ Idle.pc = "idle"
  BY ProcFacts DEF RepoInv
<1> DEFINE Keeps(s) == /\ proc'[c].op = proc[c].op /\ proc'[c].pc = s /\ proc'[c].part = proc[c].part
                       /\ proc'[c].rel = proc[c].rel
                       /\ \A q \in Parts \ {proc[c].part} : proc'[c].lf[q] = proc[c].lf[q]
<1>2. CASE proc' = [proc EXCEPT ![c] = Idle]
  <2>1. proc'[c].pc = "idle"
    BY <1>1, <1>2 DEF TypeOK
  <2> QED BY <2>1, OverlapFrame DEF Checked, Staging
<1>3. CASE proc' = [proc EXCEPT ![c] = Thrown(c)] 
  <2>1. proc'[c].pc \notin Checked
    BY <1>1, <1>3 DEF TypeOK, Thrown, Checked, Staging, Command
  <2> QED BY <2>1, OverlapFrame
<1>4. CASE Resolve(c)
  <2>1. proc'[c].pc \notin Checked
    BY <1>1, <1>4 DEF Resolve, Finish, TypeOK, Command, Checked, Staging
  <2> QED BY <2>1, OverlapFrame
<1>5. CASE Pick(c) /\ proc[c].todo # {}
  <2>1. PICK p \in proc[c].todo, r \in IF proc[c].op = "eject" THEN {None} ELSE Releases :
          proc' = [proc EXCEPT ![c].pc = "open", ![c].part = p, ![c].rel = r,
                               ![c].todo = @ \ {p}]
    BY <1>5 DEF Pick
  <2>2. proc'[c].pc = "open"
    BY <1>1, <2>1 DEF TypeOK, Command
  <2> QED BY <2>2, OverlapFrame DEF Checked, Staging
<1>6. ASSUME NEW s, Goto(c, s) \/ proc' = [proc EXCEPT ![c].pc = s, ![c].flaw = TRUE]
      PROVE  Keeps(s)
  BY <1>1, <1>6 DEF Goto, TypeOK, Command
<1>7. CASE PlanDeps(c)
  <2>1. Keeps("clear")
    BY <1>1, <1>7 DEF PlanDeps, TypeOK, Command
  <2> QED BY <1>7, <2>1, OverlapFrame DEF PlanDeps, Checked, Staging
<1>8. CASE Clear(c)
  <2>1. Keeps("copy")
    BY <1>1, <1>8 DEF Clear, TypeOK, Command
  <2> QED BY <1>8, <2>1, OverlapFrame DEF Clear, Checked, Staging
<1>9. CASE Copy(c)
  <2>1. Keeps("copy") \/ Keeps("hash")
    BY <1>1, <1>9 DEF Copy, TypeOK, Command
  <2> QED BY <1>9, <2>1, OverlapFrame DEF Copy, Checked, Staging
<1>10. CASE Hash(c) /\ Goto(c, "attest")
  <2>1. Keeps("attest")
    BY <1>6, <1>10
  <2> QED BY <1>10, <2>1, OverlapFrame DEF Hash, Checked, Staging
<1>11. CASE Attest(c)
  <2>1. Keeps("rmold") \/ Keeps("lock")
    BY <1>6, <1>11 DEF Attest
  <2> QED BY <1>11, <2>1, OverlapFrame DEF Attest, Checked, Staging
<1>12. CASE Swap(c) \/ Eject(c) \/ (Fault(c) /\ proc[c].pc \in {"move", "void"})
  <2>1. proc[c].op # "add"
    BY <1>1, <1>12 DEF Shape, Swapping, Swap, RemoveOld, Rename, Sweep, Eject, Move, Void
  <2>2. \/ proc' = [proc EXCEPT ![c] = Idle] \/ proc' = [proc EXCEPT ![c] = Thrown(c)]
        \/ \E s \in {"rename", "sweep", "lock", "void"} : Keeps(s)
    BY <1>6, <1>12 DEF Swap, RemoveOld, Rename, Sweep, Eject, Move, Void, Fault, Finish
  <2>3. CASE \E s \in {"rename", "sweep", "lock", "void"} : Keeps(s)
    BY <2>1, <2>3, OverlapFrame
  <2> QED BY <1>2, <1>3, <2>2, <2>3
<1>13. CASE TruncateLock(c)
  <2>1. Keeps("write")
    <3>1. proc[c].lf \in Pins
      BY <1>1 DEF Command
    <3>2. proc'[c] = [proc[c] EXCEPT !.pc = "write", !.lf[proc[c].part] = Pinned(c)]
      BY <1>1, <1>13 DEF TruncateLock, TypeOK
    <3> QED BY <1>1, <3>1, <3>2 DEF Command, Pins
  <2> QED BY <1>13, <2>1, OverlapFrame DEF TruncateLock, Checked
<1>14. CASE WriteLock(c) \/ ApplyDeps(c) \/ SyncAgents(c) \/ Complete(c)
  <2>1. Keeps("list") \/ Keeps("deps") \/ Keeps("pick") \/ proc' = [proc EXCEPT ![c] = Idle]
    BY <1>6, <1>14 DEF WriteLock, ApplyDeps, SyncAgents, Complete, Finish
  <2> QED BY <1>2, <2>1, OverlapFrame DEF Checked, Staging
<1> QED BY <1>2, <1>3, <1>4, <1>5, <1>7, <1>8, <1>9, <1>10, <1>11, <1>12, <1>13, <1>14
        DEF Refuse, Pick, Vendor, Hash, Disturbed, Conclude, Kill, Fault, Finish

LEMMA OverlapStep ==
  ASSUME RepoInv, \A c \in Procs : NoOverlap(c), [Next]_vars
  PROVE  \A c \in Procs : NoOverlap(c)'
<1> SUFFICES ASSUME NEW c \in Procs PROVE NoOverlap(c)'
  OBVIOUS
<1>1. ASSUME NEW d \in Procs, Start(d) PROVE NoOverlap(c)'
  <2>1. PICK op \in Commands, targets \in SUBSET Parts : Begin(d, op, targets)
    BY <1>1 DEF Start
  <2>2. CASE c = d
    <3>1. proc'[c] = [Started(op, IF op = "add" THEN "resolve" ELSE "pick", targets)
                        EXCEPT !.alone = ~(Active # {})]
      BY <2>1, <2>2 DEF Begin
    <3>2. proc'[c].pc \in {"resolve", "pick"}
      BY <3>1 DEF Started
    <3> QED BY <3>2, OverlapFrame DEF Checked, Staging
  <2>3. CASE c # d
    <3>1. proc'[c] = IF c \in Active THEN [proc[c] EXCEPT !.alone = FALSE] ELSE proc[c]
      BY <2>1, <2>3 DEF Begin
    <3>2. proc[c] \in Command
      BY DEF RepoInv, TypeOK
    <3>3. /\ proc'[c].op = proc[c].op /\ proc'[c].pc = proc[c].pc /\ proc'[c].part = proc[c].part
          /\ proc'[c].rel = proc[c].rel /\ proc'[c].lf = proc[c].lf
      BY <3>1, <3>2 DEF Command
    <3> QED BY <3>3, OverlapFrame
  <2> QED BY <2>2, <2>3
<1>2. ASSUME NEW d \in Procs, Decide(d) \/ Vendor(d) \/ Swap(d) \/ Eject(d) \/ Conclude(d) \/ Kill(d) \/ Fault(d)
      PROVE  NoOverlap(c)'
  <2>1. CASE c = d
    BY <1>2, <2>1, OverlapOpen, OverlapOwn DEF RepoInv, Decide
  <2>2. CASE c # d
    <3>1. proc'[c] = proc[c]
      BY <1>2, <2>2, ElseKept DEF RepoInv
    <3> QED BY <3>1, OverlapFrame
  <2> QED BY <2>1, <2>2
<1>3. CASE UNCHANGED vars
  BY <1>3, OverlapFrame DEF vars
<1> QED BY <1>1, <1>2, <1>3 DEF Next

\* Two parts of a repository provide a capability only if two did when the other pins were read.
LEMMA WriteKeepsOne ==
  ASSUME RepoInv, NEW c \in Procs, NoOverlap(c), [Next]_vars,
         proc[c].pc = "write", proc'[c].pc \in {"deps", "list"}, lock' # Torn,
         proc[c].op # "upgrade", OneProvider([proc[c].lf EXCEPT ![proc[c].part] = None])
  PROVE  OneProvider(lock')
<1>1. TypeOK /\ proc[c] \in Command /\ Shape(c) /\ proc[c].part \in Parts
  BY Context DEF Holding, Writing
<1>2. WriteLock(c)
  <2>1. PICK d \in Procs : \/ Start(d) \/ Decide(d) \/ Vendor(d) \/ Swap(d) \/ Eject(d) \/ Conclude(d)
                           \/ Kill(d) \/ Fault(d)
    BY DEF Next, vars
  <2>2. ~Start(d)
    <3> SUFFICES ASSUME Start(d) PROVE FALSE
      OBVIOUS
    <3>1. PICK op \in Commands, targets \in SUBSET Parts : Begin(d, op, targets)
      BY DEF Start
    <3>2. d # c /\ c \in Active
      BY <3>1 DEF Begin, Active
    <3>3. proc'[c] = [proc[c] EXCEPT !.alone = FALSE]
      BY <3>1, <3>2 DEF Begin
    <3> QED BY <1>1, <3>3 DEF Command
  <2>3. d = c
    BY <1>1, <2>1, <2>2, ElseKept
  <2>4. ~Decide(c) /\ ~Vendor(c) /\ ~Swap(c) /\ ~Eject(c)
    BY DEF Decide, Resolve, Pick, Open, PlanDeps, Vendor, Refuse, Clear, Copy, Hash, Attest, Disturbed,
           Swap, RemoveOld, Rename, Sweep, Eject, Move, Void
  <2>5. ~Kill(c) /\ ~Fault(c)
    <3>1. Idle.pc = "idle" /\ Thrown(c) = Idle
      BY <1>1, ProcFacts DEF Thrown, Staging, Swapping
    <3> QED BY <1>1, <3>1 DEF Kill, Fault, Finish, TypeOK, Writing
  <2> QED BY <2>1, <2>2, <2>3, <2>4, <2>5 DEF Conclude, TruncateLock, ApplyDeps, SyncAgents
<1>3. lock' = proc[c].lf /\ proc[c].lf \in [Parts -> Releases \cup {None}]
  BY <1>1, <1>2 DEF WriteLock, Command, Pins
<1>4. proc[c].lf[proc[c].part] = Pinned(c)
  BY <1>1 DEF Shape
<1>5. CASE proc[c].op = "add"
  <2>1. \A q \in Parts \ {proc[c].part} :
          lock'[q] # None => Provides[q][lock'[q]] \cap Provides[proc[c].part][proc[c].rel] = {}
    BY <1>3, <1>5 DEF NoOverlap
  <2>2. lock'[proc[c].part] = proc[c].rel
    BY <1>3, <1>4, <1>5 DEF Pinned
  <2>3. \A p, q \in Parts \ {proc[c].part} :
          p # q /\ lock'[p] # None /\ lock'[q] # None => Provides[p][lock'[p]] \cap Provides[q][lock'[q]] = {}
    BY <1>3 DEF OneProvider
  <2> QED BY <2>1, <2>2, <2>3 DEF OneProvider
<1>6. CASE proc[c].op = "eject"
  <2>1. [proc[c].lf EXCEPT ![proc[c].part] = None] = proc[c].lf
    BY <1>3, <1>4, <1>6 DEF Pinned
  <2> QED BY <1>3, <2>1
<1> QED BY <1>1, <1>5, <1>6 DEF Command

\* Neither add nor eject brings in a second provider of a capability, whatever was written
\* since it read the lockfile (add.ts:59-70).
THEOREM OneProviderKept == Spec => AddKeepsOneProvider
<1> DEFINE NoneOverlaps == \A c \in Procs : NoOverlap(c)
<1>1. Init => NoneOverlaps
  BY OverlapInit
<1>2. RepoInv /\ NoneOverlaps /\ [Next]_vars => NoneOverlaps'
  BY OverlapStep
<1>3. RepoInv /\ NoneOverlaps /\ [Next]_vars =>
        [\A c \in Procs :
           /\ proc[c].pc = "write" /\ proc'[c].pc \in {"deps", "list"} /\ lock' # Torn
           /\ proc[c].op # "upgrade" /\ OneProvider([proc[c].lf EXCEPT ![proc[c].part] = None])
           => OneProvider(lock')]_vars
  BY WriteKeepsOne
<1> QED BY <1>1, <1>2, <1>3, RepoInvariant, PTL DEF Spec, AddKeepsOneProvider

=============================================================================
