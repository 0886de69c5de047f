----------------------------- MODULE ResolvePlan ----------------------------
(***************************************************************************)
(* resolvePlan (packages/core/src/ops/resolve.ts): the parts to install    *)
(* for some capabilities, those they require before them.                  *)
(*                                                                         *)
(* A registry is what each release provides and requires, as capabilities  *)
(* with a major.  Adapters, platforms and what a plan tells its reader are *)
(* left out.                                                               *)
(***************************************************************************)
EXTENDS Naturals, FiniteSets, SequencesExt

CONSTANTS
  Parts,       \* numbers, in alphabetical order
  Releases,    \* numbers, oldest first
  None         \* no release

ASSUME RegistryAssumption ==
  /\ IsFiniteSet(Parts) /\ Parts \subseteq Nat
  /\ IsFiniteSet(Releases) /\ Releases \subseteq Nat
  /\ None \notin Parts \cup Releases

\* In these a registry is reg, latest is its index and pins the lockfile.
CapsOf(reg, p, r) == {o.cap : o \in reg.provides[p][r]}
Offers(reg, at, cap) ==
  {p \in Parts : at[p] # None /\ cap \in CapsOf(reg, p, at[p])}
MajorOf(reg, p, r, cap) == (CHOOSE o \in reg.provides[p][r] : o.cap = cap).major

\* Assumed of the index: "one provider per capability" (v0).  Neither resolvePlan, where the
\* last entry would win, nor the publishing script sees to it.
OneOffer(reg, latest) ==
  \A p \in Parts : \A o \in reg.provides[p][latest[p]] : Offers(reg, latest, o.cap) = {p}

IsInstalled(reg, pins, cap) == Offers(reg, pins, cap) # {}

ProvidersOfAll(reg, latest, pins, wants) ==         \* mutant: installed or not
  UNION {Offers(reg, latest, w.cap) : w \in wants}
\* The parts that must provide what is wanted and is not installed.
Providers(reg, latest, pins, wants) ==
  UNION {Offers(reg, latest, w.cap) : w \in {v \in wants : ~IsInstalled(reg, pins, v.cap)}}

Requirements(reg, latest, ps) == UNION {reg.requires[p][latest[p]] : p \in ps}

\* What require reaches from what is asked for: the least set of parts with the providers
\* of all of it and of all they require.
Candidates(reg, latest, pins, wants) ==
  {p \in Parts : \A ps \in SUBSET Parts :
     Providers(reg, latest, pins, wants \cup Requirements(reg, latest, ps)) \subseteq ps => p \in ps}

\* No part provides a capability, or its major is too low.  What is installed is not
\* looked at.
Unmet(reg, latest, pins, wants) ==
  \E w \in wants : /\ ~IsInstalled(reg, pins, w.cap)
                   /\ \A p \in Offers(reg, latest, w.cap) :
                        MajorOf(reg, p, latest[p], w.cap) < w.major

ReadyAnyway(reg, latest, pins, p, placed) == TRUE             \* mutant: alphabetical order
Ready(reg, latest, pins, p, placed) ==
  \A w \in reg.requires[p][latest[p]] :
    IsInstalled(reg, pins, w.cap) \/ Offers(reg, latest, w.cap) \subseteq placed \cup {p}

\* A part is placed in the first round before which all it requires is.  One that never
\* is, is in a cycle.
Rounds(reg, latest, pins, ps) ==
  LET all == 1..Cardinality(ps)
  IN  {round \in [ps -> all] : \A p \in ps, n \in all :
         round[p] <= n <=> Ready(reg, latest, pins, p, {q \in ps : round[q] < n})}

\* Round by round, in alphabetical order.
Orders(ps, round) ==
  {order \in [1..Cardinality(ps) -> ps] :
     /\ \A p \in ps : \E i \in DOMAIN order : order[i] = p
     /\ \A i, j \in DOMAIN order : i < j =>
          LET p == order[i]  q == order[j]
          IN  round[p] < round[q] \/ (round[p] = round[q] /\ p < q)}

Refusal == <<None>>

\* The plan: the parts in the order to install them, or a refusal.
Resolve(reg, latest, pins, wants) ==
  LET ps == Candidates(reg, latest, pins, wants)
      plans == UNION {Orders(ps, round) : round \in Rounds(reg, latest, pins, ps)}
  IN  IF Unmet(reg, latest, pins, wants \cup Requirements(reg, latest, ps)) \/ plans = {}
        THEN Refusal
        ELSE CHOOSE plan \in plans : TRUE
=============================================================================
