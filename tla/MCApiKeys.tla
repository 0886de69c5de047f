----------------------------- MODULE MCApiKeys -----------------------------
(* Instances of ApiKeys for TLC. *)
EXTENDS ApiKeys, TLC

MCSymmetry == Permutations(Keys) \cup Permutations(Callers)
=============================================================================
