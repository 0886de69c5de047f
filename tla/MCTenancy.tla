------------------------------ MODULE MCTenancy ------------------------------
(* Instances of Tenancy for TLC. *)
EXTENDS Tenancy, TLC

MCSymmetry == Permutations(Orgs) \cup Permutations(Users) \cup Permutations(Calls)
=============================================================================
