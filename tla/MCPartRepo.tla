---------------------------- MODULE MCPartRepo ----------------------------
(***************************************************************************)
(* Small instances of PartRepo: two parts with two releases each.  Release *)
(* 2 of part 2 takes over the capability "x" that part 1 gives up in its   *)
(* own release 2, so that one part provides it among the latest releases,  *)
(* while release 1 of part 1 and release 2 of part 2 clash.                *)
(***************************************************************************)
EXTENDS PartRepo, TLC

CONSTANTS part1, part2, rel1, rel2

MCProvides ==
  part1 :> (rel1 :> {part1, "x"} @@ rel2 :> {part1}) @@
  part2 :> (rel1 :> {part2} @@ rel2 :> {part2, "x"})
MCNeeds ==
  part1 :> (rel1 :> {} @@ rel2 :> {"npm1"}) @@
  part2 :> (rel1 :> {"npm2"} @@ rel2 :> {"npm2"})

\* Command lines are alike.
MCSymmetry == Permutations(Procs)
=============================================================================
