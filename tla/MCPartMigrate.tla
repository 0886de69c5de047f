--------------------------- MODULE MCPartMigrate ---------------------------
(* Instances of PartMigrate for TLC. *)
EXTENDS PartMigrate, TLC

CONSTANTS create, alter, index, fixed, other

\* Two parts.  The second file of part 1 cannot run in a transaction; it has an
\* edited version, and part 1 an older and a longer checkout.
MCShas == {create, alter, index, fixed, other}
MCNoTx == {index}
MCParts == {1, 2}
MCCheckouts ==
  { (1 :> <<create>>),
    (1 :> <<create, index>>) @@ (2 :> <<other>>),
    (1 :> <<create, index, alter>>) @@ (2 :> <<other>>),
    (1 :> <<create, fixed>>),
    (1 :> <<alter>>) @@ (2 :> <<>>) }
=============================================================================
