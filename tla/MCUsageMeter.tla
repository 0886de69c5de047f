---------------------------- MODULE MCUsageMeter ----------------------------
(* Small instances of UsageMeter: the first row recorded is one the biller refuses. *)
EXTENDS UsageMeter
MCRejected == {1}
=============================================================================
