------------------------- MODULE MCWebhookDispatch -------------------------
(* Instances of WebhookDispatch for TLC. *)
EXTENDS WebhookDispatch, TLC

\* Callers, drains and message ids are alike; not used with liveness.
MCSymmetry == UNION {Permutations(S) : S \in {Callers, Drains, Messages}}
=============================================================================
