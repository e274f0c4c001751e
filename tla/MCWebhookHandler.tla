-------------------------- MODULE MCWebhookHandler ---------------------------
(* Instances of WebhookHandler for TLC. *)
EXTENDS WebhookHandler, TLC

\* The requests are interchangeable: no action or property names one.
RequestSymmetry == Permutations(Requests)
=============================================================================
