---------------------------- MODULE MCWebhookAuth ----------------------------
(* Instances of WebhookAuth for TLC. *)
EXTENDS WebhookAuth, TLC

\* The deliveries are interchangeable: no action or property names one.
DeliverySymmetry == Permutations(Deliveries)
=============================================================================
