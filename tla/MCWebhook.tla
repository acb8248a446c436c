------------------------------- MODULE MCWebhook -------------------------------
(* Instances of WebhookDelivery for TLC. *)
EXTENDS WebhookDelivery, TLC

\* No definition tells one job or one delivery from another.
Symmetry == Permutations(Jobs) \cup Permutations(Deliveries)
===============================================================================
