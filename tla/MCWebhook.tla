------------------------------ MODULE MCWebhook ------------------------------
(* Webhook for TLC: endpoint ids are interchangeable.                      *)
EXTENDS Webhook, TLC

Symmetry == Permutations(Ids)
=============================================================================
