-------------------------- MODULE MCWebhookDelivery --------------------------
(* Small instances of WebhookDelivery. *)
EXTENDS WebhookDelivery, TLC

CONSTANTS o1, o2, n1, n2, q1, q2, webhookWorker

\* Replicas that were given the same worker identifier.
SharedWorkerId == [p \in HookProcesses |-> webhookWorker]
=============================================================================
