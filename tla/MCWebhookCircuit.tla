-------------------------- MODULE MCWebhookCircuit --------------------------
(* Two deliveries of one destination.                                        *)
EXTENDS WebhookCircuit
=============================================================================
