------------------------------- MODULE MCWebhook -------------------------------
(* WebhookDelivery of one event to two webhooks, one of which is switched off or *)
(* deleted at some moment.                                                       *)
EXTENDS WebhookDelivery

CONSTANTS e1, w1, w2

MCEdits == {[active |-> FALSE, retryCount |-> 2]}
=============================================================================
