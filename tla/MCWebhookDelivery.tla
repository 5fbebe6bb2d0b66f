------------------------ MODULE MCWebhookDelivery ------------------------
(* Small instances of WebhookDelivery. *)
EXTENDS WebhookDelivery, TLC

CONSTANTS assigned

OneKind == (assigned :> "ticket.assigned")
==========================================================================
