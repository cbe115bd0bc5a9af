-------------------------- MODULE MCWebhookProcessor --------------------------
(* WebhookProcessor with calls that all carry the same payload. *)
EXTENDS WebhookProcessor

MCKeyOf == [c \in Caller |-> CHOOSE k \in Key : TRUE]

=============================================================================
