----------------------------- MODULE MCWebhooks -----------------------------
(* Every subscription wants every event; the second event is replayed. *)
EXTENDS Webhooks

WantsAll == Sub \X Event

ReplayTwo == Sub \X {2}
=============================================================================
