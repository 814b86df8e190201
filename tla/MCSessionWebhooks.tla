------------------------- MODULE MCSessionWebhooks -------------------------
(* One destination, two observers, small bounds.                             *)
EXTENDS SessionWebhooks
=============================================================================
