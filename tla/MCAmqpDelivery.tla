--------------------------- MODULE MCAmqpDelivery ---------------------------
(* One payload, whose copies and runs are several; two attempts.             *)
EXTENDS AmqpDelivery
=============================================================================
