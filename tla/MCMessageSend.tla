---------------------------- MODULE MCMessageSend ----------------------------
(* The first runs of one message's job.                                      *)
EXTENDS MessageSend
=============================================================================
