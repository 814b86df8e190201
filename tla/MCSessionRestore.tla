-------------------------- MODULE MCSessionRestore -------------------------
(* Two streamed imports and one of the first format, two pages.              *)
EXTENDS SessionRestore

CONSTANTS r1, r2, r3
=============================================================================
