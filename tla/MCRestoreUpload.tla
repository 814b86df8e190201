-------------------------- MODULE MCRestoreUpload --------------------------
(* Three requests at once, two parts of two possible contents.               *)
EXTENDS RestoreUpload, TLC

CONSTANTS q1, q2, q3, a, b
Symmetry == Permutations(Request) \cup Permutations(Bytes)
=============================================================================
