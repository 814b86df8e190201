-------------------------- MODULE MCMobilePrimary --------------------------
(* Two drafts of a phone, one after the other, and two requests at once.     *)
EXTENDS MobilePrimary, TLC

CONSTANTS d1, d2, c1, c2
Symmetry == Permutations(Draft) \cup Permutations(Call)
=============================================================================
