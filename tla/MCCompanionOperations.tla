----------------------- MODULE MCCompanionOperations -----------------------
(* Three commands of one device, two workers one after the other.             *)
EXTENDS CompanionOperations, TLC

CONSTANTS o1, o2, o3, w1, w2
Symmetry == Permutations(Command) \cup Permutations(Worker)
=============================================================================
