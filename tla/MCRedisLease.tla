---------------------------- MODULE MCRedisLease ----------------------------
(* Two or three lease objects on one key, small clock. *)
EXTENDS RedisLease, TLC

Symmetry == Permutations(Lease)
=============================================================================
