---------------------------- MODULE SessionLease ----------------------------
(* What a session lease promises: at most one holder, and the lease is never *)
(* handed over directly -- it is free before somebody else is granted it.    *)
CONSTANTS Lease, NoLease

VARIABLE holder

Init == holder = NoLease

Grant(l) == /\ holder = NoLease
            /\ holder' = l

Free == /\ holder # NoLease
        /\ holder' = NoLease

Next == Free \/ \E l \in Lease : Grant(l)

Spec == Init /\ [][Next]_holder
=============================================================================
