----------------------------- MODULE MessageFate -----------------------------
(* What the queues promise a producer: a message whose publication was        *)
(* confirmed is kept until a consumer's callback has handled it; it is never  *)
(* dropped before.                                                            *)
CONSTANT Msg

VARIABLE fate

Init == fate = [m \in Msg |-> "unknown"]

Enqueue(m) == /\ fate[m] = "unknown"
              /\ fate' = [fate EXCEPT ![m] = "kept"]

Handle(m) == /\ fate[m] = "kept"
             /\ fate' = [fate EXCEPT ![m] = "handled"]

Next == \E m \in Msg : Enqueue(m) \/ Handle(m)

Spec == Init /\ [][Next]_fate
=============================================================================
