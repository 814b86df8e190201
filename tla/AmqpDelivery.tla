---------------------------- MODULE AmqpDelivery ----------------------------
(* src/amqp.ts, services/amqp_confirmed_publish.ts and waker.ts: one queue    *)
(* with its `.delayed` and `.dead` queues, the consumer that amqpConsume      *)
(* registers, and the optional waker. The broker holds copies of messages; a  *)
(* delivery leaves its copy in the broker, unacknowledged, until the consumer *)
(* acks it or its channel closes. A handler is one run of the consumer's `fn`;*)
(* when the channel closes under it, it goes on with a delivery tag nobody    *)
(* knows any more: its ack throws.                                            *)
EXTENDS Naturals, FiniteSets

CONSTANTS Msg,          \* payloads
          Slot,         \* bound: copies in the broker at one time
          Handler,      \* bound: runs of fn at one time
          None,
          Prefetch,     \* unacknowledged deliveries of the channel
          MaxRetries,   \* x-max-retries
          Notify,       \* options.notifyFailedMessages
          Faults,       \* the kinds of disturbance that occur
          Budget        \* bound: disturbances of one behaviour

FaultKinds == {"error", "circuit", "timeout", "nack", "uncertain", "close",
               "crash", "wake"}

VARIABLES copy,         \* what the broker keeps: slot -> copy
          run,          \* the runs of fn
          open,         \* the consumer's channel is open
          late,         \* timed-out callbacks that still run
          accepted,     \* history: publications confirmed to the producer
          attempts,     \* history: attempts that were not skipped, by message
          done,         \* history: messages a callback has handled
          notices,      \* history: messages whose failure was notified
          budget

vars == <<copy, run, open, late, accepted, attempts, done, notices, budget>>

Copy == [msg : Msg, count : Nat, at : {"main", "unacked", "delayed", "dead"}]
Run == [msg : Msg, slot : Slot \cup {None}, count : Nat,
        stage : {"callback", "failed", "notified"}]

ASSUME DeliveryAssumption == /\ None \notin Slot \cup Copy \cup Run
                             /\ Prefetch \in Nat \ {0}
                             /\ MaxRetries \in Nat \ {0}
                             /\ Notify \in BOOLEAN
                             /\ Faults \subseteq FaultKinds
                             /\ Budget \in Nat

\* The types of the state: no count of attempts is ever negative.
TypeOK == /\ copy \in [Slot -> Copy \cup {None}]
          /\ run \in [Handler -> Run \cup {None}]
          /\ open \in BOOLEAN
          /\ late \subseteq Msg
          /\ accepted \subseteq Msg
          /\ attempts \in [Msg -> Nat]
          /\ done \subseteq Msg
          /\ notices \subseteq Msg
          /\ budget \in 0..Budget

Init == /\ copy = [s \in Slot |-> None]
        /\ run = [h \in Handler |-> None]
        /\ open = TRUE
        /\ late = {} /\ accepted = {} /\ done = {} /\ notices = {}
        /\ attempts = [m \in Msg |-> 0]
        /\ budget = Budget

-----------------------------------------------------------------------------
Spend(kind) == kind \in Faults /\ budget > 0 /\ budget' = budget - 1

New(m, n, q) == [msg |-> m, count |-> n, at |-> q]

\* The slot of the delivery a run may still ack: none once its channel is gone.
Acked(h) == IF run[h].slot = None THEN {} ELSE {run[h].slot}

\* Closing the channel requeues what it had not acked; the runs go on.
Requeued == [s \in Slot |-> IF copy[s] # None /\ copy[s].at = "unacked"
                            THEN [copy[s] EXCEPT !.at = "main"] ELSE copy[s]]
Detached == [h \in Handler |-> IF run[h] # None THEN [run[h] EXCEPT !.slot = None]
                               ELSE None]

\* amqpPublish by a producer, which publishes each payload once. publishConfirmed
\* resolves on the broker's confirm; when it rejects the copy may be stored all
\* the same.
Publish(m, s, sure) ==
  /\ m \notin accepted /\ \A t \in Slot : copy[t] # None => copy[t].msg # m
  /\ attempts[m] = 0
  /\ copy[s] = None
  /\ IF sure THEN accepted' = accepted \cup {m} /\ UNCHANGED budget
     ELSE Spend("uncertain") /\ UNCHANGED accepted
  /\ copy' = [copy EXCEPT ![s] = New(m, 0, "main")]
  /\ UNCHANGED <<run, open, late, attempts, done, notices>>

\* The broker delivers; countRetries is the header plus one, and fn calls the
\* callback.
Deliver(s, h) ==
  /\ open
  /\ copy[s] # None /\ copy[s].at = "main"
  /\ run[h] = None
  /\ Cardinality({t \in Slot : copy[t] # None /\ copy[t].at = "unacked"}) < Prefetch
  /\ copy' = [copy EXCEPT ![s].at = "unacked"]
  /\ run' = [run EXCEPT ![h] = [msg |-> copy[s].msg, slot |-> s,
                                count |-> copy[s].count + 1, stage |-> "callback"]]
  /\ UNCHANGED <<open, late, accepted, attempts, done, notices, budget>>

\* The callback resolves and fn acks. On a closed channel ack throws inside the
\* try, so a handled message takes the path of a failed one.
Succeed(h) ==
  /\ run[h] # None /\ run[h].stage = "callback"
  /\ attempts' = [attempts EXCEPT ![run[h].msg] = @ + 1]
  /\ done' = done \cup {run[h].msg}
  /\ IF run[h].slot # None
     THEN /\ copy' = [copy EXCEPT ![run[h].slot] = None]
          /\ run' = [run EXCEPT ![h] = None]
     ELSE run' = [run EXCEPT ![h].stage = "failed"] /\ UNCHANGED copy
  /\ UNCHANGED <<open, late, accepted, notices, budget>>

\* Mutant: a skipped delivery consumes an attempt.
FailCounting(h, circuit) ==
  /\ run[h] # None /\ run[h].stage = "callback"
  /\ Spend(IF circuit THEN "circuit" ELSE "error")
  /\ run' = [run EXCEPT ![h].stage = "failed"]
  /\ attempts' = [attempts EXCEPT ![run[h].msg] = IF circuit THEN @ ELSE @ + 1]
  /\ UNCHANGED <<copy, open, late, accepted, done, notices>>

\* The callback rejects; webhookRetryCount does not count a delivery skipped by
\* an open circuit.
Fail(h, circuit) ==
  /\ run[h] # None /\ run[h].stage = "callback"
  /\ Spend(IF circuit THEN "circuit" ELSE "error")
  /\ run' = [run EXCEPT ![h].stage = "failed",
                        ![h].count = IF circuit THEN @ - 1 ELSE @]
  /\ attempts' = [attempts EXCEPT ![run[h].msg] = IF circuit THEN @ ELSE @ + 1]
  /\ UNCHANGED <<copy, open, late, accepted, done, notices>>

\* withTimeout rejects; the callback itself is not cancelled.
Timeout(h) ==
  /\ run[h] # None /\ run[h].stage = "callback"
  /\ Spend("timeout")
  /\ run' = [run EXCEPT ![h].stage = "failed"]
  /\ late' = late \cup {run[h].msg}
  /\ attempts' = [attempts EXCEPT ![run[h].msg] = @ + 1]
  /\ UNCHANGED <<copy, open, accepted, done, notices>>

LateSuccess(m) ==
  /\ m \in late
  /\ late' = late \ {m}
  /\ done' = done \cup {m}
  /\ UNCHANGED <<copy, run, open, accepted, attempts, notices, budget>>

\* Mutant: the notification is not awaited.
NotNotified(h) ==
  /\ run[h] # None /\ run[h].stage = "failed" /\ run[h].count >= MaxRetries
  /\ Notify
  /\ run' = [run EXCEPT ![h].stage = "notified"]
  /\ UNCHANGED <<copy, open, late, accepted, attempts, done, notices, budget>>

\* Retries are exhausted: the notification is published first.
Notified(h) ==
  /\ run[h] # None /\ run[h].stage = "failed" /\ run[h].count >= MaxRetries
  /\ Notify
  /\ notices' = notices \cup {run[h].msg}
  /\ run' = [run EXCEPT ![h].stage = "notified"]
  /\ UNCHANGED <<copy, open, late, accepted, attempts, done, budget>>

\* What fn publishes of a failed delivery: the retry keeps its count, the dead
\* letter carries no headers, which reads as zero.
Exhausted(h) == run[h].count >= MaxRetries
Republishes(h) == /\ run[h] # None
                  /\ run[h].stage = IF Exhausted(h) /\ Notify THEN "notified" ELSE "failed"
Again(h) == IF Exhausted(h) THEN New(run[h].msg, 0, "dead")
            ELSE New(run[h].msg, run[h].count, "delayed")

\* The publication is confirmed, then the source is acked. A detached run's ack
\* throws; its channel is closed already.
Republished(h, s) ==
  /\ Republishes(h)
  /\ copy[s] = None
  /\ copy' = [t \in Slot |-> IF t = s THEN Again(h)
                             ELSE IF t \in Acked(h) THEN None ELSE copy[t]]
  /\ run' = [run EXCEPT ![h] = None]
  /\ UNCHANGED <<open, late, accepted, attempts, done, notices, budget>>

\* Mutants: the source of a failed republication is acked, or its channel is left
\* open with the delivery stuck in it.
PublishFailsAcked(h, s, stored) ==
  /\ run[h] # None /\ run[h].stage # "callback"
  /\ ~stored /\ Spend("nack")
  /\ copy' = [t \in Slot |-> IF t \in Acked(h) THEN None ELSE copy[t]]
  /\ run' = [run EXCEPT ![h] = None]
  /\ UNCHANGED <<open, late, accepted, attempts, done, notices>>

PublishFailsStuck(h, s, stored) ==
  /\ run[h] # None /\ run[h].stage # "callback"
  /\ ~stored /\ Spend("nack")
  /\ run' = [run EXCEPT ![h] = None]
  /\ UNCHANGED <<copy, open, late, accepted, attempts, done, notices>>

\* A publication of the error path rejects -- of the notification, of the retry
\* or of the dead letter, which may be stored all the same: fn throws and its
\* channel is closed, which retains the delivery.
PublishFails(h, s, stored) ==
  /\ run[h] # None /\ run[h].stage # "callback"
  /\ IF stored THEN Spend("uncertain") /\ Republishes(h) /\ copy[s] = None
     ELSE Spend("nack")
  /\ LET kept == IF run[h].slot = None THEN copy ELSE Requeued
     IN copy' = IF stored THEN [kept EXCEPT ![s] = Again(h)] ELSE kept
  /\ run' = IF run[h].slot = None THEN [run EXCEPT ![h] = None]
            ELSE [Detached EXCEPT ![h] = None]
  /\ open' = (open /\ run[h].slot = None)
  /\ UNCHANGED <<late, accepted, attempts, done, notices>>

\* The connection or the channel is lost.
Close ==
  /\ open
  /\ Spend("close")
  /\ open' = FALSE
  /\ copy' = Requeued
  /\ run' = Detached
  /\ UNCHANGED <<late, accepted, attempts, done, notices>>

\* The consumer's process dies, and its runs with it.
Crash ==
  /\ Spend("crash")
  /\ open' = FALSE
  /\ copy' = Requeued
  /\ run' = [h \in Handler |-> None]
  /\ late' = {}
  /\ UNCHANGED <<accepted, attempts, done, notices>>

\* startConsumer, one second later or in the restarted process
Restart ==
  /\ ~open
  /\ open' = TRUE
  /\ UNCHANGED <<copy, run, late, accepted, attempts, done, notices, budget>>

\* The delayed copy expires and is dead-lettered to the main exchange.
Expire(s) ==
  /\ copy[s] # None /\ copy[s].at = "delayed"
  /\ copy' = [copy EXCEPT ![s].at = "main"]
  /\ UNCHANGED <<run, open, late, accepted, attempts, done, notices, budget>>

\* Mutant: the waker acks the dead letter before its publication is confirmed.
WakeEarly(s, t, dies) ==
  /\ copy[s] # None /\ copy[s].at = "dead"
  /\ copy[t] = None
  /\ Spend("wake")
  /\ copy' = [copy EXCEPT ![t] = IF dies THEN @ ELSE New(copy[s].msg, 0, "main"),
                          ![s] = None]
  /\ UNCHANGED <<run, open, late, accepted, attempts, done, notices>>

\* The waker publishes a dead letter to the main queue again, without headers,
\* and acks it; when it dies in between, the dead letter stays.
Wake(s, t, dies) ==
  /\ copy[s] # None /\ copy[s].at = "dead"
  /\ copy[t] = None
  /\ Spend("wake")
  /\ copy' = [copy EXCEPT ![t] = New(copy[s].msg, 0, "main"),
                          ![s] = IF dies THEN @ ELSE None]
  /\ UNCHANGED <<run, open, late, accepted, attempts, done, notices>>

-----------------------------------------------------------------------------
RunStep(h) == \/ Succeed(h) \/ Notified(h) \/ Timeout(h)
              \/ \E circuit \in BOOLEAN : Fail(h, circuit)
              \/ \E s \in Slot : \/ Republished(h, s)
                                 \/ \E stored \in BOOLEAN : PublishFails(h, s, stored)

Next == \/ \E m \in Msg : \/ LateSuccess(m)
                          \/ \E s \in Slot, sure \in BOOLEAN : Publish(m, s, sure)
        \/ \E h \in Handler : RunStep(h) \/ \E s \in Slot : Deliver(s, h)
        \/ \E s \in Slot : Expire(s) \/ \E t \in Slot, dies \in BOOLEAN : Wake(s, t, dies)
        \/ Close \/ Crash \/ Restart

Spec == Init /\ [][Next]_vars

\* The broker delivers and expires what it may, the consumer restarts, promises
\* settle, and a publication nothing disturbs is confirmed.
Fairness ==
  /\ WF_vars(Restart)
  /\ \A s \in Slot : WF_vars(Expire(s)) /\ SF_vars(\E h \in Handler : Deliver(s, h))
  /\ \A h \in Handler : WF_vars(Succeed(h) \/ Notified(h)
                                  \/ \E s \in Slot : Republished(h, s))

FairSpec == Spec /\ Fairness

-----------------------------------------------------------------------------
Copies(m) == {s \in Slot : copy[s] # None /\ copy[s].msg = m}

\* A message the producer was told is safe stays in the broker until a callback
\* has handled it, whatever closes, dies or fails between a republication and an
\* ack (amqp.ts:553-641: "A failed retry/dead-letter publication must never ACK
\* the source").
NoLoss == \A m \in accepted \ done : Copies(m) # {}

\* A dead letter was really attempted MaxRetries times: neither a skipped delivery
\* of an open circuit nor a redelivery after a closed channel uses up an attempt
\* (amqp.ts:560-593, webhook_circuit_breaker.ts:19-24).
DeadAfterAttempts ==
  \A s \in Slot : copy[s] # None /\ copy[s].at = "dead"
    => attempts[copy[s].msg] >= MaxRetries

\* No failure is buried in silence: with notifyFailedMessages the notification of
\* a dead letter was confirmed before it (amqp.ts:561-593).
DeadIsNotified ==
  \A s \in Slot : Notify /\ copy[s] # None /\ copy[s].at = "dead"
    => copy[s].msg \in notices

\* The queues keep their promise to the producer.
fate == [m \in Msg |-> IF m \in done THEN "handled"
                       ELSE IF Copies(m) # {} THEN "kept" ELSE "unknown"]

Promise == INSTANCE MessageFate

KeepsPromise == Promise!Spec

\* Every accepted message is handled or ends as a dead letter.
EventuallySettled ==
  \A m \in Msg : m \in accepted ~> \/ m \in done
                                   \/ \E s \in Slot : copy[s] # None
                                        /\ copy[s].msg = m /\ copy[s].at = "dead"
=============================================================================
