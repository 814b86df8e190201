------------------------ MODULE AmqpDelivery_proofs ------------------------
(* What AmqpDelivery promises, for any number of payloads, copies, runs of fn, *)
(* retries and disturbances. The invariant ties every run of fn to the copy it *)
(* may still ack, every count of attempts to attempts that were really made,   *)
(* and every message somebody works on to a copy the broker keeps.             *)
EXTENDS AmqpDelivery, TLAPS

\* A run whose channel is open holds its own unacknowledged copy of its message.
Attached ==
  \A h \in Handler : run[h] # None /\ run[h].slot # None =>
    /\ copy[run[h].slot] # None
    /\ copy[run[h].slot].at = "unacked"
    /\ copy[run[h].slot].msg = run[h].msg

\* ... and no two runs hold the same one.
Exclusive ==
  \A g, h \in Handler :
    g # h /\ run[g] # None /\ run[h] # None /\ run[g].slot # None
      => run[g].slot # run[h].slot

\* A count of retries never exceeds the attempts made: a run's own attempt counts
\* once its callback has settled.
CopiesCounted ==
  \A s \in Slot : copy[s] # None => copy[s].count <= attempts[copy[s].msg]

RunsCounted ==
  \A h \in Handler : run[h] # None =>
    IF run[h].stage = "callback"
    THEN run[h].count \in 1..(attempts[run[h].msg] + 1)
    ELSE run[h].count <= attempts[run[h].msg]

\* A run past the notification has published it.
NotifiedFirst ==
  \A h \in Handler : run[h] # None /\ run[h].stage = "notified"
    => run[h].msg \in notices

\* Handled, or kept by the broker.
Alive(m) == m \in done \/ \E s \in Slot : copy[s] # None /\ copy[s].msg = m

\* What a producer, a run or a late callback still counts on is alive.
AllAlive == /\ \A h \in Handler : run[h] # None => Alive(run[h].msg)
            /\ \A m \in late \cup accepted : Alive(m)

IInv == /\ TypeOK /\ Attached /\ Exclusive /\ CopiesCounted /\ RunsCounted
        /\ NotifiedFirst /\ AllAlive /\ DeadAfterAttempts /\ DeadIsNotified

USE DeliveryAssumption DEF Copy, Run

-----------------------------------------------------------------------------
\* Closing a channel leaves well-typed copies and runs.
LEMMA RequeuedTyped == TypeOK => Requeued \in [Slot -> Copy \cup {None}]
<1> SUFFICES ASSUME TypeOK, NEW s \in Slot PROVE Requeued[s] \in Copy \cup {None}
  BY DEF Requeued
<1>1. CASE copy[s] = None
  BY <1>1 DEF Requeued
<1>2. CASE copy[s] # None
  BY <1>2 DEF Requeued, TypeOK
<1> QED BY <1>1, <1>2

\* ... and well-typed runs.
LEMMA DetachedTyped == TypeOK => Detached \in [Handler -> Run \cup {None}]
BY DEF Detached, TypeOK

\* One step keeps the invariant, action by action.
LEMMA InvStep == IInv /\ [Next]_vars => IInv'
<1> SUFFICES ASSUME IInv, [Next]_vars PROVE IInv'
  OBVIOUS
<1> USE DEF IInv, TypeOK
<1>1. ASSUME NEW m \in Msg, NEW s \in Slot, NEW sure \in BOOLEAN, Publish(m, s, sure)
      PROVE  IInv'
  <2>1. Exclusive' /\ RunsCounted' /\ NotifiedFirst' /\ DeadAfterAttempts'
      /\ DeadIsNotified'
    BY <1>1 DEF Publish, New, Spend, Exclusive, Attached, RunsCounted,
      NotifiedFirst, DeadAfterAttempts, DeadIsNotified
  <2>2. TypeOK'
    BY <1>1 DEF Publish, New, Spend
  <2>3. Attached'
    BY <1>1 DEF Publish, New, Spend, Attached
  <2>4. CopiesCounted'
    BY <1>1 DEF Publish, New, Spend, CopiesCounted
  <2>5. AllAlive'
    BY <1>1 DEF Publish, New, Spend, AllAlive, Alive
  <2> QED BY <2>1, <2>2, <2>3, <2>4, <2>5
<1>2. ASSUME NEW s \in Slot, NEW h \in Handler, Deliver(s, h)
      PROVE  IInv'
  <2>1. NotifiedFirst' /\ DeadAfterAttempts' /\ DeadIsNotified'
    BY <1>2 DEF Deliver, NotifiedFirst, DeadAfterAttempts, DeadIsNotified
  <2>2. TypeOK'
    BY <1>2 DEF Deliver
  <2>3. Attached'
    BY <1>2 DEF Deliver, Attached
  <2>4. Exclusive'
    BY <1>2 DEF Deliver, Exclusive, Attached
  <2>5. CopiesCounted'
    BY <1>2 DEF Deliver, CopiesCounted
  <2>6. RunsCounted'
    BY <1>2 DEF Deliver, RunsCounted, CopiesCounted
  <2>7. AllAlive'
    BY <1>2 DEF Deliver, AllAlive, Alive
  <2> QED BY <2>1, <2>2, <2>3, <2>4, <2>5, <2>6, <2>7
<1>3. ASSUME NEW h \in Handler, Succeed(h)
      PROVE  IInv'
  <2>1. NotifiedFirst' /\ DeadAfterAttempts' /\ DeadIsNotified'
    BY <1>3 DEF Succeed, NotifiedFirst, DeadAfterAttempts, DeadIsNotified
  <2>2. TypeOK'
    BY <1>3 DEF Succeed
  <2>3. Attached'
    BY <1>3 DEF Succeed, Attached, Exclusive
  <2>4. Exclusive'
    BY <1>3 DEF Succeed, Exclusive, Attached
  <2>5. CopiesCounted'
    BY <1>3 DEF Succeed, CopiesCounted
  <2>6. RunsCounted'
    BY <1>3 DEF Succeed, RunsCounted
  <2>7. AllAlive'
    BY <1>3 DEF Succeed, AllAlive, Alive, Attached
  <2> QED BY <2>1, <2>2, <2>3, <2>4, <2>5, <2>6, <2>7
<1>4. ASSUME NEW h \in Handler, NEW circuit \in BOOLEAN, Fail(h, circuit)
      PROVE  IInv'
  <2>1. NotifiedFirst' /\ DeadAfterAttempts' /\ DeadIsNotified'
    BY <1>4 DEF Fail, Spend, NotifiedFirst, DeadAfterAttempts, DeadIsNotified
  <2>2. TypeOK'
    <3> DEFINE n == IF circuit THEN run[h].count - 1 ELSE run[h].count
               r == [run[h] EXCEPT !.stage = "failed", !.count = n]
    <3>1. run[h] \in Run /\ n \in Nat
      BY <1>4 DEF Fail, RunsCounted
    <3>2. r \in Run
      BY <3>1
    <3>3. run' = [run EXCEPT ![h] = r]
      BY <1>4, <3>1 DEF Fail
    <3>4. run' \in [Handler -> Run \cup {None}]
      BY <3>2, <3>3
    <3> QED BY <1>4, <3>4 DEF Fail, Spend
  <2>3. Attached'
    BY <1>4 DEF Fail, Spend, Attached
  <2>4. Exclusive'
    BY <1>4 DEF Fail, Spend, Exclusive, Attached
  <2>5. CopiesCounted'
    BY <1>4 DEF Fail, Spend, CopiesCounted
  <2>6. RunsCounted'
    BY <1>4 DEF Fail, Spend, RunsCounted
  <2>7. AllAlive'
    BY <1>4 DEF Fail, Spend, AllAlive, Alive
  <2> QED BY <2>1, <2>2, <2>3, <2>4, <2>5, <2>6, <2>7
<1>5. ASSUME NEW h \in Handler, Timeout(h)
      PROVE  IInv'
  <2>1. NotifiedFirst' /\ DeadAfterAttempts' /\ DeadIsNotified'
    BY <1>5 DEF Timeout, Spend, NotifiedFirst, DeadAfterAttempts, DeadIsNotified
  <2>2. TypeOK'
    BY <1>5 DEF Timeout, Spend
  <2>3. Attached'
    BY <1>5 DEF Timeout, Spend, Attached
  <2>4. Exclusive'
    BY <1>5 DEF Timeout, Spend, Exclusive, Attached
  <2>5. CopiesCounted'
    BY <1>5 DEF Timeout, Spend, CopiesCounted
  <2>6. RunsCounted'
    BY <1>5 DEF Timeout, Spend, RunsCounted
  <2>7. AllAlive'
    BY <1>5 DEF Timeout, Spend, AllAlive, Alive
  <2> QED BY <2>1, <2>2, <2>3, <2>4, <2>5, <2>6, <2>7
<1>6. ASSUME NEW m \in Msg, LateSuccess(m)
      PROVE  IInv'
  <2>1. Attached' /\ Exclusive' /\ CopiesCounted' /\ RunsCounted'
      /\ NotifiedFirst' /\ DeadAfterAttempts' /\ DeadIsNotified'
    BY <1>6 DEF LateSuccess, Attached, Exclusive, CopiesCounted, RunsCounted,
      NotifiedFirst, DeadAfterAttempts, DeadIsNotified
  <2>2. TypeOK'
    BY <1>6 DEF LateSuccess
  <2>3. AllAlive'
    BY <1>6 DEF LateSuccess, AllAlive, Alive
  <2> QED BY <2>1, <2>2, <2>3
<1>7. ASSUME NEW h \in Handler, Notified(h)
      PROVE  IInv'
  <2>1. CopiesCounted' /\ DeadAfterAttempts'
    BY <1>7 DEF Notified, CopiesCounted, DeadAfterAttempts
  <2>2. TypeOK'
    BY <1>7 DEF Notified
  <2>3. Attached'
    BY <1>7 DEF Notified, Attached
  <2>4. Exclusive'
    BY <1>7 DEF Notified, Exclusive, Attached
  <2>5. RunsCounted'
    BY <1>7 DEF Notified, RunsCounted
  <2>6. NotifiedFirst'
    BY <1>7 DEF Notified, NotifiedFirst
  <2>7. AllAlive'
    BY <1>7 DEF Notified, AllAlive, Alive
  <2>8. DeadIsNotified'
    BY <1>7 DEF Notified, DeadIsNotified
  <2> QED BY <2>1, <2>2, <2>3, <2>4, <2>5, <2>6, <2>7, <2>8
<1>8. ASSUME NEW h \in Handler, NEW s \in Slot, Republished(h, s)
      PROVE  IInv'
  <2>1. TypeOK'
    BY <1>8 DEF Republished, Republishes, Exhausted, Again, Acked, New
  <2>2. Attached'
    BY <1>8 DEF Republished, Republishes, Exhausted, Again, Acked, New,
      Attached, Exclusive
  <2>3. Exclusive'
    BY <1>8 DEF Republished, Republishes, Exhausted, Again, Acked, New,
      Exclusive, Attached
  <2>4. CopiesCounted'
    BY <1>8 DEF Republished, Republishes, Exhausted, Again, Acked, New,
      CopiesCounted, RunsCounted
  <2>5. RunsCounted'
    BY <1>8 DEF Republished, Republishes, Exhausted, Again, Acked, New,
      RunsCounted
  <2>6. NotifiedFirst'
    BY <1>8 DEF Republished, Republishes, Exhausted, Again, Acked, New,
      NotifiedFirst
  <2>7. AllAlive'
    BY <1>8 DEF Republished, Republishes, Exhausted, Again, Acked, New,
      AllAlive, Alive, Attached
  <2>8. DeadAfterAttempts'
    BY <1>8 DEF Republished, Republishes, Exhausted, Again, Acked, New,
      DeadAfterAttempts, RunsCounted
  <2>9. DeadIsNotified'
    BY <1>8 DEF Republished, Republishes, Exhausted, Again, Acked, New,
      DeadIsNotified, NotifiedFirst
  <2> QED BY <2>1, <2>2, <2>3, <2>4, <2>5, <2>6, <2>7, <2>8, <2>9
<1>9. ASSUME NEW h \in Handler, NEW s \in Slot, NEW stored \in BOOLEAN, PublishFails(h, s, stored)
      PROVE  IInv'
  <2>1. TypeOK'
    BY <1>9 DEF PublishFails, Republishes, Exhausted, Again, New, Spend,
      Requeued, Detached
  <2>2. Attached'
    <3>1. CASE run[h].slot = None
      <4>1. \A t \in Slot : copy[t] # None => copy'[t] = copy[t]
        <5>1. CASE stored
          BY <1>9, <3>1, <5>1 DEF PublishFails
        <5>2. CASE ~stored
          BY <1>9, <3>1, <5>2 DEF PublishFails
        <5> QED BY <5>1, <5>2
      <4>2. run' = [run EXCEPT ![h] = None]
        BY <1>9, <3>1 DEF PublishFails
      <4> QED BY <4>1, <4>2 DEF Attached
    <3>2. CASE run[h].slot # None
      BY <1>9, <3>2 DEF PublishFails, Detached, Attached
    <3> QED BY <3>1, <3>2
  <2>3. Exclusive'
    BY <1>9 DEF PublishFails, Republishes, Exhausted, Again, New, Spend,
      Requeued, Detached, Exclusive, Attached
  <2>4. CopiesCounted'
    BY <1>9 DEF PublishFails, Republishes, Exhausted, Again, New, Spend,
      Requeued, Detached, CopiesCounted, RunsCounted
  <2>5. RunsCounted'
    BY <1>9 DEF PublishFails, Republishes, Exhausted, Again, New, Spend,
      Requeued, Detached, RunsCounted
  <2>6. NotifiedFirst'
    BY <1>9 DEF PublishFails, Republishes, Exhausted, Again, New, Spend,
      Requeued, Detached, NotifiedFirst
  <2>7. AllAlive'
    <3>1. \A t \in Slot : copy[t] # None => copy'[t] # None /\ copy'[t].msg = copy[t].msg
      <4> DEFINE kept == IF run[h].slot = None THEN copy ELSE Requeued
      <4>1. \A t \in Slot : copy[t] # None => kept[t] # None /\ kept[t].msg = copy[t].msg
        BY DEF Requeued
      <4>2. \A t \in Slot : copy[t] # None => copy'[t] = kept[t]
        <5>1. CASE stored
          BY <1>9, <5>1 DEF PublishFails, Requeued
        <5>2. CASE ~stored
          BY <1>9, <5>2 DEF PublishFails, Requeued
        <5> QED BY <5>1, <5>2
      <4> QED BY <4>1, <4>2
    <3>3. \A m \in Msg : Alive(m) => Alive(m)'
      BY <1>9, <3>1 DEF PublishFails, Alive
    <3>2. \A g \in Handler : run'[g] # None => run[g] # None /\ run'[g].msg = run[g].msg
      BY <1>9 DEF PublishFails, Detached
    <3> QED BY <1>9, <3>3, <3>2 DEF PublishFails, AllAlive
  <2>8. DeadAfterAttempts'
    BY <1>9 DEF PublishFails, Republishes, Exhausted, Again, New, Spend,
      Requeued, Detached, DeadAfterAttempts, RunsCounted
  <2>9. DeadIsNotified'
    BY <1>9 DEF PublishFails, Republishes, Exhausted, Again, New, Spend,
      Requeued, Detached, DeadIsNotified, NotifiedFirst
  <2> QED BY <2>1, <2>2, <2>3, <2>4, <2>5, <2>6, <2>7, <2>8, <2>9
<1>10. ASSUME Close
       PROVE  IInv'
  <2>1. TypeOK'
    <3>1. copy' \in [Slot -> Copy \cup {None}]
      BY <1>10, RequeuedTyped DEF Close
    <3>2. run' \in [Handler -> Run \cup {None}]
      BY <1>10, DetachedTyped DEF Close
    <3>3. budget' \in 0..Budget
      BY <1>10 DEF Close, Spend
    <3> QED BY <1>10, <3>1, <3>2, <3>3 DEF Close
  <2>2. Attached'
    BY <1>10 DEF Close, Spend, Requeued, Detached, Attached
  <2>3. Exclusive'
    BY <1>10 DEF Close, Spend, Requeued, Detached, Exclusive, Attached
  <2>4. CopiesCounted'
    BY <1>10 DEF Close, Spend, Requeued, Detached, CopiesCounted
  <2>5. RunsCounted'
    BY <1>10 DEF Close, Spend, Requeued, Detached, RunsCounted
  <2>6. NotifiedFirst'
    BY <1>10 DEF Close, Spend, Requeued, Detached, NotifiedFirst
  <2>7. AllAlive'
    BY <1>10 DEF Close, Spend, Requeued, Detached, AllAlive, Alive
  <2>8. DeadAfterAttempts'
    BY <1>10 DEF Close, Spend, Requeued, Detached, DeadAfterAttempts
  <2>9. DeadIsNotified'
    BY <1>10 DEF Close, Spend, Requeued, Detached, DeadIsNotified
  <2> QED BY <2>1, <2>2, <2>3, <2>4, <2>5, <2>6, <2>7, <2>8, <2>9
<1>11. ASSUME Crash
       PROVE  IInv'
  <2>1. TypeOK'
    <3>1. copy' \in [Slot -> Copy \cup {None}]
      BY <1>11, RequeuedTyped DEF Crash
    <3>2. budget' \in 0..Budget
      BY <1>11 DEF Crash, Spend
    <3> QED BY <1>11, <3>1, <3>2 DEF Crash
  <2>2. Attached'
    BY <1>11 DEF Crash, Spend, Requeued, Attached
  <2>3. Exclusive'
    BY <1>11 DEF Crash, Spend, Requeued, Exclusive, Attached
  <2>4. CopiesCounted'
    BY <1>11 DEF Crash, Spend, Requeued, CopiesCounted
  <2>5. RunsCounted'
    BY <1>11 DEF Crash, Spend, Requeued, RunsCounted
  <2>6. NotifiedFirst'
    BY <1>11 DEF Crash, Spend, Requeued, NotifiedFirst
  <2>7. AllAlive'
    BY <1>11 DEF Crash, Spend, Requeued, AllAlive, Alive
  <2>8. DeadAfterAttempts'
    BY <1>11 DEF Crash, Spend, Requeued, DeadAfterAttempts
  <2>9. DeadIsNotified'
    BY <1>11 DEF Crash, Spend, Requeued, DeadIsNotified
  <2> QED BY <2>1, <2>2, <2>3, <2>4, <2>5, <2>6, <2>7, <2>8, <2>9
<1>12. ASSUME Restart
       PROVE  IInv'
  BY <1>12 DEF Restart, Attached, Exclusive, CopiesCounted, RunsCounted,
    NotifiedFirst, AllAlive, Alive, DeadAfterAttempts, DeadIsNotified
<1>13. ASSUME NEW s \in Slot, Expire(s)
       PROVE  IInv'
  <2>1. Exclusive' /\ RunsCounted' /\ NotifiedFirst'
    BY <1>13 DEF Expire, Exclusive, Attached, RunsCounted, NotifiedFirst
  <2>2. TypeOK'
    BY <1>13 DEF Expire
  <2>3. Attached'
    BY <1>13 DEF Expire, Attached
  <2>4. CopiesCounted'
    BY <1>13 DEF Expire, CopiesCounted
  <2>5. AllAlive'
    BY <1>13 DEF Expire, AllAlive, Alive
  <2>6. DeadAfterAttempts'
    BY <1>13 DEF Expire, DeadAfterAttempts
  <2>7. DeadIsNotified'
    BY <1>13 DEF Expire, DeadIsNotified
  <2> QED BY <2>1, <2>2, <2>3, <2>4, <2>5, <2>6, <2>7
<1>14. ASSUME NEW s \in Slot, NEW t \in Slot, NEW dies \in BOOLEAN, Wake(s, t, dies)
       PROVE  IInv'
  <2>1. Exclusive' /\ RunsCounted' /\ NotifiedFirst' /\ DeadAfterAttempts'
      /\ DeadIsNotified'
    BY <1>14 DEF Wake, New, Spend, Exclusive, Attached, RunsCounted,
      NotifiedFirst, DeadAfterAttempts, DeadIsNotified
  <2>2. TypeOK'
    BY <1>14 DEF Wake, New, Spend
  <2>3. Attached'
    BY <1>14 DEF Wake, New, Spend, Attached
  <2>4. CopiesCounted'
    BY <1>14 DEF Wake, New, Spend, CopiesCounted
  <2>5. AllAlive'
    BY <1>14 DEF Wake, New, Spend, AllAlive, Alive
  <2> QED BY <2>1, <2>2, <2>3, <2>4, <2>5
<1>15. CASE UNCHANGED vars
  BY <1>15 DEF vars, Attached, Exclusive, CopiesCounted, RunsCounted,
    NotifiedFirst, AllAlive, Alive, DeadAfterAttempts, DeadIsNotified
<1> QED BY <1>1, <1>2, <1>3, <1>4, <1>5, <1>6, <1>7, <1>8, <1>9, <1>10, <1>11,
  <1>12, <1>13, <1>14, <1>15 DEF Next, RunStep

\* The invariant holds in every state of every run.
LEMMA Inductive == Spec => []IInv
<1>1. Init => IInv
  BY DEF Init, IInv, TypeOK, Attached, Exclusive, CopiesCounted, RunsCounted,
    NotifiedFirst, AllAlive, DeadAfterAttempts, DeadIsNotified
<1> QED BY <1>1, InvStep, PTL DEF Spec

-----------------------------------------------------------------------------
\* No confirmed message leaves the broker unhandled, whatever fails.
THEOREM NothingLost == Spec => []NoLoss
<1>1. IInv => NoLoss
  BY DEF IInv, TypeOK, AllAlive, Alive, NoLoss, Copies
<1> QED BY <1>1, Inductive, PTL

\* Every dead letter was attempted MaxRetries times.
THEOREM DeadLettersAttempted == Spec => []DeadAfterAttempts
<1>1. IInv => DeadAfterAttempts
  BY DEF IInv
<1> QED BY <1>1, Inductive, PTL

\* With notifyFailedMessages every dead letter was notified before.
THEOREM DeadLettersNotified == Spec => []DeadIsNotified
<1>1. IInv => DeadIsNotified
  BY DEF IInv
<1> QED BY <1>1, Inductive, PTL

-----------------------------------------------------------------------------
\* The fate of a message changes only with its copies and with `done`.
LEMMA SameFate ==
  ASSUME done' = done,
         \A m \in Msg \ done : (Copies(m) # {}) <=> (Copies(m)' # {})
  PROVE  fate' = fate
BY DEF fate

\* A step that only moves, duplicates or requeues copies changes no fate.
LEMMA CopiesKept ==
  ASSUME done' = done,
         \A m \in Msg \ done : (\E s \in Slot : copy'[s] # None /\ copy'[s].msg = m)
                          <=> (\E s \in Slot : copy[s] # None /\ copy[s].msg = m)
  PROVE  fate' = fate
<1>1. \A m \in Msg \ done : (Copies(m) # {}) <=> (Copies(m)' # {})
  BY DEF Copies
<1> QED BY <1>1, SameFate

\* Every step of the queues is a step of the promise or changes no fate.
LEMMA FateStep == IInv /\ [Next]_vars => [Promise!Next]_fate
<1> SUFFICES ASSUME IInv, [Next]_vars PROVE [Promise!Next]_fate
  OBVIOUS
<1> USE DEF IInv, TypeOK
<1>1. ASSUME NEW m \in Msg, NEW s \in Slot, NEW sure \in BOOLEAN, Publish(m, s, sure)
      PROVE  [Promise!Next]_fate
  <2>1. \A k \in Msg \ {m} : (Copies(k) # {}) <=> (Copies(k)' # {})
    BY <1>1 DEF Publish, New, Copies
  <2>2. Copies(m) = {} /\ Copies(m)' # {} /\ done' = done
    BY <1>1 DEF Publish, New, Copies
  <2>3. fate' = [fate EXCEPT ![m] = IF m \in done THEN "handled" ELSE "kept"]
    BY <2>1, <2>2 DEF fate
  <2>4. fate[m] = IF m \in done THEN "handled" ELSE "unknown"
    BY <2>2 DEF fate
  <2>5. CASE m \in done
    <3>1. fate = [fate EXCEPT ![m] = fate[m]]
      BY DEF fate
    <3> QED BY <2>3, <2>4, <2>5, <3>1
  <2>6. CASE m \notin done
    BY <2>3, <2>4, <2>6 DEF Promise!Next, Promise!Enqueue
  <2> QED BY <2>5, <2>6
<1>2. ASSUME NEW m \in Msg, Alive(m), done' = done \cup {m},
             \A k \in Msg \ {m} : (Copies(k) # {}) <=> (Copies(k)' # {})
      PROVE  [Promise!Next]_fate
  <2>1. fate' = [fate EXCEPT ![m] = "handled"]
    BY <1>2 DEF fate
  <2>2. fate[m] \in {"kept", "handled"}
    BY <1>2 DEF fate, Alive, Copies
  <2>3. CASE fate[m] = "kept"
    BY <2>1, <2>3 DEF Promise!Next, Promise!Handle
  <2>4. CASE fate[m] = "handled"
    <3>1. fate = [fate EXCEPT ![m] = fate[m]]
      BY DEF fate
    <3> QED BY <2>1, <2>4, <3>1
  <2> QED BY <2>2, <2>3, <2>4
<1>3. ASSUME NEW s \in Slot, NEW h \in Handler, Deliver(s, h) PROVE fate' = fate
  BY <1>3, CopiesKept DEF Deliver
<1>4. ASSUME NEW h \in Handler, Succeed(h) PROVE [Promise!Next]_fate
  <2>1. run[h].msg \in Msg /\ Alive(run[h].msg)
    BY <1>4 DEF Succeed, AllAlive
  <2>2. \A k \in Msg \ {run[h].msg} : (Copies(k) # {}) <=> (Copies(k)' # {})
    BY <1>4 DEF Succeed, Attached, Copies
  <2> QED BY <1>2, <1>4, <2>1, <2>2 DEF Succeed
<1>5. ASSUME NEW h \in Handler, NEW circuit \in BOOLEAN, Fail(h, circuit)
      PROVE  fate' = fate
  BY <1>5, CopiesKept DEF Fail
<1>6. ASSUME NEW h \in Handler, Timeout(h) PROVE fate' = fate
  BY <1>6, CopiesKept DEF Timeout
<1>7. ASSUME NEW m \in Msg, LateSuccess(m) PROVE [Promise!Next]_fate
  <2>1. Alive(m)
    BY <1>7 DEF LateSuccess, AllAlive
  <2>2. \A k \in Msg : (Copies(k) # {}) <=> (Copies(k)' # {})
    BY <1>7 DEF LateSuccess, Copies
  <2> QED BY <1>2, <1>7, <2>1, <2>2 DEF LateSuccess
<1>8. ASSUME NEW h \in Handler, Notified(h) PROVE fate' = fate
  BY <1>8, CopiesKept DEF Notified
<1>9. ASSUME NEW h \in Handler, NEW s \in Slot, Republished(h, s) PROVE fate' = fate
  <2>1. done' = done /\ run[h] # None /\ Alive(run[h].msg)
    BY <1>9 DEF Republished, Republishes, AllAlive
  <2>2. ASSUME NEW m \in Msg \ done
        PROVE  (\E t \in Slot : copy'[t] # None /\ copy'[t].msg = m)
               <=> (\E t \in Slot : copy[t] # None /\ copy[t].msg = m)
    BY <1>9, <2>1 DEF Republished, Republishes, Again, New, Acked, Alive, Attached
  <2> QED BY <2>1, <2>2, CopiesKept
<1>10. ASSUME NEW h \in Handler, NEW s \in Slot, NEW stored \in BOOLEAN,
              PublishFails(h, s, stored)
       PROVE  fate' = fate
  <2>1. done' = done /\ run[h] # None /\ Alive(run[h].msg)
    BY <1>10 DEF PublishFails, AllAlive
  <2>2. ASSUME NEW m \in Msg \ done
        PROVE  (\E t \in Slot : copy'[t] # None /\ copy'[t].msg = m)
               <=> (\E t \in Slot : copy[t] # None /\ copy[t].msg = m)
    <3>1. CASE stored
      <4> DEFINE kept == IF run[h].slot = None THEN copy ELSE Requeued
      <4>1. \A t \in Slot : /\ kept[t] = None <=> copy[t] = None
                            /\ copy[t] # None => kept[t].msg = copy[t].msg
        BY DEF Requeued
      <4>2. copy[s] = None /\ copy' = [kept EXCEPT ![s] = Again(h)] /\ DOMAIN kept = Slot
        BY <1>10, <3>1 DEF PublishFails, Requeued
      <4>3. Again(h) # None /\ Again(h).msg = run[h].msg
        BY <1>10, <2>1 DEF PublishFails, Again, New
      <4> HIDE DEF kept
      <4>4. /\ copy'[s] # None /\ copy'[s].msg = run[h].msg
            /\ \A t \in Slot \ {s} : copy'[t] = kept[t]
        BY <4>2, <4>3
      <4>5. CASE m = run[h].msg
        BY <2>1, <4>4, <4>5 DEF Alive
      <4>6. CASE m # run[h].msg
        BY <4>1, <4>2, <4>4, <4>6
      <4> QED BY <4>5, <4>6
    <3>2. CASE ~stored
      BY <1>10, <3>2 DEF PublishFails, Requeued
    <3> QED BY <3>1, <3>2
  <2> QED BY <2>1, <2>2, CopiesKept
<1>11. CASE Close \/ Crash
  BY <1>11, CopiesKept DEF Close, Crash, Requeued
<1>12. CASE Restart
  BY <1>12, CopiesKept DEF Restart
<1>13. ASSUME NEW s \in Slot, Expire(s) PROVE fate' = fate
  BY <1>13, CopiesKept DEF Expire
<1>14. ASSUME NEW s \in Slot, NEW t \in Slot, NEW dies \in BOOLEAN, Wake(s, t, dies)
       PROVE  fate' = fate
  BY <1>14, CopiesKept DEF Wake, New
<1>15. CASE UNCHANGED vars
  BY <1>15 DEF vars, fate, Copies
<1> QED BY <1>1, <1>3, <1>4, <1>5, <1>6, <1>7, <1>8, <1>9, <1>10, <1>11, <1>12, <1>13,
  <1>14, <1>15 DEF Next, RunStep

\* The queues implement the promise: a message, once confirmed, is kept until it is
\* handled, in every run of the consumer, the broker and the waker.
THEOREM Refines == Spec => KeepsPromise
<1>1. Init => Promise!Init
  BY DEF Init, Promise!Init, fate, Copies
<1> QED BY <1>1, FateStep, Inductive, PTL DEF Spec, KeepsPromise, Promise!Spec
=============================================================================
