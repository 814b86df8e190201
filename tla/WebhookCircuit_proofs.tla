----------------------- MODULE WebhookCircuit_proofs -----------------------
(* Proofs about WebhookCircuit, for any set of deliveries, any threshold and *)
(* any lifetimes of the keys.                                                *)
EXTENDS WebhookCircuit, FiniteSetTheorems, TLAPS

\* A delivery keeps its turn only while the probe key lives, and one at a time.
TurnHasKey == turn # {} => left["probe"] > 0
OneTurn == \A d, e \in turn : d = e

\* The strengthening: the cardinality alone does not say that SET NX fails.
IInv == TypeOK /\ TurnHasKey /\ OneTurn

USE CircuitAssumption DEF CircuitAssumption

LEMMA Lifetimes == /\ Lifetime \in [Key -> Nat \ {0}]
                   /\ Lifetime["open"] = OpenTtl
                   /\ Lifetime["recovery"] = OpenTtl + ProbeTtl
                   /\ Lifetime["probe"] = ProbeTtl
                   /\ Lifetime["fail"] = FailTtl
BY DEF Lifetime, Key

\* Giving one key a life within its bounds keeps the lives within bounds.
LEMMA SetLife ==
  ASSUME TypeOK, NEW k \in Key, NEW n \in Nat, n <= Lifetime[k],
         left' = [left EXCEPT ![k] = n]
  PROVE  left' \in [Key -> Nat] /\ \A j \in Key : left'[j] <= Lifetime[j]
BY Lifetimes DEF TypeOK

LEMMA GoStage == ASSUME TypeOK, NEW d \in Delivery, NEW s, NEW t \in Stage, Go(d, s, t)
                 PROVE  at' \in [Delivery -> Stage]
BY DEF Go, TypeOK

\* One step keeps the state well typed.
LEMMA TypeStep == TypeOK /\ [Next]_vars => TypeOK'
<1> SUFFICES ASSUME TypeOK, [Next]_vars PROVE TypeOK'
  OBVIOUS
<1> USE DEF TypeOK, counter
<1> DEFINE LeftOK == left \in [Key -> Nat] /\ \A k \in Key : left[k] <= Lifetime[k]
<1>b. ASSUME NEW kind, Spend(kind) PROVE budget' \in 0..Budget
  BY <1>b DEF Spend
<1>1. ASSUME NEW d \in Delivery, Enter(d) PROVE TypeOK'
  <2>1. at' \in [Delivery -> Stage]
    BY <1>1, GoStage DEF Enter, Go, Stage
  <2> QED BY <1>1, <1>b, <2>1 DEF Enter, Runs, Rejected, History
<1>2. ASSUME NEW d \in Delivery, Filter(d) PROVE TypeOK'
  <2>1. at' \in [Delivery -> Stage]
    BY <1>2 DEF Filter, Go, Stage
  <2> QED BY <1>2, <2>1 DEF Filter, History
<1>3. ASSUME NEW d \in Delivery, Recovering(d) PROVE TypeOK'
  <2>1. at' \in [Delivery -> Stage]
    BY <1>3 DEF Recovering, Go, Stage
  <2>2. turn' \subseteq Delivery
    BY <1>3 DEF Recovering, Posted
  <2> QED BY <1>3, <1>b, <2>1, <2>2 DEF Recovering, Runs, Rejected
<1>4. ASSUME NEW d \in Delivery, Probe(d) PROVE TypeOK'
  <2>1. at' \in [Delivery -> Stage]
    BY <1>4 DEF Probe, Go, Stage
  <2>2. turn' \subseteq Delivery
    BY <1>4 DEF Probe
  <2>3. left' = left \/ left' = [left EXCEPT !["probe"] = ProbeTtl]
    <3>1. left = [left EXCEPT !["probe"] = left["probe"]]
      BY DEF Key
    <3> QED BY <1>4, <3>1 DEF Probe
  <2>4. LeftOK'
    BY <2>3, SetLife, Lifetimes DEF Key
  <2> QED BY <1>4, <1>b, <2>1, <2>2, <2>4 DEF Probe, Runs, Rejected
<1>5. ASSUME NEW d \in Delivery, Answers(d) \/ FailsTransiently(d) PROVE TypeOK'
  <2>1. at' \in [Delivery -> Stage]
    BY <1>5 DEF Answers, FailsTransiently, Go, Stage
  <2> QED BY <1>5, <2>1 DEF Answers, FailsTransiently
<1>6. ASSUME NEW d \in Delivery, Bump(d) PROVE TypeOK'
  <2>1. at' \in [Delivery -> Stage]
    BY <1>6 DEF Bump, Go, Stage
  <2>2. fails' \in 0..(Threshold + 1)
    BY <1>6 DEF Bump
  <2> QED BY <1>6, <1>b, <2>1, <2>2 DEF Bump, Runs, Rejected, History
<1>7. ASSUME NEW d \in Delivery, Expire(d) PROVE TypeOK'
  <2>1. at' \in [Delivery -> Stage]
    BY <1>7 DEF Expire, Go, Stage
  <2>2. LeftOK'
    BY <1>7, SetLife, Lifetimes DEF Expire, Key
  <2>3. torn' \in BOOLEAN
    BY <1>7, Zenon DEF Expire, Tears
  <2> QED BY <1>7, <1>b, <2>1, <2>2, <2>3 DEF Expire, Runs, Rejected, History
<1>8. ASSUME NEW d \in Delivery, OpenOpen(d) \/ OpenRecovery(d) \/ OpenUnprobe(d)
      PROVE  TypeOK'
  <2>1. at' \in [Delivery -> Stage]
    BY <1>8 DEF OpenOpen, OpenRecovery, OpenUnprobe, Go, Stage
  <2>2. LeftOK'
    BY <1>8, SetLife, Lifetimes DEF OpenOpen, OpenRecovery, OpenUnprobe, Key
  <2> QED BY <1>8, <1>b, <2>1, <2>2
          DEF OpenOpen, OpenRecovery, OpenUnprobe, Runs, Rejected, History
<1>9. ASSUME NEW d \in Delivery, Close(d) PROVE TypeOK'
  <2>1. at' \in [Delivery -> Stage]
    BY <1>9 DEF Close, Go, Stage, Closes, AfterClose
  <2>2. LeftOK'
    <3>1. Closes[at[d]] \in Key
      BY <1>9 DEF Close, Closes, Key
    <3> QED BY <1>9, <3>1, SetLife, Lifetimes DEF Close
  <2>3. fails' \in 0..(Threshold + 1) /\ turn' \subseteq Delivery
    BY <1>9 DEF Close
  <2>4. torn' \in BOOLEAN
    BY <1>9, Zenon DEF Close
  <2> QED BY <1>9, <1>b, <2>1, <2>2, <2>3, <2>4 DEF Close, Runs, Rejected
<1>10. ASSUME NEW d \in Delivery, Crash(d) PROVE TypeOK'
  <2>1. torn' \in BOOLEAN
    BY <1>10, Zenon DEF Crash, Tears
  <2> QED BY <1>10, <1>b, <2>1 DEF Crash, Stage
<1>11. CASE Outage \/ Recover
  BY <1>11, <1>b DEF Outage, Recover
<1>12. CASE Tick
  <2>1. LeftOK'
    BY <1>12, Lifetimes DEF Tick
  <2> QED BY <1>12, <2>1 DEF Tick
<1>13. CASE UNCHANGED vars
  BY <1>13 DEF vars
<1> QED BY <1>1, <1>2, <1>3, <1>4, <1>5, <1>6, <1>7, <1>8, <1>9, <1>10, <1>11, <1>12,
           <1>13 DEF Next, Deliver

\* One step keeps the turns bound to the probe key.
LEMMA TurnStep == IInv /\ [Next]_vars => TurnHasKey' /\ OneTurn'
<1> SUFFICES ASSUME IInv, [Next]_vars PROVE TurnHasKey' /\ OneTurn'
  OBVIOUS
<1> USE DEF IInv, TurnHasKey, OneTurn
<1>1. ASSUME turn' \subseteq turn, left'["probe"] = left["probe"]
      PROVE  TurnHasKey' /\ OneTurn'
  BY <1>1
<1>2. ASSUME NEW d \in Delivery, Probe(d) PROVE TurnHasKey' /\ OneTurn'
  <2>1. left \in [Key -> Nat] /\ "probe" \in Key
    BY DEF TypeOK, Key
  <2> QED BY <1>2, <2>1 DEF Probe
<1>3. ASSUME NEW d \in Delivery,
             Enter(d) \/ Filter(d) \/ Recovering(d) \/ Answers(d) \/ FailsTransiently(d)
               \/ Bump(d) \/ Crash(d)
      PROVE  TurnHasKey' /\ OneTurn'
  <2>1. turn' \subseteq turn /\ left' = left
    BY <1>3 DEF Enter, Filter, Recovering, Posted, Answers, FailsTransiently, Bump, Crash,
                History
  <2> QED BY <1>1, <2>1
<1>4. ASSUME NEW d \in Delivery, Expire(d) \/ OpenOpen(d) \/ OpenRecovery(d)
      PROVE  TurnHasKey' /\ OneTurn'
  <2>1. turn' = turn /\ left'["probe"] = left["probe"]
    BY <1>4 DEF Expire, OpenOpen, OpenRecovery, History, TypeOK, Key
  <2> QED BY <1>1, <2>1
<1>5. ASSUME NEW d \in Delivery, OpenUnprobe(d) PROVE TurnHasKey' /\ OneTurn'
  BY <1>5 DEF OpenUnprobe
<1>6. ASSUME NEW d \in Delivery, Close(d) PROVE TurnHasKey' /\ OneTurn'
  <2>1. turn' = {} \/ (turn' = turn /\ left'["probe"] = left["probe"])
    BY <1>6 DEF Close, TypeOK, Key
  <2> QED BY <1>1, <2>1
<1>7. CASE Tick
  <2>1. left["probe"] \in Nat /\ left["probe"] <= Lifetime["probe"] /\ "probe" \in Key
    BY DEF TypeOK, Key
  <2>2. CASE left["probe"] = 1
    BY <1>7, <2>2 DEF Tick
  <2>3. CASE left["probe"] # 1
    BY <1>7, <2>1, <2>3, Lifetimes DEF Tick
  <2> QED BY <2>2, <2>3
<1>8. CASE Outage \/ Recover \/ UNCHANGED vars
  BY <1>1, <1>8 DEF Outage, Recover, vars
<1> QED BY <1>2, <1>3, <1>4, <1>5, <1>6, <1>7, <1>8 DEF Next, Deliver

LEMMA InitInv == Init => IInv
<1> SUFFICES ASSUME Init PROVE IInv
  OBVIOUS
<1>1. left \in [Key -> Nat] /\ \A k \in Key : left[k] <= Lifetime[k]
  BY Lifetimes DEF Init
<1>2. fails \in 0..(Threshold + 1) /\ budget \in 0..Budget
  BY DEF Init
<1>3. at \in [Delivery -> Stage]
  BY DEF Init, Stage
<1>4. healthy \in BOOLEAN /\ torn \in BOOLEAN /\ turn = {}
  BY Zenon DEF Init
<1> QED BY <1>1, <1>2, <1>3, <1>4 DEF IInv, TypeOK, TurnHasKey, OneTurn

LEMMA InvStep == IInv /\ [Next]_vars => IInv'
BY TypeStep, TurnStep DEF IInv

\* The state is well typed and no key outlives its lifetime, for all constants.
THEOREM Typed == Spec => []TypeOK
<1>1. IInv => TypeOK
  BY DEF IInv
<1> QED BY InitInv, InvStep, <1>1, PTL DEF Spec

\* However many deliveries there are and whatever fails, probes take turns.
THEOREM OneProbeAtATime == Spec => []ProbesTakeTurns
<1>1. IInv => ProbesTakeTurns
  <2> SUFFICES ASSUME OneTurn PROVE Cardinality(turn) <= 1
    BY DEF IInv, ProbesTakeTurns
  <2>1. CASE turn = {}
    BY <2>1, FS_EmptySet
  <2>2. ASSUME NEW d \in turn PROVE Cardinality(turn) <= 1
    <3>1. turn = {d}
      BY DEF OneTurn
    <3>2. Cardinality({d}) = 1
      BY FS_Singleton
    <3> QED BY <3>1, <3>2
  <2> QED BY <2>1, <2>2
<1> QED BY InitInv, InvStep, <1>1, PTL DEF Spec

-----------------------------------------------------------------------------
\* A counter without an expiry has somebody on the way to give it one, or has lost it.
CounterInv == fails > 0 /\ left["fail"] = 0 => torn \/ \E d \in Delivery : at[d] = "expire"

LEMMA CounterStep == TypeOK /\ CounterInv /\ [Next]_vars => CounterInv'
<1> SUFFICES ASSUME TypeOK, CounterInv, [Next]_vars PROVE CounterInv'
  OBVIOUS
<1> USE DEF CounterInv
<1>t. /\ left \in [Key -> Nat] /\ fails \in Nat /\ at \in [Delivery -> Stage]
      /\ "fail" \in Key /\ left["fail"] <= Lifetime["fail"]
  BY DEF TypeOK, Key
\* A step that leaves the counter alone and takes nobody away from "expire".
<1>1. ASSUME NEW d \in Delivery, at[d] # "expire", \A e \in Delivery \ {d} : at'[e] = at[e],
             fails' = fails, torn' = torn, left'["fail"] = left["fail"]
      PROVE  CounterInv'
  BY <1>1
<1>2. ASSUME NEW d \in Delivery,
             Enter(d) \/ Filter(d) \/ Recovering(d) \/ Answers(d) \/ FailsTransiently(d)
      PROVE  CounterInv'
  <2>1. at[d] # "expire" /\ \A e \in Delivery \ {d} : at'[e] = at[e]
    BY <1>t, <1>2 DEF Enter, Filter, Recovering, Answers, FailsTransiently, Go
  <2>2. left' = left /\ fails' = fails /\ torn' = torn
    BY <1>2 DEF Enter, Filter, Recovering, Answers, FailsTransiently, counter
  <2> QED BY <1>1, <2>1, <2>2
<1>3. ASSUME NEW d \in Delivery,
             Probe(d) \/ OpenOpen(d) \/ OpenRecovery(d) \/ OpenUnprobe(d)
      PROVE  CounterInv'
  <2>1. at[d] # "expire" /\ \A e \in Delivery \ {d} : at'[e] = at[e]
    BY <1>t, <1>3 DEF Probe, OpenOpen, OpenRecovery, OpenUnprobe, Go
  <2>2. fails' = fails /\ torn' = torn /\ left'["fail"] = left["fail"]
    BY <1>t, <1>3 DEF Probe, OpenOpen, OpenRecovery, OpenUnprobe, counter
  <2> QED BY <1>1, <2>1, <2>2
<1>4. ASSUME NEW d \in Delivery, Bump(d) PROVE CounterInv'
  <2>1. at[d] = "bump" /\ left' = left /\ torn' = torn
    BY <1>4 DEF Bump, Go
  <2>2. \A e \in Delivery \ {d} : at'[e] = at[e]
    BY <1>t, <1>4 DEF Bump, Go
  <2>3. CASE fails' = fails
    BY <1>1, <2>1, <2>2, <2>3
  <2>4. CASE fails' # fails
    <3>1. /\ fails' = fails + 1
          /\ at' = [at EXCEPT ![d] = IF fails' = 1 THEN "expire"
                                     ELSE IF fails' >= Threshold THEN "open1" ELSE "idle"]
      BY <1>4, <2>4 DEF Bump, Go
    <3>2. CASE fails' = 1
      <4>1. at'[d] = "expire"
        BY <1>t, <3>1, <3>2
      <4> QED BY <4>1
    <3>3. CASE fails' # 1
      <4>1. fails > 0
        BY <1>t, <3>1, <3>3
      <4> QED BY <2>1, <2>2, <4>1
    <3> QED BY <3>2, <3>3
  <2> QED BY <2>3, <2>4
<1>5. ASSUME NEW d \in Delivery, Expire(d) PROVE CounterInv'
  <2>1. fails' = fails
    BY <1>5 DEF Expire
  <2>2. CASE left' = [left EXCEPT !["fail"] = IF fails > 0 THEN FailTtl ELSE 0]
    BY <1>t, <2>1, <2>2
  <2>3. CASE Tears /\ left' = left
    <3>1. fails > 0 /\ left["fail"] = 0 => torn'
      BY <2>3 DEF Tears
    <3> QED BY <2>1, <2>3, <3>1
  <2> QED BY <1>5, <2>2, <2>3 DEF Expire
<1>6. ASSUME NEW d \in Delivery, Close(d) PROVE CounterInv'
  <2>1. at[d] # "expire" /\ \A e \in Delivery \ {d} : at'[e] = at[e]
    BY <1>t, <1>6 DEF Close, Closes, Go
  <2>2. \/ fails' = 0
        \/ fails' = fails /\ (torn => torn') /\ left'["fail"] = left["fail"]
    BY <1>t, <1>6 DEF Close, counter
  <2> QED BY <2>1, <2>2
<1>7. CASE Tick
  <2>1. \/ fails' = 0
        \/ fails' = fails /\ (left["fail"] = 0 <=> left'["fail"] = 0)
    BY <1>t, <1>7 DEF Tick
  <2> QED BY <1>7, <2>1 DEF Tick
<1>8. CASE Outage \/ Recover \/ UNCHANGED vars
  BY <1>8 DEF Outage, Recover, vars, counter
<1>9. ASSUME NEW d \in Delivery, Crash(d) PROVE CounterInv'
  <2>1. fails' = fails /\ left' = left /\ \A e \in Delivery \ {d} : at'[e] = at[e]
    BY <1>t, <1>9 DEF Crash
  <2>2. CASE at[d] = "expire"
    <3>1. fails > 0 /\ left["fail"] = 0 => torn'
      BY <1>9, <2>2 DEF Crash, Tears
    <3> QED BY <2>1, <3>1
  <2>3. CASE at[d] # "expire"
    <3>1. torn' = torn
      BY <1>9, <2>3 DEF Crash
    <3> QED BY <1>1, <2>1, <2>3, <3>1
  <2> QED BY <2>2, <2>3
<1> QED BY <1>2, <1>3, <1>4, <1>5, <1>6, <1>7, <1>8, <1>9 DEF Next, Deliver

\* A failure counter ends up with an expiry, however late closings delete it in between,
\* unless the EXPIRE itself was lost (redis.ts:687-694).
THEOREM CountersExpire == Spec => []CounterExpires
<1>1. Init => TypeOK /\ CounterInv
  BY InitInv DEF IInv, Init, CounterInv
<1>2. TypeOK /\ CounterInv /\ [Next]_vars => (TypeOK /\ CounterInv)'
  BY TypeStep, CounterStep
<1>3. TypeOK /\ CounterInv => CounterExpires
  BY DEF TypeOK, CounterInv, CounterExpires, Key
<1> QED BY <1>1, <1>2, <1>3, PTL DEF Spec
=============================================================================
