--------------------------- MODULE WebhookCircuit ---------------------------
(* services/outgoing_cloud_api.ts and services/redis.ts: the circuit breaker *)
(* of one webhook destination, shared through Redis by every worker that     *)
(* delivers to it. A delivery is one sendHttp; each of its Redis commands is *)
(* a step. A delivery that throws or is skipped comes back from its queue.   *)
(* Without REDIS_URL the same state lives in maps of the process and each    *)
(* group of commands is atomic: the behaviours are a subset of these.        *)
EXTENDS Naturals, FiniteSets

CONSTANTS Delivery,     \* bound: deliveries at one time
          Threshold,    \* WEBHOOK_CB_FAILURE_THRESHOLD
          OpenTtl,      \* WEBHOOK_CB_OPEN_MS, in ticks
          ProbeTtl,     \* the larger of HALF_OPEN_PROBE_MS and timeoutMs
          FailTtl,      \* WEBHOOK_CB_FAILURE_TTL_MS
          Faults,       \* kinds of disturbance: "reject", "crash", "outage"
          Budget        \* bound: disturbances of one behaviour

ASSUME CircuitAssumption == /\ {Threshold, OpenTtl, ProbeTtl, FailTtl} \subseteq Nat \ {0}
                            /\ Faults \subseteq {"reject", "crash", "outage"}
                            /\ Budget \in Nat

VARIABLES left,         \* ticks until each key expires; 0 when absent
          fails,        \* the failure counter; 0 when its key is absent, and
                        \* left.fail = 0 < fails when it has no expiry
          at,           \* where each sendHttp is
          healthy,      \* the endpoint answers
          turn,         \* history: deliveries in flight whose probe key lives
          torn,         \* history: an EXPIRE was lost and the counter still counts
          budget

vars == <<left, fails, at, healthy, turn, torn, budget>>

Key == {"open", "recovery", "probe", "fail"}
Lifetime == [open |-> OpenTtl, recovery |-> OpenTtl + ProbeTtl,
             probe |-> ProbeTtl, fail |-> FailTtl]

Stage == {"idle", "checked", "recovering", "ready", "posting", "bump", "expire",
          "open1", "open2", "open3", "close1", "close2", "close3", "close4"}

\* The types of the state; no key lives longer than it was given.
TypeOK == /\ left \in [Key -> Nat] /\ \A k \in Key : left[k] <= Lifetime[k]
          /\ fails \in 0..(Threshold + 1)
          /\ at \in [Delivery -> Stage]
          /\ healthy \in BOOLEAN /\ torn \in BOOLEAN
          /\ turn \subseteq Delivery
          /\ budget \in 0..Budget

Init == /\ left = [k \in Key |-> 0]
        /\ fails = 0
        /\ at = [d \in Delivery |-> "idle"]
        /\ healthy \in BOOLEAN
        /\ turn = {} /\ torn = FALSE
        /\ budget = Budget

Spend(kind) == kind \in Faults /\ budget > 0 /\ budget' = budget - 1

Go(d, from, to) == at[d] = from /\ at' = [at EXCEPT ![d] = to]

\* A command either runs or is rejected by Redis; every helper catches that.
Runs == UNCHANGED budget
Rejected == Spend("reject")

History == <<healthy, turn>>
counter == <<fails, torn>>

-----------------------------------------------------------------------------
\* isWebhookCircuitOpen: an open circuit throws before anything is done with the
\* message; a rejected GET reads as closed.
Enter(d) ==
  /\ \/ Runs /\ left["open"] > 0 /\ Go(d, "idle", "idle")
     \/ Runs /\ left["open"] = 0 /\ Go(d, "idle", "checked")
     \/ Rejected /\ Go(d, "idle", "checked")
  /\ UNCHANGED <<left, counter, History>>

\* The webhook's filters drop the message, or its payload is prepared.
Filter(d) ==
  /\ Go(d, "checked", "idle") \/ Go(d, "checked", "recovering")
  /\ UNCHANGED <<left, counter, budget, History>>

Posted(d) == turn' = turn \ {d}

\* isWebhookCircuitRecovering: without a recovery key the delivery POSTs at once.
Recovering(d) ==
  /\ \/ Runs /\ left["recovery"] > 0 /\ Go(d, "recovering", "ready")
        /\ UNCHANGED turn
     \/ Runs /\ left["recovery"] = 0 /\ Go(d, "recovering", "posting") /\ Posted(d)
     \/ Rejected /\ Go(d, "recovering", "posting") /\ Posted(d)
  /\ UNCHANGED <<left, counter, healthy>>

\* Mutant: the probe is SET without NX.
ProbeAlways(d) ==
  /\ Runs
  /\ Go(d, "ready", "posting")
  /\ left' = [left EXCEPT !["probe"] = ProbeTtl]
  /\ turn' = turn \cup {d}
  /\ UNCHANGED <<counter, healthy>>

\* acquireWebhookCircuitProbe, SET NX EX: who gets the key POSTs, everybody else
\* throws; a rejected SET counts as not acquired, executed or not.
Probe(d) ==
  /\ \/ /\ Runs /\ left["probe"] = 0
        /\ Go(d, "ready", "posting")
        /\ left' = [left EXCEPT !["probe"] = ProbeTtl]
        /\ turn' = turn \cup {d}
     \/ /\ Runs /\ left["probe"] > 0
        /\ Go(d, "ready", "idle")
        /\ UNCHANGED <<left, turn>>
     \/ /\ Rejected
        /\ Go(d, "ready", "idle")
        /\ left' \in {left, [left EXCEPT !["probe"] = IF @ = 0 THEN ProbeTtl ELSE @]}
        /\ UNCHANGED turn
  /\ UNCHANGED <<counter, healthy>>

\* The endpoint answers 2xx or a permanent 4xx: both close the circuit.
Answers(d) ==
  /\ healthy
  /\ Go(d, "posting", "close1")
  /\ turn' = turn \ {d}
  /\ UNCHANGED <<left, counter, healthy, budget>>

\* The fetch throws, or the status is 408, 425, 429 or at least 500.
FailsTransiently(d) ==
  /\ ~healthy
  /\ Go(d, "posting", "bump")
  /\ turn' = turn \ {d}
  /\ UNCHANGED <<left, counter, healthy, budget>>

\* Mutant: the expiry is set by the second failure.
BumpLate(d) ==
  /\ Runs
  /\ fails' = IF fails > Threshold THEN fails ELSE fails + 1
  /\ Go(d, "bump", IF fails' = 2 THEN "expire"
                   ELSE IF fails' >= Threshold THEN "open1" ELSE "idle")
  /\ UNCHANGED <<left, torn, History>>

\* redisIncrWithTtl: INCR, and EXPIRE only when it returned 1; a rejected INCR
\* counts as 0. Counts above the threshold are not told apart.
Bump(d) ==
  /\ \/ /\ Runs
        /\ fails' = IF fails > Threshold THEN fails ELSE fails + 1
        /\ Go(d, "bump", IF fails' = 1 THEN "expire"
                         ELSE IF fails' >= Threshold THEN "open1" ELSE "idle")
     \/ Rejected /\ Go(d, "bump", "idle") /\ UNCHANGED fails
  /\ UNCHANGED <<left, torn, History>>

\* A counter without an expiry loses the EXPIRE that was to give it one.
Tears == torn' = (torn \/ (fails > 0 /\ left["fail"] = 0))

Expire(d) ==
  /\ Go(d, "expire", IF Threshold = 1 THEN "open1" ELSE "idle")
  /\ \/ /\ Runs /\ torn' = FALSE
        /\ left' = [left EXCEPT !["fail"] = IF fails > 0 THEN FailTtl ELSE 0]
     \/ Rejected /\ Tears /\ UNCHANGED left
  /\ UNCHANGED <<fails, History>>

\* Mutant: the open key is SET without its expiry (its life never gets shorter).
OpenForever(d) ==
  /\ Go(d, "open1", "open2") /\ Runs
  /\ left' = [left EXCEPT !["open"] = OpenTtl + 1]
 
  /\ UNCHANGED <<counter, healthy, turn>>

\* openWebhookCircuit: SET open EX, SET recovery EX, DEL probe; a rejected command
\* ends it.
OpenOpen(d) ==
  /\ \/ /\ Go(d, "open1", "open2") /\ Runs
        /\ left' = [left EXCEPT !["open"] = OpenTtl]
       
     \/ Go(d, "open1", "idle") /\ Rejected /\ UNCHANGED <<left>>
  /\ UNCHANGED <<counter, healthy, turn>>

OpenRecovery(d) ==
  /\ \/ /\ Go(d, "open2", "open3") /\ Runs
        /\ left' = [left EXCEPT !["recovery"] = OpenTtl + ProbeTtl]
     \/ Go(d, "open2", "idle") /\ Rejected /\ UNCHANGED left
  /\ UNCHANGED <<counter, History>>

OpenUnprobe(d) ==
  /\ Go(d, "open3", "idle")
  /\ \/ Runs /\ left' = [left EXCEPT !["probe"] = 0] /\ turn' = {}
     \/ Rejected /\ UNCHANGED <<left, turn>>
  /\ UNCHANGED <<counter, healthy>>

\* closeWebhookCircuit: DEL open, fail, recovery, probe, each with a catch of its
\* own.
Closes == [close1 |-> "open", close2 |-> "fail", close3 |-> "recovery", close4 |-> "probe"]
AfterClose == [close1 |-> "close2", close2 |-> "close3", close3 |-> "close4", close4 |-> "idle"]

Close(d) ==
  /\ at[d] \in DOMAIN Closes
  /\ Go(d, at[d], AfterClose[at[d]])
  /\ LET k == Closes[at[d]]
     IN \/ /\ Runs
           /\ left' = [left EXCEPT ![k] = 0]
           /\ fails' = IF k = "fail" THEN 0 ELSE fails
           /\ torn' = (torn /\ k # "fail")
           /\ turn' = IF k = "probe" THEN {} ELSE turn
        \/ Rejected /\ UNCHANGED <<left, counter, turn>>
  /\ UNCHANGED <<healthy>>

-----------------------------------------------------------------------------
\* The worker dies in the middle of a delivery.
Crash(d) ==
  /\ at[d] # "idle"
  /\ Spend("crash")
  /\ at' = [at EXCEPT ![d] = "idle"]
  /\ turn' = turn \ {d}
  /\ IF at[d] = "expire" THEN Tears ELSE UNCHANGED torn
  /\ UNCHANGED <<left, fails, healthy>>

Outage == /\ healthy /\ Spend("outage")
          /\ healthy' = FALSE
          /\ UNCHANGED <<left, counter, at, turn>>

Recover == /\ ~healthy
           /\ healthy' = TRUE
           /\ UNCHANGED <<left, counter, at, turn, budget>>

\* One unit of time. A key above its lifetime (a mutant's) never expires.
Tick ==
  /\ left' = [k \in Key |-> IF left[k] = 0 \/ left[k] > Lifetime[k] THEN left[k]
                            ELSE left[k] - 1]
  /\ fails' = IF left["fail"] = 1 THEN 0 ELSE fails
  /\ turn' = IF left["probe"] = 1 THEN {} ELSE turn
  /\ UNCHANGED <<at, healthy, torn, budget>>

Deliver(d) == \/ Enter(d) \/ Filter(d) \/ Recovering(d) \/ Probe(d)
              \/ Answers(d) \/ FailsTransiently(d) \/ Bump(d) \/ Expire(d)
              \/ OpenOpen(d) \/ OpenRecovery(d) \/ OpenUnprobe(d) \/ Close(d)

Next == \/ \E d \in Delivery : Deliver(d) \/ Crash(d)
        \/ Outage \/ Recover \/ Tick

Spec == Init /\ [][Next]_vars

\* Time passes, the queue redelivers, the endpoint comes back, and the filters do
\* not drop every message.
FairSpec == /\ Spec /\ WF_vars(Tick) /\ WF_vars(Recover)
            /\ \A d \in Delivery :
                 /\ WF_vars(Deliver(d))
                 /\ SF_vars(Filter(d) /\ at'[d] = "recovering")

-----------------------------------------------------------------------------
\* While recovery is on, probes take turns: as long as a probe's key lives no
\* second delivery gets one, whatever late failures, closings and crashes do to
\* the other keys (outgoing_cloud_api.ts:499-514, redis.ts:709-718).
ProbesTakeTurns == Cardinality(turn) <= 1

\* The failure counter always has an expiry once the INCR that created it has been
\* followed up, although closings may delete it in between (redis.ts:687-694),
\* unless EXPIRE was rejected or the worker died before it.
CounterExpires ==
  (\A d \in Delivery : at[d] # "expire") /\ fails > 0 /\ ~torn => left["fail"] > 0

\* The circuit never stays in the way of a healthy endpoint: every delivery that
\* its queue repeats is POSTed again and again, whatever rejected commands and
\* dead workers left behind (outgoing_cloud_api.ts:253-272, 499-514).
DeliveriesFlow == \A d \in Delivery : []<>(at[d] = "posting")
=============================================================================
