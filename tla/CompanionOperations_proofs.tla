--------------------- MODULE CompanionOperations_proofs ---------------------
(* Proofs about CompanionOperations, for any commands and workers. A command  *)
(* that is queued has not been started and is in nobody's hands; from there   *)
(* it goes to one worker, or is too old for any.                              *)
EXTENDS CompanionOperations, TLAPS

Waiting == {"expire", "claim"}
Holding == {"start", "call", "done", "unknown"}

Holds(w, o) == lane[w].pc \in Holding /\ lane[w].seen.id = o

\* What is in the slot, and in a lane, is a command.
Commands ==
  /\ slot.state # "none" => slot.id \in Command
  /\ \A w \in Worker : /\ lane[w].pc \in Waiting => lane[w].seen.state = "queued"
                       /\ lane[w].pc # "rest" => lane[w].seen.id \in Command

\* A command nobody has put in the slot yet.
Unused ==
  \A o \in Command : web[o].pc \in {"new", "put"} =>
    /\ slot.id # o /\ started[o] = 0 /\ o \notin shown
    /\ \A w \in Worker : lane[w].pc # "rest" => lane[w].seen.id # o

\* A command that is in the slot, queued or expired, has not been started.
Untouched ==
  slot.state \in {"queued", "expired"} =>
    started[slot.id] = 0 /\ \A w \in Worker : ~Holds(w, slot.id)

\* One worker has it, and starts it once.
Owned ==
  /\ \A v, w \in Worker, o \in Command : Holds(v, o) /\ Holds(w, o) => v = w
  /\ \A w \in Worker : lane[w].pc = "start" => started[lane[w].seen.id] = 0

\* What is too old is not claimed.
Expired ==
  /\ age = "stale" => \A w \in Worker : lane[w].pc # "claim"
  /\ \A o \in shown : /\ started[o] = 0 /\ \A w \in Worker : ~Holds(w, o)
                      /\ slot.state = "queued" /\ slot.id = o => age = "stale"

Inv == TypeOK /\ Commands /\ Unused /\ Untouched /\ Owned /\ Expired /\ ExecutedOnce

USE CompanionAssumption

-----------------------------------------------------------------------------
LEMMA Slotted ==
  ASSUME NEW s \in Slots, NEW x \in {"none", "queued", "running", "done", "unknown", "expired"}
  PROVE  /\ [s EXCEPT !.state = x] \in Slots
         /\ [s EXCEPT !.state = x].state = x /\ [s EXCEPT !.state = x].id = s.id
BY DEF Slots

LEMMA EmptySlot == Empty \in Slots /\ Empty.id = NoOne /\ Empty.state = "none"
BY DEF Empty, Slots

LEMMA Initially == Init => Inv
BY EmptySlot DEF Init, Inv, TypeOK, Ages, Commands, Unused, Untouched, Owned, Expired,
   ExecutedOnce,
   Holds, Holding, Waiting

LEMMA SubmitStep ==
  ASSUME Inv, NEW o \in Command, NEW kind \in {"list", "mutation"}, Submit(o, kind) PROVE Inv'
<1>1. TypeOK'
  BY DEF Inv, TypeOK, Submit
<1>2. web[o].pc = "new" /\ \A p \in Command \ {o} : web'[p] = web[p]
  BY DEF Inv, TypeOK, Submit
<1>3. Unused'
  BY <1>2 DEF Inv, Submit, Unused
<1>4. Commands' /\ Untouched' /\ Owned' /\ Expired' /\ ExecutedOnce'
  BY DEF Inv, Submit, Commands, Untouched, Owned, Expired, ExecutedOnce, Holds
<1> QED BY <1>1, <1>3, <1>4 DEF Inv

LEMMA PutStep == ASSUME Inv, NEW o \in Command, Put(o) PROVE Inv'
<1>1. /\ web[o].pc = "put" /\ web'[o].pc = "over" /\ (\A p \in Command \ {o} : web'[p] = web[p])
      /\ web' \in [Command -> [pc : {"new", "put", "over"}, kind : {"list", "mutation"}, seen : Slots]]
      /\ web[o].kind \in {"list", "mutation"}
      /\ UNCHANGED <<lease, client, lane, started, shown>>
  BY DEF Inv, TypeOK, Put
<1>2. CASE ~Same(web[o].seen)
  <2>1. UNCHANGED <<slot, age>>
    BY <1>2 DEF Put
  <2> QED BY <1>1, <2>1 DEF Inv, TypeOK, Commands, Unused, Untouched, Owned, Expired,
     ExecutedOnce, Holds
<1>3. CASE Same(web[o].seen)
  <2>1. /\ slot' = [id |-> o, kind |-> web[o].kind, state |-> "queued"] /\ age' = "fresh"
    BY <1>3 DEF Put
  <2>2. slot'.id = o /\ slot'.state = "queued" /\ slot' \in Slots
    BY <1>1, <2>1 DEF Slots
  <2>3. TypeOK'
    BY <1>1, <2>1, <2>2 DEF Inv, TypeOK, Ages
  <2>4. Commands' /\ Unused' /\ Owned' /\ Expired' /\ ExecutedOnce'
    BY <1>1, <2>1, <2>2 DEF Inv, Commands, Unused, Owned, Expired, ExecutedOnce, Holds, Holding
  <2>5. Untouched'
    BY <1>1, <2>2 DEF Inv, Unused, Untouched, Holds, Holding
  <2> QED BY <2>3, <2>4, <2>5 DEF Inv
<1> QED BY <1>2, <1>3

LEMMA StatusStep == ASSUME Inv, Status PROVE Inv'
<1>1. slot.id \in Command /\ started[slot.id] = 0 /\ \A w \in Worker : ~Holds(w, slot.id)
  BY DEF Inv, Status, Commands, Untouched
<1>2. TypeOK'
  BY <1>1 DEF Inv, Status, TypeOK
<1>3. Commands' /\ Untouched' /\ Owned' /\ ExecutedOnce'
  BY DEF Inv, Status, Commands, Untouched, Owned, ExecutedOnce, Holds
<1>4. Unused' /\ Expired'
  BY <1>1 DEF Inv, Status, Unused, Expired, Holds
<1> QED BY <1>2, <1>3, <1>4 DEF Inv

\* A worker goes on with what it has in hand, and the slot stays.
LEMMA LaneStep ==
  ASSUME Inv, NEW w \in Worker,
         NEW x \in {"rest", "expire", "claim", "start", "call", "done", "unknown"},
         lane' = [lane EXCEPT ![w].pc = x], UNCHANGED <<slot, age, lease, client, web, started, shown>>,
         lane[w].pc \in {"call", "done", "unknown"}, x \in {"call", "done", "unknown"}
  PROVE  Inv'
<1>1. /\ lane'[w].pc = x /\ lane'[w].seen = lane[w].seen
      /\ (\A v \in Worker \ {w} : lane'[v] = lane[v])
  BY DEF Inv, TypeOK
<1>2. TypeOK'
  BY DEF Inv, TypeOK
<1>3. \A v \in Worker, o \in Command : Holds(v, o)' => Holds(v, o)
  BY <1>1 DEF Holds, Holding
<1>4. Commands' /\ Unused'
  BY <1>1 DEF Inv, Commands, Unused, Waiting
<1>5. Untouched' /\ ExecutedOnce'
  BY <1>1, <1>3 DEF Inv, Commands, Untouched, ExecutedOnce
<1>6. Owned'
  BY <1>1, <1>3 DEF Inv, Owned
<1>7. Expired'
  BY <1>1, <1>3 DEF Inv, TypeOK, Expired
<1> QED BY <1>2, <1>4, <1>5, <1>6, <1>7 DEF Inv

\* A worker puts down what it has, whatever becomes of the sessions.
LEMMA RestStep ==
  ASSUME Inv, NEW w \in Worker, Rest(w), UNCHANGED <<slot, age, web, started, shown>>,
         lease' \in Worker \cup {NoOne}, client' \in [Worker -> {"new", "up", "down"}]
  PROVE  Inv'
<1>1. lane'[w].pc = "rest" /\ (\A v \in Worker \ {w} : lane'[v] = lane[v])
  BY DEF Inv, TypeOK, Rest
<1>2. TypeOK'
  BY EmptySlot DEF Inv, TypeOK, Rest
<1>3. \A v \in Worker, o \in Command : Holds(v, o)' => Holds(v, o)
  BY <1>1 DEF Holds, Holding
<1>4. Commands' /\ Unused'
  BY <1>1 DEF Inv, Commands, Unused, Waiting
<1>5. Untouched' /\ ExecutedOnce'
  BY <1>1, <1>3 DEF Inv, Commands, Untouched, ExecutedOnce
<1>6. Owned'
  BY <1>1, <1>3 DEF Inv, Owned
<1>7. Expired'
  BY <1>1, <1>3 DEF Inv, TypeOK, Expired
<1> QED BY <1>2, <1>4, <1>5, <1>6, <1>7 DEF Inv

LEMMA TickStep == ASSUME Inv, NEW w \in Worker, Tick(w) PROVE Inv'
<1>1. /\ lane'[w].pc = (IF age # "fresh" THEN "expire" ELSE "claim") /\ lane'[w].seen = slot
      /\ (\A v \in Worker \ {w} : lane'[v] = lane[v]) /\ slot.state = "queued"
      /\ UNCHANGED <<slot, age, lease, client, web, started, shown>>
  BY DEF Inv, TypeOK, Tick, TooOld
<1>2. TypeOK'
  BY <1>1 DEF Inv, TypeOK, Tick
<1>3. \A v \in Worker, o \in Command : Holds(v, o)' => Holds(v, o)
  BY <1>1 DEF Holds, Holding
<1>4. Commands' /\ Unused'
  BY <1>1 DEF Inv, Commands, Unused, Waiting
<1>5. Untouched' /\ ExecutedOnce'
  BY <1>1, <1>3 DEF Inv, Commands, Untouched, ExecutedOnce
<1>6. Owned'
  BY <1>1, <1>3 DEF Inv, Owned
<1>7. Expired'
  BY <1>1, <1>3 DEF Inv, TypeOK, Expired
<1> QED BY <1>2, <1>4, <1>5, <1>6, <1>7 DEF Inv

\* Its outcome, or the end of what is too old, takes the place of the command.
LEMMA MarkStep ==
  ASSUME Inv, NEW w \in Worker, NEW x \in {"done", "unknown", "expired"}, Rest(w),
         lane[w].pc # "rest", slot = lane[w].seen, slot' = [slot EXCEPT !.state = x],
         x = "expired" => lane[w].pc = "expire",
         UNCHANGED <<age, lease, client, web, started, shown>>
  PROVE  Inv'
<1>1. lane'[w].pc = "rest" /\ (\A v \in Worker \ {w} : lane'[v] = lane[v])
  BY DEF Inv, TypeOK, Rest
<1> PICK s \in Slots : s = slot
  BY DEF Inv, TypeOK
<1>2. slot' \in Slots /\ slot'.state = x /\ slot'.id = slot.id /\ slot.id \in Command
  BY DEF Inv, Commands, Slots
<1>3. TypeOK'
  BY EmptySlot, <1>2 DEF Inv, TypeOK, Rest
<1>4. \A v \in Worker, o \in Command : Holds(v, o)' => Holds(v, o)
  BY <1>1 DEF Holds, Holding
<1>5. Commands' /\ Unused' /\ ExecutedOnce'
  BY <1>1, <1>2 DEF Inv, Commands, Unused, ExecutedOnce, Waiting
<1>7. Owned'
  BY <1>1, <1>4 DEF Inv, Owned
<1>8. Expired'
  BY <1>1, <1>2, <1>4 DEF Inv, TypeOK, Expired
<1>6. Untouched'
  BY <1>2, <1>4 DEF Inv, Commands, Untouched, Waiting
<1> QED BY <1>3, <1>5, <1>6, <1>7, <1>8 DEF Inv

LEMMA DropStep == ASSUME Inv, NEW w \in Worker, Drop(w) PROVE Inv'
<1>1. CASE Same(lane[w].seen) /\ Fenced(w)
  BY <1>1, MarkStep DEF Drop, Lane, Same
<1>2. CASE ~(Same(lane[w].seen) /\ Fenced(w))
  BY <1>2, RestStep DEF Drop, Inv, TypeOK
<1> QED BY <1>1, <1>2

LEMMA RecordStep == ASSUME Inv, NEW w \in Worker, Record(w) PROVE Inv'
<1>1. CASE client[w] = "up" /\ Same(lane[w].seen) /\ Fenced(w)
  BY <1>1, MarkStep DEF Record, Same
<1>2. CASE ~(client[w] = "up" /\ Same(lane[w].seen) /\ Fenced(w))
  BY <1>2, RestStep DEF Record, Inv, TypeOK
<1> QED BY <1>1, <1>2

LEMMA ClaimStep == ASSUME Inv, NEW w \in Worker, Claim(w) PROVE Inv'
<1>1. CASE ~(Same(lane[w].seen) /\ Fenced(w))
  BY <1>1, RestStep DEF Claim, Inv, TypeOK
<1>2. CASE Same(lane[w].seen) /\ Fenced(w)
  <2> PICK s \in Slots : s = slot
    BY DEF Inv, TypeOK
  <2> PICK r \in Slots : r = [s EXCEPT !.state = "running"] /\ r.state = "running" /\ r.id = s.id
    <3> DEFINE q == [s EXCEPT !.state = "running"]
    <3>1. q \in Slots /\ q.state = "running" /\ q.id = s.id
      BY DEF Slots
    <3> HIDE DEF q
    <3>2. \E x \in Slots : x = q /\ x.state = "running" /\ x.id = s.id
      BY <3>1
    <3> QED BY <3>2 DEF q
  <2>1. /\ slot = lane[w].seen /\ slot.state = "queued" /\ lane[w].pc = "claim" /\ slot' = r
        /\ lane' = [lane EXCEPT ![w] = [pc |-> "start", seen |-> r]]
        /\ slot.id \in Command /\ age # "stale"
        /\ UNCHANGED <<age, lease, client, web, started, shown>>
    BY <1>2 DEF Claim, Claimed, Same, Lane, Inv, Commands, Waiting, Expired
  <2>2. lane'[w].pc = "start" /\ lane'[w].seen = r /\ (\A v \in Worker \ {w} : lane'[v] = lane[v])
    BY <2>1 DEF Inv, TypeOK
  <2>3. TypeOK'
    BY <2>1 DEF Inv, TypeOK
  <2>4. \A v \in Worker, o \in Command : Holds(v, o)' => Holds(v, o) \/ (v = w /\ o = s.id)
    <3> SUFFICES ASSUME NEW v \in Worker, NEW o \in Command, Holds(v, o)', ~(v = w /\ o = s.id)
                 PROVE  Holds(v, o)
      OBVIOUS
    <3>1. CASE v = w
      <4>1. lane'[w].seen = r /\ r.id = s.id
        BY <2>2
      <4> QED BY <3>1, <4>1 DEF Holds
    <3>2. CASE v # w
      BY <2>2, <3>2 DEF Holds, Holding
    <3> QED BY <3>1, <3>2
  <2>5. started[s.id] = 0 /\ s.id \notin shown /\ \A v \in Worker : ~Holds(v, s.id)
    BY <2>1 DEF Inv, Untouched, Expired
  <2>6. Commands' /\ Untouched' /\ ExecutedOnce'
    BY <2>1, <2>2 DEF Inv, TypeOK, Commands, Untouched, ExecutedOnce, Waiting
  <2>7. Unused'
    BY <2>1, <2>2 DEF Inv, Unused
  <2>8. Owned'
    BY <2>1, <2>2, <2>4, <2>5 DEF Inv, Owned
  <2>9. Expired'
    BY <2>1, <2>2, <2>4, <2>5 DEF Inv, TypeOK, Expired
  <2> QED BY <2>3, <2>6, <2>7, <2>8, <2>9 DEF Inv
<1> QED BY <1>1, <1>2

LEMMA StartStep == ASSUME Inv, NEW w \in Worker, Start(w) PROVE Inv'
<1>1. CASE client[w] # "up"
  BY <1>1, RestStep DEF Start, Inv, TypeOK
<1>2. CASE client[w] = "up"
  <2> PICK o \in Command : o = lane[w].seen.id
    BY DEF Inv, Commands, Start, Lane
  <2>1. /\ lane[w].pc = "start" /\ started[o] = 0 /\ Holds(w, o)
        /\ started' = [started EXCEPT ![o] = @ + 1] /\ lane' = [lane EXCEPT ![w].pc = "call"]
        /\ UNCHANGED <<slot, age, lease, client, web, shown>>
    BY <1>2 DEF Start, Lane, Inv, Owned, Holds, Holding
  <2>2. /\ lane'[w].pc = "call" /\ lane'[w].seen = lane[w].seen
        /\ (\A v \in Worker \ {w} : lane'[v] = lane[v])
        /\ started'[o] = 1 /\ \A p \in Command \ {o} : started'[p] = started[p]
    BY <2>1 DEF Inv, TypeOK
  <2>3. TypeOK'
    BY <2>1 DEF Inv, TypeOK
  <2>4. \A v \in Worker, p \in Command : Holds(v, p)' <=> Holds(v, p)
    BY <2>1, <2>2 DEF Holds, Holding
  <2>5. Commands' /\ ExecutedOnce'
    BY <2>1, <2>2 DEF Inv, TypeOK, Commands, ExecutedOnce, Waiting
  <2>6. Unused'
    BY <2>1, <2>2 DEF Inv, Unused
  <2>7. Untouched'
    BY <2>1, <2>2, <2>4 DEF Inv, Commands, Untouched
  <2>8. Owned'
    <3>1. ASSUME NEW v \in Worker, lane'[v].pc = "start" PROVE started'[lane'[v].seen.id] = 0
      <4>1. v # w /\ lane'[v] = lane[v] /\ lane[v].seen.id \in Command
        BY <2>2, <3>1 DEF Inv, Commands
      <4>2. lane[v].seen.id # o
        BY <2>1, <3>1, <4>1 DEF Inv, Owned, Holds, Holding
      <4> QED BY <2>2, <3>1, <4>1, <4>2 DEF Inv, Owned
    <3> QED BY <2>4, <3>1 DEF Inv, Owned
  <2>9. Expired'
    BY <2>1, <2>2, <2>4 DEF Inv, TypeOK, Expired
  <2> QED BY <2>3, <2>5, <2>6, <2>7, <2>8, <2>9 DEF Inv
<1> QED BY <1>1, <1>2

LEMMA AnswerStep == ASSUME Inv, NEW w \in Worker, Answer(w) PROVE Inv'
BY LaneStep DEF Answer, Lane

\* Time, the lease and the sockets.
LEMMA AroundStep ==
  ASSUME Inv, Age \/ Forget \/ Lose \/ \E w \in Worker : Open(w) \/ Close(w) PROVE Inv'
<1>1. CASE Age
  BY <1>1 DEF Age, Inv, TypeOK, Ages, Commands, Unused, Untouched, Owned, Expired, ExecutedOnce,
     Holds,
     Lane
<1>2. CASE Forget
  <2>1. slot' \in Slots /\ slot'.id \notin Command /\ slot'.state = "none"
    BY <1>2, EmptySlot DEF Forget
  <2> QED BY <1>2, <2>1 DEF Forget, Inv, TypeOK, Commands, Unused, Untouched, Owned, Expired,
     ExecutedOnce,
             Holds
<1>3. CASE Lose \/ \E w \in Worker : Open(w) \/ Close(w)
  <2>1. lease' \in Worker \cup {NoOne} /\ client' \in [Worker -> {"new", "up", "down"}]
    BY <1>3 DEF Lose, Open, Close, Inv, TypeOK
  <2>2. UNCHANGED <<slot, age, lane, web, started, shown>>
    BY <1>3 DEF Lose, Open, Close
  <2> QED BY <2>1, <2>2 DEF Inv, TypeOK, Commands, Unused, Untouched, Owned, Expired,
     ExecutedOnce, Holds
<1> QED BY <1>1, <1>2, <1>3

LEMMA CrashStep == ASSUME Inv, NEW w \in Worker, Crash(w) PROVE Inv'
BY RestStep DEF Crash, Inv, TypeOK

LEMMA Invariance == Inv /\ [Next]_vars => Inv'
<1> SUFFICES ASSUME Inv, [Next]_vars PROVE Inv'
  OBVIOUS
<1>1. CASE UNCHANGED vars
  BY <1>1 DEF vars, Inv, TypeOK, Commands, Unused, Untouched, Owned, Expired, ExecutedOnce, Holds
<1>2. CASE Next
  BY <1>2, SubmitStep, PutStep, StatusStep, TickStep, DropStep, ClaimStep, StartStep, AnswerStep,
     RecordStep, AroundStep, CrashStep DEF Next, Serve
<1> QED BY <1>1, <1>2

LEMMA Always == Spec => []Inv
BY Initially, Invariance, PTL DEF Spec

-----------------------------------------------------------------------------
\* The types of the slot, the lanes and the submissions hold throughout.
THEOREM Typed == Spec => []TypeOK
<1>1. Inv => TypeOK
  BY DEF Inv
<1> QED BY <1>1, Always, PTL

\* For any commands and workers: COMPANION_CAS hands a command to one worker, which
\* calls the SDK once, whatever leases and processes are lost.
THEOREM Once == Spec => []ExecutedOnce
<1>1. Inv => ExecutedOnce
  BY DEF Inv
<1> QED BY <1>1, Always, PTL

\* For any commands and workers: what status has shown as expired never reaches the
\* SDK, neither before nor after.
THEOREM Never == Spec => []ExpiredNeverRuns
<1>1. Inv => ExpiredNeverRuns
  BY DEF Inv, Expired, ExpiredNeverRuns
<1> QED BY <1>1, Always, PTL
=============================================================================
