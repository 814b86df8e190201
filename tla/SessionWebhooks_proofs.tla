------------------------ MODULE SessionWebhooks_proofs ------------------------
(* Proofs about SessionWebhooks, for any destinations, observers and brokers  *)
(* and any bounds.                                                            *)
EXTENDS SessionWebhooks, SequenceTheorems, TLAPS

\* A fence is an unavailable state.
Fenced == state # None => (state.fence => state.current = "unavailable")

\* Nothing has been told before anything was observed.
Quiet == state = None => /\ outbox = {} /\ queue = {}
                         /\ \A d \in Destination : view[d].seq = 0
                         /\ \A b \in Broker : mon[b].found = None

\* Snapshots, also those a broker holds, and views are not newer than the state and
\* the destination.
Written(s) == s.seq > 0 /\ s.rev <= dest[s.dest].rev /\ (state # None => s.seq <= state.seq)
Stamped == /\ \A s \in outbox \cup queue : Written(s)
           /\ \A d \in Destination : state # None => view[d].seq <= state.seq

\* A disabled destination has been told nothing under its revision.
DisabledQuiet == \A d \in Destination : ~dest[d].enabled => view[d].seq = 0 /\ InFlight(d) = {}

\* A broker about to declare what it has found finds it unchanged, or clearly newer.
Found == \A b \in Broker : mon[b].found # None =>
           /\ mon[b].found = Stale + 1
           /\ \/ state.observed = Stale + 1 /\ ~state.fence
              \/ state.observed <= mon[b].age + MaxDelay

\* What a broker is about to delete from the outbox is not lost by that.
Kept(s) == s \in queue \/ ~Addressed(s) \/ dead[s.dest] \/ view[s.dest].seq >= s.seq
Holding == \A b \in Broker : mon[b].holding # None =>
             /\ Kept(mon[b].holding)
             /\ mon[b].holding.rev <= dest[mon[b].holding.dest].rev

\* What the receiver knows or is about to know, and the latest of it.
Told(s) == [seq |-> s.seq, current |-> s.current]
Heard(d) == {Told(s) : s \in InFlight(d)} \cup {v \in {view[d]} : v.seq > 0}
Latest(H) == {c \in H : \A e \in H : e.seq <= c.seq}
Right(d, current) == IF dest[d].member THEN state.fence \/ current = state.current
                     ELSE current = "removed"
Agreed(d) == dest[d].exists /\ ~dead[d] => \A c \in Latest(Heard(d)) : Right(d, c.current)
AllAgreed == States \subseteq Events => \A d \in Destination : Agreed(d)

\* The strengthening: what the receivers will believe depends on what is in flight, on
\* who is about to delete from the outbox and on who is about to declare.
IInv == /\ TypeOK /\ RemovedIffGone /\ Fenced /\ Quiet /\ Stamped
        /\ DisabledQuiet /\ Found /\ Holding /\ AllAgreed

LEMMA Bounds == /\ Stale \in Nat \ {0} /\ MaxDelay \in Nat \ {0} /\ Stale >= 2 * MaxDelay
                /\ Budget \in Nat
BY WebhooksAssumption DEF WebhooksAssumption

LEMMA NoneApart == None \notin Age /\ None \notin Snapshot /\ None \notin Known /\ None \notin Edit
BY WebhooksAssumption DEF WebhooksAssumption

USE Bounds

-----------------------------------------------------------------------------
(* Types *)

LEMMA Young == \A age \in 0..MaxDelay : age \in Age
BY DEF Age

LEMMA NextSeqType == TypeOK => NextSeq \in Nat \ {0}
BY DEF TypeOK, Known, NextSeq

LEMMA SnapshotsType == ASSUME TypeOK, NEW ds, ds \subseteq Destination, NEW c \in States
                       PROVE  Snapshots(ds, c) \subseteq Snapshot
BY NextSeqType DEF Snapshots, Snapshot, Integration, TypeOK

\* What the script writes for an observation.
LEMMA ObserveType ==
  ASSUME TypeOK, NEW event, NEW c \in States, NEW age \in 0..MaxDelay, Observe(event, c, age)
  PROVE  state' \in Known /\ outbox' \subseteq Snapshot
<1>1. Recipients \subseteq Destination
  BY DEF Recipients
<1>2. PICK ds \in SUBSET Recipients : outbox' = outbox \cup Snapshots(ds, c)
  BY DEF Observe
<1>3. Snapshots(ds, c) \subseteq Snapshot
  BY <1>1, <1>2, SnapshotsType
<1>4. age \in Age /\ (state # None => state.observed \in Age)
  BY Young DEF TypeOK, Known
<1>5. state' \in Known
  BY <1>4, NextSeqType DEF Observe, Known
<1> QED BY <1>2, <1>3, <1>5 DEF TypeOK

LEMMA RecordType ==
  ASSUME TypeOK, NEW event, NEW c \in States, NEW age \in 0..MaxDelay, Record(event, c, age)
  PROVE  state' \in Known \cup {None} /\ outbox' \subseteq Snapshot
BY ObserveType DEF Record, TypeOK

\* An observer's state with another `up` or another queue is one.
LEMMA WatchType ==
  ASSUME NEW w \in Watch, NEW up \in BOOLEAN, NEW p \in Seq(Event), NEW unlinked \in BOOLEAN
  PROVE  /\ [w EXCEPT !.up = up] \in Watch /\ [w EXCEPT !.pending = p] \in Watch
         /\ [up |-> up, unlinked |-> unlinked, pending |-> p] \in Watch
BY DEF Watch

LEMMA ObservedType ==
  ASSUME TypeOK, NEW o \in Observer, NEW isUp \in BOOLEAN,
         NEW name \in {"connected", "disconnected", "unlinked"}, Observed(o, name, isUp)
  PROVE  obs' \in [Observer -> Watch]
<1>1. [name |-> name, age |-> 0] \in Event
  BY DEF Event
<1>2. Append(obs[o].pending, [name |-> name, age |-> 0]) \in Seq(Event)
  BY <1>1 DEF TypeOK, Watch
<1>3. obs[o] \in Watch /\ (name = "unlinked") \in BOOLEAN
  BY DEF TypeOK
<1>4. /\ [obs[o] EXCEPT !.up = isUp] \in Watch
      /\ [up |-> isUp, unlinked |-> name = "unlinked",
          pending |-> Append(obs[o].pending, [name |-> name, age |-> 0])] \in Watch
  BY <1>2, <1>3, WatchType, Zenon
<1> QED BY <1>4, Zenon DEF Observed, TypeOK

LEMMA PersistedType ==
  ASSUME TypeOK, NEW o \in Observer, obs[o].pending # <<>>, Persisted(o)
  PROVE  obs' \in [Observer -> Watch] /\ Head(obs[o].pending) \in Event
<1>1. obs[o].pending \in Seq(Event) /\ obs[o] \in Watch
  BY DEF TypeOK, Watch
<1>2. Tail(obs[o].pending) \in Seq(Event) /\ Head(obs[o].pending) \in Event
  BY <1>1
<1>3. [obs[o] EXCEPT !.pending = Tail(@)] \in Watch
  BY <1>1, <1>2 DEF Watch
<1> QED BY <1>2, <1>3, Zenon DEF Persisted, TypeOK

LEMMA RegisterType ==
  ASSUME TypeOK, NEW age \in 0..MaxDelay, Register(age)
  PROVE  /\ config' \in BOOLEAN /\ state' \in Known \cup {None} /\ outbox' \subseteq Snapshot
         /\ dest' \in [Destination -> Integration]
<1>1. config' \in BOOLEAN /\ outbox' \subseteq Snapshot
  BY DEF Register, TypeOK
<1>2. state' \in Known \cup {None}
  <2>1. [current |-> "unavailable", seq |-> NextSeq, occurred |-> age, observed |-> age,
         fence |-> TRUE] \in Known
    BY NextSeqType, Young DEF Known, States
  <2> QED BY <2>1 DEF Register, TypeOK
<1>3. ASSUME NEW d \in Destination
      PROVE  [dest[d] EXCEPT !.member = @ \/ (dest[d].exists /\ dest[d].auto)] \in Integration
  <2>1. dest[d] \in Integration /\ (dest[d].member \/ (dest[d].exists /\ dest[d].auto)) \in BOOLEAN
    BY DEF TypeOK
  <2> QED BY <2>1 DEF Integration
<1> QED BY <1>1, <1>2, <1>3, Zenon DEF Register, TypeOK

LEMMA RemoveType ==
  ASSUME TypeOK, NEW age \in 0..MaxDelay, Remove(age)
  PROVE  /\ config' \in BOOLEAN /\ state' \in Known \cup {None} /\ outbox' \subseteq Snapshot
         /\ dest' \in [Destination -> Integration]
<1>1. Recipients \subseteq Destination /\ "removed" \in States
  BY DEF Recipients, States
<1>2. Snapshots(Recipients, "removed") \subseteq Snapshot /\ Snapshots({}, "removed") \subseteq Snapshot
  BY <1>1, SnapshotsType
<1>3. outbox' \subseteq Snapshot /\ config' \in BOOLEAN
  BY <1>2 DEF Remove, TypeOK
<1>4. state' \in Known \cup {None}
  <2>1. [current |-> "removed", seq |-> NextSeq, occurred |-> age, observed |-> age,
         fence |-> FALSE] \in Known
    BY NextSeqType, Young DEF Known, States
  <2> QED BY <2>1 DEF Remove, TypeOK
<1>5. ASSUME NEW d \in Destination PROVE [dest[d] EXCEPT !.member = FALSE] \in Integration
  BY DEF TypeOK, Integration
<1> QED BY <1>3, <1>4, <1>5, Zenon DEF Remove, TypeOK

LEMMA TickType ==
  ASSUME TypeOK, Tick
  PROVE  /\ state' \in Known \cup {None} /\ (state # None => state' \in Known)
         /\ obs' \in [Observer -> Watch] /\ mon' \in [Broker -> Round]
<1>1. state' \in Known \cup {None} /\ (state # None => state' \in Known)
  <2>1. ASSUME NEW st \in Known
        PROVE  [st EXCEPT !.occurred = Grown(@, MaxDelay), !.observed = Grown(@, Stale + 1)] \in Known
    <3>1. Grown(st.occurred, MaxDelay) \in 0..MaxDelay /\ Grown(st.observed, Stale + 1) \in Age
      BY DEF Known, Grown, Age
    <3> QED BY <3>1 DEF Known
  <2> QED BY <2>1 DEF Tick, TypeOK
<1>2. ASSUME NEW o \in Observer
      PROVE  [obs[o] EXCEPT !.pending = [i \in 1..Len(@) |-> Older(@[i])]] \in Watch
  <2>1. obs[o] \in Watch /\ obs[o].pending \in Seq(Event)
    BY DEF TypeOK, Watch
  <2>2. ASSUME NEW i \in 1..Len(obs[o].pending)
        PROVE  Older(obs[o].pending[i]) \in Event
    <3>1. obs[o].pending[i] \in Event
      BY <2>1, ElementOfSeq
    <3>2. obs[o].pending[i].age < MaxDelay
      BY DEF Tick
    <3> QED BY <3>1, <3>2 DEF Event, Older
  <2>3. [i \in 1..Len(obs[o].pending) |-> Older(obs[o].pending[i])] \in Seq(Event)
    BY <2>1, <2>2, IsASeq, LenProperties
  <2>4. \A p \in Seq(Event) : [obs[o] EXCEPT !.pending = p] \in Watch
    BY <2>1 DEF Watch
  <2> QED BY <2>3, <2>4, Zenon
<1>3. ASSUME NEW b \in Broker, mon[b].found # None
      PROVE  [mon[b] EXCEPT !.age = @ + 1, !.found = Grown(@, Stale + 1)] \in Round
  <2>1. mon[b] \in Round /\ mon[b].age < MaxDelay
    BY <1>3 DEF Tick, TypeOK
  <2>2. mon[b].age + 1 \in 0..MaxDelay /\ Grown(mon[b].found, Stale + 1) \in Age
    BY <1>3, <2>1 DEF Round, Grown, Age
  <2> QED BY <2>1, <2>2 DEF Round
<1>4. mon' \in [Broker -> Round]
  BY <1>3 DEF Tick, TypeOK
<1>5. obs' \in [Observer -> Watch]
  BY <1>2, Zenon DEF Tick
<1> QED BY <1>1, <1>4, <1>5

\* One step keeps the state well typed.
LEMMA TypeStep == TypeOK /\ [Next]_vars => TypeOK'
<1> SUFFICES ASSUME TypeOK, [Next]_vars PROVE TypeOK'
  OBVIOUS
<1> USE DEF told
<1>s. ASSUME NEW kind, Spend(kind) PROVE left' \in 0..Budget
  BY <1>s DEF Spend, TypeOK
<1>i. Idle \in Round
  BY DEF Idle, Round
<1>1. ASSUME NEW o \in Observer, Connected(o) PROVE TypeOK'
  BY <1>1, <1>s, ObservedType DEF Connected, TypeOK
<1>2. ASSUME NEW o \in Observer, NEW isLogout \in BOOLEAN, Closed(o, isLogout) PROVE TypeOK'
  BY <1>2, <1>s, ObservedType DEF Closed, TypeOK
<1>3. ASSUME NEW o \in Observer, Beat(o) PROVE TypeOK'
  <2>1. obs[o] \in Watch /\ [name |-> "heartbeat", age |-> 0] \in Event
    BY DEF Event, TypeOK
  <2>2. [obs[o] EXCEPT !.pending = Append(@, [name |-> "heartbeat", age |-> 0])] \in Watch
    <3>1. Append(obs[o].pending, [name |-> "heartbeat", age |-> 0]) \in Seq(Event)
      BY <2>1 DEF Watch
    <3> QED BY <2>1, <3>1, WatchType
  <2>3. obs' \in [Observer -> Watch]
    BY <1>3, <2>2, Zenon DEF Beat, TypeOK
  <2> QED BY <1>3, <1>s, <2>3 DEF Beat, TypeOK
<1>4. ASSUME NEW o \in Observer, Lost(o) PROVE TypeOK'
  <2>1. [obs[o] EXCEPT !.up = FALSE] \in Watch
    BY DEF TypeOK, Watch
  <2>2. obs' \in [Observer -> Watch]
    BY <1>4, <2>1, Zenon DEF Lost, TypeOK
  <2> QED BY <1>4, <1>s, <2>2 DEF Lost, TypeOK
<1>5. ASSUME NEW o \in Observer, Persist(o) PROVE TypeOK'
  <2>1. Head(obs[o].pending) \in Event /\ obs' \in [Observer -> Watch]
    BY <1>5, PersistedType DEF Persist
  <2>2. PICK c \in States : Record(Head(obs[o].pending).name, c, Head(obs[o].pending).age)
    BY <1>5, <2>1 DEF Persist, Event, States
  <2>3. state' \in Known \cup {None} /\ outbox' \subseteq Snapshot
    BY <2>1, <2>2, RecordType DEF Event
  <2> QED BY <1>5, <2>1, <2>3 DEF Persist, Calm, TypeOK
<1>6. ASSUME NEW o \in Observer, PersistFails(o) PROVE TypeOK'
  BY <1>6, <1>s, PersistedType DEF PersistFails, TypeOK
<1>7. ASSUME NEW o \in Observer, WorkerDies(o) PROVE TypeOK'
  <2>1. New \in Watch
    BY DEF New, Watch
  <2>2. obs' \in [Observer -> Watch]
    BY <1>7, <2>1, Zenon DEF WorkerDies, TypeOK
  <2> QED BY <1>7, <1>s, <2>2 DEF WorkerDies, TypeOK
<1>8. ASSUME NEW register \in BOOLEAN, NEW age \in 0..MaxDelay, Administer(register, age) PROVE TypeOK'
  <2>1. Register(age) \/ Remove(age)
    BY <1>8 DEF Administer
  <2>2. /\ config' \in BOOLEAN /\ state' \in Known \cup {None} /\ outbox' \subseteq Snapshot
        /\ dest' \in [Destination -> Integration]
    BY <2>1, RegisterType, RemoveType, Zenon
  <2> QED BY <1>8, <1>s, <2>2 DEF Administer, TypeOK
<1>10. ASSUME NEW d \in Destination, Delete(d) PROVE TypeOK'
  <2>1. [dest[d] EXCEPT !.exists = FALSE] \in Integration
    BY DEF TypeOK, Integration
  <2>2. dest' \in [Destination -> Integration]
    BY <1>10, <2>1, Zenon DEF Delete, TypeOK
  <2> QED BY <1>10, <1>s, <2>2 DEF Delete, TypeOK
<1>11. ASSUME NEW d \in Destination, NEW member \in BOOLEAN, BeginEdit(d, member) PROVE TypeOK'
  BY <1>11, <1>s DEF BeginEdit, Edit, TypeOK
<1>12. ASSUME SaveEdit PROVE TypeOK'
  <2>1. NoView \in View
    BY DEF NoView, States, View
  <2>2. editing.dest \in Destination /\ editing.member \in BOOLEAN
    BY <1>12 DEF SaveEdit, Edit, TypeOK
  <2>3. dest[editing.dest].rev + 1 \in Nat
    BY <2>2 DEF TypeOK, Integration
  <2>4. ASSUME NEW enabled \in BOOLEAN, NEW auto \in BOOLEAN
        PROVE  [exists |-> TRUE, rev |-> dest[editing.dest].rev + 1, enabled |-> enabled,
                auto |-> auto, member |-> editing.member] \in Integration
    BY <2>2, <2>3 DEF Integration
  <2>5. dest' \in [Destination -> Integration]
    BY <1>12, <2>2, <2>4, Zenon DEF SaveEdit, TypeOK
  <2>6. view' \in [Destination -> View] /\ dead' \in [Destination -> BOOLEAN]
    BY <1>12, <2>1, <2>2, Zenon DEF SaveEdit, TypeOK
  <2> QED BY <1>12, <2>5, <2>6 DEF SaveEdit, Calm, TypeOK
<1>13. ASSUME NEW b \in Broker, Inspect(b) PROVE TypeOK'
  <2>1. [Idle EXCEPT !.found = state.observed] \in Round
    BY <1>13 DEF Inspect, Known, Idle, Round, TypeOK
  <2>2. mon' \in [Broker -> Round]
    BY <1>13, <2>1, Zenon DEF Inspect, TypeOK
  <2> QED BY <1>13, <2>2 DEF Inspect, Calm, TypeOK
<1>14. ASSUME NEW b \in Broker, Declare(b) PROVE TypeOK'
  <2>1. mon[b].age \in 0..MaxDelay /\ "unavailable" \in States
    BY DEF States, Round, TypeOK
  <2>2. state' \in Known \cup {None} /\ outbox' \subseteq Snapshot
    BY <1>14, <2>1, RecordType DEF Declare, TypeOK
  <2>3. mon' \in [Broker -> Round]
    BY <1>14, <1>i, Zenon DEF Declare, TypeOK
  <2> QED BY <1>14, <2>2, <2>3 DEF Declare, Calm, TypeOK
<1>15. ASSUME NEW b \in Broker, NEW s \in outbox, Publish(b, s) PROVE TypeOK'
  <2>1. [mon[b] EXCEPT !.holding = s] \in Round
    BY DEF Round, TypeOK
  <2>2. mon' \in [Broker -> Round]
    BY <1>15, <2>1, Zenon DEF Publish, TypeOK
  <2> QED BY <1>15, <2>2 DEF Publish, Calm, TypeOK
<1>16. ASSUME NEW b \in Broker, Acknowledge(b) PROVE TypeOK'
  BY <1>16, <1>i DEF Acknowledge, Calm, TypeOK
<1>17. ASSUME NEW b \in Broker, TickEnds(b) PROVE TypeOK'
  BY <1>17, <1>s, <1>i DEF TickEnds, TypeOK
<1>a. ASSUME NEW s \in queue, Applied(s) PROVE view' \in [Destination -> View]
  BY <1>a DEF Applied, Snapshot, View, TypeOK
<1>18. ASSUME NEW s \in queue, Cancel(s) PROVE TypeOK'
  BY <1>18 DEF Cancel, Calm, TypeOK
<1>19. ASSUME NEW s \in queue, Post(s) PROVE TypeOK'
  BY <1>19, <1>a DEF Post, Calm, TypeOK
<1>20. ASSUME NEW s \in queue, PostFails(s) PROVE TypeOK'
  <2>1. view' \in [Destination -> View]
    BY <1>20, <1>a DEF PostFails, TypeOK
  <2> QED BY <1>20, <1>s, <2>1 DEF PostFails, TypeOK
<1>21. ASSUME Tick PROVE TypeOK'
  BY <1>21, TickType DEF Tick, TypeOK
<1>22. CASE UNCHANGED vars
  BY <1>22 DEF vars, TypeOK
<1> QED
  BY <1>1, <1>2, <1>3, <1>4, <1>5, <1>6, <1>7, <1>8, <1>10, <1>11, <1>12, <1>13, <1>14,
     <1>15, <1>16, <1>17, <1>18, <1>19, <1>20, <1>21, <1>22, Zenon DEF Next, Dispatch, Receive

-----------------------------------------------------------------------------
(* What steps do to what is told. Rounds of the tick end at any time. *)

Shrinks == \A b \in Broker : mon'[b] = mon[b] \/ mon'[b] = Idle
Aside == UNCHANGED <<config, state, dest, outbox, queue, view, dead>>

\* Somebody's observation is stored; "unavailable" is what a broker declares.
Recording(event, c, age) ==
  /\ config /\ Observe(event, c, age)
  /\ UNCHANGED <<config, dest, queue, view, dead>> /\ Shrinks
  /\ c # "removed"
  /\ c = "unavailable" => \E b \in Broker : mon[b].found # None /\ state.observed = mon[b].found

Configuring == UNCHANGED <<queue, view, dead, mon>>

\* Every step is one of these.
LEMMA Effects ==
  ASSUME TypeOK, [Next]_vars
  PROVE  \/ Aside /\ Shrinks
         \/ \E b \in Broker : Inspect(b)
         \/ \E event \in States \cup {"heartbeat"}, c \in States, age \in 0..MaxDelay :
              Recording(event, c, age)
         \/ \E age \in 0..MaxDelay : (Register(age) \/ Remove(age)) /\ Configuring
         \/ SaveEdit
         \/ \E d \in Destination : Delete(d)
         \/ \E b \in Broker, s \in outbox : Publish(b, s)
         \/ \E b \in Broker : Acknowledge(b)
         \/ \E s \in queue : Cancel(s) \/ Post(s) \/ PostFails(s)
         \/ Tick
<1> USE DEF told
<1>s. ASSUME UNCHANGED mon PROVE Shrinks
  BY <1>s DEF Shrinks
<1>e. ASSUME NEW b \in Broker, mon' = [mon EXCEPT ![b] = Idle] PROVE Shrinks
  BY <1>e DEF Shrinks, TypeOK
<1>1. ASSUME NEW o \in Observer, Connected(o) \/ Beat(o) \/ Lost(o) \/ PersistFails(o) \/ WorkerDies(o)
      PROVE  Aside /\ Shrinks
  BY <1>1, <1>s DEF Connected, Beat, Lost, PersistFails, WorkerDies, Aside
<1>2. ASSUME NEW o \in Observer, NEW isLogout \in BOOLEAN, Closed(o, isLogout) PROVE Aside /\ Shrinks
  BY <1>2, <1>s DEF Closed, Aside
<1>3. ASSUME NEW o \in Observer, Persist(o)
      PROVE  \/ Aside /\ Shrinks
             \/ \E event \in States \cup {"heartbeat"}, c \in States, age \in 0..MaxDelay :
                  Recording(event, c, age)
  <2> DEFINE e == Head(obs[o].pending)
             c == IF e.name = "heartbeat" THEN "connected" ELSE e.name
  <2>1. e \in Event
    BY <1>3, PersistedType DEF Persist
  <2>2. c \in States \ {"removed", "unavailable"} /\ e.name \in States \cup {"heartbeat"}
        /\ e.age \in 0..MaxDelay
    BY <2>1 DEF Event, States
  <2>3. Record(e.name, c, e.age) /\ UNCHANGED <<config, dest, queue, view, dead, mon>>
    BY <1>3 DEF Persist
  <2>4. CASE config /\ ~Outdated(e.age)
    <3>1. Recording(e.name, c, e.age)
      BY <2>2, <2>3, <2>4, <1>s DEF Record, Recording
    <3> QED BY <2>2, <3>1
  <2>5. CASE ~(config /\ ~Outdated(e.age))
    BY <2>3, <2>5, <1>s DEF Record, Aside
  <2> QED BY <2>4, <2>5
<1>4. ASSUME NEW register \in BOOLEAN, NEW age \in 0..MaxDelay, Administer(register, age)
      PROVE  (Register(age) \/ Remove(age)) /\ Configuring
  BY <1>4 DEF Administer, Configuring
<1>5. ASSUME NEW d \in Destination, NEW member \in BOOLEAN, BeginEdit(d, member) PROVE Aside /\ Shrinks
  BY <1>5, <1>s DEF BeginEdit, Aside
<1>6. ASSUME NEW b \in Broker, Declare(b)
      PROVE  \/ Aside /\ Shrinks
             \/ \E event \in States \cup {"heartbeat"}, c \in States, age \in 0..MaxDelay :
                  Recording(event, c, age)
  <2>1. mon[b].age \in 0..MaxDelay /\ "unavailable" \in States
    BY DEF TypeOK, Round, States
  <2>2. Shrinks /\ UNCHANGED <<config, dest, queue, view, dead>> /\ mon[b].found # None
    BY <1>6, <1>e DEF Declare
  <2>3. CASE state.observed = mon[b].found /\ config /\ ~Outdated(mon[b].age)
    <3>1. Recording("unavailable", "unavailable", mon[b].age)
      BY <1>6, <2>2, <2>3 DEF Declare, Record, Recording
    <3> QED BY <2>1, <3>1
  <2>4. CASE ~(state.observed = mon[b].found /\ config /\ ~Outdated(mon[b].age))
    BY <1>6, <2>2, <2>4 DEF Declare, Record, Aside
  <2> QED BY <2>3, <2>4
<1>7. ASSUME NEW b \in Broker, TickEnds(b) PROVE Aside /\ Shrinks
  BY <1>7, <1>e DEF TickEnds, Aside
<1>8. CASE UNCHANGED vars
  BY <1>8, <1>s DEF vars, Aside
<1> QED
  BY <1>1, <1>2, <1>3, <1>4, <1>5, <1>6, <1>7, <1>8, Zenon DEF Next, Dispatch, Receive

\* What a stored observation leaves behind.
LEMMA RecordingWrites ==
  ASSUME TypeOK, NEW event, NEW c \in States, NEW age \in 0..MaxDelay, Recording(event, c, age)
  PROVE  /\ state' # None /\ state'.current = c /\ state'.seq = NextSeq /\ ~state'.fence
         /\ state'.observed = age \/ (state # None /\ state'.observed = state.observed)
         /\ \E ds \in SUBSET Recipients : outbox' = outbox \cup Snapshots(ds, c)
<1>1. state' \in Known
  BY ObserveType DEF Recording
<1> QED BY <1>1, NoneApart DEF Recording, Observe

-----------------------------------------------------------------------------
(* The state and the monitor *)

LEMMA StateStep == ASSUME IInv, [Next]_vars PROVE RemovedIffGone' /\ Fenced'
<1> USE DEF IInv, RemovedIffGone, Fenced
<1>1. CASE UNCHANGED <<config, state>>
  BY <1>1
<1>2. ASSUME NEW event, NEW c \in States, NEW age \in 0..MaxDelay, Recording(event, c, age)
      PROVE  RemovedIffGone' /\ Fenced'
  BY <1>2, RecordingWrites DEF Recording
<1>3. ASSUME NEW age \in 0..MaxDelay, Register(age) PROVE RemovedIffGone' /\ Fenced'
  BY <1>3 DEF Register
<1>4. ASSUME NEW age \in 0..MaxDelay, Remove(age) PROVE RemovedIffGone' /\ Fenced'
  BY <1>4 DEF Remove
<1>5. ASSUME Tick PROVE RemovedIffGone' /\ Fenced'
  BY <1>5 DEF Tick, TypeOK, Known
<1> QED
  BY <1>1, <1>2, <1>3, <1>4, <1>5, Effects DEF Aside, Inspect, SaveEdit, Delete, Publish,
     Acknowledge, Cancel, Post, PostFails, told

LEMMA FoundStep == ASSUME IInv, [Next]_vars PROVE Found'
<1> USE DEF Found
<1>t. Found /\ TypeOK /\ \A b \in Broker : mon[b] \in Round
  BY DEF IInv, TypeOK
<1>i. Idle.found = None
  BY DEF Idle
<1>1. CASE Aside /\ Shrinks
  BY <1>1, <1>t, <1>i DEF Aside, Shrinks
<1>2. ASSUME NEW b \in Broker, Inspect(b) PROVE Found'
  <2>1. state \in Known /\ state.observed = Stale + 1 /\ ~state.fence
    BY <1>2 DEF IInv, Inspect, Fenced, TypeOK, Known, Age
  <2>2. mon' = [mon EXCEPT ![b] = [Idle EXCEPT !.found = Stale + 1]] /\ state' = state
    BY <1>2, <2>1 DEF Inspect
  <2>3. [Idle EXCEPT !.found = Stale + 1].found = Stale + 1
    BY DEF Idle
  <2> QED BY <1>t, <2>1, <2>2, <2>3 DEF TypeOK
<1>3. ASSUME NEW event, NEW c \in States, NEW age \in 0..MaxDelay, Recording(event, c, age)
      PROVE  Found'
  <2> SUFFICES ASSUME NEW b \in Broker, mon'[b].found # None
               PROVE  Found!(b)'
    BY DEF Found
  <2>1. mon'[b] = mon[b] /\ mon[b].age \in 0..MaxDelay
    BY <1>3, <1>t, <1>i DEF Recording, Shrinks, Round
  <2>2. mon[b].found = Stale + 1 /\ (\/ state.observed = Stale + 1 /\ ~state.fence
                                     \/ state.observed <= mon[b].age + MaxDelay)
    BY <1>t, <2>1
  <2>3. ~state'.fence /\ (state'.observed = age \/ state'.observed = state.observed)
    BY <1>t, <1>3, RecordingWrites
  <2> QED BY <2>1, <2>2, <2>3
<1>4. ASSUME NEW age \in 0..MaxDelay, Register(age) \/ Remove(age), Configuring PROVE Found'
  <2>1. mon' = mon /\ (state' = state \/ state'.observed = age)
    BY <1>4 DEF Configuring, Register, Remove, IInv, RemovedIffGone
  <2>2. \A b \in Broker : mon[b].age \in 0..MaxDelay
    BY <1>t DEF Round
  <2> QED BY <1>t, <2>1, <2>2
<1>5. ASSUME NEW b \in Broker, NEW s \in outbox, Publish(b, s) PROVE Found'
  <2>1. state' = state /\ mon[b].found = None /\ mon'[b].found = None
    BY <1>5, <1>t DEF Publish, Idle, TypeOK
  <2>2. \A a \in Broker \ {b} : mon'[a] = mon[a]
    BY <1>5, <1>t DEF Publish, TypeOK
  <2> QED BY <1>t, <2>1, <2>2
<1>6. ASSUME NEW b \in Broker, Acknowledge(b) PROVE Found'
  BY <1>6, <1>t, <1>i DEF Acknowledge, TypeOK
<1>7. ASSUME Tick PROVE Found'
  <2> SUFFICES ASSUME NEW b \in Broker, mon'[b].found # None
               PROVE  Found!(b)'
    BY DEF Found
  <2>1. mon[b].found # None
    BY <1>7 DEF Tick
  <2>2. mon[b].found = Stale + 1 /\ (\/ state.observed = Stale + 1 /\ ~state.fence
                                     \/ state.observed <= mon[b].age + MaxDelay)
    BY <1>t, <2>1
  <2>3. state \in Known
    BY <1>t, <2>1 DEF IInv, Quiet, TypeOK
  <2>4. state'.fence = state.fence /\ state'.observed = Grown(state.observed, Stale + 1)
    BY <1>7, <2>3, NoneApart DEF Tick, Known
  <2>5. mon'[b].age = mon[b].age + 1 /\ mon'[b].found = Grown(mon[b].found, Stale + 1)
    BY <1>7, <1>t, <2>1 DEF Tick, Round
  <2>6. state.observed \in Nat /\ mon[b].age \in Nat /\ state.observed <= Stale + 1
    BY <2>3, <1>t DEF Known, Age, Round
  <2> QED BY <2>2, <2>4, <2>5, <2>6 DEF Grown
<1>8. CASE UNCHANGED <<state, mon>>
  BY <1>8, <1>t
<1> QED
  BY <1>t, <1>1, <1>2, <1>3, <1>4, <1>5, <1>6, <1>7, <1>8, Effects DEF SaveEdit, Delete,
     Cancel, Post, PostFails, told

\* What a writing of the script sends, and the sequence it gives.
LEMMA Sent ==
  ASSUME TypeOK, NEW ds \in SUBSET Recipients, NEW c \in States, NEW s \in Snapshots(ds, c)
  PROVE  /\ s \in Snapshot /\ s.dest \in ds /\ s.seq = NextSeq /\ s.current = c
         /\ s.rev = dest[s.dest].rev /\ dest[s.dest].enabled /\ dest[s.dest].exists
<1>1. s \in Snapshot
  BY SnapshotsType DEF Recipients
<1> QED BY <1>1 DEF Snapshots, Recipients

\* A write, of an observation or of a registration or a removal: what all three share.
Writing(c, ds) == /\ state' # None /\ state'.seq = NextSeq /\ state'.current = c
                  /\ ds \subseteq Recipients
                  /\ outbox' = outbox \cup Snapshots(ds, c)
                  /\ UNCHANGED <<queue, view, dead>>
                  /\ \A d \in Destination : /\ dest'[d].rev = dest[d].rev
                                            /\ dest'[d].enabled = dest[d].enabled
                                            /\ dest'[d].exists = dest[d].exists

LEMMA RecordingIsWriting ==
  ASSUME TypeOK, NEW event, NEW c \in States, NEW age \in 0..MaxDelay, Recording(event, c, age)
  PROVE  \E ds \in SUBSET Recipients : Writing(c, ds)
BY RecordingWrites DEF Recording, Writing

LEMMA RegisterIsWriting ==
  ASSUME TypeOK, NEW age \in 0..MaxDelay, Register(age), Configuring, state # None, ~config
  PROVE  Writing("unavailable", {}) /\ state'.fence
<1>1. state' # None
  <2>1. [current |-> "unavailable", seq |-> NextSeq, occurred |-> age, observed |-> age,
         fence |-> TRUE] \in Known
    BY NextSeqType, Young DEF Known, States
  <2> QED BY <2>1, NoneApart DEF Register
<1>2. outbox' = outbox \cup Snapshots({}, "unavailable")
  BY DEF Register, Snapshots
<1>3. \A d \in Destination : /\ dest'[d].rev = dest[d].rev
                             /\ dest'[d].enabled = dest[d].enabled
                             /\ dest'[d].exists = dest[d].exists
  BY DEF Register, TypeOK, Integration
<1> QED BY <1>1, <1>2, <1>3 DEF Register, Configuring, Writing

LEMMA RemoveIsWriting ==
  ASSUME TypeOK, NEW age \in 0..MaxDelay, Remove(age), Configuring, config
  PROVE  /\ \E ds \in SUBSET Recipients : /\ Writing("removed", ds)
                                          /\ "removed" \in Events => ds = Recipients
         /\ ~state'.fence /\ \A d \in Destination : ~dest'[d].member
<1>1. state' \in Known /\ state' # None
  <2>1. [current |-> "removed", seq |-> NextSeq, occurred |-> age, observed |-> age,
         fence |-> FALSE] \in Known
    BY NextSeqType, Young DEF Known, States
  <2> QED BY <2>1, NoneApart DEF Remove
<1>2. \A d \in Destination : /\ dest'[d].rev = dest[d].rev
                             /\ dest'[d].enabled = dest[d].enabled
                             /\ dest'[d].exists = dest[d].exists
                             /\ ~dest'[d].member
  BY DEF Remove, TypeOK, Integration
<1> DEFINE ds == IF "removed" \in Events THEN Recipients ELSE {}
<1>3. outbox' = outbox \cup Snapshots(ds, "removed") /\ ds \in SUBSET Recipients
  BY DEF Remove
<1>4. state'.current = "removed" /\ state'.seq = NextSeq /\ ~state'.fence
  BY DEF Remove
<1> QED BY <1>1, <1>2, <1>3, <1>4 DEF Configuring, Writing

\* What a step of the consumer leaves: what was believed, or the snapshot it posts.
LEMMA PostingType ==
  ASSUME TypeOK, NEW s \in queue, Cancel(s) \/ Post(s) \/ PostFails(s)
  PROVE  /\ UNCHANGED <<config, state, dest, outbox, mon>> /\ queue' \subseteq queue
         /\ \/ view' = view
            \/ /\ Addressed(s) /\ s.seq > view[s.dest].seq
               /\ view' = [view EXCEPT ![s.dest] = [seq |-> s.seq, current |-> s.current]]
         /\ queue' = queue \/ queue' = queue \ {s}
BY DEF Cancel, Post, PostFails, Applied

LEMMA SavedType ==
  ASSUME TypeOK, SaveEdit
  PROVE  \E d \in Destination :
           /\ dest'[d].rev = dest[d].rev + 1 /\ view'[d] = NoView /\ ~dead'[d]
           /\ \A e \in Destination \ {d} : /\ dest'[e] = dest[e] /\ view'[e] = view[e]
                                           /\ dead'[e] = dead[e]
<1> DEFINE d == editing.dest
<1>1. d \in Destination
  BY DEF SaveEdit, TypeOK, Edit
<1>2. PICK enabled, auto \in BOOLEAN :
        dest' = [dest EXCEPT ![d] = [exists |-> TRUE, rev |-> @.rev + 1, enabled |-> enabled,
                                     auto |-> auto, member |-> editing.member]]
  BY DEF SaveEdit
<1>3. dest'[d].rev = dest[d].rev + 1 /\ \A e \in Destination \ {d} : dest'[e] = dest[e]
  BY <1>1, <1>2 DEF TypeOK
<1>4. /\ view'[d] = NoView /\ ~dead'[d]
      /\ \A e \in Destination \ {d} : view'[e] = view[e] /\ dead'[e] = dead[e]
  BY <1>1 DEF SaveEdit, TypeOK
<1> QED BY <1>1, <1>3, <1>4

\* Sequences and revisions of what is on its way stay within what is stored.
LEMMA StampedStep == ASSUME IInv, [Next]_vars PROVE Stamped'
<1> USE DEF Stamped, Written
<1>t. /\ TypeOK /\ Stamped /\ TypeOK'
      /\ \A s \in outbox \cup queue : s.dest \in Destination /\ s.rev \in Nat /\ s.seq \in Nat
      /\ \A d \in Destination : view[d].seq \in Nat /\ dest[d].rev \in Nat
      /\ state # None => state.seq \in Nat
  BY TypeStep DEF IInv, TypeOK, Snapshot, View, Integration, Known
<1>1. CASE Aside
  BY <1>1, <1>t DEF Aside
<1>2. ASSUME NEW c \in States, NEW ds, Writing(c, ds) PROVE Stamped'
  <2>1. \A s \in Snapshots(ds, c) : s.seq = NextSeq /\ s.rev = dest[s.dest].rev
    BY <1>t, <1>2, Sent DEF Writing
  <2>2. NextSeq \in Nat \ {0} /\ (state # None => NextSeq > state.seq)
    BY <1>t, NextSeqType DEF NextSeq
  <2>3. \A s \in Snapshots(ds, c) : s.dest \in Destination
    BY <1>t, <1>2, Sent DEF Writing, Recipients
  <2>4. state = None => outbox = {} /\ queue = {} /\ \A d \in Destination : view[d].seq = 0
    BY DEF IInv, Quiet
  <2> QED BY <1>t, <1>2, <2>1, <2>2, <2>3, <2>4 DEF Writing
<1>3. ASSUME NEW age \in 0..MaxDelay, Register(age), Configuring PROVE Stamped'
  <2>1. CASE state # None /\ ~config
    BY <1>t, <1>3, <1>2, <2>1, RegisterIsWriting DEF States
  <2>2. CASE config
    BY <1>t, <1>3, <2>2 DEF Register, Configuring
  <2>3. CASE state = None
    <3>1. state' = None
      BY <1>3, <2>3 DEF Register
    <3>2. outbox' = {} /\ queue' = {}
      BY <1>3, <2>3 DEF Register, Configuring, IInv, Quiet
    <3> QED BY <3>1, <3>2
  <2> QED BY <2>1, <2>2, <2>3
<1>4. ASSUME NEW age \in 0..MaxDelay, Remove(age), Configuring PROVE Stamped'
  <2>1. CASE config
    BY <1>t, <1>4, <1>2, <2>1, RemoveIsWriting DEF States
  <2>2. CASE ~config
    BY <1>t, <1>4, <2>2 DEF Remove, Configuring
  <2> QED BY <2>1, <2>2
<1>5. CASE SaveEdit
  <2>1. UNCHANGED <<state, outbox, queue>>
    BY <1>5 DEF SaveEdit
  <2>2. \A d \in Destination : dest'[d].rev >= dest[d].rev
    BY <1>5, <1>t, SavedType
  <2>3. \A d \in Destination : view'[d].seq = 0 \/ view'[d].seq = view[d].seq
    BY <1>5, <1>t, SavedType DEF NoView
  <2>4. \A d \in Destination : dest'[d].rev \in Nat
    BY <1>t DEF TypeOK, Integration
  <2> QED BY <1>t, <2>1, <2>2, <2>3, <2>4
<1>6. ASSUME NEW d \in Destination, Delete(d) PROVE Stamped'
  <2>1. \A e \in Destination : dest'[e].rev = dest[e].rev
    BY <1>6, <1>t DEF Delete, TypeOK, Integration
  <2> QED BY <1>6, <1>t, <2>1 DEF Delete, told
<1>7. ASSUME NEW b \in Broker, NEW s \in outbox, Publish(b, s) PROVE Stamped'
  BY <1>7, <1>t DEF Publish
<1>8. ASSUME NEW b \in Broker, Acknowledge(b) PROVE Stamped'
  BY <1>8, <1>t DEF Acknowledge, told
<1>9. ASSUME NEW s \in queue, Cancel(s) \/ Post(s) \/ PostFails(s) PROVE Stamped'
  <2>1. \A d \in Destination : view'[d].seq = view[d].seq \/ view'[d].seq = s.seq
    <3>1. \/ view' = view
          \/ view' = [view EXCEPT ![s.dest] = [seq |-> s.seq, current |-> s.current]]
      BY <1>9, <1>t, PostingType
    <3>2. view \in [Destination -> View] /\ s.dest \in Destination
      BY <1>t DEF TypeOK
    <3> QED BY <3>1, <3>2
  <2> QED BY <1>9, <1>t, <2>1, PostingType
<1>10. CASE Tick
  <2>1. state' # None => state # None /\ state'.seq = state.seq
    BY <1>10, <1>t DEF Tick, TypeOK, Known
  <2> QED BY <1>10, <1>t, <2>1 DEF Tick, told
<1>11. ASSUME NEW b \in Broker, Inspect(b) PROVE Stamped'
  BY <1>11, <1>t DEF Inspect, told
<1>12. ASSUME NEW event, NEW c \in States, NEW age \in 0..MaxDelay, Recording(event, c, age)
       PROVE  Stamped'
  BY <1>t, <1>2, <1>12, RecordingIsWriting
<1> QED
  BY <1>t, <1>1, <1>12, <1>3, <1>4, <1>5, <1>6, <1>7, <1>8, <1>9, <1>10, <1>11, Effects

LEMMA QuietStep == ASSUME IInv, [Next]_vars PROVE Quiet'
<1> USE DEF Quiet
<1>t. TypeOK /\ Quiet /\ Idle.found = None
  BY DEF IInv, Idle
<1>1. CASE state' # None
  BY <1>1
<1>2. CASE Aside /\ Shrinks
  BY <1>2, <1>t DEF Aside, Shrinks
<1>3. ASSUME NEW event, NEW c \in States, NEW age \in 0..MaxDelay, Recording(event, c, age)
      PROVE  Quiet'
  BY <1>t, <1>3, RecordingWrites
<1>4. ASSUME NEW age \in 0..MaxDelay, Register(age) \/ Remove(age), Configuring PROVE Quiet'
  <2>1. CASE state' = None
    <3>1. state = None
      BY <1>t, <1>4, <2>1, RegisterIsWriting, RemoveIsWriting DEF Register, Remove, Writing
    <3>2. outbox' = outbox
      BY <1>t, <1>4, <2>1, <3>1, RemoveIsWriting DEF Register, Remove, Writing
    <3> QED BY <1>t, <1>4, <3>1, <3>2 DEF Configuring
  <2> QED BY <2>1, <1>1
<1>5. CASE SaveEdit
  <2>1. \A d \in Destination : view'[d].seq = 0 \/ view'[d].seq = view[d].seq
    BY <1>5, <1>t, SavedType DEF NoView
  <2> QED BY <1>5, <1>t, <2>1 DEF SaveEdit
<1>6. ASSUME NEW b \in Broker, Inspect(b) PROVE Quiet'
  BY <1>6 DEF Inspect
<1>7. ASSUME NEW d \in Destination, Delete(d) PROVE Quiet'
  BY <1>7, <1>t DEF Delete, told
<1>8. ASSUME NEW b \in Broker, NEW s \in outbox, Publish(b, s) PROVE Quiet'
  BY <1>8, <1>t DEF Publish
<1>9. ASSUME NEW b \in Broker, Acknowledge(b) PROVE Quiet'
  BY <1>9, <1>t DEF Acknowledge, told, TypeOK
<1>10. ASSUME NEW s \in queue, Cancel(s) \/ Post(s) \/ PostFails(s) PROVE Quiet'
  BY <1>10, <1>t, PostingType
<1>11. CASE Tick
  <2>1. state' = None => state = None
    BY <1>11, <1>t, TickType, NoneApart
  <2> QED BY <1>11, <1>t, <2>1 DEF Tick, told
<1> QED
  BY <1>t, <1>2, <1>3, <1>4, <1>5, <1>6, <1>7, <1>8, <1>9, <1>10, <1>11, Effects

LEMMA DisabledQuietStep == ASSUME IInv, [Next]_vars PROVE DisabledQuiet'
<1> USE DEF DisabledQuiet, InFlight
<1>t. /\ TypeOK /\ DisabledQuiet
      /\ \A s \in outbox \cup queue : s.dest \in Destination /\ s.rev <= dest[s.dest].rev
      /\ \A d \in Destination : dest[d].rev \in Nat
      /\ \A s \in outbox \cup queue : s.rev \in Nat
  BY DEF IInv, TypeOK, Snapshot, Integration, Stamped, Written
\* Nothing new for a destination that was disabled.
<1>1. ASSUME \A d \in Destination : ~dest'[d].enabled =>
               /\ dest'[d].rev = dest[d].rev /\ ~dest[d].enabled /\ view'[d] = view[d],
             \A s \in outbox' \cup queue' : s \in outbox \cup queue \/ dest[s.dest].enabled
      PROVE  DisabledQuiet'
  BY <1>t, <1>1
<1>2. ASSUME NEW c \in States, NEW ds, Writing(c, ds) PROVE DisabledQuiet'
  <2>1. \A s \in Snapshots(ds, c) : dest[s.dest].enabled
    BY <1>t, <1>2, Sent DEF Writing
  <2>2. \A d \in Destination : dest'[d].rev = dest[d].rev /\ dest'[d].enabled = dest[d].enabled
                               /\ view'[d] = view[d]
    BY <1>2 DEF Writing
  <2>3. \A s \in outbox' \cup queue' : s \in outbox \cup queue \/ dest[s.dest].enabled
    BY <1>2, <2>1 DEF Writing
  <2> QED BY <1>1, <2>2, <2>3
<1>3. ASSUME UNCHANGED <<dest, view>>, outbox' \cup queue' \subseteq outbox \cup queue
      PROVE  DisabledQuiet'
  BY <1>t, <1>3
<1>4. ASSUME NEW age \in 0..MaxDelay, Register(age) \/ Remove(age), Configuring PROVE DisabledQuiet'
  <2>1. CASE Register(age) /\ state # None /\ ~config
    BY <1>t, <1>4, <1>2, <2>1, RegisterIsWriting DEF States
  <2>2. CASE Register(age) /\ state = None
    <3>1. outbox' = {} /\ queue' = {} /\ \A d \in Destination : view'[d].seq = 0
      BY <1>4, <2>2 DEF Register, Configuring, IInv, Quiet
    <3> QED BY <3>1
  <2>3. CASE (Register(age) /\ config) \/ (Remove(age) /\ ~config)
    BY <1>3, <1>4, <2>3 DEF Register, Remove, Configuring
  <2>4. CASE Remove(age) /\ config
    BY <1>t, <1>4, <1>2, <2>4, RemoveIsWriting DEF States
  <2> QED BY <1>4, <2>1, <2>2, <2>3, <2>4
<1>5. CASE SaveEdit
  <2>1. PICK d \in Destination :
          /\ dest'[d].rev = dest[d].rev + 1 /\ view'[d] = NoView
          /\ \A e \in Destination \ {d} : dest'[e] = dest[e] /\ view'[e] = view[e]
    BY <1>5, <1>t, SavedType
  <2>2. UNCHANGED <<outbox, queue>>
    BY <1>5 DEF SaveEdit
  <2>3. InFlight(d)' = {}
    BY <1>t, <2>1, <2>2
  <2> QED BY <1>t, <2>1, <2>2, <2>3 DEF NoView
<1>6. ASSUME NEW d \in Destination, Delete(d) PROVE DisabledQuiet'
  <2>1. \A e \in Destination : dest'[e].rev = dest[e].rev /\ dest'[e].enabled = dest[e].enabled
    BY <1>6, <1>t DEF Delete, TypeOK, Integration
  <2> QED BY <1>6, <1>1, <2>1 DEF Delete, told
<1>7. ASSUME NEW s \in queue, Cancel(s) \/ Post(s) \/ PostFails(s) PROVE DisabledQuiet'
  <2>1. \A d \in Destination : ~dest[d].enabled => view'[d] = view[d]
    <3>1. view' = view \/ (Addressed(s) /\ \E v : view' = [view EXCEPT ![s.dest] = v])
      BY <1>7, <1>t, PostingType, Zenon
    <3> QED BY <1>t, <3>1 DEF Addressed, TypeOK
  <2>2. dest' = dest /\ outbox' \cup queue' \subseteq outbox \cup queue
    BY <1>7, <1>t, PostingType
  <2> QED BY <1>1, <2>1, <2>2
<1>8. CASE Aside
  BY <1>3, <1>8 DEF Aside
<1>9. ASSUME NEW event, NEW c \in States, NEW age \in 0..MaxDelay, Recording(event, c, age)
      PROVE  DisabledQuiet'
  BY <1>t, <1>2, <1>9, RecordingIsWriting
<1>10. ASSUME NEW b \in Broker, Inspect(b) \/ Acknowledge(b) PROVE DisabledQuiet'
  BY <1>3, <1>10 DEF Inspect, Acknowledge, told
<1>11. ASSUME NEW b \in Broker, NEW s \in outbox, Publish(b, s) PROVE DisabledQuiet'
  BY <1>3, <1>11 DEF Publish
<1>12. CASE Tick
  BY <1>3, <1>12 DEF Tick, told
<1> QED
  BY <1>t, <1>4, <1>5, <1>6, <1>7, <1>8, <1>9, <1>10, <1>11, <1>12, Effects

\* A message leaves the queue canceled, applied or dead; nothing applied is undone.
LEMMA PostingKeeps ==
  ASSUME TypeOK, NEW s \in queue, Cancel(s) \/ Post(s) \/ PostFails(s)
  PROVE  /\ queue' = queue \/ (queue' = queue \ {s} /\ (\/ ~Addressed(s) \/ dead'[s.dest]
                                                        \/ view'[s.dest].seq >= s.seq))
         /\ \A d \in Destination : view'[d].seq >= view[d].seq /\ (dead[d] => dead'[d])
<1>1. /\ s.dest \in Destination /\ s.seq \in Nat /\ view \in [Destination -> View]
      /\ dead \in [Destination -> BOOLEAN] /\ \A d \in Destination : view[d].seq \in Nat
  BY DEF TypeOK, Snapshot, View
<1>2. ASSUME Applied(s)
      PROVE  view'[s.dest].seq >= s.seq /\ \A d \in Destination : view'[d].seq >= view[d].seq
  <2>1. CASE s.seq > view[s.dest].seq
    BY <1>1, <1>2, <2>1 DEF Applied
  <2>2. CASE ~(s.seq > view[s.dest].seq)
    BY <1>1, <1>2, <2>2 DEF Applied
  <2> QED BY <2>1, <2>2
<1>3. CASE Cancel(s)
  BY <1>1, <1>3 DEF Cancel
<1>4. CASE Post(s)
  BY <1>1, <1>2, <1>4 DEF Post
<1>5. CASE PostFails(s)
  <2>1. \A d \in Destination : view'[d].seq >= view[d].seq
    BY <1>1, <1>2, <1>5 DEF PostFails
  <2>2. \/ UNCHANGED <<queue, dead>>
        \/ queue' = queue \ {s} /\ dead' = [dead EXCEPT ![s.dest] = TRUE]
    BY <1>5 DEF PostFails
  <2> QED BY <1>1, <2>1, <2>2
<1> QED BY <1>3, <1>4, <1>5

\* What a broker is about to delete from the outbox is not lost by that.
LEMMA HoldingStep == ASSUME IInv, [Next]_vars PROVE Holding'
<1> USE DEF Holding, Kept, Addressed
<1>t. /\ TypeOK /\ Holding /\ Stamped /\ Idle.holding = None
      /\ \A b \in Broker : mon[b].holding # None =>
           /\ mon[b].holding.dest \in Destination /\ mon[b].holding.seq \in Nat
           /\ mon[b].holding.rev \in Nat
      /\ \A d \in Destination : dest[d].rev \in Nat
  BY DEF IInv, TypeOK, Idle, Round, Snapshot, Integration
\* Steps that change at most what Kept does not look at, or end rounds.
<1>1. ASSUME UNCHANGED <<queue, view, dead>>,
             \A d \in Destination : /\ dest'[d].rev = dest[d].rev
                                    /\ dest'[d].enabled = dest[d].enabled
                                    /\ dest'[d].exists => dest[d].exists,
             \A b \in Broker : mon'[b].holding = mon[b].holding \/ mon'[b].holding = None
      PROVE  Holding'
  BY <1>t, <1>1
<1>2. CASE Aside /\ Shrinks
  BY <1>t, <1>1, <1>2 DEF Aside, Shrinks
<1>3. ASSUME NEW event, NEW c \in States, NEW age \in 0..MaxDelay, Recording(event, c, age)
      PROVE  Holding'
  BY <1>t, <1>1, <1>3 DEF Recording, Shrinks
<1>4. ASSUME NEW age \in 0..MaxDelay, Register(age) \/ Remove(age), Configuring PROVE Holding'
  <2>1. \A d \in Destination : /\ dest'[d].rev = dest[d].rev
                               /\ dest'[d].enabled = dest[d].enabled
                               /\ dest'[d].exists = dest[d].exists
    BY <1>t, <1>4 DEF Register, Remove, TypeOK, Integration
  <2> QED BY <1>1, <1>4, <2>1 DEF Configuring
<1>5. CASE SaveEdit
  <2>1. PICK d \in Destination :
          /\ dest'[d].rev = dest[d].rev + 1
          /\ \A e \in Destination \ {d} : /\ dest'[e] = dest[e] /\ view'[e] = view[e]
                                          /\ dead'[e] = dead[e]
    BY <1>5, <1>t, SavedType
  <2>2. UNCHANGED <<queue, mon>>
    BY <1>5 DEF SaveEdit
  <2> SUFFICES ASSUME NEW b \in Broker, mon[b].holding # None
               PROVE  Kept(mon[b].holding)' /\ mon[b].holding.rev <= dest'[mon[b].holding.dest].rev
    BY <2>2
  <2>3. CASE mon[b].holding.dest = d
    BY <1>t, <2>1, <2>2, <2>3
  <2>4. CASE mon[b].holding.dest # d
    BY <1>t, <2>1, <2>2, <2>4
  <2> QED BY <2>3, <2>4
<1>6. ASSUME NEW d \in Destination, Delete(d) PROVE Holding'
  <2>1. \A e \in Destination : /\ dest'[e].rev = dest[e].rev /\ dest'[e].enabled = dest[e].enabled
                               /\ dest'[e].exists => dest[e].exists
    BY <1>6, <1>t DEF Delete, TypeOK, Integration
  <2> QED BY <1>6, <1>1, <2>1 DEF Delete, told
<1>7. ASSUME NEW b \in Broker, NEW s \in outbox, Publish(b, s) PROVE Holding'
  <2>1. mon'[b].holding = s /\ s \in queue' /\ s.rev <= dest'[s.dest].rev
    BY <1>7, <1>t DEF Publish, TypeOK, Round, Stamped, Written
  <2>2. \A a \in Broker \ {b} : mon'[a] = mon[a]
    BY <1>7, <1>t DEF Publish, TypeOK
  <2>3. UNCHANGED <<dest, view, dead>> /\ queue \subseteq queue'
    BY <1>7 DEF Publish
  <2> QED BY <1>t, <2>1, <2>2, <2>3
<1>8. ASSUME NEW b \in Broker, Acknowledge(b) PROVE Holding'
  <2>1. \A a \in Broker : mon'[a].holding = mon[a].holding \/ mon'[a].holding = None
    BY <1>8, <1>t DEF Acknowledge, TypeOK
  <2> QED BY <1>8, <1>1, <2>1 DEF Acknowledge, told
<1>9. ASSUME NEW s \in queue, Cancel(s) \/ Post(s) \/ PostFails(s) PROVE Holding'
  <2>1. UNCHANGED <<dest, mon>>
    BY <1>9, <1>t, PostingType
  <2>2. \A d \in Destination : /\ view'[d].seq >= view[d].seq /\ (dead[d] => dead'[d])
                               /\ view'[d].seq \in Nat /\ view[d].seq \in Nat
    BY <1>9, <1>t, PostingKeeps, TypeStep DEF TypeOK, View
  <2> SUFFICES ASSUME NEW b \in Broker, mon[b].holding # None
               PROVE  Kept(mon[b].holding)'
    BY <1>t, <2>1
  <2>3. CASE mon[b].holding = s
    BY <1>9, <1>t, <2>1, <2>2, <2>3, PostingKeeps
  <2>4. CASE mon[b].holding # s
    <3>1. mon[b].holding \in queue => mon[b].holding \in queue'
      BY <1>9, <1>t, <2>4, PostingType
    <3> QED BY <1>t, <2>1, <2>2, <3>1
  <2> QED BY <2>3, <2>4
<1>10. CASE Tick
  <2>1. \A b \in Broker : mon'[b].holding = mon[b].holding
    BY <1>10, <1>t DEF Tick, TypeOK, Round
  <2> QED BY <1>10, <1>1, <2>1 DEF Tick, told
<1>11. ASSUME NEW b \in Broker, Inspect(b) PROVE Holding'
  <2>1. \A a \in Broker : mon'[a].holding = mon[a].holding \/ mon'[a].holding = None
    BY <1>11, <1>t DEF Inspect, TypeOK, Idle
  <2> QED BY <1>11, <1>1, <2>1 DEF Inspect, told
<1> QED
  BY <1>t, <1>2, <1>3, <1>4, <1>5, <1>6, <1>7, <1>8, <1>9, <1>10, <1>11, Effects

-----------------------------------------------------------------------------
(* What the receivers believe *)

LEMMA HeardType == ASSUME TypeOK, NEW d \in Destination
                   PROVE  \A e \in Heard(d) : e.seq \in Nat
BY DEF TypeOK, Heard, InFlight, Told, Snapshot, View

\* Where every element has a later one that stays, the latest ones stay the latest.
LEMMA Thinned ==
  ASSUME NEW H, NEW K \in SUBSET H, \A e \in H : e.seq \in Nat,
         \A e \in H : \E f \in K : e.seq <= f.seq
  PROVE  Latest(K) \subseteq Latest(H)
<1> SUFFICES ASSUME NEW c \in Latest(K), NEW e \in H PROVE c.seq >= e.seq /\ c \in H
  BY DEF Latest
<1>1. PICK f \in K : e.seq <= f.seq
  OBVIOUS
<1>2. c \in H /\ f.seq <= c.seq /\ f \in H
  BY DEF Latest
<1> QED BY <1>1, <1>2

\* Fewer snapshots, none of them the latest, and the same state.
LEMMA Fewer ==
  ASSUME TypeOK, NEW d \in Destination, Agreed(d), Heard(d)' \subseteq Heard(d),
         \A e \in Heard(d) : \E f \in Heard(d)' : e.seq <= f.seq,
         dead[d] => dead'[d], dest'[d].exists => dest[d].exists,
         \A c : Right(d, c) => Right(d, c)'
  PROVE  Agreed(d)'
<1>1. Latest(Heard(d)') \subseteq Latest(Heard(d))
  BY HeardType, Thinned
<1>2. Latest(Heard(d))' = Latest(Heard(d)')
  BY DEF Latest
<1> QED BY <1>1, <1>2, Zenon DEF Agreed

LEMMA Alike ==
  ASSUME TypeOK, NEW d \in Destination, Agreed(d), Heard(d)' = Heard(d),
         dead[d] => dead'[d], dest'[d].exists => dest[d].exists,
         \A c : Right(d, c) => Right(d, c)'
  PROVE  Agreed(d)'
BY Fewer, HeardType

LEMMA Silent == ASSUME NEW d, Heard(d) = {} PROVE Agreed(d)
BY DEF Agreed, Latest

LEMMA DisabledIsSilent == ASSUME IInv, NEW d \in Destination, ~dest[d].enabled PROVE Heard(d) = {}
BY DEF IInv, DisabledQuiet, Heard

\* A snapshot that is sent is the latest; otherwise nothing changes.
LEMMA WritingHeard ==
  ASSUME IInv, NEW c \in States, NEW ds, Writing(c, ds), NEW d \in Destination
  PROVE  /\ d \notin ds => Heard(d)' = Heard(d)
         /\ d \in ds => Latest(Heard(d)') = {[seq |-> NextSeq, current |-> c]}
<1> DEFINE new == [seq |-> NextSeq, current |-> c]
<1>t. TypeOK
  BY DEF IInv
<1>1. \A s \in Snapshots(ds, c) : s.dest \in ds /\ Told(s) = new /\ s.rev = dest[s.dest].rev
  BY <1>t, Sent DEF Writing, Told
<1>2. /\ outbox' = outbox \cup Snapshots(ds, c) /\ UNCHANGED <<queue, view>>
      /\ dest'[d].rev = dest[d].rev
  BY DEF Writing
<1>3. CASE d \notin ds
  <2>1. InFlight(d)' = InFlight(d)
    BY <1>1, <1>2, <1>3 DEF InFlight
  <2> QED BY <1>2, <1>3, <2>1 DEF Heard
<1>4. CASE d \in ds
  <2>1. \E s \in Snapshots(ds, c) : s.dest = d
    <3> DEFINE s == [dest |-> d, rev |-> dest[d].rev, seq |-> NextSeq, current |-> c]
    <3>1. s \in Snapshots(ds, c)
      BY <1>4 DEF Snapshots
    <3>2. s.dest = d
      OBVIOUS
    <3> QED BY <3>1, <3>2
  <2>2. Heard(d)' = Heard(d) \cup {new}
    <3>1. InFlight(d)' = InFlight(d) \cup {s \in Snapshots(ds, c) : s.dest = d}
      BY <1>1, <1>2 DEF InFlight
    <3> QED BY <1>1, <1>2, <2>1, <3>1 DEF Heard
  <2>3. \A e \in Heard(d) : e.seq < NextSeq
    <3>1. /\ \A s \in InFlight(d) : /\ s.seq \in Nat /\ s \in outbox \cup queue
                                    /\ state # None => s.seq <= state.seq
          /\ view[d].seq \in Nat /\ (state # None => view[d].seq <= state.seq)
          /\ state # None => state.seq \in Nat
      BY <1>t DEF IInv, Stamped, Written, InFlight, TypeOK, Snapshot, View, Known
    <3>2. state = None => InFlight(d) = {} /\ view[d].seq = 0
      BY DEF IInv, Quiet, InFlight
    <3> QED BY <3>1, <3>2 DEF Heard, Told, NextSeq
  <2>4. NextSeq \in Nat /\ \A e \in Heard(d) : e.seq \in Nat
    BY <1>t, NextSeqType, HeardType
  <2>5. new.seq = NextSeq
    OBVIOUS
  <2> HIDE DEF new
  <2>6. Latest(Heard(d)') = {new}
    BY <2>2, <2>3, <2>4, <2>5 DEF Latest
  <2> QED BY <1>4, <2>6 DEF new
<1> QED BY <1>3, <1>4

\* A changed state goes to all recipients, and no fence is lifted without a change.
LEMMA RecordingTells ==
  ASSUME IInv, NEW event, NEW c \in States, NEW age \in 0..MaxDelay, Recording(event, c, age),
         States \subseteq Events
  PROVE  \/ Writing(c, Recipients)
         \/ /\ state # None /\ state.current = c /\ ~state.fence
            /\ \E ds \in SUBSET Recipients : Writing(c, ds)
<1>t. TypeOK
  BY DEF IInv
<1>1. PICK ds \in SUBSET Recipients : Writing(c, ds)
  BY <1>t, RecordingIsWriting
<1>2. CASE state = None \/ state.current # c
  <2>1. c \in Events /\ c # "heartbeat"
    BY DEF States
  <2>2. outbox' = outbox \cup Snapshots(Recipients, c)
    BY <1>2, <2>1 DEF Recording, Observe
  <2> QED BY <1>1, <2>2 DEF Writing
<1>3. CASE state # None /\ state.current = c
  <2>1. ASSUME state.fence PROVE FALSE
    <3>1. c = "unavailable"
      BY <1>3, <2>1 DEF IInv, Fenced
    <3>2. PICK b \in Broker : mon[b].found # None /\ state.observed = mon[b].found
      BY <3>1 DEF Recording
    <3>3. state.observed = Stale + 1 /\ state.observed <= mon[b].age + MaxDelay
      BY <2>1, <3>2 DEF IInv, Found
    <3>4. mon[b].age \in 0..MaxDelay
      BY <1>t DEF TypeOK, Round
    <3> QED BY <3>3, <3>4
  <2> QED BY <1>1, <1>3, <2>1
<1> QED BY <1>2, <1>3

\* What the script writes keeps every receiver right.
LEMMA RecordingAgrees ==
  ASSUME IInv, NEW event, NEW c \in States, NEW age \in 0..MaxDelay, Recording(event, c, age),
         States \subseteq Events, NEW d \in Destination, Agreed(d)
  PROVE  Agreed(d)'
<1>t. TypeOK
  BY DEF IInv
<1>1. /\ dest' = dest /\ dead' = dead
      /\ state'.current = c /\ ~state'.fence
  BY <1>t, RecordingWrites DEF Recording
<1>2. ASSUME NEW ds \in SUBSET Recipients, Writing(c, ds), d \in ds PROVE Agreed(d)'
  <2>1. Latest(Heard(d)') = {[seq |-> NextSeq, current |-> c]}
    BY <1>2, WritingHeard
  <2>2. dest[d].member
    BY <1>2 DEF Recipients
  <2>3. Right(d, c)'
    BY <1>1, <2>2 DEF Right
  <2>4. Latest(Heard(d))' = Latest(Heard(d)')
    BY DEF Latest
  <2>5. \A e \in Latest(Heard(d))' : e.current = c
    BY <2>1, <2>4
  <2> QED BY <2>3, <2>5 DEF Agreed
<1>3. ASSUME NEW ds \in SUBSET Recipients, Writing(c, ds), d \notin ds,
             \A x : Right(d, x) => Right(d, x)'
      PROVE  Agreed(d)'
  <2>1. Heard(d)' = Heard(d)
    BY <1>3, WritingHeard
  <2> QED BY <1>t, <1>1, <1>3, <2>1, Alike
<1>4. CASE Writing(c, Recipients)
  <2>1. CASE d \in Recipients
    BY <1>2, <1>4, <2>1
  <2>2. CASE ~dest[d].exists
    BY <1>1, <2>2 DEF Agreed
  <2>3. CASE ~dest[d].enabled /\ d \notin Recipients
    <3>1. Heard(d)' = {}
      BY <1>4, <2>3, WritingHeard, DisabledIsSilent
    <3> QED BY <3>1 DEF Agreed, Latest
  <2>4. CASE ~dest[d].member /\ d \notin Recipients
    <3>1. \A x : Right(d, x) => Right(d, x)'
      BY <1>1, <2>4 DEF Right
    <3> QED BY <1>3, <1>4, <2>4, <3>1
  <2> QED BY <2>1, <2>2, <2>3, <2>4 DEF Recipients
<1>5. CASE /\ state # None /\ state.current = c /\ ~state.fence
           /\ \E ds \in SUBSET Recipients : Writing(c, ds)
  <2>1. \A x : Right(d, x) => Right(d, x)'
    BY <1>1, <1>5 DEF Right
  <2> QED BY <1>2, <1>3, <1>5, <2>1
<1> QED BY <1>4, <1>5, RecordingTells

LEMMA RegisterAgrees ==
  ASSUME IInv, NEW age \in 0..MaxDelay, Register(age), Configuring,
         NEW d \in Destination, Agreed(d)
  PROVE  Agreed(d)'
<1>t. TypeOK
  BY DEF IInv
<1>1. CASE config
  <2>1. Heard(d)' = Heard(d) /\ UNCHANGED <<state, dest, dead>>
    BY <1>1 DEF Register, Configuring, Heard, InFlight
  <2>2. \A x : Right(d, x) => Right(d, x)'
    BY <2>1 DEF Right
  <2> QED BY <1>t, <2>1, <2>2, Alike
<1>2. CASE ~config /\ state = None
  <2>1. InFlight(d)' = {} /\ view'[d].seq = 0
    BY <1>2 DEF IInv, Quiet, Register, Configuring, InFlight
  <2>2. Heard(d)' = {}
    BY <2>1 DEF Heard
  <2> QED BY <2>2 DEF Agreed, Latest
<1>3. CASE ~config /\ state # None
  <2>1. Writing("unavailable", {}) /\ state'.fence
    BY <1>t, <1>3, RegisterIsWriting
  <2>2. Heard(d)' = Heard(d)
    BY <2>1, WritingHeard DEF States
  <2>3. dest[d].member => dest'[d].member
    BY <1>t, <1>3 DEF Register, TypeOK, Integration
  <2>4. \A x : Right(d, x) => Right(d, x)'
    BY <1>3, <2>1, <2>3 DEF Right
  <2> QED BY <1>t, <2>1, <2>2, <2>4, Alike DEF Writing
<1> QED BY <1>1, <1>2, <1>3

LEMMA RemoveAgrees ==
  ASSUME IInv, NEW age \in 0..MaxDelay, Remove(age), Configuring, "removed" \in Events,
         NEW d \in Destination, Agreed(d)
  PROVE  Agreed(d)'
<1>t. TypeOK
  BY DEF IInv
<1>1. CASE ~config
  <2>1. Heard(d)' = Heard(d) /\ UNCHANGED <<state, dest, dead>>
    BY <1>1 DEF Remove, Configuring, Heard, InFlight
  <2>2. \A x : Right(d, x) => Right(d, x)'
    BY <2>1 DEF Right
  <2> QED BY <1>t, <2>1, <2>2, Alike
<1>2. CASE config
  <2>1. Writing("removed", Recipients) /\ ~dest'[d].member
    BY <1>t, <1>2, RemoveIsWriting
  <2>2. Right(d, "removed")'
    BY <2>1 DEF Right
  <2>3. CASE d \in Recipients
    <3>1. Latest(Heard(d)') = {[seq |-> NextSeq, current |-> "removed"]}
      BY <2>1, <2>3, WritingHeard DEF States
    <3>2. Latest(Heard(d))' = Latest(Heard(d)')
      BY DEF Latest
    <3>3. \A e \in Latest(Heard(d))' : e.current = "removed"
      BY <3>1, <3>2
    <3> QED BY <2>2, <3>3 DEF Agreed
  <2>4. CASE d \notin Recipients
    <3>1. Heard(d)' = Heard(d)
      BY <2>1, <2>4, WritingHeard DEF States
    <3>2. CASE ~dest[d].exists
      BY <2>1, <3>2 DEF Agreed, Writing
    <3>3. CASE ~dest[d].enabled
      BY <3>1, <3>3, DisabledIsSilent DEF Agreed, Latest
    <3>4. CASE ~dest[d].member
      <4>1. \A x : Right(d, x) => Right(d, x)'
        BY <2>1, <3>4 DEF Right
      <4> QED BY <1>t, <2>1, <3>1, <4>1, Alike DEF Writing
    <3> QED BY <2>4, <3>2, <3>3, <3>4 DEF Recipients
  <2> QED BY <2>3, <2>4
<1> QED BY <1>1, <1>2

\* A saved destination starts anew; what is in flight has an older revision.
LEMMA SaveEditAgrees ==
  ASSUME IInv, SaveEdit, NEW d \in Destination, Agreed(d)
  PROVE  Agreed(d)'
<1>t. /\ TypeOK /\ \A s \in outbox \cup queue : s.rev \in Nat /\ s.rev <= dest[s.dest].rev
      /\ dest[d].rev \in Nat
  BY DEF IInv, TypeOK, Stamped, Written, Snapshot, Integration
<1>1. PICK e \in Destination :
        /\ dest'[e].rev = dest[e].rev + 1 /\ view'[e] = NoView
        /\ \A f \in Destination \ {e} : /\ dest'[f] = dest[f] /\ view'[f] = view[f]
                                        /\ dead'[f] = dead[f]
  BY <1>t, SavedType
<1>2. UNCHANGED <<outbox, queue, state>>
  BY DEF SaveEdit
<1>3. CASE d = e
  <2>1. InFlight(d)' = {}
    BY <1>t, <1>1, <1>2, <1>3 DEF InFlight
  <2>2. Heard(d)' = {}
    BY <1>1, <1>3, <2>1 DEF Heard, NoView
  <2> QED BY <2>2 DEF Agreed, Latest
<1>4. CASE d # e
  <2>1. Heard(d)' = Heard(d)
    BY <1>1, <1>2, <1>4 DEF Heard, InFlight
  <2>2. \A x : Right(d, x) => Right(d, x)'
    BY <1>1, <1>2, <1>4 DEF Right
  <2> QED BY <1>t, <1>1, <1>4, <2>1, <2>2, Alike
<1> QED BY <1>3, <1>4

\* A snapshot that is no longer addressed, or not newer than what was applied, can go.
LEMMA DroppedAgrees ==
  ASSUME IInv, NEW s \in outbox \cup queue, NEW d \in Destination, Agreed(d),
         UNCHANGED <<state, dest, view>>, dead[d] => dead'[d],
         outbox' \cup queue' \subseteq outbox \cup queue,
         (outbox \cup queue) \ {s} \subseteq outbox' \cup queue',
         s.dest = d => ~Addressed(s) \/ view[d].seq >= s.seq
  PROVE  Agreed(d)'
<1>t. TypeOK
  BY DEF IInv
<1>1. /\ s.seq \in Nat \ {0} /\ view[d].seq \in Nat
      /\ \A x : Right(d, x) => Right(d, x)'
      /\ InFlight(d)' \subseteq InFlight(d) /\ InFlight(d) \subseteq InFlight(d)' \cup {s}
  BY <1>t DEF IInv, Stamped, Written, TypeOK, Snapshot, View, Right, InFlight
<1>2. Heard(d)' \subseteq Heard(d) /\ \A x \in InFlight(d) \ {s} : Told(x) \in Heard(d)'
  BY <1>1 DEF Heard, Told
<1>3. CASE s \notin InFlight(d)
  <2>1. Heard(d)' = Heard(d)
    BY <1>1, <1>3 DEF Heard
  <2> QED BY <1>t, <1>1, <2>1, Alike
<1>4. CASE s \in InFlight(d) /\ ~dest[d].exists
  BY <1>4 DEF Agreed
<1>5. CASE s \in InFlight(d) /\ ~dest[d].enabled
  <2>1. Heard(d)' = {}
    BY <1>2, <1>5, DisabledIsSilent
  <2> QED BY <2>1 DEF Agreed, Latest
<1>6. CASE s \in InFlight(d) /\ view[d].seq >= s.seq
  <2>1. view[d] \in Heard(d)'
    BY <1>1, <1>6 DEF Heard
  <2>2. \A e \in Heard(d) : \E f \in Heard(d)' : e.seq <= f.seq
    <3> SUFFICES ASSUME NEW e \in Heard(d) PROVE \E f \in Heard(d)' : e.seq <= f.seq
      OBVIOUS
    <3>1. e.seq \in Nat
      BY <1>t, HeardType
    <3>2. e = view[d] \/ \E x \in InFlight(d) : e = Told(x)
      BY DEF Heard
    <3>3. CASE e = Told(s)
      BY <1>6, <2>1, <3>3 DEF Told
    <3>4. CASE e = view[d]
      BY <2>1, <3>1, <3>4
    <3>5. CASE \E x \in InFlight(d) \ {s} : e = Told(x)
      BY <1>2, <3>1, <3>5
    <3> QED BY <3>2, <3>3, <3>4, <3>5
  <2> QED BY <1>t, <1>1, <1>2, <2>2, Fewer
<1> QED BY <1>3, <1>4, <1>5, <1>6 DEF Addressed, InFlight

\* A receiver that applies a snapshot knows what it was about to know.
LEMMA PostedAgrees ==
  ASSUME IInv, NEW s \in queue, NEW d \in Destination, Agreed(d),
         UNCHANGED <<state, dest, outbox>>, dead[d] => dead'[d],
         queue' = queue \/ queue' = queue \ {s},
         Addressed(s), s.seq > view[s.dest].seq,
         view' = [view EXCEPT ![s.dest] = [seq |-> s.seq, current |-> s.current]]
  PROVE  Agreed(d)'
<1>t. /\ TypeOK /\ s.dest \in Destination /\ s.seq \in Nat \ {0} /\ view[d].seq \in Nat
      /\ \A x : Right(d, x) => Right(d, x)'
  BY DEF IInv, Stamped, Written, TypeOK, Snapshot, View, Right
<1>1. CASE s.dest # d
  <2>1. view'[d] = view[d] /\ InFlight(d)' = InFlight(d)
    BY <1>t, <1>1 DEF InFlight, TypeOK
  <2>2. Heard(d)' = Heard(d)
    BY <2>1 DEF Heard
  <2> QED BY <1>t, <2>2, Alike
<1>2. CASE s.dest = d
  <2>1. view'[d] = Told(s) /\ Told(s).seq = s.seq
    BY <1>t, <1>2 DEF Told, TypeOK
  <2>2. s \in InFlight(d) /\ InFlight(d)' \subseteq InFlight(d) /\ InFlight(d) \subseteq InFlight(d)' \cup {s}
    BY <1>2 DEF InFlight, Addressed
  <2>3. Told(s) \in Heard(d)' /\ Told(s) \in Heard(d)
    BY <1>t, <2>1, <2>2 DEF Heard
  <2>4. Heard(d)' \subseteq Heard(d)
    BY <2>1, <2>2, <2>3 DEF Heard, Told
  <2>5. \A e \in Heard(d) : \E f \in Heard(d)' : e.seq <= f.seq
    <3> SUFFICES ASSUME NEW e \in Heard(d) PROVE \E f \in Heard(d)' : e.seq <= f.seq
      OBVIOUS
    <3>1. e.seq \in Nat
      BY <1>t, HeardType
    <3>2. e = view[d] \/ \E x \in InFlight(d) : e = Told(x)
      BY DEF Heard
    <3>3. CASE e = view[d]
      BY <1>t, <1>2, <2>1, <2>3, <3>3
    <3>4. CASE \E x \in InFlight(d) : e = Told(x)
      <4>1. e \in Heard(d)' \/ e = Told(s)
        BY <2>2, <3>4 DEF Heard, Told
      <4> QED BY <2>3, <3>1, <4>1
    <3> QED BY <3>2, <3>3, <3>4
  <2> QED BY <1>t, <2>4, <2>5, Fewer
<1> QED BY <1>1, <1>2

LEMMA AgreedStep == ASSUME IInv, [Next]_vars PROVE AllAgreed'
<1> SUFFICES ASSUME States \subseteq Events, NEW d \in Destination, Agreed(d) PROVE Agreed(d)'
  BY DEF IInv, AllAgreed
<1>t. TypeOK
  BY DEF IInv
<1>r. ASSUME UNCHANGED <<state, dest>> PROVE \A x : Right(d, x) => Right(d, x)'
  BY <1>r DEF Right
<1>1. CASE Aside
  <2>1. Heard(d)' = Heard(d)
    BY <1>1 DEF Aside, Heard, InFlight
  <2> QED BY <1>t, <1>r, <1>1, <2>1, Alike DEF Aside
<1>2. ASSUME NEW b \in Broker, Inspect(b) PROVE Agreed(d)'
  BY <1>1, <1>2 DEF Inspect, Aside, told
<1>3. ASSUME NEW event, NEW c \in States, NEW age \in 0..MaxDelay, Recording(event, c, age)
      PROVE  Agreed(d)'
  BY <1>3, RecordingAgrees
<1>4. ASSUME NEW age \in 0..MaxDelay, Register(age) \/ Remove(age), Configuring PROVE Agreed(d)'
  BY <1>4, RegisterAgrees, RemoveAgrees DEF States
<1>5. CASE SaveEdit
  BY <1>5, SaveEditAgrees
<1>6. ASSUME NEW e \in Destination, Delete(e) PROVE Agreed(d)'
  <2>1. dest' = [dest EXCEPT ![e].exists = FALSE]
        /\ UNCHANGED <<state, outbox, queue, view, dead>>
    BY <1>6 DEF Delete, told
  <2>2. CASE e = d
    BY <1>t, <2>1, <2>2 DEF Agreed, TypeOK, Integration
  <2>3. CASE e # d
    <3>1. dest'[d] = dest[d]
      BY <1>t, <2>1, <2>3 DEF TypeOK
    <3>2. Heard(d)' = Heard(d) /\ \A x : Right(d, x) => Right(d, x)'
      BY <2>1, <3>1 DEF Heard, InFlight, Right
    <3> QED BY <1>t, <2>1, <3>1, <3>2, Alike
  <2> QED BY <2>2, <2>3
<1>7. ASSUME NEW b \in Broker, NEW s \in outbox, Publish(b, s) PROVE Agreed(d)'
  <2>1. Heard(d)' = Heard(d)
    BY <1>7 DEF Publish, Heard, InFlight
  <2> QED BY <1>t, <1>r, <1>7, <2>1, Alike DEF Publish
<1>8. ASSUME NEW b \in Broker, Acknowledge(b) PROVE Agreed(d)'
  <2> DEFINE s == mon[b].holding
  <2>1. outbox' = outbox \ {s} /\ UNCHANGED <<state, dest, queue, view, dead>> /\ s # None
    BY <1>8 DEF Acknowledge, told
  <2>2. Kept(s)
    BY <2>1 DEF IInv, Holding
  <2>3. CASE s \in queue \/ s \notin outbox
    <3>1. Heard(d)' = Heard(d)
      BY <2>1, <2>3 DEF Heard, InFlight
    <3> QED BY <1>t, <1>r, <2>1, <3>1, Alike
  <2>4. CASE s \notin queue /\ s \in outbox /\ ~(s.dest = d /\ dead[d])
    BY <2>1, <2>2, <2>4, DroppedAgrees DEF Kept
  <2>5. CASE s.dest = d /\ dead[d]
    BY <2>1, <2>5 DEF Agreed
  <2> QED BY <2>3, <2>4, <2>5
<1>9. ASSUME NEW s \in queue, Cancel(s) \/ Post(s) \/ PostFails(s) PROVE Agreed(d)'
  <2>1. /\ UNCHANGED <<state, dest, outbox>>
        /\ queue' = queue \/ queue' = queue \ {s}
        /\ dead[d] => dead'[d]
    BY <1>9, <1>t, PostingType, PostingKeeps
  <2>2. CASE view' = view
    <3>1. CASE queue' = queue
      <4>1. Heard(d)' = Heard(d)
        BY <2>1, <2>2, <3>1 DEF Heard, InFlight
      <4> QED BY <1>t, <1>r, <2>1, <4>1, Alike
    <3>2. CASE queue' # queue /\ dead'[d]
      BY <3>2 DEF Agreed
    <3>3. CASE queue' # queue /\ ~dead'[d]
      <4>1. s.dest = d => ~Addressed(s) \/ view[d].seq >= s.seq
        BY <1>9, <1>t, <2>2, <3>3, PostingKeeps
      <4> QED BY <2>1, <2>2, <4>1, DroppedAgrees
    <3> QED BY <3>1, <3>2, <3>3
  <2>3. CASE view' # view
    BY <1>9, <1>t, <2>1, <2>3, PostingType, PostedAgrees
  <2> QED BY <2>2, <2>3
<1>10. CASE Tick
  <2>1. UNCHANGED <<dest, outbox, queue, view, dead>>
    BY <1>10 DEF Tick, told
  <2>2. Heard(d)' = Heard(d)
    BY <2>1 DEF Heard, InFlight
  <2>3. CASE state = None
    <3>1. Heard(d)' = {}
      BY <2>2, <2>3 DEF IInv, Quiet, Heard, InFlight
    <3> QED BY <3>1 DEF Agreed, Latest
  <2>4. CASE state # None
    <3>1. state'.fence = state.fence /\ state'.current = state.current
      BY <1>10, <1>t, <2>4 DEF Tick, TypeOK, Known
    <3>2. \A x : Right(d, x) => Right(d, x)'
      BY <2>1, <3>1 DEF Right
    <3> QED BY <1>t, <2>1, <2>2, <3>2, Alike
  <2> QED BY <2>3, <2>4
<1> QED
  BY <1>t, <1>1, <1>2, <1>3, <1>4, <1>5, <1>6, <1>7, <1>8, <1>9, <1>10, Effects

-----------------------------------------------------------------------------
LEMMA InitIInv == Init => IInv
<1> SUFFICES ASSUME Init PROVE IInv
  OBVIOUS
<1>1. /\ config = TRUE /\ state = None /\ outbox = {} /\ queue = {} /\ left = Budget
      /\ editing = None /\ obs = [o \in Observer |-> New] /\ mon = [b \in Broker |-> Idle]
      /\ view = [d \in Destination |-> NoView] /\ dead = [d \in Destination |-> FALSE]
  BY DEF Init
<1>2. New \in Watch /\ Idle \in Round /\ NoView \in View /\ NoView.seq = 0
      /\ Idle.found = None /\ Idle.holding = None
  BY DEF New, Watch, Idle, Round, NoView, View, States
<1>3. dest \in [Destination -> Integration]
  <2>1. Unused \in Integration
    BY DEF Unused, Integration
  <2>2. ASSUME NEW auto \in BOOLEAN
        PROVE  [exists |-> TRUE, rev |-> 1, enabled |-> TRUE, auto |-> auto, member |-> TRUE]
                 \in Integration
    BY DEF Integration
  <2> QED BY <2>1, <2>2, Zenon DEF Init
<1>4. TypeOK
  BY <1>1, <1>2, <1>3 DEF TypeOK
<1>5. \A d \in Destination : Heard(d) = {} /\ InFlight(d) = {}
  BY <1>1, <1>2 DEF Heard, InFlight
<1>6. RemovedIffGone /\ Fenced /\ Quiet /\ Stamped /\ Found /\ Holding
  BY <1>1, <1>2 DEF RemovedIffGone, Fenced, Quiet, Stamped, Found, Holding
<1>7. DisabledQuiet /\ AllAgreed
  BY <1>1, <1>2, <1>5 DEF DisabledQuiet, AllAgreed, Agreed, Latest
<1> QED BY <1>4, <1>6, <1>7 DEF IInv

LEMMA StepIInv == IInv /\ [Next]_vars => IInv'
<1> SUFFICES ASSUME IInv, [Next]_vars PROVE IInv'
  OBVIOUS
<1>1. TypeOK'
  BY TypeStep DEF IInv
<1> QED
  BY <1>1, StateStep, FoundStep, StampedStep, QuietStep, DisabledQuietStep, HoldingStep,
     AgreedStep DEF IInv

LEMMA Invariant == Spec => []IInv
BY InitIInv, StepIInv, PTL DEF Spec

\* Every state of the script, the observers, the brokers and the consumer is well typed.
THEOREM Typed == Spec => []TypeOK
<1>1. IInv => TypeOK
  BY DEF IInv
<1> QED BY <1>1, Invariant, PTL

\* A session is listed as removed exactly as long as it has no configuration
\* (session_webhook_store.ts:12-14), whatever callbacks and commands come late.
THEOREM RemovedForGood == Spec => []RemovedIffGone
<1>1. IInv => RemovedIffGone
  BY DEF IInv
<1> QED BY <1>1, Invariant, PTL

\* The monitor raises no false alarm, for any number of brokers and any delay of their
\* commands that two of them fit into the 120 s (jobs/session_webhooks.ts:49-54).
THEOREM AlarmsAreTrue == Spec => NoFalseAlarm
<1>1. ASSUME IInv, [Next]_vars, state # None, state' # None, state.current = "connected",
             state'.current = "unavailable"
      PROVE  state.observed > Stale
  <2>t. TypeOK
    BY <1>1 DEF IInv
  <2>1. state' # state
    BY <1>1
  <2>2. ASSUME NEW event, NEW c \in States, NEW age \in 0..MaxDelay, Recording(event, c, age)
        PROVE  state.observed > Stale
    <3>1. c = "unavailable"
      BY <1>1, <2>t, <2>2, RecordingWrites
    <3>2. PICK b \in Broker : mon[b].found # None /\ state.observed = mon[b].found
      BY <2>2, <3>1 DEF Recording
    <3> QED BY <1>1, <3>2 DEF IInv, Found
  <2>3. ASSUME NEW age \in 0..MaxDelay, Register(age) PROVE state.observed > Stale
    BY <1>1, <2>1, <2>3 DEF Register, IInv, RemovedIffGone
  <2>4. ASSUME NEW age \in 0..MaxDelay, Remove(age) PROVE state.observed > Stale
    BY <1>1, <2>1, <2>4 DEF Remove
  <2>5. ASSUME Tick PROVE state.observed > Stale
    BY <1>1, <2>t, <2>5 DEF Tick, TypeOK, Known
  <2>6. ASSUME NEW s \in queue, Cancel(s) \/ Post(s) \/ PostFails(s) PROVE state.observed > Stale
    BY <2>t, <2>1, <2>6, PostingType
  <2> QED
    BY <1>1, <2>t, <2>1, <2>2, <2>3, <2>4, <2>5, <2>6, Effects DEF Aside, Inspect, SaveEdit,
       Delete, Publish, Acknowledge
<1>2. IInv /\ [Next]_vars =>
        [state # None /\ state' # None /\ state.current = "connected"
           /\ state'.current = "unavailable" => state.observed > Stale]_vars
  BY <1>1
<1> QED BY <1>2, Invariant, PTL DEF Spec, NoFalseAlarm

\* What a receiver believes, once nothing is on its way to it, is what is stored, or the
\* removal that ended its membership: snapshots are repeated, reordered and
\* dropped, but never the last one that counts (SESSION_WEBHOOKS.md:126-138).
THEOREM ReceiversAgree == Spec => []ReceiverAgrees
<1>1. ASSUME IInv PROVE ReceiverAgrees
  <2> SUFFICES ASSUME NEW d \in Destination, dest[d].exists, view[d].seq > 0, InFlight(d) = {},
                      ~dead[d], States \subseteq Events
               PROVE  Right(d, view[d].current)
    BY DEF ReceiverAgrees, Right
  <2>1. Heard(d) = {view[d]} /\ view[d].seq \in Nat
    BY <1>1 DEF Heard, IInv, TypeOK, View
  <2>2. view[d] \in Latest(Heard(d))
    BY <2>1 DEF Latest
  <2> QED BY <1>1, <2>2 DEF IInv, AllAgreed, Agreed
<1> QED BY <1>1, Invariant, PTL
=============================================================================
