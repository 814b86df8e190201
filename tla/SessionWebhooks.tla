--------------------------- MODULE SessionWebhooks ---------------------------
(* services/session_webhook_store.ts, session_lifecycle_observer.ts,         *)
(* jobs/session_webhooks.ts and session_webhooks_controller.ts: what the     *)
(* destinations are told of ONE session. The observers of the ClientZapo     *)
(* objects, the administration and the monitors of the brokers send commands *)
(* that one Lua script executes; the script writes the state and, for each   *)
(* destination, a snapshot to the outbox; a broker publishes it and deletes  *)
(* it, a consumer POSTs it. Times are ages, counted from the stamp an event  *)
(* was given; all clocks agree. There is one server, and the configuration   *)
(* never expires.                                                            *)
EXTENDS Naturals, Sequences, FiniteSets

CONSTANTS Destination,  \* the ids of destinations
          Observer,     \* the SessionLifecycleObserver of each ClientZapo
          Broker,       \* processes that run the tick
          None,
          Events,       \* the event names every destination accepts
          Stale,        \* 120 s without an observation, in ticks
          MaxDelay,     \* bound: age at which a stamped command has been executed
          MaxPending,   \* bound: events waiting in one observer
          Kinds,        \* the kinds of occurrence explored
          Budget        \* bound: occurrences of one behaviour

AllKinds == {"socket", "beat",                                  \* what observers see
             "admin",                                           \* requests
             "persist", "post", "crash"}            \* failures
States == {"connected", "disconnected", "unlinked", "removed", "unavailable"}

VARIABLES config,       \* the session has a configuration
          state,        \* the hash `states`: what is known of the session
          dest,         \* the hash `destinations`
          outbox,       \* the hash `outbox`
          queue,        \* the snapshots in <prefix>.session.events
          obs,          \* the observers
          editing,      \* a PUT or POST between its checks and its save
          mon,          \* the tick of each broker
          view,         \* what the receiver of each destination has applied
          dead,         \* history: a snapshot of the revision was dead-lettered
          left          \* occurrences left

vars == <<config, state, dest, outbox, queue, obs, editing, mon, view, dead, left>>

Age == 0..(Stale + 1)                           \* older ages are not told apart
Event == [name : {"connected", "disconnected", "unlinked", "heartbeat"},
          age : 0..MaxDelay]
Snapshot == [dest : Destination, rev : Nat, seq : Nat, current : States]
Known == [current : States, seq : Nat, occurred : 0..MaxDelay, observed : Age, fence : BOOLEAN]
Edit == [dest : Destination, member : BOOLEAN]
Integration == [exists : BOOLEAN, rev : Nat, enabled : BOOLEAN, auto : BOOLEAN, member : BOOLEAN]
Watch == [up : BOOLEAN, unlinked : BOOLEAN, pending : Seq(Event)]
Round == [found : Age \cup {None}, age : 0..MaxDelay, holding : Snapshot \cup {None}]
View == [seq : Nat, current : States]

ASSUME WebhooksAssumption == /\ {Stale, MaxDelay, MaxPending} \subseteq Nat \ {0}
                             /\ Stale >= 2 * MaxDelay
                             /\ Budget \in Nat
                             /\ Events \subseteq States \cup {"heartbeat"}
                             /\ Kinds \subseteq AllKinds
                             /\ None \notin Age \cup Snapshot \cup Known \cup Edit

\* The types of the state; every command still on its way is younger than MaxDelay or
\* as old.
TypeOK ==
  /\ config \in BOOLEAN
  /\ state \in Known \cup {None}
  /\ dest \in [Destination -> Integration]
  /\ outbox \subseteq Snapshot /\ queue \subseteq Snapshot
  /\ obs \in [Observer -> Watch]
  /\ editing \in Edit \cup {None}
  /\ mon \in [Broker -> Round]
  /\ view \in [Destination -> View]
  /\ dead \in [Destination -> BOOLEAN]
  /\ left \in 0..Budget

Unused == [exists |-> FALSE, rev |-> 0, enabled |-> FALSE, auto |-> FALSE, member |-> FALSE]
NoView == [seq |-> 0, current |-> "removed"]
Idle == [found |-> None, age |-> 0, holding |-> None]
New == [up |-> FALSE, unlinked |-> FALSE, pending |-> <<>>]

\* A configured session nobody has observed yet; each destination was created before,
\* or not.
Init == /\ config = TRUE /\ state = None
        /\ dest \in [Destination -> {Unused} \cup
                       {[exists |-> TRUE, rev |-> 1, enabled |-> TRUE, auto |-> auto,
                         member |-> TRUE] : auto \in BOOLEAN}]
        /\ outbox = {} /\ queue = {}
        /\ obs = [o \in Observer |-> New]
        /\ editing = None
        /\ mon = [b \in Broker |-> Idle]
        /\ view = [d \in Destination |-> NoView]
        /\ dead = [d \in Destination |-> FALSE]
        /\ left = Budget

Spend(kind) == kind \in Kinds /\ left > 0 /\ left' = left - 1
Calm == UNCHANGED left

told == <<queue, view, dead>>

-----------------------------------------------------------------------------
(* SESSION_EVENT_LUA *)

NextSeq == IF state = None THEN 1 ELSE state.seq + 1

\* The event is older than what is known.
Outdated(age) == state # None /\ (age > state.observed \/ age > state.occurred)

Recipients == {d \in Destination : dest[d].exists /\ dest[d].enabled /\ dest[d].member}

Snapshots(ds, current) ==
  {[dest |-> d, rev |-> dest[d].rev, seq |-> NextSeq, current |-> current] : d \in ds}

\* `observe`: nothing without a configuration, and nothing outdated. A heartbeat
\* of a session not known as connected is a connection; otherwise it is sent where
\* its interval is over.
Observe(event, current, age) ==
  LET changed == state = None \/ state.current # current
      name == IF changed THEN current ELSE event
  IN /\ state' = [current |-> current, seq |-> NextSeq, occurred |-> age, fence |-> FALSE,
                  observed |-> IF name = "unavailable" /\ state # None
                               THEN state.observed ELSE age]
     /\ \E due \in SUBSET Recipients :
          outbox' = outbox \cup
            Snapshots(IF name \notin Events THEN {}
                      ELSE IF name = "heartbeat" THEN due
                      ELSE IF changed THEN Recipients ELSE {}, current)

\* Mutant: a callback does not need a configuration.
RecordAnyway(event, current, age) ==
  IF ~Outdated(age) THEN Observe(event, current, age) ELSE UNCHANGED <<state, outbox>>

Record(event, current, age) ==
  IF config /\ ~Outdated(age) THEN Observe(event, current, age)
  ELSE UNCHANGED <<state, outbox>>

\* `save_config` of a new session: automatic membership, and a state that fences
\* the callbacks of an earlier incarnation.
Register(age) ==
  IF config THEN UNCHANGED <<config, state, dest, outbox>>
  ELSE /\ config' = TRUE
       /\ dest' = [d \in Destination |->
                     [dest[d] EXCEPT !.member = @ \/ (dest[d].exists /\ dest[d].auto)]]
       /\ state' = IF state = None THEN None
                   ELSE [current |-> "unavailable", seq |-> NextSeq, occurred |-> age,
                         observed |-> age, fence |-> TRUE]
       /\ UNCHANGED outbox

\* `remove`: the removed event goes to the members, who then are none.
Remove(age) ==
  IF ~config THEN UNCHANGED <<config, state, dest, outbox>>
  ELSE /\ config' = FALSE
       /\ state' = [current |-> "removed", seq |-> NextSeq, occurred |-> age,
                    observed |-> age, fence |-> FALSE]
       /\ outbox' = outbox \cup Snapshots(IF "removed" \in Events THEN Recipients ELSE {},
                                          "removed")
       /\ dest' = [d \in Destination |-> [dest[d] EXCEPT !.member = FALSE]]

-----------------------------------------------------------------------------
(* SessionLifecycleObserver *)

\* observe(): the heartbeats stop; after an unlinking nothing but another unlinking
\* or a connection is recorded.
Observed(o, name, isUp) ==
  /\ Len(obs[o].pending) < MaxPending
  /\ obs' = [obs EXCEPT ![o] =
       IF name = "disconnected" /\ @.unlinked THEN [@ EXCEPT !.up = isUp]
       ELSE [up |-> isUp, unlinked |-> name = "unlinked",
             pending |-> Append(@.pending, [name |-> name, age |-> 0])]]

\* The socket opens: only one object serves the session (see ZapoSession).
Connected(o) ==
  /\ \A p \in Observer : ~obs[p].up
  /\ Spend("socket") /\ Observed(o, "connected", TRUE)
  /\ UNCHANGED <<config, state, dest, outbox, mon, editing, told>>

\* A close event, a failed connection or a disconnect.
Closed(o, isLogout) ==
  /\ isLogout => obs[o].up
  /\ Spend("socket") /\ Observed(o, IF isLogout THEN "unlinked" ELSE "disconnected", FALSE)
  /\ UNCHANGED <<config, state, dest, outbox, mon, editing, told>>

\* The interval of 30 s, unless its previous heartbeat is pending.
Beat(o) ==
  /\ obs[o].up /\ Len(obs[o].pending) < MaxPending
  /\ \A i \in 1..Len(obs[o].pending) : obs[o].pending[i].name # "heartbeat"
  /\ Spend("beat")
  /\ obs' = [obs EXCEPT ![o].pending = Append(@, [name |-> "heartbeat", age |-> 0])]
  /\ UNCHANGED <<config, state, dest, outbox, mon, editing, told>>

\* The lease is lost: the socket is closed without an observation.
Lost(o) ==
  /\ obs[o].up /\ Spend("socket")
  /\ obs' = [obs EXCEPT ![o].up = FALSE]
  /\ UNCHANGED <<config, state, dest, outbox, mon, editing, told>>

Persisted(o) == obs' = [obs EXCEPT ![o].pending = Tail(@)]

\* The chain executes its events one after the other.
Persist(o) ==
  /\ obs[o].pending # <<>> /\ Calm
  /\ LET e == Head(obs[o].pending)
     IN Record(e.name, IF e.name = "heartbeat" THEN "connected" ELSE e.name, e.age)
  /\ Persisted(o)
  /\ UNCHANGED <<config, dest, mon, editing, told>>

\* Redis rejects the command: the error is swallowed and the event is lost.
PersistFails(o) ==
  /\ obs[o].pending # <<>> /\ Spend("persist")
  /\ Persisted(o)
  /\ UNCHANGED <<config, state, dest, outbox, mon, editing, told>>

WorkerDies(o) ==
  /\ obs[o] # New /\ Spend("crash")
  /\ obs' = [obs EXCEPT ![o] = New]
  /\ UNCHANGED <<config, state, dest, outbox, mon, editing, told>>

-----------------------------------------------------------------------------
(* Administration *)

\* setConfig or delConfig, which stamped its command a while ago.
Administer(register, age) ==
  /\ Spend("admin")
  /\ IF register THEN Register(age) ELSE Remove(age)
  /\ UNCHANGED <<obs, mon, editing, told>>

\* PUT and POST check that the destination exists, and every member session.
BeginEdit(d, member) ==
  /\ editing = None /\ Spend("admin")
  /\ dest[d].exists \/ dest[d].rev = 0
  /\ member => config
  /\ editing' = [dest |-> d, member |-> member]
  /\ UNCHANGED <<config, state, dest, outbox, obs, mon, told>>

\* ... and save the whole destination under a new revision. It is a new integration
\* as far as its receiver is concerned.
SaveEdit ==
  /\ editing # None /\ Calm
  /\ LET d == editing.dest
     IN /\ \E enabled, auto \in BOOLEAN :
             dest' = [dest EXCEPT ![d] = [exists |-> TRUE, rev |-> @.rev + 1,
                        enabled |-> enabled, auto |-> auto, member |-> editing.member]]
        /\ view' = [view EXCEPT ![d] = NoView]
        /\ dead' = [dead EXCEPT ![d] = FALSE]
  /\ editing' = None
  /\ UNCHANGED <<config, state, outbox, queue, obs, mon>>

Delete(d) ==
  /\ dest[d].exists /\ Spend("admin")
  /\ dest' = [dest EXCEPT ![d].exists = FALSE]
  /\ UNCHANGED <<config, state, outbox, obs, mon, editing, told>>

-----------------------------------------------------------------------------
(* SessionWebhooksJob.tick *)

\* states(): a connected session without a recent observation is found.
Inspect(b) ==
  /\ mon[b] = Idle /\ Calm
  /\ state # None /\ state.current = "connected" /\ state.observed > Stale
  /\ mon' = [mon EXCEPT ![b] = [Idle EXCEPT !.found = state.observed]]
  /\ UNCHANGED <<config, state, dest, outbox, obs, editing, told>>

\* Mutant: the monitor does not pass the observation it has read.
DeclareBlindly(b) ==
  /\ mon[b].found # None /\ Calm
  /\ Record("unavailable", "unavailable", mon[b].age)
  /\ mon' = [mon EXCEPT ![b] = Idle]
  /\ UNCHANGED <<config, dest, obs, editing, told>>

\* record(): it is unavailable, unless it was observed since.
Declare(b) ==
  /\ mon[b].found # None /\ Calm
  /\ IF state.observed = mon[b].found
     THEN Record("unavailable", "unavailable", mon[b].age)
     ELSE UNCHANGED <<state, outbox>>
  /\ mon' = [mon EXCEPT ![b] = Idle]
  /\ UNCHANGED <<config, dest, obs, editing, told>>

\* A snapshot of the page is published and confirmed, ...
Publish(b, s) ==
  /\ mon[b] = Idle /\ s \in outbox /\ Calm
  /\ queue' = queue \cup {s}
  /\ mon' = [mon EXCEPT ![b].holding = s]
  /\ UNCHANGED <<config, state, dest, outbox, obs, editing, view, dead>>

\* ... and then deleted from the outbox.
Acknowledge(b) ==
  /\ mon[b].holding # None /\ Calm
  /\ outbox' = outbox \ {mon[b].holding}
  /\ mon' = [mon EXCEPT ![b] = Idle]
  /\ UNCHANGED <<config, state, dest, obs, editing, told>>

\* The process dies, or a command or the publication fails, stored or not: the tick
\* is over and the next one starts anew.
TickEnds(b) ==
  /\ mon[b] # Idle /\ Spend("crash")
  /\ mon' = [mon EXCEPT ![b] = Idle]
  /\ UNCHANGED <<config, state, dest, outbox, obs, editing, told>>

-----------------------------------------------------------------------------
(* SessionWebhooksJob.consume, called by amqpConsume (see AmqpDelivery) *)

\* The receiver applies what is newer than what it has applied.
Applied(s) ==
  view' = IF s.seq > view[s.dest].seq
          THEN [view EXCEPT ![s.dest] = [seq |-> s.seq, current |-> s.current]] ELSE view

\* Mutant: an old snapshot goes to whatever the destination has become.
AddressedLoosely(s) == dest[s.dest].exists /\ dest[s.dest].enabled

Addressed(s) == dest[s.dest].exists /\ dest[s.dest].enabled /\ dest[s.dest].rev = s.rev

\* A snapshot of another revision is dropped.
Cancel(s) ==
  /\ s \in queue /\ ~Addressed(s) /\ Calm
  /\ queue' = queue \ {s}
  /\ UNCHANGED <<config, state, dest, outbox, obs, mon, editing, view, dead>>

\* The POST is answered 2xx and the message is acked. An edit during the POST
\* changes nothing: it went to the URL that was read.
Post(s) ==
  /\ s \in queue /\ Addressed(s) /\ Calm
  /\ Applied(s)
  /\ queue' = queue \ {s}
  /\ UNCHANGED <<config, state, dest, outbox, obs, mon, editing, dead>>

\* It fails, or the consumer dies before the ack, although it may have arrived: the
\* queue delivers the message again, or buries it.
PostFails(s) ==
  /\ s \in queue /\ Addressed(s) /\ Spend("post")
  /\ UNCHANGED view \/ Applied(s)
  /\ \/ UNCHANGED <<queue, dead>>
     \/ queue' = queue \ {s} /\ dead' = [dead EXCEPT ![s.dest] = TRUE]
  /\ UNCHANGED <<config, state, dest, outbox, obs, mon, editing>>

-----------------------------------------------------------------------------
Grown(age, limit) == IF age < limit THEN age + 1 ELSE age

Older(e) == [e EXCEPT !.age = @ + 1]

\* One unit of time; no stamped command stays on its way longer than MaxDelay.
Tick ==
  /\ \A o \in Observer : \A i \in 1..Len(obs[o].pending) : obs[o].pending[i].age < MaxDelay
  /\ \A b \in Broker : mon[b].found # None => mon[b].age < MaxDelay
  /\ state' = IF state = None THEN None
              ELSE [state EXCEPT !.occurred = Grown(@, MaxDelay),
                                         !.observed = Grown(@, Stale + 1)]
  /\ obs' = [o \in Observer |-> [obs[o] EXCEPT !.pending = [i \in 1..Len(@) |-> Older(@[i])]]]
  /\ mon' = [b \in Broker |-> IF mon[b].found = None THEN mon[b]
               ELSE [mon[b] EXCEPT !.age = @ + 1, !.found = Grown(@, Stale + 1)]]
  /\ UNCHANGED <<config, dest, outbox, editing, told, left>>

\* Mutant: the states are inspected inside the loop over the page.
DispatchPaged(b) == \/ Declare(b) \/ Acknowledge(b)
                    \/ \E s \in outbox : Inspect(b) \/ Publish(b, s)

Dispatch(b) == Declare(b) \/ Inspect(b) \/ Acknowledge(b) \/ \E s \in outbox : Publish(b, s)

Receive == \E s \in queue : Cancel(s) \/ Post(s) \/ PostFails(s)

Next == \/ Tick
        \/ \E o \in Observer : \/ Connected(o) \/ Beat(o) \/ Lost(o)
                               \/ \E isLogout \in BOOLEAN : Closed(o, isLogout)
                               \/ Persist(o) \/ PersistFails(o) \/ WorkerDies(o)
        \/ \E register \in BOOLEAN, age \in 0..MaxDelay : Administer(register, age)
        \/ \E d \in Destination : \/ Delete(d)
                                  \/ \E member \in BOOLEAN : BeginEdit(d, member)
        \/ SaveEdit
        \/ \E b \in Broker : Dispatch(b) \/ TickEnds(b)
        \/ Receive

Spec == Init /\ [][Next]_vars

\* Time passes, commands are executed, a broker runs its tick and the queue delivers.
FairSpec ==
  /\ Spec
  /\ WF_vars(Tick)
  /\ \A o \in Observer : WF_vars(Persist(o))
  /\ WF_vars(SaveEdit)
  /\ \A b \in Broker : WF_vars(Dispatch(b))
  /\ WF_vars(Receive)

-----------------------------------------------------------------------------
\* A session is listed as removed exactly as long as it has no configuration: a
\* late callback never brings back a removed session (session_webhook_store.ts:12-14).
RemovedIffGone == state # None => (config <=> state.current # "removed")

\* The monitor never calls a session unavailable that was observed in the last 120 s,
\* although it reads and writes in two steps (jobs/session_webhooks.ts:49-54).
NoFalseAlarm ==
  [][state # None /\ state' # None /\ state.current = "connected"
       /\ state'.current = "unavailable" => state.observed > Stale]_vars

InFlight(d) == {s \in outbox \cup queue : s.dest = d /\ s.rev = dest[d].rev}

\* What a receiver that applies only higher sequences believes, once nothing is in
\* flight to it: the state that is stored, or the removal that ended its membership.
\* A dead letter breaks it, and nobody is told that a session was registered again
\* (SESSION_WEBHOOKS.md:79-82, 134-136).
ReceiverAgrees ==
  \A d \in Destination :
    dest[d].exists /\ view[d].seq > 0 /\ InFlight(d) = {} /\ ~dead[d] /\ States \subseteq Events
      => IF dest[d].member THEN state.fence \/ view[d].current = state.current
         ELSE view[d].current = "removed"

\* A session whose worker died or lost its lease, or whose closing could not be stored,
\* is not shown as connected for good (jobs/session_webhooks.ts:49-54).
Shown(current) == state # None /\ state.current = current
Served == \E o \in Observer : obs[o].up
DeadWorkerNoticed == Shown("connected") /\ ~Served ~> ~Shown("connected") \/ Served
=============================================================================
