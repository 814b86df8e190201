------------------------ MODULE CompanionOperations -------------------------
(* services/mobile_primary/companion_operations.ts: the one command slot of  *)
(* a mobile primary device. Web processes submit a command (a list, or a     *)
(* mutation: link by QR, link by code, revoke); the worker that owns the     *)
(* session claims and executes it, and records its outcome. Each change of   *)
(* the slot is COMPANION_CAS: the value is the one that was read and, for a  *)
(* worker, the lease of the session is still its own.                        *)
(*                                                                           *)
(* Assumed: a worker that has read a command less than a minute old claims   *)
(* it before it is three minutes old.                                        *)
EXTENDS Naturals

CONSTANTS Command,     \* submissions, each with an id of its own
          Worker,      \* clients of the session, each the token of its lease
          NoOne        \* no lease, no command

ASSUME CompanionAssumption == NoOne \notin Worker \cup Command

VARIABLES slot,        \* mobile-primary:{v1}:companion-operation:<draft>
          age,         \* how old the command in the slot is
          lease,       \* unoapi-lease:zapo-session:<phone>
          client,      \* current(): the socket is the one, and connected
          lane,        \* startCompanionWorker: what each worker is doing
          web,         \* the submissions
          started,     \* history: how often each command reached the SDK
          shown        \* history: commands a client was shown as "expired"

vars == <<slot, age, lease, client, lane, web, started, shown>>

Ages == {"fresh", "late", "stale"}  \* up to 60 s, up to 180 s, older
Empty == [id |-> NoOne, kind |-> "list", state |-> "none"]

Init == /\ slot = Empty
        /\ age = "stale"
        /\ lease = NoOne
        /\ client = [w \in Worker |-> "new"]
        /\ lane = [w \in Worker |-> [pc |-> "rest", seen |-> Empty]]
        /\ web = [o \in Command |-> [pc |-> "new", kind |-> "list", seen |-> Empty]]
        /\ started = [o \in Command |-> 0]
        /\ shown = {}

-----------------------------------------------------------------------------
(* The web processes *)

\* submit: what is in the slot is busy for three minutes, and after a mutation
\* of unknown outcome only a list may follow.
Accepts(kind) == /\ ~(slot.state \in {"queued", "running"} /\ age # "stale")
                 /\ slot.state \in {"running", "unknown"} => kind = "list"

Submit(o, kind) ==
  /\ web[o].pc = "new"
  /\ web' = [web EXCEPT ![o] = IF Accepts(kind) THEN [pc |-> "put", kind |-> kind, seen |-> slot]
                               ELSE [@ EXCEPT !.pc = "over"]]
  /\ UNCHANGED <<slot, age, lease, client, lane, started, shown>>

\* COMPANION_CAS, without a lease: the value is the one that was read.
Same(seen) == slot = seen

Put(o) ==
  /\ web[o].pc = "put"
  /\ IF Same(web[o].seen)
     THEN slot' = [id |-> o, kind |-> web[o].kind, state |-> "queued"] /\ age' = "fresh"
     ELSE UNCHANGED <<slot, age>>
  /\ web' = [web EXCEPT ![o].pc = "over"]
  /\ UNCHANGED <<lease, client, lane, started, shown>>

\* status: a command still queued after three minutes is shown as expired.
Status ==
  /\ slot.state = "expired" \/ (slot.state = "queued" /\ age = "stale")
  /\ shown' = shown \cup {slot.id}
  /\ UNCHANGED <<slot, age, lease, client, lane, web, started>>

-----------------------------------------------------------------------------
(* The worker *)

Lane(w, label) == lane[w].pc = label
Rest(w) == lane' = [lane EXCEPT ![w] = [pc |-> "rest", seen |-> Empty]]
Fenced(w) == lease = w

\* As a mutant, a command is never too old.
NeverTooOld == FALSE
TooOld == age # "fresh"

\* tick reads a queued command, every second unless the lane is busy.
Tick(w) ==
  /\ Lane(w, "rest") /\ client[w] = "up"
  /\ slot.state = "queued"
  /\ lane' = [lane EXCEPT ![w] = [pc |-> IF TooOld THEN "expire" ELSE "claim", seen |-> slot]]
  /\ UNCHANGED <<slot, age, lease, client, web, started, shown>>

Drop(w) ==
  /\ Lane(w, "expire")
  /\ slot' = IF Same(lane[w].seen) /\ Fenced(w) THEN [slot EXCEPT !.state = "expired"] ELSE slot
  /\ Rest(w)
  /\ UNCHANGED <<age, lease, client, web, started, shown>>

\* The command is marked before it is executed. As a mutant, it stays queued.
LeftQueued(command) == command
Claimed(command) == [command EXCEPT !.state = "running"]

Claim(w) ==
  LET claimed == Claimed(lane[w].seen) IN
  /\ Lane(w, "claim")
  /\ IF Same(lane[w].seen) /\ Fenced(w)
     THEN /\ slot' = claimed
          /\ lane' = [lane EXCEPT ![w] = [pc |-> "start", seen |-> claimed]]
     ELSE UNCHANGED slot /\ Rest(w)
  /\ UNCHANGED <<age, lease, client, web, started, shown>>

\* The SDK is called, unless the worker is no longer the one: an exception.
Start(w) ==
  /\ Lane(w, "start")
  /\ IF client[w] = "up"
     THEN /\ started' = [started EXCEPT ![lane[w].seen.id] = @ + 1]
          /\ lane' = [lane EXCEPT ![w].pc = "call"]
     ELSE UNCHANGED started /\ Rest(w)
  /\ UNCHANGED <<slot, age, lease, client, web, shown>>

\* The SDK answers or throws; a list is not believed when the worker has changed.
Answer(w) ==
  /\ Lane(w, "call")
  /\ \/ /\ lane[w].seen.kind = "list" => client[w] = "up"
        /\ lane' = [lane EXCEPT ![w].pc = "done"]
     \/ lane' = [lane EXCEPT ![w].pc = "unknown"]
  /\ UNCHANGED <<slot, age, lease, client, web, started, shown>>

\* Only the current worker records the outcome, of what it has claimed.
Record(w) ==
  LET outcome == [lane[w].seen EXCEPT !.state = lane[w].pc] IN
  /\ lane[w].pc \in {"done", "unknown"}
  /\ IF client[w] = "up" /\ Same(lane[w].seen) /\ Fenced(w)
     THEN /\ slot' = outcome
     ELSE UNCHANGED slot
  /\ Rest(w)
  /\ UNCHANGED <<age, lease, client, web, started, shown>>

-----------------------------------------------------------------------------
(* Time and the session, see ZapoSession *)

Age ==
  /\ \/ age = "fresh" /\ age' = "late"
     \/ age = "late" /\ age' = "stale" /\ \A w \in Worker : ~Lane(w, "claim")
  /\ UNCHANGED <<slot, lease, client, lane, web, started, shown>>

\* The slot expires ten minutes after it was written.
Forget ==
  /\ slot # Empty /\ age = "stale"
  /\ slot' = Empty
  /\ UNCHANGED <<age, lease, client, lane, web, started, shown>>

Open(w) ==
  /\ client[w] = "new" /\ lease = NoOne
  /\ lease' = w
  /\ client' = [client EXCEPT ![w] = "up"]
  /\ UNCHANGED <<slot, age, lane, web, started, shown>>

\* The lease of a worker expires, which it has not noticed yet; it disconnects
\* and lets the lease go; its process dies.
Lose ==
  /\ lease # NoOne
  /\ lease' = NoOne
  /\ UNCHANGED <<slot, age, client, lane, web, started, shown>>

Close(w) ==
  /\ client[w] = "up"
  /\ client' = [client EXCEPT ![w] = "down"]
  /\ lease' = IF lease = w THEN NoOne ELSE lease
  /\ UNCHANGED <<slot, age, lane, web, started, shown>>

Crash(w) ==
  /\ client[w] = "up"
  /\ client' = [client EXCEPT ![w] = "down"]
  /\ Rest(w)
  /\ UNCHANGED <<slot, age, lease, web, started, shown>>

-----------------------------------------------------------------------------
Serve(w) == \/ Tick(w) \/ Drop(w) \/ Claim(w) \/ Start(w) \/ Answer(w) \/ Record(w)
            \/ Open(w) \/ Close(w) \/ Crash(w)

Next == \/ Status \/ Age \/ Forget \/ Lose
        \/ \E o \in Command, kind \in {"list", "mutation"} : Submit(o, kind)
        \/ \E o \in Command : Put(o)
        \/ \E w \in Worker : Serve(w)

Spec == Init /\ [][Next]_vars

-----------------------------------------------------------------------------
Slots == [id : Command \cup {NoOne}, kind : {"list", "mutation"},
          state : {"none", "queued", "running", "done", "unknown", "expired"}]

\* The types of the variables.
TypeOK ==
  /\ slot \in Slots
  /\ age \in Ages
  /\ lease \in Worker \cup {NoOne}
  /\ client \in [Worker -> {"new", "up", "down"}]
  /\ lane \in [Worker -> [pc : {"rest", "expire", "claim", "start", "call", "done", "unknown"},
                          seen : Slots]]
  /\ web \in [Command -> [pc : {"new", "put", "over"}, kind : {"list", "mutation"}, seen : Slots]]
  /\ started \in [Command -> Nat]
  /\ shown \subseteq Command

\* "Never redeliver a claimed mutation": whatever becomes of the workers, of their
\* lease and of the slot, a command reaches the SDK once at most.
ExecutedOnce == \A o \in Command : started[o] <= 1

\* A client that is shown "expired" may submit the command again: it has not been
\* executed, and never will be.
ExpiredNeverRuns == \A o \in shown : started[o] = 0
=============================================================================
