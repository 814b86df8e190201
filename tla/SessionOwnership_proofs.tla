------------------------ MODULE SessionOwnership_proofs ------------------------
(* Proofs about the two modules that decide which object may serve a session: *)
(* ZapoSession, for any clients, workers, faults and bounds, and RedisLease,  *)
(* for any lease objects, any TTL and any number of commands in flight. In    *)
(* each, an invariant is shown to be kept by every step. For ZapoSession, the *)
(* record of the object that moves is first related to the one it becomes     *)
(* (its effect), then each relation is shown to keep what is true of a record, *)
(* and last what relates the records to Redis, to the map of the worker and   *)
(* to the status follows for all actions at once.                             *)
EXTENDS ZapoSession, RedisLease, TLAPS

-----------------------------------------------------------------------------
(* What is true of an object by itself, r being its record.                  *)

\* No connectInternal runs, or it only has to report its failure.
Idle == {"none", "fault"}

\* It runs, and has not dialled yet.
Preparing == {"config", "status", "prepare", "load"}

\* The sockets some handler still knows.
Sockets(r) == r.dialing \cup r.net \cup r.opening \cup r.discarding \cup r.closing \cup r.failing

\* Sockets are numbered from 1 to the generation; an object that was not made is blank.
Sound(r) ==
  /\ r.worker \in Worker
  /\ r.gen \in Nat /\ r.sock \in 0 .. r.gen /\ r.opened \in 0 .. r.gen /\ r.expected \in Nat
  /\ Sockets(r) \subseteq 1 .. r.gen
  /\ r.disc \in [Calls -> Phase] /\ r.task \in Idle \cup Preparing \cup {"dial"}
  /\ r.connected => r.sock # 0 /\ r.gen = r.sock
  /\ ~r.made => /\ r.gen = 0 /\ r.task = "none" /\ \A k \in Calls : r.disc[k] = "no"
                /\ r.loss = "no" /\ ~r.lease /\ ~r.timer /\ ~r.creating
  /\ r.asking => ~r.made
  /\ r.task = "dial" => r.awaited # 0

\* When the timer is armed, a dial has failed or a connection is prepared, there is no socket.
Timed(r) ==
  /\ r.timer => r.sock = 0 /\ ~r.intent /\ r.failing = {} /\ r.task \in Idle
  /\ r.failing # {} => r.sock = 0 /\ r.task \in Idle
  /\ \A s, t \in r.failing : s = t
  /\ r.task \in Preparing => r.sock = 0 /\ r.discarding = {}
  /\ r.task \in Preparing \ {"config"} => r.lease
  /\ r.task = "prepare" /\ ~r.intent => r.prepGen = r.gen
  /\ r.task = "dial" => r.sock # 0 /\ r.sock = r.awaited
  /\ r.task = "fault" /\ r.sock # 0 => r.intent
  /\ r.sock # 0 => r.discarding \subseteq {r.sock}
  /\ r.creating => r.opened = 0 /\ r.opening = {} /\ (r.task # "none" \/ r.disc["manual"] # "no")

\* A dead object, and one nobody has begun to connect.
Dead(r) == r.gen = 0 /\ r.task = "none" /\ ~r.timer /\ \A k \in Calls : r.disc[k] = "no"

\* A disconnection keeps the object from connecting, and a recovery gives way to it.
Leaving(r) ==
  /\ r.loss = "no"
  /\ \A k \in Calls : r.disc[k] # "no" => r.intent
  /\ \A k \in Calls : r.disc[k] \in {"closing", "waiting"} /\ r.task # "none" => k \in r.waits
  /\ \A k \in Calls : r.disc[k] = "status" => r.task = "none"
  /\ \A k \in Calls : r.disc[k] \in {"closing", "waiting"} => ~r.connected /\ (r.opened = r.sock => r.sock = 0)
  /\ r.disc["recovery"] # "no" =>
       /\ r.sock = 0 /\ r.failing = {} /\ r.task \in Idle /\ ~r.creating /\ r.gen >= r.expected
       /\ r.gen = r.expected => ~r.retired /\ r.disc["manual"] = "no"
       /\ r.gen # r.expected => r.retired
  /\ r.disc["manual"] # "no" => r.retired
  /\ r.retired => r.intent \/ Dead(r)
  /\ r.intent /\ ~r.retired => r.disc["recovery"] # "no"

\* What an object is as long as no lease is lost.
Ready(r) == Timed(r) /\ Leaving(r)

\* What a faulted connection leaves behind, unless the infrastructure failed.
Excused(r) == r.task = "fault" => r.timer \/ r.failing # {} \/ r.intent \/ r.unlinked

\* Unless somebody disconnects it by hand, an object drops its socket first.
Dropping(r) ==
  /\ r.intent => r.sock = 0 /\ r.task \in Idle
  /\ r.sock \in r.net => r.lease
  /\ r.disc["manual"] = "no" \/ r.disc["recovery"] = "no"

\* An object somebody wants up, without a socket, has something to run that leads to one.
Hoped(r) ==
  r.made /\ ~r.retired /\ ~r.unlinked /\ r.sock = 0
    => r.timer \/ r.task # "none" \/ r.failing # {} \/ r.disc["recovery"] # "no"

\* It was opened or is being created, and has not deregistered itself since.
Registers(r) ==
  \/ r.connected
  \/ r.opened = r.sock /\ r.sock # 0
  \/ \E k \in Calls : r.disc[k] \in {"logout", "closing", "waiting"}
  \/ r.creating /\ r.disc["manual"] = "no"

\* It is going to correct the status.
Corrects(r) ==
  \/ r.connected \/ r.failing # {} \/ r.closing # {} \/ r.loss # "no"
  \/ \E k \in Calls : r.disc[k] # "no"

-----------------------------------------------------------------------------
(* What relates the objects to Redis, to the map and to the status.          *)

\* The premises of the properties: the disturbances that have not struck.
Unlost == Without(LeaseLoss)
Supplied == Without(LeaseLoss \cup {"infra"})
Untouched == Without(LeaseLoss \cup ByHand)
Unrecovered == Without({"recover"})
Orderly == Without(LeaseLoss \cup {"lookup"}) /\ (Unrecovered \/ Without(ByHand))
Reported == Without({"crash", "status"})

\* Objects live in the maps of their workers.
Sane == clients \in [Worker -> Client \cup {NoClient}] /\ \A c \in Client : Sound(cl[c])

\* Each object keeps its own order, under the premise it takes.
Tidy == Unlost => \A c \in Client : Ready(cl[c])
Blamed == Supplied => \A c \in Client : Excused(cl[c])
Handy == Untouched => \A c \in Client : Dropping(cl[c])

\* Redis stores the lease of every object that believes in it.
Leased == Unlost => \A c \in Client : cl[c].lease => owner = c

\* The registered objects have something to run.
Hoping == Supplied => \A c \in Client : Map(c) = c => Hoped(cl[c])

\* Without recoveries no recovery is under way.
Recovered == Unrecovered => \A c \in Client : cl[c].disc["recovery"] = "no"

\* An object that was opened, or is being created, is the one its worker knows: no other
\* object of the worker replaces it before it deregisters itself.
Known == Orderly => \A c \in Client : Registers(cl[c]) => Map(c) = c

\* Somebody stands behind the status.
Truthful == status = "online" /\ Reported => \E c \in Client : Corrects(cl[c])

\* The strengthening: none of the properties says what the handlers under way will find.
ZapoInv == Sane /\ Tidy /\ Blamed /\ Handy /\ Leased /\ Hoping /\ Recovered /\ Known /\ Truthful

-----------------------------------------------------------------------------
(* What each action does to the record r of its object, which becomes n.     *)

Fields == {"worker", "made", "asking", "creating", "intent", "gen", "sock", "connected", "lease",
           "timer", "task", "prepGen", "opened", "awaited", "dialing", "net", "opening",
           "discarding", "closing", "failing", "doomed", "loss", "lossSock", "disc", "discSock",
           "waits", "expected", "retired", "unlinked"}
Shape(r) == DOMAIN r = Fields /\ r = [x \in Fields |-> r[x]]
Shaped == cl = [c \in Client |-> cl[c]] /\ \A c \in Client : Shape(cl[c])

\* Only the fields S differ; only the object c does.
Same(n, r, S) == Shape(n) /\ \A x \in Fields \ S : n[x] = r[x]
Only(c) == Shaped' /\ \A d \in Client \ {c} : cl'[d] = cl[d]

Scheduling(n, r) == (n.timer => r.timer \/ ~r.intent) /\ (~r.intent => n.timer)
Aborting(n, r) == n.task = (IF r.task = "dial" THEN "fault" ELSE r.task)
Tearing(n, r) == n.gen = r.gen + 1 /\ n.sock = 0 /\ ~n.connected
Ending(n) == n.task = "none" /\ n.waits = {} /\ ~n.creating
Staging(n, r, k, p) == n.disc \in [Calls -> Phase] /\ n.disc[k] = p /\ \A j \in Calls \ {k} : n.disc[j] = r.disc[j]
Blank(n, w, made) ==
  /\ Shape(n) /\ n.worker = w /\ n.made = made /\ ~n.asking /\ ~n.intent /\ n.gen = 0 /\ n.sock = 0
  /\ ~n.connected /\ ~n.lease /\ ~n.timer /\ n.opened = 0 /\ n.expected = 0 /\ n.loss = "no"
  /\ n.dialing = {} /\ n.net = {} /\ n.opening = {} /\ n.discarding = {} /\ n.closing = {}
  /\ n.failing = {} /\ n.disc \in [Calls -> Phase] /\ \A k \in Calls : n.disc[k] = "no"
Left == {"gen", "sock", "connected", "task", "intent", "timer", "disc", "discSock", "waits", "retired"}
Quits(r, n, k) ==
  /\ Tearing(n, r) /\ Aborting(n, r) /\ n.intent /\ ~n.timer /\ Staging(n, r, k, "closing")
  /\ (r.task # "none" => k \in n.waits) /\ \A j \in r.waits \ {k} : j \in n.waits
  /\ (k = "manual" => n.retired) /\ (r.retired => n.retired)
  /\ (n.retired => r.retired \/ k = "manual")
Leaves(r, n, k) == Same(n, r, Left) /\ Quits(r, n, k)

Looks(r, n) == ~r.made /\ Same(n, r, {"asking"})
Begins(r, n) ==
  r.asking /\ Blank(n, r.worker, TRUE) /\ n.creating /\ n.task = "config" /\ ~n.retired /\ ~n.unlinked
Wakes(r, n) ==
  /\ r.timer /\ r.task # "fault" /\ r.discarding = {}
  /\ Same(n, r, {"timer", "task"}) /\ ~n.timer
  /\ n.task = IF r.intent \/ r.task # "none" THEN r.task ELSE "config"
Wins(r, n) ==
  /\ r.task = "config" /\ r.sock = 0
  /\ Same(n, r, {"lease", "task"}) /\ n.lease /\ n.task = "status"
Yields(r, n) ==
  /\ r.task = "config" /\ Same(n, r, {"task", "waits", "creating", "timer"}) /\ Ending(n)
  /\ n.timer => r.timer \/ (~r.intent /\ r.sock = 0)
Connects(r, n) ==
  r.task = "status" /\ Same(n, r, {"task", "prepGen"}) /\ n.task = "prepare" /\ n.prepGen = r.gen
Prepares(r, n) ==
  /\ r.task = "prepare" /\ Same(n, r, {"task"})
  /\ n.task = IF r.intent \/ r.prepGen # r.gen THEN "fault" ELSE "load"
Dials(r, n) ==
  /\ r.task = "load"
  /\ Same(n, r, {"gen", "sock", "task", "awaited", "unlinked", "dialing", "net"})
  /\ n.gen = r.gen + 1 /\ n.sock = r.gen + 1 /\ n.task = "dial" /\ n.awaited = r.gen + 1
  /\ n.dialing = r.dialing \cup {r.gen + 1} /\ n.net = r.net \cup {r.gen + 1}
Throws(r, n) == r.task \in Preparing /\ Same(n, r, {"task"}) /\ n.task = "fault"
Fails(r, n) ==
  /\ r.task = "fault" /\ n.task = "none" /\ ~n.lease
  /\ IF r.creating /\ r.disc["manual"] = "no"
     THEN /\ Same(n, r, Left \cup {"lease", "creating"}) /\ Tearing(n, r) /\ n.creating
          /\ n.intent /\ n.retired /\ ~n.timer /\ Staging(n, r, "manual", "closing")
     ELSE Same(n, r, {"task", "waits", "creating", "lease"}) /\ Ending(n)
Prompts(r, n) ==
  r.task = "dial" /\ IsCurrent(r, r.awaited) /\ Same(n, r, {"task", "waits", "creating"}) /\ Ending(n)

\* A dial fails, is refused or takes too long.
Breaks(r, n, s) ==
  /\ s = r.sock /\ n.failing = r.failing \cup {s} /\ Tearing(n, r)
  /\ Same(n, r, {"gen", "sock", "connected", "task", "failing", "dialing", "net", "doomed"})
  /\ n.task = (IF r.awaited = s /\ r.task = "dial" THEN "fault" ELSE r.task)
  /\ n.dialing \subseteq r.dialing /\ n.net \subseteq r.net
Rejects(r, n, s) ==
  /\ s \in r.dialing
  /\ \/ Breaks(r, n, s)
     \/ /\ s # r.sock /\ Same(n, r, {"task", "dialing", "net"})
        /\ n.task = (IF r.awaited = s /\ r.task = "dial" THEN "fault" ELSE r.task)
        /\ n.dialing \subseteq r.dialing /\ n.net \subseteq r.net
Overruns(r, n) ==
  /\ r.task = "dial"
  /\ \/ Breaks(r, n, r.awaited)
     \/ (r.sock # r.awaited \/ r.intent) /\ Same(n, r, {"task"}) /\ n.task = "fault"
Dooms(r, n) == Same(n, r, {"doomed", "net"}) /\ n.net \subseteq r.net
Copes(r, n, s) ==
  /\ s \in r.failing /\ Same(n, r, {"failing", "timer", "lease"}) /\ n.failing = r.failing \ {s}
  /\ ~n.lease /\ Scheduling(n, r)

\* Events of the library.
Opens(r, n, s) ==
  /\ s \in r.dialing /\ Same(n, r, {"dialing", "task", "waits", "creating", "opening"})
  /\ n.dialing \subseteq r.dialing
  /\ IF r.task = "dial" /\ r.awaited = s THEN Ending(n)
     ELSE n.task = r.task /\ n.waits = r.waits /\ n.creating = r.creating
  /\ n.opening = r.opening \/ (n.opening = r.opening \cup {s} /\ IsCurrent(r, s))
Uses(r, n, s) ==
  /\ s \in r.opening /\ IsCurrent(r, s) /\ Same(n, r, {"opening", "connected", "opened"})
  /\ n.opening = r.opening \ {s} /\ n.connected /\ n.opened = s
Refuses(r, n, s) ==
  /\ s \in r.opening /\ Same(n, r, {"opening", "discarding"}) /\ n.opening = r.opening \ {s}
  /\ n.discarding = r.discarding \/ (IsCurrent(r, s) /\ n.discarding = r.discarding \cup {s})
Discards(r, n, s) ==
  /\ s \in r.discarding /\ Same(n, r, {"lease", "discarding", "closing", "net"}) /\ ~n.lease
  /\ n.discarding = r.discarding \ {s} /\ n.net = r.net \ {s}
  /\ n.closing \in {r.closing, r.closing \cup {s}}
Drops(r, n, s) ==
  /\ s \in r.net
  /\ \/ Same(n, r, {"net"}) /\ n.net = r.net \ {s}
     \/ /\ Same(n, r, {"net", "connected", "closing", "unlinked"}) /\ n.net = r.net \ {s}
        /\ ~n.connected /\ n.closing = r.closing \cup {s} /\ (r.unlinked => n.unlinked)
Closes(r, n, s) ==
  /\ s \in r.closing
  /\ IF s = r.sock /\ ~r.intent
     THEN /\ Same(n, r, {"closing", "gen", "sock", "connected", "task", "lease", "timer"})
          /\ Tearing(n, r) /\ Aborting(n, r) /\ ~n.lease
          /\ IF r.unlinked THEN n.timer = r.timer ELSE Scheduling(n, r)
     ELSE Same(n, r, {"closing"})
  /\ n.closing = r.closing \ {s}

\* Lost leases and disconnections.
Loses(r, n) ==
  /\ r.lease /\ Same(n, r, {"gen", "sock", "connected", "lease", "intent", "loss", "lossSock"})
  /\ Tearing(n, r) /\ ~n.lease /\ n.loss = "closing"
LossWaits(r, n) == r.loss # "no" /\ n.loss # "no" /\ Same(n, r, {"loss", "net"}) /\ n.net \subseteq r.net
LossEnds(r, n) == r.loss # "no" /\ Same(n, r, {"intent", "loss", "timer"})
Departs(r, n) == r.made /\ Leaves(r, n, "manual")
LogsOut(r, n) ==
  /\ r.sock # 0 /\ r.made /\ Same(n, r, {"intent", "retired", "disc"}) /\ n.intent /\ n.retired
  /\ Staging(n, r, "manual", "logout")
Recovers(r, n) ==
  /\ r.sock # 0 /\ r.opened = r.sock /\ ~r.intent /\ r.disc["recovery"] = "no"
  /\ Same(n, r, Left \cup {"expected"}) /\ Quits(r, n, "recovery") /\ n.expected = r.gen + 1
Shuts(r, n, k) ==
  /\ r.disc[k] = "closing" /\ Same(n, r, {"disc", "net"}) /\ n.net \subseteq r.net
  /\ Staging(n, r, k, "waiting")
Deregisters(r, n, k) ==
  r.disc[k] = "waiting" /\ k \notin r.waits /\ Same(n, r, {"disc"}) /\ Staging(n, r, k, "status")
Finishes(r, n, k) ==
  /\ r.disc[k] = "status" /\ ~n.lease /\ Staging(n, r, k, "no")
  /\ n.creating => r.creating /\ k # "manual"
  /\ IF k = "recovery" /\ r.gen = r.expected
     THEN /\ Same(n, r, {"lease", "disc", "creating", "intent", "timer"}) /\ ~n.intent /\ n.timer
     ELSE Same(n, r, {"lease", "disc", "creating"})

\* What a step keeps of its object, the exceptions being E.
Keeps(r, n, E) ==
  /\ Sound(n) /\ n.worker = r.worker
  /\ "tidy" \notin E /\ Ready(r) => Ready(n)
  /\ "excused" \notin E /\ Ready(r) /\ Excused(r) => Excused(n)
  /\ "dropping" \notin E /\ Ready(r) /\ Dropping(r) => Dropping(n)
  /\ "hoped" \notin E /\ Ready(r) /\ Excused(r) /\ Hoped(r) => Hoped(n)
  /\ "registers" \notin E /\ Ready(r) /\ Registers(n) => Registers(r)
  /\ "recovery" \notin E /\ r.disc["recovery"] = "no" => n.disc["recovery"] = "no"
  /\ "corrects" \notin E /\ Corrects(r) => Corrects(n)
  /\ Ready(r) /\ r.retired /\ n.timer => r.timer
  /\ Ready(r) => n.net \subseteq r.net \/ r.lease

-----------------------------------------------------------------------------
(* What the actions do to the record of their object.                        *)

\* Replacing the record of one object leaves the others alone.
LEMMA Put ==
  ASSUME Shaped, NEW c \in Client, NEW n, Shape(n), cl' = [cl EXCEPT ![c] = n]
  PROVE  Only(c) /\ cl'[c] = n
BY DEF Shaped, Only

\* Two changes in a row.
LEMMA Both ==
  ASSUME NEW a, NEW b, NEW r, NEW S, NEW T, Same(a, b, S), Same(b, r, T)
  PROVE  Same(a, r, S \cup T)
BY DEF Same

\* What each helper does to a record, as far as its fields go.
LEMMA Tears ==
  ASSUME NEW r, Shape(r)
  PROVE  Same(TornDown(r), r, {"gen", "sock", "connected"}) /\ Tearing(TornDown(r), r)
BY DEF Same, Shape, Fields, Tearing, TornDown

LEMMA Aborts ==
  ASSUME NEW r, Shape(r)
  PROVE  Same(Aborted(r), r, {"task"}) /\ Aborting(Aborted(r), r)
BY DEF Same, Shape, Fields, Aborting, Aborted

LEMMA Releases ==
  ASSUME NEW r, Shape(r)
  PROVE  Same(Released(r), r, {"lease"}) /\ ~Released(r).lease
BY DEF Same, Shape, Fields, Released

LEMMA Schedules ==
  ASSUME NEW r, Shape(r)
  PROVE  Same(Scheduled(r), r, {"timer"}) /\ Scheduling(Scheduled(r), r)
BY DEF Same, Shape, Fields, Scheduling, Scheduled

LEMMA Ends ==
  ASSUME NEW r, Shape(r)
  PROVE  Same(TaskEnded(r), r, {"task", "waits", "creating"}) /\ Ending(TaskEnded(r))
BY DEF Same, Shape, Fields, Ending, TaskEnded

LEMMA Disconnects ==
  ASSUME NEW r, Shape(r), r.disc \in [Calls -> Phase], NEW k \in Calls
  PROVE  Leaves(r, Disconnecting(r, k), k)
<1> DEFINE t == Aborted(TornDown(r))
           n == Disconnecting(r, k)
<1>1. Same(t, r, {"gen", "sock", "connected", "task"}) /\ Tearing(t, r) /\ Aborting(t, r)
  BY DEF Same, Shape, Fields, Tearing, Aborting, Aborted, TornDown
<1> HIDE DEF t
<1>2. Shape(t) /\ t.disc = r.disc /\ t.waits = r.waits /\ t.task \in {r.task, "fault"}
  BY <1>1 DEF Same, Fields, Aborting
<1>3. n = [t EXCEPT !.intent = TRUE, !.timer = FALSE, !.disc = [t.disc EXCEPT ![k] = "closing"],
                    !.discSock = [t.discSock EXCEPT ![k] = r.sock],
                    !.waits = IF r.task = "none" THEN t.waits \ {k} ELSE t.waits \cup {k},
                    !.retired = t.retired \/ k = "manual"]
  BY <1>2 DEF Disconnecting, t, Shape, Fields
<1> HIDE DEF n
<1>4. Same(n, t, {"intent", "timer", "disc", "discSock", "waits", "retired"})
  BY <1>2, <1>3 DEF Same, Shape, Fields
<1>5. /\ n.intent /\ ~n.timer /\ n.disc = [t.disc EXCEPT ![k] = "closing"]
      /\ n.waits = IF r.task = "none" THEN t.waits \ {k} ELSE t.waits \cup {k}
  BY <1>2, <1>3 DEF Shape, Fields
<1>6. (k = "manual" => n.retired) /\ (t.retired => n.retired) /\ (n.retired => t.retired \/ k = "manual")
  BY <1>2, <1>3 DEF Shape, Fields
<1>7. Staging(n, r, k, "closing")
  BY <1>2, <1>5 DEF Staging, Phase
<1>8. Same(n, r, Left)
  BY <1>1, <1>4 DEF Same, Left
<1>9. Tearing(n, r) /\ Aborting(n, r)
  BY <1>1, <1>4 DEF Same, Fields, Tearing, Aborting
<1>10. (r.task # "none" => k \in n.waits) /\ \A j \in r.waits \ {k} : j \in n.waits
  BY <1>2, <1>5
<1>11. t.retired = r.retired
  BY <1>1 DEF Same, Fields
<1> QED BY <1>5, <1>6, <1>7, <1>8, <1>9, <1>10, <1>11 DEF Leaves, Quits, n

\* `create` and its first `connect` (client_zapo.ts:179-215).
LEMMA Creating ==
  ASSUME Shaped, Sane, NEW c \in Client, Create(c)
  PROVE  /\ Only(c)
         /\ \/ Looks(cl[c], cl'[c]) /\ UNCHANGED <<clients, budget>>
            \/ /\ Begins(cl[c], cl'[c]) /\ clients' = [clients EXCEPT ![cl[c].worker] = c]
               /\ IF Map(c) = NoClient THEN UNCHANGED budget ELSE Spend("lookup")
<1> DEFINE n == [cl[c] EXCEPT !.asking = FALSE]
           f == Fresh(cl[c].worker)
           m == [f EXCEPT !.made = TRUE, !.creating = TRUE, !.task = "config"]
<1>1. Shape(cl[c]) /\ cl[c].asking /\ ~cl[c].made
  BY DEF Shaped, Create, Sane, Sound
<1>2. CASE cl' = [cl EXCEPT ![c] = n] /\ UNCHANGED <<clients, budget>>
  <2>1. Same(n, cl[c], {"asking"}) /\ ~n.asking
    BY <1>1 DEF Same, Shape, Fields
  <2> HIDE DEF n
  <2>2. Only(c) /\ cl'[c] = n
    BY <1>2, <2>1, Put DEF Same
  <2> QED BY <1>1, <1>2, <2>1, <2>2 DEF Looks
<1>3. CASE /\ cl' = [cl EXCEPT ![c] = m] /\ clients' = [clients EXCEPT ![cl[c].worker] = c]
           /\ IF Map(c) = NoClient THEN UNCHANGED budget ELSE Spend("lookup")
  <2>1. Blank(f, cl[c].worker, FALSE) /\ ~f.retired /\ ~f.unlinked
    BY DEF Fresh, Blank, Shape, Fields, Phase
  <2> HIDE DEF f
  <2>2. Same(m, f, {"made", "creating", "task"}) /\ m.made /\ m.creating /\ m.task = "config"
    BY <2>1 DEF Same, Shape, Fields, Blank
  <2> HIDE DEF m
  <2>3. Blank(m, cl[c].worker, TRUE) /\ ~m.retired /\ ~m.unlinked
    BY <2>1, <2>2 DEF Blank, Same, Fields
  <2>4. Only(c) /\ cl'[c] = m
    BY <1>3, <2>2, Put DEF Same
  <2>5. Begins(cl[c], m)
    BY <1>1, <2>2, <2>3 DEF Begins
  <2> QED BY <1>3, <2>4, <2>5
<1> QED BY <1>2, <1>3 DEF Create

LEMMA Dialling ==
  ASSUME Shaped, Sane, NEW c \in Client, Dial(c)
  PROVE  Only(c) /\ Dials(cl[c], cl'[c])
<1> DEFINE s == cl[c].gen + 1
           n == [cl[c] EXCEPT !.gen = s, !.sock = s, !.task = "dial", !.awaited = s,
                              !.unlinked = FALSE, !.dialing = cl[c].dialing \cup {s},
                              !.net = cl[c].net \cup {s}]
<1>1. Shape(cl[c]) /\ cl[c].task = "load"
  BY DEF Shaped, Dial
<1>2. cl' = [cl EXCEPT ![c] = n]
  BY DEF Dial
<1>3. s = cl[c].gen + 1
  OBVIOUS
<1> HIDE DEF s
<1>4. /\ Same(n, cl[c], {"gen", "sock", "task", "awaited", "unlinked", "dialing", "net"})
  <2> DEFINE p == [cl[c] EXCEPT !.gen = s, !.sock = s, !.task = "dial", !.awaited = s]
  <2>a. Shape(p) /\ p.dialing = cl[c].dialing /\ p.net = cl[c].net
    BY <1>1 DEF Shape, Fields
  <2>b. n = [p EXCEPT !.unlinked = FALSE, !.dialing = cl[c].dialing \cup {s}, !.net = cl[c].net \cup {s}]
    BY <1>1 DEF Shape, Fields
  <2> HIDE DEF n, p
  <2>1. Shape(n)
    BY <2>a, <2>b DEF Shape, Fields
  <2> USE DEF n
  <2>2. ASSUME NEW x \in Fields \ {"gen", "sock", "task", "awaited", "unlinked", "dialing", "net"}
        PROVE  n[x] = cl[c][x]
    BY <1>1 DEF Shape, Fields
  <2> QED BY <2>1, <2>2 DEF Same
<1>4a. n.gen = s /\ n.sock = s /\ n.task = "dial" /\ n.awaited = s
  BY <1>1 DEF Shape, Fields
<1>4b. n.dialing = cl[c].dialing \cup {s}
  BY <1>1 DEF Shape, Fields
<1>4c. n.net = cl[c].net \cup {s}
  BY <1>1 DEF Shape, Fields
<1> HIDE DEF n
<1>5. Only(c) /\ cl'[c] = n
  BY <1>2, <1>4, Put DEF Same
<1> QED BY <1>1, <1>3, <1>4, <1>4a, <1>4b, <1>4c, <1>5 DEF Dials

LEMMA Failure ==
  ASSUME Shaped, Sane, NEW c \in Client, ConnectFails(c)
  PROVE  Only(c) /\ Fails(cl[c], cl'[c])
<1> DEFINE a == Released(cl[c])
           r == TaskEnded(a)
           d == Disconnecting(r, "manual")
           e == [d EXCEPT !.creating = TRUE]
           n == IF cl[c].creating /\ r.disc["manual"] = "no" THEN e ELSE r
<1>1. Shape(cl[c]) /\ cl[c].disc \in [Calls -> Phase] /\ cl[c].task = "fault"
  BY DEF Shaped, Sane, Sound, ConnectFails
<1>2. cl' = [cl EXCEPT ![c] = n]
  BY DEF ConnectFails
<1>3. Same(a, cl[c], {"lease"}) /\ ~a.lease
  BY <1>1, Releases
<1> HIDE DEF a
<1>4. Same(r, a, {"task", "waits", "creating"}) /\ Ending(r)
  BY <1>3, Ends DEF Same
<1> HIDE DEF r
<1>5. /\ Same(r, cl[c], {"lease", "task", "waits", "creating"}) /\ Shape(r) /\ r.disc = cl[c].disc
      /\ ~r.lease
  BY <1>3, <1>4 DEF Same, Fields
<1>6. CASE cl[c].creating /\ r.disc["manual"] = "no"
  <2>1. Leaves(r, d, "manual")
    BY <1>1, <1>5, Disconnects DEF Calls
  <2> HIDE DEF d
  <2>2. Same(e, d, {"creating"}) /\ e.creating
    BY <2>1 DEF Same, Shape, Fields, Leaves
  <2> HIDE DEF e
  <2>3. Same(e, cl[c], Left \cup {"lease", "creating"})
    BY <1>5, <2>1, <2>2 DEF Same, Leaves, Left
  <2>4. /\ Tearing(e, cl[c]) /\ e.intent /\ e.retired /\ ~e.timer /\ e.task = "none" /\ ~e.lease
        /\ Staging(e, cl[c], "manual", "closing")
    BY <1>4, <1>5, <2>1, <2>2 DEF Same, Fields, Leaves, Left, Quits, Tearing, Staging, Ending, Aborting
  <2>5. cl' = [cl EXCEPT ![c] = e]
    BY <1>2, <1>6
  <2>6. Only(c) /\ cl'[c] = e
    BY <2>2, <2>5, Put DEF Same
  <2>7. cl[c].disc["manual"] = "no"
    BY <1>5, <1>6
  <2> QED BY <1>1, <1>6, <2>2, <2>3, <2>4, <2>6, <2>7 DEF Fails
<1>7. CASE ~(cl[c].creating /\ r.disc["manual"] = "no")
  <2>1. cl' = [cl EXCEPT ![c] = r]
    BY <1>2, <1>7
  <2>2. Only(c) /\ cl'[c] = r
    BY <1>5, <2>1, Put DEF Same
  <2>3. ~(cl[c].creating /\ cl[c].disc["manual"] = "no")
    BY <1>5, <1>7
  <2> QED BY <1>1, <1>4, <1>5, <2>2, <2>3 DEF Fails, Ending, Same
<1> QED BY <1>6, <1>7

LEMMA Rejecting ==
  ASSUME Shaped, Sane, NEW c \in Client, NEW s, DialRejects(c, s)
  PROVE  Only(c) /\ Rejects(cl[c], cl'[c], s)
<1> DEFINE r == [cl[c] EXCEPT !.dialing = cl[c].dialing \ {s}, !.net = cl[c].net \ {s}]
           t == IF r.awaited = s THEN Aborted(r) ELSE r
           u == TornDown(t)
           v == [u EXCEPT !.failing = u.failing \cup {s}]
           n == IF r.sock = s THEN v ELSE t
<1>1. Shape(cl[c]) /\ s \in cl[c].dialing
  BY DEF Shaped, DialRejects
<1>2. cl' = [cl EXCEPT ![c] = n]
  BY DEF DialRejects
<1>3. Same(r, cl[c], {"dialing", "net"}) /\ r.dialing \subseteq cl[c].dialing /\ r.net \subseteq cl[c].net
  BY <1>1 DEF Same, Shape, Fields
<1> HIDE DEF r
<1>4. Same(Aborted(r), r, {"task"}) /\ Aborting(Aborted(r), r)
  BY <1>3, Aborts DEF Same
<1>5. /\ Same(t, r, {"task"})
      /\ t.task = (IF r.awaited = s /\ r.task = "dial" THEN "fault" ELSE r.task)
  BY <1>3, <1>4 DEF Same, Aborting
<1> HIDE DEF t
<1>6. /\ Same(t, cl[c], {"dialing", "net", "task"})
      /\ t.task = (IF cl[c].awaited = s /\ cl[c].task = "dial" THEN "fault" ELSE cl[c].task)
      /\ t.dialing \subseteq cl[c].dialing /\ t.net \subseteq cl[c].net
  BY <1>3, <1>5 DEF Same, Fields
<1>7. r.sock = cl[c].sock
  BY <1>3 DEF Same, Fields
<1>8. CASE cl[c].sock = s
  <2>1. Same(u, t, {"gen", "sock", "connected"}) /\ Tearing(u, t)
    BY <1>6, Tears DEF Same
  <2> HIDE DEF u
  <2>2. Same(v, u, {"failing"}) /\ v.failing = u.failing \cup {s}
    BY <2>1 DEF Same, Shape, Fields
  <2> HIDE DEF v
  <2>3. cl' = [cl EXCEPT ![c] = v]
    BY <1>2, <1>7, <1>8
  <2>4. Only(c) /\ cl'[c] = v
    BY <2>2, <2>3, Put DEF Same
  <2>5. Breaks(cl[c], v, s)
    BY <1>6, <1>8, <2>1, <2>2 DEF Breaks, Same, Fields, Tearing
  <2> QED BY <1>1, <2>4, <2>5 DEF Rejects
<1>9. CASE cl[c].sock # s
  <2>1. cl' = [cl EXCEPT ![c] = t]
    BY <1>2, <1>7, <1>9
  <2>2. Only(c) /\ cl'[c] = t
    BY <1>6, <2>1, Put DEF Same
  <2> QED BY <1>1, <1>6, <1>9, <2>2 DEF Rejects, Same
<1> QED BY <1>8, <1>9

LEMMA Overrunning ==
  ASSUME Shaped, Sane, NEW c \in Client, DialDeadline(c)
  PROVE  Only(c) /\ Overruns(cl[c], cl'[c])
<1> DEFINE s == cl[c].awaited
           t == Aborted(cl[c])
           u == TornDown(t)
           v == [u EXCEPT !.failing = u.failing \cup {s}, !.doomed = u.doomed \cup {s}]
           n == IF cl[c].sock = s /\ ~cl[c].intent THEN v ELSE t
<1>1. Shape(cl[c]) /\ cl[c].task = "dial"
  BY DEF Shaped, DialDeadline
<1>2. cl' = [cl EXCEPT ![c] = n]
  BY DEF DialDeadline
<1>3. Same(t, cl[c], {"task"}) /\ t.task = "fault"
  BY <1>1, Aborts DEF Aborting
<1> HIDE DEF t
<1>4. CASE cl[c].sock = s /\ ~cl[c].intent
  <2>1. Same(u, t, {"gen", "sock", "connected"}) /\ Tearing(u, t)
    BY <1>3, Tears DEF Same
  <2> HIDE DEF u
  <2>2. Same(v, u, {"failing", "doomed"}) /\ v.failing = u.failing \cup {s}
    BY <2>1 DEF Same, Shape, Fields
  <2> HIDE DEF v
  <2>3. cl' = [cl EXCEPT ![c] = v]
    BY <1>2, <1>4
  <2>4. Only(c) /\ cl'[c] = v
    BY <2>2, <2>3, Put DEF Same
  <2>5. Breaks(cl[c], v, s)
    BY <1>1, <1>3, <1>4, <2>1, <2>2 DEF Breaks, Same, Fields, Tearing
  <2> QED BY <1>1, <2>4, <2>5 DEF Overruns
<1>5. CASE ~(cl[c].sock = s /\ ~cl[c].intent)
  <2>1. cl' = [cl EXCEPT ![c] = t]
    BY <1>2, <1>5
  <2>2. Only(c) /\ cl'[c] = t
    BY <1>3, <2>1, Put DEF Same
  <2> QED BY <1>1, <1>3, <1>5, <2>2 DEF Overruns
<1> QED BY <1>4, <1>5

LEMMA Coping ==
  ASSUME Shaped, Sane, NEW c \in Client, NEW s, FailureHandled(c, s)
  PROVE  Only(c) /\ Copes(cl[c], cl'[c], s)
<1> DEFINE a == Released(cl[c])
           u == Scheduled(a)
           n == [u EXCEPT !.failing = u.failing \ {s}]
<1>1. Shape(cl[c]) /\ s \in cl[c].failing
  BY DEF Shaped, FailureHandled
<1>2. cl' = [cl EXCEPT ![c] = n]
  BY DEF FailureHandled
<1>3. Same(a, cl[c], {"lease"}) /\ ~a.lease
  BY <1>1, Releases
<1> HIDE DEF a
<1>4. Same(u, a, {"timer"}) /\ Scheduling(u, a)
  BY <1>3, Schedules DEF Same
<1> HIDE DEF u
<1>5. Same(n, u, {"failing"}) /\ n.failing = u.failing \ {s}
  BY <1>4 DEF Same, Shape, Fields
<1> HIDE DEF n
<1>6. Copes(cl[c], n, s)
  BY <1>1, <1>3, <1>4, <1>5 DEF Copes, Same, Fields, Scheduling
<1> QED BY <1>2, <1>5, <1>6, Put DEF Same

LEMMA Opening ==
  ASSUME Shaped, Sane, NEW c \in Client, NEW s, Open(c, s)
  PROVE  Only(c) /\ Opens(cl[c], cl'[c], s)
<1> DEFINE r == [cl[c] EXCEPT !.dialing = cl[c].dialing \ {s}]
           t == IF r.task = "dial" /\ r.awaited = s THEN TaskEnded(r) ELSE r
           v == [t EXCEPT !.opening = t.opening \cup {s}]
           n == IF IsCurrent(t, s) THEN v ELSE t
<1>1. Shape(cl[c]) /\ s \in cl[c].dialing
  BY DEF Shaped, Open
<1>2. cl' = [cl EXCEPT ![c] = n]
  BY DEF Open
<1>3. Same(r, cl[c], {"dialing"}) /\ r.dialing \subseteq cl[c].dialing
  BY <1>1 DEF Same, Shape, Fields
<1> HIDE DEF r
<1>4. Same(TaskEnded(r), r, {"task", "waits", "creating"}) /\ Ending(TaskEnded(r))
  BY <1>3, Ends DEF Same
<1>5. /\ Same(t, r, {"task", "waits", "creating"})
      /\ IF r.task = "dial" /\ r.awaited = s THEN Ending(t)
         ELSE t.task = r.task /\ t.waits = r.waits /\ t.creating = r.creating
  BY <1>3, <1>4 DEF Same
<1> HIDE DEF t
<1>6. Same(t, cl[c], {"dialing", "task", "waits", "creating"}) /\ t.dialing \subseteq cl[c].dialing
  BY <1>3, <1>5 DEF Same, Fields
<1>7. /\ IF cl[c].task = "dial" /\ cl[c].awaited = s THEN Ending(t)
         ELSE t.task = cl[c].task /\ t.waits = cl[c].waits /\ t.creating = cl[c].creating
  BY <1>3, <1>5 DEF Same, Fields
<1>8. t.opening = cl[c].opening /\ (IsCurrent(t, s) => IsCurrent(cl[c], s))
  BY <1>6 DEF Same, Fields, IsCurrent
<1>9. CASE IsCurrent(t, s)
  <2>1. Same(v, t, {"opening"}) /\ v.opening = t.opening \cup {s}
    BY <1>6 DEF Same, Shape, Fields
  <2> HIDE DEF v
  <2>2. Same(v, cl[c], {"dialing", "task", "waits", "creating", "opening"})
    BY <1>6, <2>1 DEF Same, Fields
  <2>3. v.dialing = t.dialing /\ v.task = t.task /\ v.waits = t.waits /\ v.creating = t.creating
    BY <2>1 DEF Same, Fields
  <2>4. Only(c) /\ cl'[c] = v
    BY <1>2, <1>9, <2>1, Put DEF Same
  <2> QED BY <1>1, <1>6, <1>7, <1>8, <1>9, <2>1, <2>2, <2>3, <2>4 DEF Opens, Ending
<1>10. CASE ~IsCurrent(t, s)
  <2>1. Same(t, cl[c], {"dialing", "task", "waits", "creating", "opening"})
    BY <1>6 DEF Same
  <2>2. Only(c) /\ cl'[c] = t
    BY <1>2, <1>6, <1>10, Put DEF Same
  <2> QED BY <1>1, <1>6, <1>7, <1>8, <2>1, <2>2 DEF Opens
<1> QED BY <1>9, <1>10

LEMMA Discarding ==
  ASSUME Shaped, Sane, NEW c \in Client, NEW s, NEW b, Discarded(c, s, b)
  PROVE  Only(c) /\ Discards(cl[c], cl'[c], s)
<1> DEFINE a == Released(cl[c])
           n == [a EXCEPT !.discarding = a.discarding \ {s},
                          !.closing = IF b /\ IsCurrent(cl[c], s) THEN a.closing \cup {s} ELSE a.closing,
                          !.net = a.net \ {s}]
<1>1. Shape(cl[c]) /\ s \in cl[c].discarding
  BY DEF Shaped, Discarded
<1>2. cl' = [cl EXCEPT ![c] = n]
  BY DEF Discarded
<1>3. Same(a, cl[c], {"lease"}) /\ ~a.lease
  BY <1>1, Releases
<1> HIDE DEF a
<1>4. /\ Same(n, a, {"discarding", "closing", "net"}) /\ n.discarding = a.discarding \ {s}
      /\ n.closing \in {a.closing, a.closing \cup {s}} /\ n.net = a.net \ {s}
  BY <1>3 DEF Same, Shape, Fields
<1> HIDE DEF n
<1>5. Discards(cl[c], n, s)
  BY <1>1, <1>3, <1>4 DEF Discards, Same, Fields
<1> QED BY <1>2, <1>4, <1>5, Put DEF Same

LEMMA Dropped ==
  ASSUME Shaped, Sane, NEW c \in Client, NEW s, NEW b, Close(c, s, b)
  PROVE  Only(c) /\ Drops(cl[c], cl'[c], s)
<1> DEFINE r == [cl[c] EXCEPT !.net = cl[c].net \ {s}]
           v == [r EXCEPT !.connected = FALSE, !.closing = r.closing \cup {s},
                          !.unlinked = r.unlinked \/ b]
           n == IF IsCurrent(r, s) THEN v ELSE r
<1>1. Shape(cl[c]) /\ s \in cl[c].net
  BY DEF Shaped, Close
<1>2. cl' = [cl EXCEPT ![c] = n]
  BY DEF Close
<1>3. Same(r, cl[c], {"net"}) /\ r.net = cl[c].net \ {s}
  BY <1>1 DEF Same, Shape, Fields
<1> HIDE DEF r
<1>4. CASE IsCurrent(r, s)
  <2>1. /\ Same(v, r, {"connected", "closing", "unlinked"}) /\ ~v.connected
        /\ v.closing = r.closing \cup {s} /\ (r.unlinked => v.unlinked)
    BY <1>3 DEF Same, Shape, Fields
  <2> HIDE DEF v
  <2>2. Only(c) /\ cl'[c] = v
    BY <1>2, <1>4, <2>1, Put DEF Same
  <2> QED BY <1>1, <1>3, <2>1, <2>2 DEF Drops, Same, Fields
<1>5. CASE ~IsCurrent(r, s)
  <2>1. Only(c) /\ cl'[c] = r
    BY <1>2, <1>3, <1>5, Put DEF Same
  <2> QED BY <1>1, <1>3, <2>1 DEF Drops
<1> QED BY <1>4, <1>5

LEMMA Closing ==
  ASSUME Shaped, Sane, NEW c \in Client, NEW s, Closed(c, s)
  PROVE  Only(c) /\ Closes(cl[c], cl'[c], s)
<1> DEFINE r == [cl[c] EXCEPT !.closing = cl[c].closing \ {s}]
           u == TornDown(r)
           a == Aborted(u)
           t == Released(a)
           v == Scheduled(t)
           n == IF ~(r.sock = s /\ ~r.intent) THEN r ELSE IF r.unlinked THEN t ELSE v
<1>1. Shape(cl[c]) /\ s \in cl[c].closing
  BY DEF Shaped, Closed
<1>2. cl' = [cl EXCEPT ![c] = n]
  BY DEF Closed
<1>3. Same(r, cl[c], {"closing"}) /\ r.closing = cl[c].closing \ {s}
  BY <1>1 DEF Same, Shape, Fields
<1> HIDE DEF r
<1>4. r.sock = cl[c].sock /\ r.intent = cl[c].intent /\ r.unlinked = cl[c].unlinked
  BY <1>3 DEF Same, Fields
<1>5. CASE ~(r.sock = s /\ ~r.intent)
  <2>1. Only(c) /\ cl'[c] = r
    BY <1>2, <1>3, <1>5, Put DEF Same
  <2> QED BY <1>1, <1>3, <1>4, <1>5, <2>1 DEF Closes
<1>6. CASE r.sock = s /\ ~r.intent
  <2>1. Same(u, r, {"gen", "sock", "connected"}) /\ Tearing(u, r)
    BY <1>3, Tears DEF Same
  <2> HIDE DEF u
  <2>2. Same(a, u, {"task"}) /\ Aborting(a, u)
    BY <2>1, Aborts DEF Same
  <2> HIDE DEF a
  <2>3. Same(t, a, {"lease"}) /\ ~t.lease
    BY <2>2, Releases DEF Same
  <2> HIDE DEF t
  <2>4. Same(v, t, {"timer"}) /\ Scheduling(v, t)
    BY <2>3, Schedules DEF Same
  <2> HIDE DEF v
  <2>5. /\ Same(t, cl[c], {"closing", "gen", "sock", "connected", "task", "lease"})
        /\ Tearing(t, cl[c]) /\ Aborting(t, cl[c]) /\ t.closing = cl[c].closing \ {s}
    BY <1>3, <2>1, <2>2, <2>3 DEF Same, Fields, Tearing, Aborting
  <2>6. CASE r.unlinked
    <3>1. Only(c) /\ cl'[c] = t
      BY <1>2, <1>6, <2>3, <2>6, Put DEF Same
    <3>2. Same(t, cl[c], {"closing", "gen", "sock", "connected", "task", "lease", "timer"}) /\ t.timer = cl[c].timer
      BY <2>5 DEF Same, Fields
    <3> QED BY <1>1, <1>4, <1>6, <2>3, <2>5, <2>6, <3>1, <3>2 DEF Closes
  <2>7. CASE ~r.unlinked
    <3>1. Only(c) /\ cl'[c] = v
      BY <1>2, <1>6, <2>4, <2>7, Put DEF Same
    <3>2. Same(v, cl[c], {"closing", "gen", "sock", "connected", "task", "lease", "timer"})
      BY <2>4, <2>5 DEF Same
    <3>3. Tearing(v, cl[c]) /\ Aborting(v, cl[c]) /\ v.closing = cl[c].closing \ {s} /\ ~v.lease
      BY <2>3, <2>4, <2>5 DEF Same, Fields, Tearing, Aborting
    <3>4. Scheduling(v, cl[c])
      BY <2>4, <2>5 DEF Same, Fields, Scheduling
    <3> QED BY <1>1, <1>4, <1>6, <2>7, <3>1, <3>2, <3>3, <3>4 DEF Closes
  <2> QED BY <2>6, <2>7
<1> QED BY <1>5, <1>6

LEMMA Losing ==
  ASSUME Shaped, Sane, NEW c \in Client, LoseOwnership(c)
  PROVE  Only(c) /\ Loses(cl[c], cl'[c])
<1> DEFINE u == TornDown(cl[c])
           a == Released(u)
           n == [a EXCEPT !.intent = TRUE, !.loss = "closing", !.lossSock = cl[c].sock]
<1>1. Shape(cl[c]) /\ cl[c].lease
  BY DEF Shaped, LoseOwnership
<1>2. cl' = [cl EXCEPT ![c] = n]
  BY DEF LoseOwnership
<1>3. Same(u, cl[c], {"gen", "sock", "connected"}) /\ Tearing(u, cl[c])
  BY <1>1, Tears
<1> HIDE DEF u
<1>4. Same(a, u, {"lease"}) /\ ~a.lease
  BY <1>3, Releases DEF Same
<1> HIDE DEF a
<1>5. Same(n, a, {"intent", "loss", "lossSock"}) /\ n.loss = "closing"
  BY <1>4 DEF Same, Shape, Fields
<1> HIDE DEF n
<1>6. Loses(cl[c], n)
  BY <1>1, <1>3, <1>4, <1>5 DEF Loses, Same, Fields, Tearing
<1> QED BY <1>2, <1>5, <1>6, Put DEF Same

LEMMA Departure ==
  ASSUME Shaped, Sane, NEW c \in Client, Disconnect(c) \/ LoggedOut(c)
  PROVE  Only(c) /\ Departs(cl[c], cl'[c])
<1> DEFINE n == Disconnecting(cl[c], "manual")
<1>1. Shape(cl[c]) /\ cl[c].disc \in [Calls -> Phase] /\ cl[c].made
  BY DEF Shaped, Sane, Sound, Disconnect, LoggedOut, Calls
<1>2. cl' = [cl EXCEPT ![c] = n]
  BY DEF Disconnect, LoggedOut
<1>3. Leaves(cl[c], n, "manual")
  BY <1>1, Disconnects DEF Calls
<1> HIDE DEF n
<1> QED BY <1>1, <1>2, <1>3, Put DEF Departs, Leaves, Same

LEMMA LoggingOut ==
  ASSUME Shaped, Sane, NEW c \in Client, Logout(c)
  PROVE  Only(c) /\ (Departs(cl[c], cl'[c]) \/ LogsOut(cl[c], cl'[c]))
<1> DEFINE d == Disconnecting(cl[c], "manual")
           e == [cl[c] EXCEPT !.intent = TRUE, !.retired = TRUE,
                              !.disc = [cl[c].disc EXCEPT !["manual"] = "logout"]]
<1>1. Shape(cl[c]) /\ cl[c].disc \in [Calls -> Phase] /\ cl[c].made
  BY DEF Shaped, Sane, Sound, Logout
<1>2. cl' = [cl EXCEPT ![c] = IF cl[c].sock = 0 THEN d ELSE e]
  BY DEF Logout
<1>3. Leaves(cl[c], d, "manual")
  BY <1>1, Disconnects DEF Calls
<1> HIDE DEF d
<1>4. /\ Same(e, cl[c], {"intent", "retired", "disc"}) /\ e.intent /\ e.retired
      /\ e.disc = [cl[c].disc EXCEPT !["manual"] = "logout"]
  BY <1>1 DEF Same, Shape, Fields
<1> HIDE DEF e
<1>5. Staging(e, cl[c], "manual", "logout")
  BY <1>1, <1>4 DEF Staging, Phase, Calls
<1>6. CASE cl[c].sock = 0
  <2>1. Only(c) /\ cl'[c] = d
    BY <1>2, <1>3, <1>6, Put DEF Leaves, Same
  <2> QED BY <1>1, <1>3, <2>1 DEF Departs
<1>7. CASE cl[c].sock # 0
  <2>1. Only(c) /\ cl'[c] = e
    BY <1>2, <1>4, <1>7, Put DEF Same
  <2> QED BY <1>1, <1>4, <1>5, <1>7, <2>1 DEF LogsOut
<1> QED BY <1>6, <1>7

LEMMA Recovering ==
  ASSUME Shaped, Sane, NEW c \in Client, Recover(c)
  PROVE  Only(c) /\ Recovers(cl[c], cl'[c])
<1> DEFINE d == Disconnecting(cl[c], "recovery")
           n == [d EXCEPT !.expected = cl[c].gen + 1]
<1>1. /\ Shape(cl[c]) /\ cl[c].disc \in [Calls -> Phase] /\ cl[c].sock # 0
      /\ cl[c].opened = cl[c].sock /\ ~cl[c].intent /\ cl[c].disc["recovery"] = "no"
  BY DEF Shaped, Sane, Sound, Recover
<1>2. cl' = [cl EXCEPT ![c] = n]
  BY DEF Recover
<1>3. Leaves(cl[c], d, "recovery")
  BY <1>1, Disconnects DEF Calls
<1> HIDE DEF d
<1>4. Same(n, d, {"expected"}) /\ n.expected = cl[c].gen + 1
  BY <1>3 DEF Leaves, Same, Shape, Fields
<1> HIDE DEF n
<1>5. Same(n, cl[c], Left \cup {"expected"})
  BY <1>3, <1>4 DEF Leaves, Same, Left
<1>6. Quits(cl[c], n, "recovery")
  BY <1>3, <1>4 DEF Leaves, Quits, Same, Fields, Tearing, Aborting, Staging
<1>7. Only(c) /\ cl'[c] = n
  BY <1>2, <1>4, Put DEF Same
<1> QED BY <1>1, <1>4, <1>5, <1>6, <1>7 DEF Recovers

LEMMA Shutting ==
  ASSUME Shaped, Sane, NEW c \in Client, NEW k \in Calls, NEW b, DisconnectClosed(c, k, b)
  PROVE  Only(c) /\ Shuts(cl[c], cl'[c], k)
<1> DEFINE n == [cl[c] EXCEPT !.disc = [cl[c].disc EXCEPT ![k] = "waiting"],
                              !.net = IF b THEN cl[c].net ELSE cl[c].net \ {cl[c].discSock[k]}]
<1>1. Shape(cl[c]) /\ cl[c].disc \in [Calls -> Phase] /\ cl[c].disc[k] = "closing"
  BY DEF Shaped, Sane, Sound, DisconnectClosed
<1>2. cl' = [cl EXCEPT ![c] = n]
  BY DEF DisconnectClosed
<1>3. /\ Same(n, cl[c], {"disc", "net"}) /\ n.disc = [cl[c].disc EXCEPT ![k] = "waiting"]
      /\ n.net \subseteq cl[c].net
  BY <1>1 DEF Same, Shape, Fields
<1> HIDE DEF n
<1>4. Staging(n, cl[c], k, "waiting")
  BY <1>1, <1>3 DEF Staging, Phase
<1>5. Only(c) /\ cl'[c] = n
  BY <1>2, <1>3, Put DEF Same
<1> QED BY <1>1, <1>3, <1>4, <1>5 DEF Shuts

LEMMA Finishing ==
  ASSUME Shaped, Sane, NEW c \in Client, NEW k \in Calls, Disconnected(c, k)
  PROVE  Only(c) /\ Finishes(cl[c], cl'[c], k)
<1> DEFINE a == Released(cl[c])
           r == [a EXCEPT !.disc = [a.disc EXCEPT ![k] = "no"],
                          !.creating = a.creating /\ k # "manual"]
           e == [r EXCEPT !.intent = FALSE]
           v == Scheduled(e)
           n == IF k = "recovery" /\ r.gen = r.expected THEN v ELSE r
<1>1. Shape(cl[c]) /\ cl[c].disc \in [Calls -> Phase] /\ cl[c].disc[k] = "status"
  BY DEF Shaped, Sane, Sound, Disconnected
<1>2. cl' = [cl EXCEPT ![c] = n]
  BY DEF Disconnected
<1>3. Same(a, cl[c], {"lease"}) /\ ~a.lease
  BY <1>1, Releases
<1> HIDE DEF a
<1>4. /\ Same(r, a, {"disc", "creating"}) /\ r.disc = [a.disc EXCEPT ![k] = "no"]
      /\ (r.creating => a.creating /\ k # "manual")
  BY <1>3 DEF Same, Shape, Fields
<1> HIDE DEF r
<1>5. /\ Same(r, cl[c], {"lease", "disc", "creating"}) /\ r.disc = [cl[c].disc EXCEPT ![k] = "no"]
      /\ (r.creating => cl[c].creating /\ k # "manual") /\ ~r.lease
      /\ r.gen = cl[c].gen /\ r.expected = cl[c].expected
  BY <1>3, <1>4 DEF Same, Fields
<1>6. Staging(r, cl[c], k, "no")
  BY <1>1, <1>5 DEF Staging, Phase
<1>7. CASE k = "recovery" /\ r.gen = r.expected
  <2>1. Same(e, r, {"intent"}) /\ ~e.intent
    BY <1>5 DEF Same, Shape, Fields
  <2> HIDE DEF e
  <2>2. Same(v, e, {"timer"}) /\ Scheduling(v, e)
    BY <2>1, Schedules DEF Same
  <2> HIDE DEF v
  <2>3. v.timer /\ ~v.intent
    BY <2>1, <2>2 DEF Same, Fields, Scheduling
  <2>4. Only(c) /\ cl'[c] = v
    BY <1>2, <1>7, <2>2, Put DEF Same
  <2>5. Same(v, cl[c], {"lease", "disc", "creating", "intent", "timer"})
    BY <1>5, <2>1, <2>2 DEF Same
  <2>6. v.lease = r.lease /\ v.disc = r.disc /\ v.creating = r.creating
    BY <2>1, <2>2 DEF Same, Fields
  <2> QED BY <1>1, <1>5, <1>6, <1>7, <2>3, <2>4, <2>5, <2>6 DEF Finishes, Staging
<1>8. CASE ~(k = "recovery" /\ r.gen = r.expected)
  <2>1. Only(c) /\ cl'[c] = r
    BY <1>2, <1>5, <1>8, Put DEF Same
  <2> QED BY <1>1, <1>5, <1>6, <1>8, <2>1 DEF Finishes
<1> QED BY <1>7, <1>8

LEMMA Looking ==
  ASSUME Shaped, Sane, NEW c \in Client, Lookup(c)
  PROVE  Only(c) /\ Looks(cl[c], cl'[c])
<1>1. Shape(cl[c]) /\ cl[c].disc \in [Calls -> Phase] /\ ~cl[c].made
  BY DEF Shaped, Sane, Sound, Lookup
<1> DEFINE n == [cl[c] EXCEPT !.asking = TRUE]
<1>2. cl' = [cl EXCEPT ![c] = n]
  BY DEF Lookup
<1>3. Looks(cl[c], n)
  BY <1>1 DEF Looks, Same, Shape, Fields
<1> HIDE DEF n
<1> QED BY <1>2, <1>3, Put DEF Looks, Same

LEMMA Waking ==
  ASSUME Shaped, Sane, NEW c \in Client, Reconnect(c)
  PROVE  Only(c) /\ Wakes(cl[c], cl'[c])
<1>1. Shape(cl[c]) /\ cl[c].disc \in [Calls -> Phase] /\ cl[c].timer /\ cl[c].task # "fault" /\ cl[c].discarding = {}
  BY DEF Shaped, Sane, Sound, Reconnect
<1>2. CASE cl[c].intent \/ cl[c].task # "none"
  <2> DEFINE n == [cl[c] EXCEPT !.timer = FALSE]
  <2>1. cl' = [cl EXCEPT ![c] = n]
    BY <1>1, <1>2 DEF Reconnect
  <2>2. Wakes(cl[c], n)
    BY <1>1, <1>2 DEF Wakes, Same, Shape, Fields
  <2>3. Shape(n)
    BY <2>2 DEF Wakes, Same
  <2> HIDE DEF n
  <2> QED BY <2>1, <2>2, <2>3, Put
<1>3. CASE ~(cl[c].intent \/ cl[c].task # "none")
  <2> DEFINE n == [cl[c] EXCEPT !.timer = FALSE, !.task = "config"]
  <2>1. cl' = [cl EXCEPT ![c] = n]
    BY <1>1, <1>3 DEF Reconnect
  <2>2. Wakes(cl[c], n)
    BY <1>1, <1>3 DEF Wakes, Same, Shape, Fields
  <2>3. Shape(n)
    BY <2>2 DEF Wakes, Same
  <2> HIDE DEF n
  <2> QED BY <2>1, <2>2, <2>3, Put
<1> QED BY <1>2, <1>3

LEMMA Connecting ==
  ASSUME Shaped, Sane, NEW c \in Client, SetConnecting(c)
  PROVE  Only(c) /\ Connects(cl[c], cl'[c])
<1>1. Shape(cl[c]) /\ cl[c].disc \in [Calls -> Phase] /\ cl[c].task = "status"
  BY DEF Shaped, Sane, Sound, SetConnecting
<1> DEFINE n == [cl[c] EXCEPT !.task = "prepare", !.prepGen = cl[c].gen]
<1>2. cl' = [cl EXCEPT ![c] = n]
  BY DEF SetConnecting
<1>3. Connects(cl[c], n)
  BY <1>1 DEF Connects, Same, Shape, Fields
<1> HIDE DEF n
<1> QED BY <1>2, <1>3, Put DEF Connects, Same

LEMMA Preparation ==
  ASSUME Shaped, Sane, NEW c \in Client, Prepared(c)
  PROVE  Only(c) /\ Prepares(cl[c], cl'[c])
<1>1. Shape(cl[c]) /\ cl[c].disc \in [Calls -> Phase] /\ cl[c].task = "prepare"
  BY DEF Shaped, Sane, Sound, Prepared
<1> DEFINE n == [cl[c] EXCEPT !.task = IF cl[c].intent \/ cl[c].prepGen # cl[c].gen THEN "fault" ELSE "load"]
<1>2. cl' = [cl EXCEPT ![c] = n]
  BY DEF Prepared
<1>3. Prepares(cl[c], n)
  BY <1>1 DEF Prepares, Same, Shape, Fields
<1> HIDE DEF n
<1> QED BY <1>2, <1>3, Put DEF Prepares, Same

LEMMA Throwing ==
  ASSUME Shaped, Sane, NEW c \in Client, ConnectThrows(c)
  PROVE  Only(c) /\ Throws(cl[c], cl'[c])
<1>1. Shape(cl[c]) /\ cl[c].disc \in [Calls -> Phase] /\ cl[c].task \in Preparing
  BY DEF Shaped, Sane, Sound, ConnectThrows, Preparing
<1> DEFINE n == [cl[c] EXCEPT !.task = "fault"]
<1>2. cl' = [cl EXCEPT ![c] = n]
  BY DEF ConnectThrows
<1>3. Throws(cl[c], n)
  BY <1>1 DEF Throws, Same, Shape, Fields
<1> HIDE DEF n
<1> QED BY <1>2, <1>3, Put DEF Throws, Same

LEMMA Prompting ==
  ASSUME Shaped, Sane, NEW c \in Client, Prompt(c)
  PROVE  Only(c) /\ Prompts(cl[c], cl'[c])
<1>1. Shape(cl[c]) /\ cl[c].disc \in [Calls -> Phase] /\ cl[c].task = "dial" /\ IsCurrent(cl[c], cl[c].awaited)
  BY DEF Shaped, Sane, Sound, Prompt
<1> DEFINE n == TaskEnded(cl[c])
<1>2. cl' = [cl EXCEPT ![c] = n]
  BY DEF Prompt
<1>3. Prompts(cl[c], n)
  BY <1>1 DEF Prompts, Same, Shape, Fields, TaskEnded, Ending
<1> HIDE DEF n
<1> QED BY <1>2, <1>3, Put DEF Prompts, Same

LEMMA Dooming ==
  ASSUME Shaped, Sane, NEW c \in Client, NEW s, CloseDoomed(c, s)
  PROVE  Only(c) /\ Dooms(cl[c], cl'[c])
<1>1. Shape(cl[c]) /\ cl[c].disc \in [Calls -> Phase] /\ TRUE
  BY DEF Shaped, Sane, Sound, CloseDoomed
<1> DEFINE n == [cl[c] EXCEPT !.doomed = cl[c].doomed \ {s}, !.net = cl[c].net \ {s}]
<1>2. cl' = [cl EXCEPT ![c] = n]
  BY DEF CloseDoomed
<1>3. Dooms(cl[c], n)
  BY <1>1 DEF Dooms, Same, Shape, Fields
<1> HIDE DEF n
<1> QED BY <1>2, <1>3, Put DEF Dooms, Same

LEMMA LossClosing ==
  ASSUME Shaped, Sane, NEW c \in Client, LossClosed(c)
  PROVE  Only(c) /\ LossWaits(cl[c], cl'[c])
<1>1. Shape(cl[c]) /\ cl[c].disc \in [Calls -> Phase] /\ cl[c].loss # "no"
  BY DEF Shaped, Sane, Sound, LossClosed
<1> DEFINE n == [cl[c] EXCEPT !.loss = "status", !.net = @ \ {cl[c].lossSock}]
<1>2. cl' = [cl EXCEPT ![c] = n]
  BY DEF LossClosed
<1>3. LossWaits(cl[c], n)
  BY <1>1 DEF LossWaits, Same, Shape, Fields
<1> HIDE DEF n
<1> QED BY <1>2, <1>3, Put DEF LossWaits, Same

LEMMA LossHandling ==
  ASSUME Shaped, Sane, NEW c \in Client, LossHandled(c)
  PROVE  Only(c) /\ LossEnds(cl[c], cl'[c])
<1>1. Shape(cl[c]) /\ cl[c].disc \in [Calls -> Phase] /\ cl[c].loss # "no"
  BY DEF Shaped, Sane, Sound, LossHandled
<1> DEFINE n == Scheduled([cl[c] EXCEPT !.intent = FALSE, !.loss = "no"])
<1>2. cl' = [cl EXCEPT ![c] = n]
  BY DEF LossHandled
<1>3. LossEnds(cl[c], n)
  BY <1>1 DEF LossEnds, Same, Shape, Fields, Scheduled
<1> HIDE DEF n
<1> QED BY <1>2, <1>3, Put DEF LossEnds, Same

LEMMA LossThrowing ==
  ASSUME Shaped, Sane, NEW c \in Client, LossStatusThrows(c)
  PROVE  Only(c) /\ LossEnds(cl[c], cl'[c])
<1>1. Shape(cl[c]) /\ cl[c].disc \in [Calls -> Phase] /\ cl[c].loss # "no"
  BY DEF Shaped, Sane, Sound, LossStatusThrows
<1> DEFINE n == [cl[c] EXCEPT !.loss = "no"]
<1>2. cl' = [cl EXCEPT ![c] = n]
  BY DEF LossStatusThrows
<1>3. LossEnds(cl[c], n)
  BY <1>1 DEF LossEnds, Same, Shape, Fields
<1> HIDE DEF n
<1> QED BY <1>2, <1>3, Put DEF LossEnds, Same

LEMMA Deregistering ==
  ASSUME Shaped, Sane, NEW c \in Client, NEW k \in Calls, Deregister(c, k)
  PROVE  Only(c) /\ Deregisters(cl[c], cl'[c], k)
<1>1. Shape(cl[c]) /\ cl[c].disc \in [Calls -> Phase] /\ cl[c].disc[k] = "waiting" /\ k \notin cl[c].waits
  BY DEF Shaped, Sane, Sound, Deregister
<1> DEFINE n == [cl[c] EXCEPT !.disc[k] = "status"]
<1>2. cl' = [cl EXCEPT ![c] = n]
  BY DEF Deregister
<1>3. Deregisters(cl[c], n, k)
  BY <1>1 DEF Deregisters, Same, Shape, Fields, Staging, Phase, Calls
<1> HIDE DEF n
<1> QED BY <1>2, <1>3, Put DEF Deregisters, Same

LEMMA Acquiring ==
  ASSUME Shaped, Sane, NEW c \in Client, Acquire(c)
  PROVE  /\ Only(c)
         /\ \/ /\ Wins(cl[c], cl'[c])
               /\ owner' = (IF cl[c].lease THEN owner ELSE c) /\ (cl[c].lease \/ owner = NoClient)
            \/ /\ Yields(cl[c], cl'[c]) /\ UNCHANGED owner
               /\ cl[c].sock = 0 /\ Map(c) = c => Scheduling(cl'[c], cl[c])
<1> DEFINE w == [cl[c] EXCEPT !.lease = TRUE, !.task = "status"]
           a == Scheduled(cl[c])
           e == TaskEnded(cl[c])
           f == TaskEnded(a)
<1>1. Shape(cl[c]) /\ cl[c].task = "config"
  BY DEF Shaped, Acquire
<1>2. IF cl[c].sock # 0 THEN cl' = [cl EXCEPT ![c] = e] /\ UNCHANGED owner
      ELSE IF cl[c].lease \/ owner = NoClient
      THEN cl' = [cl EXCEPT ![c] = w] /\ owner' = IF cl[c].lease THEN owner ELSE c
      ELSE cl' = [cl EXCEPT ![c] = IF Map(c) = c THEN f ELSE e] /\ UNCHANGED owner
  BY DEF Acquire
<1>3. Same(w, cl[c], {"lease", "task"}) /\ w.lease /\ w.task = "status"
  BY <1>1 DEF Same, Shape, Fields
<1>4. Same(a, cl[c], {"timer"}) /\ Scheduling(a, cl[c])
  BY <1>1, Schedules
<1>5. Same(e, cl[c], {"task", "waits", "creating"}) /\ Ending(e)
  BY <1>1, Ends
<1> HIDE DEF w, a, e
<1>6. Same(f, a, {"task", "waits", "creating"}) /\ Ending(f)
  BY <1>4, Ends DEF Same
<1> HIDE DEF f
<1>7. CASE cl' = [cl EXCEPT ![c] = e] /\ UNCHANGED owner /\ ~(cl[c].sock = 0 /\ Map(c) = c)
  <2>1. Only(c) /\ cl'[c] = e
    BY <1>5, <1>7, Put DEF Same
  <2>2. Yields(cl[c], e)
    BY <1>1, <1>5 DEF Yields, Same, Fields
  <2> QED BY <1>7, <2>1, <2>2
<1>8. CASE /\ cl' = [cl EXCEPT ![c] = w] /\ cl[c].sock = 0 /\ (cl[c].lease \/ owner = NoClient)
           /\ owner' = IF cl[c].lease THEN owner ELSE c
  <2>1. Only(c) /\ cl'[c] = w
    BY <1>3, <1>8, Put DEF Same
  <2>2. Wins(cl[c], w)
    BY <1>1, <1>3, <1>8 DEF Wins
  <2> QED BY <1>8, <2>1, <2>2
<1>9. CASE cl' = [cl EXCEPT ![c] = f] /\ cl[c].sock = 0 /\ UNCHANGED owner
  <2>1. Only(c) /\ cl'[c] = f
    BY <1>6, <1>9, Put DEF Same
  <2>2. Yields(cl[c], f) /\ Scheduling(f, cl[c])
    BY <1>1, <1>4, <1>6, <1>9 DEF Yields, Same, Fields, Scheduling
  <2> QED BY <1>9, <2>1, <2>2
<1> QED BY <1>2, <1>7, <1>8, <1>9

LEMMA Using ==
  ASSUME Shaped, Sane, NEW c \in Client, NEW s, Opened(c, s)
  PROVE  /\ Only(c)
         /\ \/ /\ Uses(cl[c], cl'[c], s) /\ Map(c) \in {NoClient, c} /\ status' = "online"
               /\ clients' = [clients EXCEPT ![cl[c].worker] = c]
            \/ Refuses(cl[c], cl'[c], s) /\ UNCHANGED <<clients, status>>
<1> DEFINE r == [cl[c] EXCEPT !.opening = cl[c].opening \ {s}]
           d == [r EXCEPT !.discarding = r.discarding \cup {s}]
           e == [r EXCEPT !.connected = TRUE, !.opened = s]
<1>1. Shape(cl[c]) /\ s \in cl[c].opening
  BY DEF Shaped, Opened
<1>2. /\ IF ~IsCurrent(r, s)
         THEN cl' = [cl EXCEPT ![c] = r] /\ UNCHANGED <<clients, status>>
         ELSE IF Map(c) \notin {NoClient, c}
         THEN cl' = [cl EXCEPT ![c] = d] /\ UNCHANGED <<clients, status>>
         ELSE /\ cl' = [cl EXCEPT ![c] = e]
              /\ clients' = [clients EXCEPT ![cl[c].worker] = c] /\ status' = "online"
  BY DEF Opened
<1>3. Same(r, cl[c], {"opening"}) /\ r.opening = cl[c].opening \ {s}
  BY <1>1 DEF Same, Shape, Fields
<1> HIDE DEF r
<1>4. Same(d, r, {"discarding"}) /\ d.discarding = r.discarding \cup {s}
  BY <1>3 DEF Same, Shape, Fields
<1>5. Same(e, r, {"connected", "opened"}) /\ e.connected /\ e.opened = s
  BY <1>3 DEF Same, Shape, Fields
<1> HIDE DEF d, e
<1>6. IsCurrent(r, s) => IsCurrent(cl[c], s)
  BY <1>3 DEF IsCurrent, Same, Fields
<1>7. Refuses(cl[c], r, s)
  BY <1>1, <1>3 DEF Refuses, Same, Fields
<1>8. CASE ~IsCurrent(r, s)
  <2>1. Only(c) /\ cl'[c] = r
    BY <1>2, <1>3, <1>8, Put DEF Same
  <2> QED BY <1>2, <1>7, <1>8, <2>1
<1>9. CASE IsCurrent(r, s) /\ Map(c) \notin {NoClient, c}
  <2>1. Only(c) /\ cl'[c] = d
    BY <1>2, <1>4, <1>9, Put DEF Same
  <2>2. Refuses(cl[c], d, s)
    BY <1>1, <1>3, <1>4, <1>6, <1>9 DEF Refuses, Same, Fields
  <2> QED BY <1>2, <1>9, <2>1, <2>2
<1>10. CASE IsCurrent(r, s) /\ Map(c) \in {NoClient, c}
  <2>1. Only(c) /\ cl'[c] = e
    BY <1>2, <1>5, <1>10, Put DEF Same
  <2>2. Uses(cl[c], e, s)
    BY <1>1, <1>3, <1>5, <1>6, <1>10 DEF Uses, Same, Fields
  <2> QED BY <1>2, <1>10, <2>1, <2>2
<1> QED BY <1>8, <1>9, <1>10

-----------------------------------------------------------------------------
(* What each relation keeps: first the cases that need an argument, then one *)
(* lemma per relation.                                                       *)

LEMMA SoundLoses ==
  ASSUME NEW r, NEW n, Sound(r), Loses(r, n)
  PROVE  Sound(n)
<1>1. /\ n.opened = r.opened /\ n.expected = r.expected /\ n.disc = r.disc /\ n.made = r.made
      /\ n.worker = r.worker /\ n.task = r.task /\ n.asking = r.asking /\ n.awaited = r.awaited /\ Sockets(n) = Sockets(r)
  BY DEF Loses, Same, Fields, Sockets
<1>2. n.gen = r.gen + 1 /\ n.sock = 0 /\ ~n.connected /\ r.lease
  BY DEF Loses, Tearing
<1> QED BY <1>1, <1>2 DEF Sound

LEMMA SoundDials ==
  ASSUME NEW r, NEW n, Sound(r), Dials(r, n)
  PROVE  Sound(n)
<1>1. /\ n.opened = r.opened /\ n.expected = r.expected /\ n.disc = r.disc /\ n.made = r.made
      /\ n.asking = r.asking /\ n.connected = r.connected /\ n.worker = r.worker
  BY DEF Dials, Same, Fields
<1>2. /\ n.opening = r.opening /\ n.discarding = r.discarding /\ n.closing = r.closing
      /\ n.failing = r.failing /\ n.connected = r.connected
  BY DEF Dials, Same, Fields
<1>3. /\ r.task = "load" /\ n.task = "dial" /\ n.gen = r.gen + 1 /\ n.sock = r.gen + 1 /\ n.awaited = r.gen + 1
      /\ n.dialing = r.dialing \cup {r.gen + 1} /\ n.net = r.net \cup {r.gen + 1}
  BY DEF Dials
<1>4. Sockets(n) \subseteq 1 .. n.gen
  BY <1>2, <1>3 DEF Sound, Sockets
<1> QED BY <1>1, <1>2, <1>3, <1>4 DEF Sound

LEMMA TimedOpens ==
  ASSUME NEW r, NEW n, NEW s, Sound(r), Timed(r), Leaving(r), Opens(r, n, s)
  PROVE  Timed(n)
<1>1. /\ n.timer = r.timer /\ n.sock = r.sock /\ n.intent = r.intent /\ n.failing = r.failing
      /\ n.discarding = r.discarding /\ n.lease = r.lease /\ n.prepGen = r.prepGen /\ n.gen = r.gen
      /\ n.awaited = r.awaited /\ n.opened = r.opened /\ n.disc = r.disc
  BY DEF Opens, Same, Fields
<1>2. n.task \in {r.task, "none"} /\ (n.task # r.task => ~n.creating) /\ (n.creating => r.creating)
  BY DEF Opens, Ending
<1>3. /\ s \in 1 .. r.gen
      /\ n.opening = r.opening \/ (n.opening = r.opening \cup {s} /\ IsCurrent(r, s))
  BY DEF Opens, Sound, Sockets
<1>4. ASSUME n.creating, IsCurrent(r, s) PROVE FALSE
  <2>1. r.sock = s /\ s # 0 /\ ~r.intent /\ r.creating
    BY <1>2, <1>3, <1>4 DEF IsCurrent
  <2>2. r.task # "none" /\ r.task \notin Preparing /\ r.task # "fault"
    BY <2>1 DEF Timed, Leaving, Calls
  <2>3. r.task # "dial"
    BY <1>4, <2>1 DEF Opens, Timed, Ending
  <2> QED BY <2>1, <2>2, <2>3 DEF Sound, Preparing, Idle
<1> QED BY <1>1, <1>2, <1>3, <1>4 DEF Timed, Idle, Preparing

LEMMA TimedCloses ==
  ASSUME NEW r, NEW n, NEW s, Sound(r), Timed(r), Leaving(r), Closes(r, n, s)
  PROVE  Timed(n)
<1>1. CASE Same(n, r, {"closing"})
  BY <1>1 DEF Same, Fields, Timed
<1>2. CASE s = r.sock /\ ~r.intent
  <2>1. /\ n.intent = r.intent /\ n.failing = r.failing
        /\ n.discarding = r.discarding /\ n.prepGen = r.prepGen
        /\ n.awaited = r.awaited /\ n.opened = r.opened /\ n.disc = r.disc /\ n.creating = r.creating
        /\ n.opening = r.opening
    BY <1>2 DEF Closes, Same, Fields
  <2>2. r.sock # 0
    BY <1>2 DEF Closes, Sound, Sockets
  <2>3. n.sock = 0 /\ n.task = (IF r.task = "dial" THEN "fault" ELSE r.task)
    BY <1>2 DEF Closes, Tearing, Aborting
  <2>4. r.task \notin Preparing /\ r.failing = {} /\ r.task # "fault"
    BY <1>2, <2>2 DEF Timed
  <2>5. n.task \in {"none", "fault"} /\ (r.task # "none" => n.task # "none")
    BY <2>3, <2>4 DEF Preparing, Sound, Timed, Idle
  <2> QED BY <1>2, <2>1, <2>2, <2>3, <2>4, <2>5 DEF Timed, Preparing, Idle
<1> QED BY <1>1, <1>2 DEF Closes

LEMMA TimedRecovers ==
  ASSUME NEW r, NEW n, Sound(r), Timed(r), Leaving(r), Recovers(r, n)
  PROVE  Timed(n)
<1>1. /\ n.failing = r.failing /\ n.discarding = r.discarding /\ n.prepGen = r.prepGen
      /\ n.awaited = r.awaited /\ n.opened = r.opened /\ n.creating = r.creating
  BY DEF Recovers, Same, Fields, Left
<1>2. /\ n.sock = 0 /\ n.intent /\ ~n.timer
      /\ n.task = (IF r.task = "dial" THEN "fault" ELSE r.task)
  BY DEF Recovers, Quits, Tearing, Aborting
<1>3. r.sock # 0 /\ r.opened = r.sock
  BY DEF Recovers
<1>4. r.failing = {} /\ r.task \notin Preparing /\ ~r.creating
  BY <1>3 DEF Timed
<1>5. n.task \in Idle
  BY <1>2, <1>4 DEF Sound, Idle
<1> QED BY <1>1, <1>2, <1>4, <1>5 DEF Timed, Preparing, Idle

LEMMA TimedRejects ==
  ASSUME NEW r, NEW n, NEW s, Sound(r), Timed(r), Leaving(r), Rejects(r, n, s)
  PROVE  Timed(n)
<1>1. s \in 1 .. r.gen
  BY DEF Rejects, Sound, Sockets
<1>2. CASE Breaks(r, n, s)
  <2>1. /\ n.intent = r.intent /\ n.discarding = r.discarding /\ n.prepGen = r.prepGen
        /\ n.timer = r.timer /\ n.lease = r.lease /\ n.disc = r.disc /\ n.opening = r.opening
        /\ n.awaited = r.awaited /\ n.opened = r.opened /\ n.creating = r.creating
    BY <1>2 DEF Breaks, Same, Fields
  <2>2. /\ s = r.sock /\ n.sock = 0 /\ n.failing = r.failing \cup {s}
        /\ n.task = (IF r.awaited = s /\ r.task = "dial" THEN "fault" ELSE r.task)
    BY <1>2 DEF Breaks, Tearing
  <2>3. r.failing = {} /\ ~r.timer /\ r.task \notin Preparing /\ (r.task = "dial" => r.awaited = s)
    BY <1>1, <2>2 DEF Timed
  <2>4. n.task \in Idle /\ (r.task # "none" => n.task # "none")
    BY <2>2, <2>3 DEF Sound, Idle
  <2> QED BY <2>1, <2>2, <2>3, <2>4 DEF Timed, Preparing, Idle
<1>3. CASE ~Breaks(r, n, s)
  <2>1. s # r.sock /\ Same(n, r, {"task", "dialing", "net"})
        /\ n.task = (IF r.awaited = s /\ r.task = "dial" THEN "fault" ELSE r.task)
    BY <1>3 DEF Rejects
  <2>2. n.task = r.task
    BY <2>1 DEF Timed
  <2> QED BY <2>1, <2>2 DEF Timed, Same, Fields
<1> QED BY <1>2, <1>3

LEMMA LeavingDeparts ==
  ASSUME NEW r, NEW n, Sound(r), Timed(r), Leaving(r), Departs(r, n)
  PROVE  Leaving(n)
<1>1. /\ n.loss = r.loss /\ n.failing = r.failing /\ n.creating = r.creating /\ n.opened = r.opened
      /\ n.expected = r.expected
  BY DEF Departs, Leaves, Same, Fields, Left
<1>2. /\ n.sock = 0 /\ n.gen = r.gen + 1 /\ ~n.connected /\ n.intent /\ ~n.timer /\ n.retired
      /\ n.task = (IF r.task = "dial" THEN "fault" ELSE r.task)
  BY DEF Departs, Leaves, Quits, Tearing, Aborting
<1>3. n.disc["manual"] = "closing" /\ n.disc["recovery"] = r.disc["recovery"]
  BY DEF Departs, Leaves, Quits, Staging, Calls
<1>4. /\ r.task # "none" => "manual" \in n.waits
      /\ "recovery" \in r.waits => "recovery" \in n.waits
  BY DEF Departs, Leaves, Quits
<1>5. (r.task = "none" => n.task = "none") /\ (n.task # "none" => r.task # "none")
  BY <1>2
<1>6. \A k \in Calls : n.disc[k] \in {"closing", "waiting"} /\ n.task # "none" => k \in n.waits
  BY <1>3, <1>4, <1>5 DEF Leaving, Calls
<1>7. \A k \in Calls : n.disc[k] = "status" => n.task = "none"
  BY <1>3, <1>5 DEF Leaving, Calls
<1>8. r.disc["recovery"] # "no" => /\ r.failing = {} /\ r.task \in Idle /\ ~r.creating /\ r.gen >= r.expected
  BY DEF Leaving
<1>9. r.task \in Idle => n.task \in Idle
  BY <1>2 DEF Idle
<1>10. r.gen >= r.expected => n.gen >= n.expected /\ n.gen # n.expected
  BY <1>1, <1>2 DEF Sound
<1>11. n.disc["recovery"] # "no" =>
         /\ n.sock = 0 /\ n.failing = {} /\ n.task \in Idle /\ ~n.creating /\ n.gen >= n.expected
         /\ n.gen # n.expected
  BY <1>1, <1>2, <1>3, <1>8, <1>9, <1>10
<1> QED BY <1>1, <1>2, <1>3, <1>6, <1>7, <1>11 DEF Leaving, Calls

LEMMA LeavingRecovers ==
  ASSUME NEW r, NEW n, Sound(r), Timed(r), Leaving(r), Recovers(r, n)
  PROVE  Leaving(n)
<1>1. /\ n.loss = r.loss /\ n.failing = r.failing /\ n.creating = r.creating /\ n.opened = r.opened
  BY DEF Recovers, Same, Fields, Left
<1>2. /\ n.sock = 0 /\ n.gen = r.gen + 1 /\ ~n.connected /\ n.intent /\ ~n.timer
      /\ n.task = (IF r.task = "dial" THEN "fault" ELSE r.task) /\ (n.retired => r.retired)
  BY DEF Recovers, Quits, Tearing, Aborting
<1>3. n.disc["recovery"] = "closing" /\ n.disc["manual"] = r.disc["manual"]
  BY DEF Recovers, Quits, Staging, Calls
<1>4. r.task # "none" => "recovery" \in n.waits
  BY DEF Recovers, Quits
<1>5. n.expected = r.gen + 1 /\ r.sock # 0 /\ r.opened = r.sock /\ ~r.intent
  BY DEF Recovers
<1>6. ~r.retired /\ r.disc["manual"] = "no" /\ r.loss = "no"
  BY <1>5 DEF Leaving, Dead, Sound, Calls
<1>7. r.failing = {} /\ r.task \notin Preparing /\ ~r.creating
  BY <1>5 DEF Timed
<1>8. n.task \in Idle /\ (n.task # "none" => r.task # "none")
  BY <1>2, <1>7 DEF Sound, Idle
<1>9. n.gen >= n.expected /\ n.gen = n.expected
  BY <1>2, <1>5 DEF Sound
<1> QED BY <1>1, <1>2, <1>3, <1>4, <1>6, <1>7, <1>8, <1>9 DEF Leaving, Calls

LEMMA LeavingDials ==
  ASSUME NEW r, NEW n, Sound(r), Timed(r), Leaving(r), Dials(r, n)
  PROVE  Leaving(n)
<1>1. /\ n.loss = r.loss /\ n.failing = r.failing /\ n.creating = r.creating /\ n.opened = r.opened
      /\ n.expected = r.expected /\ n.disc = r.disc /\ n.waits = r.waits /\ n.connected = r.connected
      /\ n.retired = r.retired /\ n.intent = r.intent
  BY DEF Dials, Same, Fields
<1>2. n.sock = r.gen + 1 /\ r.task = "load"
  BY DEF Dials
<1>3. n.opened # n.sock
  BY <1>1, <1>2 DEF Sound
<1>4. r.disc["recovery"] = "no" /\ ~Dead(r) /\ \A k \in Calls : r.disc[k] # "status"
  BY <1>2 DEF Leaving, Dead, Idle
<1> QED BY <1>1, <1>2, <1>3, <1>4 DEF Leaving, Calls

LEMMA SoundDeparts ==
  ASSUME NEW r, NEW n, Sound(r), Departs(r, n)
  PROVE  Sound(n)
<1>1. /\ n.opened = r.opened /\ n.expected = r.expected /\ n.made = r.made
      /\ n.asking = r.asking /\ n.awaited = r.awaited /\ n.worker = r.worker
  BY DEF Departs, Leaves, Left, Same, Fields
<1>4. /\ n.dialing = r.dialing /\ n.net = r.net /\ n.opening = r.opening
      /\ n.discarding = r.discarding /\ n.closing = r.closing /\ n.failing = r.failing
  BY DEF Departs, Leaves, Left, Same, Fields
<1>2. /\ n.gen = r.gen + 1 /\ n.sock = 0 /\ ~n.connected /\ r.made
      /\ n.task = (IF r.task = "dial" THEN "fault" ELSE r.task)
  BY DEF Departs, Leaves, Quits, Tearing, Aborting
<1>3. n.disc \in [Calls -> Phase]
  BY DEF Departs, Leaves, Quits, Staging
<1> QED BY <1>1, <1>2, <1>3, <1>4 DEF Sound, Idle, Sockets

LEMMA TimedDeparts ==
  ASSUME NEW r, NEW n, Sound(r), Timed(r), Leaving(r), Departs(r, n)
  PROVE  Timed(n)
<1>1. /\ n.failing = r.failing /\ n.discarding = r.discarding /\ n.prepGen = r.prepGen
      /\ n.awaited = r.awaited /\ n.opened = r.opened /\ n.creating = r.creating
      /\ n.lease = r.lease /\ n.opening = r.opening
  BY DEF Departs, Leaves, Same, Fields, Left
<1>2. /\ n.sock = 0 /\ n.intent /\ ~n.timer /\ n.disc["manual"] = "closing"
      /\ n.task = (IF r.task = "dial" THEN "fault" ELSE r.task)
  BY DEF Departs, Leaves, Quits, Tearing, Aborting, Staging
<1>3. r.task \in Idle => n.task \in Idle
  BY <1>2 DEF Idle
<1>4. n.task # "dial" /\ (n.task \in Preparing => n.task = r.task)
  BY <1>2 DEF Preparing
<1> QED BY <1>1, <1>2, <1>3, <1>4 DEF Timed

LEMMA DroppingDeparts ==
  ASSUME NEW r, NEW n, Sound(r), Timed(r), Leaving(r), Dropping(r), Departs(r, n),
         r.disc["manual"] # "no"
  PROVE  Dropping(n)
<1>1. n.net = r.net /\ n.lease = r.lease
  BY DEF Departs, Leaves, Same, Fields, Left
<1>2. /\ n.sock = 0 /\ n.disc["recovery"] = r.disc["recovery"]
      /\ n.task = (IF r.task = "dial" THEN "fault" ELSE r.task)
  BY DEF Departs, Leaves, Quits, Tearing, Aborting, Staging, Calls
<1>3. r.intent /\ r.disc["recovery"] = "no"
  BY DEF Leaving, Dropping, Calls
<1>4. n.task \in Idle
  BY <1>2, <1>3 DEF Dropping, Idle
<1>5. 0 \notin n.net
  BY <1>1 DEF Sound, Sockets
<1> QED BY <1>1, <1>2, <1>3, <1>4, <1>5 DEF Dropping

LEMMA LooksKeeps ==
  ASSUME NEW r, NEW n, Looks(r, n), Sound(r)
  PROVE  Keeps(r, n, {})
<1>1. Sound(n) /\ n.worker = r.worker
  BY DEF Looks, Same, Fields, Calls, Sound, Sockets, Phase, Idle, Preparing
<1>2. ASSUME Ready(r) PROVE Timed(n)
  BY <1>2 DEF Looks, Same, Fields, Calls, Ready, Sound, Sockets, Timed, Leaving, Dead, Idle,
         Preparing
<1>3. ASSUME Ready(r) PROVE Leaving(n)
  BY <1>3 DEF Looks, Same, Fields, Calls, Ready, Sound, Sockets, Timed, Leaving, Dead, Idle,
         Preparing, Phase
<1>4. ASSUME Ready(r), Excused(r) PROVE Excused(n)
  BY <1>4 DEF Looks, Same, Fields, Ready, Sound, Sockets, Timed, Leaving, Excused, Idle,
         Preparing
<1>5. ASSUME Ready(r), Dropping(r) PROVE Dropping(n)
  BY <1>5 DEF Looks, Same, Fields, Calls, Ready, Sound, Sockets, Timed, Leaving, Dropping,
         Idle, Preparing
<1>6. ASSUME Ready(r), Excused(r), Hoped(r) PROVE Hoped(n)
  BY <1>6 DEF Looks, Same, Fields, Calls, Ready, Sound, Sockets, Timed, Leaving, Excused,
         Hoped, Idle, Preparing
<1>7. ASSUME Ready(r), Registers(n) PROVE Registers(r)
  BY <1>7 DEF Looks, Same, Fields, Calls, Ready, Sound, Sockets, Timed, Leaving, Registers,
         Idle, Preparing
<1>8. ASSUME r.disc["recovery"] = "no" PROVE n.disc["recovery"] = "no"
  BY <1>8 DEF Looks, Same, Fields, Calls, Sound
<1>9. ASSUME Corrects(r) PROVE Corrects(n)
  BY <1>9 DEF Looks, Same, Fields, Calls, Sound, Sockets, Corrects
<1>10. ASSUME Ready(r), r.retired, n.timer PROVE r.timer
  BY <1>10 DEF Looks, Same, Fields, Ready, Sound, Sockets, Timed, Leaving, Dead, Idle,
         Preparing
<1>11. ASSUME Ready(r) PROVE n.net \subseteq r.net \/ r.lease
  BY <1>11 DEF Looks, Same, Fields, Ready, Timed, Preparing
<1> QED BY <1>1, <1>2, <1>3, <1>4, <1>5, <1>6, <1>7, <1>8, <1>9, <1>10, <1>11 DEF Keeps, Ready

LEMMA BeginsKeeps ==
  ASSUME NEW r, NEW n, Begins(r, n), Sound(r)
  PROVE  Keeps(r, n, {"registers"})
<1>1. Sound(n) /\ n.worker = r.worker
  BY DEF Begins, Blank, Same, Fields, Calls, Sound, Sockets, Phase, Idle, Preparing
<1>2. ASSUME Ready(r) PROVE Timed(n)
  BY <1>2 DEF Begins, Blank, Same, Fields, Calls, Ready, Sound, Sockets, Timed, Leaving, Dead,
         Idle, Preparing
<1>3. ASSUME Ready(r) PROVE Leaving(n)
  BY <1>3 DEF Begins, Blank, Same, Fields, Calls, Ready, Sound, Sockets, Timed, Leaving, Dead,
         Idle, Preparing, Phase
<1>4. ASSUME Ready(r), Excused(r) PROVE Excused(n)
  BY <1>4 DEF Begins, Blank, Same, Fields, Ready, Sound, Sockets, Timed, Leaving, Excused,
         Idle, Preparing
<1>5. ASSUME Ready(r), Dropping(r) PROVE Dropping(n)
  BY <1>5 DEF Begins, Blank, Same, Fields, Calls, Ready, Sound, Sockets, Timed, Leaving,
         Dropping, Idle, Preparing
<1>6. ASSUME Ready(r), Excused(r), Hoped(r) PROVE Hoped(n)
  BY <1>6 DEF Begins, Blank, Same, Fields, Calls, Ready, Sound, Sockets, Timed, Leaving,
         Excused, Hoped, Idle, Preparing
<1>7. ASSUME r.disc["recovery"] = "no" PROVE n.disc["recovery"] = "no"
  BY <1>7 DEF Begins, Blank, Same, Fields, Calls, Sound
<1>8. ASSUME Corrects(r) PROVE Corrects(n)
  BY <1>8 DEF Begins, Blank, Same, Fields, Calls, Sound, Sockets, Corrects
<1>9. ASSUME Ready(r), r.retired, n.timer PROVE r.timer
  BY <1>9 DEF Begins, Blank, Same, Fields, Ready, Sound, Sockets, Timed, Leaving, Dead, Idle,
         Preparing
<1>10. ASSUME Ready(r) PROVE n.net \subseteq r.net \/ r.lease
  BY <1>10 DEF Begins, Blank, Same, Fields, Ready, Timed, Preparing
<1> QED BY <1>1, <1>2, <1>3, <1>4, <1>5, <1>6, <1>7, <1>8, <1>9, <1>10 DEF Keeps, Ready

LEMMA WakesKeeps ==
  ASSUME NEW r, NEW n, Wakes(r, n), Sound(r)
  PROVE  Keeps(r, n, {})
<1>1. Sound(n) /\ n.worker = r.worker
  BY DEF Wakes, Same, Fields, Calls, Sound, Sockets, Phase, Idle, Preparing
<1>2. ASSUME Ready(r) PROVE Timed(n)
  BY <1>2 DEF Wakes, Same, Fields, Calls, Ready, Sound, Sockets, Timed, Leaving, Dead, Idle,
         Preparing
<1>3. ASSUME Ready(r) PROVE Leaving(n)
  BY <1>3 DEF Wakes, Same, Fields, Calls, Ready, Sound, Sockets, Timed, Leaving, Dead, Idle,
         Preparing, Phase
<1>4. ASSUME Ready(r), Excused(r) PROVE Excused(n)
  BY <1>4 DEF Wakes, Same, Fields, Ready, Sound, Sockets, Timed, Leaving, Excused, Idle,
         Preparing
<1>5. ASSUME Ready(r), Dropping(r) PROVE Dropping(n)
  BY <1>5 DEF Wakes, Same, Fields, Calls, Ready, Sound, Sockets, Timed, Leaving, Dropping,
         Idle, Preparing
<1>6. ASSUME Ready(r), Excused(r), Hoped(r) PROVE Hoped(n)
  BY <1>6 DEF Wakes, Same, Fields, Calls, Ready, Sound, Sockets, Timed, Leaving, Excused,
         Hoped, Idle, Preparing
<1>7. ASSUME Ready(r), Registers(n) PROVE Registers(r)
  BY <1>7 DEF Wakes, Same, Fields, Calls, Ready, Sound, Sockets, Timed, Leaving, Registers,
         Idle, Preparing
<1>8. ASSUME r.disc["recovery"] = "no" PROVE n.disc["recovery"] = "no"
  BY <1>8 DEF Wakes, Same, Fields, Calls, Sound
<1>9. ASSUME Corrects(r) PROVE Corrects(n)
  BY <1>9 DEF Wakes, Same, Fields, Calls, Sound, Sockets, Corrects
<1>10. ASSUME Ready(r), r.retired, n.timer PROVE r.timer
  BY <1>10 DEF Wakes, Same, Fields, Ready, Sound, Sockets, Timed, Leaving, Dead, Idle,
         Preparing
<1>11. ASSUME Ready(r) PROVE n.net \subseteq r.net \/ r.lease
  BY <1>11 DEF Wakes, Same, Fields, Ready, Timed, Preparing
<1> QED BY <1>1, <1>2, <1>3, <1>4, <1>5, <1>6, <1>7, <1>8, <1>9, <1>10, <1>11 DEF Keeps, Ready

LEMMA WinsKeeps ==
  ASSUME NEW r, NEW n, Wins(r, n), Sound(r)
  PROVE  Keeps(r, n, {})
<1>1. Sound(n) /\ n.worker = r.worker
  BY DEF Wins, Same, Fields, Calls, Sound, Sockets, Phase, Idle, Preparing
<1>2. ASSUME Ready(r) PROVE Timed(n)
  BY <1>2 DEF Wins, Same, Fields, Calls, Ready, Sound, Sockets, Timed, Leaving, Dead, Idle,
         Preparing
<1>3. ASSUME Ready(r) PROVE Leaving(n)
  BY <1>3 DEF Wins, Same, Fields, Calls, Ready, Sound, Sockets, Timed, Leaving, Dead, Idle,
         Preparing, Phase
<1>4. ASSUME Ready(r), Excused(r) PROVE Excused(n)
  BY <1>4 DEF Wins, Same, Fields, Ready, Sound, Sockets, Timed, Leaving, Excused, Idle,
         Preparing
<1>5. ASSUME Ready(r), Dropping(r) PROVE Dropping(n)
  BY <1>5 DEF Wins, Same, Fields, Calls, Ready, Sound, Sockets, Timed, Leaving, Dropping, Idle,
         Preparing
<1>6. ASSUME Ready(r), Excused(r), Hoped(r) PROVE Hoped(n)
  BY <1>6 DEF Wins, Same, Fields, Calls, Ready, Sound, Sockets, Timed, Leaving, Excused, Hoped,
         Idle, Preparing
<1>7. ASSUME Ready(r), Registers(n) PROVE Registers(r)
  BY <1>7 DEF Wins, Same, Fields, Calls, Ready, Sound, Sockets, Timed, Leaving, Registers,
         Idle, Preparing
<1>8. ASSUME r.disc["recovery"] = "no" PROVE n.disc["recovery"] = "no"
  BY <1>8 DEF Wins, Same, Fields, Calls, Sound
<1>9. ASSUME Corrects(r) PROVE Corrects(n)
  BY <1>9 DEF Wins, Same, Fields, Calls, Sound, Sockets, Corrects
<1>10. ASSUME Ready(r), r.retired, n.timer PROVE r.timer
  BY <1>10 DEF Wins, Same, Fields, Ready, Sound, Sockets, Timed, Leaving, Dead, Idle,
         Preparing
<1>11. ASSUME Ready(r) PROVE n.net \subseteq r.net \/ r.lease
  BY <1>11 DEF Wins, Same, Fields, Ready, Timed, Preparing
<1> QED BY <1>1, <1>2, <1>3, <1>4, <1>5, <1>6, <1>7, <1>8, <1>9, <1>10, <1>11 DEF Keeps, Ready

LEMMA YieldsKeeps ==
  ASSUME NEW r, NEW n, Yields(r, n), Sound(r)
  PROVE  Keeps(r, n, {"hoped"})
<1>1. Sound(n) /\ n.worker = r.worker
  BY DEF Yields, Ending, Same, Fields, Calls, Sound, Sockets, Phase, Idle, Preparing
<1>2. ASSUME Ready(r) PROVE Timed(n)
  BY <1>2 DEF Yields, Ending, Same, Fields, Calls, Ready, Sound, Sockets, Timed, Leaving, Dead,
         Idle, Preparing
<1>3. ASSUME Ready(r) PROVE Leaving(n)
  BY <1>3 DEF Yields, Ending, Same, Fields, Calls, Ready, Sound, Sockets, Timed, Leaving, Dead,
         Idle, Preparing, Phase
<1>4. ASSUME Ready(r), Excused(r) PROVE Excused(n)
  BY <1>4 DEF Yields, Ending, Same, Fields, Ready, Sound, Sockets, Timed, Leaving, Excused,
         Idle, Preparing
<1>5. ASSUME Ready(r), Dropping(r) PROVE Dropping(n)
  BY <1>5 DEF Yields, Ending, Same, Fields, Calls, Ready, Sound, Sockets, Timed, Leaving,
         Dropping, Idle, Preparing
<1>6. ASSUME Ready(r), Registers(n) PROVE Registers(r)
  BY <1>6 DEF Yields, Ending, Same, Fields, Calls, Ready, Sound, Sockets, Timed, Leaving,
         Registers, Idle, Preparing
<1>7. ASSUME r.disc["recovery"] = "no" PROVE n.disc["recovery"] = "no"
  BY <1>7 DEF Yields, Ending, Same, Fields, Calls, Sound
<1>8. ASSUME Corrects(r) PROVE Corrects(n)
  BY <1>8 DEF Yields, Ending, Same, Fields, Calls, Sound, Sockets, Corrects
<1>9. ASSUME Ready(r), r.retired, n.timer PROVE r.timer
  BY <1>9 DEF Yields, Ending, Same, Fields, Ready, Sound, Sockets, Timed, Leaving, Dead, Idle,
         Preparing
<1>10. ASSUME Ready(r) PROVE n.net \subseteq r.net \/ r.lease
  BY <1>10 DEF Yields, Ending, Same, Fields, Ready, Timed, Preparing
<1> QED BY <1>1, <1>2, <1>3, <1>4, <1>5, <1>6, <1>7, <1>8, <1>9, <1>10 DEF Keeps, Ready

LEMMA ConnectsKeeps ==
  ASSUME NEW r, NEW n, Connects(r, n), Sound(r)
  PROVE  Keeps(r, n, {})
<1>1. Sound(n) /\ n.worker = r.worker
  BY DEF Connects, Same, Fields, Calls, Sound, Sockets, Phase, Idle, Preparing
<1>2. ASSUME Ready(r) PROVE Timed(n)
  BY <1>2 DEF Connects, Same, Fields, Calls, Ready, Sound, Sockets, Timed, Leaving, Dead, Idle,
         Preparing
<1>3. ASSUME Ready(r) PROVE Leaving(n)
  BY <1>3 DEF Connects, Same, Fields, Calls, Ready, Sound, Sockets, Timed, Leaving, Dead, Idle,
         Preparing, Phase
<1>4. ASSUME Ready(r), Excused(r) PROVE Excused(n)
  BY <1>4 DEF Connects, Same, Fields, Ready, Sound, Sockets, Timed, Leaving, Excused, Idle,
         Preparing
<1>5. ASSUME Ready(r), Dropping(r) PROVE Dropping(n)
  BY <1>5 DEF Connects, Same, Fields, Calls, Ready, Sound, Sockets, Timed, Leaving, Dropping,
         Idle, Preparing
<1>6. ASSUME Ready(r), Excused(r), Hoped(r) PROVE Hoped(n)
  BY <1>6 DEF Connects, Same, Fields, Calls, Ready, Sound, Sockets, Timed, Leaving, Excused,
         Hoped, Idle, Preparing
<1>7. ASSUME Ready(r), Registers(n) PROVE Registers(r)
  BY <1>7 DEF Connects, Same, Fields, Calls, Ready, Sound, Sockets, Timed, Leaving, Registers,
         Idle, Preparing
<1>8. ASSUME r.disc["recovery"] = "no" PROVE n.disc["recovery"] = "no"
  BY <1>8 DEF Connects, Same, Fields, Calls, Sound
<1>9. ASSUME Corrects(r) PROVE Corrects(n)
  BY <1>9 DEF Connects, Same, Fields, Calls, Sound, Sockets, Corrects
<1>10. ASSUME Ready(r), r.retired, n.timer PROVE r.timer
  BY <1>10 DEF Connects, Same, Fields, Ready, Sound, Sockets, Timed, Leaving, Dead, Idle,
         Preparing
<1>11. ASSUME Ready(r) PROVE n.net \subseteq r.net \/ r.lease
  BY <1>11 DEF Connects, Same, Fields, Ready, Timed, Preparing
<1> QED BY <1>1, <1>2, <1>3, <1>4, <1>5, <1>6, <1>7, <1>8, <1>9, <1>10, <1>11 DEF Keeps, Ready

LEMMA PreparesKeeps ==
  ASSUME NEW r, NEW n, Prepares(r, n), Sound(r)
  PROVE  Keeps(r, n, {})
<1>1. Sound(n) /\ n.worker = r.worker
  BY DEF Prepares, Same, Fields, Calls, Sound, Sockets, Phase, Idle, Preparing
<1>2. ASSUME Ready(r) PROVE Timed(n)
  BY <1>2 DEF Prepares, Same, Fields, Calls, Ready, Sound, Sockets, Timed, Leaving, Dead, Idle,
         Preparing
<1>3. ASSUME Ready(r) PROVE Leaving(n)
  BY <1>3 DEF Prepares, Same, Fields, Calls, Ready, Sound, Sockets, Timed, Leaving, Dead, Idle,
         Preparing, Phase
<1>4. ASSUME Ready(r), Excused(r) PROVE Excused(n)
  BY <1>4 DEF Prepares, Same, Fields, Ready, Sound, Sockets, Timed, Leaving, Excused, Idle,
         Preparing
<1>5. ASSUME Ready(r), Dropping(r) PROVE Dropping(n)
  BY <1>5 DEF Prepares, Same, Fields, Calls, Ready, Sound, Sockets, Timed, Leaving, Dropping,
         Idle, Preparing
<1>6. ASSUME Ready(r), Excused(r), Hoped(r) PROVE Hoped(n)
  BY <1>6 DEF Prepares, Same, Fields, Calls, Ready, Sound, Sockets, Timed, Leaving, Excused,
         Hoped, Idle, Preparing
<1>7. ASSUME Ready(r), Registers(n) PROVE Registers(r)
  BY <1>7 DEF Prepares, Same, Fields, Calls, Ready, Sound, Sockets, Timed, Leaving, Registers,
         Idle, Preparing
<1>8. ASSUME r.disc["recovery"] = "no" PROVE n.disc["recovery"] = "no"
  BY <1>8 DEF Prepares, Same, Fields, Calls, Sound
<1>9. ASSUME Corrects(r) PROVE Corrects(n)
  BY <1>9 DEF Prepares, Same, Fields, Calls, Sound, Sockets, Corrects
<1>10. ASSUME Ready(r), r.retired, n.timer PROVE r.timer
  BY <1>10 DEF Prepares, Same, Fields, Ready, Sound, Sockets, Timed, Leaving, Dead, Idle,
         Preparing
<1>11. ASSUME Ready(r) PROVE n.net \subseteq r.net \/ r.lease
  BY <1>11 DEF Prepares, Same, Fields, Ready, Timed, Preparing
<1> QED BY <1>1, <1>2, <1>3, <1>4, <1>5, <1>6, <1>7, <1>8, <1>9, <1>10, <1>11 DEF Keeps, Ready

LEMMA DialsKeeps ==
  ASSUME NEW r, NEW n, Dials(r, n), Sound(r)
  PROVE  Keeps(r, n, {})
<1>1. Sound(n) /\ n.worker = r.worker
  BY SoundDials DEF Dials, Same, Fields
<1>2. ASSUME Ready(r) PROVE Timed(n)
  BY <1>2 DEF Dials, Same, Fields, Calls, Ready, Sound, Sockets, Timed, Leaving, Dead, Idle,
         Preparing
<1>3. ASSUME Ready(r) PROVE Leaving(n)
  BY <1>3, LeavingDials DEF Ready
<1>4. ASSUME Ready(r), Excused(r) PROVE Excused(n)
  BY <1>4 DEF Dials, Same, Fields, Ready, Sound, Sockets, Timed, Leaving, Excused, Idle,
         Preparing
<1>5. ASSUME Ready(r), Dropping(r) PROVE Dropping(n)
  BY <1>5 DEF Dials, Same, Fields, Calls, Ready, Sound, Sockets, Timed, Leaving, Dropping,
         Idle, Preparing
<1>6. ASSUME Ready(r), Excused(r), Hoped(r) PROVE Hoped(n)
  BY <1>6 DEF Dials, Same, Fields, Calls, Ready, Sound, Sockets, Timed, Leaving, Excused,
         Hoped, Idle, Preparing
<1>7. ASSUME Ready(r), Registers(n) PROVE Registers(r)
  BY <1>7 DEF Dials, Same, Fields, Calls, Ready, Sound, Sockets, Timed, Leaving, Registers,
         Idle, Preparing
<1>8. ASSUME r.disc["recovery"] = "no" PROVE n.disc["recovery"] = "no"
  BY <1>8 DEF Dials, Same, Fields, Calls, Sound
<1>9. ASSUME Corrects(r) PROVE Corrects(n)
  BY <1>9 DEF Dials, Same, Fields, Calls, Sound, Sockets, Corrects
<1>10. ASSUME Ready(r), r.retired, n.timer PROVE r.timer
  BY <1>10 DEF Dials, Same, Fields, Ready, Sound, Sockets, Timed, Leaving, Dead, Idle,
         Preparing
<1>11. ASSUME Ready(r) PROVE n.net \subseteq r.net \/ r.lease
  BY <1>11 DEF Dials, Same, Fields, Ready, Timed, Preparing
<1> QED BY <1>1, <1>2, <1>3, <1>4, <1>5, <1>6, <1>7, <1>8, <1>9, <1>10, <1>11 DEF Keeps, Ready

LEMMA ThrowsKeeps ==
  ASSUME NEW r, NEW n, Throws(r, n), Sound(r)
  PROVE  Keeps(r, n, {"excused"})
<1>1. Sound(n) /\ n.worker = r.worker
  BY DEF Throws, Preparing, Same, Fields, Calls, Sound, Sockets, Phase, Idle
<1>2. ASSUME Ready(r) PROVE Timed(n)
  BY <1>2 DEF Throws, Preparing, Same, Fields, Calls, Ready, Sound, Sockets, Timed, Leaving,
         Dead, Idle
<1>3. ASSUME Ready(r) PROVE Leaving(n)
  BY <1>3 DEF Throws, Preparing, Same, Fields, Calls, Ready, Sound, Sockets, Timed, Leaving,
         Dead, Idle, Phase
<1>4. ASSUME Ready(r), Dropping(r) PROVE Dropping(n)
  BY <1>4 DEF Throws, Preparing, Same, Fields, Calls, Ready, Sound, Sockets, Timed, Leaving,
         Dropping, Idle
<1>5. ASSUME Ready(r), Excused(r), Hoped(r) PROVE Hoped(n)
  BY <1>5 DEF Throws, Preparing, Same, Fields, Calls, Ready, Sound, Sockets, Timed, Leaving,
         Excused, Hoped, Idle
<1>6. ASSUME Ready(r), Registers(n) PROVE Registers(r)
  BY <1>6 DEF Throws, Preparing, Same, Fields, Calls, Ready, Sound, Sockets, Timed, Leaving,
         Registers, Idle
<1>7. ASSUME r.disc["recovery"] = "no" PROVE n.disc["recovery"] = "no"
  BY <1>7 DEF Throws, Preparing, Same, Fields, Calls, Sound
<1>8. ASSUME Corrects(r) PROVE Corrects(n)
  BY <1>8 DEF Throws, Preparing, Same, Fields, Calls, Sound, Sockets, Corrects
<1>9. ASSUME Ready(r), r.retired, n.timer PROVE r.timer
  BY <1>9 DEF Throws, Preparing, Same, Fields, Ready, Sound, Sockets, Timed, Leaving, Dead,
         Idle
<1>10. ASSUME Ready(r) PROVE n.net \subseteq r.net \/ r.lease
  BY <1>10 DEF Throws, Preparing, Same, Fields, Ready, Timed
<1> QED BY <1>1, <1>2, <1>3, <1>4, <1>5, <1>6, <1>7, <1>8, <1>9, <1>10 DEF Keeps, Ready

LEMMA FailsKeeps ==
  ASSUME NEW r, NEW n, Fails(r, n), Sound(r)
  PROVE  Keeps(r, n, {})
<1>1. Sound(n) /\ n.worker = r.worker
  BY DEF Fails, Ending, Left, Tearing, Staging, Same, Fields, Calls, Sound, Sockets, Phase,
         Idle, Preparing
<1>2. ASSUME Ready(r) PROVE Timed(n)
  BY <1>2 DEF Fails, Ending, Left, Tearing, Staging, Same, Fields, Calls, Ready, Sound,
         Sockets, Timed, Leaving, Dead, Idle, Preparing
<1>3. ASSUME Ready(r) PROVE Leaving(n)
  BY <1>3 DEF Fails, Ending, Left, Tearing, Staging, Same, Fields, Calls, Ready, Sound,
         Sockets, Timed, Leaving, Dead, Idle, Preparing, Phase
<1>4. ASSUME Ready(r), Excused(r) PROVE Excused(n)
  BY <1>4 DEF Fails, Ending, Left, Tearing, Staging, Same, Fields, Calls, Ready, Sound,
         Sockets, Timed, Leaving, Excused, Idle, Preparing
<1>5. ASSUME Ready(r), Dropping(r) PROVE Dropping(n)
  BY <1>5 DEF Fails, Ending, Left, Tearing, Staging, Same, Fields, Calls, Ready, Sound,
         Sockets, Timed, Leaving, Dropping, Idle, Preparing
<1>6. ASSUME Ready(r), Excused(r), Hoped(r) PROVE Hoped(n)
  BY <1>6 DEF Fails, Ending, Left, Tearing, Staging, Same, Fields, Calls, Ready, Sound,
         Sockets, Timed, Leaving, Excused, Hoped, Idle, Preparing
<1>7. ASSUME Ready(r), Registers(n) PROVE Registers(r)
  BY <1>7 DEF Fails, Ending, Left, Tearing, Staging, Same, Fields, Calls, Ready, Sound,
         Sockets, Timed, Leaving, Registers, Idle, Preparing
<1>8. ASSUME r.disc["recovery"] = "no" PROVE n.disc["recovery"] = "no"
  BY <1>8 DEF Fails, Ending, Left, Tearing, Staging, Same, Fields, Calls, Sound
<1>9. ASSUME Corrects(r) PROVE Corrects(n)
  BY <1>9 DEF Fails, Ending, Left, Tearing, Staging, Same, Fields, Calls, Sound, Sockets,
         Corrects
<1>10. ASSUME Ready(r), r.retired, n.timer PROVE r.timer
  BY <1>10 DEF Fails, Ending, Left, Tearing, Staging, Same, Fields, Calls, Ready, Sound,
         Sockets, Timed, Leaving, Dead, Idle, Preparing
<1>11. ASSUME Ready(r) PROVE n.net \subseteq r.net \/ r.lease
  BY <1>11 DEF Fails, Ending, Left, Tearing, Staging, Same, Fields, Calls, Ready, Timed,
         Preparing
<1> QED BY <1>1, <1>2, <1>3, <1>4, <1>5, <1>6, <1>7, <1>8, <1>9, <1>10, <1>11 DEF Keeps, Ready

LEMMA PromptsKeeps ==
  ASSUME NEW r, NEW n, Prompts(r, n), Sound(r)
  PROVE  Keeps(r, n, {})
<1>1. Sound(n) /\ n.worker = r.worker
  BY DEF Prompts, Ending, IsCurrent, Same, Fields, Calls, Sound, Sockets, Phase, Idle,
         Preparing
<1>2. ASSUME Ready(r) PROVE Timed(n)
  BY <1>2 DEF Prompts, Ending, IsCurrent, Same, Fields, Calls, Ready, Sound, Sockets, Timed,
         Leaving, Dead, Idle, Preparing
<1>3. ASSUME Ready(r) PROVE Leaving(n)
  BY <1>3 DEF Prompts, Ending, IsCurrent, Same, Fields, Calls, Ready, Sound, Sockets, Timed,
         Leaving, Dead, Idle, Preparing, Phase
<1>4. ASSUME Ready(r), Excused(r) PROVE Excused(n)
  BY <1>4 DEF Prompts, Ending, IsCurrent, Same, Fields, Ready, Sound, Sockets, Timed, Leaving,
         Excused, Idle, Preparing
<1>5. ASSUME Ready(r), Dropping(r) PROVE Dropping(n)
  BY <1>5 DEF Prompts, Ending, IsCurrent, Same, Fields, Calls, Ready, Sound, Sockets, Timed,
         Leaving, Dropping, Idle, Preparing
<1>6. ASSUME Ready(r), Excused(r), Hoped(r) PROVE Hoped(n)
  BY <1>6 DEF Prompts, Ending, IsCurrent, Same, Fields, Calls, Ready, Sound, Sockets, Timed,
         Leaving, Excused, Hoped, Idle, Preparing
<1>7. ASSUME Ready(r), Registers(n) PROVE Registers(r)
  BY <1>7 DEF Prompts, Ending, IsCurrent, Same, Fields, Calls, Ready, Sound, Sockets, Timed,
         Leaving, Registers, Idle, Preparing
<1>8. ASSUME r.disc["recovery"] = "no" PROVE n.disc["recovery"] = "no"
  BY <1>8 DEF Prompts, Ending, IsCurrent, Same, Fields, Calls, Sound
<1>9. ASSUME Corrects(r) PROVE Corrects(n)
  BY <1>9 DEF Prompts, Ending, IsCurrent, Same, Fields, Calls, Sound, Sockets, Corrects
<1>10. ASSUME Ready(r), r.retired, n.timer PROVE r.timer
  BY <1>10 DEF Prompts, Ending, IsCurrent, Same, Fields, Ready, Sound, Sockets, Timed, Leaving,
         Dead, Idle, Preparing
<1>11. ASSUME Ready(r) PROVE n.net \subseteq r.net \/ r.lease
  BY <1>11 DEF Prompts, Ending, IsCurrent, Same, Fields, Ready, Timed, Preparing
<1> QED BY <1>1, <1>2, <1>3, <1>4, <1>5, <1>6, <1>7, <1>8, <1>9, <1>10, <1>11 DEF Keeps, Ready

LEMMA RejectsKeeps ==
  ASSUME NEW r, NEW n, NEW s, Rejects(r, n, s), Sound(r)
  PROVE  Keeps(r, n, {})
<1>1. Sound(n) /\ n.worker = r.worker
  BY DEF Rejects, Breaks, Tearing, Same, Fields, Calls, Sound, Sockets, Phase, Idle, Preparing
<1>2. ASSUME Ready(r) PROVE Timed(n)
  BY <1>2, TimedRejects DEF Ready
<1>3. ASSUME Ready(r) PROVE Leaving(n)
  BY <1>3 DEF Rejects, Breaks, Tearing, Same, Fields, Calls, Ready, Sound, Sockets, Timed,
         Leaving, Dead, Idle, Preparing, Phase
<1>4. ASSUME Ready(r), Excused(r) PROVE Excused(n)
  BY <1>4 DEF Rejects, Breaks, Tearing, Same, Fields, Ready, Sound, Sockets, Timed, Leaving,
         Excused, Idle, Preparing
<1>5. ASSUME Ready(r), Dropping(r) PROVE Dropping(n)
  BY <1>5 DEF Rejects, Breaks, Tearing, Same, Fields, Calls, Ready, Sound, Sockets, Timed,
         Leaving, Dropping, Idle, Preparing
<1>6. ASSUME Ready(r), Excused(r), Hoped(r) PROVE Hoped(n)
  BY <1>6 DEF Rejects, Breaks, Tearing, Same, Fields, Calls, Ready, Sound, Sockets, Timed,
         Leaving, Excused, Hoped, Idle, Preparing
<1>7. ASSUME Ready(r), Registers(n) PROVE Registers(r)
  BY <1>7 DEF Rejects, Breaks, Tearing, Same, Fields, Calls, Ready, Sound, Sockets, Timed,
         Leaving, Registers, Idle, Preparing
<1>8. ASSUME r.disc["recovery"] = "no" PROVE n.disc["recovery"] = "no"
  BY <1>8 DEF Rejects, Breaks, Tearing, Same, Fields, Calls, Sound
<1>9. ASSUME Corrects(r) PROVE Corrects(n)
  BY <1>9 DEF Rejects, Breaks, Tearing, Same, Fields, Calls, Sound, Sockets, Corrects
<1>10. ASSUME Ready(r), r.retired, n.timer PROVE r.timer
  BY <1>10 DEF Rejects, Breaks, Tearing, Same, Fields, Ready, Sound, Sockets, Timed, Leaving,
         Dead, Idle, Preparing
<1>11. ASSUME Ready(r) PROVE n.net \subseteq r.net \/ r.lease
  BY <1>11 DEF Rejects, Breaks, Tearing, Same, Fields, Ready, Timed, Preparing
<1> QED BY <1>1, <1>2, <1>3, <1>4, <1>5, <1>6, <1>7, <1>8, <1>9, <1>10, <1>11 DEF Keeps, Ready

LEMMA OverrunsKeeps ==
  ASSUME NEW r, NEW n, Overruns(r, n), Sound(r)
  PROVE  Keeps(r, n, {})
<1>1. Sound(n) /\ n.worker = r.worker
  BY DEF Overruns, Breaks, Tearing, Same, Fields, Calls, Sound, Sockets, Phase, Idle,
         Preparing
<1>2. ASSUME Ready(r) PROVE Timed(n)
  BY <1>2 DEF Overruns, Breaks, Tearing, Same, Fields, Calls, Ready, Sound, Sockets, Timed,
         Leaving, Dead, Idle, Preparing
<1>3. ASSUME Ready(r) PROVE Leaving(n)
  BY <1>3 DEF Overruns, Breaks, Tearing, Same, Fields, Calls, Ready, Sound, Sockets, Timed,
         Leaving, Dead, Idle, Preparing, Phase
<1>4. ASSUME Ready(r), Excused(r) PROVE Excused(n)
  BY <1>4 DEF Overruns, Breaks, Tearing, Same, Fields, Ready, Sound, Sockets, Timed, Leaving,
         Excused, Idle, Preparing
<1>5. ASSUME Ready(r), Dropping(r) PROVE Dropping(n)
  BY <1>5 DEF Overruns, Breaks, Tearing, Same, Fields, Calls, Ready, Sound, Sockets, Timed,
         Leaving, Dropping, Idle, Preparing
<1>6. ASSUME Ready(r), Excused(r), Hoped(r) PROVE Hoped(n)
  BY <1>6 DEF Overruns, Breaks, Tearing, Same, Fields, Calls, Ready, Sound, Sockets, Timed,
         Leaving, Excused, Hoped, Idle, Preparing
<1>7. ASSUME Ready(r), Registers(n) PROVE Registers(r)
  BY <1>7 DEF Overruns, Breaks, Tearing, Same, Fields, Calls, Ready, Sound, Sockets, Timed,
         Leaving, Registers, Idle, Preparing
<1>8. ASSUME r.disc["recovery"] = "no" PROVE n.disc["recovery"] = "no"
  BY <1>8 DEF Overruns, Breaks, Tearing, Same, Fields, Calls, Sound
<1>9. ASSUME Corrects(r) PROVE Corrects(n)
  BY <1>9 DEF Overruns, Breaks, Tearing, Same, Fields, Calls, Sound, Sockets, Corrects
<1>10. ASSUME Ready(r), r.retired, n.timer PROVE r.timer
  BY <1>10 DEF Overruns, Breaks, Tearing, Same, Fields, Ready, Sound, Sockets, Timed, Leaving,
         Dead, Idle, Preparing
<1>11. ASSUME Ready(r) PROVE n.net \subseteq r.net \/ r.lease
  BY <1>11 DEF Overruns, Breaks, Tearing, Same, Fields, Ready, Timed, Preparing
<1> QED BY <1>1, <1>2, <1>3, <1>4, <1>5, <1>6, <1>7, <1>8, <1>9, <1>10, <1>11 DEF Keeps, Ready

LEMMA DoomsKeeps ==
  ASSUME NEW r, NEW n, Dooms(r, n), Sound(r)
  PROVE  Keeps(r, n, {})
<1>1. Sound(n) /\ n.worker = r.worker
  BY DEF Dooms, Same, Fields, Calls, Sound, Sockets, Phase, Idle, Preparing
<1>2. ASSUME Ready(r) PROVE Timed(n)
  BY <1>2 DEF Dooms, Same, Fields, Calls, Ready, Sound, Sockets, Timed, Leaving, Dead, Idle,
         Preparing
<1>3. ASSUME Ready(r) PROVE Leaving(n)
  BY <1>3 DEF Dooms, Same, Fields, Calls, Ready, Sound, Sockets, Timed, Leaving, Dead, Idle,
         Preparing, Phase
<1>4. ASSUME Ready(r), Excused(r) PROVE Excused(n)
  BY <1>4 DEF Dooms, Same, Fields, Ready, Sound, Sockets, Timed, Leaving, Excused, Idle,
         Preparing
<1>5. ASSUME Ready(r), Dropping(r) PROVE Dropping(n)
  BY <1>5 DEF Dooms, Same, Fields, Calls, Ready, Sound, Sockets, Timed, Leaving, Dropping,
         Idle, Preparing
<1>6. ASSUME Ready(r), Excused(r), Hoped(r) PROVE Hoped(n)
  BY <1>6 DEF Dooms, Same, Fields, Calls, Ready, Sound, Sockets, Timed, Leaving, Excused,
         Hoped, Idle, Preparing
<1>7. ASSUME Ready(r), Registers(n) PROVE Registers(r)
  BY <1>7 DEF Dooms, Same, Fields, Calls, Ready, Sound, Sockets, Timed, Leaving, Registers,
         Idle, Preparing
<1>8. ASSUME r.disc["recovery"] = "no" PROVE n.disc["recovery"] = "no"
  BY <1>8 DEF Dooms, Same, Fields, Calls, Sound
<1>9. ASSUME Corrects(r) PROVE Corrects(n)
  BY <1>9 DEF Dooms, Same, Fields, Calls, Sound, Sockets, Corrects
<1>10. ASSUME Ready(r), r.retired, n.timer PROVE r.timer
  BY <1>10 DEF Dooms, Same, Fields, Ready, Sound, Sockets, Timed, Leaving, Dead, Idle,
         Preparing
<1>11. ASSUME Ready(r) PROVE n.net \subseteq r.net \/ r.lease
  BY <1>11 DEF Dooms, Same, Fields, Ready, Timed, Preparing
<1> QED BY <1>1, <1>2, <1>3, <1>4, <1>5, <1>6, <1>7, <1>8, <1>9, <1>10, <1>11 DEF Keeps, Ready

LEMMA CopesKeeps ==
  ASSUME NEW r, NEW n, NEW s, Copes(r, n, s), Sound(r)
  PROVE  Keeps(r, n, {"corrects"})
<1>1. Sound(n) /\ n.worker = r.worker
  BY DEF Copes, Scheduling, Same, Fields, Calls, Sound, Sockets, Phase, Idle, Preparing
<1>2. ASSUME Ready(r) PROVE Timed(n)
  BY <1>2 DEF Copes, Scheduling, Same, Fields, Calls, Ready, Sound, Sockets, Timed, Leaving,
         Dead, Idle, Preparing
<1>3. ASSUME Ready(r) PROVE Leaving(n)
  BY <1>3 DEF Copes, Scheduling, Same, Fields, Calls, Ready, Sound, Sockets, Timed, Leaving,
         Dead, Idle, Preparing, Phase
<1>4. ASSUME Ready(r), Excused(r) PROVE Excused(n)
  BY <1>4 DEF Copes, Scheduling, Same, Fields, Ready, Sound, Sockets, Timed, Leaving, Excused,
         Idle, Preparing
<1>5. ASSUME Ready(r), Dropping(r) PROVE Dropping(n)
  BY <1>5 DEF Copes, Scheduling, Same, Fields, Calls, Ready, Sound, Sockets, Timed, Leaving,
         Dropping, Idle, Preparing
<1>6. ASSUME Ready(r), Excused(r), Hoped(r) PROVE Hoped(n)
  BY <1>6 DEF Copes, Scheduling, Same, Fields, Calls, Ready, Sound, Sockets, Timed, Leaving,
         Excused, Hoped, Idle, Preparing
<1>7. ASSUME Ready(r), Registers(n) PROVE Registers(r)
  BY <1>7 DEF Copes, Scheduling, Same, Fields, Calls, Ready, Sound, Sockets, Timed, Leaving,
         Registers, Idle, Preparing
<1>8. ASSUME r.disc["recovery"] = "no" PROVE n.disc["recovery"] = "no"
  BY <1>8 DEF Copes, Scheduling, Same, Fields, Calls, Sound
<1>9. ASSUME Ready(r), r.retired, n.timer PROVE r.timer
  BY <1>9 DEF Copes, Scheduling, Same, Fields, Ready, Sound, Sockets, Timed, Leaving, Dead,
         Idle, Preparing
<1>10. ASSUME Ready(r) PROVE n.net \subseteq r.net \/ r.lease
  BY <1>10 DEF Copes, Scheduling, Same, Fields, Ready, Timed, Preparing
<1> QED BY <1>1, <1>2, <1>3, <1>4, <1>5, <1>6, <1>7, <1>8, <1>9, <1>10 DEF Keeps, Ready

LEMMA OpensKeeps ==
  ASSUME NEW r, NEW n, NEW s, Opens(r, n, s), Sound(r)
  PROVE  Keeps(r, n, {})
<1>1. Sound(n) /\ n.worker = r.worker
  BY DEF Opens, Ending, IsCurrent, Same, Fields, Calls, Sound, Sockets, Phase, Idle, Preparing
<1>2. ASSUME Ready(r) PROVE Timed(n)
  BY <1>2, TimedOpens DEF Ready
<1>3. ASSUME Ready(r) PROVE Leaving(n)
  BY <1>3 DEF Opens, Ending, IsCurrent, Same, Fields, Calls, Ready, Sound, Sockets, Timed,
         Leaving, Dead, Idle, Preparing, Phase
<1>4. ASSUME Ready(r), Excused(r) PROVE Excused(n)
  BY <1>4 DEF Opens, Ending, IsCurrent, Same, Fields, Ready, Sound, Sockets, Timed, Leaving,
         Excused, Idle, Preparing
<1>5. ASSUME Ready(r), Dropping(r) PROVE Dropping(n)
  BY <1>5 DEF Opens, Ending, IsCurrent, Same, Fields, Calls, Ready, Sound, Sockets, Timed,
         Leaving, Dropping, Idle, Preparing
<1>6. ASSUME Ready(r), Excused(r), Hoped(r) PROVE Hoped(n)
  BY <1>6 DEF Opens, Ending, IsCurrent, Same, Fields, Calls, Ready, Sound, Sockets, Timed,
         Leaving, Excused, Hoped, Idle, Preparing
<1>7. ASSUME Ready(r), Registers(n) PROVE Registers(r)
  BY <1>7 DEF Opens, Ending, IsCurrent, Same, Fields, Calls, Ready, Sound, Sockets, Timed,
         Leaving, Registers, Idle, Preparing
<1>8. ASSUME r.disc["recovery"] = "no" PROVE n.disc["recovery"] = "no"
  BY <1>8 DEF Opens, Ending, IsCurrent, Same, Fields, Calls, Sound
<1>9. ASSUME Corrects(r) PROVE Corrects(n)
  BY <1>9 DEF Opens, Ending, IsCurrent, Same, Fields, Calls, Sound, Sockets, Corrects
<1>10. ASSUME Ready(r), r.retired, n.timer PROVE r.timer
  BY <1>10 DEF Opens, Ending, IsCurrent, Same, Fields, Ready, Sound, Sockets, Timed, Leaving,
         Dead, Idle, Preparing
<1>11. ASSUME Ready(r) PROVE n.net \subseteq r.net \/ r.lease
  BY <1>11 DEF Opens, Ending, IsCurrent, Same, Fields, Ready, Timed, Preparing
<1> QED BY <1>1, <1>2, <1>3, <1>4, <1>5, <1>6, <1>7, <1>8, <1>9, <1>10, <1>11 DEF Keeps, Ready

LEMMA UsesKeeps ==
  ASSUME NEW r, NEW n, NEW s, Uses(r, n, s), Sound(r)
  PROVE  Keeps(r, n, {"registers"})
<1>1. Sound(n) /\ n.worker = r.worker
  BY DEF Uses, IsCurrent, Same, Fields, Calls, Sound, Sockets, Phase, Idle, Preparing
<1>2. ASSUME Ready(r) PROVE Timed(n)
  BY <1>2 DEF Uses, IsCurrent, Same, Fields, Calls, Ready, Sound, Sockets, Timed, Leaving,
         Dead, Idle, Preparing
<1>3. ASSUME Ready(r) PROVE Leaving(n)
  BY <1>3 DEF Uses, IsCurrent, Same, Fields, Calls, Ready, Sound, Sockets, Timed, Leaving,
         Dead, Idle, Preparing, Phase
<1>4. ASSUME Ready(r), Excused(r) PROVE Excused(n)
  BY <1>4 DEF Uses, IsCurrent, Same, Fields, Ready, Sound, Sockets, Timed, Leaving, Excused,
         Idle, Preparing
<1>5. ASSUME Ready(r), Dropping(r) PROVE Dropping(n)
  BY <1>5 DEF Uses, IsCurrent, Same, Fields, Calls, Ready, Sound, Sockets, Timed, Leaving,
         Dropping, Idle, Preparing
<1>6. ASSUME Ready(r), Excused(r), Hoped(r) PROVE Hoped(n)
  BY <1>6 DEF Uses, IsCurrent, Same, Fields, Calls, Ready, Sound, Sockets, Timed, Leaving,
         Excused, Hoped, Idle, Preparing
<1>7. ASSUME r.disc["recovery"] = "no" PROVE n.disc["recovery"] = "no"
  BY <1>7 DEF Uses, IsCurrent, Same, Fields, Calls, Sound
<1>8. ASSUME Corrects(r) PROVE Corrects(n)
  BY <1>8 DEF Uses, IsCurrent, Same, Fields, Calls, Sound, Sockets, Corrects
<1>9. ASSUME Ready(r), r.retired, n.timer PROVE r.timer
  BY <1>9 DEF Uses, IsCurrent, Same, Fields, Ready, Sound, Sockets, Timed, Leaving, Dead, Idle,
         Preparing
<1>10. ASSUME Ready(r) PROVE n.net \subseteq r.net \/ r.lease
  BY <1>10 DEF Uses, IsCurrent, Same, Fields, Ready, Timed, Preparing
<1> QED BY <1>1, <1>2, <1>3, <1>4, <1>5, <1>6, <1>7, <1>8, <1>9, <1>10 DEF Keeps, Ready

LEMMA RefusesKeeps ==
  ASSUME NEW r, NEW n, NEW s, Refuses(r, n, s), Sound(r)
  PROVE  Keeps(r, n, {})
<1>1. Sound(n) /\ n.worker = r.worker
  BY DEF Refuses, IsCurrent, Same, Fields, Calls, Sound, Sockets, Phase, Idle, Preparing
<1>2. ASSUME Ready(r) PROVE Timed(n)
  BY <1>2 DEF Refuses, IsCurrent, Same, Fields, Calls, Ready, Sound, Sockets, Timed, Leaving,
         Dead, Idle, Preparing
<1>3. ASSUME Ready(r) PROVE Leaving(n)
  BY <1>3 DEF Refuses, IsCurrent, Same, Fields, Calls, Ready, Sound, Sockets, Timed, Leaving,
         Dead, Idle, Preparing, Phase
<1>4. ASSUME Ready(r), Excused(r) PROVE Excused(n)
  BY <1>4 DEF Refuses, IsCurrent, Same, Fields, Ready, Sound, Sockets, Timed, Leaving, Excused,
         Idle, Preparing
<1>5. ASSUME Ready(r), Dropping(r) PROVE Dropping(n)
  BY <1>5 DEF Refuses, IsCurrent, Same, Fields, Calls, Ready, Sound, Sockets, Timed, Leaving,
         Dropping, Idle, Preparing
<1>6. ASSUME Ready(r), Excused(r), Hoped(r) PROVE Hoped(n)
  BY <1>6 DEF Refuses, IsCurrent, Same, Fields, Calls, Ready, Sound, Sockets, Timed, Leaving,
         Excused, Hoped, Idle, Preparing
<1>7. ASSUME Ready(r), Registers(n) PROVE Registers(r)
  BY <1>7 DEF Refuses, IsCurrent, Same, Fields, Calls, Ready, Sound, Sockets, Timed, Leaving,
         Registers, Idle, Preparing
<1>8. ASSUME r.disc["recovery"] = "no" PROVE n.disc["recovery"] = "no"
  BY <1>8 DEF Refuses, IsCurrent, Same, Fields, Calls, Sound
<1>9. ASSUME Corrects(r) PROVE Corrects(n)
  BY <1>9 DEF Refuses, IsCurrent, Same, Fields, Calls, Sound, Sockets, Corrects
<1>10. ASSUME Ready(r), r.retired, n.timer PROVE r.timer
  BY <1>10 DEF Refuses, IsCurrent, Same, Fields, Ready, Sound, Sockets, Timed, Leaving, Dead,
         Idle, Preparing
<1>11. ASSUME Ready(r) PROVE n.net \subseteq r.net \/ r.lease
  BY <1>11 DEF Refuses, IsCurrent, Same, Fields, Ready, Timed, Preparing
<1> QED BY <1>1, <1>2, <1>3, <1>4, <1>5, <1>6, <1>7, <1>8, <1>9, <1>10, <1>11 DEF Keeps, Ready

LEMMA DiscardsKeeps ==
  ASSUME NEW r, NEW n, NEW s, Discards(r, n, s), Sound(r)
  PROVE  Keeps(r, n, {})
<1>1. Sound(n) /\ n.worker = r.worker
  BY DEF Discards, Same, Fields, Calls, Sound, Sockets, Phase, Idle, Preparing
<1>2. ASSUME Ready(r) PROVE Timed(n)
  BY <1>2 DEF Discards, Same, Fields, Calls, Ready, Sound, Sockets, Timed, Leaving, Dead, Idle,
         Preparing
<1>3. ASSUME Ready(r) PROVE Leaving(n)
  BY <1>3 DEF Discards, Same, Fields, Calls, Ready, Sound, Sockets, Timed, Leaving, Dead, Idle,
         Preparing, Phase
<1>4. ASSUME Ready(r), Excused(r) PROVE Excused(n)
  BY <1>4 DEF Discards, Same, Fields, Ready, Sound, Sockets, Timed, Leaving, Excused, Idle,
         Preparing
<1>5. ASSUME Ready(r), Dropping(r) PROVE Dropping(n)
  BY <1>5 DEF Discards, Same, Fields, Calls, Ready, Sound, Sockets, Timed, Leaving, Dropping,
         Idle, Preparing
<1>6. ASSUME Ready(r), Excused(r), Hoped(r) PROVE Hoped(n)
  BY <1>6 DEF Discards, Same, Fields, Calls, Ready, Sound, Sockets, Timed, Leaving, Excused,
         Hoped, Idle, Preparing
<1>7. ASSUME Ready(r), Registers(n) PROVE Registers(r)
  BY <1>7 DEF Discards, Same, Fields, Calls, Ready, Sound, Sockets, Timed, Leaving, Registers,
         Idle, Preparing
<1>8. ASSUME r.disc["recovery"] = "no" PROVE n.disc["recovery"] = "no"
  BY <1>8 DEF Discards, Same, Fields, Calls, Sound
<1>9. ASSUME Corrects(r) PROVE Corrects(n)
  BY <1>9 DEF Discards, Same, Fields, Calls, Sound, Sockets, Corrects
<1>10. ASSUME Ready(r), r.retired, n.timer PROVE r.timer
  BY <1>10 DEF Discards, Same, Fields, Ready, Sound, Sockets, Timed, Leaving, Dead, Idle,
         Preparing
<1>11. ASSUME Ready(r) PROVE n.net \subseteq r.net \/ r.lease
  BY <1>11 DEF Discards, Same, Fields, Ready, Timed, Preparing
<1> QED BY <1>1, <1>2, <1>3, <1>4, <1>5, <1>6, <1>7, <1>8, <1>9, <1>10, <1>11 DEF Keeps, Ready

LEMMA DropsKeeps ==
  ASSUME NEW r, NEW n, NEW s, Drops(r, n, s), Sound(r)
  PROVE  Keeps(r, n, {})
<1>1. Sound(n) /\ n.worker = r.worker
  BY DEF Drops, Same, Fields, Calls, Sound, Sockets, Phase, Idle, Preparing
<1>2. ASSUME Ready(r) PROVE Timed(n)
  BY <1>2 DEF Drops, Same, Fields, Calls, Ready, Sound, Sockets, Timed, Leaving, Dead, Idle,
         Preparing
<1>3. ASSUME Ready(r) PROVE Leaving(n)
  BY <1>3 DEF Drops, Same, Fields, Calls, Ready, Sound, Sockets, Timed, Leaving, Dead, Idle,
         Preparing, Phase
<1>4. ASSUME Ready(r), Excused(r) PROVE Excused(n)
  BY <1>4 DEF Drops, Same, Fields, Ready, Sound, Sockets, Timed, Leaving, Excused, Idle,
         Preparing
<1>5. ASSUME Ready(r), Dropping(r) PROVE Dropping(n)
  BY <1>5 DEF Drops, Same, Fields, Calls, Ready, Sound, Sockets, Timed, Leaving, Dropping,
         Idle, Preparing
<1>6. ASSUME Ready(r), Excused(r), Hoped(r) PROVE Hoped(n)
  BY <1>6 DEF Drops, Same, Fields, Calls, Ready, Sound, Sockets, Timed, Leaving, Excused,
         Hoped, Idle, Preparing
<1>7. ASSUME Ready(r), Registers(n) PROVE Registers(r)
  BY <1>7 DEF Drops, Same, Fields, Calls, Ready, Sound, Sockets, Timed, Leaving, Registers,
         Idle, Preparing
<1>8. ASSUME r.disc["recovery"] = "no" PROVE n.disc["recovery"] = "no"
  BY <1>8 DEF Drops, Same, Fields, Calls, Sound
<1>9. ASSUME Corrects(r) PROVE Corrects(n)
  BY <1>9 DEF Drops, Same, Fields, Calls, Sound, Sockets, Corrects
<1>10. ASSUME Ready(r), r.retired, n.timer PROVE r.timer
  BY <1>10 DEF Drops, Same, Fields, Ready, Sound, Sockets, Timed, Leaving, Dead, Idle,
         Preparing
<1>11. ASSUME Ready(r) PROVE n.net \subseteq r.net \/ r.lease
  BY <1>11 DEF Drops, Same, Fields, Ready, Timed, Preparing
<1> QED BY <1>1, <1>2, <1>3, <1>4, <1>5, <1>6, <1>7, <1>8, <1>9, <1>10, <1>11 DEF Keeps, Ready

LEMMA ClosesKeeps ==
  ASSUME NEW r, NEW n, NEW s, Closes(r, n, s), Sound(r)
  PROVE  Keeps(r, n, {"corrects"})
<1>1. Sound(n) /\ n.worker = r.worker
  BY DEF Closes, Tearing, Aborting, Scheduling, Same, Fields, Calls, Sound, Sockets, Phase,
         Idle, Preparing
<1>2. ASSUME Ready(r) PROVE Timed(n)
  BY <1>2, TimedCloses DEF Ready
<1>3. ASSUME Ready(r) PROVE Leaving(n)
  BY <1>3 DEF Closes, Tearing, Aborting, Scheduling, Same, Fields, Calls, Ready, Sound,
         Sockets, Timed, Leaving, Dead, Idle, Preparing, Phase
<1>4. ASSUME Ready(r), Excused(r) PROVE Excused(n)
  BY <1>4 DEF Closes, Tearing, Aborting, Scheduling, Same, Fields, Ready, Sound, Sockets,
         Timed, Leaving, Excused, Idle, Preparing
<1>5. ASSUME Ready(r), Dropping(r) PROVE Dropping(n)
  BY <1>5 DEF Closes, Tearing, Aborting, Scheduling, Same, Fields, Calls, Ready, Sound,
         Sockets, Timed, Leaving, Dropping, Idle, Preparing
<1>6. ASSUME Ready(r), Excused(r), Hoped(r) PROVE Hoped(n)
  BY <1>6 DEF Closes, Tearing, Aborting, Scheduling, Same, Fields, Calls, Ready, Sound,
         Sockets, Timed, Leaving, Excused, Hoped, Idle, Preparing
<1>7. ASSUME Ready(r), Registers(n) PROVE Registers(r)
  BY <1>7 DEF Closes, Tearing, Aborting, Scheduling, Same, Fields, Calls, Ready, Sound,
         Sockets, Timed, Leaving, Registers, Idle, Preparing
<1>8. ASSUME r.disc["recovery"] = "no" PROVE n.disc["recovery"] = "no"
  BY <1>8 DEF Closes, Tearing, Aborting, Scheduling, Same, Fields, Calls, Sound
<1>9. ASSUME Ready(r), r.retired, n.timer PROVE r.timer
  <2>1. ~Dead(r)
    BY DEF Closes, Dead, Sound, Sockets
  <2>2. r.intent
    BY <1>9, <2>1 DEF Ready, Leaving
  <2> QED BY <1>9, <2>2 DEF Closes, Same, Fields
<1>10. ASSUME Ready(r) PROVE n.net \subseteq r.net \/ r.lease
  BY <1>10 DEF Closes, Tearing, Aborting, Scheduling, Same, Fields, Ready, Timed, Preparing
<1> QED BY <1>1, <1>2, <1>3, <1>4, <1>5, <1>6, <1>7, <1>8, <1>9, <1>10 DEF Keeps, Ready

LEMMA LosesKeeps ==
  ASSUME NEW r, NEW n, Loses(r, n), Sound(r)
  PROVE  Keeps(r, n, {"tidy", "excused", "dropping", "hoped", "registers"})
<1>1. Sound(n) /\ n.worker = r.worker
  BY SoundLoses DEF Loses, Same, Fields
<1>2. ASSUME r.disc["recovery"] = "no" PROVE n.disc["recovery"] = "no"
  BY <1>2 DEF Loses, Tearing, Same, Fields, Calls, Sound
<1>3. ASSUME Corrects(r) PROVE Corrects(n)
  BY <1>3 DEF Loses, Tearing, Same, Fields, Calls, Sound, Sockets, Corrects
<1>4. ASSUME Ready(r), r.retired, n.timer PROVE r.timer
  BY <1>4 DEF Loses, Tearing, Same, Fields, Ready, Sound, Sockets, Timed, Leaving, Dead, Idle,
         Preparing
<1>5. ASSUME Ready(r) PROVE n.net \subseteq r.net \/ r.lease
  BY <1>5 DEF Loses, Tearing, Same, Fields, Ready, Timed, Preparing
<1> QED BY <1>1, <1>2, <1>3, <1>4, <1>5 DEF Keeps, Ready

LEMMA LossWaitsKeeps ==
  ASSUME NEW r, NEW n, LossWaits(r, n), Sound(r)
  PROVE  Keeps(r, n, {"tidy", "excused", "dropping", "hoped", "registers"})
<1>1. Sound(n) /\ n.worker = r.worker
  BY DEF LossWaits, Same, Fields, Calls, Sound, Sockets, Phase, Idle, Preparing
<1>2. ASSUME r.disc["recovery"] = "no" PROVE n.disc["recovery"] = "no"
  BY <1>2 DEF LossWaits, Same, Fields, Calls, Sound
<1>3. ASSUME Corrects(r) PROVE Corrects(n)
  BY <1>3 DEF LossWaits, Same, Fields, Calls, Sound, Sockets, Corrects
<1>4. ASSUME Ready(r), r.retired, n.timer PROVE r.timer
  BY <1>4 DEF LossWaits, Same, Fields, Ready, Sound, Sockets, Timed, Leaving, Dead, Idle,
         Preparing
<1>5. ASSUME Ready(r) PROVE n.net \subseteq r.net \/ r.lease
  BY <1>5 DEF LossWaits, Same, Fields, Ready, Timed, Preparing
<1> QED BY <1>1, <1>2, <1>3, <1>4, <1>5 DEF Keeps, Ready

LEMMA LossEndsKeeps ==
  ASSUME NEW r, NEW n, LossEnds(r, n), Sound(r)
  PROVE  Keeps(r, n, {"tidy", "excused", "dropping", "hoped", "registers", "corrects"})
<1>1. Sound(n) /\ n.worker = r.worker
  BY DEF LossEnds, Same, Fields, Calls, Sound, Sockets, Phase, Idle, Preparing
<1>2. ASSUME r.disc["recovery"] = "no" PROVE n.disc["recovery"] = "no"
  BY <1>2 DEF LossEnds, Same, Fields, Calls, Sound
<1>3. ASSUME Ready(r), r.retired, n.timer PROVE r.timer
  BY <1>3 DEF LossEnds, Same, Fields, Ready, Sound, Sockets, Timed, Leaving, Dead, Idle,
         Preparing
<1>4. ASSUME Ready(r) PROVE n.net \subseteq r.net \/ r.lease
  BY <1>4 DEF LossEnds, Same, Fields, Ready, Timed, Preparing
<1> QED BY <1>1, <1>2, <1>3, <1>4 DEF Keeps, Ready

LEMMA DepartsKeeps ==
  ASSUME NEW r, NEW n, Departs(r, n), Sound(r)
  PROVE  Keeps(r, n, {"dropping", "registers"})
<1>1. Sound(n) /\ n.worker = r.worker
  BY SoundDeparts DEF Departs, Leaves, Left, Same, Fields
<1>2. ASSUME Ready(r) PROVE Timed(n)
  BY <1>2, TimedDeparts DEF Ready
<1>3. ASSUME Ready(r) PROVE Leaving(n)
  BY <1>3, LeavingDeparts DEF Ready
<1>4. ASSUME Ready(r), Excused(r) PROVE Excused(n)
  BY <1>4 DEF Departs, Leaves, Left, Quits, Tearing, Aborting, Staging, Same, Fields, Calls,
         Ready, Sound, Sockets, Timed, Leaving, Excused, Idle, Preparing
<1>5. ASSUME Ready(r), Excused(r), Hoped(r) PROVE Hoped(n)
  BY <1>5 DEF Departs, Leaves, Left, Quits, Tearing, Aborting, Staging, Same, Fields, Calls,
         Ready, Sound, Sockets, Timed, Leaving, Excused, Hoped, Idle, Preparing
<1>6. ASSUME r.disc["recovery"] = "no" PROVE n.disc["recovery"] = "no"
  BY <1>6 DEF Departs, Leaves, Left, Quits, Tearing, Aborting, Staging, Same, Fields, Calls,
         Sound
<1>7. ASSUME Corrects(r) PROVE Corrects(n)
  BY <1>7 DEF Departs, Leaves, Left, Quits, Tearing, Aborting, Staging, Same, Fields, Calls,
         Sound, Sockets, Corrects
<1>8. ASSUME Ready(r), r.retired, n.timer PROVE r.timer
  BY <1>8 DEF Departs, Leaves, Left, Quits, Tearing, Aborting, Staging, Same, Fields, Calls,
         Ready, Sound, Sockets, Timed, Leaving, Dead, Idle, Preparing
<1>9. ASSUME Ready(r) PROVE n.net \subseteq r.net \/ r.lease
  BY <1>9 DEF Departs, Leaves, Left, Quits, Tearing, Aborting, Staging, Same, Fields, Calls,
         Ready, Timed, Preparing
<1> QED BY <1>1, <1>2, <1>3, <1>4, <1>5, <1>6, <1>7, <1>8, <1>9 DEF Keeps, Ready

LEMMA LogsOutKeeps ==
  ASSUME NEW r, NEW n, LogsOut(r, n), Sound(r)
  PROVE  Keeps(r, n, {"dropping", "registers"})
<1>1. Sound(n) /\ n.worker = r.worker
  BY DEF LogsOut, Staging, Same, Fields, Calls, Sound, Sockets, Phase, Idle, Preparing
<1>2. ASSUME Ready(r) PROVE Timed(n)
  BY <1>2 DEF LogsOut, Staging, Same, Fields, Calls, Ready, Sound, Sockets, Timed, Leaving,
         Dead, Idle, Preparing
<1>3. ASSUME Ready(r) PROVE Leaving(n)
  BY <1>3 DEF LogsOut, Staging, Same, Fields, Calls, Ready, Sound, Sockets, Timed, Leaving,
         Dead, Idle, Preparing, Phase
<1>4. ASSUME Ready(r), Excused(r) PROVE Excused(n)
  BY <1>4 DEF LogsOut, Staging, Same, Fields, Calls, Ready, Sound, Sockets, Timed, Leaving,
         Excused, Idle, Preparing
<1>5. ASSUME Ready(r), Excused(r), Hoped(r) PROVE Hoped(n)
  BY <1>5 DEF LogsOut, Staging, Same, Fields, Calls, Ready, Sound, Sockets, Timed, Leaving,
         Excused, Hoped, Idle, Preparing
<1>6. ASSUME r.disc["recovery"] = "no" PROVE n.disc["recovery"] = "no"
  BY <1>6 DEF LogsOut, Staging, Same, Fields, Calls, Sound
<1>7. ASSUME Corrects(r) PROVE Corrects(n)
  BY <1>7 DEF LogsOut, Staging, Same, Fields, Calls, Sound, Sockets, Corrects
<1>8. ASSUME Ready(r), r.retired, n.timer PROVE r.timer
  BY <1>8 DEF LogsOut, Staging, Same, Fields, Calls, Ready, Sound, Sockets, Timed, Leaving,
         Dead, Idle, Preparing
<1>9. ASSUME Ready(r) PROVE n.net \subseteq r.net \/ r.lease
  BY <1>9 DEF LogsOut, Staging, Same, Fields, Calls, Ready, Timed, Preparing
<1> QED BY <1>1, <1>2, <1>3, <1>4, <1>5, <1>6, <1>7, <1>8, <1>9 DEF Keeps, Ready

LEMMA RecoversKeeps ==
  ASSUME NEW r, NEW n, Recovers(r, n), Sound(r)
  PROVE  Keeps(r, n, {"recovery"})
<1>1. Sound(n) /\ n.worker = r.worker
  BY DEF Recovers, Left, Quits, Tearing, Aborting, Staging, Same, Fields, Calls, Sound,
         Sockets, Phase, Idle, Preparing
<1>2. ASSUME Ready(r) PROVE Timed(n)
  BY <1>2, TimedRecovers DEF Ready
<1>3. ASSUME Ready(r) PROVE Leaving(n)
  BY <1>3, LeavingRecovers DEF Ready
<1>4. ASSUME Ready(r), Excused(r) PROVE Excused(n)
  BY <1>4 DEF Recovers, Left, Quits, Tearing, Aborting, Staging, Same, Fields, Calls, Ready,
         Sound, Sockets, Timed, Leaving, Excused, Idle, Preparing
<1>5. ASSUME Ready(r), Dropping(r) PROVE Dropping(n)
  BY <1>5 DEF Recovers, Left, Quits, Tearing, Aborting, Staging, Same, Fields, Calls, Ready,
         Sound, Sockets, Timed, Leaving, Dropping, Idle, Preparing
<1>6. ASSUME Ready(r), Excused(r), Hoped(r) PROVE Hoped(n)
  BY <1>6 DEF Recovers, Left, Quits, Tearing, Aborting, Staging, Same, Fields, Calls, Ready,
         Sound, Sockets, Timed, Leaving, Excused, Hoped, Idle, Preparing
<1>7. ASSUME Ready(r), Registers(n) PROVE Registers(r)
  BY <1>7 DEF Recovers, Left, Quits, Tearing, Aborting, Staging, Same, Fields, Calls, Ready,
         Sound, Sockets, Timed, Leaving, Registers, Idle, Preparing
<1>8. ASSUME Corrects(r) PROVE Corrects(n)
  BY <1>8 DEF Recovers, Left, Quits, Tearing, Aborting, Staging, Same, Fields, Calls, Sound,
         Sockets, Corrects
<1>9. ASSUME Ready(r), r.retired, n.timer PROVE r.timer
  BY <1>9 DEF Recovers, Left, Quits, Tearing, Aborting, Staging, Same, Fields, Calls, Ready,
         Sound, Sockets, Timed, Leaving, Dead, Idle, Preparing
<1>10. ASSUME Ready(r) PROVE n.net \subseteq r.net \/ r.lease
  BY <1>10 DEF Recovers, Left, Quits, Tearing, Aborting, Staging, Same, Fields, Calls, Ready,
         Timed, Preparing
<1> QED BY <1>1, <1>2, <1>3, <1>4, <1>5, <1>6, <1>7, <1>8, <1>9, <1>10 DEF Keeps, Ready

LEMMA ShutsKeeps ==
  ASSUME NEW r, NEW n, NEW k \in Calls, Shuts(r, n, k), Sound(r)
  PROVE  Keeps(r, n, {})
<1>1. Sound(n) /\ n.worker = r.worker
  BY DEF Shuts, Staging, Same, Fields, Calls, Sound, Sockets, Phase, Idle, Preparing
<1>2. ASSUME Ready(r) PROVE Timed(n)
  BY <1>2 DEF Shuts, Staging, Same, Fields, Calls, Ready, Sound, Sockets, Timed, Leaving, Dead,
         Idle, Preparing
<1>3. ASSUME Ready(r) PROVE Leaving(n)
  BY <1>3 DEF Shuts, Staging, Same, Fields, Calls, Ready, Sound, Sockets, Timed, Leaving, Dead,
         Idle, Preparing, Phase
<1>4. ASSUME Ready(r), Excused(r) PROVE Excused(n)
  BY <1>4 DEF Shuts, Staging, Same, Fields, Calls, Ready, Sound, Sockets, Timed, Leaving,
         Excused, Idle, Preparing
<1>5. ASSUME Ready(r), Dropping(r) PROVE Dropping(n)
  BY <1>5 DEF Shuts, Staging, Same, Fields, Calls, Ready, Sound, Sockets, Timed, Leaving,
         Dropping, Idle, Preparing
<1>6. ASSUME Ready(r), Excused(r), Hoped(r) PROVE Hoped(n)
  BY <1>6 DEF Shuts, Staging, Same, Fields, Calls, Ready, Sound, Sockets, Timed, Leaving,
         Excused, Hoped, Idle, Preparing
<1>7. ASSUME Ready(r), Registers(n) PROVE Registers(r)
  BY <1>7 DEF Shuts, Staging, Same, Fields, Calls, Ready, Sound, Sockets, Timed, Leaving,
         Registers, Idle, Preparing
<1>8. ASSUME r.disc["recovery"] = "no" PROVE n.disc["recovery"] = "no"
  BY <1>8 DEF Shuts, Staging, Same, Fields, Calls, Sound
<1>9. ASSUME Corrects(r) PROVE Corrects(n)
  BY <1>9 DEF Shuts, Staging, Same, Fields, Calls, Sound, Sockets, Corrects
<1>10. ASSUME Ready(r), r.retired, n.timer PROVE r.timer
  BY <1>10 DEF Shuts, Staging, Same, Fields, Calls, Ready, Sound, Sockets, Timed, Leaving,
         Dead, Idle, Preparing
<1>11. ASSUME Ready(r) PROVE n.net \subseteq r.net \/ r.lease
  BY <1>11 DEF Shuts, Staging, Same, Fields, Calls, Ready, Timed, Preparing
<1> QED BY <1>1, <1>2, <1>3, <1>4, <1>5, <1>6, <1>7, <1>8, <1>9, <1>10, <1>11 DEF Keeps, Ready

LEMMA DeregistersKeeps ==
  ASSUME NEW r, NEW n, NEW k \in Calls, Deregisters(r, n, k), Sound(r)
  PROVE  Keeps(r, n, {})
<1>1. Sound(n) /\ n.worker = r.worker
  BY DEF Deregisters, Staging, Same, Fields, Calls, Sound, Sockets, Phase, Idle, Preparing
<1>2. ASSUME Ready(r) PROVE Timed(n)
  BY <1>2 DEF Deregisters, Staging, Same, Fields, Calls, Ready, Sound, Sockets, Timed, Leaving,
         Dead, Idle, Preparing
<1>3. ASSUME Ready(r) PROVE Leaving(n)
  BY <1>3 DEF Deregisters, Staging, Same, Fields, Calls, Ready, Sound, Sockets, Timed, Leaving,
         Dead, Idle, Preparing, Phase
<1>4. ASSUME Ready(r), Excused(r) PROVE Excused(n)
  BY <1>4 DEF Deregisters, Staging, Same, Fields, Calls, Ready, Sound, Sockets, Timed, Leaving,
         Excused, Idle, Preparing
<1>5. ASSUME Ready(r), Dropping(r) PROVE Dropping(n)
  BY <1>5 DEF Deregisters, Staging, Same, Fields, Calls, Ready, Sound, Sockets, Timed, Leaving,
         Dropping, Idle, Preparing
<1>6. ASSUME Ready(r), Excused(r), Hoped(r) PROVE Hoped(n)
  BY <1>6 DEF Deregisters, Staging, Same, Fields, Calls, Ready, Sound, Sockets, Timed, Leaving,
         Excused, Hoped, Idle, Preparing
<1>7. ASSUME Ready(r), Registers(n) PROVE Registers(r)
  BY <1>7 DEF Deregisters, Staging, Same, Fields, Calls, Ready, Sound, Sockets, Timed, Leaving,
         Registers, Idle, Preparing
<1>8. ASSUME r.disc["recovery"] = "no" PROVE n.disc["recovery"] = "no"
  BY <1>8 DEF Deregisters, Staging, Same, Fields, Calls, Sound
<1>9. ASSUME Corrects(r) PROVE Corrects(n)
  BY <1>9 DEF Deregisters, Staging, Same, Fields, Calls, Sound, Sockets, Corrects
<1>10. ASSUME Ready(r), r.retired, n.timer PROVE r.timer
  BY <1>10 DEF Deregisters, Staging, Same, Fields, Calls, Ready, Sound, Sockets, Timed,
         Leaving, Dead, Idle, Preparing
<1>11. ASSUME Ready(r) PROVE n.net \subseteq r.net \/ r.lease
  BY <1>11 DEF Deregisters, Staging, Same, Fields, Calls, Ready, Timed, Preparing
<1> QED BY <1>1, <1>2, <1>3, <1>4, <1>5, <1>6, <1>7, <1>8, <1>9, <1>10, <1>11 DEF Keeps, Ready

LEMMA FinishesKeeps ==
  ASSUME NEW r, NEW n, NEW k \in Calls, Finishes(r, n, k), Sound(r)
  PROVE  Keeps(r, n, {"corrects"})
<1>1. Sound(n) /\ n.worker = r.worker
  BY DEF Finishes, Staging, Same, Fields, Calls, Sound, Sockets, Phase, Idle, Preparing
<1>2. ASSUME Ready(r) PROVE Timed(n)
  BY <1>2 DEF Finishes, Staging, Same, Fields, Calls, Ready, Sound, Sockets, Timed, Leaving,
         Dead, Idle, Preparing
<1>3. ASSUME Ready(r) PROVE Leaving(n)
  BY <1>3 DEF Finishes, Staging, Same, Fields, Calls, Ready, Sound, Sockets, Timed, Leaving,
         Dead, Idle, Preparing, Phase
<1>4. ASSUME Ready(r), Excused(r) PROVE Excused(n)
  BY <1>4 DEF Finishes, Staging, Same, Fields, Calls, Ready, Sound, Sockets, Timed, Leaving,
         Excused, Idle, Preparing
<1>5. ASSUME Ready(r), Dropping(r) PROVE Dropping(n)
  BY <1>5 DEF Finishes, Staging, Same, Fields, Calls, Ready, Sound, Sockets, Timed, Leaving,
         Dropping, Idle, Preparing
<1>6. ASSUME Ready(r), Excused(r), Hoped(r) PROVE Hoped(n)
  BY <1>6 DEF Finishes, Staging, Same, Fields, Calls, Ready, Sound, Sockets, Timed, Leaving,
         Excused, Hoped, Idle, Preparing
<1>7. ASSUME Ready(r), Registers(n) PROVE Registers(r)
  BY <1>7 DEF Finishes, Staging, Same, Fields, Calls, Ready, Sound, Sockets, Timed, Leaving,
         Registers, Idle, Preparing
<1>8. ASSUME r.disc["recovery"] = "no" PROVE n.disc["recovery"] = "no"
  BY <1>8 DEF Finishes, Staging, Same, Fields, Calls, Sound
<1>9. ASSUME Ready(r), r.retired, n.timer PROVE r.timer
  BY <1>9 DEF Finishes, Staging, Same, Fields, Calls, Ready, Sound, Sockets, Timed, Leaving,
         Dead, Idle, Preparing
<1>10. ASSUME Ready(r) PROVE n.net \subseteq r.net \/ r.lease
  BY <1>10 DEF Finishes, Staging, Same, Fields, Calls, Ready, Timed, Preparing
<1> QED BY <1>1, <1>2, <1>3, <1>4, <1>5, <1>6, <1>7, <1>8, <1>9, <1>10 DEF Keeps, Ready

-----------------------------------------------------------------------------
(* From the object that moves to all of them.                                *)

\* What a step may do with the lease of the session and with the map of the worker.
Owns(c) ==
  \/ owner' = owner /\ (cl'[c].lease => cl[c].lease)
  \/ owner' = OwnerAfterRelease(c) /\ ~cl'[c].lease
  \/ owner = NoClient /\ owner' = c
  \/ ~Unlost'

Places(c) ==
  \/ clients' = clients
  \/ /\ clients' = [clients EXCEPT ![cl[c].worker] = c]
     /\ (Orderly' => Map(c) \in {NoClient, c}) /\ Hoped(cl'[c])
  \/ /\ clients' = [clients EXCEPT ![cl[c].worker] = NoClient]
     /\ (Orderly' => Map(c) = c /\ ~Registers(cl'[c]))

\* Why a step may make each exception.
Allows(c, E) ==
  /\ "tidy" \in E => ~Unlost'
  /\ "excused" \in E => ~Supplied'
  /\ "dropping" \in E => (Untouched' => Dropping(cl'[c]))
  /\ "hoped" \in E => (Supplied' /\ Map(c) = c => Hoped(cl'[c]))
  /\ "registers" \in E => (Orderly' /\ Registers(cl'[c]) => clients'[cl[c].worker] = c)
  /\ "recovery" \in E => ~Unrecovered'
  /\ "corrects" \in E => status' # "online" \/ ~Reported'

\* A step of the object c, with these exceptions.
Moves(c, E) ==
  /\ Only(c) /\ Keeps(cl[c], cl'[c], E) /\ Allows(c, E) /\ Owns(c) /\ Places(c)
  /\ budget.struck \subseteq budget'.struck
  /\ status' = status \/ status' # "online" \/ Corrects(cl'[c])

\* Nothing that was struck is forgotten, so what the premises promise after a step
\* they promised before it.
LEMMA Fewer ==
  ASSUME budget.struck \subseteq budget'.struck
  PROVE  /\ Unlost' => Unlost
         /\ Supplied' => Supplied /\ Unlost
         /\ Untouched' => Untouched /\ Unlost
         /\ Unrecovered' => Unrecovered
         /\ Orderly' => Orderly /\ Unlost
         /\ Reported' => Reported
         /\ Supplied' => Unlost'
         /\ Untouched' => Unlost'
         /\ Orderly' => Unlost'
BY DEF Unlost, Supplied, Untouched, Unrecovered, Orderly, Reported, Without

\* A step of one object keeps the invariant of all, whatever the step.
LEMMA Moved ==
  ASSUME ZapoInv, NEW c \in Client, NEW E, Moves(c, E)
  PROVE  Shaped' /\ ZapoInv'
<1>1. /\ Unlost' => Unlost
      /\ Supplied' => Supplied /\ Unlost
      /\ Untouched' => Untouched /\ Unlost
      /\ Unrecovered' => Unrecovered
      /\ Orderly' => Orderly /\ Unlost
      /\ Reported' => Reported
      /\ Supplied' => Unlost'
      /\ Untouched' => Unlost'
      /\ Orderly' => Unlost'
  BY Fewer DEF Moves
<1>2. /\ Shaped' /\ \A d \in Client \ {c} : cl'[d] = cl[d]
      /\ Keeps(cl[c], cl'[c], E) /\ Allows(c, E) /\ Owns(c) /\ Places(c)
  BY DEF Moves, Only
<1>3. cl'[c].worker = cl[c].worker /\ cl[c].worker \in Worker /\ Sound(cl'[c])
  BY <1>2 DEF Keeps, ZapoInv, Sane, Sound
<1>4. \A d \in Client : cl'[d].worker = cl[d].worker /\ cl[d].worker \in Worker
  BY <1>2, <1>3 DEF ZapoInv, Sane, Sound
<1>5. clients \in [Worker -> Client \cup {NoClient}]
  BY DEF ZapoInv, Sane
<1>6. /\ clients' \in [Worker -> Client \cup {NoClient}]
      /\ \A d \in Client \ {c} : clients'[cl[d].worker] = d => clients[cl[d].worker] = d
  BY <1>2, <1>4, <1>5, SessionAssumption DEF Places
<1>7. Sane'
  BY <1>2, <1>3, <1>6 DEF ZapoInv, Sane
<1>8. Unlost' => Ready(cl[c])
  BY <1>1 DEF ZapoInv, Tidy
<1>9. Tidy'
  BY <1>1, <1>2, <1>8 DEF ZapoInv, Tidy, Keeps, Allows
<1>10. Supplied' => Excused(cl[c])
  BY <1>1 DEF ZapoInv, Blamed
<1>11. Blamed'
  BY <1>1, <1>2, <1>8, <1>10 DEF ZapoInv, Blamed, Keeps, Allows
<1>12. Handy'
  BY <1>1, <1>2, <1>8 DEF ZapoInv, Handy, Keeps, Allows
<1>13. ASSUME Unlost', NEW d \in Client, cl'[d].lease PROVE owner' = d
  <2>1. \A e \in Client : cl[e].lease => owner = e
    BY <1>1, <1>13 DEF ZapoInv, Leased
  <2>2. CASE d = c
    BY <1>2, <1>13, <2>1, <2>2 DEF Owns
  <2>3. CASE d # c
    <3>1. cl[d].lease /\ owner = d
      BY <1>2, <1>13, <2>1, <2>3
    <3> QED BY <1>2, <1>13, <2>3, <3>1, SessionAssumption DEF Owns, OwnerAfterRelease
  <2> QED BY <2>2, <2>3
<1>14. Leased'
  BY <1>13 DEF Leased
<1>15. ASSUME Supplied', NEW d \in Client, clients'[cl[d].worker] = d PROVE Hoped(cl'[d])
  <2>1. \A e \in Client : clients[cl[e].worker] = e => Hoped(cl[e])
    BY <1>1, <1>15 DEF ZapoInv, Hoping, Map
  <2>2. CASE d # c
    BY <1>2, <1>6, <1>15, <2>1, <2>2
  <2>3. CASE d = c /\ clients[cl[c].worker] = c
    <3>1. Ready(cl[c]) /\ Excused(cl[c]) /\ Hoped(cl[c])
      BY <1>1, <1>8, <1>10, <1>15, <2>1, <2>3
    <3> QED BY <1>2, <1>15, <2>3, <3>1 DEF Keeps, Allows, Map
  <2>4. CASE d = c /\ clients[cl[c].worker] # c
    BY <1>2, <1>3, <1>5, <1>15, <2>4, SessionAssumption DEF Places
  <2> QED BY <2>2, <2>3, <2>4
<1>16. Hoping'
  BY <1>4, <1>15 DEF Hoping, Map
<1>17. Recovered'
  BY <1>1, <1>2 DEF ZapoInv, Recovered, Keeps, Allows
<1>18. ASSUME Orderly', NEW d \in Client, Registers(cl'[d]) PROVE clients'[cl[d].worker] = d
  <2>1. \A e \in Client : Registers(cl[e]) => clients[cl[e].worker] = e
    BY <1>1, <1>18 DEF ZapoInv, Known, Map
  <2>2. CASE d # c
    <3>1. clients[cl[d].worker] = d
      BY <1>2, <1>18, <2>1, <2>2
    <3> QED BY <1>2, <1>4, <1>5, <1>18, <2>2, <3>1, SessionAssumption DEF Places, Map
  <2>3. CASE d = c
    <3>1. CASE "registers" \in E
      BY <1>2, <1>18, <2>3, <3>1 DEF Allows
    <3>2. CASE "registers" \notin E
      <4>1. clients[cl[c].worker] = c
        BY <1>1, <1>2, <1>8, <1>18, <2>1, <2>3, <3>2 DEF Keeps
      <4> QED BY <1>2, <1>3, <1>5, <1>18, <2>3, <4>1 DEF Places
    <3> QED BY <3>1, <3>2
  <2> QED BY <2>2, <2>3
<1>19. Known'
  BY <1>4, <1>18 DEF Known, Map
<1>20. ASSUME status' = "online", Reported' PROVE \E d \in Client : Corrects(cl'[d])
  <2>1. CASE Corrects(cl'[c])
    BY <2>1
  <2>2. CASE status = "online"
    <3>1. PICK d \in Client : Corrects(cl[d])
      BY <1>1, <1>20, <2>2 DEF ZapoInv, Truthful
    <3> QED BY <1>2, <1>20, <3>1 DEF Keeps, Allows
  <2> QED BY <1>20, <2>1, <2>2 DEF Moves
<1>21. Truthful'
  BY <1>20 DEF Truthful
<1> QED BY <1>2, <1>7, <1>9, <1>11, <1>12, <1>14, <1>16, <1>17, <1>19, <1>21 DEF ZapoInv

-----------------------------------------------------------------------------
(* One lemma per action: which relation it is, and what allows its exceptions. *)

LEMMA LookupMoves ==
  ASSUME Shaped, ZapoInv, NEW c \in Client, Lookup(c)
  PROVE  Moves(c, {})
<1>1. Only(c) /\ Looks(cl[c], cl'[c])
  BY Looking DEF ZapoInv
<1>2. Keeps(cl[c], cl'[c], {})
  BY <1>1, LooksKeeps DEF ZapoInv, Sane
<1>3. budget.struck \subseteq budget'.struck
  BY DEF Lookup, Spend
<1>4. Allows(c, {})
  BY DEF Allows
<1>5. owner' = owner
  BY DEF Lookup
<1>6. Owns(c)
  BY <1>1, <1>5 DEF Owns, Looks, Same, Fields
<1>7. Places(c)
  BY DEF Lookup, Places
<1>8. status' = status \/ status' # "online"
  BY DEF Lookup
<1> QED BY <1>1, <1>2, <1>3, <1>4, <1>6, <1>7, <1>8 DEF Moves

LEMMA ReconnectMoves ==
  ASSUME Shaped, ZapoInv, NEW c \in Client, Reconnect(c)
  PROVE  Moves(c, {})
<1>1. Only(c) /\ Wakes(cl[c], cl'[c])
  BY Waking DEF ZapoInv
<1>2. Keeps(cl[c], cl'[c], {})
  BY <1>1, WakesKeeps DEF ZapoInv, Sane
<1>3. budget.struck \subseteq budget'.struck
  BY DEF Reconnect, Spend
<1>4. Allows(c, {})
  BY DEF Allows
<1>5. owner' = owner
  BY DEF Reconnect
<1>6. Owns(c)
  BY <1>1, <1>5 DEF Owns, Wakes, Same, Fields
<1>7. Places(c)
  BY DEF Reconnect, Places
<1>8. status' = status \/ status' # "online"
  BY DEF Reconnect
<1> QED BY <1>1, <1>2, <1>3, <1>4, <1>6, <1>7, <1>8 DEF Moves

LEMMA SetConnectingMoves ==
  ASSUME Shaped, ZapoInv, NEW c \in Client, SetConnecting(c)
  PROVE  Moves(c, {})
<1>1. Only(c) /\ Connects(cl[c], cl'[c])
  BY Connecting DEF ZapoInv
<1>2. Keeps(cl[c], cl'[c], {})
  BY <1>1, ConnectsKeeps DEF ZapoInv, Sane
<1>3. budget.struck \subseteq budget'.struck
  BY DEF SetConnecting, Spend
<1>4. Allows(c, {})
  BY DEF Allows
<1>5. owner' = owner
  BY DEF SetConnecting
<1>6. Owns(c)
  BY <1>1, <1>5 DEF Owns, Connects, Same, Fields
<1>7. Places(c)
  BY DEF SetConnecting, Places
<1>8. status' = status \/ status' # "online"
  BY DEF SetConnecting
<1> QED BY <1>1, <1>2, <1>3, <1>4, <1>6, <1>7, <1>8 DEF Moves

LEMMA PreparedMoves ==
  ASSUME Shaped, ZapoInv, NEW c \in Client, Prepared(c)
  PROVE  Moves(c, {})
<1>1. Only(c) /\ Prepares(cl[c], cl'[c])
  BY Preparation DEF ZapoInv
<1>2. Keeps(cl[c], cl'[c], {})
  BY <1>1, PreparesKeeps DEF ZapoInv, Sane
<1>3. budget.struck \subseteq budget'.struck
  BY DEF Prepared, Spend
<1>4. Allows(c, {})
  BY DEF Allows
<1>5. owner' = owner
  BY DEF Prepared
<1>6. Owns(c)
  BY <1>1, <1>5 DEF Owns, Prepares, Same, Fields
<1>7. Places(c)
  BY DEF Prepared, Places
<1>8. status' = status \/ status' # "online"
  BY DEF Prepared
<1> QED BY <1>1, <1>2, <1>3, <1>4, <1>6, <1>7, <1>8 DEF Moves

LEMMA DialMoves ==
  ASSUME Shaped, ZapoInv, NEW c \in Client, Dial(c)
  PROVE  Moves(c, {})
<1>1. Only(c) /\ Dials(cl[c], cl'[c])
  BY Dialling DEF ZapoInv
<1>2. Keeps(cl[c], cl'[c], {})
  BY <1>1, DialsKeeps DEF ZapoInv, Sane
<1>3. budget.struck \subseteq budget'.struck
  BY DEF Dial, Spend
<1>4. Allows(c, {})
  BY DEF Allows
<1>5. owner' = owner
  BY DEF Dial
<1>6. Owns(c)
  BY <1>1, <1>5 DEF Owns, Dials, Same, Fields
<1>7. Places(c)
  BY DEF Dial, Places
<1>8. status' = status \/ status' # "online"
  BY DEF Dial
<1> QED BY <1>1, <1>2, <1>3, <1>4, <1>6, <1>7, <1>8 DEF Moves

LEMMA ConnectThrowsMoves ==
  ASSUME Shaped, ZapoInv, NEW c \in Client, ConnectThrows(c)
  PROVE  Moves(c, {"excused"})
<1>1. Only(c) /\ Throws(cl[c], cl'[c])
  BY Throwing DEF ZapoInv
<1>2. Keeps(cl[c], cl'[c], {"excused"})
  BY <1>1, ThrowsKeeps DEF ZapoInv, Sane
<1>3. budget.struck \subseteq budget'.struck
  BY DEF ConnectThrows, Spend
<1>4. Allows(c, {"excused"})
  BY DEF ConnectThrows, Spend, Allows, Supplied, Without
<1>5. owner' = owner
  BY DEF ConnectThrows
<1>6. Owns(c)
  BY <1>1, <1>5 DEF Owns, Throws, Same, Fields
<1>7. Places(c)
  BY DEF ConnectThrows, Places
<1>8. status' = status \/ status' # "online"
  BY DEF ConnectThrows
<1> QED BY <1>1, <1>2, <1>3, <1>4, <1>6, <1>7, <1>8 DEF Moves

LEMMA ConnectFailsMoves ==
  ASSUME Shaped, ZapoInv, NEW c \in Client, ConnectFails(c)
  PROVE  Moves(c, {})
<1>1. Only(c) /\ Fails(cl[c], cl'[c])
  BY Failure DEF ZapoInv
<1>2. Keeps(cl[c], cl'[c], {})
  BY <1>1, FailsKeeps DEF ZapoInv, Sane
<1>3. budget.struck \subseteq budget'.struck
  BY DEF ConnectFails, Spend
<1>4. Allows(c, {})
  BY DEF Allows
<1>5. owner' = OwnerAfterRelease(c)
  BY DEF ConnectFails
<1>6. Owns(c)
  BY <1>1, <1>5 DEF Owns, Fails
<1>7. Places(c)
  BY DEF ConnectFails, Places
<1>8. status' = status \/ status' # "online"
  BY DEF ConnectFails
<1> QED BY <1>1, <1>2, <1>3, <1>4, <1>6, <1>7, <1>8 DEF Moves

LEMMA PromptMoves ==
  ASSUME Shaped, ZapoInv, NEW c \in Client, Prompt(c)
  PROVE  Moves(c, {})
<1>1. Only(c) /\ Prompts(cl[c], cl'[c])
  BY Prompting DEF ZapoInv
<1>2. Keeps(cl[c], cl'[c], {})
  BY <1>1, PromptsKeeps DEF ZapoInv, Sane
<1>3. budget.struck \subseteq budget'.struck
  BY DEF Prompt, Spend
<1>4. Allows(c, {})
  BY DEF Allows
<1>5. owner' = owner
  BY DEF Prompt
<1>6. Owns(c)
  BY <1>1, <1>5 DEF Owns, Prompts, Same, Fields
<1>7. Places(c)
  BY DEF Prompt, Places
<1>8. status' = status \/ status' # "online"
  BY DEF Prompt
<1> QED BY <1>1, <1>2, <1>3, <1>4, <1>6, <1>7, <1>8 DEF Moves

LEMMA DialRejectsMoves ==
  ASSUME Shaped, ZapoInv, NEW c \in Client, NEW s, DialRejects(c, s)
  PROVE  Moves(c, {})
<1>1. Only(c) /\ Rejects(cl[c], cl'[c], s)
  BY Rejecting DEF ZapoInv
<1>2. Keeps(cl[c], cl'[c], {})
  BY <1>1, RejectsKeeps DEF ZapoInv, Sane
<1>3. budget.struck \subseteq budget'.struck
  BY DEF DialRejects, Spend
<1>4. Allows(c, {})
  BY DEF Allows
<1>5. owner' = owner
  BY DEF DialRejects
<1>6. Owns(c)
  BY <1>1, <1>5 DEF Owns, Rejects, Breaks, Same, Fields
<1>7. Places(c)
  BY DEF DialRejects, Places
<1>8. status' = status \/ status' # "online"
  BY DEF DialRejects
<1> QED BY <1>1, <1>2, <1>3, <1>4, <1>6, <1>7, <1>8 DEF Moves

LEMMA DialDeadlineMoves ==
  ASSUME Shaped, ZapoInv, NEW c \in Client, DialDeadline(c)
  PROVE  Moves(c, {})
<1>1. Only(c) /\ Overruns(cl[c], cl'[c])
  BY Overrunning DEF ZapoInv
<1>2. Keeps(cl[c], cl'[c], {})
  BY <1>1, OverrunsKeeps DEF ZapoInv, Sane
<1>3. budget.struck \subseteq budget'.struck
  BY DEF DialDeadline, Spend
<1>4. Allows(c, {})
  BY DEF Allows
<1>5. owner' = owner
  BY DEF DialDeadline
<1>6. Owns(c)
  BY <1>1, <1>5 DEF Owns, Overruns, Breaks, Same, Fields
<1>7. Places(c)
  BY DEF DialDeadline, Places
<1>8. status' = status \/ status' # "online"
  BY DEF DialDeadline
<1> QED BY <1>1, <1>2, <1>3, <1>4, <1>6, <1>7, <1>8 DEF Moves

LEMMA CloseDoomedMoves ==
  ASSUME Shaped, ZapoInv, NEW c \in Client, NEW s, CloseDoomed(c, s)
  PROVE  Moves(c, {})
<1>1. Only(c) /\ Dooms(cl[c], cl'[c])
  BY Dooming DEF ZapoInv
<1>2. Keeps(cl[c], cl'[c], {})
  BY <1>1, DoomsKeeps DEF ZapoInv, Sane
<1>3. budget.struck \subseteq budget'.struck
  BY DEF CloseDoomed, Spend
<1>4. Allows(c, {})
  BY DEF Allows
<1>5. owner' = owner
  BY DEF CloseDoomed
<1>6. Owns(c)
  BY <1>1, <1>5 DEF Owns, Dooms, Same, Fields
<1>7. Places(c)
  BY DEF CloseDoomed, Places
<1>8. status' = status \/ status' # "online"
  BY DEF CloseDoomed
<1> QED BY <1>1, <1>2, <1>3, <1>4, <1>6, <1>7, <1>8 DEF Moves

LEMMA FailureHandledMoves ==
  ASSUME Shaped, ZapoInv, NEW c \in Client, NEW s, FailureHandled(c, s)
  PROVE  Moves(c, {"corrects"})
<1>1. Only(c) /\ Copes(cl[c], cl'[c], s)
  BY Coping DEF ZapoInv
<1>2. Keeps(cl[c], cl'[c], {"corrects"})
  BY <1>1, CopesKeeps DEF ZapoInv, Sane
<1>3. budget.struck \subseteq budget'.struck
  BY DEF FailureHandled, Spend
<1>4. Allows(c, {"corrects"})
  BY DEF FailureHandled, Allows
<1>5. owner' = OwnerAfterRelease(c)
  BY DEF FailureHandled
<1>6. Owns(c)
  BY <1>1, <1>5 DEF Owns, Copes
<1>7. Places(c)
  BY DEF FailureHandled, Places
<1>8. status' = status \/ status' # "online"
  BY DEF FailureHandled
<1> QED BY <1>1, <1>2, <1>3, <1>4, <1>6, <1>7, <1>8 DEF Moves

LEMMA OpenMoves ==
  ASSUME Shaped, ZapoInv, NEW c \in Client, NEW s, Open(c, s)
  PROVE  Moves(c, {})
<1>1. Only(c) /\ Opens(cl[c], cl'[c], s)
  BY Opening DEF ZapoInv
<1>2. Keeps(cl[c], cl'[c], {})
  BY <1>1, OpensKeeps DEF ZapoInv, Sane
<1>3. budget.struck \subseteq budget'.struck
  BY DEF Open, Spend
<1>4. Allows(c, {})
  BY DEF Allows
<1>5. owner' = owner
  BY DEF Open
<1>6. Owns(c)
  BY <1>1, <1>5 DEF Owns, Opens, Same, Fields
<1>7. Places(c)
  BY DEF Open, Places
<1>8. status' = status \/ status' # "online"
  BY DEF Open
<1> QED BY <1>1, <1>2, <1>3, <1>4, <1>6, <1>7, <1>8 DEF Moves

LEMMA DiscardedMoves ==
  ASSUME Shaped, ZapoInv, NEW c \in Client, NEW s, NEW b, Discarded(c, s, b)
  PROVE  Moves(c, {})
<1>1. Only(c) /\ Discards(cl[c], cl'[c], s)
  BY Discarding DEF ZapoInv
<1>2. Keeps(cl[c], cl'[c], {})
  BY <1>1, DiscardsKeeps DEF ZapoInv, Sane
<1>3. budget.struck \subseteq budget'.struck
  BY DEF Discarded, Spend
<1>4. Allows(c, {})
  BY DEF Allows
<1>5. owner' = OwnerAfterRelease(c)
  BY DEF Discarded
<1>6. Owns(c)
  BY <1>1, <1>5 DEF Owns, Discards
<1>7. Places(c)
  BY DEF Discarded, Places
<1>8. status' = status \/ status' # "online"
  BY DEF Discarded
<1> QED BY <1>1, <1>2, <1>3, <1>4, <1>6, <1>7, <1>8 DEF Moves

LEMMA CloseMoves ==
  ASSUME Shaped, ZapoInv, NEW c \in Client, NEW s, NEW b, Close(c, s, b)
  PROVE  Moves(c, {})
<1>1. Only(c) /\ Drops(cl[c], cl'[c], s)
  BY Dropped DEF ZapoInv
<1>2. Keeps(cl[c], cl'[c], {})
  BY <1>1, DropsKeeps DEF ZapoInv, Sane
<1>3. budget.struck \subseteq budget'.struck
  BY DEF Close, Spend
<1>4. Allows(c, {})
  BY DEF Allows
<1>5. owner' = owner
  BY DEF Close
<1>6. Owns(c)
  BY <1>1, <1>5 DEF Owns, Drops, Same, Fields
<1>7. Places(c)
  BY DEF Close, Places
<1>8. status' = status \/ status' # "online"
  BY DEF Close
<1> QED BY <1>1, <1>2, <1>3, <1>4, <1>6, <1>7, <1>8 DEF Moves

LEMMA ClosedMoves ==
  ASSUME Shaped, ZapoInv, NEW c \in Client, NEW s, Closed(c, s)
  PROVE  Moves(c, {"corrects"})
<1>1. Only(c) /\ Closes(cl[c], cl'[c], s)
  BY Closing DEF ZapoInv
<1>2. Keeps(cl[c], cl'[c], {"corrects"})
  BY <1>1, ClosesKeeps DEF ZapoInv, Sane
<1>3. budget.struck \subseteq budget'.struck
  BY DEF Closed, Spend
<1>4. Allows(c, {"corrects"})
  BY DEF Closed, Allows
<1>5. owner' = IF cl[c].sock = s /\ ~cl[c].intent THEN OwnerAfterRelease(c) ELSE owner
  <2> DEFINE r == [cl[c] EXCEPT !.closing = cl[c].closing \ {s}]
  <2>1. owner' = IF r.sock = s /\ ~r.intent THEN OwnerAfterRelease(c) ELSE owner
    BY DEF Closed
  <2>2. r.sock = cl[c].sock /\ r.intent = cl[c].intent
    BY DEF Shaped, Shape, Fields
  <2> QED BY <2>1, <2>2
<1>6. Owns(c)
  BY <1>1, <1>5 DEF Owns, Closes, Same, Fields
<1>7. Places(c)
  BY DEF Closed, Places
<1>8. status' = status \/ status' # "online"
  BY DEF Closed
<1> QED BY <1>1, <1>2, <1>3, <1>4, <1>6, <1>7, <1>8 DEF Moves

LEMMA LossClosedMoves ==
  ASSUME Shaped, ZapoInv, NEW c \in Client, LossClosed(c)
  PROVE  Moves(c, {"tidy", "excused", "dropping", "hoped", "registers"})
<1>1. Only(c) /\ LossWaits(cl[c], cl'[c])
  BY LossClosing DEF ZapoInv
<1>2. Keeps(cl[c], cl'[c], {"tidy", "excused", "dropping", "hoped", "registers"})
  BY <1>1, LossWaitsKeeps DEF ZapoInv, Sane
<1>3. budget.struck \subseteq budget'.struck
  BY DEF LossClosed, Spend
<1>4. Allows(c, {"tidy", "excused", "dropping", "hoped", "registers"})
  <2>1. ~Unlost
    BY <1>1 DEF LossWaits, ZapoInv, Tidy, Ready, Leaving
  <2> QED BY <1>3, <2>1, Fewer DEF Allows
<1>5. owner' = owner
  BY DEF LossClosed
<1>6. Owns(c)
  BY <1>1, <1>5 DEF Owns, LossWaits, Same, Fields
<1>7. Places(c)
  BY DEF LossClosed, Places
<1>8. status' = status \/ status' # "online"
  BY DEF LossClosed
<1> QED BY <1>1, <1>2, <1>3, <1>4, <1>6, <1>7, <1>8 DEF Moves

LEMMA LossHandledMoves ==
  ASSUME Shaped, ZapoInv, NEW c \in Client, LossHandled(c)
  PROVE  Moves(c, {"tidy", "excused", "dropping", "hoped", "registers", "corrects"})
<1>1. Only(c) /\ LossEnds(cl[c], cl'[c])
  BY LossHandling DEF ZapoInv
<1>2. Keeps(cl[c], cl'[c], {"tidy", "excused", "dropping", "hoped", "registers", "corrects"})
  BY <1>1, LossEndsKeeps DEF ZapoInv, Sane
<1>3. budget.struck \subseteq budget'.struck
  BY DEF LossHandled, Spend
<1>4. Allows(c, {"tidy", "excused", "dropping", "hoped", "registers", "corrects"})
  <2>1. ~Unlost
    BY <1>1 DEF LossEnds, ZapoInv, Tidy, Ready, Leaving
  <2>2. status' # "online"
    BY DEF LossHandled
  <2> QED BY <1>3, <2>1, <2>2, Fewer DEF Allows
<1>5. owner' = owner
  BY DEF LossHandled
<1>6. Owns(c)
  BY <1>1, <1>5 DEF Owns, LossEnds, Same, Fields
<1>7. Places(c)
  BY DEF LossHandled, Places
<1>8. status' = status \/ status' # "online"
  BY DEF LossHandled
<1> QED BY <1>1, <1>2, <1>3, <1>4, <1>6, <1>7, <1>8 DEF Moves

LEMMA LossStatusThrowsMoves ==
  ASSUME Shaped, ZapoInv, NEW c \in Client, LossStatusThrows(c)
  PROVE  Moves(c, {"tidy", "excused", "dropping", "hoped", "registers", "corrects"})
<1>1. Only(c) /\ LossEnds(cl[c], cl'[c])
  BY LossThrowing DEF ZapoInv
<1>2. Keeps(cl[c], cl'[c], {"tidy", "excused", "dropping", "hoped", "registers", "corrects"})
  BY <1>1, LossEndsKeeps DEF ZapoInv, Sane
<1>3. budget.struck \subseteq budget'.struck
  BY DEF LossStatusThrows, Spend
<1>4. Allows(c, {"tidy", "excused", "dropping", "hoped", "registers", "corrects"})
  <2>1. ~Unlost
    BY <1>1 DEF LossEnds, ZapoInv, Tidy, Ready, Leaving
  <2>2. ~Reported'
    BY DEF LossStatusThrows, Spend, Reported, Without
  <2> QED BY <1>3, <2>1, <2>2, Fewer DEF Allows
<1>5. owner' = owner
  BY DEF LossStatusThrows
<1>6. Owns(c)
  BY <1>1, <1>5 DEF Owns, LossEnds, Same, Fields
<1>7. Places(c)
  BY DEF LossStatusThrows, Places
<1>8. status' = status \/ status' # "online"
  BY DEF LossStatusThrows
<1> QED BY <1>1, <1>2, <1>3, <1>4, <1>6, <1>7, <1>8 DEF Moves

LEMMA LoseOwnershipMoves ==
  ASSUME Shaped, ZapoInv, NEW c \in Client, LoseOwnership(c)
  PROVE  Moves(c, {"tidy", "excused", "dropping", "hoped", "registers"})
<1>1. Only(c) /\ Loses(cl[c], cl'[c])
  BY Losing DEF ZapoInv
<1>2. Keeps(cl[c], cl'[c], {"tidy", "excused", "dropping", "hoped", "registers"})
  BY <1>1, LosesKeeps DEF ZapoInv, Sane
<1>3. budget.struck \subseteq budget'.struck
  BY DEF LoseOwnership, Spend
<1>4. Allows(c, {"tidy", "excused", "dropping", "hoped", "registers"})
  <2>1. ~Unlost'
    <3>1. CASE owner = c
      BY <3>1 DEF LoseOwnership, Spend, Unlost, Without, LeaseLoss
    <3>2. CASE owner # c
      BY <1>1, <1>3, <3>2, Fewer DEF Loses, ZapoInv, Leased
    <3> QED BY <3>1, <3>2
  <2> QED BY <1>3, <2>1, Fewer DEF Allows
<1>5. ~Unlost'
  BY <1>4 DEF Allows
<1>6. Owns(c)
  BY <1>5 DEF Owns
<1>7. Places(c)
  BY DEF LoseOwnership, Places
<1>8. status' = status \/ status' # "online"
  BY DEF LoseOwnership
<1> QED BY <1>1, <1>2, <1>3, <1>4, <1>6, <1>7, <1>8 DEF Moves

LEMMA DisconnectMoves ==
  ASSUME Shaped, ZapoInv, NEW c \in Client, Disconnect(c)
  PROVE  Moves(c, {"dropping", "registers"})
<1>1. Only(c) /\ Departs(cl[c], cl'[c])
  BY Departure DEF ZapoInv
<1>2. Keeps(cl[c], cl'[c], {"dropping", "registers"})
  BY <1>1, DepartsKeeps DEF ZapoInv, Sane
<1>3. budget.struck \subseteq budget'.struck
  BY DEF Disconnect, Spend
<1>4. Allows(c, {"dropping", "registers"})
  <2>1. ~Untouched'
    BY DEF Disconnect, Spend, Untouched, Without, ByHand
  <2>2. clients'[cl[c].worker] = c
    BY DEF Disconnect, Map
  <2> QED BY <2>1, <2>2 DEF Allows
<1>5. owner' = owner
  BY DEF Disconnect
<1>6. Owns(c)
  BY <1>1, <1>5 DEF Owns, Departs, Leaves, Left, Same, Fields
<1>7. Places(c)
  BY DEF Disconnect, Places
<1>8. status' = status \/ status' # "online"
  BY DEF Disconnect
<1> QED BY <1>1, <1>2, <1>3, <1>4, <1>6, <1>7, <1>8 DEF Moves

LEMMA LoggedOutMoves ==
  ASSUME Shaped, ZapoInv, NEW c \in Client, LoggedOut(c)
  PROVE  Moves(c, {"dropping", "registers"})
<1>1. Only(c) /\ Departs(cl[c], cl'[c])
  BY Departure DEF ZapoInv
<1>2. Keeps(cl[c], cl'[c], {"dropping", "registers"})
  BY <1>1, DepartsKeeps DEF ZapoInv, Sane
<1>3. budget.struck \subseteq budget'.struck
  BY DEF LoggedOut, Spend
<1>4. Allows(c, {"dropping", "registers"})
  <2>1. cl[c].disc["manual"] = "logout" /\ clients' = clients
    BY DEF LoggedOut
  <2>2. ASSUME Untouched' PROVE Dropping(cl'[c])
    BY <1>1, <1>3, <2>1, <2>2, Fewer, DroppingDeparts
       DEF ZapoInv, Sane, Tidy, Ready, Handy
  <2>3. ASSUME Orderly' PROVE clients'[cl[c].worker] = c
    <3>1. Registers(cl[c])
      BY <2>1 DEF Registers, Calls
    <3> QED BY <1>3, <2>1, <2>3, <3>1, Fewer DEF ZapoInv, Known, Map
  <2> QED BY <2>2, <2>3 DEF Allows
<1>5. owner' = owner
  BY DEF LoggedOut
<1>6. Owns(c)
  BY <1>1, <1>5 DEF Owns, Departs, Leaves, Left, Same, Fields
<1>7. Places(c)
  BY DEF LoggedOut, Places
<1>8. status' = status \/ status' # "online"
  BY DEF LoggedOut
<1> QED BY <1>1, <1>2, <1>3, <1>4, <1>6, <1>7, <1>8 DEF Moves

LEMMA RecoverMoves ==
  ASSUME Shaped, ZapoInv, NEW c \in Client, Recover(c)
  PROVE  Moves(c, {"recovery"})
<1>1. Only(c) /\ Recovers(cl[c], cl'[c])
  BY Recovering DEF ZapoInv
<1>2. Keeps(cl[c], cl'[c], {"recovery"})
  BY <1>1, RecoversKeeps DEF ZapoInv, Sane
<1>3. budget.struck \subseteq budget'.struck
  BY DEF Recover, Spend
<1>4. Allows(c, {"recovery"})
  BY DEF Recover, Spend, Allows, Unrecovered, Without
<1>5. owner' = owner
  BY DEF Recover
<1>6. Owns(c)
  BY <1>1, <1>5 DEF Owns, Recovers, Left, Same, Fields
<1>7. Places(c)
  BY DEF Recover, Places
<1>8. status' = status \/ status' # "online"
  BY DEF Recover
<1> QED BY <1>1, <1>2, <1>3, <1>4, <1>6, <1>7, <1>8 DEF Moves

LEMMA DisconnectClosedMoves ==
  ASSUME Shaped, ZapoInv, NEW c \in Client, NEW k \in Calls, NEW b, DisconnectClosed(c, k, b)
  PROVE  Moves(c, {})
<1>1. Only(c) /\ Shuts(cl[c], cl'[c], k)
  BY Shutting DEF ZapoInv
<1>2. Keeps(cl[c], cl'[c], {})
  BY <1>1, ShutsKeeps DEF ZapoInv, Sane
<1>3. budget.struck \subseteq budget'.struck
  BY DEF DisconnectClosed, Spend
<1>4. Allows(c, {})
  BY DEF Allows
<1>5. owner' = owner
  BY DEF DisconnectClosed
<1>6. Owns(c)
  BY <1>1, <1>5 DEF Owns, Shuts, Same, Fields
<1>7. Places(c)
  BY DEF DisconnectClosed, Places
<1>8. status' = status \/ status' # "online"
  BY DEF DisconnectClosed
<1> QED BY <1>1, <1>2, <1>3, <1>4, <1>6, <1>7, <1>8 DEF Moves

LEMMA DisconnectedMoves ==
  ASSUME Shaped, ZapoInv, NEW c \in Client, NEW k \in Calls, Disconnected(c, k)
  PROVE  Moves(c, {"corrects"})
<1>1. Only(c) /\ Finishes(cl[c], cl'[c], k)
  BY Finishing DEF ZapoInv
<1>2. Keeps(cl[c], cl'[c], {"corrects"})
  BY <1>1, FinishesKeeps DEF ZapoInv, Sane
<1>3. budget.struck \subseteq budget'.struck
  BY DEF Disconnected, Spend
<1>4. Allows(c, {"corrects"})
  BY DEF Disconnected, Allows
<1>5. owner' = OwnerAfterRelease(c)
  BY DEF Disconnected
<1>6. Owns(c)
  BY <1>1, <1>5 DEF Owns, Finishes
<1>7. Places(c)
  BY DEF Disconnected, Places
<1>8. status' = status \/ status' # "online"
  BY DEF Disconnected
<1> QED BY <1>1, <1>2, <1>3, <1>4, <1>6, <1>7, <1>8 DEF Moves

LEMMA CreateMoves ==
  ASSUME Shaped, ZapoInv, NEW c \in Client, Create(c)
  PROVE  \E E : Moves(c, E)
<1>1. /\ Only(c)
      /\ \/ Looks(cl[c], cl'[c]) /\ UNCHANGED <<clients, budget>>
         \/ /\ Begins(cl[c], cl'[c]) /\ clients' = [clients EXCEPT ![cl[c].worker] = c]
            /\ IF Map(c) = NoClient THEN UNCHANGED budget ELSE Spend("lookup")
  BY Creating DEF ZapoInv
<1>2. owner' = owner /\ status' = status
  BY DEF Create
<1>3. CASE Looks(cl[c], cl'[c]) /\ UNCHANGED <<clients, budget>>
  <2>1. Keeps(cl[c], cl'[c], {})
    BY <1>3, LooksKeeps DEF ZapoInv, Sane
  <2>2. Allows(c, {})
    BY DEF Allows
  <2>3. Owns(c)
    BY <1>2, <1>3 DEF Owns, Looks, Same, Fields
  <2> QED BY <1>1, <1>2, <1>3, <2>1, <2>2, <2>3 DEF Moves, Places
<1>4. CASE /\ Begins(cl[c], cl'[c]) /\ clients' = [clients EXCEPT ![cl[c].worker] = c]
           /\ IF Map(c) = NoClient THEN UNCHANGED budget ELSE Spend("lookup")
  <2>1. Keeps(cl[c], cl'[c], {"registers"})
    BY <1>4, BeginsKeeps DEF ZapoInv, Sane
  <2>2. Allows(c, {"registers"})
    BY <1>4 DEF Allows, ZapoInv, Sane, Sound
  <2>3. Owns(c)
    BY <1>2, <1>4 DEF Owns, Begins, Blank
  <2>4. budget.struck \subseteq budget'.struck /\ (Orderly' => Map(c) = NoClient)
    BY <1>4 DEF Spend, Orderly, Without
  <2>5. Hoped(cl'[c])
    BY <1>4 DEF Begins, Hoped
  <2>6. Places(c)
    BY <1>4, <2>4, <2>5 DEF Places
  <2> QED BY <1>1, <1>2, <2>1, <2>2, <2>3, <2>4, <2>6 DEF Moves
<1> QED BY <1>1, <1>3, <1>4

LEMMA AcquireMoves ==
  ASSUME Shaped, ZapoInv, NEW c \in Client, Acquire(c)
  PROVE  \E E : Moves(c, E)
<1>1. /\ Only(c)
      /\ \/ /\ Wins(cl[c], cl'[c])
            /\ owner' = (IF cl[c].lease THEN owner ELSE c) /\ (cl[c].lease \/ owner = NoClient)
         \/ /\ Yields(cl[c], cl'[c]) /\ UNCHANGED owner
            /\ cl[c].sock = 0 /\ Map(c) = c => Scheduling(cl'[c], cl[c])
  BY Acquiring DEF ZapoInv
<1>2. clients' = clients /\ status' = status /\ budget' = budget
  BY DEF Acquire
<1>3. CASE Wins(cl[c], cl'[c]) /\ owner' = (IF cl[c].lease THEN owner ELSE c) /\ (cl[c].lease \/ owner = NoClient)
  <2>1. Keeps(cl[c], cl'[c], {}) /\ Allows(c, {})
    BY <1>3, WinsKeeps DEF ZapoInv, Sane, Allows
  <2>2. Owns(c)
    BY <1>3 DEF Owns
  <2> QED BY <1>1, <1>2, <2>1, <2>2 DEF Moves, Places
<1>4. CASE /\ Yields(cl[c], cl'[c]) /\ UNCHANGED owner
           /\ cl[c].sock = 0 /\ Map(c) = c => Scheduling(cl'[c], cl[c])
  <2>1. Keeps(cl[c], cl'[c], {"hoped"})
    BY <1>4, YieldsKeeps DEF ZapoInv, Sane
  <2>2. Owns(c)
    BY <1>4 DEF Owns, Yields, Same, Fields
  <2>3. ASSUME Supplied', Map(c) = c PROVE Hoped(cl'[c])
    <3>1. Ready(cl[c])
      BY <1>2, <2>3, Fewer DEF ZapoInv, Tidy
    <3>2. /\ cl'[c].retired = cl[c].retired /\ cl'[c].intent = cl[c].intent /\ cl'[c].sock = cl[c].sock
          /\ cl'[c].disc = cl[c].disc
      BY <1>4 DEF Yields, Same, Fields
    <3>3. ~cl[c].intent /\ cl[c].sock = 0 => cl'[c].timer
      BY <1>4, <2>3 DEF Scheduling
    <3> QED BY <3>1, <3>2, <3>3 DEF Hoped, Ready, Leaving
  <2>4. Allows(c, {"hoped"})
    BY <2>3 DEF Allows
  <2> QED BY <1>1, <1>2, <2>1, <2>2, <2>4 DEF Moves, Places
<1> QED BY <1>1, <1>3, <1>4

LEMMA OpenedMoves ==
  ASSUME Shaped, ZapoInv, NEW c \in Client, NEW s, Opened(c, s)
  PROVE  \E E : Moves(c, E)
<1>1. /\ Only(c)
      /\ \/ /\ Uses(cl[c], cl'[c], s) /\ Map(c) \in {NoClient, c} /\ status' = "online"
            /\ clients' = [clients EXCEPT ![cl[c].worker] = c]
         \/ Refuses(cl[c], cl'[c], s) /\ UNCHANGED <<clients, status>>
  BY Using DEF ZapoInv
<1>2. owner' = owner /\ budget' = budget
  BY DEF Opened
<1>3. CASE /\ Uses(cl[c], cl'[c], s) /\ Map(c) \in {NoClient, c} /\ status' = "online"
           /\ clients' = [clients EXCEPT ![cl[c].worker] = c]
  <2>1. Keeps(cl[c], cl'[c], {"registers"})
    BY <1>3, UsesKeeps DEF ZapoInv, Sane
  <2>2. Allows(c, {"registers"})
    BY <1>3 DEF Allows, ZapoInv, Sane, Sound
  <2>3. Owns(c)
    BY <1>2, <1>3 DEF Owns, Uses, Same, Fields
  <2>4. cl'[c].connected /\ cl'[c].sock # 0
    BY <1>3, <2>1 DEF Uses, Keeps, Sound
  <2>5. Hoped(cl'[c]) /\ Corrects(cl'[c])
    BY <2>4 DEF Hoped, Corrects
  <2> QED BY <1>1, <1>2, <1>3, <2>1, <2>2, <2>3, <2>5 DEF Moves, Places
<1>4. CASE Refuses(cl[c], cl'[c], s) /\ UNCHANGED <<clients, status>>
  <2>1. Keeps(cl[c], cl'[c], {}) /\ Allows(c, {})
    BY <1>4, RefusesKeeps DEF ZapoInv, Sane, Allows
  <2>2. Owns(c)
    BY <1>2, <1>4 DEF Owns, Refuses, Same, Fields
  <2> QED BY <1>1, <1>2, <1>4, <2>1, <2>2 DEF Moves, Places
<1> QED BY <1>1, <1>3, <1>4

LEMMA LogoutMoves ==
  ASSUME Shaped, ZapoInv, NEW c \in Client, Logout(c)
  PROVE  Moves(c, {"dropping", "registers"})
<1>1. Only(c) /\ (Departs(cl[c], cl'[c]) \/ LogsOut(cl[c], cl'[c]))
  BY LoggingOut DEF ZapoInv
<1>2. Keeps(cl[c], cl'[c], {"dropping", "registers"})
  BY <1>1, DepartsKeeps, LogsOutKeeps DEF ZapoInv, Sane
<1>3. budget.struck \subseteq budget'.struck /\ ~Untouched'
  BY DEF Logout, Spend, Untouched, Without, ByHand
<1>4. clients' = clients /\ clients[cl[c].worker] = c /\ owner' = owner /\ status' = status
  BY DEF Logout, Map
<1>5. Owns(c)
  BY <1>1, <1>4 DEF Owns, Departs, Leaves, Left, LogsOut, Same, Fields
<1>6. Allows(c, {"dropping", "registers"})
  BY <1>3, <1>4 DEF Allows
<1> QED BY <1>1, <1>2, <1>3, <1>4, <1>5, <1>6 DEF Moves, Places

LEMMA DeregisterMoves ==
  ASSUME Shaped, ZapoInv, NEW c \in Client, NEW k \in Calls, Deregister(c, k)
  PROVE  Moves(c, {})
<1>1. Only(c) /\ Deregisters(cl[c], cl'[c], k)
  BY Deregistering DEF ZapoInv
<1>2. Keeps(cl[c], cl'[c], {}) /\ Allows(c, {})
  BY <1>1, DeregistersKeeps DEF ZapoInv, Sane, Allows
<1>3. /\ owner' = owner /\ status' = status /\ budget' = budget
      /\ clients' = [clients EXCEPT ![cl[c].worker] = NoClient]
  BY DEF Deregister
<1>4. Owns(c)
  BY <1>1, <1>3 DEF Owns, Deregisters, Same, Fields
<1>5. ASSUME Orderly' PROVE Map(c) = c /\ ~Registers(cl'[c])
  <2>1. Orderly /\ Unlost /\ (Unrecovered \/ Untouched)
    BY <1>3, <1>5, Fewer DEF Orderly, Unlost, Untouched, Without
  <2>2. Map(c) = c
    BY <1>1, <2>1 DEF ZapoInv, Known, Registers, Deregisters
  <2>3. Ready(cl[c])
    BY <2>1 DEF ZapoInv, Tidy
  <2>4. /\ cl'[c].connected = cl[c].connected /\ cl'[c].opened = cl[c].opened
        /\ cl'[c].sock = cl[c].sock /\ cl'[c].creating = cl[c].creating
        /\ cl'[c].disc[k] = "status" /\ \A j \in Calls \ {k} : cl'[c].disc[j] = cl[c].disc[j]
    BY <1>1 DEF Deregisters, Same, Fields, Staging
  <2>5. /\ ~cl'[c].connected /\ ~(cl'[c].opened = cl'[c].sock /\ cl'[c].sock # 0)
        /\ (k = "recovery" => ~cl'[c].creating)
    BY <1>1, <2>3, <2>4 DEF Deregisters, Ready, Leaving
  <2>6. \A j \in Calls \ {k} : cl[c].disc[j] = "no"
    <3>1. CASE Unrecovered
      BY <1>1, <3>1 DEF ZapoInv, Recovered, Deregisters, Calls
    <3>2. CASE Untouched
      BY <1>1, <3>2 DEF ZapoInv, Handy, Dropping, Deregisters, Calls
    <3> QED BY <2>1, <3>1, <3>2
  <2>7. \A j \in Calls : cl'[c].disc[j] \notin {"logout", "closing", "waiting"}
    BY <2>4, <2>6
  <2>8. ~(cl'[c].creating /\ cl'[c].disc["manual"] = "no")
    BY <2>4, <2>5 DEF Calls
  <2> QED BY <2>2, <2>5, <2>7, <2>8 DEF Registers
<1>6. Places(c)
  BY <1>3, <1>5 DEF Places
<1> QED BY <1>1, <1>2, <1>3, <1>4, <1>6 DEF Moves

-----------------------------------------------------------------------------
(* Every step of a run.                                                      *)

\* Every step is one object moving, a lease that expires or a worker that dies.
LEMMA Steps ==
  ASSUME Shaped, ZapoInv, Next
  PROVE  Expire \/ (\E w \in Worker : Crash(w)) \/ \E c \in Client : \E E : Moves(c, E)
<1>1. CASE Expire \/ \E w \in Worker : Crash(w)
  BY <1>1
<1>2. CASE \E c \in Client : Lookup(c) \/ Create(c) \/ ConnectStep(c) \/ Prompt(c) \/ LossStep(c)
  BY <1>2, LookupMoves, CreateMoves, ReconnectMoves, AcquireMoves, SetConnectingMoves, PreparedMoves,
     DialMoves, ConnectFailsMoves, PromptMoves, LossClosedMoves, LossHandledMoves
     DEF ConnectStep, LossStep
<1>3. CASE \E c \in Client : DisconnectStep(c)
  BY <1>3, LoggedOutMoves, DisconnectClosedMoves, DeregisterMoves, DisconnectedMoves DEF DisconnectStep
<1>4. CASE \E c \in Client : Disturb(c)
  BY <1>4, ConnectThrowsMoves, DialDeadlineMoves, LoseOwnershipMoves, LossStatusThrowsMoves,
     DisconnectMoves, LogoutMoves, RecoverMoves, DisconnectClosedMoves, CloseMoves DEF Disturb
<1>5. CASE \E c \in Client : \E s \in cl[c].dialing : Open(c, s) \/ DialRejects(c, s)
  BY <1>5, OpenMoves, DialRejectsMoves
<1>6. CASE \E c \in Client : \E s \in Handling(c) : SocketStep(c, s)
  BY <1>6, FailureHandledMoves, CloseDoomedMoves, OpenedMoves, ClosedMoves, DiscardedMoves DEF SocketStep
<1> QED BY <1>1, <1>2, <1>3, <1>4, <1>5, <1>6 DEF Next

\* A lease nobody renewed runs out; no premise speaks of such a run.
LEMMA Expired ==
  ASSUME Shaped, ZapoInv, Expire
  PROVE  Shaped' /\ ZapoInv'
<1>1. cl' = cl /\ clients' = clients /\ status' = status
  BY DEF Expire
<1>2. budget.struck \subseteq budget'.struck
  BY DEF Expire, Spend
<1>3. ASSUME Unlost', NEW c \in Client, cl[c].lease PROVE FALSE
  <2>1. owner = c
    BY <1>2, <1>3, Fewer DEF ZapoInv, Leased
  <2>2. "expire" \in budget'.struck
    BY <2>1, SessionAssumption DEF Expire, Spend
  <2> QED BY <1>3, <2>2 DEF Unlost, Without, LeaseLoss
<1>4. Shaped' /\ Sane'
  BY <1>1 DEF Shaped, ZapoInv, Sane
<1>5. Tidy' /\ Blamed' /\ Handy'
  BY <1>1, <1>2, Fewer DEF ZapoInv, Tidy, Blamed, Handy
<1>6. Leased'
  BY <1>1, <1>3 DEF Leased
<1>7. Hoping' /\ Recovered' /\ Known'
  BY <1>1, <1>2, Fewer DEF ZapoInv, Hoping, Recovered, Known, Map
<1>8. Truthful'
  BY <1>1, <1>2, Fewer DEF ZapoInv, Truthful
<1> QED BY <1>4, <1>5, <1>6, <1>7, <1>8 DEF ZapoInv

\* What is left of an object when its worker dies.
Gone(r, w) == Blank(r, w, TRUE) /\ r.retired /\ r.task = "none" /\ ~r.creating

\* The objects of a dead worker promise nothing any more.
LEMMA GoneIsQuiet ==
  ASSUME NEW r, NEW w \in Worker, Gone(r, w)
  PROVE  Sound(r) /\ Ready(r) /\ Excused(r) /\ Dropping(r) /\ Hoped(r) /\ ~Registers(r)
<1>1. Sound(r) /\ ~Registers(r)
  BY DEF Gone, Blank, Sound, Registers, Sockets, Idle
<1>2. Timed(r)
  BY DEF Gone, Blank, Timed, Idle, Preparing
<1>3. Leaving(r)
  BY DEF Gone, Blank, Leaving, Dead, Calls
<1> QED BY <1>1, <1>2, <1>3 DEF Gone, Blank, Ready, Excused, Dropping, Hoped, Calls

LEMMA Crashing ==
  ASSUME Shaped, ZapoInv, NEW w \in Worker, Crash(w)
  PROVE  /\ Shaped'
         /\ \A c \in Client : \/ cl'[c] = cl[c] /\ (cl[c].worker = w => ~cl[c].made)
                              \/ Gone(cl'[c], w) /\ cl[c].worker = w
<1> DEFINE f == Fresh(w)
           g == [f EXCEPT !.made = TRUE, !.retired = TRUE]
<1>1. Blank(f, w, FALSE) /\ f.task = "none" /\ ~f.creating
  BY DEF Fresh, Blank, Shape, Fields, Phase
<1>2. cl' = [c \in Client |-> IF cl[c].worker = w /\ (cl[c].made \/ cl[c].asking) THEN g ELSE cl[c]]
  BY DEF Crash
<1> HIDE DEF f
<1>3. Same(g, f, {"made", "retired"}) /\ g.made /\ g.retired
  BY <1>1 DEF Same, Shape, Fields, Blank
<1> HIDE DEF g
<1>4. Gone(g, w)
  BY <1>1, <1>3 DEF Gone, Blank, Same, Fields
<1>5. Shape(g)
  BY <1>3 DEF Same
<1> QED BY <1>2, <1>4, <1>5 DEF Shaped

LEMMA Crashed ==
  ASSUME Shaped, ZapoInv, NEW w \in Worker, Crash(w)
  PROVE  Shaped' /\ ZapoInv'
<1>1. /\ Shaped'
      /\ \A c \in Client : \/ cl'[c] = cl[c] /\ (cl[c].worker = w => ~cl[c].made)
                           \/ Gone(cl'[c], w) /\ cl[c].worker = w
  BY Crashing
<1>2. /\ budget.struck \subseteq budget'.struck /\ ~Reported'
      /\ clients' = [clients EXCEPT ![w] = NoClient]
      /\ owner' = IF owner \in {c \in Client : cl[c].worker = w} THEN Orphan ELSE owner
  BY DEF Crash, Spend, Reported, Without
<1>3. \A c \in Client : Gone(cl'[c], w) =>
        /\ Sound(cl'[c]) /\ Ready(cl'[c]) /\ Excused(cl'[c]) /\ Dropping(cl'[c]) /\ Hoped(cl'[c])
        /\ ~Registers(cl'[c]) /\ cl'[c].worker = w /\ ~cl'[c].lease /\ cl'[c].disc["recovery"] = "no"
  BY GoneIsQuiet DEF Gone, Blank, Calls
<1>4. \A c \in Client : cl'[c].worker = cl[c].worker /\ cl[c].worker \in Worker
  BY <1>1, <1>3 DEF ZapoInv, Sane, Sound
<1>5. clients \in [Worker -> Client \cup {NoClient}]
  BY DEF ZapoInv, Sane
<1>6. Sane'
  BY <1>1, <1>2, <1>3, <1>5 DEF ZapoInv, Sane
<1>7. Tidy' /\ Blamed' /\ Handy'
  BY <1>1, <1>2, <1>3, Fewer DEF ZapoInv, Tidy, Blamed, Handy
<1>8. ASSUME Unlost', NEW c \in Client, cl'[c].lease PROVE owner' = c
  <2>1. cl'[c] = cl[c] /\ (cl[c].worker = w => ~cl[c].made)
    BY <1>1, <1>3, <1>8
  <2>2. owner = c /\ cl[c].made
    BY <1>2, <1>8, <2>1, Fewer DEF ZapoInv, Leased, Sane, Sound
  <2> QED BY <1>2, <2>1, <2>2
<1>9. Leased'
  BY <1>8 DEF Leased
<1>10. \A c \in Client : clients'[cl[c].worker] = c =>
         cl'[c] = cl[c] /\ cl[c].worker # w /\ clients[cl[c].worker] = c
  BY <1>1, <1>2, <1>4, <1>5, SessionAssumption
<1>11. Hoping'
  BY <1>2, <1>4, <1>10, Fewer DEF ZapoInv, Hoping, Map
<1>12. Recovered'
  BY <1>1, <1>2, <1>3, Fewer DEF ZapoInv, Recovered
<1>13. ASSUME Orderly', NEW c \in Client, Registers(cl'[c]) PROVE clients'[cl[c].worker] = c
  <2>1. cl'[c] = cl[c] /\ (cl[c].worker = w => ~cl[c].made)
    BY <1>1, <1>3, <1>13
  <2>2. cl[c].made
    BY <1>13, <2>1 DEF ZapoInv, Sane, Sound, Registers
  <2>3. clients[cl[c].worker] = c
    BY <1>2, <1>13, <2>1, Fewer DEF ZapoInv, Known, Map
  <2> QED BY <1>2, <1>4, <1>5, <2>1, <2>2, <2>3
<1>14. Known'
  BY <1>4, <1>13 DEF Known, Map
<1>15. Truthful'
  BY <1>2 DEF Truthful
<1> QED BY <1>1, <1>6, <1>7, <1>9, <1>11, <1>12, <1>14, <1>15 DEF ZapoInv

\* The invariant holds before anything has happened.
LEMMA Begun ==
  ASSUME Init
  PROVE  Shaped /\ ZapoInv
<1>1. PICK home \in Homes : cl = [c \in Client |-> Fresh(home[c])]
  BY DEF Init
<1>2. \A c \in Client : home[c] \in Worker
  BY <1>1, SessionAssumption
<1>3. ASSUME NEW w \in Worker
      PROVE  /\ Blank(Fresh(w), w, FALSE) /\ Fresh(w).task = "none" /\ ~Fresh(w).creating /\ ~Fresh(w).retired
  BY DEF Fresh, Blank, Shape, Fields, Phase
<1>4. ASSUME NEW r, NEW w \in Worker, Blank(r, w, FALSE), r.task = "none", ~r.creating, ~r.retired
      PROVE  /\ Shape(r) /\ Sound(r) /\ Excused(r) /\ Dropping(r) /\ Hoped(r) /\ ~Registers(r)
             /\ ~r.lease /\ r.disc["recovery"] = "no"
  <2>1. Sound(r)
    BY <1>4 DEF Blank, Sound, Sockets, Idle
  <2> QED BY <1>4, <2>1 DEF Blank, Excused, Dropping, Hoped, Registers, Calls
<1>5. ASSUME NEW r, NEW w \in Worker, Blank(r, w, FALSE), r.task = "none", ~r.creating, ~r.retired
      PROVE  Ready(r)
  <2>1. Timed(r)
    BY <1>5 DEF Blank, Timed, Idle, Preparing
  <2>2. Leaving(r)
    BY <1>5 DEF Blank, Leaving, Dead, Calls
  <2> QED BY <2>1, <2>2 DEF Ready
<1>6. \A c \in Client :
        /\ Shape(cl[c]) /\ Sound(cl[c]) /\ Ready(cl[c]) /\ Excused(cl[c]) /\ Dropping(cl[c])
        /\ Hoped(cl[c]) /\ ~Registers(cl[c]) /\ ~cl[c].lease /\ cl[c].disc["recovery"] = "no"
  <2> SUFFICES ASSUME NEW c \in Client
               PROVE  /\ Shape(cl[c]) /\ Sound(cl[c]) /\ Ready(cl[c]) /\ Excused(cl[c]) /\ Dropping(cl[c])
                      /\ Hoped(cl[c]) /\ ~Registers(cl[c]) /\ ~cl[c].lease /\ cl[c].disc["recovery"] = "no"
    OBVIOUS
  <2>1. cl[c] = Fresh(home[c]) /\ home[c] \in Worker
    BY <1>1, <1>2
  <2>2. Blank(cl[c], home[c], FALSE) /\ cl[c].task = "none" /\ ~cl[c].creating /\ ~cl[c].retired
    BY <1>3, <2>1
  <2> QED BY <1>4, <1>5, <2>1, <2>2
<1>7. Shaped
  BY <1>1, <1>6 DEF Shaped
<1>8. clients \in [Worker -> Client \cup {NoClient}] /\ status # "online"
  BY DEF Init
<1> QED BY <1>6, <1>7, <1>8 DEF ZapoInv, Sane, Tidy, Blamed, Handy, Leased, Hoping, Recovered, Known, Truthful

\* The invariant is kept by every step.
LEMMA Kept ==
  ASSUME Shaped, ZapoInv, [Next]_vars
  PROVE  Shaped' /\ ZapoInv'
<1>1. CASE Next
  BY <1>1, Steps, Expired, Crashed, Moved
<1>2. CASE UNCHANGED vars
  BY <1>2 DEF vars, Shaped, ZapoInv, Sane, Tidy, Blamed, Handy, Leased, Hoping, Recovered, Known, Truthful,
     Unlost, Supplied, Untouched, Unrecovered, Orderly, Reported, Without, Map
<1> QED BY <1>1, <1>2

\* The invariant holds in every state of every run.
LEMMA Sessions == Spec => [](Shaped /\ ZapoInv)
<1>1. Init => Shaped /\ ZapoInv
  BY Begun
<1>2. (Shaped /\ ZapoInv) /\ [Next]_vars => (Shaped /\ ZapoInv)'
  BY Kept
<1> QED BY <1>1, <1>2, PTL DEF Spec

-----------------------------------------------------------------------------
(* The properties of ZapoSession.                                            *)

\* The record of a connected object speaks of its present socket, in every order in which
\* teardowns and the events of its sockets interleave (client_zapo.ts:448-461).
THEOREM Current == Spec => []ConnectedIsCurrent
<1>1. ZapoInv => ConnectedIsCurrent
  BY DEF ZapoInv, Sane, Sound, ConnectedIsCurrent
<1> QED BY <1>1, Sessions, PTL

\* However many objects and workers there are, no two ever use a live socket of the session,
\* in every order of their handlers (client_zapo.ts:250-274, 485-524, 1166-1208), but for a
\* lease lost to Redis and a disconnect by hand.
THEOREM Exclusive == Spec => []OneLiveSocket
<1>1. ASSUME ZapoInv, Untouched, NEW c \in Client, NEW d \in Client, c # d PROVE ~(Live(c) /\ Live(d))
  <2>1. Unlost
    BY <1>1 DEF Untouched, Unlost, Without
  <2>2. \A e \in Client : Live(e) => owner = e
    BY <1>1, <2>1 DEF ZapoInv, Handy, Leased, Dropping, Live
  <2> QED BY <1>1, <2>2
<1>2. ZapoInv => OneLiveSocket
  BY <1>1 DEF OneLiveSocket, Untouched
<1> QED BY <1>2, Sessions, PTL

\* What send() finds in `clients` is the connected object, whatever duplicates were created
\* meanwhile (client_zapo.ts:452-461), with the exceptions the property names.
THEOREM Reachable == Spec => []ConnectedIsRegistered
<1>1. ZapoInv => ConnectedIsRegistered
  BY DEF ZapoInv, Known, Orderly, Unrecovered, Registers, ConnectedIsRegistered
<1> QED BY <1>1, Sessions, PTL

\* A registered object that nobody disconnected or unlinked always has a socket, or a timer,
\* a call or an event still to come that leads to one, unless the infrastructure fails.
THEOREM Remembered == Spec => []NotForgotten
<1>1. ASSUME ZapoInv, Supplied, NEW c \in Client, cl[c].made, Map(c) = c, ~cl[c].retired, ~cl[c].unlinked
      PROVE  cl[c].sock # 0 \/ Active(cl[c])
  BY <1>1 DEF ZapoInv, Hoping, Hoped, Active, Calls
<1>2. ZapoInv => NotForgotten
  BY <1>1 DEF NotForgotten, Supplied
<1> QED BY <1>2, Sessions, PTL

\* A session that Redis shows as online has a connected object, or one with a handler that is
\* about to correct the status, unless a worker died or the status could not be written.
THEOREM StatusIsTrue == Spec => []OnlineIsConnected
<1>1. \A r : Corrects(r) => r.connected \/ Active(r)
  BY DEF Corrects, Active
<1>2. ZapoInv => OnlineIsConnected
  BY <1>1 DEF ZapoInv, Truthful, Reported, OnlineIsConnected
<1> QED BY <1>2, Sessions, PTL

\* What a step does to the timer and to the sockets of an object.
LEMMA Restrained ==
  ASSUME Shaped, ZapoInv, Next, Unlost, NEW c \in Client
  PROVE  ~Rearms(c) /\ (cl'[c].net \subseteq cl[c].net \/ cl[c].lease)
<1>1. Ready(cl[c])
  BY DEF ZapoInv, Tidy
<1>2. CASE Expire
  BY <1>2 DEF Expire, Rearms
<1>3. CASE \E w \in Worker : Crash(w)
  <2>1. cl'[c] = cl[c] \/ \E w \in Worker : Gone(cl'[c], w)
    BY <1>3, Crashing
  <2> QED BY <2>1 DEF Gone, Blank, Rearms
<1>4. CASE \E d \in Client : \E E : Moves(d, E)
  <2>1. PICK d \in Client : \E E : Moves(d, E)
    BY <1>4
  <2>2. CASE c = d
    BY <1>1, <2>1, <2>2 DEF Moves, Keeps, Rearms
  <2>3. CASE c # d
    BY <2>1, <2>3 DEF Moves, Only, Rearms
  <2> QED BY <2>2, <2>3
<1> QED BY <1>2, <1>3, <1>4, Steps

\* The reconnect timer of a disconnected object is never armed again, although recoveries,
\* failures and closings may still be under way (client_zapo.ts:873-885, 1237-1260).
THEOREM RetiredStaysRetired == Spec => RetiredNeverReconnects
<1>1. Shaped /\ ZapoInv /\ [Next]_vars => [Without(LeaseLoss) => \A c \in Client : ~Rearms(c)]_vars
  BY Restrained DEF Unlost
<1> QED BY <1>1, Sessions, PTL DEF Spec, RetiredNeverReconnects

\* Only an object that holds the lease opens a socket, unless a lease was lost to Redis
\* (ENVIRONMENT.md:389).
THEOREM DialsUnderLease == Spec => OpensUnderLease
<1>1. Shaped /\ ZapoInv /\ [Next]_vars =>
        [Without(LeaseLoss) => \A c \in Client : ~(cl'[c].net \subseteq cl[c].net) => cl[c].lease]_vars
  BY Restrained DEF Unlost
<1> QED BY <1>1, Sessions, PTL DEF Spec, OpensUnderLease

-----------------------------------------------------------------------------
(* RedisLease.                                                               *)

\* Redis keeps a time to live exactly for a present key.
TtlOfKey == key # NoLease <=> ttl > 0

\* Once an object has sent its release it sends nothing more until the answer.
ReleaseIsLast ==
  \A l \in Lease : \A i \in 1..Len(calls[l]) :
    calls[l][i].op = "release" => i = Len(calls[l]) /\ fresh[l] = 0

\* What a positive answer still in flight is worth when it arrives.
AnswersVouch ==
  \A l \in Lease : \A i \in 1..Len(calls[l]) :
    calls[l][i].st = "ok" /\ calls[l][i].op # "release" /\ ~Releasing(l)
      => /\ ttl >= Ttl - calls[l][i].age
         /\ calls[l][i].age < Ttl => key = l

FreshVouches ==
  \A l \in Lease : fresh[l] > 0 => key = l /\ ttl >= fresh[l]

\* The strengthening: FreshHolderOwns alone says nothing of answers in flight.
LeaseInv == LeaseTypeOK /\ TtlOfKey /\ ReleaseIsLast /\ AnswersVouch /\ FreshVouches

-----------------------------------------------------------------------------
USE LeaseAssumption DEF LeaseAssumption

\* One step keeps the state well typed.
LEMMA LeaseTypeStep == LeaseTypeOK /\ [LeaseNext]_leaseVars => LeaseTypeOK'
<1> SUFFICES ASSUME LeaseTypeOK, [LeaseNext]_leaseVars PROVE LeaseTypeOK'
  OBVIOUS
<1> USE DEF LeaseTypeOK
<1>1. ASSUME NEW l \in Lease, NEW op \in {"acquire", "renew", "release"}, Send(l, op)
      PROVE  calls' \in [Lease -> Seq(Call)]
  <2>1. [op |-> op, st |-> "sent", age |-> 0] \in Call
    BY DEF Call
  <2> QED BY <1>1, <2>1 DEF Send
<1>2. CASE Tick
  <2>1. ASSUME NEW c \in Call PROVE Older(c) \in Call
    <3> DEFINE age == IF c.age < Ttl THEN c.age + 1 ELSE c.age
    <3>1. age \in 0..Ttl
      BY DEF Call
    <3> HIDE DEF age
    <3>2. [c EXCEPT !.age = age] \in Call
      BY <3>1 DEF Call
    <3> QED BY <3>2 DEF Older, age
  <2>2. calls' \in [Lease -> Seq(Call)]
    <3> SUFFICES ASSUME NEW l \in Lease
                 PROVE  [i \in 1..Len(calls[l]) |-> Older(calls[l][i])] \in Seq(Call)
      BY <1>2 DEF Tick
    <3>1. \A i \in 1..Len(calls[l]) : Older(calls[l][i]) \in Call
      BY <2>1
    <3> QED BY <3>1
  <2> QED BY <1>2, <2>2 DEF Tick
<1>3. ASSUME NEW l \in Lease, SendAcquire(l) PROVE LeaseTypeOK'
  BY <1>1, <1>3 DEF SendAcquire, Send
<1>4. ASSUME NEW l \in Lease, SendRenew(l) PROVE LeaseTypeOK'
  BY <1>1, <1>4 DEF SendRenew, Send
<1>5. ASSUME NEW l \in Lease, SendRelease(l) PROVE LeaseTypeOK'
  <2>1. calls' \in [Lease -> Seq(Call)]
    BY <1>1, <1>5 DEF SendRelease
  <2>2. fresh' \in [Lease -> 0..Ttl]
    BY <1>5 DEF SendRelease
  <2> QED BY <1>5, <2>1, <2>2 DEF SendRelease, Send
<1>6. ASSUME NEW l \in Lease, Execute(l) PROVE LeaseTypeOK'
  <2> PICK i \in 1..Len(calls[l]) :
        ExecuteAcquire(l, i) \/ ExecuteRenew(l, i) \/ ExecuteRelease(l, i)
    BY <1>6 DEF Execute
  <2>1. PICK ok \in BOOLEAN : Answer(l, i, ok)
    BY DEF ExecuteAcquire, ExecuteRenew, ExecuteRelease
  <2>2. [calls[l] EXCEPT ![i].st = IF ok THEN "ok" ELSE "no"] \in Seq(Call)
    <3>1. calls[l][i] \in Call
      OBVIOUS
    <3>2. [calls[l][i] EXCEPT !.st = IF ok THEN "ok" ELSE "no"] \in Call
      BY <3>1 DEF Call
    <3> QED BY <3>2
  <2>3. calls' \in [Lease -> Seq(Call)]
    BY <2>1, <2>2 DEF Answer
  <2> QED BY <1>6, <2>3 DEF Execute, ExecuteAcquire, ExecuteRenew, ExecuteRelease
<1>7. ASSUME NEW l \in Lease, Reply(l) PROVE LeaseTypeOK'
  <2>1. Head(calls[l]) \in Call /\ Tail(calls[l]) \in Seq(Call)
    BY <1>7 DEF Reply
  <2>2. Ttl - Head(calls[l]).age \in 0..Ttl
    BY <2>1 DEF Call
  <2> QED BY <1>7, <2>1, <2>2 DEF Reply
<1>8. ASSUME NEW l \in Lease, Reject(l) PROVE LeaseTypeOK'
  BY <1>8 DEF Reject
<1>9. CASE UNCHANGED leaseVars
  BY <1>9 DEF leaseVars
<1> QED BY <1>2, <1>3, <1>4, <1>5, <1>6, <1>7, <1>8, <1>9 DEF LeaseNext

\* The state of every run is well typed: in particular the age of a command
\* and the worth of an answer never leave 0..Ttl.
THEOREM TypeCorrect == LeaseSpec => []LeaseTypeOK
<1>1. LeaseInit => LeaseTypeOK
  BY DEF LeaseInit, LeaseTypeOK, Call
<1> QED BY <1>1, LeaseTypeStep, PTL DEF LeaseSpec

-----------------------------------------------------------------------------
\* One step keeps the strengthened invariant, action by action.
LEMMA LeaseInvStep == LeaseInv /\ [LeaseNext]_leaseVars => LeaseInv'
<1> SUFFICES ASSUME LeaseInv, [LeaseNext]_leaseVars PROVE LeaseInv'
  OBVIOUS
<1>t. LeaseTypeOK'
  BY LeaseTypeStep DEF LeaseInv
<1> USE DEF LeaseInv, LeaseTypeOK
<1>1. CASE Tick
  <2>1. TtlOfKey'
    BY <1>1 DEF Tick, TtlOfKey
  <2>2. \A l \in Lease : /\ Len(calls'[l]) = Len(calls[l])
                         /\ \A i \in 1..Len(calls[l]) :
                              /\ calls'[l][i].op = calls[l][i].op
                              /\ calls'[l][i].st = calls[l][i].st
                              /\ calls'[l][i].age = IF calls[l][i].age < Ttl
                                                    THEN calls[l][i].age + 1
                                                    ELSE calls[l][i].age
    <3> TAKE l \in Lease
    <3>1. calls'[l] = [i \in 1..Len(calls[l]) |-> Older(calls[l][i])]
      BY <1>1 DEF Tick
    <3>2. \A i \in 1..Len(calls[l]) : calls[l][i] \in Call
      OBVIOUS
    <3>3. Len(calls'[l]) = Len(calls[l])
      BY <3>1
    <3> QED BY <3>1, <3>2, <3>3 DEF Older, Call
  <2>3. ReleaseIsLast'
    BY <2>2, <1>1 DEF Tick, ReleaseIsLast
  <2>4. AnswersVouch'
    <3> SUFFICES ASSUME NEW l \in Lease, NEW i \in 1..Len(calls'[l]),
                        calls'[l][i].st = "ok", calls'[l][i].op # "release",
                        ~Releasing(l)'
                 PROVE  /\ ttl' >= Ttl - calls'[l][i].age
                        /\ calls'[l][i].age < Ttl => key' = l
      BY DEF AnswersVouch
    <3>1. ~Releasing(l)
      BY <2>2 DEF Releasing
    <3>2. i \in 1..Len(calls[l]) /\ calls[l][i].st = "ok" /\ calls[l][i].op # "release"
      BY <2>2
    <3>3. calls[l][i] \in Call
      BY <3>2
    <3>4. /\ ttl >= Ttl - calls[l][i].age
          /\ calls[l][i].age < Ttl => key = l
      BY <3>1, <3>2 DEF AnswersVouch
    <3>5. calls'[l][i].age = IF calls[l][i].age < Ttl THEN calls[l][i].age + 1
                             ELSE calls[l][i].age
      BY <2>2, <3>2
    <3>6. calls[l][i].age \in 0..Ttl
      BY <3>3 DEF Call
    <3> QED BY <3>4, <3>5, <3>6, <1>1 DEF Tick
  <2>5. FreshVouches'
    BY <1>1 DEF Tick, FreshVouches
  <2> QED BY <1>t, <2>1, <2>3, <2>4, <2>5
<1>2. ASSUME NEW m \in Lease, NEW op \in {"acquire", "renew", "release"}, Send(m, op),
             ~Releasing(m),
             fresh' = IF op = "release" THEN [fresh EXCEPT ![m] = 0] ELSE fresh,
             op = "acquire" => calls[m] = <<>>
      PROVE  LeaseInv'
  <2> DEFINE new == [op |-> op, st |-> "sent", age |-> 0]
  <2>1. /\ calls'[m] = Append(calls[m], new)
        /\ \A l \in Lease : l # m => calls'[l] = calls[l] /\ fresh'[l] = fresh[l]
        /\ key' = key /\ ttl' = ttl
    BY <1>2 DEF Send
  <2>2. /\ Len(calls'[m]) = Len(calls[m]) + 1
        /\ calls'[m][Len(calls[m]) + 1] = new
        /\ \A i \in 1..Len(calls[m]) : calls'[m][i] = calls[m][i]
        /\ Len(calls[m]) \in Nat
    BY <2>1
  <2>3. \A i \in 1..Len(calls[m]) : calls[m][i].op # "release"
    BY <1>2 DEF Releasing
  <2>4. ReleaseIsLast'
    <3> SUFFICES ASSUME NEW l \in Lease, NEW i \in 1..Len(calls'[l]),
                        calls'[l][i].op = "release"
                 PROVE  i = Len(calls'[l]) /\ fresh'[l] = 0
      BY DEF ReleaseIsLast
    <3>1. CASE l # m
      BY <3>1, <2>1 DEF ReleaseIsLast
    <3>2. CASE l = m
      <4>1. i = Len(calls[m]) + 1
        <5> SUFFICES ASSUME i # Len(calls[m]) + 1 PROVE FALSE
          OBVIOUS
        <5>1. i \in 1..Len(calls[m])
          BY <3>2, <2>2
        <5> QED BY <5>1, <3>2, <2>2, <2>3
      <4> QED BY <4>1, <3>2, <2>2, <1>2
    <3> QED BY <3>1, <3>2
  <2>5. AnswersVouch'
    <3> SUFFICES ASSUME NEW l \in Lease, NEW i \in 1..Len(calls'[l]),
                        calls'[l][i].st = "ok", calls'[l][i].op # "release",
                        ~Releasing(l)'
                 PROVE  /\ ttl' >= Ttl - calls'[l][i].age
                        /\ calls'[l][i].age < Ttl => key' = l
      BY DEF AnswersVouch
    <3>1. CASE l # m
      BY <3>1, <2>1 DEF AnswersVouch, Releasing
    <3>2. CASE l = m
      <4>1. i \in 1..Len(calls[m])
        BY <3>2, <2>2
      <4> QED BY <4>1, <3>2, <2>2, <2>1, <1>2 DEF AnswersVouch
    <3> QED BY <3>1, <3>2
  <2> QED BY <1>t, <1>2, <2>1, <2>4, <2>5 DEF TtlOfKey, FreshVouches
<1>3. ASSUME NEW m \in Lease, Execute(m) PROVE LeaseInv'
  <2> PICK k \in 1..Len(calls[m]) :
        /\ Unexecuted(m, k)
        /\ ExecuteAcquire(m, k) \/ ExecuteRenew(m, k) \/ ExecuteRelease(m, k)
    BY <1>3 DEF Execute
  <2>1. /\ calls[m][k].st = "sent"
        /\ acquired' = acquired /\ fresh' = fresh
    BY <1>3 DEF Execute, Unexecuted
  <2>2. PICK ok \in BOOLEAN : Answer(m, k, ok)
    BY DEF ExecuteAcquire, ExecuteRenew, ExecuteRelease
  <2>3. /\ \A l \in Lease : l # m => calls'[l] = calls[l]
        /\ Len(calls'[m]) = Len(calls[m])
        /\ \A i \in 1..Len(calls[m]) :
             /\ calls'[m][i].op = calls[m][i].op
             /\ calls'[m][i].age = calls[m][i].age
             /\ i # k => calls'[m][i].st = calls[m][i].st
        /\ calls'[m][k].st = IF ok THEN "ok" ELSE "no"
    <3>1. \A i \in 1..Len(calls[m]) : calls[m][i] \in Call
      OBVIOUS
    <3>2. calls'[m] = [calls[m] EXCEPT ![k].st = IF ok THEN "ok" ELSE "no"]
      BY <2>2 DEF Answer
    <3> QED BY <2>2, <3>1, <3>2 DEF Answer, Call
  <2>4. \A l \in Lease : Releasing(l)' <=> Releasing(l)
    BY <2>3 DEF Releasing
  <2>5. ReleaseIsLast'
    <3> SUFFICES ASSUME NEW l \in Lease, NEW i \in 1..Len(calls'[l]),
                        calls'[l][i].op = "release"
                 PROVE  i = Len(calls'[l]) /\ fresh'[l] = 0
      BY DEF ReleaseIsLast
    <3>1. /\ Len(calls'[l]) = Len(calls[l])
          /\ i \in 1..Len(calls[l])
          /\ calls[l][i].op = "release"
      BY <2>3
    <3> QED BY <3>1, <2>1 DEF ReleaseIsLast
  <2>6. ASSUME key' = key, ttl' = ttl, calls'[m][k].st = "no" PROVE AnswersVouch'
    <3> SUFFICES ASSUME NEW l \in Lease, NEW i \in 1..Len(calls'[l]),
                        calls'[l][i].st = "ok", calls'[l][i].op # "release",
                        ~Releasing(l)'
                 PROVE  /\ ttl' >= Ttl - calls'[l][i].age
                        /\ calls'[l][i].age < Ttl => key' = l
      BY DEF AnswersVouch
    <3>1. /\ i \in 1..Len(calls[l]) /\ calls[l][i].st = "ok"
          /\ calls[l][i].op # "release" /\ calls'[l][i].age = calls[l][i].age
          /\ ~Releasing(l)
      BY <2>3, <2>4, <2>6
    <3> QED BY <3>1, <2>6 DEF AnswersVouch
  <2>7. CASE ExecuteAcquire(m, k)
    <3>1. CASE key = NoLease
      <4>1. key' = m /\ ttl' = Ttl /\ ttl = 0
        BY <2>7, <3>1 DEF ExecuteAcquire, TtlOfKey
      <4>2. FreshVouches' /\ TtlOfKey'
        BY <4>1, <3>1, <2>1 DEF FreshVouches, TtlOfKey
      <4>3. AnswersVouch'
        <5> SUFFICES ASSUME NEW l \in Lease, NEW i \in 1..Len(calls'[l]),
                            calls'[l][i].st = "ok", calls'[l][i].op # "release",
                            ~Releasing(l)'
                     PROVE  /\ ttl' >= Ttl - calls'[l][i].age
                            /\ calls'[l][i].age < Ttl => key' = l
          BY DEF AnswersVouch
        <5>1. i \in 1..Len(calls[l]) /\ calls'[l][i].age = calls[l][i].age
          BY <2>3
        <5>2. calls[l][i].age \in 0..Ttl
          <6>1. calls[l][i] \in Call
            BY <5>1
          <6> QED BY <6>1 DEF Call
        <5>3. CASE l = m
          BY <5>1, <5>2, <5>3, <4>1
        <5>4. CASE l # m
          <6>1. ttl >= Ttl - calls[l][i].age /\ (calls[l][i].age < Ttl => key = l)
            BY <5>4, <5>1, <2>3, <2>4 DEF AnswersVouch
          <6> QED BY <6>1, <5>1, <5>2, <4>1, <3>1
        <5> QED BY <5>3, <5>4
      <4> QED BY <1>t, <2>5, <4>2, <4>3
    <3>2. CASE key # NoLease
      <4>1. key' = key /\ ttl' = ttl /\ calls'[m][k].st = "no"
        BY <2>7, <3>2, <2>3 DEF ExecuteAcquire, Answer
      <4>2. AnswersVouch'
        BY <4>1, <2>6
      <4> QED BY <1>t, <2>1, <2>5, <4>1, <4>2 DEF TtlOfKey, FreshVouches
    <3> QED BY <3>1, <3>2
  <2>8. CASE ExecuteRenew(m, k)
    <3>1. CASE key = m
      <4>1. key' = m /\ ttl' = Ttl /\ ttl > 0
        BY <2>8, <3>1 DEF ExecuteRenew, TtlOfKey
      <4>2. FreshVouches' /\ TtlOfKey'
        BY <4>1, <3>1, <2>1 DEF FreshVouches, TtlOfKey
      <4>3. AnswersVouch'
        <5> SUFFICES ASSUME NEW l \in Lease, NEW i \in 1..Len(calls'[l]),
                            calls'[l][i].st = "ok", calls'[l][i].op # "release",
                            ~Releasing(l)'
                     PROVE  /\ ttl' >= Ttl - calls'[l][i].age
                            /\ calls'[l][i].age < Ttl => key' = l
          BY DEF AnswersVouch
        <5>1. i \in 1..Len(calls[l]) /\ calls'[l][i].age = calls[l][i].age
          BY <2>3
        <5>2. calls[l][i].age \in 0..Ttl
          <6>1. calls[l][i] \in Call
            BY <5>1
          <6> QED BY <6>1 DEF Call
        <5>3. CASE l = m
          BY <5>1, <5>2, <5>3, <4>1
        <5>4. CASE l # m
          <6>1. ttl >= Ttl - calls[l][i].age /\ (calls[l][i].age < Ttl => key = l)
            BY <5>4, <5>1, <2>3, <2>4 DEF AnswersVouch
          <6> QED BY <6>1, <5>1, <5>2, <5>4, <4>1, <3>1
        <5> QED BY <5>3, <5>4
      <4> QED BY <1>t, <2>5, <4>2, <4>3
    <3>2. CASE key # m
      <4>1. key' = key /\ ttl' = ttl /\ calls'[m][k].st = "no"
        BY <2>8, <3>2, <2>3 DEF ExecuteRenew, Answer
      <4>2. AnswersVouch'
        BY <4>1, <2>6
      <4> QED BY <1>t, <2>1, <2>5, <4>1, <4>2 DEF TtlOfKey, FreshVouches
    <3> QED BY <3>1, <3>2
  <2>9. CASE ExecuteRelease(m, k)
    <3>0. Releasing(m) /\ fresh[m] = 0
      BY <2>9 DEF ExecuteRelease, Releasing, ReleaseIsLast
    <3>1. CASE key = m
      <4>1. key' = NoLease /\ ttl' = 0
        BY <2>9, <3>1 DEF ExecuteRelease
      <4>2. \A l \in Lease : fresh[l] = 0
        BY <3>0, <3>1 DEF FreshVouches
      <4>3. AnswersVouch'
        <5> SUFFICES ASSUME NEW l \in Lease, NEW i \in 1..Len(calls'[l]),
                            calls'[l][i].st = "ok", calls'[l][i].op # "release",
                            ~Releasing(l)'
                     PROVE  /\ ttl' >= Ttl - calls'[l][i].age
                            /\ calls'[l][i].age < Ttl => key' = l
          BY DEF AnswersVouch
        <5>1. l # m /\ calls'[l] = calls[l]
          BY <3>0, <2>3, <2>4
        <5>2. calls[l][i].age \in 0..Ttl
          <6>1. calls[l][i] \in Call
            BY <5>1
          <6> QED BY <6>1 DEF Call
        <5>3. calls[l][i].age < Ttl => key = l
          BY <5>1, <2>4 DEF AnswersVouch
        <5> QED BY <5>1, <5>2, <5>3, <3>1, <4>1
      <4> QED BY <1>t, <2>1, <2>5, <4>1, <4>2, <4>3 DEF TtlOfKey, FreshVouches
    <3>2. CASE key # m
      <4>1. key' = key /\ ttl' = ttl /\ calls'[m][k].st = "no"
        BY <2>9, <3>2, <2>3 DEF ExecuteRelease, Answer
      <4>2. AnswersVouch'
        BY <4>1, <2>6
      <4> QED BY <1>t, <2>1, <2>5, <4>1, <4>2 DEF TtlOfKey, FreshVouches
    <3> QED BY <3>1, <3>2
  <2> QED BY <2>7, <2>8, <2>9
<1>4. ASSUME NEW m \in Lease, calls[m] # <<>>, calls' = [calls EXCEPT ![m] = Tail(@)],
             key' = key, ttl' = ttl
      PROVE  /\ TtlOfKey' /\ AnswersVouch'
             /\ \A l \in Lease : l # m => calls'[l] = calls[l]
             /\ \A i \in 1..Len(calls'[m]) : calls'[m][i] = calls[m][i + 1]
             /\ Len(calls'[m]) = Len(calls[m]) - 1
             /\ Releasing(m) => Releasing(m)' \/ calls'[m] = <<>>
  <2>1. /\ \A l \in Lease : l # m => calls'[l] = calls[l]
        /\ \A i \in 1..Len(calls'[m]) : calls'[m][i] = calls[m][i + 1]
        /\ Len(calls'[m]) = Len(calls[m]) - 1
    BY <1>4
  <2>2. Releasing(m) => Releasing(m)' \/ calls'[m] = <<>>
    <3> SUFFICES ASSUME Releasing(m), calls'[m] # <<>> PROVE Releasing(m)'
      OBVIOUS
    <3>1. PICK i \in 1..Len(calls[m]) : calls[m][i].op = "release"
      BY DEF Releasing
    <3>2. i = Len(calls[m])
      BY <3>1 DEF ReleaseIsLast
    <3>3. Len(calls'[m]) \in 1..Len(calls'[m]) /\ Len(calls'[m]) + 1 = i
      BY <3>2, <2>1, <1>t
    <3> QED BY <3>1, <3>3, <2>1 DEF Releasing
  <2>3. AnswersVouch'
    <3> SUFFICES ASSUME NEW l \in Lease, NEW i \in 1..Len(calls'[l]),
                        calls'[l][i].st = "ok", calls'[l][i].op # "release",
                        ~Releasing(l)'
                 PROVE  /\ ttl' >= Ttl - calls'[l][i].age
                        /\ calls'[l][i].age < Ttl => key' = l
      BY DEF AnswersVouch
    <3>1. CASE l # m
      BY <3>1, <2>1, <1>4 DEF AnswersVouch, Releasing
    <3>2. CASE l = m
      <4>1. i + 1 \in 1..Len(calls[m]) /\ calls'[m][i] = calls[m][i + 1]
        BY <3>2, <2>1
      <4>2. ~Releasing(m)
        BY <3>2, <2>2, <1>t
      <4> QED BY <3>2, <4>1, <4>2, <1>4 DEF AnswersVouch
    <3> QED BY <3>1, <3>2
  <2> QED BY <2>1, <2>2, <2>3, <1>4 DEF TtlOfKey
<1>5. ASSUME NEW m \in Lease, Reply(m) PROVE LeaseInv'
  <2> DEFINE c == Head(calls[m])
             held == c.st = "ok" /\ c.op # "release"
  <2>1. /\ calls[m] # <<>> /\ calls' = [calls EXCEPT ![m] = Tail(@)]
        /\ key' = key /\ ttl' = ttl
        /\ fresh' = [fresh EXCEPT ![m] = IF held /\ ~Releasing(m) THEN Ttl - c.age ELSE 0]
        /\ c = calls[m][1] /\ 1 \in 1..Len(calls[m])
    BY <1>5 DEF Reply
  <2>2. c \in Call
    BY <2>1
  <2>3. FreshVouches'
    <3> SUFFICES ASSUME NEW l \in Lease, fresh'[l] > 0
                 PROVE  key' = l /\ ttl' >= fresh'[l]
      BY DEF FreshVouches
    <3>1. CASE l # m
      BY <3>1, <2>1 DEF FreshVouches
    <3>2. CASE l = m
      <4>1. held /\ ~Releasing(m) /\ fresh'[m] = Ttl - c.age
        BY <3>2, <2>1
      <4>2. c.age < Ttl
        BY <3>2, <4>1, <2>2 DEF Call
      <4> QED BY <3>2, <4>1, <4>2, <2>1 DEF AnswersVouch
    <3> QED BY <3>1, <3>2
  <2>4. ReleaseIsLast'
    <3> SUFFICES ASSUME NEW l \in Lease, NEW i \in 1..Len(calls'[l]),
                        calls'[l][i].op = "release"
                 PROVE  i = Len(calls'[l]) /\ fresh'[l] = 0
      BY DEF ReleaseIsLast
    <3>1. CASE l # m
      BY <3>1, <1>4, <2>1 DEF ReleaseIsLast
    <3>2. CASE l = m
      <4>1. /\ i + 1 \in 1..Len(calls[m]) /\ calls[m][i + 1].op = "release"
            /\ Len(calls'[m]) = Len(calls[m]) - 1
        BY <3>2, <1>4, <2>1
      <4>2. Releasing(m) /\ i + 1 = Len(calls[m])
        BY <4>1 DEF Releasing, ReleaseIsLast
      <4> QED BY <3>2, <4>1, <4>2, <2>1
    <3> QED BY <3>1, <3>2
  <2> QED BY <1>t, <2>1, <2>3, <2>4, <1>4
<1>6. ASSUME NEW m \in Lease, Reject(m) PROVE LeaseInv'
  <2>1. /\ calls[m] # <<>> /\ calls' = [calls EXCEPT ![m] = Tail(@)]
        /\ key' = key /\ ttl' = ttl /\ fresh' = fresh
    BY <1>6 DEF Reject
  <2>2. ReleaseIsLast'
    <3> SUFFICES ASSUME NEW l \in Lease, NEW i \in 1..Len(calls'[l]),
                        calls'[l][i].op = "release"
                 PROVE  i = Len(calls'[l]) /\ fresh'[l] = 0
      BY DEF ReleaseIsLast
    <3>1. CASE l # m
      BY <3>1, <1>4, <2>1 DEF ReleaseIsLast
    <3>2. CASE l = m
      <4>1. /\ i + 1 \in 1..Len(calls[m]) /\ calls[m][i + 1].op = "release"
            /\ Len(calls'[m]) = Len(calls[m]) - 1
        BY <3>2, <1>4, <2>1
      <4> QED BY <3>2, <4>1, <2>1 DEF ReleaseIsLast
    <3> QED BY <3>1, <3>2
  <2> QED BY <1>t, <2>1, <2>2, <1>4 DEF FreshVouches
<1>7. CASE UNCHANGED leaseVars
  <2> QED BY <1>t, <1>7
           DEF leaseVars, TtlOfKey, ReleaseIsLast, AnswersVouch, FreshVouches, Releasing
<1>8. ASSUME NEW m \in Lease, SendAcquire(m) PROVE LeaseInv'
  <2>1. Send(m, "acquire") /\ calls[m] = <<>> /\ fresh' = fresh
    BY <1>8 DEF SendAcquire
  <2>2. ~Releasing(m)
    BY <2>1 DEF Releasing
  <2> QED BY <2>1, <2>2, <1>2
<1>9. ASSUME NEW m \in Lease, SendRenew(m) \/ SendRelease(m) PROVE LeaseInv'
  BY <1>9, <1>2 DEF SendRenew, SendRelease
<1> QED BY <1>1, <1>3, <1>5, <1>6, <1>7, <1>8, <1>9 DEF LeaseNext

\* The strengthened invariant holds in every state of every run.
LEMMA LeaseInductive == LeaseSpec => []LeaseInv
<1>1. LeaseInit => LeaseInv
  BY DEF LeaseInit, LeaseInv, LeaseTypeOK, Call, TtlOfKey, ReleaseIsLast, AnswersVouch, FreshVouches
<1> QED BY <1>1, LeaseInvStep, PTL DEF LeaseSpec

\* A holder that counts its time from the sending of its last confirmed command
\* owns the key, for any number of competing objects and any reply delay.
THEOREM FreshHolder == LeaseSpec => []FreshHolderOwns
<1>1. LeaseInv => FreshHolderOwns
  BY DEF LeaseInv, FreshVouches, FreshHolderOwns
<1> QED BY <1>1, LeaseInductive, PTL

-----------------------------------------------------------------------------
\* Only the owner of the key frees or extends it, besides its running out.
THEOREM OwnerTouches == LeaseSpec => OnlyOwnerTouchesKey
<1> DEFINE P == /\ key # NoLease /\ key' # key =>
                     key' = NoLease /\ (ttl <= 1 \/ Executes(key, "release"))
                /\ key # NoLease /\ ttl' > ttl => key' = key /\ Executes(key, "renew")
<1>1. LeaseTypeOK /\ [LeaseNext]_leaseVars => [P]_leaseVars
  <2> SUFFICES ASSUME LeaseTypeOK, [LeaseNext]_leaseVars PROVE [P]_leaseVars
    OBVIOUS
  <2> USE DEF LeaseTypeOK
  <2>1. CASE Tick
    BY <2>1 DEF Tick
  <2>2. ASSUME NEW l \in Lease, Execute(l) PROVE P
    <3> PICK i \in 1..Len(calls[l]) :
          /\ calls[l][i].st = "sent"
          /\ ExecuteAcquire(l, i) \/ ExecuteRenew(l, i) \/ ExecuteRelease(l, i)
      BY <2>2 DEF Execute, Unexecuted
    <3>1. CASE ExecuteAcquire(l, i)
      BY <3>1 DEF ExecuteAcquire
    <3>2. CASE ExecuteRenew(l, i)
      <4>1. key = l => Executes(l, "renew")
        BY <3>2 DEF ExecuteRenew, Executes, Answer
      <4> QED BY <3>2, <4>1 DEF ExecuteRenew
    <3>3. CASE ExecuteRelease(l, i)
      <4>1. key = l => Executes(l, "release")
        BY <3>3 DEF ExecuteRelease, Executes, Answer
      <4> QED BY <3>3, <4>1 DEF ExecuteRelease
    <3> QED BY <3>1, <3>2, <3>3
  <2>3. ASSUME NEW l \in Lease,
               SendAcquire(l) \/ SendRenew(l) \/ SendRelease(l) \/ Reply(l) \/ Reject(l)
        PROVE  P
    BY <2>3 DEF SendAcquire, SendRenew, SendRelease, Send, Reply, Reject
  <2>4. CASE UNCHANGED leaseVars
    BY <2>4
  <2> QED BY <2>1, <2>2, <2>3, <2>4 DEF LeaseNext
<1> QED BY <1>1, TypeCorrect, PTL DEF LeaseSpec, OnlyOwnerTouchesKey

\* The Redis key implements the abstract lease: every command is a grant, a
\* release or a stutter of it.
THEOREM Refines == LeaseSpec => ImplementsSessionLease
<1>1. LeaseInit => Abstract!Init
  BY DEF LeaseInit, Abstract!Init
<1>2. LeaseTypeOK /\ [LeaseNext]_leaseVars => [Abstract!Next]_key
  <2> SUFFICES ASSUME LeaseTypeOK, [LeaseNext]_leaseVars PROVE [Abstract!Next]_key
    OBVIOUS
  <2> USE DEF LeaseTypeOK, Abstract!Next, Abstract!Grant, Abstract!Free
  <2>1. CASE Tick
    BY <2>1 DEF Tick
  <2>2. ASSUME NEW l \in Lease, Execute(l) PROVE [Abstract!Next]_key
    BY <2>2 DEF Execute, ExecuteAcquire, ExecuteRenew, ExecuteRelease
  <2>3. ASSUME NEW l \in Lease,
               SendAcquire(l) \/ SendRenew(l) \/ SendRelease(l) \/ Reply(l) \/ Reject(l)
        PROVE  UNCHANGED key
    BY <2>3 DEF SendAcquire, SendRenew, SendRelease, Send, Reply, Reject
  <2>4. CASE UNCHANGED leaseVars
    BY <2>4 DEF leaseVars
  <2> QED BY <2>1, <2>2, <2>3, <2>4 DEF LeaseNext
<1> QED BY <1>1, <1>2, TypeCorrect, PTL DEF LeaseSpec, ImplementsSessionLease, Abstract!Spec
=============================================================================
