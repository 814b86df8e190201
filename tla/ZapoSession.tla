---------------------------- MODULE ZapoSession ----------------------------
(* services/client_zapo.ts and services/providers/client_factory.ts: the     *)
(* ClientZapo objects that several workers create for ONE WhatsApp session,  *)
(* the distributed lease they compete for and the map `clients` of each      *)
(* worker. Every await of the source is a point where the other handlers of  *)
(* the object, and the other workers, may run: an action is the code between *)
(* two awaits, so each handler below is a first action and named tails.      *)
(*                                                                           *)
(* A socket is named by the connectionGeneration it was created under; 0 is  *)
(* `undefined`. Disturbances (kinds in Faults) come from a finite budget.    *)
EXTENDS Naturals, FiniteSets

CONSTANTS Client,      \* the ClientZapo objects that can be created
          Worker,      \* worker processes
          Homes,       \* which objects may live in which workers
          NoClient,    \* an absent entry of `clients`, a free lease
          Orphan,      \* the lease under a token no object holds any more
          Faults,      \* the kinds of disturbance that occur
          Budget,      \* bound: disturbances of one behaviour
          MaxGen       \* bound: no dial from this connectionGeneration on

FaultKinds == {"close", "unlink", "reject", "deadline", "hang", "recover",
               "manual", "logout", "expire", "renew", "crash", "infra", "status", "lookup"}

ASSUME SessionAssumption == /\ Homes \subseteq [Client -> Worker]
                            /\ NoClient \notin Client
                            /\ Orphan \notin Client \cup {NoClient}
                            /\ Faults \subseteq FaultKinds
                            /\ Budget \in Nat
                            /\ MaxGen \in Nat

VARIABLES cl,          \* the fields and pending handlers of each object
          clients,     \* clients.get(phone) of each worker
          owner,       \* whose lease token Redis stores for the session
          status,      \* the session status in Redis
          budget       \* disturbances left, and the kinds that have struck

vars == <<cl, clients, owner, status, budget>>

Calls == {"manual", "recovery"}                 \* who calls disconnectTransport
Phase == {"no", "logout", "closing", "waiting", "status"}

\* A new object of a worker: getClientProvider's `new ClientZapo(...)`.
Fresh(w) ==
  [worker |-> w,           \* the process it lives in
   made |-> FALSE,         \* the object exists
   asking |-> FALSE,       \* its getClientProvider awaits getConfig
   creating |-> FALSE,     \* getClientProvider awaits its first connect
   intent |-> FALSE,       \* intentionalDisconnect
   gen |-> 0,              \* connectionGeneration
   sock |-> 0,             \* socket
   connected |-> FALSE,
   lease |-> FALSE,        \* this.lease is set
   timer |-> FALSE,        \* reconnectTimer is armed
   task |-> "none",        \* how far connectTask has come
   prepGen |-> 0,          \* preparationGeneration
   opened |-> 0,           \* the socket watched by the transport watchdog
   awaited |-> 0,          \* the dial connectInternal awaits
   dialing |-> {},         \* sockets whose client.connect() is unsettled
   net |-> {},             \* sockets with a transport to WhatsApp
   opening |-> {},         \* 'open' handlers awaiting auth.save
   discarding |-> {},      \* 'open' handlers closing a duplicate socket
   closing |-> {},         \* 'close' handlers awaiting setStatus
   failing |-> {},         \* handleConnectionFailure awaiting setStatus
   doomed |-> {},          \* timed-out dials still to be closed
   loss |-> "no",          \* handleRuntimeOwnershipLoss
   lossSock |-> 0,
   disc |-> [k \in Calls |-> "no"],             \* disconnectTransport
   discSock |-> [k \in Calls |-> 0],
   waits |-> {},           \* calls awaiting the connectTask they found
   expected |-> 0,         \* expectedGeneration of recoverTransport
   retired |-> FALSE,      \* history: disconnect() or logout() was called
   unlinked |-> FALSE]     \* history: WhatsApp closed it with isLogout

Init == /\ \E home \in Homes : cl = [c \in Client |-> Fresh(home[c])]
        /\ clients = [w \in Worker |-> NoClient]
        /\ owner = NoClient
        /\ status = "offline"
        /\ budget = [left |-> Budget, struck |-> {}]

-----------------------------------------------------------------------------
(* Pieces of handlers, as functions of the object. *)

Map(c) == clients[cl[c].worker]

Spend(kind) == /\ kind \in Faults /\ budget.left > 0
               /\ budget' = [left |-> budget.left - 1, struck |-> budget.struck \cup {kind}]

\* isCurrent() of bindEvents
IsCurrent(r, s) == r.sock = s /\ r.gen = s /\ ~r.intent

\* connectionGeneration += 1, connected = false, socket = undefined
TornDown(r) == [r EXCEPT !.gen = @ + 1, !.sock = 0, !.connected = FALSE]

\* releaseRuntimeOwnership: this.lease = undefined, then RELEASE_SCRIPT
Released(r) == [r EXCEPT !.lease = FALSE]
OwnerAfterRelease(c) == IF cl[c].lease /\ owner = c THEN NoClient ELSE owner

\* scheduleReconnect returns when intentional or already armed
Scheduled(r) == [r EXCEPT !.timer = @ \/ ~r.intent]

\* socketAbort.abort(): the deadline race of the socket being dialled rejects
Aborted(r) == [r EXCEPT !.task = IF @ = "dial" THEN "fault" ELSE @]

\* finally { connectTask = undefined }: whoever awaited it goes on
TaskEnded(r) == [r EXCEPT !.task = "none", !.waits = {}, !.creating = FALSE]

\* disconnectTransport up to its first await
Disconnecting(r, k) ==
  LET t == Aborted(TornDown(r)) IN
  [t EXCEPT !.intent = TRUE,
            !.timer = FALSE,
            !.disc[k] = "closing",
            !.discSock[k] = r.sock,
            !.waits = IF r.task = "none" THEN @ \ {k} ELSE @ \cup {k},
            !.retired = @ \/ k = "manual"]

-----------------------------------------------------------------------------
(* getClientProvider and connect *)

\* getClientProvider finds no entry, and awaits the configuration.
Lookup(c) ==
  /\ ~cl[c].made /\ ~cl[c].asking
  /\ Map(c) = NoClient
  /\ cl' = [cl EXCEPT ![c].asking = TRUE]
  /\ UNCHANGED <<clients, owner, status, budget>>

\* It joins a pending creation, or else registers and connects a new object,
\* whoever was registered meanwhile ("lookup"). connectInternal begins with
\* intentionalDisconnect = false.
Create(c) ==
  /\ cl[c].asking
  /\ IF \E d \in Client : cl[d].worker = cl[c].worker /\ cl[d].creating
     THEN cl' = [cl EXCEPT ![c].asking = FALSE] /\ UNCHANGED <<clients, budget>>
     ELSE /\ IF Map(c) = NoClient THEN UNCHANGED budget ELSE Spend("lookup")
          /\ clients' = [clients EXCEPT ![cl[c].worker] = c]
          /\ cl' = [cl EXCEPT ![c] = [Fresh(@.worker) EXCEPT !.made = TRUE, !.creating = TRUE,
                                                             !.task = "config"]]
  /\ UNCHANGED <<owner, status>>

\* The reconnect timer, a second or more after it was armed: by then a catch of
\* connect() is over and a discarded socket is closed, but a slower connectTask
\* is only joined.
Reconnect(c) ==
  /\ cl[c].timer /\ cl[c].task # "fault" /\ cl[c].discarding = {}
  /\ cl' = [cl EXCEPT ![c] =
              IF @.intent \/ @.task # "none" THEN [@ EXCEPT !.timer = FALSE]
              ELSE [@ EXCEPT !.timer = FALSE, !.task = "config"]]
  /\ UNCHANGED <<clients, owner, status, budget>>

\* Mutant: acquire() without NX.
AcquireWithoutNX(c) ==
  /\ cl[c].task = "config"
  /\ cl' = [cl EXCEPT ![c] = IF @.sock # 0 THEN TaskEnded(@)
                             ELSE [@ EXCEPT !.lease = TRUE, !.task = "status"]]
  /\ owner' = IF cl[c].sock # 0 THEN owner ELSE c
  /\ UNCHANGED <<clients, status, budget>>

\* getConfig and syncConnection are done: an existing socket is kept, else
\* acquireRuntimeOwnership; a conflict is retried while the object is registered.
Acquire(c) ==
  /\ cl[c].task = "config"
  /\ IF cl[c].sock # 0
     THEN cl' = [cl EXCEPT ![c] = TaskEnded(@)] /\ UNCHANGED owner
     ELSE IF cl[c].lease \/ owner = NoClient
     THEN /\ cl' = [cl EXCEPT ![c].lease = TRUE, ![c].task = "status"]
          /\ owner' = IF cl[c].lease THEN owner ELSE c
     ELSE /\ cl' = [cl EXCEPT ![c] = TaskEnded(IF Map(c) = c THEN Scheduled(@) ELSE @)]
          /\ UNCHANGED owner
  /\ UNCHANGED <<clients, status, budget>>

\* setStatus('connecting') is done; preparationGeneration is read
SetConnecting(c) ==
  /\ cl[c].task = "status"
  /\ status' = "connecting"
  /\ cl' = [cl EXCEPT ![c].task = "prepare", ![c].prepGen = cl[c].gen]
  /\ UNCHANGED <<clients, owner, budget>>

\* prepareZapoState is done: zapo_operation_cancelled if something intervened
Prepared(c) ==
  /\ cl[c].task = "prepare"
  /\ cl' = [cl EXCEPT ![c].task =
              IF cl[c].intent \/ cl[c].prepGen # cl[c].gen THEN "fault" ELSE "load"]
  /\ UNCHANGED <<clients, owner, status, budget>>

\* Credentials are loaded: the client is created, bound and dialled. Nothing is
\* re-checked here.
Dial(c) ==
  LET r == cl[c]
      s == r.gen + 1
  IN
  /\ r.task = "load" /\ r.gen < MaxGen
  /\ cl' = [cl EXCEPT ![c] = [r EXCEPT !.gen = s, !.sock = s, !.task = "dial",
                                       !.awaited = s, !.unlinked = FALSE,
                                       !.dialing = @ \cup {s}, !.net = @ \cup {s}]]
  /\ UNCHANGED <<clients, owner, status, budget>>

\* Any awaited infrastructure call before the dial may throw.
ConnectThrows(c) ==
  /\ cl[c].task \in {"config", "status", "prepare", "load"}
  /\ Spend("infra")
  /\ cl' = [cl EXCEPT ![c].task = "fault"]
  /\ UNCHANGED <<clients, owner, status>>

\* The catch of connect(): release, end the task. A failed first connect is
\* discarded by getClientProvider, which disconnects the object.
ConnectFails(c) ==
  LET r == TaskEnded(Released(cl[c])) IN
  /\ cl[c].task = "fault"
  /\ cl[c].awaited \notin cl[c].failing
  /\ owner' = OwnerAfterRelease(c)
  /\ cl' = [cl EXCEPT ![c] =
              IF cl[c].creating /\ r.disc["manual"] = "no"
              THEN [Disconnecting(r, "manual") EXCEPT !.creating = TRUE] ELSE r]
  /\ UNCHANGED <<clients, status, budget>>

\* The QR or pairing prompt resolves: connectInternal returns while the dial of
\* its socket goes on.
Prompt(c) ==
  /\ cl[c].task = "dial"
  /\ IsCurrent(cl[c], cl[c].awaited) /\ cl[c].awaited \in cl[c].dialing
  /\ cl' = [cl EXCEPT ![c] = TaskEnded(@)]
  /\ UNCHANGED <<clients, owner, status, budget>>

\* client.connect() rejects (at once when the socket was closed meanwhile):
\* handleConnectionFailure when the socket is still the current one, and
\* connectInternal throws if it still awaits this dial.
DialRejects(c, s) ==
  LET r == [cl[c] EXCEPT !.dialing = @ \ {s}, !.net = @ \ {s}]
      t == IF r.awaited = s THEN Aborted(r) ELSE r
  IN
  /\ s \in cl[c].dialing
  /\ IF s \in cl[c].net THEN Spend("reject") ELSE UNCHANGED budget
  /\ cl' = [cl EXCEPT ![c] = IF r.sock = s
                             THEN [TornDown(t) EXCEPT !.failing = @ \cup {s}] ELSE t]
  /\ UNCHANGED <<clients, owner, status>>

\* The 60 s deadline of the awaited dial: handleConnectionFailure unless the
\* socket is gone or a disconnect is in progress. The socket is closed only
\* after the failure is handled, and that closing is not awaited.
DialDeadline(c) ==
  LET r == cl[c]
      s == r.awaited
  IN
  /\ r.task = "dial"
  /\ IF s \in r.net THEN Spend("deadline") ELSE UNCHANGED budget
  /\ cl' = [cl EXCEPT ![c] =
              IF r.sock = s /\ ~r.intent
              THEN [TornDown(Aborted(r)) EXCEPT !.failing = @ \cup {s},
                                                !.doomed = @ \cup {s}]
              ELSE Aborted(r)]
  /\ UNCHANGED <<clients, owner, status>>

CloseDoomed(c, s) ==
  /\ s \in cl[c].doomed \ cl[c].failing
  /\ cl' = [cl EXCEPT ![c].doomed = @ \ {s}, ![c].net = @ \ {s}]
  /\ UNCHANGED <<clients, owner, status, budget>>

\* Mutant: the failure is handled without scheduleReconnect.
FailureUnscheduled(c, s) ==
  /\ s \in cl[c].failing
  /\ status' = "offline"
  /\ owner' = OwnerAfterRelease(c)
  /\ cl' = [cl EXCEPT ![c] = [Released(@) EXCEPT !.failing = @ \ {s}]]
  /\ UNCHANGED <<clients, budget>>

\* handleConnectionFailure after setStatus('offline')
FailureHandled(c, s) ==
  /\ s \in cl[c].failing
  /\ status' = "offline"
  /\ owner' = OwnerAfterRelease(c)
  /\ cl' = [cl EXCEPT ![c] = [Scheduled(Released(cl[c])) EXCEPT !.failing = @ \ {s}]]
  /\ UNCHANGED <<clients, budget>>

-----------------------------------------------------------------------------
(* Events of the library, bound by bindEvents *)

\* 'connection' open: the connect() promise resolves, the handler awaits
\* auth.save.
Open(c, s) ==
  LET r == [cl[c] EXCEPT !.dialing = @ \ {s}]
      t == IF r.task = "dial" /\ r.awaited = s THEN TaskEnded(r) ELSE r
  IN
  /\ s \in cl[c].dialing \cap cl[c].net
  /\ cl' = [cl EXCEPT ![c] = IF IsCurrent(t, s) THEN [t EXCEPT !.opening = @ \cup {s}] ELSE t]
  /\ UNCHANGED <<clients, owner, status, budget>>

\* Mutants: the open handler without its second isCurrent(), without the check
\* for a registered duplicate.
OpenedStale(c, s) ==
  /\ s \in cl[c].opening
  /\ cl' = [cl EXCEPT ![c].opening = @ \ {s}, ![c].connected = TRUE, ![c].opened = s]
  /\ clients' = [clients EXCEPT ![cl[c].worker] = c]
  /\ status' = "online"
  /\ UNCHANGED <<owner, budget>>

OpenedDuplicate(c, s) ==
  /\ s \in cl[c].opening
  /\ IF ~IsCurrent(cl[c], s)
     THEN cl' = [cl EXCEPT ![c].opening = @ \ {s}] /\ UNCHANGED status
     ELSE /\ cl' = [cl EXCEPT ![c].opening = @ \ {s}, ![c].connected = TRUE,
                              ![c].opened = s]
          /\ status' = "online"
  /\ UNCHANGED <<clients, owner, budget>>

\* The rest of the open handler, after its second isCurrent().
Opened(c, s) ==
  LET r == [cl[c] EXCEPT !.opening = @ \ {s}] IN
  /\ s \in cl[c].opening
  /\ IF ~IsCurrent(r, s)
     THEN cl' = [cl EXCEPT ![c] = r] /\ UNCHANGED <<clients, status>>
     ELSE IF Map(c) \notin {NoClient, c}
     THEN /\ cl' = [cl EXCEPT ![c] = [r EXCEPT !.discarding = @ \cup {s}]]
          /\ UNCHANGED <<clients, status>>
     ELSE /\ cl' = [cl EXCEPT ![c] = [r EXCEPT !.connected = TRUE, !.opened = s]]
          /\ clients' = [clients EXCEPT ![cl[c].worker] = c]
          /\ status' = "online"
  /\ UNCHANGED <<owner, budget>>

\* The duplicate socket is closed and the lease released; the library may
\* report the closing.
Discarded(c, s, reported) ==
  /\ s \in cl[c].discarding
  /\ owner' = OwnerAfterRelease(c)
  /\ cl' = [cl EXCEPT ![c] = [Released(cl[c]) EXCEPT
                                !.discarding = @ \ {s},
                                !.closing = IF reported /\ IsCurrent(cl[c], s)
                                            THEN @ \cup {s} ELSE @,
                                !.net = @ \ {s}]]
  /\ UNCHANGED <<clients, status, budget>>

\* 'connection' close, from WhatsApp or the network; isLogout when unlinked
Close(c, s, isLogout) ==
  LET r == [cl[c] EXCEPT !.net = @ \ {s}] IN
  /\ s \in cl[c].net
  /\ Spend(IF isLogout THEN "unlink" ELSE "close")
  /\ cl' = [cl EXCEPT ![c] =
              IF IsCurrent(r, s)
              THEN [r EXCEPT !.connected = FALSE, !.closing = @ \cup {s},
                             !.unlinked = @ \/ isLogout]
              ELSE r]
  /\ UNCHANGED <<clients, owner, status>>

\* Mutants of the close handler: no scheduleReconnect, the status of an unlinked
\* session kept or misspelt, the lease released by a stale handler.
ClosedAs(c, s, st, mine, again) ==
  LET r == [cl[c] EXCEPT !.closing = @ \ {s}]
      t == Released(Aborted(TornDown(r)))
  IN
  /\ s \in cl[c].closing
  /\ status' = st
  /\ owner' = IF mine THEN OwnerAfterRelease(c) ELSE owner
  /\ cl' = [cl EXCEPT ![c] = IF ~mine THEN r
                             ELSE IF again THEN Scheduled(t) ELSE t]
  /\ UNCHANGED <<clients, budget>>

Mine(c, s) == cl[c].sock = s /\ ~cl[c].intent
ClosedForGood(c, s) == ClosedAs(c, s, "offline", Mine(c, s), FALSE)
ClosedSilently(c, s) == ClosedAs(c, s, status, Mine(c, s), ~cl[c].unlinked)
ClosedByAnyone(c, s) == ClosedAs(c, s, "offline", TRUE, TRUE)

\* The finally of the close handler, after setStatus.
Closed(c, s) ==
  LET r == [cl[c] EXCEPT !.closing = @ \ {s}]
      mine == r.sock = s /\ ~r.intent
      t == Released(Aborted(TornDown(r)))
  IN
  /\ s \in cl[c].closing
  /\ status' = IF r.unlinked THEN "disconnected" ELSE "offline"
  /\ owner' = IF mine THEN OwnerAfterRelease(c) ELSE owner
  /\ cl' = [cl EXCEPT ![c] = IF ~mine THEN r
                             ELSE IF r.unlinked THEN t ELSE Scheduled(t)]
  /\ UNCHANGED <<clients, budget>>

-----------------------------------------------------------------------------
(* Lease loss, disconnect, recovery *)

\* Redis expires the key although its holder still lives: the holder was paused
\* or cut off. A dead holder's key expires in time.
Expire ==
  /\ IF owner = Orphan THEN UNCHANGED budget
     ELSE owner # NoClient /\ Spend("expire")
  /\ owner' = NoClient
  /\ UNCHANGED <<cl, clients, status>>

\* handleRuntimeOwnershipLoss: the renewal answered 0, or was rejected.
LoseOwnership(c) ==
  /\ cl[c].lease
  /\ cl[c].loss = "no"
  /\ IF owner = c THEN Spend("renew") /\ owner' = Orphan
     ELSE UNCHANGED <<budget, owner>>
  /\ cl' = [cl EXCEPT ![c] = [Released(TornDown(@)) EXCEPT !.intent = TRUE,
                                                           !.loss = "closing",
                                                           !.lossSock = cl[c].sock]]
  /\ UNCHANGED <<clients, status>>

LossClosed(c) ==
  /\ cl[c].loss = "closing"
  /\ cl' = [cl EXCEPT ![c].loss = "status", ![c].net = @ \ {cl[c].lossSock}]
  /\ UNCHANGED <<clients, owner, status, budget>>

\* setStatus('offline') is done: intentionalDisconnect = false, scheduleReconnect
LossHandled(c) ==
  /\ cl[c].loss = "status"
  /\ status' = "offline"
  /\ cl' = [cl EXCEPT ![c] = Scheduled([@ EXCEPT !.intent = FALSE, !.loss = "no"])]
  /\ UNCHANGED <<clients, owner, budget>>

\* setStatus('offline') throws: nothing after it runs.
LossStatusThrows(c) ==
  /\ cl[c].loss = "status"
  /\ Spend("status")
  /\ cl' = [cl EXCEPT ![c].loss = "no"]
  /\ UNCHANGED <<clients, owner, status>>

\* disconnect() on the registered client: a reload, a suspension, a shutdown.
Disconnect(c) ==
  /\ Map(c) = c /\ cl[c].made
  /\ cl[c].disc["manual"] = "no"
  /\ Spend("manual")
  /\ cl' = [cl EXCEPT ![c] = Disconnecting(@, "manual")]
  /\ UNCHANGED <<clients, owner, status>>

\* logout(): intentionalDisconnect = true, then the awaited socket.logout();
\* without a socket it is a disconnect()
Logout(c) ==
  /\ Map(c) = c /\ cl[c].made
  /\ cl[c].disc["manual"] = "no"
  /\ Spend("logout")
  /\ cl' = [cl EXCEPT ![c] =
              IF @.sock = 0 THEN Disconnecting(@, "manual")
              ELSE [@ EXCEPT !.intent = TRUE, !.retired = TRUE,
                             !.disc["manual"] = "logout"]]
  /\ UNCHANGED <<clients, owner, status>>

\* ... and disconnect() whatever its outcome
LoggedOut(c) ==
  /\ cl[c].disc["manual"] = "logout"
  /\ cl' = [cl EXCEPT ![c] = Disconnecting(@, "manual")]
  /\ UNCHANGED <<clients, owner, status, budget>>

\* recoverTransport: the watchdog of an opened socket saw it offline for 60 s,
\* or send() met three query timeouts on it
Recover(c) ==
  /\ cl[c].sock # 0 /\ cl[c].opened = cl[c].sock /\ ~cl[c].intent
  /\ cl[c].disc["recovery"] = "no"
  /\ Spend("recover")
  /\ cl' = [cl EXCEPT ![c] = [Disconnecting(@, "recovery") EXCEPT
                                !.expected = cl[c].gen + 1]]
  /\ UNCHANGED <<clients, owner, status>>

\* The awaited socket.disconnect(); after 10 s it is no longer awaited, which
\* does not close the transport.
DisconnectClosed(c, k, hangs) ==
  /\ cl[c].disc[k] = "closing"
  /\ IF hangs THEN cl[c].discSock[k] # 0 /\ Spend("hang") ELSE UNCHANGED budget
  /\ cl' = [cl EXCEPT ![c] = [cl[c] EXCEPT !.disc[k] = "waiting",
                                           !.net = IF hangs THEN @
                                                   ELSE @ \ {cl[c].discSock[k]}]]
  /\ UNCHANGED <<clients, owner, status>>

\* pendingConnect has settled: clients.delete(phone), whoever is registered.
Deregister(c, k) ==
  /\ cl[c].disc[k] = "waiting"
  /\ k \notin cl[c].waits
  /\ clients' = [clients EXCEPT ![cl[c].worker] = NoClient]
  /\ cl' = [cl EXCEPT ![c].disc[k] = "status"]
  /\ UNCHANGED <<owner, status, budget>>

\* Mutant: recoverTransport goes on without comparing the generation.
DisconnectedRegardless(c, k) ==
  LET r == [Released(cl[c]) EXCEPT !.disc[k] = "no", !.creating = @ /\ k # "manual"] IN
  /\ cl[c].disc[k] = "status"
  /\ status' = "offline"
  /\ owner' = OwnerAfterRelease(c)
  /\ cl' = [cl EXCEPT ![c] = IF k = "recovery"
                             THEN Scheduled([r EXCEPT !.intent = FALSE]) ELSE r]
  /\ UNCHANGED <<clients, budget>>

\* setStatus('offline') and releaseRuntimeOwnership; recoverTransport goes on
\* only when nobody else tore the session down meanwhile.
Disconnected(c, k) ==
  LET r == [Released(cl[c]) EXCEPT !.disc[k] = "no", !.creating = @ /\ k # "manual"] IN
  /\ cl[c].disc[k] = "status"
  /\ status' = "offline"
  /\ owner' = OwnerAfterRelease(c)
  /\ cl' = [cl EXCEPT ![c] = IF k = "recovery" /\ r.gen = r.expected
                             THEN Scheduled([r EXCEPT !.intent = FALSE]) ELSE r]
  /\ UNCHANGED <<clients, budget>>

\* A worker process dies: its objects, sockets and timers are gone, the lease
\* stays until it runs out.
Crash(w) ==
  LET dead == {c \in Client : cl[c].worker = w} IN
  /\ \E c \in dead : cl[c].made
  /\ Spend("crash")
  /\ cl' = [c \in Client |-> IF c \in dead /\ (cl[c].made \/ cl[c].asking)
                            THEN [Fresh(w) EXCEPT !.made = TRUE, !.retired = TRUE]
                            ELSE cl[c]]
  /\ clients' = [clients EXCEPT ![w] = NoClient]
  /\ owner' = IF owner \in dead THEN Orphan ELSE owner
  /\ UNCHANGED status

-----------------------------------------------------------------------------
ConnectStep(c) == \/ Reconnect(c) \/ Acquire(c) \/ SetConnecting(c)
                  \/ Prepared(c) \/ Dial(c) \/ ConnectFails(c)

\* The sockets one of whose handlers is between two awaits.
Handling(c) == cl[c].opening \cup cl[c].discarding \cup cl[c].closing
                 \cup cl[c].failing \cup cl[c].doomed

SocketStep(c, s) == \/ FailureHandled(c, s) \/ CloseDoomed(c, s)
                    \/ Opened(c, s) \/ Closed(c, s)
                    \/ \E reported \in BOOLEAN : Discarded(c, s, reported)

LossStep(c) == LossClosed(c) \/ LossHandled(c)

DisconnectStep(c) == \/ LoggedOut(c)
                     \/ \E k \in Calls : \/ DisconnectClosed(c, k, FALSE)
                                        \/ Deregister(c, k)
                                        \/ Disconnected(c, k)

Disturb(c) == \/ ConnectThrows(c) \/ DialDeadline(c) \/ LoseOwnership(c)
              \/ LossStatusThrows(c) \/ Disconnect(c) \/ Logout(c) \/ Recover(c)
              \/ \E k \in Calls : DisconnectClosed(c, k, TRUE)
              \/ \E s \in cl[c].net, isLogout \in BOOLEAN : Close(c, s, isLogout)

Next == \/ Expire
        \/ \E w \in Worker : Crash(w)
        \/ \E c \in Client : \/ Lookup(c) \/ Create(c) \/ ConnectStep(c) \/ Prompt(c)
                             \/ LossStep(c) \/ DisconnectStep(c) \/ Disturb(c)
                             \/ \E s \in cl[c].dialing : Open(c, s) \/ DialRejects(c, s)
                             \/ \E s \in Handling(c) : SocketStep(c, s)

Spec == Init /\ [][Next]_vars

\* Promises settle, timers fire, a dead holder's key expires, and WhatsApp accepts
\* a dial that nothing disturbs.
Fairness ==
  /\ WF_vars(owner = Orphan /\ Expire)
  /\ \A c \in Client :
       /\ WF_vars(Create(c))
       /\ WF_vars(ConnectStep(c))
       /\ WF_vars(LossStep(c))
       /\ WF_vars(DisconnectStep(c))
       /\ WF_vars(\E s \in cl[c].dialing : Open(c, s))
       /\ WF_vars(\E s \in Handling(c) : SocketStep(c, s))

FairSpec == Spec /\ Fairness

-----------------------------------------------------------------------------
\* The types of the state.
TypeOK ==
  /\ clients \in [Worker -> Client \cup {NoClient}]
  /\ owner \in Client \cup {NoClient, Orphan}
  /\ status \in {"offline", "connecting", "online", "disconnected"}
  /\ budget \in [left : 0..Budget, struck : SUBSET Faults]
  /\ cl \in [Client ->
       [worker : Worker, made : BOOLEAN, asking : BOOLEAN, creating : BOOLEAN, intent : BOOLEAN, gen : Nat, sock : Nat,
        connected : BOOLEAN, lease : BOOLEAN, timer : BOOLEAN,
        task : {"none", "config", "status", "prepare", "load", "dial", "fault"},
        prepGen : Nat, opened : Nat, awaited : Nat, dialing : SUBSET Nat, net : SUBSET Nat,
        opening : SUBSET Nat, discarding : SUBSET Nat, closing : SUBSET Nat,
        failing : SUBSET Nat, doomed : SUBSET Nat,
        loss : {"no", "closing", "status"}, lossSock : Nat,
        disc : [Calls -> Phase], discSock : [Calls -> Nat], waits : SUBSET Calls,
        expected : Nat, retired : BOOLEAN, unlinked : BOOLEAN]]

\* A handler of the object, or its reconnect timer, is still to run.
Active(r) == \/ r.timer \/ r.task # "none" \/ r.loss # "no"
             \/ \E k \in Calls : r.disc[k] # "no"
             \/ r.opening \cup r.discarding \cup r.closing \cup r.failing \cup r.doomed # {}

\* None of these kinds has struck.
Without(kinds) == budget.struck \cap kinds = {}
LeaseLoss == {"expire", "renew"}
ByHand == {"manual", "logout"}

\* `connected` lets send() use the socket: it is set only while the socket is
\* the current one of its generation, although the open handler awaits before
\* it sets it and every teardown may run in between (client_zapo.ts:448-461).
ConnectedIsCurrent ==
  \A c \in Client : cl[c].connected =>
    cl[c].sock # 0 /\ cl[c].gen = cl[c].sock

\* The current socket of the object has a transport.
Live(c) == cl[c].sock \in cl[c].net

\* Two objects never both use a live socket of the session: each drops its
\* socket before it gives the lease back, in every order of its handlers
\* (client_zapo.ts:250-274, 485-524, 1166-1208). It takes a lease lost to Redis,
\* or a disconnect by hand while connectInternal loads the credentials.
OneLiveSocket ==
  Without(LeaseLoss \cup ByHand) =>
    \A c, d \in Client : c # d => ~(Live(c) /\ Live(d))

\* send() reaches a client through `clients`: an object that is connected is the
\* registered one, whatever duplicates were created meanwhile
\* (client_zapo.ts:452-461). The exceptions: a late lookup, a lost lease, and a
\* disconnect by hand next to a recovery.
ConnectedIsRegistered ==
  Without(LeaseLoss \cup {"lookup"}) /\ (Without({"recover"}) \/ Without(ByHand)) =>
    \A c \in Client : cl[c].connected => Map(c) = c

\* A session that somebody wants up is never forgotten: while its object is
\* registered it has a socket, or something left to run that leads to one. A
\* failing infrastructure call, or a lost lease, can end that.
NotForgotten ==
  Without(LeaseLoss \cup {"infra"}) =>
    \A c \in Client :
      cl[c].made /\ Map(c) = c /\ ~cl[c].retired /\ ~cl[c].unlinked
        => cl[c].sock # 0 \/ Active(cl[c])

Rearms(c) == cl[c].retired /\ ~cl[c].timer /\ cl'[c].timer

\* Nothing arms the reconnect timer of a disconnected object again, whichever of
\* its callbacks and recoveries were under way (client_zapo.ts:873-885, 1237-1260),
\* as long as the lease is not lost to Redis.
RetiredNeverReconnects ==
  [][Without(LeaseLoss) => \A c \in Client : ~Rearms(c)]_vars

\* A worker opens a socket only while it holds the lease of the session, unless
\* the lease was lost to Redis (ENVIRONMENT.md:389).
OpensUnderLease ==
  [][Without(LeaseLoss) =>
       \A c \in Client : ~(cl'[c].net \subseteq cl[c].net) => cl[c].lease]_vars

\* Somebody wants the session up: a registered object was neither disconnected
\* nor unlinked.
Wanted == \E c \in Client :
  cl[c].made /\ Map(c) = c /\ ~cl[c].retired /\ ~cl[c].unlinked

\* A wanted session is connected in the end, by this worker or another one.
EventuallyConnected ==
  Wanted ~> (~Wanted \/ \E c \in Client : cl[c].connected)

\* The status readers see: a session reported online has a connected socket, or
\* a handler that is about to correct it, unless a worker died or the status
\* could not be written.
OnlineIsConnected ==
  status = "online" /\ Without({"crash", "status"}) =>
    \E c \in Client : cl[c].connected \/ Active(cl[c])
=============================================================================
