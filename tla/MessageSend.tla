----------------------------- MODULE MessageSend -----------------------------
(* jobs/incoming.ts and services/zapo/zapo_messages.ts: one message on its   *)
(* way to WhatsApp, from the incoming queue to the statuses the client is    *)
(* told, with the receipts that listener_zapo.ts handles meanwhile. A run is *)
(* one call of IncomingJob.consume; a run that times out goes on while the   *)
(* queue starts the next one. Each provider id belongs to the run that sent  *)
(* it. Redis commands that no other actor can come between are one step.     *)
EXTENDS Naturals, FiniteSets

CONSTANTS Run,          \* bound: runs of the job, numbered as they start
          None,
          Uno,          \* the uno id of the message
          Messages,     \* the kinds of message explored
          MaxRetries,
          Receipts,     \* the receipts a phone may send
          MaxReceipts,  \* bound: how many come in one behaviour
          Faults,       \* kinds of disturbance
          Budget        \* bound: disturbances of one behaviour

Kinds == {"reject",     \* a Redis command or a publication fails
          "network",    \* WhatsApp cannot be reached, or its answer is lost
          "timeout",    \* CONSUMER_TIMEOUT_MS passes
          "crash"}

ASSUME SendAssumption == /\ Run \subseteq Nat
                         /\ Messages \subseteq {"plain", "reply", "bulk"}
                         /\ MaxRetries \in Nat \ {0} /\ Budget \in Nat /\ MaxReceipts \in Nat
                         /\ Faults \subseteq Kinds
                         /\ Receipts \subseteq {"delivered", "read"}
                         /\ Uno \notin Run /\ None \notin Run \cup {Uno}
                         /\ None \notin {"scheduled", "failed", "sent", "delivered", "read"}

VARIABLES form,                         \* plain, a reply (payload.context) or bulk
          waiting, count, owner,        \* the queued job, its retries, its unacked run
          at, mem,                      \* where each run is and what it remembers
          quotable,                     \* the message replied to is in the store
          net,                          \* runs whose message WhatsApp accepted
          outbox,                       \* the pending reply warning
          mapped, reverse, key,         \* provider -> uno, uno -> provider, the uno key
          status,                       \* stored status of each id
          inbox, came, listening,       \* receipts queued, ever made, in the listener
          told, warned,                 \* what the client was told; the warning with it
          finished, hurt,               \* history: runs acked; cut off before the key
          unmarked,                     \* BulkSenderJob has yet to mark the message
          late,                         \* history: a run went on after its timeout
          budget

job == <<waiting, count, owner>>
ids == <<mapped, reverse, key>>
receipts == <<inbox, came, listening>>
client == <<told, warned>>
world == <<form, quotable, unmarked, late>>
Reply == form = "reply"
vars == <<job, at, mem, world, net, outbox, ids, status, receipts, client, finished, hurt,
          budget>>

Id == Run \cup {Uno}
Status == {"scheduled", "failed", "sent", "delivered", "read"}
Rank == [s \in Status \cup {None} |->
           CASE s = "failed" -> 1 [] s = "sent" -> 3 [] s = "delivered" -> 4
             [] s = "read" -> 5 [] OTHER -> 0]
Advanced(s) == Rank[s] >= Rank["delivered"]
Receipt == Run \X Receipts

\* The stages of a run, up to the one that stores the key and after it.
Unrecorded == {"guard", "prepare", "save", "unsave", "send", "map", "reverse", "key"}
Stage == Unrecorded \cup {"new", "answer", "load", "remap", "reconcile", "check", "tell",
                          "complete", "replay", "retell", "over"}

\* The types of the state.
TypeOK == /\ form \in Messages
          /\ waiting \in BOOLEAN /\ count \in 0..MaxRetries /\ owner \in Run \cup {None}
          /\ at \in [Run -> Stage]
          /\ mem \in [Run -> [last : BOOLEAN, warn : BOOLEAN, early : SUBSET {"delivered", "read"},
                              say : Status \cup {None}]]
          /\ quotable \in BOOLEAN /\ outbox \in BOOLEAN /\ key \in BOOLEAN
          /\ net \subseteq Run /\ mapped \subseteq Run /\ reverse \in Run \cup {None}
          /\ status \in [Id -> Status \cup {None}]
          /\ inbox \subseteq came /\ came \subseteq net \X Receipts
          /\ listening \subseteq Receipt \X (Id \cup {None})
          /\ Cardinality(listening) <= 1
          /\ told \subseteq Id \X Status /\ warned \in BOOLEAN
          /\ finished \subseteq Run /\ hurt \subseteq Run /\ unmarked \in BOOLEAN
          /\ late \in BOOLEAN
          /\ budget \in 0..Budget

Init == /\ form \in Messages
        /\ waiting = TRUE /\ count = 0 /\ owner = None
        /\ at = [r \in Run |-> "new"]
        /\ mem = [r \in Run |-> [last |-> FALSE, warn |-> FALSE, early |-> {}, say |-> None]]
        /\ quotable \in (IF Reply THEN BOOLEAN ELSE {TRUE})
        /\ net = {} /\ outbox = FALSE
        /\ mapped = {} /\ reverse = None /\ key = FALSE
        /\ status = [i \in Id |-> None]
        /\ inbox = {} /\ came = {} /\ listening = {}
        /\ told = {} /\ warned = FALSE
        /\ finished = {} /\ hurt = {} /\ unmarked = (form = "bulk") /\ late = FALSE
        /\ budget = Budget

Spend(kind) == kind \in Faults /\ budget > 0 /\ budget' = budget - 1
Calm == UNCHANGED budget

\* dataStore.loadStatus: the id's own status; else, of a mapped uno id, its
\* provider's and, of a mapped provider id, its uno's.
LoadStatus(i) == IF status[i] # None THEN status[i]
                 ELSE IF i = Uno /\ reverse # None THEN status[reverse]
                 ELSE IF i \in mapped THEN status[Uno] ELSE None

-----------------------------------------------------------------------------
\* What amqpConsume does with the run that holds the delivery.
Requeue(r) == IF owner = r
              THEN /\ owner' = None /\ count' = count + 1
                   /\ waiting' = (count + 1 < MaxRetries)
              ELSE UNCHANGED job

Hurt(r) == hurt' = IF at[r] \in Unrecorded THEN hurt \cup {r} ELSE hurt

Go(r, to) == at' = [at EXCEPT ![r] = to]

\* A step that goes on to another stage of the same run.
Steps(r, to) == Go(r, to) /\ UNCHANGED <<job, finished, hurt>>

\* The callback throws.
Throw(r) == Go(r, "over") /\ Requeue(r) /\ Hurt(r) /\ UNCHANGED finished

\* The callback returns and the delivery is acked.
Finish(r) == /\ Go(r, "over")
             /\ finished' = finished \cup {r}
             /\ owner' = IF owner = r THEN None ELSE owner
             /\ UNCHANGED <<waiting, count, hurt>>

\* Mutant: the last attempt gives up without a word.
SendFailsSilently(r) == (IF mem[r].last THEN Finish(r) ELSE Throw(r)) /\ UNCHANGED mem

\* incoming.send throws: the last attempt goes on to report the failure
\* (shouldReturnProviderSendFailure), any other is retried.
SendFails(r) == IF mem[r].last
                THEN /\ Go(r, "tell") /\ Hurt(r) /\ UNCHANGED <<job, finished>>
                     /\ mem' = [mem EXCEPT ![r].say = "failed"]
                ELSE Throw(r) /\ UNCHANGED mem

Start(r) ==
  /\ waiting /\ owner = None /\ at[r] = "new"
  /\ \A q \in Run : q < r => at[q] # "new"
  /\ owner' = r /\ waiting' = FALSE
  /\ Go(r, "guard")
  /\ mem' = [mem EXCEPT ![r].last = (count + 1 >= MaxRetries)]
  /\ UNCHANGED <<count, world, net, outbox, ids, status, receipts, client, finished, hurt,
                 budget>>

\* Mutant: a message that was sent before is skipped without its warning.
GuardForgets(r) ==
  /\ at[r] = "guard" /\ Calm /\ UNCHANGED mem
  /\ IF key \/ LoadStatus(Uno) # None THEN Finish(r) ELSE Steps(r, "prepare")
  /\ UNCHANGED <<world, net, outbox, ids, status, receipts, client>>

\* The idempotency guard: any key or status of the uno id means that the message is
\* not sent again. Without the store a reply is retried, anything else is sent.
Guard(r) ==
  /\ at[r] = "guard"
  /\ LET before == LoadStatus(Uno)
         success == before # "failed" /\ (key \/ Rank[before] >= Rank["sent"])
     IN \/ /\ Calm /\ ~key /\ before = None
           /\ Steps(r, "prepare") /\ UNCHANGED mem
        \/ /\ Calm /\ (key \/ before # None)
           /\ IF success /\ Reply
              THEN Steps(r, "replay") /\ mem' = [mem EXCEPT ![r].say = before]
              ELSE Finish(r) /\ UNCHANGED mem
        \/ /\ Spend("reject") /\ UNCHANGED mem
           /\ IF Reply THEN Throw(r)
              ELSE Go(r, "prepare") /\ Hurt(r) /\ UNCHANGED <<job, finished>>
  /\ UNCHANGED <<world, net, outbox, ids, status, receipts, client>>

\* loadReplyWarning, in the run that skips the send.
Replay(r) ==
  /\ at[r] = "replay"
  /\ \/ Calm /\ outbox /\ Steps(r, "retell")
     \/ Calm /\ ~outbox /\ Finish(r)
     \/ Spend("reject") /\ Throw(r)
  /\ UNCHANGED <<mem, world, net, outbox, ids, status, receipts, client>>

\* The pending warning is published with the status known to the guard.
Retell(r) ==
  /\ at[r] = "retell"
  /\ \/ /\ Calm /\ Steps(r, "complete")
        /\ told' = told \cup {<<Uno, IF Advanced(mem[r].say) THEN mem[r].say ELSE "sent">>}
        /\ warned' = TRUE
     \/ Spend("reject") /\ Throw(r) /\ UNCHANGED client
  /\ UNCHANGED <<mem, world, net, outbox, ids, status, receipts>>

\* ZapoMessages.send up to the network: is the quoted message there?
Prepare(r) ==
  /\ at[r] = "prepare"
  /\ \/ Calm /\ UNCHANGED mem
        /\ Steps(r, IF ~Reply THEN "send" ELSE IF quotable THEN "unsave" ELSE "save")
     \/ Spend("reject") /\ SendFails(r)
  /\ UNCHANGED <<world, net, outbox, ids, status, receipts, client>>

\* saveReplyWarning: without it the send does not begin.
Save(r) ==
  /\ at[r] = "save"
  /\ \/ /\ Calm /\ Steps(r, "send")
        /\ outbox' = TRUE /\ mem' = [mem EXCEPT ![r].warn = TRUE]
     \/ Spend("reject") /\ SendFails(r) /\ UNCHANGED outbox
  /\ UNCHANGED <<world, net, ids, status, receipts, client>>

\* completeReplyWarning before a quoted send.
Unsave(r) ==
  /\ at[r] = "unsave"
  /\ \/ Calm /\ Steps(r, "send") /\ outbox' = FALSE /\ UNCHANGED mem
     \/ Spend("reject") /\ SendFails(r) /\ UNCHANGED outbox
  /\ UNCHANGED <<world, net, ids, status, receipts, client>>

\* client.message.send: accepted; refused for good (SendError); not delivered; or
\* accepted with the answer lost.
Send(r) ==
  /\ at[r] = "send"
  /\ \/ /\ Calm /\ Steps(r, "map") /\ net' = net \cup {r} /\ UNCHANGED mem
     \/ /\ Calm /\ Steps(r, "tell") /\ mem' = [mem EXCEPT ![r].say = "failed"]
        /\ UNCHANGED net
     \/ Spend("network") /\ SendFails(r) /\ net' \in {net, net \cup {r}}
  /\ UNCHANGED <<world, outbox, ids, status, receipts, client>>

\* setUnoId, SET NX: its failure alone is swallowed.
Map(r) ==
  /\ at[r] = "map"
  /\ \/ Calm /\ Steps(r, "reverse") /\ mapped' = mapped \cup {r} /\ UNCHANGED mem
     \/ Spend("reject") /\ UNCHANGED mapped
        /\ (SendFails(r) \/ (Steps(r, "reverse") /\ UNCHANGED mem))
  /\ UNCHANGED <<world, net, outbox, reverse, key, status, receipts, client>>

Reverse(r) ==
  /\ at[r] = "reverse"
  /\ \/ Calm /\ Steps(r, "key") /\ reverse' = r /\ UNCHANGED mem
     \/ Spend("reject") /\ SendFails(r) /\ UNCHANGED reverse
  /\ UNCHANGED <<world, net, outbox, mapped, key, status, receipts, client>>

\* Mutant: only the provider id's key is stored.
KeyOfProvider(r) ==
  /\ at[r] = "key" /\ Calm /\ Steps(r, "answer")
  /\ UNCHANGED <<mem, world, net, outbox, ids, status, receipts, client>>

\* setKey of the provider id and of the uno id.
Key(r) ==
  /\ at[r] = "key"
  /\ \/ Calm /\ Steps(r, "answer") /\ key' = TRUE /\ UNCHANGED mem
     \/ Spend("reject") /\ SendFails(r) /\ UNCHANGED key
  /\ UNCHANGED <<world, net, outbox, mapped, reverse, status, receipts, client>>

\* The contact of the answer is read from the store.
Answer(r) ==
  /\ at[r] = "answer"
  /\ \/ Calm /\ Steps(r, "load") /\ UNCHANGED mem
     \/ Spend("reject") /\ SendFails(r)
  /\ UNCHANGED <<world, net, outbox, ids, status, receipts, client>>

\* IncomingJob: the statuses known before it maps the ids again, and those of a
\* receipt that its provider id has and the uno id lacks.
Load(r) ==
  /\ at[r] = "load"
  /\ \/ /\ Calm /\ Steps(r, "remap")
        /\ LET lacks(s) == Rank[LoadStatus(reverse)] >= Rank[s] /\ Rank[LoadStatus(Uno)] < Rank[s]
           IN mem' = [mem EXCEPT ![r].early = {s \in {"delivered", "read"} : lacks(s)}]
     \/ Spend("reject") /\ Throw(r) /\ UNCHANGED mem
  /\ UNCHANGED <<world, net, outbox, ids, status, receipts, client>>

\* setUnoId, setKey, the media and the echo to the webhooks.
Remap(r) ==
  /\ at[r] = "remap"
  /\ \/ /\ Calm /\ Steps(r, "reconcile")
        /\ mapped' = mapped \cup {reverse} /\ key' = TRUE /\ UNCHANGED reverse
     \/ Spend("reject") /\ Throw(r) /\ UNCHANGED ids
  /\ UNCHANGED <<mem, world, net, outbox, status, receipts, client>>

\* These are told again under the uno id; errors are swallowed.
Reconcile(r) ==
  /\ at[r] = "reconcile"
  /\ Steps(r, "check")
  /\ LET early == mem[r].early
     IN \/ /\ Calm
           /\ told' = told \cup ({Uno} \X early)
           /\ status' = [status EXCEPT ![Uno] = IF "read" \in early THEN "read"
                                                   ELSE IF early # {} THEN "delivered" ELSE @]
        \/ Spend("reject") /\ early # {} /\ UNCHANGED <<told, status>>
  /\ mem' = [mem EXCEPT ![r].early = {}]
  /\ UNCHANGED <<world, net, outbox, ids, receipts, warned>>

\* "sent" is left out after a more advanced status, which carries the warnings.
Check(r) ==
  /\ at[r] = "check"
  /\ LET before == LoadStatus(Uno)
     IN \/ /\ Calm /\ Advanced(before) /\ ~mem[r].warn
           /\ Finish(r) /\ UNCHANGED mem
        \/ /\ Calm /\ Advanced(before) /\ mem[r].warn
           /\ Steps(r, "tell") /\ mem' = [mem EXCEPT ![r].say = before]
        \/ /\ Calm /\ ~Advanced(before)
           /\ Steps(r, "tell") /\ mem' = [mem EXCEPT ![r].say = "sent"]
        \/ /\ Spend("reject")
           /\ Steps(r, "tell") /\ mem' = [mem EXCEPT ![r].say = "sent"]
  /\ UNCHANGED <<world, net, outbox, ids, status, receipts, client>>

\* Mutant: the warning is completed before the status is published.
TellAfterComplete(r) ==
  /\ at[r] = "tell"
  /\ \/ /\ Calm
        /\ told' = told \cup {<<Uno, mem[r].say>>}
        /\ warned' = (warned \/ (mem[r].warn /\ mem[r].say # "failed"))
        /\ Finish(r) /\ outbox' = FALSE
     \/ Spend("reject") /\ Throw(r) /\ UNCHANGED client /\ outbox' = FALSE
  /\ UNCHANGED <<mem, world, net, ids, status, receipts>>

\* The final status is published; a failure carries no warnings.
Tell(r) ==
  /\ at[r] = "tell"
  /\ \/ /\ Calm
        /\ told' = told \cup {<<Uno, mem[r].say>>}
        /\ warned' = (warned \/ (mem[r].warn /\ mem[r].say # "failed"))
        /\ IF mem[r].warn \/ (Reply /\ mem[r].say = "failed")
           THEN Steps(r, "complete") ELSE Finish(r)
     \/ Spend("reject") /\ Throw(r) /\ UNCHANGED client
  /\ UNCHANGED <<mem, world, net, outbox, ids, status, receipts>>

\* completeReplyWarning after the publication.
Complete(r) ==
  /\ at[r] = "complete"
  /\ \/ Calm /\ Finish(r) /\ outbox' = FALSE
     \/ Spend("reject") /\ Throw(r) /\ UNCHANGED outbox
  /\ UNCHANGED <<mem, world, net, ids, status, receipts, client>>

Proceed(r) == \/ Start(r) \/ Guard(r) \/ Replay(r) \/ Retell(r) \/ Prepare(r) \/ Save(r)
              \/ Unsave(r) \/ Send(r) \/ Map(r) \/ Reverse(r) \/ Key(r) \/ Answer(r)
              \/ Load(r) \/ Remap(r) \/ Reconcile(r) \/ Check(r) \/ Tell(r) \/ Complete(r)

Timeout(r) ==
  /\ owner = r /\ Spend("timeout")
  /\ Requeue(r) /\ Hurt(r) /\ late' = TRUE
  /\ UNCHANGED <<at, mem, form, quotable, unmarked, net, outbox, ids, status, receipts, client,
                 finished>>

\* The worker dies: its runs end, the unacked delivery and receipt are queued again.
Crash ==
  /\ Spend("crash")
  /\ at' = [r \in Run |-> IF at[r] = "new" THEN "new" ELSE "over"]
  /\ hurt' = hurt \cup {r \in Run : at[r] \in Unrecorded}
  /\ waiting' = (waiting \/ owner # None) /\ owner' = None
  /\ inbox' = inbox \cup {l[1] : l \in listening} /\ listening' = {}
  /\ UNCHANGED <<count, mem, world, net, outbox, ids, status, came, client, finished>>

-----------------------------------------------------------------------------
\* The quoted message arrives or is stored.
Arrive == /\ ~quotable /\ quotable' = TRUE
          /\ UNCHANGED <<job, at, mem, form, unmarked, late, net, outbox, ids, status, receipts,
                         client, finished, hurt, budget>>

\* BulkSenderJob marks the message after incoming.send queued it.
MarkScheduled ==
  /\ unmarked /\ unmarked' = FALSE
  /\ status' = [status EXCEPT ![Uno] = "scheduled"]
  /\ UNCHANGED <<job, at, mem, form, quotable, late, net, outbox, ids, receipts, client, finished,
                 hurt, budget>>

\* The recipient's phone answers: a receipt is queued for the listener.
Receive(e) ==
  /\ e[1] \in net /\ e \notin came /\ Cardinality(came) < MaxReceipts
  /\ inbox' = inbox \cup {e} /\ came' = came \cup {e}
  /\ UNCHANGED <<job, at, mem, world, net, outbox, ids, status, listening, client, finished,
                 hurt, budget>>

\* normalizeMessageId: the receipt of a mapped provider id becomes the uno id's.
Resolve(e) ==
  /\ listening = {} /\ e \in inbox
  /\ inbox' = inbox \ {e}
  /\ listening' = {<<e, IF e[1] \in mapped THEN Uno ELSE e[1]>>}
  /\ UNCHANGED <<job, at, mem, world, net, outbox, ids, status, came, client, finished,
                 hurt, budget>>

\* shouldForwardStatus drops what does not advance, stores what does; then the
\* payload is forwarded. A failed publication sends the receipt round the queue.
Forward(l) ==
  LET s == l[1][2] i == l[2] IN
  /\ l \in listening
  /\ listening' = {}
  /\ \/ /\ Calm /\ Rank[LoadStatus(i)] >= Rank[s]
        /\ UNCHANGED <<status, told, inbox>>
     \/ /\ Calm /\ Rank[LoadStatus(i)] < Rank[s]
        /\ status' = [status EXCEPT ![i] = s]
        /\ told' = told \cup {<<i, s>>} /\ UNCHANGED inbox
     \/ /\ Spend("reject") /\ Rank[LoadStatus(i)] < Rank[s]
        /\ status' \in {status, [status EXCEPT ![i] = s]}
        /\ inbox' = inbox \cup {l[1]} /\ UNCHANGED told
  /\ UNCHANGED <<job, at, mem, world, net, outbox, ids, came, warned, finished, hurt>>

Listen == \E e \in Receipt : Resolve(e) \/ \E l \in listening : Forward(l)

Next == \/ \E r \in Run : Proceed(r) \/ Timeout(r)
        \/ Crash \/ Arrive \/ MarkScheduled \/ Listen
        \/ \E e \in Receipt : Receive(e)

Spec == Init /\ [][Next]_vars

\* The queue delivers, the process runs.
FairSpec == Spec /\ WF_vars(\E r \in Run : Proceed(r)) /\ WF_vars(Listen)

-----------------------------------------------------------------------------
\* The message reaches WhatsApp once: every further send is explained by a run that was
\* cut off, or blind, before it had stored the key (jobs/incoming.ts:294-333).
SentOnce == Cardinality(net \ hurt) <= 1

\* ENVIRONMENT.md:221: a send is skipped only after a successful one; a job that was
\* acked has sent the message or told the client that it failed.
SkipsOnlySent == finished # {} => net # {} \/ <<Uno, "failed">> \in told

\* ... which holds as long as nobody but the job itself stores a status of the uno id
\* (jobs/incoming.ts:294-333).
SkippedWasSent == status[Uno] # "scheduled" => SkipsOnlySent

\* A run that sent a reply without its quote, and was not cut off before the key was
\* stored, leaves the warning pending until the client was told of it, or of a failure
\* (reply_warning_outbox.ts:15, docs/REPLY_WARNINGS.md:66-75). Only a run that went on
\* after its timeout, and found the quote, may delete it.
Unquoted == \E r \in net \ hurt : mem[r].warn
WarningKept == Unquoted /\ ~warned /\ <<Uno, "failed">> \notin told => outbox \/ late

\* Once the key is stored that warning is told in the end, unless the job runs out of
\* retries.
Dead == count = MaxRetries
Recorded == \E r \in net \ hurt : mem[r].warn /\ at[r] \notin Unrecorded
WarningTold == Recorded ~> warned \/ <<Uno, "failed">> \in told \/ Dead \/ late
=============================================================================
