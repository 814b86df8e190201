--------------------------- MODULE MobilePrimary ----------------------------
(* services/mobile_device_service.ts and services/mobile_primary:            *)
(* registration_service.ts, connection_service.ts, deletion_service.ts with  *)
(* its deletion_runtime.ts. The life of the drafts of ONE phone: created,    *)
(* registered with the provider by a code, imported into the session of the  *)
(* phone, and deleted. Every request runs in any web process and works on    *)
(* what it has read before: compare-and-set scripts guard the registration,  *)
(* the lease of the session guards the credentials, and setConfig is a read  *)
(* followed by a write.                                                      *)
(*                                                                           *)
(* Assumed of leases (RedisLease): a live process does not stall for a whole *)
(* TTL between a renewal (or the taking of the lease) and the writes it      *)
(* covers; it may stall before a renewal, and a dead one is expired.         *)
EXTENDS Naturals

CONSTANTS Draft,       \* drafts of the phone, each an id that is used once
          Call,        \* requests that can be in progress at once
          NoOne,       \* no lease, no keys, no credentials, no draft
          Live,        \* the worker of the session, as a lease token
          Paired,      \* credentials the worker has from a QR code
          Writes,      \* bound: writes of one registration
          Budget       \* bound: crashes and stalls of one behaviour

ASSUME MobileAssumption == /\ NoOne \notin Draft \cup Call \cup (Draft \X Call)
                           /\ Live \notin Call /\ Live # NoOne
                           /\ Paired \notin Draft \X Call /\ Paired # NoOne
                           /\ Writes \in Nat /\ Budget \in Nat

VARIABLES draft,       \* the state of each draft in mobile-primary:{v1}:drafts
          reg,         \* the RegistrationState of each draft
          config,      \* the configuration of the phone
          auth,        \* the credentials of its session
          lease,       \* unoapi-lease:zapo-session:<phone>
          operation,   \* unoapi-lease:mobile-delete:<id>
          call,        \* the requests, with the values they have read
          budget

vars == <<draft, reg, config, auth, lease, operation, call, budget>>

Keys == Draft \X Call  \* the keys a request has prepared for a draft
NoReg == [status |-> "none", why |-> "none", keys |-> NoOne, version |-> 0]
NoConfig == [set |-> FALSE, owner |-> NoOne, imported |-> FALSE, auto |-> FALSE, deleting |-> FALSE]
Idle == [pc |-> "idle", op |-> "request", draft |-> NoOne, was |-> "draft",
         seen |-> NoReg, keys |-> NoOne, config |-> NoConfig, existing |-> FALSE]

Init == /\ draft = [d \in Draft |-> "new"]
        /\ reg = [d \in Draft |-> NoReg]
        /\ config = NoConfig
        /\ auth = NoOne
        /\ lease = NoOne
        /\ operation = [d \in Draft |-> NoOne]
        /\ call = [c \in Call |-> Idle]
        /\ budget = Budget

-----------------------------------------------------------------------------
At(c, label) == call[c].pc = label
Goto(c, label) == call' = [call EXCEPT ![c].pc = label]
End(c) == call' = [call EXCEPT ![c] = Idle]
Disturb == budget > 0 /\ budget' = budget - 1

(* The drafts *)

\* CREATE_MOBILE_DRAFT: one draft for a phone
Create(d) ==
  /\ draft[d] = "new"
  /\ \A e \in Draft : draft[e] \notin {"draft", "deleting"}
  /\ draft' = [draft EXCEPT ![d] = "draft"]
  /\ UNCHANGED <<reg, config, auth, lease, operation, call, budget>>

\* REMOVE_MOBILE_DRAFT: without a registration only
Remove(d) ==
  /\ draft[d] = "draft" /\ reg[d] = NoReg
  /\ draft' = [draft EXCEPT ![d] = "gone"]
  /\ UNCHANGED <<reg, config, auth, lease, operation, call, budget>>

-----------------------------------------------------------------------------
(* The registration *)

\* canResendSms, when the cooldown has passed: a code is asked for again after a
\* refused request, a code that came, or one that needs a second code.
CanResend(r) == \/ r.status = "code_required"
                \/ r.status = "blocked" /\ r.why \in {"refused", "confirm", "expired"}

\* canRecoverVerification: a wrong code is entered again.
CanRecover(r) == r.status = "blocked" /\ r.why = "invalid"

Eligible(op, r) ==
  CASE op = "request" -> r = NoReg \/ CanResend(r)
    [] op = "verify"  -> r.status = "code_required" \/ CanRecover(r)
    [] op = "check"   -> r.status = "blocked" /\ r.why = "confirm"

\* execute and checkConfirmation read the draft and its registration; a first
\* request prepares new keys, which are never rotated after.
Ask(c, op, d) ==
  /\ At(c, "idle")
  /\ draft[d] = "draft" /\ Eligible(op, reg[d])
  /\ call' = [call EXCEPT ![c] = [Idle EXCEPT !.pc = "reserve", !.op = op, !.draft = d,
                !.seen = reg[d], !.keys = IF reg[d] = NoReg THEN <<d, c>> ELSE reg[d].keys]]
  /\ UNCHANGED <<draft, reg, config, auth, lease, operation, budget>>

\* REGISTRATION_CAS: the draft and the registration are as they were read. As a
\* mutant, only the draft is compared.
SameDraftOnly(c) == draft[call[c].draft] = "draft"
SameStateOnly(c) == reg[call[c].draft] = call[c].seen
Unchanged(c) == SameDraftOnly(c) /\ SameStateOnly(c)

\* What is stored for the outcome of a provider call; each value is new (sealed
\* with a fresh nonce), which "version" stands for.
Stored(c, status, why) ==
  [status |-> status, why |-> why, keys |-> call[c].keys, version |-> reg[call[c].draft].version + 1]

Write(c, value) == reg' = [reg EXCEPT ![call[c].draft] = value]

\* The operation is reserved before the provider is called.
Reserve(c) ==
  LET pending == CASE call[c].op = "request" -> Stored(c, "requesting", "none")
                   [] call[c].op = "verify"  -> Stored(c, "verifying", "none")
                   [] OTHER                  -> Stored(c, call[c].seen.status, call[c].seen.why)
  IN
  /\ At(c, "reserve")
  /\ reg[call[c].draft].version < Writes
  /\ IF Unchanged(c)
     THEN Write(c, pending) /\ call' = [call EXCEPT ![c].pc = "call", ![c].seen = pending]
     ELSE UNCHANGED reg /\ End(c)
  /\ UNCHANGED <<draft, config, auth, lease, operation, budget>>

\* What the provider answers; an exception, or changed keys, leave "uncertain".
\* A failed check stores nothing.
Outcomes(op) ==
  CASE op = "request" -> {<<"code_required", "none">>, <<"blocked", "refused">>,
                          <<"blocked", "other">>, <<"uncertain", "none">>}
    [] op = "verify"  -> {<<"registered", "none">>, <<"blocked", "invalid">>, <<"blocked", "confirm">>,
                          <<"blocked", "expired">>, <<"blocked", "other">>, <<"uncertain", "none">>}
    [] OTHER          -> {<<"registered", "none">>}

Answer(c) ==
  /\ At(c, "call")
  /\ reg[call[c].draft].version < Writes
  /\ IF Unchanged(c)
     THEN \E o \in Outcomes(call[c].op) : Write(c, Stored(c, o[1], o[2]))
     ELSE UNCHANGED reg
  /\ End(c)
  /\ UNCHANGED <<draft, config, auth, lease, operation, budget>>

CheckFails(c) ==
  /\ At(c, "call") /\ call[c].op = "check"
  /\ End(c)
  /\ UNCHANGED <<draft, reg, config, auth, lease, operation, budget>>

-----------------------------------------------------------------------------
(* setConfig: what is read here is written, merged, in a later step. *)

ReadConfig(c, next) == call' = [call EXCEPT ![c].config = config, ![c].pc = next]

WriteConfig(c, value, next) == config' = [value EXCEPT !.set = TRUE] /\ Goto(c, next)

(* The connection *)

\* source: a draft, registered. The credentials are converted before the lease.
Connect(c, d) ==
  /\ At(c, "idle")
  /\ draft[d] = "draft" /\ reg[d].status = "registered"
  /\ call' = [call EXCEPT ![c] = [Idle EXCEPT !.pc = "acquire", !.op = "connect", !.draft = d,
                                              !.keys = reg[d].keys]]
  /\ UNCHANGED <<draft, reg, config, auth, lease, operation, budget>>

Acquire(c) ==
  /\ At(c, "acquire")
  /\ IF lease = NoOne THEN lease' = c /\ Goto(c, "recheck") ELSE UNCHANGED lease /\ End(c)
  /\ UNCHANGED <<draft, reg, config, auth, operation, budget>>

\* "Deletion can mark the draft while this import waits for socket ownership."
StillDraft(c) == draft[call[c].draft] = "draft"

Recheck(c) ==
  /\ At(c, "recheck")
  /\ Goto(c, IF StillDraft(c) THEN "config" ELSE "release")
  /\ UNCHANGED <<draft, reg, config, auth, lease, operation, budget>>

Conflicts(c) == config.set /\ config.owner # call[c].draft

LookAtConfig(c) ==
  /\ At(c, "config")
  /\ IF Conflicts(c) THEN Goto(c, "release") ELSE ReadConfig(c, "load")
  /\ UNCHANGED <<draft, reg, config, auth, lease, operation, budget>>

\* Another identity is never replaced, credentials that were removed are not
\* imported again.
Importable(c) == IF auth = NoOne THEN ~call[c].config.imported ELSE auth = call[c].keys

LoadAuth(c) ==
  /\ At(c, "load")
  /\ IF Importable(c) THEN call' = [call EXCEPT ![c].pc = "renew", ![c].existing = auth # NoOne]
     ELSE Goto(c, "release")
  /\ UNCHANGED <<draft, reg, config, auth, lease, operation, budget>>

\* As a mutant, the lease is not renewed before the writes.
StillMine(c) == TRUE
Mine(c) == lease = c

Renew(c) ==
  /\ At(c, "renew") /\ call[c].op = "connect"
  /\ Goto(c, IF ~Mine(c) THEN "release" ELSE IF call[c].config.set THEN "save" ELSE "create")
  /\ UNCHANGED <<draft, reg, config, auth, lease, operation, budget>>

\* The configuration comes before the credentials,
CreateRead(c) ==
  /\ At(c, "create")
  /\ ReadConfig(c, "created")
  /\ UNCHANGED <<draft, reg, config, auth, lease, operation, budget>>

CreateWrite(c) ==
  /\ At(c, "created")
  /\ WriteConfig(c, [call[c].config EXCEPT !.owner = call[c].draft, !.auto = FALSE], "save")
  /\ UNCHANGED <<draft, reg, auth, lease, operation, budget>>

Save(c) ==
  /\ At(c, "save")
  /\ auth' = IF call[c].existing THEN auth ELSE call[c].keys
  /\ Goto(c, "renewed")
  /\ UNCHANGED <<draft, reg, config, lease, operation, budget>>

\* and the connection is asked for when both are there.
Renewed(c) ==
  /\ At(c, "renewed")
  /\ Goto(c, IF ~Mine(c) THEN "release"
             ELSE IF call[c].config.imported /\ call[c].config.auto THEN "release" ELSE "flag")
  /\ UNCHANGED <<draft, reg, config, auth, lease, operation, budget>>

FlagRead(c) ==
  /\ At(c, "flag")
  /\ ReadConfig(c, "flagged")
  /\ UNCHANGED <<draft, reg, config, auth, lease, operation, budget>>

FlagWrite(c) ==
  /\ At(c, "flagged")
  /\ WriteConfig(c, [call[c].config EXCEPT !.imported = TRUE, !.auto = TRUE], "release")
  /\ UNCHANGED <<draft, reg, auth, lease, operation, budget>>

\* finally, of a connection and of a deletion
Release(c) ==
  /\ At(c, "release")
  /\ lease' = IF lease = c THEN NoOne ELSE lease
  /\ operation' = [d \in Draft |-> IF operation[d] = c THEN NoOne ELSE operation[d]]
  /\ End(c)
  /\ UNCHANGED <<draft, reg, config, auth, budget>>

-----------------------------------------------------------------------------
(* The deletion *)

Delete(c, d) ==
  /\ At(c, "idle")
  /\ draft[d] \in {"draft", "deleting"} /\ operation[d] = NoOne
  /\ operation' = [operation EXCEPT ![d] = c]
  /\ call' = [call EXCEPT ![c] = [Idle EXCEPT !.pc = "look", !.op = "delete", !.draft = d,
                                              !.was = draft[d]]]
  /\ UNCHANGED <<draft, reg, config, auth, lease, budget>>

Look(c) ==
  /\ At(c, "look")
  /\ IF Conflicts(c) THEN Goto(c, "release") ELSE ReadConfig(c, "mark")
  /\ UNCHANGED <<draft, reg, config, auth, lease, operation, budget>>

\* MARK_MOBILE_DELETING: "The changed draft blocks new registration/import and
\* invalidates pending SMS CAS."
Mark(c) ==
  LET d == call[c].draft IN
  /\ At(c, "mark")
  /\ IF draft[d] = call[c].was
     THEN /\ draft' = [draft EXCEPT ![d] = "deleting"]
          /\ Goto(c, IF call[c].config.set THEN "suspend" ELSE "orphan")
     ELSE UNCHANGED draft /\ Goto(c, "release")
  /\ UNCHANGED <<reg, config, auth, lease, operation, budget>>

SuspendRead(c) ==
  /\ At(c, "suspend")
  /\ ReadConfig(c, "suspended")
  /\ UNCHANGED <<draft, reg, config, auth, lease, operation, budget>>

SuspendWrite(c) ==
  /\ At(c, "suspended")
  /\ WriteConfig(c, [call[c].config EXCEPT !.auto = FALSE, !.deleting = TRUE], "wait")
  /\ UNCHANGED <<draft, reg, auth, lease, operation, budget>>

\* SUSPEND_ORPHAN_MOBILE: only where there is no configuration
SuspendOrphan(c) ==
  /\ At(c, "orphan")
  /\ IF config.set THEN UNCHANGED config /\ Goto(c, "release")
     ELSE /\ config' = [NoConfig EXCEPT !.set = TRUE, !.owner = call[c].draft, !.deleting = TRUE]
          /\ Goto(c, "wait")
  /\ UNCHANGED <<draft, reg, auth, lease, operation, budget>>

\* The worker is told to disconnect; its lease is waited for, 50 times.
Wait(c) ==
  /\ At(c, "wait")
  /\ IF lease = NoOne THEN lease' = c /\ Goto(c, "renew")
     ELSE UNCHANGED lease /\ Goto(c, "release")
  /\ UNCHANGED <<draft, reg, config, auth, operation, budget>>

RenewBoth(c) ==
  /\ At(c, "renew") /\ call[c].op = "delete"
  /\ Goto(c, IF Mine(c) /\ operation[call[c].draft] = c THEN "latest" ELSE "release")
  /\ UNCHANGED <<draft, reg, config, auth, lease, operation, budget>>

Latest(c) ==
  /\ At(c, "latest")
  /\ Goto(c, IF Conflicts(c) THEN "release" ELSE IF config.set THEN "clear" ELSE "finish")
  /\ UNCHANGED <<draft, reg, config, auth, lease, operation, budget>>

\* Mutant: the configuration goes first.
ClearBackwards(c) ==
  /\ \/ At(c, "clear") /\ config' = NoConfig /\ UNCHANGED auth /\ Goto(c, "forget")
     \/ At(c, "forget") /\ auth' = NoOne /\ UNCHANGED config /\ Goto(c, "finish")
  /\ UNCHANGED <<draft, reg, lease, operation, budget>>

\* clearZapoSession, then delConfig
Clear(c) ==
  /\ \/ At(c, "clear") /\ auth' = NoOne /\ UNCHANGED config /\ Goto(c, "forget")
     \/ At(c, "forget") /\ config' = NoConfig /\ UNCHANGED auth /\ Goto(c, "finish")
  /\ UNCHANGED <<draft, reg, lease, operation, budget>>

\* FINISH_MOBILE_DELETION: the registration goes with the draft.
Finish(c) ==
  LET d == call[c].draft IN
  /\ At(c, "finish")
  /\ IF draft[d] = "deleting"
     THEN draft' = [draft EXCEPT ![d] = "gone"] /\ reg' = [reg EXCEPT ![d] = NoReg]
     ELSE UNCHANGED <<draft, reg>>
  /\ Goto(c, "release")
  /\ UNCHANGED <<config, auth, lease, operation, budget>>

-----------------------------------------------------------------------------
(* The environment *)

\* The phone is registered as an ordinary session.
Register ==
  /\ ~config.set
  /\ Disturb
  /\ config' = [NoConfig EXCEPT !.set = TRUE, !.auto = TRUE]
  /\ UNCHANGED <<draft, reg, auth, lease, operation, call>>

\* The worker: autoConnect and reload leave a suspended device alone. An ordinary
\* session is paired.
Open ==
  /\ lease = NoOne
  /\ config.set /\ (config.owner # NoOne => config.auto /\ ~config.deleting)
  /\ lease' = Live
  /\ UNCHANGED <<draft, reg, config, auth, operation, call, budget>>

Pair ==
  /\ lease = Live /\ config.set /\ config.owner = NoOne /\ auth = NoOne
  /\ auth' = Paired
  /\ UNCHANGED <<draft, reg, config, lease, operation, call, budget>>

Close ==
  /\ lease = Live
  /\ lease' = NoOne
  /\ UNCHANGED <<draft, reg, config, auth, operation, call, budget>>

\* A request dies where it is; its leases expire later.
Crash(c) ==
  /\ call[c].pc \notin {"idle", "dead"}
  /\ Disturb
  /\ call' = [call EXCEPT ![c] = [Idle EXCEPT !.pc = "dead"]]
  /\ UNCHANGED <<draft, reg, config, auth, lease, operation>>

\* Where a live request may stall until its leases are gone: a renewal follows
\* before the next write.
Stallable == {"recheck", "config", "load", "renew", "renewed"}

Expire(c) ==
  /\ \/ At(c, "dead") /\ End(c) /\ UNCHANGED budget
     \/ call[c].pc \in Stallable /\ Disturb /\ UNCHANGED call
  /\ lease' = IF lease = c THEN NoOne ELSE lease
  /\ operation' = [d \in Draft |-> IF operation[d] = c THEN NoOne ELSE operation[d]]
  /\ UNCHANGED <<draft, reg, config, auth>>

-----------------------------------------------------------------------------
Registering(c) == \/ \E op \in {"request", "verify", "check"}, d \in Draft : Ask(c, op, d)
                  \/ Reserve(c) \/ Answer(c) \/ CheckFails(c)

Connecting(c) == \/ \E d \in Draft : Connect(c, d)
                 \/ Acquire(c) \/ Recheck(c) \/ LookAtConfig(c) \/ LoadAuth(c) \/ Renew(c)
                 \/ CreateRead(c) \/ CreateWrite(c) \/ Save(c) \/ Renewed(c)
                 \/ FlagRead(c) \/ FlagWrite(c) \/ Release(c)

Deleting(c) == \/ \E d \in Draft : Delete(c, d)
               \/ Look(c) \/ Mark(c) \/ SuspendRead(c) \/ SuspendWrite(c) \/ SuspendOrphan(c)
               \/ Wait(c) \/ RenewBoth(c) \/ Latest(c) \/ Clear(c) \/ Finish(c)

Others == Register \/ Open \/ Pair \/ Close \/ \E d \in Draft : Create(d) \/ Remove(d)

Next == \/ Others
        \/ \E c \in Call : Registering(c) \/ Connecting(c) \/ Deleting(c) \/ Crash(c) \/ Expire(c)

Spec == Init /\ [][Next]_vars

-----------------------------------------------------------------------------
Labels == {"idle", "reserve", "call", "acquire", "recheck", "config", "load", "renew", "create",
           "created", "save", "renewed", "flag", "flagged", "release", "look", "mark", "suspend",
           "suspended", "orphan", "wait", "latest", "clear", "forget", "finish", "dead"}
Registrations ==
  [status : {"none", "requesting", "code_required", "verifying", "registered", "blocked", "uncertain"},
   why : {"none", "refused", "confirm", "expired", "invalid", "other"},
   keys : Keys \cup {NoOne}, version : Nat]
Configs == [set : BOOLEAN, owner : Draft \cup {NoOne}, imported : BOOLEAN, auto : BOOLEAN,
            deleting : BOOLEAN]
Requests == [pc : Labels, op : {"request", "verify", "check", "connect", "delete"},
             draft : Draft \cup {NoOne}, was : {"draft", "deleting"},
             seen : Registrations, keys : Keys \cup {NoOne}, config : Configs,
             existing : BOOLEAN]

\* The types of the variables.
TypeOK ==
  /\ draft \in [Draft -> {"new", "draft", "deleting", "gone"}]
  /\ reg \in [Draft -> Registrations]
  /\ config \in Configs
  /\ auth \in Keys \cup {NoOne, Paired}
  /\ lease \in Call \cup {NoOne, Live}
  /\ operation \in [Draft -> Call \cup {NoOne}]
  /\ call \in [Call -> Requests]
  /\ budget \in Nat

\* "No automatic resends": of all the requests for a draft, however they overlap,
\* one at a time asks the provider for a code or has one verified.
OneProviderCall ==
  \A c, e \in Call :
    At(c, "call") /\ At(e, "call") /\ call[c].draft = call[e].draft
      /\ call[c].op # "check" /\ call[e].op # "check" => c = e

\* A registration keeps the keys it began with, and once registered it stays so:
\* no late answer of the provider replaces it, only a deletion removes it.
RegistrationIsKept ==
  [][\A d \in Draft : reg[d] # NoReg /\ reg'[d] # NoReg =>
       reg'[d].keys = reg[d].keys /\ (reg[d].status = "registered" => reg'[d] = reg[d])]_vars

\* Whatever step of an import or of a deletion was the last, and whatever answer
\* comes late: a registration has its draft, credentials the configuration that
\* owns them, and that one its draft. So a deleted draft leaves nothing behind,
\* and a deletion that was interrupted can be asked for again.
NothingOrphaned ==
  /\ \A d \in Draft : reg[d] # NoReg \/ config.owner = d => draft[d] \in {"draft", "deleting"}
  /\ auth # NoOne => config.set
  /\ auth \in Keys => config.owner = auth[1]

\* "never replace live auth": credentials only go in a deletion that holds the
\* lease of the session, and never turn into those of another registration.
LiveAuthIsKept == [][auth # NoOne /\ auth' # auth => auth' = NoOne /\ lease \in Call]_vars
=============================================================================
