-------------------------- MODULE SessionRestore ---------------------------
(* services/session_transfer/runtime.ts (owned, restoreStream, restore) and  *)
(* services/session_transfer/stream_restore.ts: the import of an archive     *)
(* into the keys of ONE session. A streamed import promotes its staged       *)
(* records page by page under the lease of the session and writes the        *)
(* configuration last; what it has promoted is rolled back on a failure, or  *)
(* kept in a journal when the rollback is not proven. An import of the first *)
(* format (OneShot) promotes everything in one script.                       *)
(*                                                                           *)
(* The worker of the session, the registration of the number and the logout  *)
(* job act on the same keys. Every Redis command may lose its reply.         *)
EXTENDS Naturals

CONSTANTS Restore,     \* imports, each the token of its lease
          OneShot,     \* those of the first format
          Pages,       \* pages of records in an archive
          NoOne,       \* a free lease, an absent key or configuration
          Live,        \* the worker: as a lease token, and as what it writes
          Manual,      \* the configuration an operator saves
          Budget       \* bound: disturbances of one behaviour

ASSUME RestoreAssumption == /\ OneShot \subseteq Restore
                            /\ Pages \in Nat \ {0}
                            /\ NoOne \notin Restore /\ Live \notin Restore
                            /\ Manual \notin Restore
                            /\ NoOne # Live /\ NoOne # Manual
                            /\ Budget \in Nat

VARIABLES job,         \* how far each import has come
          told,        \* what its caller was answered
          journal,     \* the list of records of each import
          lease,       \* unoapi-lease:zapo-session:<phone>
          config,      \* who wrote the configuration
          draft,       \* the number has a mobile primary draft
          target,      \* whose records the keys of the session hold
          logout,      \* the step of a logout job
          overlapped,  \* history: imports a logout job ran beside
          budget

vars == <<job, told, journal, lease, config, draft, target, logout, overlapped, budget>>

Page == 1 .. Pages
Replies == {"answered", "applied", "dropped"}  \* applied, dropped: no answer came

Init == /\ job = [r \in Restore |-> [pc |-> "idle", done |-> 0, undone |-> 0,
                                     sure |-> TRUE, final |-> FALSE]]
        /\ told = [r \in Restore |-> "nothing"]
        /\ journal = [r \in Restore |-> "none"]
        /\ lease \in {NoOne, Live}
        /\ config = NoOne
        /\ draft = FALSE
        /\ target = [p \in Page |-> NoOne]
        /\ logout = "idle"
        /\ overlapped = {}
        /\ budget = Budget

-----------------------------------------------------------------------------
At(r, label) == job[r].pc = label
Goto(r, label) == job' = [job EXCEPT ![r].pc = label]
Tell(r, answer) == told' = [told EXCEPT ![r] = answer]
Disturb == budget > 0 /\ budget' = budget - 1
Answered(reply) == IF reply = "answered" THEN UNCHANGED budget ELSE Disturb

\* An import past its lease and before its end.
Running(r) == job[r].pc \notin {"idle", "done", "dead"}

\* owned: SET NX, refused while anyone holds the lease
Begin(r) ==
  /\ At(r, "idle")
  /\ IF lease = NoOne THEN lease' = r /\ Goto(r, "check") /\ UNCHANGED told
     ELSE Goto(r, "done") /\ Tell(r, "failed") /\ UNCHANGED lease
  /\ overlapped' = IF logout = "idle" THEN overlapped ELSE overlapped \cup {r}
  /\ UNCHANGED <<journal, config, draft, target, logout, budget>>

\* The destination must have neither configuration nor draft,
Check(r) ==
  /\ At(r, "check")
  /\ IF config # NoOne \/ draft THEN Goto(r, "release") /\ Tell(r, "failed")
     ELSE Goto(r, "scan") /\ UNCHANGED told
  /\ UNCHANGED <<journal, lease, config, draft, target, logout, overlapped, budget>>

\* nor any key.
Scan(r) ==
  /\ At(r, "scan")
  /\ IF \E p \in Page : target[p] # NoOne
     THEN Goto(r, "release") /\ Tell(r, "failed")
     ELSE Goto(r, "stage") /\ UNCHANGED told
  /\ UNCHANGED <<journal, lease, config, draft, target, logout, overlapped, budget>>

\* Every record is journaled and staged, and the identity is verified,
Stage(r) ==
  /\ At(r, "stage")
  /\ journal' = [journal EXCEPT ![r] = IF r \in OneShot THEN "none" ELSE "expiring"]
  /\ Goto(r, IF r \in OneShot THEN "import" ELSE "persist")
  /\ UNCHANGED <<told, lease, config, draft, target, logout, overlapped, budget>>

\* or the archive is refused half-way.
StageFails(r) ==
  /\ At(r, "stage")
  /\ journal' = [journal EXCEPT ![r] = IF r \in OneShot THEN "none" ELSE "expiring"]
  /\ Goto(r, IF r \in OneShot THEN "release" ELSE "undo")
  /\ IF r \in OneShot THEN Tell(r, "failed") ELSE UNCHANGED told
  /\ UNCHANGED <<lease, config, draft, target, logout, overlapped, budget>>

\* renew() finds another token, or none: session_backup_lease_lost. The scan of
\* the first format does not renew.
LeaseLost(r) ==
  /\ job[r].pc \in {"stage", "promote", "final", "import"} \/ (At(r, "scan") /\ r \notin OneShot)
  /\ lease # r
  /\ IF r \in OneShot \/ At(r, "scan") THEN Goto(r, "release") /\ Tell(r, "failed")
     ELSE Goto(r, "undo") /\ UNCHANGED told
  /\ UNCHANGED <<journal, lease, config, draft, target, logout, overlapped, budget>>

\* PERSIST of the journal, before the first key of the session is written
Persist(r) ==
  /\ At(r, "persist")
  /\ journal' = [journal EXCEPT ![r] = "durable"]
  /\ Goto(r, "promote")
  /\ UNCHANGED <<told, lease, config, draft, target, logout, overlapped, budget>>

\* The fence of every script: the lease is mine, there is no configuration. As a
\* mutant, the lease is not looked at.
FencedByConfig(r) == config = NoOne
Fenced(r) == lease = r /\ config = NoOne

\* What an import knows after the script of its next page: without a reply it is
\* uncertain of it. As mutants, a lost reply is a refusal, a refusal is not seen.
AfterPageCertain(j, reply, granted) ==
  IF reply = "answered" /\ granted THEN [j EXCEPT !.done = @ + 1] ELSE [j EXCEPT !.pc = "undo"]
AfterPageUnchecked(j, reply, granted) ==
  IF reply = "answered" THEN [j EXCEPT !.done = @ + 1] ELSE [j EXCEPT !.pc = "undo", !.sure = FALSE]
AfterPage(j, reply, granted) ==
  IF reply # "answered" THEN [j EXCEPT !.pc = "undo", !.sure = FALSE]
  ELSE IF granted THEN [j EXCEPT !.done = @ + 1]
  ELSE [j EXCEPT !.pc = "undo"]

\* The next page, if no key of it exists and no staged record of it has expired
Promote(r, reply, expired) ==
  LET p == job[r].done + 1
      granted == Fenced(r) /\ target[p] = NoOne /\ ~expired
  IN
  /\ At(r, "promote") /\ job[r].done < Pages
  /\ Answered(reply)
  /\ target' = IF reply # "dropped" /\ granted THEN [target EXCEPT ![p] = r] ELSE target
  /\ job' = [job EXCEPT ![r] = AfterPage(@, reply, granted)]
  /\ UNCHANGED <<told, journal, lease, config, draft, logout, overlapped>>

Promoted(r) ==
  /\ At(r, "promote") /\ job[r].done = Pages
  /\ Goto(r, "final")
  /\ UNCHANGED <<told, journal, lease, config, draft, target, logout, overlapped, budget>>

\* The last script writes the configuration, the index and the invalidation.
Final(r, reply) ==
  LET granted == Fenced(r) /\ ~draft IN
  /\ At(r, "final")
  /\ Answered(reply)
  /\ config' = IF reply # "dropped" /\ granted THEN r ELSE config
  /\ job' = [job EXCEPT ![r].pc = "undo", ![r].final = reply = "answered" /\ granted]
  /\ UNCHANGED <<told, journal, lease, draft, target, logout, overlapped>>

\* The only script of the first format.
Import(r, reply, expired) ==
  LET granted == /\ Fenced(r) /\ ~draft /\ ~expired
                 /\ \A p \in Page : target[p] = NoOne
  IN
  /\ At(r, "import")
  /\ Answered(reply)
  /\ config' = IF reply # "dropped" /\ granted THEN r ELSE config
  /\ target' = IF reply # "dropped" /\ granted THEN [p \in Page |-> r] ELSE target
  /\ Goto(r, "release")
  /\ Tell(r, IF reply # "answered" THEN "broken" ELSE IF granted THEN "restored" ELSE "failed")
  /\ UNCHANGED <<journal, lease, draft, logout, overlapped>>

\* finally: a page counted as committed is deleted under the same fence. A lost
\* reply ends the rollback with an exception.
Undo(r, reply) ==
  LET p == job[r].undone + 1 IN
  /\ At(r, "undo") /\ ~job[r].final /\ job[r].undone < job[r].done
  /\ Answered(reply)
  /\ target' = IF reply # "dropped" /\ Fenced(r)
               THEN [target EXCEPT ![p] = NoOne] ELSE target
  /\ job' = [job EXCEPT ![r].undone = p, ![r].sure = @ /\ Fenced(r),
                        ![r].pc = IF reply = "answered" THEN @ ELSE "release"]
  /\ told' = IF reply = "answered" THEN told ELSE [told EXCEPT ![r] = "broken"]
  /\ UNCHANGED <<journal, lease, config, draft, logout, overlapped>>

\* The journal goes only when the import is final or the rollback proven. As a
\* mutant, it always goes.
NoJournal(r) == "none"
JournalLeft(r) == IF job[r].sure THEN "none" ELSE journal[r]

Settle(r) ==
  /\ At(r, "undo") /\ (job[r].final \/ job[r].undone = job[r].done)
  /\ journal' = [journal EXCEPT ![r] = JournalLeft(r)]
  /\ Tell(r, IF ~job[r].sure THEN "pending" ELSE IF job[r].final THEN "restored" ELSE "failed")
  /\ Goto(r, "release")
  /\ UNCHANGED <<lease, config, draft, target, logout, overlapped, budget>>

\* owned: compare and delete
Release(r) ==
  /\ At(r, "release")
  /\ lease' = IF lease = r THEN NoOne ELSE lease
  /\ Goto(r, "done")
  /\ UNCHANGED <<told, journal, config, draft, target, logout, overlapped, budget>>

-----------------------------------------------------------------------------
(* The others *)

\* The process of an import dies; a journal not yet persisted expires.
Crash(r) ==
  /\ Running(r)
  /\ Disturb
  /\ Goto(r, "dead")
  /\ journal' = [journal EXCEPT ![r] = IF @ = "expiring" THEN "none" ELSE @]
  /\ UNCHANGED <<told, lease, config, draft, target, logout, overlapped>>

\* The 120 s of an import that is stalled, or dead; the TTL of the worker.
Expire ==
  /\ lease # NoOne
  /\ IF lease \in Restore /\ ~Running(lease) THEN UNCHANGED budget ELSE Disturb
  /\ lease' = NoOne
  /\ UNCHANGED <<job, told, journal, config, draft, target, logout, overlapped>>

\* The worker takes the lease and writes the keys of the session.
Open ==
  /\ lease = NoOne
  /\ lease' = Live
  /\ UNCHANGED <<job, told, journal, config, draft, target, logout, overlapped, budget>>

Write(p) ==
  /\ lease = Live /\ target[p] # Live
  /\ target' = [target EXCEPT ![p] = Live]
  /\ UNCHANGED <<job, told, journal, lease, config, draft, logout, overlapped, budget>>

Close ==
  /\ lease = Live
  /\ lease' = NoOne
  /\ UNCHANGED <<job, told, journal, config, draft, target, logout, overlapped, budget>>

\* The number is registered by hand, or a mobile draft is made of it.
Register ==
  /\ config = NoOne
  /\ Disturb
  /\ config' = Manual
  /\ UNCHANGED <<job, told, journal, lease, draft, target, logout, overlapped>>

MakeDraft ==
  /\ config = NoOne /\ ~draft
  /\ Disturb
  /\ draft' = TRUE
  /\ UNCHANGED <<job, told, journal, lease, config, target, logout, overlapped>>

\* LogoutBaileys.run: clearZapoSession, delConfig and delZapoSessionRuntimeLease,
\* none of them under the lease.
Beside == {r \in Restore : Running(r)}

LogoutClears ==
  /\ logout = "idle"
  /\ Disturb
  /\ target' = [p \in Page |-> NoOne]
  /\ logout' = "config"
  /\ overlapped' = overlapped \cup Beside
  /\ UNCHANGED <<job, told, journal, lease, config, draft>>

LogoutForgets ==
  /\ logout = "config"
  /\ config' = NoOne
  /\ logout' = "lease"
  /\ UNCHANGED <<job, told, journal, lease, draft, target, overlapped, budget>>

LogoutFrees ==
  /\ logout = "lease"
  /\ lease' = NoOne
  /\ logout' = "idle"
  /\ UNCHANGED <<job, told, journal, config, draft, target, overlapped, budget>>

-----------------------------------------------------------------------------
Prepare(r) == Begin(r) \/ Check(r) \/ Scan(r) \/ Stage(r) \/ StageFails(r) \/ Persist(r)

Commit(r) == \/ \E reply \in Replies, expired \in BOOLEAN :
                  Promote(r, reply, expired) \/ Import(r, reply, expired)
             \/ Promoted(r)
             \/ \E reply \in Replies : Final(r, reply)

RollBack(r) == \/ LeaseLost(r) \/ Settle(r) \/ Release(r) \/ Crash(r)
               \/ \E reply \in Replies : Undo(r, reply)

Others == \/ Expire \/ Open \/ Close \/ Register \/ MakeDraft
          \/ LogoutClears \/ LogoutForgets \/ LogoutFrees
          \/ \E p \in Page : Write(p)

Next == Others \/ \E r \in Restore : Prepare(r) \/ Commit(r) \/ RollBack(r)

Spec == Init /\ [][Next]_vars

-----------------------------------------------------------------------------
Labels == {"idle", "check", "scan", "stage", "persist", "promote", "final", "import",
           "undo", "release", "done", "dead"}

\* The types of the variables.
TypeOK ==
  /\ job \in [Restore -> [pc : Labels, done : 0 .. Pages, undone : 0 .. Pages,
                          sure : BOOLEAN, final : BOOLEAN]]
  /\ told \in [Restore -> {"nothing", "restored", "failed", "pending", "broken"}]
  /\ journal \in [Restore -> {"none", "expiring", "durable"}]
  /\ lease \in Restore \cup {NoOne, Live}
  /\ config \in Restore \cup {NoOne, Manual}
  /\ draft \in BOOLEAN
  /\ target \in [Page -> Restore \cup {NoOne, Live}]
  /\ logout \in {"idle", "config", "lease"}
  /\ overlapped \subseteq Restore
  /\ budget \in Nat

\* The configuration an import wrote stands on every record of its archive (the
\* worker may have gone on from there): nobody connects on a part of a session,
\* or on a mixture of two, unless a logout job ran beside the import.
FinalisedIsWhole ==
  \A r \in Restore \ overlapped : config = r /\ logout = "idle" =>
    \A p \in Page : target[p] \in {r, Live}

\* Records of an import that has not become a session are never left without a
\* trace: the import still runs, or its journal names them and does not expire.
PartialIsJournaled ==
  \A r \in Restore \ overlapped, p \in Page :
    target[p] = r /\ config # r => Running(r) \/ journal[r] = "durable"

\* An import that reports a plain failure has left nothing in the session, so it
\* can be repeated; "session_restore_rollback_pending" says otherwise.
FailedMeansNothing ==
  \A r \in Restore : told[r] = "failed" => \A p \in Page : target[p] # r

\* A rollback deletes only what its import has promoted: what the worker or
\* another import wrote disappears in a logout alone.
RollbackSparesOthers ==
  [][\A p \in Page : target[p] # NoOne /\ target'[p] = NoOne =>
       logout' = "config" \/ (target[p] \in Restore /\ At(target[p], "undo"))]_vars
=============================================================================
