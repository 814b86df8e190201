--------------------------- MODULE RestoreUpload ---------------------------
(* services/session_transfer/multipart_restore.ts: ONE upload of an archive  *)
(* in parts. Its requests run in any process; each takes the lock of the     *)
(* upload (120 s, extended while its process lives), reads the stored state, *)
(* works, and writes the state back under a script that checks the lock.     *)
(* Storage is not fenced: an object is written, read and removed whoever     *)
(* holds the lock.                                                           *)
EXTENDS Naturals, FiniteSets

CONSTANTS Request,     \* requests that can be in progress at once
          Parts,       \* parts of the archive
          Bytes,       \* what a client may send as a part
          None,        \* no lock, no receipt, no object
          Mishaps      \* bound: disturbances of one behaviour

ASSUME UploadAssumption == /\ Parts \in Nat \ {0}
                           /\ None \notin Request \cup Bytes
                           /\ Mishaps \in Nat

VARIABLES stored,      \* the RestoreUpload in Redis
          receipt,     \* the hash stored for each part
          object,      \* the object of each part in the media storage
          scheduled,   \* parts whose object will be removed by the media queue
          lock,        \* session-transfer:{v1}:upload:<id>:lock
          req,         \* the requests, with the value they have loaded
          acked,       \* history: what the client was told is stored
          launched,    \* history: how often the importer was started
          imported,    \* history: what a successful import has read
          mishaps

uploadVars == <<stored, receipt, object, scheduled, lock, req, acked, launched, imported, mishaps>>

Part == 0 .. Parts - 1
Blank == [i \in Part |-> None]
Resting == [pc |-> "rest", op |-> "part", part |-> 0, bytes |-> None, at |-> 0,
            state |-> "uploading", received |-> 0, read |-> Blank]

UploadInit == /\ stored = [state |-> "uploading", received |-> 0]
              /\ receipt = Blank /\ object = Blank
              /\ scheduled = {}
              /\ lock = None
              /\ req = [q \in Request |-> Resting]
              /\ acked = Blank
              /\ launched = 0
              /\ imported = {}
              /\ mishaps = Mishaps

-----------------------------------------------------------------------------
Stands(q, label) == req[q].pc = label
Doing(q, op) == req[q].op = op
Proceed(q, label) == req' = [req EXCEPT ![q].pc = label]
Mishap == mishaps > 0 /\ mishaps' = mishaps - 1

\* locked: the lock is free. part and complete also load before they lock.
Lock(q, op, i, b) ==
  /\ Stands(q, "rest")
  /\ lock = None /\ stored.state # "expired"
  /\ lock' = q
  /\ req' = [req EXCEPT ![q] = [Resting EXCEPT !.pc = "load", !.op = op, !.part = i, !.bytes = b]]
  /\ UNCHANGED <<stored, receipt, object, scheduled, acked, launched, imported, mishaps>>

Ask == \E q \in Request :
         \/ \E i \in Part, b \in Bytes : Lock(q, "part", i, b)
         \/ \E op \in {"complete", "cancel"} : Lock(q, op, 0, None)

\* What is read under the lock decides how the request goes on; an early part
\* sent again is answered from its receipt.
Loaded(q) ==
  CASE Doing(q, "part") ->
         IF stored.state # "uploading" \/ req[q].part # stored.received THEN "unlock" ELSE "schedule"
    [] Doing(q, "complete") ->
         IF stored.state # "uploading" \/ stored.received # Parts THEN "unlock" ELSE "save"
    [] OTHER -> IF stored.state \in {"restoring", "expired"} THEN "unlock" ELSE "save"

Load(q) ==
  /\ Stands(q, "load")
  /\ req' = [req EXCEPT ![q].pc = Loaded(q), ![q].received = stored.received,
                        ![q].state = IF Doing(q, "complete") THEN "restoring"
                                     ELSE IF Doing(q, "cancel") THEN "failed" ELSE stored.state]
  /\ UNCHANGED <<stored, receipt, object, scheduled, lock, acked, launched, imported, mishaps>>

\* part: assert, then the removal is scheduled, even before the write.
Schedule(q) ==
  /\ Stands(q, "schedule")
  /\ IF lock = q THEN scheduled' = scheduled \cup {req[q].part} /\ Proceed(q, "store")
     ELSE UNCHANGED scheduled /\ Proceed(q, "unlock")
  /\ UNCHANGED <<stored, receipt, object, lock, acked, launched, imported, mishaps>>

Store(q) ==
  /\ Stands(q, "store")
  /\ \/ object' = [object EXCEPT ![req[q].part] = req[q].bytes] /\ Proceed(q, "save")
     \/ UNCHANGED object /\ Proceed(q, "unlock")
  /\ UNCHANGED <<stored, receipt, scheduled, lock, acked, launched, imported, mishaps>>

\* The fence of save and of the script of part. As a mutant, the lock is not
\* looked at.
StillThere(q) == stored.state # "expired"
MaySave(q) == lock = q /\ stored.state # "expired"

\* The script of part: the receipt and the state as it was loaded, one part on.
SavePart(q) ==
  LET i == req[q].part IN
  /\ Stands(q, "save") /\ Doing(q, "part")
  /\ IF MaySave(q)
     THEN /\ stored' = [state |-> req[q].state, received |-> req[q].received + 1]
          /\ receipt' = [receipt EXCEPT ![i] = req[q].bytes]
          /\ acked' = [acked EXCEPT ![i] = req[q].bytes]
     ELSE UNCHANGED <<stored, receipt, acked>>
  /\ Proceed(q, "unlock")
  /\ UNCHANGED <<object, scheduled, lock, launched, imported, mishaps>>

\* complete and cancel: save; the first launches the import once it has unlocked,
\* the second cleans up.
Save(q) ==
  /\ Stands(q, "save") /\ req[q].op \in {"complete", "cancel"}
  /\ IF MaySave(q)
     THEN /\ stored' = [state |-> req[q].state, received |-> req[q].received]
          /\ Proceed(q, IF Doing(q, "complete") THEN "launch" ELSE "clean")
     ELSE UNCHANGED stored /\ Proceed(q, "unlock")
  /\ UNCHANGED <<receipt, object, scheduled, lock, acked, launched, imported, mishaps>>

Unlock(q) ==
  /\ req[q].pc \in {"unlock", "launch"}
  /\ lock' = IF lock = q THEN None ELSE lock
  /\ req' = [req EXCEPT ![q] = IF Stands(q, "launch") THEN [@ EXCEPT !.pc = "relock", !.op = "execute"]
                               ELSE Resting]
  /\ UNCHANGED <<stored, receipt, object, scheduled, acked, launched, imported, mishaps>>

-----------------------------------------------------------------------------
(* execute *)

\* The lock is taken anew: if someone was faster the import is given up, and the
\* upload stays "restoring". The state is loaded again but not looked at.
Relock(q) ==
  /\ Stands(q, "relock")
  /\ IF lock = None THEN lock' = q /\ Proceed(q, "reload") ELSE UNCHANGED lock /\ Proceed(q, "unlock")
  /\ UNCHANGED <<stored, receipt, object, scheduled, acked, launched, imported, mishaps>>

Reload(q) ==
  /\ Stands(q, "reload")
  /\ IF stored.state = "expired" THEN Proceed(q, "unlock") /\ UNCHANGED launched
     ELSE /\ req' = [req EXCEPT ![q].pc = "download", ![q].received = stored.received]
          /\ launched' = launched + 1
  /\ UNCHANGED <<stored, receipt, object, scheduled, lock, acked, imported, mishaps>>

\* The importer asks for the next part: assert, download, compare with the receipt.
Failing(q) == req' = [req EXCEPT ![q].pc = "finish", ![q].state = "failed"]

Download(q) ==
  LET i == req[q].at IN
  /\ Stands(q, "download") /\ i < Parts
  /\ IF lock = q /\ object[i] # None
     THEN req' = [req EXCEPT ![q].read[i] = object[i], ![q].pc = "verify"]
     ELSE Failing(q)
  /\ UNCHANGED <<stored, receipt, object, scheduled, lock, acked, launched, imported, mishaps>>

\* As a mutant, every part is as its receipt says.
Trusted(q) == TRUE
Verified(q) == req[q].read[req[q].at] = receipt[req[q].at]

Verify(q) ==
  /\ Stands(q, "verify")
  /\ IF Verified(q) THEN req' = [req EXCEPT ![q].pc = "download", ![q].at = @ + 1]
     ELSE Failing(q)
  /\ UNCHANGED <<stored, receipt, object, scheduled, lock, acked, launched, imported, mishaps>>

\* The importer answers, see SessionRestore; it may also fail before it has read
\* the whole archive.
Answer(q) ==
  /\ Stands(q, "download")
  /\ \/ /\ req[q].at = Parts
        /\ imported' = imported \cup {req[q].read}
        /\ req' = [req EXCEPT ![q].pc = "finish", ![q].state = "ready"]
     \/ Failing(q) /\ UNCHANGED imported
  /\ UNCHANGED <<stored, receipt, object, scheduled, lock, acked, launched, mishaps>>

\* Mutant: the parts are cleaned up although the state could not be saved.
FinishAnyway(q) ==
  /\ Stands(q, "finish")
  /\ IF MaySave(q) THEN stored' = [state |-> req[q].state, received |-> req[q].received]
     ELSE UNCHANGED stored
  /\ req' = [req EXCEPT ![q].pc = "clean", ![q].at = 0]
  /\ UNCHANGED <<receipt, object, scheduled, lock, acked, launched, imported, mishaps>>

\* assert and save; without the lock nothing is said, nor cleaned up.
Finish(q) ==
  /\ Stands(q, "finish")
  /\ IF MaySave(q)
     THEN /\ stored' = [state |-> req[q].state, received |-> req[q].received]
          /\ req' = [req EXCEPT ![q].pc = "clean", ![q].at = 0]
     ELSE UNCHANGED stored /\ Proceed(q, "unlock")
  /\ UNCHANGED <<receipt, object, scheduled, lock, acked, launched, imported, mishaps>>

\* cleanup: an object and its receipt; failing to remove an object is ignored.
Clean(q) ==
  LET i == req[q].at IN
  /\ Stands(q, "clean")
  /\ IF i < req[q].received
     THEN /\ object' \in {object, [object EXCEPT ![i] = None]}
          /\ receipt' = [receipt EXCEPT ![i] = None]
          /\ req' = [req EXCEPT ![q].at = i + 1]
     ELSE UNCHANGED <<object, receipt>> /\ Proceed(q, "unlock")
  /\ UNCHANGED <<stored, scheduled, lock, acked, launched, imported, mishaps>>

-----------------------------------------------------------------------------
(* The environment *)

\* A process dies; its lock expires in time, that of a stalled process may.
Die(q) ==
  /\ ~Stands(q, "rest")
  /\ Mishap
  /\ req' = [req EXCEPT ![q] = Resting]
  /\ UNCHANGED <<stored, receipt, object, scheduled, lock, acked, launched, imported>>

LockExpires ==
  /\ lock # None
  /\ IF Stands(lock, "rest") THEN UNCHANGED mishaps ELSE Mishap
  /\ lock' = None
  /\ UNCHANGED <<stored, receipt, object, scheduled, req, acked, launched, imported>>

\* 24 hours after the start the upload is gone, with its receipts.
Forget ==
  /\ stored.state # "expired"
  /\ Mishap
  /\ stored' = [stored EXCEPT !.state = "expired"]
  /\ receipt' = Blank
  /\ UNCHANGED <<object, scheduled, lock, req, acked, launched, imported>>

-----------------------------------------------------------------------------
Serve(q) == \/ Load(q) \/ Schedule(q) \/ Store(q) \/ SavePart(q) \/ Save(q) \/ Unlock(q)
            \/ Relock(q) \/ Reload(q) \/ Download(q) \/ Verify(q) \/ Answer(q) \/ Finish(q)
            \/ Clean(q)

UploadNext == \/ Ask \/ LockExpires \/ Forget
              \/ \E q \in Request : Serve(q) \/ Die(q)

UploadSpec == UploadInit /\ [][UploadNext]_uploadVars

-----------------------------------------------------------------------------
Stages == {"rest", "load", "schedule", "store", "save", "launch", "unlock", "relock", "reload",
           "download", "verify", "finish", "clean"}
States == {"uploading", "restoring", "ready", "failed"}
Contents == [Part -> Bytes \cup {None}]

\* The types of the variables.
UploadTypeOK ==
  /\ stored \in [state : States \cup {"expired"}, received : 0 .. Parts]
  /\ receipt \in Contents /\ object \in Contents /\ acked \in Contents
  /\ scheduled \subseteq Part
  /\ lock \in Request \cup {None}
  /\ req \in [Request -> [pc : Stages, op : {"part", "complete", "cancel", "execute"},
                          part : Part, bytes : Bytes \cup {None}, at : 0 .. Parts,
                          state : States \cup {"expired"}, received : 0 .. Parts,
                          read : Contents]]
  /\ launched \in Nat
  /\ imported \subseteq Contents
  /\ mishaps \in Nat

\* "never reimport automatically": however often completion is requested, and
\* whatever request writes its state late, one upload starts one import at most.
LaunchedOnce == launched <= 1

\* An import that succeeds has read, part by part, the bytes the client was told
\* are stored, although a slow writer may have overwritten an object.
ImportedAsAcknowledged == imported \subseteq {acked}

\* Until an upload is settled no object of an acknowledged part disappears.
AcknowledgedIsKept ==
  stored.state \in {"uploading", "restoring"} =>
    \A i \in Part : i < stored.received => object[i] # None
=============================================================================
