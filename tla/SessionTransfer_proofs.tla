----------------------- MODULE SessionTransfer_proofs -----------------------
(* Proofs about the two halves of a session transfer, for any number of      *)
(* requests, parts, imports and pages: RestoreUpload, the upload in parts,   *)
(* and SessionRestore, the import of one archive into Redis.                 *)
EXTENDS RestoreUpload, SessionRestore, TLAPS

-----------------------------------------------------------------------------
(* One upload in parts                                                       *)

Known == States \cup {"expired"}
Sent == Bytes \cup {None}
Noted == [pc : Stages, op : {"part", "complete", "cancel", "execute"}, part : Part, bytes : Sent,
          at : Nat, state : Known, received : Nat, read : Contents]

Filed == /\ stored \in [state : Known, received : Nat]
         /\ receipt \in Contents /\ object \in Contents /\ acked \in Contents
         /\ lock \in Request \cup {None}
         /\ req \in [Request -> Noted]
         /\ launched \in Nat

\* While a request that is about to write holds the lock, the state is as it has read it.
Unmoved(q) ==
  /\ Doing(q, "part") => stored.state = "uploading" /\ req[q].received = stored.received
  /\ Doing(q, "complete") => /\ stored.state = "uploading" /\ req[q].received = stored.received
                             /\ stored.received = Parts
  /\ stored.state # "restoring"

Writing == {"schedule", "store", "save"}
Guarded == \A q \in Request :
             lock = q /\ stored.state # "expired" /\ req[q].pc \in Writing => Unmoved(q)

\* What a request that is about to write carries.
Carried == \A q \in Request :
  /\ req[q].pc \in Writing \cup {"load"} /\ Doing(q, "part") => req[q].bytes \in Bytes
  /\ req[q].pc \in Writing /\ Doing(q, "part") => req[q].received = req[q].part
  /\ Stands(q, "save") /\ Doing(q, "complete") => req[q].state = "restoring"
  /\ Stands(q, "save") /\ Doing(q, "cancel") => req[q].state = "failed"
  /\ req[q].pc \in {"schedule", "store"} => Doing(q, "part")
  /\ Stands(q, "finish") => req[q].state \in {"ready", "failed"}

\* From the save of the completion to the start of the importer there is one request, and
\* the upload takes no more parts.
Starting == {"launch", "relock", "reload"}
Started ==
  /\ \A q, p \in Request : req[q].pc \in Starting /\ req[p].pc \in Starting => p = q
  /\ \A q \in Request : req[q].pc \in Starting => launched = 0
  /\ (\E q \in Request : req[q].pc \in Starting) \/ launched # 0 => stored.state # "uploading"
  /\ launched \in {0, 1}

\* What an importer has read so far is what was acknowledged.
Reading == {"download", "verify"}
Importing == \A q \in Request :
  /\ req[q].pc \in Writing \cup Starting \cup {"load"} => req[q].at = 0
  /\ req[q].pc \in Reading =>
       launched # 0 /\ \A i \in Part : i < req[q].at => req[q].read[i] = acked[i]
  /\ Stands(q, "verify") => req[q].at \in Part /\ req[q].read[req[q].at] # None

Receipts == \A i \in Part : receipt[i] \in {None, acked[i]}
Done == imported \subseteq {acked} /\ (imported # {} => launched # 0)

\* Parts are cleaned up once the upload is settled; an acknowledgement follows its object.
Settled == stored.state \in {"ready", "failed", "expired"}
Cleaning == \A q \in Request : Stands(q, "clean") => Settled
Written == \A q \in Request : Stands(q, "save") /\ Doing(q, "part") =>
                              Settled \/ object[req[q].part] # None

\* The bounds of the types.
Bounded ==
  /\ stored.received <= Parts /\ \A q \in Request : req[q].at <= Parts /\ req[q].received <= Parts
  /\ scheduled \subseteq Part
  /\ mishaps \in Nat

UploadInv == /\ Filed /\ Bounded /\ Guarded /\ Carried /\ Started /\ Importing /\ Receipts /\ Done
             /\ Cleaning /\ Written /\ AcknowledgedIsKept

LEMMA Labelled ==
  /\ {"rest", "load", "schedule", "store", "save", "launch", "unlock", "relock", "reload",
      "download", "verify", "finish", "clean"} = Stages
  /\ {"uploading", "restoring", "ready", "failed", "expired"} = Known
  /\ Parts \in Nat \ {0} /\ 0 \in Part
  /\ Blank \in Contents
BY UploadAssumption DEF Stages, Known, States, Part, Blank, Contents, Sent

LEMMA Put ==
  ASSUME NEW c \in Contents, NEW i, NEW b \in Sent
  PROVE  [c EXCEPT ![i] = b] \in Contents
BY DEF Contents, Sent

LEMMA Got == ASSUME NEW c \in Contents, NEW i \in Part PROVE c[i] \in Sent
BY DEF Contents, Sent

LEMMA Recorded ==
  ASSUME NEW n \in Noted, NEW l \in Stages
  PROVE  /\ [n EXCEPT !.pc = l] \in Noted
         /\ [n EXCEPT !.pc = l, !.op = "execute"] \in Noted
         /\ \A x \in Nat : [n EXCEPT !.pc = l, !.at = x] \in Noted
         /\ \A x \in Nat : [n EXCEPT !.pc = l, !.received = x] \in Noted
         /\ \A s \in Known : [n EXCEPT !.pc = l, !.state = s] \in Noted
         /\ \A x \in Nat, s \in Known : [n EXCEPT !.pc = l, !.received = x, !.state = s] \in Noted
         /\ \A c \in Contents : [n EXCEPT !.read = c, !.pc = l] \in Noted
BY DEF Noted

LEMMA Fields ==
  ASSUME NEW n \in Noted
  PROVE  /\ n.at \in Nat /\ n.received \in Nat /\ n.read \in Contents /\ n.bytes \in Sent
         /\ n.part \in Part /\ n.state \in Known /\ n.pc \in Stages
BY DEF Noted

\* What becomes of the requests in a step.
LEMMA Turned ==
  ASSUME Filed, NEW q \in Request, Serve(q)
  PROVE  \E n \in Noted : req' = [req EXCEPT ![q] = n]
<1> DEFINE m == req[q]
<1>0. m \in Noted
  BY DEF Filed
<1> USE UploadAssumption, Labelled
<1>1. ASSUME NEW l \in Stages, Proceed(q, l) PROVE req' = [req EXCEPT ![q] = [m EXCEPT !.pc = l]]
  BY <1>1 DEF Proceed, Filed
<1>2. ASSUME Failing(q)
      PROVE  req' = [req EXCEPT ![q] = [m EXCEPT !.pc = "finish", !.state = "failed"]]
  BY <1>2 DEF Failing, Filed
<1>3. CASE \E l \in Stages : Proceed(q, l)
  <2>1. PICK l \in Stages : Proceed(q, l)
    BY <1>3
  <2>2. req' = [req EXCEPT ![q] = [m EXCEPT !.pc = l]]
    BY <1>1, <2>1
  <2>3. [m EXCEPT !.pc = l] \in Noted
    BY <1>0, Recorded
  <2> QED BY <2>2, <2>3
<1>4. CASE Failing(q)
  BY <1>0, <1>2, <1>4, Recorded
<1>5. CASE Load(q)
  <2>1. PICK l \in Stages, s \in Known :
          req' = [req EXCEPT ![q].pc = l, ![q].received = stored.received, ![q].state = s]
    BY <1>5 DEF Load, Loaded, Filed
  <2>2. req' = [req EXCEPT ![q] = [m EXCEPT !.pc = l, !.received = stored.received, !.state = s]]
    BY <2>1 DEF Filed
  <2>3. stored.received \in Nat
    BY DEF Filed
  <2>4. [m EXCEPT !.pc = l, !.received = stored.received, !.state = s] \in Noted
    BY <1>0, <2>3 DEF Noted
  <2> QED BY <2>2, <2>4
<1>6. CASE Unlock(q) 
  <2>1. CASE Stands(q, "launch")
    BY <1>0, <1>6, <2>1, Recorded DEF Unlock, Filed
  <2>2. CASE ~Stands(q, "launch")
    <3>1. Resting \in Noted
      BY DEF Resting, Noted, Sent
    <3> QED BY <1>6, <2>2, <3>1 DEF Unlock
  <2> QED BY <2>1, <2>2
<1>7. CASE Reload(q)
  <2>1. CASE stored.state # "expired"
    <3>1. req' = [req EXCEPT ![q] = [m EXCEPT !.pc = "download", !.received = stored.received]]
      BY <1>7, <2>1 DEF Reload, Filed
    <3> QED BY <1>0, <3>1, Recorded DEF Filed
  <2> QED BY <1>3, <1>7, <2>1 DEF Reload
<1>8. CASE Download(q)
  <2>1. CASE ~Failing(q)
    <3> DEFINE c == [m.read EXCEPT ![m.at] = object[m.at]]
    <3>1. req' = [req EXCEPT ![q] = [m EXCEPT !.read = c, !.pc = "verify"]]
      BY <1>0, <1>8, <2>1 DEF Download, Filed, Noted
    <3>2. m.at \in Part
      BY <1>0, <1>8, Fields DEF Download, Part
    <3>3. c \in Contents
      BY <1>0, <3>2, Fields, Put, Got DEF Filed
    <3> QED BY <1>0, <3>1, <3>3, Recorded
  <2> QED BY <1>4, <2>1
<1>9. CASE Verify(q)
  <2>1. CASE ~Failing(q)
    <3>1. req' = [req EXCEPT ![q] = [m EXCEPT !.pc = "download", !.at = m.at + 1]]
      BY <1>0, <1>9, <2>1 DEF Verify, Filed, Noted
    <3>2. m.at + 1 \in Nat
      BY <1>0, Fields
    <3> QED BY <1>0, <3>1, <3>2, Recorded
  <2> QED BY <1>4, <2>1
<1>10. CASE Answer(q)
  <2>1. CASE ~Failing(q)
    <3>1. req' = [req EXCEPT ![q] = [m EXCEPT !.pc = "finish", !.state = "ready"]]
      BY <1>10, <2>1 DEF Answer, Filed
    <3> QED BY <1>0, <3>1, Recorded
  <2> QED BY <1>4, <2>1
<1>11. CASE Finish(q)
  <2>1. CASE MaySave(q)
    <3>1. req' = [req EXCEPT ![q] = [m EXCEPT !.pc = "clean", !.at = 0]]
      BY <1>11, <2>1 DEF Finish, Filed
    <3> QED BY <1>0, <3>1, Recorded
  <2> QED BY <1>3, <1>11, <2>1 DEF Finish
<1>12. CASE Clean(q)
  <2>1. CASE m.at < m.received
    <3>1. req' = [req EXCEPT ![q] = [m EXCEPT !.at = m.at + 1]]
      BY <1>12, <2>1 DEF Clean, Filed
    <3>2. [m EXCEPT !.at = m.at + 1] \in Noted
      BY <1>0 DEF Noted
    <3> QED BY <3>1, <3>2
  <2> QED BY <1>3, <1>12, <2>1 DEF Clean
<1>13. CASE Schedule(q) \/ Store(q) \/ SavePart(q) \/ Save(q) \/ Relock(q)
  BY <1>3, <1>13 DEF Schedule, Store, SavePart, Save, Relock
<1> QED BY <1>5, <1>6, <1>7, <1>8, <1>9, <1>10, <1>11, <1>12, <1>13 DEF Serve

LEMMA FiledStep == ASSUME UploadAssumption, Filed, NEW q \in Request, Serve(q) PROVE Filed'
<1>a. req' \in [Request -> Noted]
  BY Turned DEF Filed
<1>b. req[q] \in Noted
  BY DEF Filed
<1>c. /\ req[q].received + 1 \in Nat /\ req[q].received \in Nat /\ req[q].state \in Known
      /\ req[q].part \in Part /\ req[q].bytes \in Sent
  BY <1>b, Fields
<1>d. \A b \in {None, req[q].bytes}, i \in {req[q].part, req[q].at} :
        /\ [receipt EXCEPT ![i] = b] \in Contents
        /\ [object EXCEPT ![i] = b] \in Contents /\ [acked EXCEPT ![i] = b] \in Contents
  <2>1. {None, req[q].bytes} \subseteq Sent
    BY <1>c DEF Sent
  <2> QED BY <2>1, Put DEF Filed
<1> USE <1>a, <1>c, <1>d, Labelled
<1>1. CASE Load(q)
  BY <1>1 DEF Load, Filed
<1>2. CASE Schedule(q)
  BY <1>2 DEF Schedule, Filed
<1>3. CASE Store(q)
  BY <1>3 DEF Store, Filed
<1>4. CASE SavePart(q)
  <2>1. CASE MaySave(q)
    <3>1. /\ stored' = [state |-> req[q].state, received |-> req[q].received + 1]
          /\ receipt' = [receipt EXCEPT ![req[q].part] = req[q].bytes]
          /\ acked' = [acked EXCEPT ![req[q].part] = req[q].bytes]
      BY <1>4, <2>1 DEF SavePart
    <3> QED BY <1>4, <3>1 DEF SavePart, Filed
  <2>2. CASE ~MaySave(q)
    BY <1>4, <2>2 DEF SavePart, Filed
  <2> QED BY <2>1, <2>2
<1>5. CASE Save(q)
  BY <1>5 DEF Save, Filed, MaySave
<1>6. CASE Unlock(q)
  BY <1>6 DEF Unlock, Filed
<1>7. CASE Relock(q)
  BY <1>7 DEF Relock, Filed
<1>8. CASE Reload(q)
  BY <1>8 DEF Reload, Filed
<1>9. CASE Download(q)
  BY <1>9 DEF Download, Filed
<1>10. CASE Verify(q)
  BY <1>10 DEF Verify, Filed
<1>11. CASE Answer(q)
  BY <1>11 DEF Answer, Filed
<1>12. CASE Finish(q)
  BY <1>12 DEF Finish, Filed, MaySave
<1>13. CASE Clean(q)
  BY <1>13 DEF Clean, Filed
<1> QED BY <1>1, <1>2, <1>3, <1>4, <1>5, <1>6, <1>7, <1>8, <1>9, <1>10, <1>11, <1>12, <1>13
        DEF Serve

-----------------------------------------------------------------------------
\* How one request goes on, the others staying as they are.
Turn(q, l, o, a, s, k, c) ==
  /\ \A p \in Request \ {q} : req'[p] = req[p]
  /\ req'[q].pc = l /\ req'[q].op = o /\ req'[q].at = a /\ req'[q].state = s
  /\ req'[q].received = k /\ req'[q].read = c
  /\ req'[q].part = req[q].part /\ req'[q].bytes = req[q].bytes

Pass(q, l) == Turn(q, l, req[q].op, req[q].at, req[q].state, req[q].received, req[q].read)
Fall(q) == Turn(q, "finish", req[q].op, req[q].at, "failed", req[q].received, req[q].read)
Rest(q) == (\A p \in Request \ {q} : req'[p] = req[p]) /\ req'[q].pc = "rest"

LEMMA Passes == ASSUME Filed, NEW q \in Request, NEW l \in Stages, Proceed(q, l) PROVE Pass(q, l)
BY DEF Filed, Noted, Turn, Pass, Proceed

LEMMA Falls == ASSUME Filed, NEW q \in Request, Failing(q) PROVE Fall(q)
BY DEF Filed, Noted, Turn, Fall, Failing

LEMMA Loads ==
  ASSUME Filed, NEW q \in Request, Load(q)
  PROVE  /\ Turn(q, Loaded(q), req[q].op, req[q].at, req'[q].state,
                 stored.received, req[q].read)
         /\ req'[q].state = IF Doing(q, "complete") THEN "restoring"
                            ELSE IF Doing(q, "cancel") THEN "failed" ELSE stored.state
         /\ Stands(q, "load")
         /\ UNCHANGED <<stored, receipt, object, lock, acked, launched, imported>>
BY DEF Filed, Noted, Turn, Load

LEMMA Unlocks ==
  ASSUME Filed, NEW q \in Request, Unlock(q)
  PROVE  /\ \/ /\ Stands(q, "launch")
               /\ Turn(q, "relock", "execute", req[q].at, req[q].state,
                       req[q].received, req[q].read)
            \/ Rest(q)
         /\ lock' \in {lock, None}
         /\ UNCHANGED <<stored, receipt, object, acked, launched, imported>>
<1>1. CASE Stands(q, "launch")
  BY <1>1 DEF Filed, Noted, Turn, Unlock
<1>2. CASE ~Stands(q, "launch")
  BY <1>2 DEF Filed, Unlock, Rest, Resting
<1> QED BY <1>1, <1>2

LEMMA Works ==
  ASSUME Filed, NEW q \in Request
  PROVE  /\ Schedule(q) => Pass(q, "store") \/ Pass(q, "unlock")
         /\ Store(q) => Pass(q, "save") \/ Pass(q, "unlock")
         /\ SavePart(q) => Pass(q, "unlock")
         /\ Save(q) => IF MaySave(q) THEN IF Doing(q, "complete") THEN Pass(q, "launch") ELSE Pass(q, "clean")
                       ELSE Pass(q, "unlock")
         /\ Relock(q) => Pass(q, "reload") \/ Pass(q, "unlock")
BY Passes, Labelled DEF Schedule, Store, SavePart, Save, Relock

LEMMA Reloads ==
  ASSUME Filed, NEW q \in Request, Reload(q)
  PROVE  /\ \/ Pass(q, "unlock") /\ launched' = launched
            \/ /\ Turn(q, "download", req[q].op, req[q].at, req[q].state,
                       stored.received, req[q].read)
               /\ launched' = launched + 1
         /\ Stands(q, "reload") /\ UNCHANGED <<stored, receipt, object, lock, acked, imported>>
<1>1. Proceed(q, "unlock") => Pass(q, "unlock")
  BY Passes, Labelled
<1> QED BY <1>1 DEF Filed, Noted, Turn, Reload

LEMMA Downloads ==
  ASSUME Filed, NEW q \in Request, Download(q)
  PROVE  /\ \/ /\ object[req[q].at] # None
               /\ Turn(q, "verify", req[q].op, req[q].at, req[q].state,
                       req[q].received, req'[q].read)
               /\ \A i \in Part : req'[q].read[i] = IF i = req[q].at THEN object[i] ELSE req[q].read[i]
            \/ Fall(q)
         /\ Stands(q, "download") /\ req[q].at \in Part
         /\ UNCHANGED <<stored, receipt, object, lock, acked, launched, imported>>
<1>1. Failing(q) => Fall(q)
  BY Falls
<1>2. req[q].at \in Part
  <2>1. req[q] \in Noted /\ req[q].at < Parts
    BY DEF Filed, Download
  <2> QED BY <2>1, Fields, UploadAssumption DEF Part
<1>3. CASE Failing(q)
  BY <1>1, <1>2, <1>3 DEF Download
<1>4. CASE ~Failing(q)
  <2>1. req' = [req EXCEPT ![q] = [req[q] EXCEPT !.read = [@ EXCEPT ![req[q].at] = object[req[q].at]],
                                             !.pc = "verify"]]
    BY <1>4 DEF Filed, Noted, Download
  <2>2. req[q].read \in Contents
    BY Fields DEF Filed
  <2>3. \A i \in Part : req'[q].read[i] = IF i = req[q].at THEN object[i] ELSE req[q].read[i]
    BY <2>1, <2>2 DEF Filed, Noted, Contents
  <2>4. Turn(q, "verify", req[q].op, req[q].at, req[q].state, req[q].received, req'[q].read)
    BY <2>1 DEF Filed, Noted, Turn
  <2> QED BY <1>2, <1>4, <2>3, <2>4 DEF Download
<1> QED BY <1>3, <1>4

LEMMA Verifies ==
  ASSUME Filed, NEW q \in Request, Verify(q)
  PROVE  /\ \/ /\ Verified(q)
               /\ Turn(q, "download", req[q].op, req[q].at + 1, req[q].state,
                       req[q].received, req[q].read)
            \/ Fall(q)
         /\ Stands(q, "verify")
         /\ UNCHANGED <<stored, receipt, object, lock, acked, launched, imported>>
<1>1. Failing(q) => Fall(q)
  BY Falls
<1> QED BY <1>1 DEF Filed, Noted, Turn, Verify

LEMMA Answering ==
  ASSUME Filed, NEW q \in Request, Answer(q)
  PROVE  \/ /\ imported' = imported \cup {req[q].read} /\ req[q].at = Parts
            /\ Turn(q, "finish", req[q].op, req[q].at, "ready", req[q].received, req[q].read)
         \/ Fall(q) /\ imported' = imported
BY Falls DEF Filed, Noted, Turn, Answer

LEMMA Finishes ==
  ASSUME Filed, NEW q \in Request, Finish(q)
  PROVE  IF MaySave(q) THEN Turn(q, "clean", req[q].op, 0, req[q].state,
                                 req[q].received, req[q].read)
         ELSE Pass(q, "unlock")
<1>1. Proceed(q, "unlock") => Pass(q, "unlock")
  BY Passes, Labelled
<1> QED BY <1>1 DEF Filed, Noted, Turn, Finish

LEMMA Cleans ==
  ASSUME Filed, NEW q \in Request, Clean(q)
  PROVE  IF req[q].at < req[q].received
         THEN Turn(q, "clean", req[q].op, req[q].at + 1, req[q].state,
                   req[q].received, req[q].read)
         ELSE Pass(q, "unlock")
<1>1. Proceed(q, "unlock") => Pass(q, "unlock")
  BY Passes, Labelled
<1> QED BY <1>1 DEF Filed, Noted, Turn, Clean, Stands

LEMMA GuardedStep ==
  ASSUME Filed, Guarded, Carried, NEW q \in Request, Serve(q)
  PROVE  Guarded'
<1>1. CASE Load(q)
  BY <1>1, Loads DEF Guarded, Unmoved, Writing, Stands, Doing, Turn, Loaded
<1>2. CASE Schedule(q)
  BY <1>2, Works DEF Schedule, Guarded, Unmoved, Writing, Stands, Doing, Pass, Turn
<1>3. CASE Store(q)
  BY <1>3, Works DEF Store, Guarded, Unmoved, Writing, Stands, Doing, Carried, Pass, Turn
<1>4. CASE SavePart(q)
  BY <1>4, Works DEF SavePart, Guarded, Unmoved, Writing, Stands, Doing, Carried, Pass, Turn,
         MaySave
<1>5. CASE Save(q)
  BY <1>5, Works DEF Save, Guarded, Unmoved, Writing, Stands, Doing, Carried, Pass, Turn,
         MaySave
<1>6. CASE Unlock(q)
  BY <1>6, UploadAssumption, Unlocks DEF Guarded, Unmoved, Writing, Stands, Doing, Rest, Turn
<1>7. CASE Relock(q)
  BY <1>7, Works DEF Relock, Guarded, Unmoved, Writing, Stands, Doing, Pass, Turn
<1>8. CASE Reload(q)
  BY <1>8, Reloads DEF Guarded, Unmoved, Writing, Stands, Doing, Pass, Turn
<1>9. CASE Download(q)
  BY <1>9, Downloads DEF Guarded, Unmoved, Writing, Stands, Doing, Fall, Turn
<1>10. CASE Verify(q)
  BY <1>10, Verifies DEF Guarded, Unmoved, Writing, Stands, Doing, Fall, Turn, Verified
<1>11. CASE Answer(q)
  BY <1>11, Answering DEF Answer, Guarded, Unmoved, Writing, Stands, Doing, Fall, Turn
<1>12. CASE Finish(q)
  BY <1>12, Finishes DEF Finish, Guarded, Unmoved, Writing, Stands, Doing, Carried, Pass, Turn,
         MaySave
<1>13. CASE Clean(q)
  BY <1>13, Cleans DEF Clean, Guarded, Unmoved, Writing, Stands, Doing, Carried, Pass, Turn
<1> QED BY <1>1, <1>2, <1>3, <1>4, <1>5, <1>6, <1>7, <1>8, <1>9, <1>10, <1>11, <1>12, <1>13
        DEF Serve

LEMMA CarriedStep ==
  ASSUME Filed, Carried, NEW q \in Request, Serve(q)
  PROVE  Carried'
<1>1. CASE Load(q)
  BY <1>1, Loads DEF Carried, Writing, Stands, Doing, Turn, Loaded
<1>2. CASE Schedule(q)
  BY <1>2, Works DEF Schedule, Carried, Writing, Stands, Doing, Pass, Turn
<1>3. CASE Store(q)
  BY <1>3, Works DEF Store, Carried, Writing, Stands, Doing, Pass, Turn
<1>4. CASE SavePart(q)
  BY <1>4, Works DEF SavePart, Carried, Writing, Stands, Doing, Pass, Turn, MaySave
<1>5. CASE Save(q)
  BY <1>5, Works DEF Save, Carried, Writing, Stands, Doing, Pass, Turn, MaySave
<1>6. CASE Unlock(q)
  BY <1>6, UploadAssumption, Unlocks DEF Carried, Writing, Stands, Doing, Rest, Turn
<1>7. CASE Relock(q)
  BY <1>7, Works DEF Relock, Carried, Writing, Stands, Doing, Pass, Turn
<1>8. CASE Reload(q)
  BY <1>8, Reloads DEF Carried, Writing, Stands, Doing, Pass, Turn
<1>9. CASE Download(q)
  BY <1>9, Downloads DEF Carried, Writing, Stands, Doing, Fall, Turn
<1>10. CASE Verify(q)
  BY <1>10, Verifies DEF Carried, Writing, Stands, Doing, Fall, Turn, Verified
<1>11. CASE Answer(q)
  BY <1>11, Answering DEF Answer, Carried, Writing, Stands, Doing, Fall, Turn
<1>12. CASE Finish(q)
  BY <1>12, Finishes DEF Finish, Carried, Writing, Stands, Doing, Pass, Turn, MaySave
<1>13. CASE Clean(q)
  BY <1>13, Cleans DEF Clean, Carried, Writing, Stands, Doing, Pass, Turn
<1> QED BY <1>1, <1>2, <1>3, <1>4, <1>5, <1>6, <1>7, <1>8, <1>9, <1>10, <1>11, <1>12, <1>13
        DEF Serve

LEMMA StartedStep ==
  ASSUME Filed, Guarded, Carried, Started, NEW q \in Request, Serve(q)
  PROVE  Started'
<1>1. CASE Load(q)
  BY <1>1, Loads DEF Started, Starting, Stands, Turn, Loaded
<1>2. CASE Schedule(q)
  BY <1>2, Works DEF Schedule, Started, Starting, Stands, Pass, Turn
<1>3. CASE Store(q)
  BY <1>3, Works DEF Store, Started, Starting, Stands, Guarded, Unmoved, Writing, Carried, Doing,
         Pass, Turn
<1>4. CASE SavePart(q)
  BY <1>4, Works DEF SavePart, Started, Starting, Stands, Guarded, Unmoved, Writing, Carried,
         Doing, Pass, Turn, MaySave
<1>5. CASE Save(q)
  BY <1>5, Works DEF Save, Started, Starting, Stands, Guarded, Unmoved, Writing, Carried, Doing,
         Pass, Turn, MaySave
<1>6. CASE Unlock(q)
  BY <1>6, UploadAssumption, Unlocks DEF Started, Starting, Stands, Rest, Turn
<1>7. CASE Relock(q)
  BY <1>7, Works DEF Relock, Started, Starting, Stands, Pass, Turn
<1>8. CASE Reload(q)
  BY <1>8, Reloads DEF Started, Starting, Stands, Pass, Turn
<1>9. CASE Download(q)
  BY <1>9, Downloads DEF Started, Starting, Stands, Fall, Turn
<1>10. CASE Verify(q)
  BY <1>10, Verifies DEF Started, Starting, Stands, Fall, Turn, Verified
<1>11. CASE Answer(q)
  BY <1>11, Answering DEF Answer, Started, Starting, Stands, Fall, Turn
<1>12. CASE Finish(q)
  BY <1>12, Finishes DEF Finish, Started, Starting, Stands, Guarded, Unmoved, Writing, Carried,
         Doing, Pass, Turn, MaySave
<1>13. CASE Clean(q)
  BY <1>13, Cleans DEF Clean, Started, Starting, Stands, Guarded, Unmoved, Writing, Carried,
         Doing, Pass, Turn
<1> QED BY <1>1, <1>2, <1>3, <1>4, <1>5, <1>6, <1>7, <1>8, <1>9, <1>10, <1>11, <1>12, <1>13
        DEF Serve

LEMMA ImportingStep ==
  ASSUME Filed, Guarded, Started, Importing, Receipts, NEW q \in Request, Serve(q)
  PROVE  Importing'
<1>1. CASE Load(q)
  BY <1>1, Loads DEF Writing, Starting, Reading, Importing, Stands, Turn, Loaded
<1>2. CASE Schedule(q)
  BY <1>2, Works DEF Schedule, Writing, Starting, Reading, Importing, Stands, Pass, Turn
<1>3. CASE Store(q)
  BY <1>3, Works DEF Store, Writing, Starting, Reading, Importing, Stands, Guarded, Unmoved,
         Started, Receipts, Doing, Pass, Turn
<1>4. CASE SavePart(q)
  BY <1>4, Works DEF SavePart, Writing, Starting, Reading, Importing, Stands, Guarded, Unmoved,
         Started, Receipts, Doing, Pass, Turn, MaySave
<1>5. CASE Save(q)
  BY <1>5, Works DEF Save, Writing, Starting, Reading, Importing, Stands, Guarded, Unmoved,
         Started, Receipts, Doing, Pass, Turn, MaySave
<1>6. CASE Unlock(q)
  BY <1>6, UploadAssumption, Unlocks DEF Writing, Starting, Reading, Importing, Stands, Rest,
         Turn
<1>7. CASE Relock(q)
  BY <1>7, Works DEF Relock, Writing, Starting, Reading, Importing, Stands, Pass, Turn
<1>8. CASE Reload(q)
  <2>1. \A i \in Part : ~(i < 0)
    BY UploadAssumption DEF Part
  <2> QED BY <1>8, <2>1, Reloads DEF Starting, Reading, Writing, Started, Importing, Pass, Turn, Stands
<1>9. CASE Download(q)
  <2>1. CASE Fall(q)
    BY <1>9, <2>1, Downloads DEF Starting, Reading, Writing, Importing, Fall, Turn, Stands
  <2>2. CASE ~Fall(q)
    <3>1. req[q].at \in Nat /\ \A i \in Part : i < req[q].at => i # req[q].at
      BY <1>9, Downloads, UploadAssumption DEF Part
    <3>2. /\ \A i \in Part : req'[q].read[i] = IF i = req[q].at THEN object[i] ELSE req[q].read[i]
          /\ object[req[q].at] # None /\ req[q].at \in Part /\ Stands(q, "download")
          /\ launched' = launched /\ acked' = acked
          /\ req'[q].at = req[q].at /\ req'[q].pc = "verify" /\ \A p \in Request \ {q} : req'[p] = req[p]
      BY <1>9, <2>2, Downloads DEF Turn
    <3> QED BY <3>1, <3>2 DEF Importing, Reading, Writing, Starting, Stands
  <2> QED BY <2>1, <2>2
<1>10. CASE Verify(q)
  <2>1. req[q].at \in Part /\ Stands(q, "verify") /\ req[q].read[req[q].at] # None
    BY <1>10, Verifies DEF Importing
  <2>2. \A i \in Part : i < req[q].at + 1 => i < req[q].at \/ i = req[q].at
    BY <2>1, UploadAssumption DEF Part
  <2>3. Verified(q) => req[q].read[req[q].at] = acked[req[q].at]
    BY <2>1 DEF Verified, Receipts
  <2> QED BY <1>10, <2>1, <2>2, <2>3, Verifies
        DEF Starting, Reading, Writing, Started, Importing, Fall, Turn, Stands
<1>11. CASE Answer(q)
  BY <1>11, Answering DEF Answer, Writing, Starting, Reading, Importing, Stands, Fall, Turn
<1>12. CASE Finish(q)
  BY <1>12, Finishes DEF Finish, Writing, Starting, Reading, Importing, Stands, Guarded, Unmoved,
         Started, Receipts, Doing, Pass, Turn, MaySave
<1>13. CASE Clean(q)
  BY <1>13, Cleans DEF Clean, Writing, Starting, Reading, Importing, Stands, Guarded, Unmoved,
         Started, Receipts, Doing, Pass, Turn
<1> QED BY <1>1, <1>2, <1>3, <1>4, <1>5, <1>6, <1>7, <1>8, <1>9, <1>10, <1>11, <1>12, <1>13
        DEF Serve

LEMMA ReceiptsStep ==
  ASSUME Filed, Receipts, NEW q \in Request, Serve(q)
  PROVE  Receipts'
<1>1. CASE Load(q)
  BY <1>1 DEF Load, Receipts
<1>2. CASE Schedule(q)
  BY <1>2 DEF Schedule, Receipts
<1>3. CASE Store(q)
  BY <1>3 DEF Store, Receipts
<1>4. CASE SavePart(q)
  <2>1. \/ receipt' = receipt /\ acked' = acked
        \/ /\ receipt' = [receipt EXCEPT ![req[q].part] = req[q].bytes]
           /\ acked' = [acked EXCEPT ![req[q].part] = req[q].bytes]
    BY <1>4 DEF SavePart
  <2> QED BY <2>1 DEF Receipts, Filed, Contents
<1>5. CASE Save(q)
  BY <1>5 DEF Save, Receipts, MaySave
<1>6. CASE Unlock(q)
  BY <1>6 DEF Unlock, Receipts
<1>7. CASE Relock(q)
  BY <1>7 DEF Relock, Receipts
<1>8. CASE Reload(q)
  BY <1>8 DEF Reload, Receipts
<1>9. CASE Download(q)
  BY <1>9 DEF Download, Receipts
<1>10. CASE Verify(q)
  BY <1>10 DEF Verify, Receipts
<1>11. CASE Answer(q)
  BY <1>11 DEF Answer, Receipts
<1>12. CASE Finish(q)
  BY <1>12 DEF Finish, Receipts, MaySave
<1>13. CASE Clean(q)
  <2>1. acked' = acked /\ (receipt' = receipt \/ receipt' = [receipt EXCEPT ![req[q].at] = None])
    BY <1>13 DEF Clean
  <2> QED BY <2>1 DEF Receipts, Filed, Contents
<1> QED BY <1>1, <1>2, <1>3, <1>4, <1>5, <1>6, <1>7, <1>8, <1>9, <1>10, <1>11, <1>12, <1>13
        DEF Serve

LEMMA DoneStep ==
  ASSUME Filed, Guarded, Started, Importing, Done, NEW q \in Request, Serve(q)
  PROVE  Done'
<1>1. CASE Load(q)
  BY <1>1 DEF Load, Done
<1>2. CASE Schedule(q)
  BY <1>2 DEF Schedule, Done
<1>3. CASE Store(q)
  BY <1>3 DEF Store, Done, Guarded, Unmoved, Writing, Reading, Started, Importing, Stands, Doing
<1>4. CASE SavePart(q)
  BY <1>4 DEF SavePart, Done, Guarded, Unmoved, Writing, Reading, Started, Importing, Stands,
         Doing, MaySave
<1>5. CASE Save(q)
  BY <1>5 DEF Save, Done, Guarded, Unmoved, Writing, Reading, Started, Importing, Stands, Doing,
         MaySave
<1>6. CASE Unlock(q)
  BY <1>6 DEF Unlock, Done
<1>7. CASE Relock(q)
  BY <1>7 DEF Relock, Done
<1>8. CASE Reload(q)
  BY <1>8 DEF Reload, Done, Filed
<1>9. CASE Download(q)
  BY <1>9 DEF Download, Done
<1>10. CASE Verify(q)
  BY <1>10 DEF Verify, Done
<1>11. CASE Answer(q)
  <2>1. Stands(q, "download") /\ acked' = acked /\ launched' = launched
    BY <1>11 DEF Answer
  <2>2. req[q].at = Parts => req[q].read = acked
    <3>1. req[q].read \in Contents /\ acked \in Contents
      BY Fields DEF Filed
    <3>2. req[q].at = Parts => \A i \in Part : req[q].read[i] = acked[i]
      BY <2>1, UploadAssumption DEF Importing, Reading, Stands, Part
    <3> QED BY <3>1, <3>2 DEF Contents
  <2> QED BY <1>11, <2>1, <2>2, Answering DEF Done, Importing, Reading, Stands
<1>12. CASE Finish(q)
  BY <1>12 DEF Finish, Done, Guarded, Unmoved, Writing, Reading, Started, Importing, Stands,
         Doing, MaySave
<1>13. CASE Clean(q)
  BY <1>13 DEF Clean, Done, Guarded, Unmoved, Writing, Reading, Started, Importing, Stands,
         Doing
<1> QED BY <1>1, <1>2, <1>3, <1>4, <1>5, <1>6, <1>7, <1>8, <1>9, <1>10, <1>11, <1>12, <1>13
        DEF Serve

LEMMA CleaningStep ==
  ASSUME Filed, Guarded, Carried, Cleaning, NEW q \in Request, Serve(q)
  PROVE  Cleaning'
<1>1. CASE Load(q)
  BY <1>1, Loads DEF Cleaning, Settled, Stands, Turn, Loaded
<1>2. CASE Schedule(q)
  BY <1>2, Works DEF Schedule, Cleaning, Settled, Stands, Pass, Turn
<1>3. CASE Store(q)
  BY <1>3, Works DEF Store, Cleaning, Settled, Stands, Guarded, Unmoved, Writing, Carried, Doing,
         Pass, Turn
<1>4. CASE SavePart(q)
  BY <1>4, Works DEF SavePart, Cleaning, Settled, Stands, Guarded, Unmoved, Writing, Carried,
         Doing, Pass, Turn, MaySave
<1>5. CASE Save(q)
  BY <1>5, Works DEF Save, Cleaning, Settled, Stands, Guarded, Unmoved, Writing, Carried, Doing,
         Pass, Turn, MaySave
<1>6. CASE Unlock(q)
  BY <1>6, UploadAssumption, Unlocks DEF Cleaning, Settled, Stands, Rest, Turn
<1>7. CASE Relock(q)
  BY <1>7, Works DEF Relock, Cleaning, Settled, Stands, Pass, Turn
<1>8. CASE Reload(q)
  BY <1>8, Reloads DEF Cleaning, Settled, Stands, Pass, Turn
<1>9. CASE Download(q)
  BY <1>9, Downloads DEF Cleaning, Settled, Stands, Fall, Turn
<1>10. CASE Verify(q)
  BY <1>10, Verifies DEF Cleaning, Settled, Stands, Fall, Turn, Verified
<1>11. CASE Answer(q)
  BY <1>11, Answering DEF Answer, Cleaning, Settled, Stands, Fall, Turn
<1>12. CASE Finish(q)
  BY <1>12, Finishes DEF Finish, Cleaning, Settled, Stands, Guarded, Unmoved, Writing, Carried,
         Doing, Pass, Turn, MaySave
<1>13. CASE Clean(q)
  BY <1>13, Cleans DEF Clean, Cleaning, Settled, Stands, Guarded, Unmoved, Writing, Carried,
         Doing, Pass, Turn
<1> QED BY <1>1, <1>2, <1>3, <1>4, <1>5, <1>6, <1>7, <1>8, <1>9, <1>10, <1>11, <1>12, <1>13
        DEF Serve

LEMMA WrittenStep ==
  ASSUME Filed, Guarded, Carried, Cleaning, Written, NEW q \in Request, Serve(q)
  PROVE  Written'
<1>1. CASE Load(q)
  BY <1>1, Loads DEF Written, Settled, Stands, Doing, Turn, Loaded
<1>2. CASE Schedule(q)
  BY <1>2, Works DEF Schedule, Written, Settled, Stands, Doing, Pass, Turn
<1>3. CASE Store(q)
  <2>1. /\ Stands(q, "store") /\ Doing(q, "part") /\ req[q].bytes # None /\ req[q].part \in Part
        /\ stored' = stored
    BY <1>3, Fields, UploadAssumption DEF Store, Carried, Writing, Stands, Doing, Filed
  <2>2. CASE object' = [object EXCEPT ![req[q].part] = req[q].bytes]
    <3>1. object'[req[q].part] # None /\ \A i \in Part : object[i] # None => object'[i] # None
      BY <2>1, <2>2 DEF Filed, Contents
    <3>2. \A p \in Request : req[p].part \in Part
      BY Fields DEF Filed
    <3> QED BY <1>3, <2>1, <3>1, <3>2, Works DEF Written, Settled, Stands, Doing, Pass, Turn
  <2>3. CASE object' = object /\ Pass(q, "unlock")
    BY <2>1, <2>3 DEF Written, Settled, Stands, Doing, Pass, Turn
  <2> QED BY <1>3, <2>2, <2>3, Passes, Labelled DEF Store
<1>4. CASE SavePart(q)
  BY <1>4, Works DEF SavePart, Written, Settled, Stands, Doing, Guarded, Unmoved, Writing,
         Carried, Cleaning, Pass, Turn, MaySave
<1>5. CASE Save(q)
  BY <1>5, Works DEF Save, Written, Settled, Stands, Doing, Guarded, Unmoved, Writing, Carried,
         Cleaning, Pass, Turn, MaySave
<1>6. CASE Unlock(q)
  BY <1>6, UploadAssumption, Unlocks DEF Written, Settled, Stands, Doing, Rest, Turn
<1>7. CASE Relock(q)
  BY <1>7, Works DEF Relock, Written, Settled, Stands, Doing, Pass, Turn
<1>8. CASE Reload(q)
  BY <1>8, Reloads DEF Written, Settled, Stands, Doing, Pass, Turn
<1>9. CASE Download(q)
  BY <1>9, Downloads DEF Written, Settled, Stands, Doing, Fall, Turn
<1>10. CASE Verify(q)
  BY <1>10, Verifies DEF Written, Settled, Stands, Doing, Fall, Turn, Verified
<1>11. CASE Answer(q)
  BY <1>11, Answering DEF Answer, Written, Settled, Stands, Doing, Fall, Turn
<1>12. CASE Finish(q)
  BY <1>12, Finishes DEF Finish, Written, Settled, Stands, Doing, Guarded, Unmoved, Writing,
         Carried, Cleaning, Pass, Turn, MaySave
<1>13. CASE Clean(q)
  BY <1>13, Cleans DEF Clean, Written, Settled, Stands, Doing, Guarded, Unmoved, Writing,
         Carried, Cleaning, Pass, Turn
<1> QED BY <1>1, <1>2, <1>3, <1>4, <1>5, <1>6, <1>7, <1>8, <1>9, <1>10, <1>11, <1>12, <1>13
        DEF Serve

LEMMA KeptStep ==
  ASSUME Filed, Guarded, Carried, Cleaning, Written, AcknowledgedIsKept, NEW q \in Request, Serve(q)
  PROVE  AcknowledgedIsKept'
<1>1. CASE Load(q)
  BY <1>1 DEF Load, AcknowledgedIsKept
<1>2. CASE Schedule(q)
  BY <1>2 DEF Schedule, AcknowledgedIsKept
<1>3. CASE Store(q)
  <2>1. req[q].bytes # None /\ stored' = stored
    BY <1>3, UploadAssumption DEF Store, Carried, Writing, Stands, Doing
  <2>2. \A i \in Part : object[i] # None => object'[i] # None
    BY <1>3, <2>1 DEF Store, Filed, Contents
  <2> QED BY <2>1, <2>2 DEF AcknowledgedIsKept
<1>4. CASE SavePart(q)
  <2>1. Stands(q, "save") /\ Doing(q, "part") /\ object' = object
    BY <1>4 DEF SavePart
  <2>2. CASE MaySave(q)
    <3>1. stored' = [state |-> req[q].state, received |-> req[q].received + 1]
      BY <1>4, <2>2 DEF SavePart
    <3>2. /\ stored.state = "uploading" /\ req[q].received = stored.received
          /\ req[q].part = stored.received
      BY <2>1, <2>2 DEF Guarded, Unmoved, MaySave, Carried, Writing, Stands, Doing
    <3>3. object[req[q].part] # None
      BY <2>1, <3>2 DEF Written, Settled
    <3>4. \A i \in Part : i < req[q].received + 1 => i < stored.received \/ i = req[q].part
      BY <3>2, UploadAssumption, Fields DEF Filed, Part
    <3> QED BY <2>1, <3>1, <3>2, <3>3, <3>4 DEF AcknowledgedIsKept
  <2>3. CASE ~MaySave(q)
    BY <1>4, <2>3 DEF SavePart, AcknowledgedIsKept
  <2> QED BY <2>2, <2>3
<1>5. CASE Save(q)
  BY <1>5 DEF Save, AcknowledgedIsKept, Guarded, Unmoved, Writing, Carried, Cleaning, Written,
         Settled, Stands, Doing, MaySave
<1>6. CASE Unlock(q)
  BY <1>6 DEF Unlock, AcknowledgedIsKept
<1>7. CASE Relock(q)
  BY <1>7 DEF Relock, AcknowledgedIsKept
<1>8. CASE Reload(q)
  BY <1>8 DEF Reload, AcknowledgedIsKept
<1>9. CASE Download(q)
  BY <1>9 DEF Download, AcknowledgedIsKept
<1>10. CASE Verify(q)
  BY <1>10 DEF Verify, AcknowledgedIsKept
<1>11. CASE Answer(q)
  BY <1>11 DEF Answer, AcknowledgedIsKept
<1>12. CASE Finish(q)
  BY <1>12 DEF Finish, AcknowledgedIsKept, Guarded, Unmoved, Writing, Carried, Cleaning, Written,
         Settled, Stands, Doing, MaySave
<1>13. CASE Clean(q)
  BY <1>13 DEF Clean, AcknowledgedIsKept, Guarded, Unmoved, Writing, Carried, Cleaning, Written,
         Settled, Stands, Doing
<1> QED BY <1>1, <1>2, <1>3, <1>4, <1>5, <1>6, <1>7, <1>8, <1>9, <1>10, <1>11, <1>12, <1>13
        DEF Serve

LEMMA BoundedStep ==
  ASSUME Filed, Bounded, Carried, Importing, NEW q \in Request, Serve(q)
  PROVE  Bounded'
<1>1. CASE Load(q)
  <2>1. scheduled' = scheduled /\ mishaps' = mishaps
    BY <1>1 DEF Load
  <2> QED BY <1>1, <2>1, Loads DEF Bounded, Turn
<1>2. CASE Schedule(q)
  <2>1. req[q].part \in Part
    BY Fields DEF Filed
  <2> QED BY <1>2, <2>1, Works DEF Bounded, Schedule, Pass, Turn
<1>3. CASE Store(q)
  BY <1>3, Works DEF Store, Bounded, Pass, Turn
<1>4. CASE SavePart(q)
  <2>1. Stands(q, "save") /\ Doing(q, "part") /\ scheduled' = scheduled /\ mishaps' = mishaps
    BY <1>4 DEF SavePart
  <2>2. req[q].received \in Part
    BY <2>1, Fields DEF Filed, Carried, Writing, Stands, Doing
  <2>3. stored' = stored \/ stored'.received = req[q].received + 1
    BY <1>4 DEF SavePart
  <2>4. stored'.received <= Parts
    BY <2>2, <2>3, UploadAssumption DEF Bounded, Part
  <2> QED BY <1>4, <2>1, <2>4, Works DEF Bounded, Pass, Turn
<1>5. CASE Save(q)
  BY <1>5, Works DEF Save, Bounded, Pass, Turn, MaySave
<1>6. CASE Unlock(q)
  <2>1. scheduled' = scheduled /\ mishaps' = mishaps
    BY <1>6 DEF Unlock
  <2>2. req'[q].at <= Parts /\ req'[q].received <= Parts
    <3>1. req'[q] = Resting \/ (req'[q].at = req[q].at /\ req'[q].received = req[q].received)
      BY <1>6 DEF Unlock, Filed, Noted
    <3> QED BY <3>1, UploadAssumption DEF Bounded, Resting
  <2> QED BY <1>6, <2>1, <2>2, Unlocks DEF Bounded, Rest, Turn
<1>7. CASE Relock(q)
  BY <1>7, Works DEF Relock, Bounded, Pass, Turn
<1>8. CASE Reload(q)
  <2>1. scheduled' = scheduled /\ mishaps' = mishaps
    BY <1>8 DEF Reload
  <2> QED BY <1>8, <2>1, Reloads DEF Bounded, Pass, Turn
<1>9. CASE Download(q)
  <2>1. scheduled' = scheduled /\ mishaps' = mishaps
    BY <1>9 DEF Download
  <2> QED BY <1>9, <2>1, Downloads DEF Bounded, Fall, Turn
<1>10. CASE Verify(q)
  <2>1. scheduled' = scheduled /\ mishaps' = mishaps /\ req[q].at \in Part
    BY <1>10 DEF Verify, Importing
  <2>2. req[q].at + 1 <= Parts
    BY <2>1, UploadAssumption DEF Part
  <2> QED BY <1>10, <2>1, <2>2, Verifies DEF Bounded, Fall, Turn
<1>11. CASE Answer(q)
  BY <1>11, Answering DEF Answer, Bounded, Fall, Turn
<1>12. CASE Finish(q)
  BY <1>12, UploadAssumption, Finishes DEF Finish, Bounded, Pass, Turn, MaySave
<1>13. CASE Clean(q)
  <2>1. scheduled' = scheduled /\ mishaps' = mishaps /\ stored' = stored
    BY <1>13 DEF Clean
  <2>2. req[q].at < req[q].received => req[q].at + 1 <= Parts
    BY Fields, UploadAssumption DEF Bounded, Filed
  <2> QED BY <1>13, <2>1, <2>2, Cleans DEF Bounded, Pass, Turn
<1> QED BY <1>1, <1>2, <1>3, <1>4, <1>5, <1>6, <1>7, <1>8, <1>9, <1>10, <1>11, <1>12, <1>13
        DEF Serve

-----------------------------------------------------------------------------
LEMMA Served == ASSUME UploadInv, NEW q \in Request, Serve(q) PROVE UploadInv'
BY FiledStep, GuardedStep, CarriedStep, StartedStep, ImportingStep, ReceiptsStep, DoneStep,
   CleaningStep, WrittenStep, KeptStep, BoundedStep, UploadAssumption DEF UploadInv

\* A request begins, or its process dies: it is neither writing, starting nor importing.
LEMMA Replaced ==
  ASSUME UploadInv, NEW q \in Request, NEW n \in Noted, n.at = 0, n.received = 0,
         n.pc = "rest" \/ (n.pc = "load" /\ (n.op = "part" => n.bytes \in Bytes)),
         req' = [req EXCEPT ![q] = n], mishaps' \in Nat, lock' = lock \/ (lock' = q /\ lock = None),
         UNCHANGED <<stored, receipt, object, scheduled, acked, launched, imported>>
  PROVE  UploadInv'
<1>1. \A p \in Request \ {q} : req'[p] = req[p]
  BY DEF UploadInv, Filed
<1>2. req'[q] = n
  BY DEF UploadInv, Filed
<1> USE <1>1, <1>2, UploadAssumption DEF UploadInv, Stands, Doing
<1>3. Filed'
  BY DEF Filed
<1>4. Guarded'
  BY DEF Guarded, Unmoved, Writing
<1>5. Carried'
  BY DEF Carried, Writing
<1>6. Started'
  BY DEF Started, Starting
<1>7. Importing'
  BY DEF Importing, Reading, Writing, Starting
<1>8. Receipts' /\ Done' /\ AcknowledgedIsKept'
  BY DEF Receipts, Done, AcknowledgedIsKept
<1>9. Cleaning'
  BY DEF Cleaning, Settled
<1>10. Written'
  BY DEF Written, Settled
<1>11. Bounded'
  BY DEF Bounded
<1> QED BY <1>3, <1>4, <1>5, <1>6, <1>7, <1>8, <1>9, <1>10, <1>11

LEMMA AskStep == ASSUME UploadInv, Ask PROVE UploadInv'
<1>1. ASSUME NEW q \in Request, NEW o \in {"part", "complete", "cancel"}, NEW i \in Part, NEW b \in Sent,
             Lock(q, o, i, b), o = "part" => b \in Bytes
      PROVE  UploadInv'
  <2> DEFINE n == [Resting EXCEPT !.pc = "load", !.op = o, !.part = i, !.bytes = b]
  <2>1. n \in Noted /\ n.at = 0 /\ n.received = 0 /\ n.pc = "load" /\ n.op = o /\ n.bytes = b
    BY Labelled DEF Resting, Noted
  <2> HIDE DEF n
  <2>2. req' = [req EXCEPT ![q] = n]
    BY <1>1 DEF Lock, n
  <2> QED BY <1>1, <2>1, <2>2, Replaced DEF Lock, UploadInv, Bounded
<1> QED BY <1>1, Labelled DEF Ask, Sent

LEMMA DieStep == ASSUME UploadInv, NEW q \in Request, Die(q) PROVE UploadInv'
<1>1. Resting \in Noted /\ Resting.at = 0 /\ Resting.received = 0 /\ Resting.pc = "rest"
  BY Labelled DEF Resting, Noted, Sent
<1>2. mishaps' \in Nat
  BY DEF Die, Mishap, UploadInv, Bounded
<1> HIDE DEF Resting
<1> QED BY <1>1, <1>2, Replaced DEF Die

LEMMA LockExpiresStep == ASSUME UploadInv, LockExpires PROVE UploadInv'
<1>1. lock' = None /\ mishaps' \in Nat
  BY DEF LockExpires, Mishap, UploadInv, Bounded
<1>2. UNCHANGED <<stored, receipt, object, scheduled, req, acked, launched, imported>>
  BY DEF LockExpires
<1>3. Guarded'
  BY <1>1, UploadAssumption DEF Guarded
<1> QED BY <1>1, <1>2, <1>3
        DEF UploadInv, Filed, Bounded, Carried, Started, Importing, Receipts, Done, Cleaning, Written,
            AcknowledgedIsKept, Settled, Stands, Doing

LEMMA ForgetStep == ASSUME UploadInv, Forget PROVE UploadInv'
<1>1. /\ stored'.state = "expired" /\ stored'.received = stored.received
      /\ stored' \in [state : Known, received : Nat]
  BY Labelled DEF Forget, UploadInv, Filed
<1>2. receipt' = Blank /\ mishaps' \in Nat
  BY DEF Forget, Mishap, UploadInv, Bounded
<1>3. UNCHANGED <<object, scheduled, lock, req, acked, launched, imported>>
  BY DEF Forget
<1>4. Receipts'
  BY <1>2 DEF Receipts, Blank
<1>5. Filed'
  BY <1>1, <1>2, <1>3, Labelled DEF UploadInv, Filed
<1>6. Guarded' /\ Started' /\ Cleaning' /\ Written' /\ AcknowledgedIsKept'
  BY <1>1, <1>3 DEF UploadInv, Guarded, Started, Cleaning, Written, AcknowledgedIsKept, Settled
<1> QED BY <1>1, <1>2, <1>3, <1>4, <1>5, <1>6
        DEF UploadInv, Bounded, Carried, Importing, Done, Stands, Doing

LEMMA UploadStarts == UploadInit => UploadInv
<1> SUFFICES ASSUME UploadInit PROVE UploadInv
  OBVIOUS
<1>1. Resting \in Noted
  BY Labelled DEF Resting, Noted, Sent
<1>2. \A q \in Request : req[q] = Resting
  BY DEF UploadInit
<1>3. Filed
  BY <1>1, Labelled, UploadAssumption DEF UploadInit, Filed
<1>4. Bounded
  BY <1>2, UploadAssumption DEF UploadInit, Bounded, Resting
<1>5. Receipts /\ Done
  BY DEF UploadInit, Receipts, Done, Blank
<1>6. AcknowledgedIsKept
  BY UploadAssumption DEF UploadInit, AcknowledgedIsKept, Part
<1> QED BY <1>2, <1>3, <1>4, <1>5, <1>6
        DEF UploadInit, UploadInv, Guarded, Carried, Started, Importing, Cleaning, Written, Resting,
            Writing, Starting, Reading, Stands

LEMMA UploadStep == UploadInv /\ [UploadNext]_uploadVars => UploadInv'
<1> SUFFICES ASSUME UploadInv, [UploadNext]_uploadVars PROVE UploadInv'
  OBVIOUS
<1>1. CASE UNCHANGED uploadVars
  BY <1>1 DEF uploadVars, UploadInv, Filed, Bounded, Guarded, Unmoved, Carried, Started, Importing, Receipts,
        Done, Cleaning, Written, AcknowledgedIsKept, Settled, Stands, Doing
<1> QED BY <1>1, AskStep, LockExpiresStep, ForgetStep, Served, DieStep DEF UploadNext

LEMMA UploadAlways == UploadSpec => []UploadInv
BY UploadStarts, UploadStep, PTL DEF UploadSpec

\* multipart_restore.ts: every variable keeps its type, and no part beyond the last is
\* counted, read or cleaned up.
THEOREM UploadTypes == UploadSpec => []UploadTypeOK
<1>1. UploadInv => UploadTypeOK
  <2> SUFFICES ASSUME UploadInv PROVE UploadTypeOK
    OBVIOUS
  <2>1. stored \in [state : Known, received : 0 .. Parts]
    BY UploadAssumption DEF UploadInv, Filed, Bounded
  <2>2. req \in [Request -> [pc : Stages, op : {"part", "complete", "cancel", "execute"},
                             part : Part, bytes : Sent, at : 0 .. Parts, state : Known,
                             received : 0 .. Parts, read : Contents]]
    BY UploadAssumption DEF UploadInv, Filed, Bounded, Noted
  <2>3. imported \subseteq Contents
    BY DEF UploadInv, Filed, Done
  <2> QED BY <2>1, <2>2, <2>3 DEF UploadInv, Filed, Bounded, UploadTypeOK, Known, Sent
<1> QED BY <1>1, UploadAlways, PTL

\* "never reimport automatically": whatever the number of requests and parts, and
\* whenever a lock is lost, one upload starts its import at most once.
THEOREM OneImport == UploadSpec => []LaunchedOnce
<1>1. UploadInv => LaunchedOnce
  BY DEF UploadInv, Started, LaunchedOnce
<1> QED BY <1>1, UploadAlways, PTL

\* A successful import has read in every part the bytes whose receipt the client has.
THEOREM ImportedAsSent == UploadSpec => []ImportedAsAcknowledged
<1>1. UploadInv => ImportedAsAcknowledged
  BY DEF UploadInv, Done, ImportedAsAcknowledged
<1> QED BY <1>1, UploadAlways, PTL

\* Until the upload is settled the object of every acknowledged part is there.
THEOREM PartsAreKept == UploadSpec => []AcknowledgedIsKept
<1>1. UploadInv => AcknowledgedIsKept
  BY DEF UploadInv
<1> QED BY <1>1, UploadAlways, PTL

-----------------------------------------------------------------------------
(* The import. What an import may rely on depends on how far it has come and *)
(* on whether it still has the lease; once lost, it never comes back to it.  *)

Early == {"idle", "check", "scan", "stage", "persist", "import"}
Over == {"release", "done", "dead"}
Nowhere(r) == \A p \in Page : target[p] # r

\* The pages an import has counted are those it has written, as long as it is sure.
Counts(r) ==
  /\ job[r].pc \in Early => Nowhere(r)
  /\ job[r].pc \in Early \cup {"promote", "final"} =>
       job[r].undone = 0 /\ job[r].sure /\ ~job[r].final
  /\ job[r].pc \in Early => job[r].done = 0
  /\ job[r].pc \in {"persist", "promote", "final", "undo"} => r \notin OneShot
  /\ job[r].pc = "final" => job[r].done = Pages
  /\ job[r].pc \in {"promote", "final"} =>
       journal[r] = "durable" /\ \A p \in Page : target[p] = r => p <= job[r].done
  /\ job[r].pc = "undo" /\ job[r].sure /\ ~job[r].final =>
       \A p \in Page : target[p] = r => job[r].undone < p /\ p <= job[r].done
  /\ told[r] = "failed" => job[r].pc \in Over /\ Nowhere(r)

\* Under its lease nobody else has written since it has scanned the keys.
Owns(r) ==
  lease = r =>
    /\ job[r].pc \in {"stage", "persist", "promote", "final", "import", "undo"} =>
         \A p \in Page : target[p] \in {NoOne, r}
    /\ config = NoOne /\ r \notin overlapped /\ job[r].pc \in {"promote", "final"} =>
         \A p \in Page : p <= job[r].done => target[p] = r

\* Unless a logout job ran beside it, its records have a configuration or a
\* journal, and its configuration has all of them.
Traces(r) ==
  r \notin overlapped =>
    /\ Running(r) => logout = "idle"
    /\ job[r].pc = "undo" /\ job[r].final => config = r
    /\ config # r /\ ~Nowhere(r) => journal[r] = "durable"
    /\ logout = "config" => Nowhere(r)
    /\ config = r /\ logout # "config" => \A p \in Page : target[p] \in {r, Live}

Local(r) == Counts(r) /\ Owns(r) /\ Traces(r)

Jobs == [pc : Labels, done : 0 .. Pages, undone : 0 .. Pages, sure : BOOLEAN, final : BOOLEAN]
Answers == {"nothing", "restored", "failed", "pending", "broken"}
Lists == {"none", "expiring", "durable"}

Inv == TypeOK /\ \A r \in Restore : Local(r)

USE RestoreAssumption

-----------------------------------------------------------------------------
\* What the others do to the keys: an import only loses the lease, and while it
\* has it, or its configuration is there, only the worker writes.
Frame(e) ==
  /\ logout' = logout /\ overlapped \subseteq overlapped'
  /\ lease' = e => lease = e
  /\ config' = config \/ (config = NoOne /\ config' \notin {NoOne, e})
  /\ \A p \in Page : \/ target'[p] = target[p]
                     \/ lease # e /\ target'[p] # e /\ (config = NoOne \/ target'[p] = Live)

LEMMA Framed ==
  ASSUME NEW e \in Restore, Local(e), Frame(e), job'[e] = job[e], told'[e] = told[e],
         journal'[e] = journal[e]
  PROVE  Local(e)'
<1>1. Counts(e)'
  BY DEF Local, Counts, Frame, Nowhere
<1>2. Owns(e)'
  BY DEF Local, Owns, Frame
<1>3. Traces(e)'
  <2>1. e \notin overlapped' => e \notin overlapped
    BY DEF Frame
  <2>2. Nowhere(e) => Nowhere(e)'
    BY DEF Frame, Nowhere
  <2>3. Running(e)' <=> Running(e)
    BY DEF Running
  <2>4. config' = e <=> config = e
    BY DEF Frame
  <2>5. config = e => \A p \in Page : target'[p] \in {target[p], Live}
    BY DEF Frame
  <2> QED BY <2>1, <2>2, <2>3, <2>4, <2>5 DEF Local, Traces, Frame
<1> QED BY <1>1, <1>2, <1>3 DEF Local

\* A step of one import.
Only(r) ==
  /\ job' \in [Restore -> Jobs] /\ told' \in [Restore -> Answers] /\ journal' \in [Restore -> Lists]
  /\ \A e \in Restore \ {r} : job'[e] = job[e] /\ told'[e] = told[e] /\ journal'[e] = journal[e]

LEMMA ByImport ==
  ASSUME Inv, NEW r \in Restore, Only(r),
         lease' \in Restore \cup {NoOne, Live}, config' \in Restore \cup {NoOne, Manual},
         draft' \in BOOLEAN, target' \in [Page -> Restore \cup {NoOne, Live}],
         logout' \in {"idle", "config", "lease"}, overlapped' \subseteq Restore, budget' \in Nat,
         \A e \in Restore \ {r} : Frame(e),
         Local(r)'
  PROVE  Inv'
<1>1. TypeOK'
  BY DEF Inv, TypeOK, Only, Jobs, Answers, Lists
<1>2. ASSUME NEW e \in Restore \ {r} PROVE Local(e)'
  BY Framed DEF Inv, Only
<1> QED BY <1>1, <1>2 DEF Inv

\* A step of nobody in particular.
LEMMA ByOthers ==
  ASSUME Inv, UNCHANGED <<job, told, journal>>,
         lease' \in Restore \cup {NoOne, Live}, config' \in Restore \cup {NoOne, Manual},
         draft' \in BOOLEAN, target' \in [Page -> Restore \cup {NoOne, Live}],
         logout' \in {"idle", "config", "lease"}, overlapped' \subseteq Restore, budget' \in Nat,
         \A e \in Restore : Frame(e)
  PROVE  Inv'
<1>1. TypeOK'
  BY DEF Inv, TypeOK
<1>2. ASSUME NEW e \in Restore PROVE Local(e)'
  BY Framed DEF Inv
<1> QED BY <1>1, <1>2 DEF Inv

-----------------------------------------------------------------------------
(* The steps of an import that leave the keys alone *)

Keys == <<lease, config, draft, target, logout, overlapped>>

LEMMA Moves ==
  ASSUME Inv, NEW r \in Restore, Only(r), UNCHANGED Keys, budget' \in Nat, Local(r)'
  PROVE  Inv'
<1>1. \A e \in Restore \ {r} : Frame(e)
  BY DEF Frame, Keys
<1> QED BY <1>1, ByImport DEF Inv, TypeOK, Keys

LEMMA Going ==
  ASSUME Inv, NEW r \in Restore, NEW x \in Labels, Goto(r, x)
  PROVE  /\ job' \in [Restore -> Jobs] /\ \A e \in Restore \ {r} : job'[e] = job[e]
         /\ job'[r].pc = x /\ job'[r].done = job[r].done /\ job'[r].undone = job[r].undone
         /\ job'[r].sure = job[r].sure /\ job'[r].final = job[r].final
BY DEF Goto, Inv, TypeOK, Jobs

LEMMA Telling ==
  ASSUME Inv, NEW r \in Restore, NEW a \in Answers, Tell(r, a)
  PROVE  /\ told' \in [Restore -> Answers] /\ \A e \in Restore \ {r} : told'[e] = told[e]
         /\ told'[r] = a
BY DEF Tell, Inv, TypeOK, Answers

LEMMA Listing ==
  ASSUME Inv, NEW r \in Restore, NEW l \in Lists, journal' = [journal EXCEPT ![r] = l]
  PROVE  /\ journal' \in [Restore -> Lists] /\ \A e \in Restore \ {r} : journal'[e] = journal[e]
         /\ journal'[r] = l
BY DEF Inv, TypeOK, Lists

\* An import that goes to another step: told and journal as given, or as they were.
Gone(r, x) == /\ job'[r].pc = x /\ job'[r].done = job[r].done /\ job'[r].undone = job[r].undone
              /\ job'[r].sure = job[r].sure /\ job'[r].final = job[r].final

LEMMA Goes ==
  ASSUME Inv, NEW r \in Restore, NEW x \in Labels, Goto(r, x),
         UNCHANGED told \/ (\E a \in Answers : Tell(r, a)),
         UNCHANGED journal \/ (\E l \in Lists : journal' = [journal EXCEPT ![r] = l])
  PROVE  /\ Only(r) /\ Gone(r, x)
         /\ UNCHANGED told => told'[r] = told[r]
         /\ \A a \in Answers : Tell(r, a) => told'[r] = a
         /\ UNCHANGED journal => journal'[r] = journal[r]
         /\ \A l \in Lists : journal' = [journal EXCEPT ![r] = l] => journal'[r] = l
<1>1. Gone(r, x) /\ job' \in [Restore -> Jobs] /\ \A e \in Restore \ {r} : job'[e] = job[e]
  BY Going DEF Gone
<1>2. told' \in [Restore -> Answers] /\ \A e \in Restore \ {r} : told'[e] = told[e]
  <2>1. CASE UNCHANGED told
    BY <2>1 DEF Inv, TypeOK, Answers
  <2>2. CASE \E a \in Answers : Tell(r, a)
    BY <2>2, Telling
  <2> QED BY <2>1, <2>2
<1>3. journal' \in [Restore -> Lists] /\ \A e \in Restore \ {r} : journal'[e] = journal[e]
  <2>1. CASE UNCHANGED journal
    BY <2>1 DEF Inv, TypeOK, Lists
  <2>2. CASE \E l \in Lists : journal' = [journal EXCEPT ![r] = l]
    BY <2>2, Listing
  <2> QED BY <2>1, <2>2
<1> QED BY <1>1, <1>2, <1>3, Telling, Listing DEF Only

LEMMA CheckStep == ASSUME Inv, NEW r \in Restore, Check(r) PROVE Inv'
<1>1. Local(r) /\ job[r].pc = "check" /\ budget' \in Nat /\ UNCHANGED Keys /\ job[r] \in Jobs
  BY DEF Inv, TypeOK, Check, At, Keys, Disturb, Jobs
<1>2. /\ {"undo", "release", "scan", "stage", "import", "persist", "promote", "final", "dead"} \subseteq Labels
      /\ Answers = {"nothing", "restored", "failed", "pending", "broken"}
      /\ Lists = {"none", "expiring", "durable"}
  BY DEF Labels, Answers, Lists
<1>3. CASE config # NoOne \/ draft
  <2>1. Goto(r, "release") /\ Tell(r, "failed") /\ UNCHANGED journal
    BY <1>1, <1>3 DEF Check, Goto
  <2>2. Only(r) /\ Gone(r, "release")
    BY <1>2, <2>1, Goes
  <2>3. told'[r] = "failed" /\ journal'[r] = journal[r]
    BY <1>2, <2>1, Goes
  <2>4. Counts(r)'
    BY <1>1, <1>3, <2>2, <2>3 DEF Local, Gone, Keys, Counts, At, Early, Over, Nowhere, Page, Jobs
  <2>5. Owns(r)'
    BY <1>1, <1>3, <2>2, <2>3 DEF Local, Gone, Keys, Counts, Early, Owns, Page, Jobs
  <2>6. Traces(r)'
    BY <1>1, <1>3, <2>2, <2>3 DEF Local, Gone, Keys, Counts, Traces, Early, Over, Nowhere,
       Running, Page, Jobs
  <2> QED BY <1>1, <2>2, <2>4, <2>5, <2>6, Moves DEF Local
<1>4. CASE ~(config # NoOne \/ draft)
  <2>1. Goto(r, "scan") /\ UNCHANGED told /\ UNCHANGED journal
    BY <1>1, <1>4 DEF Check, Goto
  <2>2. Only(r) /\ Gone(r, "scan")
    BY <1>2, <2>1, Goes
  <2>3. told'[r] = told[r] /\ journal'[r] = journal[r]
    BY <1>2, <2>1, Goes
  <2>4. Counts(r)'
    BY <1>1, <1>4, <2>2, <2>3 DEF Local, Gone, Keys, Counts, At, Early, Over, Nowhere, Page, Jobs
  <2>5. Owns(r)'
    BY <1>1, <1>4, <2>2, <2>3 DEF Local, Gone, Keys, Counts, Early, Owns, Page, Jobs
  <2>6. Traces(r)'
    BY <1>1, <1>4, <2>2, <2>3 DEF Local, Gone, Keys, Counts, Traces, Early, Over, Nowhere,
       Running, Page, Jobs
  <2> QED BY <1>1, <2>2, <2>4, <2>5, <2>6, Moves DEF Local
<1> QED BY <1>1, <1>3, <1>4

LEMMA ScanStep == ASSUME Inv, NEW r \in Restore, Scan(r) PROVE Inv'
<1>1. Local(r) /\ job[r].pc = "scan" /\ budget' \in Nat /\ UNCHANGED Keys /\ job[r] \in Jobs
  BY DEF Inv, TypeOK, Scan, At, Keys, Disturb, Jobs
<1>2. /\ {"undo", "release", "scan", "stage", "import", "persist", "promote", "final", "dead"} \subseteq Labels
      /\ Answers = {"nothing", "restored", "failed", "pending", "broken"}
      /\ Lists = {"none", "expiring", "durable"}
  BY DEF Labels, Answers, Lists
<1>3. CASE \E p \in Page : target[p] # NoOne
  <2>1. Goto(r, "release") /\ Tell(r, "failed") /\ UNCHANGED journal
    BY <1>1, <1>3 DEF Scan, Goto
  <2>2. Only(r) /\ Gone(r, "release")
    BY <1>2, <2>1, Goes
  <2>3. told'[r] = "failed" /\ journal'[r] = journal[r]
    BY <1>2, <2>1, Goes
  <2>4. Counts(r)'
    BY <1>1, <1>3, <2>2, <2>3 DEF Local, Gone, Keys, Counts, At, Early, Over, Nowhere, Page, Jobs
  <2>5. Owns(r)'
    BY <1>1, <1>3, <2>2, <2>3 DEF Local, Gone, Keys, Counts, Early, Owns, Page, Jobs
  <2>6. Traces(r)'
    BY <1>1, <1>3, <2>2, <2>3 DEF Local, Gone, Keys, Counts, Traces, Early, Over, Nowhere,
       Running, Page, Jobs
  <2> QED BY <1>1, <2>2, <2>4, <2>5, <2>6, Moves DEF Local
<1>4. CASE ~(\E p \in Page : target[p] # NoOne)
  <2>1. Goto(r, "stage") /\ UNCHANGED told /\ UNCHANGED journal
    BY <1>1, <1>4 DEF Scan, Goto
  <2>2. Only(r) /\ Gone(r, "stage")
    BY <1>2, <2>1, Goes
  <2>3. told'[r] = told[r] /\ journal'[r] = journal[r]
    BY <1>2, <2>1, Goes
  <2>4. Counts(r)'
    BY <1>1, <1>4, <2>2, <2>3 DEF Local, Gone, Keys, Counts, At, Early, Over, Nowhere, Page, Jobs
  <2>5. Owns(r)'
    BY <1>1, <1>4, <2>2, <2>3 DEF Local, Gone, Keys, Counts, Early, Owns, Page, Jobs
  <2>6. Traces(r)'
    BY <1>1, <1>4, <2>2, <2>3 DEF Local, Gone, Keys, Counts, Traces, Early, Over, Nowhere,
       Running, Page, Jobs
  <2> QED BY <1>1, <2>2, <2>4, <2>5, <2>6, Moves DEF Local
<1> QED BY <1>1, <1>3, <1>4

LEMMA StageStep == ASSUME Inv, NEW r \in Restore, Stage(r) PROVE Inv'
<1>1. Local(r) /\ job[r].pc = "stage" /\ budget' \in Nat /\ UNCHANGED Keys /\ job[r] \in Jobs
  BY DEF Inv, TypeOK, Stage, At, Keys, Disturb, Jobs
<1>2. /\ {"undo", "release", "scan", "stage", "import", "persist", "promote", "final", "dead"} \subseteq Labels
      /\ Answers = {"nothing", "restored", "failed", "pending", "broken"}
      /\ Lists = {"none", "expiring", "durable"}
  BY DEF Labels, Answers, Lists
<1>3. CASE r \in OneShot
  <2>1. Goto(r, "import") /\ UNCHANGED told /\ journal' = [journal EXCEPT ![r] = "none"]
    BY <1>1, <1>3 DEF Stage, Goto
  <2>2. Only(r) /\ Gone(r, "import")
    BY <1>2, <2>1, Goes
  <2>3. told'[r] = told[r] /\ journal'[r] = "none"
    BY <1>2, <2>1, Goes
  <2>4. Counts(r)'
    BY <1>1, <1>3, <2>2, <2>3 DEF Local, Gone, Keys, Counts, At, Early, Over, Nowhere, Page, Jobs
  <2>5. Owns(r)'
    BY <1>1, <1>3, <2>2, <2>3 DEF Local, Gone, Keys, Counts, Early, Owns, Page, Jobs
  <2>6. Traces(r)'
    BY <1>1, <1>3, <2>2, <2>3 DEF Local, Gone, Keys, Counts, Traces, Early, Over, Nowhere,
       Running, Page, Jobs
  <2> QED BY <1>1, <2>2, <2>4, <2>5, <2>6, Moves DEF Local
<1>4. CASE r \notin OneShot
  <2>1. Goto(r, "persist") /\ UNCHANGED told /\ journal' = [journal EXCEPT ![r] = "expiring"]
    BY <1>1, <1>4 DEF Stage, Goto
  <2>2. Only(r) /\ Gone(r, "persist")
    BY <1>2, <2>1, Goes
  <2>3. told'[r] = told[r] /\ journal'[r] = "expiring"
    BY <1>2, <2>1, Goes
  <2>4. Counts(r)'
    BY <1>1, <1>4, <2>2, <2>3 DEF Local, Gone, Keys, Counts, At, Early, Over, Nowhere, Page, Jobs
  <2>5. Owns(r)'
    BY <1>1, <1>4, <2>2, <2>3 DEF Local, Gone, Keys, Counts, Early, Owns, Page, Jobs
  <2>6. Traces(r)'
    BY <1>1, <1>4, <2>2, <2>3 DEF Local, Gone, Keys, Counts, Traces, Early, Over, Nowhere,
       Running, Page, Jobs
  <2> QED BY <1>1, <2>2, <2>4, <2>5, <2>6, Moves DEF Local
<1> QED BY <1>1, <1>3, <1>4

LEMMA StageFailsStep == ASSUME Inv, NEW r \in Restore, StageFails(r) PROVE Inv'
<1>1. Local(r) /\ job[r].pc = "stage" /\ budget' \in Nat /\ UNCHANGED Keys /\ job[r] \in Jobs
  BY DEF Inv, TypeOK, StageFails, At, Keys, Disturb, Jobs
<1>2. /\ {"undo", "release", "scan", "stage", "import", "persist", "promote", "final", "dead"} \subseteq Labels
      /\ Answers = {"nothing", "restored", "failed", "pending", "broken"}
      /\ Lists = {"none", "expiring", "durable"}
  BY DEF Labels, Answers, Lists
<1>3. CASE r \in OneShot
  <2>1. Goto(r, "release") /\ Tell(r, "failed") /\ journal' = [journal EXCEPT ![r] = "none"]
    BY <1>1, <1>3 DEF StageFails, Goto
  <2>2. Only(r) /\ Gone(r, "release")
    BY <1>2, <2>1, Goes
  <2>3. told'[r] = "failed" /\ journal'[r] = "none"
    BY <1>2, <2>1, Goes
  <2>4. Counts(r)'
    BY <1>1, <1>3, <2>2, <2>3 DEF Local, Gone, Keys, Counts, At, Early, Over, Nowhere, Page, Jobs
  <2>5. Owns(r)'
    BY <1>1, <1>3, <2>2, <2>3 DEF Local, Gone, Keys, Counts, Early, Owns, Page, Jobs
  <2>6. Traces(r)'
    BY <1>1, <1>3, <2>2, <2>3 DEF Local, Gone, Keys, Counts, Traces, Early, Over, Nowhere,
       Running, Page, Jobs
  <2> QED BY <1>1, <2>2, <2>4, <2>5, <2>6, Moves DEF Local
<1>4. CASE r \notin OneShot
  <2>1. Goto(r, "undo") /\ UNCHANGED told /\ journal' = [journal EXCEPT ![r] = "expiring"]
    BY <1>1, <1>4 DEF StageFails, Goto
  <2>2. Only(r) /\ Gone(r, "undo")
    BY <1>2, <2>1, Goes
  <2>3. told'[r] = told[r] /\ journal'[r] = "expiring"
    BY <1>2, <2>1, Goes
  <2>4. Counts(r)'
    BY <1>1, <1>4, <2>2, <2>3 DEF Local, Gone, Keys, Counts, At, Early, Over, Nowhere, Page, Jobs
  <2>5. Owns(r)'
    BY <1>1, <1>4, <2>2, <2>3 DEF Local, Gone, Keys, Counts, Early, Owns, Page, Jobs
  <2>6. Traces(r)'
    BY <1>1, <1>4, <2>2, <2>3 DEF Local, Gone, Keys, Counts, Traces, Early, Over, Nowhere,
       Running, Page, Jobs
  <2> QED BY <1>1, <2>2, <2>4, <2>5, <2>6, Moves DEF Local
<1> QED BY <1>1, <1>3, <1>4

LEMMA PersistStep == ASSUME Inv, NEW r \in Restore, Persist(r) PROVE Inv'
<1>1. Local(r) /\ job[r].pc = "persist" /\ budget' \in Nat /\ UNCHANGED Keys /\ job[r] \in Jobs
  BY DEF Inv, TypeOK, Persist, At, Keys, Disturb, Jobs
<1>2. /\ {"undo", "release", "scan", "stage", "import", "persist", "promote", "final", "dead"} \subseteq Labels
      /\ Answers = {"nothing", "restored", "failed", "pending", "broken"}
      /\ Lists = {"none", "expiring", "durable"}
  BY DEF Labels, Answers, Lists
<1>3. Goto(r, "promote") /\ UNCHANGED told /\ journal' = [journal EXCEPT ![r] = "durable"]
  BY <1>1, <1>2 DEF Persist, Goto
<1>4. Only(r) /\ Gone(r, "promote")
  BY <1>2, <1>3, Goes
<1>5. told'[r] = told[r] /\ journal'[r] = "durable"
  BY <1>2, <1>3, Goes
<1>6. Counts(r)'
  BY <1>1, <1>4, <1>5 DEF Local, Gone, Keys, Counts, At, Early, Over, Nowhere, Page, Jobs
<1>7. Owns(r)'
  BY <1>1, <1>4, <1>5 DEF Local, Gone, Keys, Counts, Early, Owns, Page, Jobs
<1>8. Traces(r)'
  BY <1>1, <1>4, <1>5 DEF Local, Gone, Keys, Counts, Traces, Early, Over, Nowhere, Running, Page,
     Jobs
<1> QED BY <1>1, <1>4, <1>6, <1>7, <1>8, Moves DEF Local

LEMMA PromotedStep == ASSUME Inv, NEW r \in Restore, Promoted(r) PROVE Inv'
<1>1. Local(r) /\ job[r].pc = "promote" /\ job[r].done = Pages /\ budget' \in Nat /\ UNCHANGED Keys /\ job[r] \in Jobs
  BY DEF Inv, TypeOK, Promoted, At, Keys, Disturb, Jobs
<1>2. /\ {"undo", "release", "scan", "stage", "import", "persist", "promote", "final", "dead"} \subseteq Labels
      /\ Answers = {"nothing", "restored", "failed", "pending", "broken"}
      /\ Lists = {"none", "expiring", "durable"}
  BY DEF Labels, Answers, Lists
<1>3. Goto(r, "final") /\ UNCHANGED told /\ UNCHANGED journal
  BY <1>1, <1>2 DEF Promoted, Goto
<1>4. Only(r) /\ Gone(r, "final")
  BY <1>2, <1>3, Goes
<1>5. told'[r] = told[r] /\ journal'[r] = journal[r]
  BY <1>2, <1>3, Goes
<1>6. Counts(r)'
  BY <1>1, <1>4, <1>5 DEF Local, Gone, Keys, Counts, At, Early, Over, Nowhere, Page, Jobs
<1>7. Owns(r)'
  BY <1>1, <1>4, <1>5 DEF Local, Gone, Keys, Counts, Early, Owns, Page, Jobs
<1>8. Traces(r)'
  BY <1>1, <1>4, <1>5 DEF Local, Gone, Keys, Counts, Traces, Early, Over, Nowhere, Running, Page,
     Jobs
<1> QED BY <1>1, <1>4, <1>6, <1>7, <1>8, Moves DEF Local

LEMMA SettleStep == ASSUME Inv, NEW r \in Restore, Settle(r) PROVE Inv'
<1>1. Local(r) /\ job[r].pc = "undo" /\ (job[r].final \/ job[r].undone = job[r].done) /\ (job[r].sure => job[r].done = job[r].done) /\ budget' \in Nat /\ UNCHANGED Keys /\ job[r] \in Jobs
  BY DEF Inv, TypeOK, Settle, At, Keys, Disturb, Jobs
<1>2. /\ {"undo", "release", "scan", "stage", "import", "persist", "promote", "final", "dead"} \subseteq Labels
      /\ Answers = {"nothing", "restored", "failed", "pending", "broken"}
      /\ Lists = {"none", "expiring", "durable"}
  BY DEF Labels, Answers, Lists
<1>3. CASE job[r].sure /\ job[r].final
  <2>1. Goto(r, "release") /\ Tell(r, "restored") /\ journal' = [journal EXCEPT ![r] = "none"]
    BY <1>1, <1>3 DEF Settle, Goto, JournalLeft, Inv, TypeOK
  <2>2. Only(r) /\ Gone(r, "release")
    BY <1>2, <2>1, Goes
  <2>3. told'[r] = "restored" /\ journal'[r] = "none"
    BY <1>2, <2>1, Goes
  <2>4. Counts(r)'
    BY <1>1, <1>3, <2>2, <2>3 DEF Local, Gone, Keys, Counts, At, Early, Over, Nowhere, Page, Jobs
  <2>5. Owns(r)'
    BY <1>1, <1>3, <2>2, <2>3 DEF Local, Gone, Keys, Counts, Early, Owns, Page, Jobs
  <2>6. Traces(r)'
    BY <1>1, <1>3, <2>2, <2>3 DEF Local, Gone, Keys, Counts, Traces, Early, Over, Nowhere,
       Running, Page, Jobs
  <2> QED BY <1>1, <2>2, <2>4, <2>5, <2>6, Moves DEF Local
<1>4. CASE job[r].sure /\ ~job[r].final
  <2>1. Goto(r, "release") /\ Tell(r, "failed") /\ journal' = [journal EXCEPT ![r] = "none"]
    BY <1>1, <1>4 DEF Settle, Goto, JournalLeft, Inv, TypeOK
  <2>2. Only(r) /\ Gone(r, "release")
    BY <1>2, <2>1, Goes
  <2>3. told'[r] = "failed" /\ journal'[r] = "none"
    BY <1>2, <2>1, Goes
  <2>4. Counts(r)'
    BY <1>1, <1>4, <2>2, <2>3 DEF Local, Gone, Keys, Counts, At, Early, Over, Nowhere, Page, Jobs
  <2>5. Owns(r)'
    BY <1>1, <1>4, <2>2, <2>3 DEF Local, Gone, Keys, Counts, Early, Owns, Page, Jobs
  <2>6. Traces(r)'
    BY <1>1, <1>4, <2>2, <2>3 DEF Local, Gone, Keys, Counts, Traces, Early, Over, Nowhere,
       Running, Page, Jobs
  <2> QED BY <1>1, <2>2, <2>4, <2>5, <2>6, Moves DEF Local
<1>5. CASE ~job[r].sure
  <2>1. Goto(r, "release") /\ Tell(r, "pending") /\ UNCHANGED journal
    BY <1>1, <1>5 DEF Settle, Goto, JournalLeft, Inv, TypeOK
  <2>2. Only(r) /\ Gone(r, "release")
    BY <1>2, <2>1, Goes
  <2>3. told'[r] = "pending" /\ journal'[r] = journal[r]
    BY <1>2, <2>1, Goes
  <2>4. Counts(r)'
    BY <1>1, <1>5, <2>2, <2>3 DEF Local, Gone, Keys, Counts, At, Early, Over, Nowhere, Page, Jobs
  <2>5. Owns(r)'
    BY <1>1, <1>5, <2>2, <2>3 DEF Local, Gone, Keys, Counts, Early, Owns, Page, Jobs
  <2>6. Traces(r)'
    BY <1>1, <1>5, <2>2, <2>3 DEF Local, Gone, Keys, Counts, Traces, Early, Over, Nowhere,
       Running, Page, Jobs
  <2> QED BY <1>1, <2>2, <2>4, <2>5, <2>6, Moves DEF Local
<1> QED BY <1>1, <1>3, <1>4, <1>5

LEMMA CrashStep == ASSUME Inv, NEW r \in Restore, Crash(r) PROVE Inv'
<1>1. Local(r) /\ Running(r) /\ budget' \in Nat /\ UNCHANGED Keys /\ job[r] \in Jobs
  BY DEF Inv, TypeOK, Crash, At, Keys, Disturb, Jobs
<1>2. /\ {"undo", "release", "scan", "stage", "import", "persist", "promote", "final", "dead"} \subseteq Labels
      /\ Answers = {"nothing", "restored", "failed", "pending", "broken"}
      /\ Lists = {"none", "expiring", "durable"}
  BY DEF Labels, Answers, Lists
<1>3. CASE journal[r] = "expiring"
  <2>1. Goto(r, "dead") /\ UNCHANGED told /\ journal' = [journal EXCEPT ![r] = "none"]
    BY <1>1, <1>3 DEF Crash, Goto, Inv, TypeOK
  <2>2. Only(r) /\ Gone(r, "dead")
    BY <1>2, <2>1, Goes
  <2>3. told'[r] = told[r] /\ journal'[r] = "none"
    BY <1>2, <2>1, Goes
  <2>4. Counts(r)'
    BY <1>1, <1>3, <2>2, <2>3 DEF Local, Gone, Keys, Counts, At, Early, Over, Nowhere, Page, Jobs
  <2>5. Owns(r)'
    BY <1>1, <1>3, <2>2, <2>3 DEF Local, Gone, Keys, Counts, Early, Owns, Page, Jobs
  <2>6. Traces(r)'
    BY <1>1, <1>3, <2>2, <2>3 DEF Local, Gone, Keys, Counts, Traces, Early, Over, Nowhere,
       Running, Page, Jobs
  <2> QED BY <1>1, <2>2, <2>4, <2>5, <2>6, Moves DEF Local
<1>4. CASE journal[r] # "expiring"
  <2>1. Goto(r, "dead") /\ UNCHANGED told /\ UNCHANGED journal
    BY <1>1, <1>4 DEF Crash, Goto, Inv, TypeOK
  <2>2. Only(r) /\ Gone(r, "dead")
    BY <1>2, <2>1, Goes
  <2>3. told'[r] = told[r] /\ journal'[r] = journal[r]
    BY <1>2, <2>1, Goes
  <2>4. Counts(r)'
    BY <1>1, <1>4, <2>2, <2>3 DEF Local, Gone, Keys, Counts, At, Early, Over, Nowhere, Page, Jobs
  <2>5. Owns(r)'
    BY <1>1, <1>4, <2>2, <2>3 DEF Local, Gone, Keys, Counts, Early, Owns, Page, Jobs
  <2>6. Traces(r)'
    BY <1>1, <1>4, <2>2, <2>3 DEF Local, Gone, Keys, Counts, Traces, Early, Over, Nowhere,
       Running, Page, Jobs
  <2> QED BY <1>1, <2>2, <2>4, <2>5, <2>6, Moves DEF Local
<1> QED BY <1>1, <1>3, <1>4

LEMMA LeaseLostStep == ASSUME Inv, NEW r \in Restore, LeaseLost(r) PROVE Inv'
<1>1. Local(r) /\ job[r].pc \in {"scan", "stage", "promote", "final", "import"} /\ lease # r /\ budget' \in Nat /\ UNCHANGED Keys /\ job[r] \in Jobs
  BY DEF Inv, TypeOK, LeaseLost, At, Keys, Disturb, Jobs
<1>2. /\ {"undo", "release", "scan", "stage", "import", "persist", "promote", "final", "dead"} \subseteq Labels
      /\ Answers = {"nothing", "restored", "failed", "pending", "broken"}
      /\ Lists = {"none", "expiring", "durable"}
  BY DEF Labels, Answers, Lists
<1>3. CASE r \in OneShot \/ At(r, "scan")
  <2>1. Goto(r, "release") /\ Tell(r, "failed") /\ UNCHANGED journal
    BY <1>1, <1>3 DEF LeaseLost, Goto
  <2>2. Only(r) /\ Gone(r, "release")
    BY <1>2, <2>1, Goes
  <2>3. told'[r] = "failed" /\ journal'[r] = journal[r]
    BY <1>2, <2>1, Goes
  <2>4. Counts(r)'
    BY <1>1, <1>3, <2>2, <2>3 DEF Local, Gone, Keys, Counts, At, Early, Over, Nowhere, Page, Jobs
  <2>5. Owns(r)'
    BY <1>1, <1>3, <2>2, <2>3 DEF Local, Gone, Keys, Counts, Early, Owns, Page, Jobs
  <2>6. Traces(r)'
    BY <1>1, <1>3, <2>2, <2>3 DEF Local, Gone, Keys, Counts, Traces, Early, Over, Nowhere,
       Running, Page, Jobs
  <2> QED BY <1>1, <2>2, <2>4, <2>5, <2>6, Moves DEF Local
<1>4. CASE ~(r \in OneShot \/ At(r, "scan"))
  <2>1. Goto(r, "undo") /\ UNCHANGED told /\ UNCHANGED journal
    BY <1>1, <1>4 DEF LeaseLost, Goto
  <2>2. Only(r) /\ Gone(r, "undo")
    BY <1>2, <2>1, Goes
  <2>3. told'[r] = told[r] /\ journal'[r] = journal[r]
    BY <1>2, <2>1, Goes
  <2>4. Counts(r)'
    BY <1>1, <1>4, <2>2, <2>3 DEF Local, Gone, Keys, Counts, At, Early, Over, Nowhere, Page, Jobs
  <2>5. Owns(r)'
    BY <1>1, <1>4, <2>2, <2>3 DEF Local, Gone, Keys, Counts, Early, Owns, Page, Jobs
  <2>6. Traces(r)'
    BY <1>1, <1>4, <2>2, <2>3 DEF Local, Gone, Keys, Counts, Traces, Early, Over, Nowhere,
       Running, Page, Jobs
  <2> QED BY <1>1, <2>2, <2>4, <2>5, <2>6, Moves DEF Local
<1> QED BY <1>1, <1>3, <1>4

-----------------------------------------------------------------------------
(* The steps of an import that change the keys *)

LEMMA BeginStep == ASSUME Inv, NEW r \in Restore, Begin(r) PROVE Inv'
<1>1. /\ Local(r) /\ job[r].pc = "idle" /\ job[r] \in Jobs /\ lease \in Restore \cup {NoOne, Live}
      /\ overlapped' \subseteq Restore /\ overlapped \subseteq overlapped'
      /\ (r \notin overlapped' => logout = "idle" /\ r \notin overlapped)
      /\ UNCHANGED <<journal, config, draft, target, logout, budget>>
  BY DEF Inv, TypeOK, Begin, At, Jobs
<1>2. {"check", "done"} \subseteq Labels /\ "failed" \in Answers
  BY DEF Labels, Answers
<1>3. CASE lease = NoOne
  <2>1. lease' = r /\ Goto(r, "check") /\ UNCHANGED told
    BY <1>3 DEF Begin
  <2>2. Only(r) /\ Gone(r, "check") /\ told'[r] = told[r] /\ journal'[r] = journal[r]
    BY <1>1, <1>2, <2>1, Goes
  <2>3. Local(r)'
    BY <1>1, <2>1, <2>2 DEF Local, Gone, Counts, Owns, Traces, Early, Over, Nowhere, Running
  <2>4. \A e \in Restore \ {r} : Frame(e)
    BY <1>1, <2>1 DEF Frame
  <2> QED BY <1>1, <2>1, <2>2, <2>3, <2>4, ByImport DEF Inv, TypeOK
<1>4. CASE lease # NoOne
  <2>1. lease' = lease /\ Goto(r, "done") /\ Tell(r, "failed")
    BY <1>4 DEF Begin
  <2>2. Only(r) /\ Gone(r, "done") /\ told'[r] = "failed" /\ journal'[r] = journal[r]
    BY <1>1, <1>2, <2>1, Goes
  <2>3. Local(r)'
    BY <1>1, <2>1, <2>2 DEF Local, Gone, Counts, Owns, Traces, Early, Over, Nowhere, Running
  <2>4. \A e \in Restore \ {r} : Frame(e)
    BY <1>1, <2>1 DEF Frame
  <2> QED BY <1>1, <2>1, <2>2, <2>3, <2>4, ByImport DEF Inv, TypeOK
<1> QED BY <1>3, <1>4

LEMMA ReleaseStep == ASSUME Inv, NEW r \in Restore, Release(r) PROVE Inv'
<1>1. /\ Local(r) /\ job[r].pc = "release" /\ lease' = (IF lease = r THEN NoOne ELSE lease)
      /\ Goto(r, "done") /\ UNCHANGED <<told, journal, config, draft, target, logout, overlapped, budget>>
      /\ lease' \in Restore \cup {NoOne, Live}
  BY DEF Inv, TypeOK, Release, At
<1>2. "done" \in Labels
  BY DEF Labels
<1>3. Only(r) /\ Gone(r, "done") /\ told'[r] = told[r] /\ journal'[r] = journal[r]
  BY <1>1, <1>2, Goes
<1>4. Local(r)'
  BY <1>1, <1>3 DEF Local, Gone, Counts, Owns, Traces, Early, Over, Nowhere, Running
<1>5. \A e \in Restore \ {r} : Frame(e)
  BY <1>1 DEF Frame
<1> QED BY <1>1, <1>3, <1>4, <1>5, ByImport DEF Inv, TypeOK

LEMMA PromoteStep ==
  ASSUME Inv, NEW r \in Restore, NEW reply \in Replies, NEW expired \in BOOLEAN,
         Promote(r, reply, expired)
  PROVE  Inv'
<1>1. /\ Local(r) /\ job[r].pc = "promote" /\ job[r] \in Jobs /\ job[r].done < Pages
      /\ UNCHANGED <<told, journal, lease, config, draft, logout, overlapped>>
  BY DEF Inv, TypeOK, Promote, At, Jobs
<1>2. budget' \in Nat
  BY DEF Promote, Answered, Disturb, Inv, TypeOK
<1> PICK p \in Page : p = job[r].done + 1
  BY <1>1 DEF Page, Jobs
<1> PICK granted \in BOOLEAN : granted <=> Fenced(r) /\ target[p] = NoOne /\ ~expired
  OBVIOUS
<1>3. /\ target' = IF reply # "dropped" /\ granted THEN [target EXCEPT ![p] = r] ELSE target
      /\ job' = [job EXCEPT ![r] = AfterPage(job[r], reply, granted)]
  BY DEF Promote
<1>4. target' \in [Page -> Restore \cup {NoOne, Live}]
  BY <1>3 DEF Inv, TypeOK
<1>5. \/ target' = target
      \/ /\ lease = r /\ config = NoOne /\ target'[p] = r /\ target[p] = NoOne
         /\ \A q \in Page \ {p} : target'[q] = target[q]
  BY <1>3 DEF Fenced, Inv, TypeOK
<1>6. \A e \in Restore \ {r} : Frame(e)
  BY <1>1, <1>5 DEF Frame
<1>7. told' \in [Restore -> Answers] /\ journal' \in [Restore -> Lists]
  BY <1>1 DEF Inv, TypeOK, Answers, Lists
<1>8. CASE reply = "answered" /\ granted
  <2> PICK j \in Jobs : j = [job[r] EXCEPT !.done = p]
    <3> DEFINE q == [job[r] EXCEPT !.done = p]
    <3>1. q \in Jobs
      BY <1>1 DEF Jobs, Page
    <3> QED BY <3>1
  <2>1. /\ j.pc = "promote" /\ j.done = p /\ j.undone = job[r].undone /\ j.sure = job[r].sure
        /\ j.final = job[r].final /\ job' = [job EXCEPT ![r] = j]
    BY <1>1, <1>3, <1>8 DEF Jobs, AfterPage
  <2>2. job'[r] = j /\ Only(r)
    BY <1>1, <1>7, <2>1 DEF Only, Inv, TypeOK, Jobs
  <2>3. target'[p] = r /\ \A q \in Page \ {p} : target'[q] = target[q]
    BY <1>3, <1>8 DEF Inv, TypeOK
  <2>4. lease = r /\ config = NoOne
    BY <1>8 DEF Fenced
  <2>5. Counts(r)'
    BY <1>1, <2>1, <2>2, <2>3 DEF Local, Counts, Early, Over, Jobs, Page
  <2>6. Owns(r)'
    <3>1. ASSUME NEW q \in Page, q <= p, r \notin overlapped PROVE target'[q] = r
      BY <1>1, <2>3, <2>4, <3>1 DEF Local, Owns, Jobs, Page
    <3>2. ASSUME NEW q \in Page PROVE target'[q] \in {NoOne, r}
      BY <1>1, <2>3, <2>4 DEF Local, Owns
    <3> QED BY <1>1, <2>1, <2>2, <3>1, <3>2 DEF Owns
  <2>7. Traces(r)'
    BY <1>1, <2>1, <2>2, <2>4 DEF Local, Counts, Traces, Running
  <2> QED BY <1>1, <1>2, <1>4, <1>6, <2>2, <2>5, <2>6, <2>7, ByImport DEF Local, Inv, TypeOK
<1>9. CASE ~(reply = "answered" /\ granted)
  <2> PICK sure \in BOOLEAN : sure <=> reply = "answered" /\ job[r].sure
    OBVIOUS
  <2> PICK j \in Jobs : j = [job[r] EXCEPT !.pc = "undo", !.sure = sure]
    <3> DEFINE q == [job[r] EXCEPT !.pc = "undo", !.sure = sure]
    <3>1. q \in Jobs
      BY <1>1 DEF Jobs, Labels
    <3> QED BY <3>1
  <2>s. job[r].sure
    BY <1>1 DEF Local, Counts
  <2>1. /\ j.pc = "undo" /\ j.done = job[r].done /\ j.undone = job[r].undone /\ j.sure = sure
        /\ j.final = job[r].final /\ job' = [job EXCEPT ![r] = j]
    <3>1. CASE reply = "answered"
      BY <1>1, <1>3, <1>9, <2>s, <3>1 DEF Jobs, AfterPage
    <3>2. CASE reply # "answered"
      BY <1>1, <1>3, <2>s, <3>2 DEF Jobs, AfterPage
    <3> QED BY <3>1, <3>2
  <2>2. job'[r] = j /\ Only(r)
    BY <1>1, <1>7, <2>1 DEF Only, Inv, TypeOK, Jobs
  <2>3. sure => target' = target
    BY <1>3, <1>9
  <2>5. Counts(r)'
    <3>1. told'[r] # "failed" /\ r \notin OneShot
      BY <1>1 DEF Local, Counts, Over
    <3>2. \A q \in Page : sure /\ target'[q] = r => job[r].undone < q /\ q <= job[r].done
      BY <1>1, <2>3 DEF Local, Counts, Jobs, Page
    <3> QED BY <2>1, <2>2, <3>1, <3>2 DEF Counts, Early
  <2>6. Owns(r)'
    BY <1>1, <1>5, <2>1, <2>2 DEF Local, Owns
  <2>7. Traces(r)'
    BY <1>1, <1>5, <2>1, <2>2 DEF Local, Counts, Traces, Running
  <2> QED BY <1>1, <1>2, <1>4, <1>6, <2>2, <2>5, <2>6, <2>7, ByImport DEF Local, Inv, TypeOK
<1> QED BY <1>8, <1>9

LEMMA FinalStep ==
  ASSUME Inv, NEW r \in Restore, NEW reply \in Replies, Final(r, reply) PROVE Inv'
<1>1. /\ Local(r) /\ job[r].pc = "final" /\ job[r] \in Jobs
      /\ UNCHANGED <<told, journal, lease, draft, target, logout, overlapped>>
  BY DEF Inv, TypeOK, Final, At, Jobs
<1>2. budget' \in Nat
  BY DEF Final, Answered, Disturb, Inv, TypeOK
<1> PICK granted \in BOOLEAN : granted <=> Fenced(r) /\ ~draft
  OBVIOUS
<1> PICK final \in BOOLEAN : final <=> reply = "answered" /\ granted
  OBVIOUS
<1>3. /\ config' = IF reply # "dropped" /\ granted THEN r ELSE config
      /\ job' = [job EXCEPT ![r].pc = "undo", ![r].final = final]
  BY DEF Final
<1> PICK j \in Jobs : j = [job[r] EXCEPT !.pc = "undo", !.final = final]
  <2> DEFINE q == [job[r] EXCEPT !.pc = "undo", !.final = final]
  <2>1. q \in Jobs
    BY <1>1 DEF Jobs, Labels
  <2> QED BY <2>1
<1>4. /\ j.pc = "undo" /\ j.done = job[r].done /\ j.undone = job[r].undone /\ j.sure = job[r].sure
      /\ j.final = final /\ job' = [job EXCEPT ![r] = j]
  BY <1>1, <1>3 DEF Jobs, Inv, TypeOK
<1>5. job'[r] = j /\ Only(r)
  BY <1>1, <1>4 DEF Only, Inv, TypeOK, Jobs, Answers, Lists
<1>6. \/ config' = config /\ ~final
      \/ config' = r /\ config = NoOne /\ lease = r
  BY <1>3 DEF Fenced
<1>7. config' \in Restore \cup {NoOne, Manual} /\ \A e \in Restore \ {r} : Frame(e)
  BY <1>1, <1>6 DEF Frame, Inv, TypeOK
<1>8. Counts(r)'
  BY <1>1, <1>4, <1>5 DEF Local, Counts, Early, Over, Jobs, Page, Nowhere
<1>9. Owns(r)'
  BY <1>1, <1>4, <1>5 DEF Local, Owns
<1>10. Traces(r)'
  <2>1. CASE config' = config /\ ~final
    BY <1>1, <1>4, <1>5, <2>1 DEF Local, Traces, Running, Nowhere
  <2>2. CASE config' = r /\ config = NoOne /\ lease = r
    <3>1. r \notin overlapped => \A p \in Page : target[p] = r
      BY <1>1, <2>2 DEF Local, Counts, Owns, Page
    <3> QED BY <1>1, <1>4, <1>5, <2>2, <3>1 DEF Local, Traces, Running, Nowhere
  <2> QED BY <1>6, <2>1, <2>2
<1> QED BY <1>1, <1>2, <1>5, <1>7, <1>8, <1>9, <1>10, ByImport DEF Local, Inv, TypeOK

LEMMA ImportStep ==
  ASSUME Inv, NEW r \in Restore, NEW reply \in Replies, NEW expired \in BOOLEAN,
         Import(r, reply, expired)
  PROVE  Inv'
<1>1. /\ Local(r) /\ job[r].pc = "import" /\ job[r] \in Jobs /\ Goto(r, "release")
      /\ UNCHANGED <<journal, lease, draft, logout, overlapped>>
  BY DEF Inv, TypeOK, Import, At, Jobs
<1>2. budget' \in Nat
  BY DEF Import, Answered, Disturb, Inv, TypeOK
<1> PICK granted \in BOOLEAN : granted <=> /\ Fenced(r) /\ ~draft /\ ~expired
                                           /\ \A p \in Page : target[p] = NoOne
  OBVIOUS
<1> PICK a \in Answers : a = IF reply # "answered" THEN "broken" ELSE IF granted THEN "restored" ELSE "failed"
  BY DEF Answers
<1>3. /\ config' = IF reply # "dropped" /\ granted THEN r ELSE config
      /\ target' = IF reply # "dropped" /\ granted THEN [p \in Page |-> r] ELSE target
      /\ Tell(r, a)
  BY DEF Import
<1>4. \/ config' = config /\ target' = target
      \/ /\ config' = r /\ config = NoOne /\ lease = r /\ a # "failed"
         /\ \A p \in Page : target'[p] = r
  BY <1>3 DEF Fenced
<1>5. Only(r) /\ Gone(r, "release") /\ told'[r] = a /\ journal'[r] = journal[r]
  <2>1. "release" \in Labels
    BY DEF Labels
  <2> QED BY <1>1, <1>3, <2>1, Goes
<1>6. config' \in Restore \cup {NoOne, Manual} /\ target' \in [Page -> Restore \cup {NoOne, Live}]
  BY <1>3 DEF Inv, TypeOK
<1>7. \A e \in Restore \ {r} : Frame(e)
  BY <1>1, <1>4 DEF Frame
<1>8. Counts(r)'
  BY <1>1, <1>4, <1>5 DEF Local, Gone, Counts, Early, Over, Nowhere
<1>9. Owns(r)'
  BY <1>1, <1>5 DEF Local, Gone, Owns
<1>10. Traces(r)'
  BY <1>1, <1>4, <1>5 DEF Local, Gone, Counts, Early, Traces, Running, Nowhere
<1> QED BY <1>1, <1>2, <1>5, <1>6, <1>7, <1>8, <1>9, <1>10, ByImport DEF Local, Inv, TypeOK

LEMMA UndoStep ==
  ASSUME Inv, NEW r \in Restore, NEW reply \in Replies, Undo(r, reply) PROVE Inv'
<1>1. /\ Local(r) /\ job[r].pc = "undo" /\ job[r] \in Jobs /\ job[r].undone < job[r].done
      /\ ~job[r].final /\ UNCHANGED <<journal, lease, config, draft, logout, overlapped>>
  BY DEF Inv, TypeOK, Undo, At, Jobs
<1>2. budget' \in Nat
  BY DEF Undo, Answered, Disturb, Inv, TypeOK
<1> PICK p \in Page : p = job[r].undone + 1
  BY <1>1 DEF Page, Jobs
<1> PICK sure \in BOOLEAN : sure <=> job[r].sure /\ Fenced(r)
  OBVIOUS
<1> PICK x \in {"undo", "release"} : x = IF reply = "answered" THEN "undo" ELSE "release"
  OBVIOUS
<1>3. /\ target' = IF reply # "dropped" /\ Fenced(r) THEN [target EXCEPT ![p] = NoOne] ELSE target
      /\ told' = IF reply = "answered" THEN told ELSE [told EXCEPT ![r] = "broken"]
  BY DEF Undo
<1> PICK j \in Jobs : j = [job[r] EXCEPT !.undone = p, !.sure = sure, !.pc = x]
  <2> DEFINE q == [job[r] EXCEPT !.undone = p, !.sure = sure, !.pc = x]
  <2>1. q \in Jobs
    <3>1. p \in 0 .. Pages /\ x \in Labels
      BY DEF Page, Labels
    <3> QED BY <1>1, <3>1 DEF Jobs
  <2> QED BY <2>1
<1>4. /\ j.pc = x /\ j.done = job[r].done /\ j.undone = p /\ j.sure = sure /\ j.final = job[r].final
      /\ job' = [job EXCEPT ![r] = j]
  BY <1>1 DEF Jobs, Undo, Inv, TypeOK
<1>5. job'[r] = j /\ Only(r)
  BY <1>1, <1>3, <1>4 DEF Only, Inv, TypeOK, Jobs, Answers, Lists
<1>6. \/ target' = target /\ (x = "undo" => ~sure)
      \/ /\ lease = r /\ config = NoOne /\ target'[p] = NoOne
         /\ \A q \in Page \ {p} : target'[q] = target[q]
  BY <1>3 DEF Fenced, Inv, TypeOK
<1>7. target' \in [Page -> Restore \cup {NoOne, Live}] /\ \A e \in Restore \ {r} : Frame(e)
  BY <1>1, <1>3, <1>6 DEF Frame, Inv, TypeOK
<1>8. Counts(r)'
  <2>1. told'[r] # "failed"
    BY <1>1, <1>3 DEF Local, Counts, Over, Inv, TypeOK
  <2>2. \A q \in Page : x = "undo" /\ sure /\ target'[q] = r => p < q /\ q <= job[r].done
    BY <1>1, <1>6 DEF Local, Counts, Jobs, Page
  <2>3. r \notin OneShot
    BY <1>1 DEF Local, Counts
  <2> QED BY <1>4, <1>5, <2>1, <2>2, <2>3 DEF Counts, Early
<1>9. Owns(r)'
  BY <1>1, <1>4, <1>5, <1>6 DEF Local, Owns
<1>10. Traces(r)'
  BY <1>1, <1>4, <1>5, <1>6 DEF Local, Counts, Traces, Running, Nowhere
<1> QED BY <1>1, <1>2, <1>5, <1>7, <1>8, <1>9, <1>10, ByImport DEF Local, Inv, TypeOK

-----------------------------------------------------------------------------
(* The others *)

LEMMA ExpireStep == ASSUME Inv, Expire \/ Close PROVE Inv'
<1>1. lease' = NoOne /\ budget' \in Nat
      /\ UNCHANGED <<job, told, journal, config, draft, target, logout, overlapped>>
  BY DEF Expire, Close, Disturb, Inv, TypeOK
<1>2. \A e \in Restore : Frame(e)
  BY <1>1 DEF Frame
<1> QED BY <1>1, <1>2, ByOthers DEF Inv, TypeOK

LEMMA OpenStep == ASSUME Inv, Open PROVE Inv'
<1>1. \A e \in Restore : Frame(e)
  BY DEF Frame, Open
<1> QED BY <1>1, ByOthers DEF Inv, TypeOK, Open

LEMMA WriteStep == ASSUME Inv, NEW p \in Page, Write(p) PROVE Inv'
<1>1. target' \in [Page -> Restore \cup {NoOne, Live}] /\ target'[p] = Live
      /\ \A q \in Page \ {p} : target'[q] = target[q]
  BY DEF Write, Inv, TypeOK
<1>2. \A e \in Restore : Frame(e)
  BY <1>1 DEF Frame, Write
<1> QED BY <1>1, <1>2, ByOthers DEF Inv, TypeOK, Write

LEMMA RegisterStep == ASSUME Inv, Register PROVE Inv'
<1>1. budget' \in Nat /\ \A e \in Restore : Frame(e)
  BY DEF Frame, Register, Disturb, Inv, TypeOK
<1> QED BY <1>1, ByOthers DEF Inv, TypeOK, Register

LEMMA MakeDraftStep == ASSUME Inv, MakeDraft PROVE Inv'
<1>1. budget' \in Nat /\ \A e \in Restore : Frame(e)
  BY DEF Frame, MakeDraft, Disturb, Inv, TypeOK
<1> QED BY <1>1, ByOthers DEF Inv, TypeOK, MakeDraft

LEMMA LogoutClearsStep == ASSUME Inv, LogoutClears PROVE Inv'
<1>1. /\ target' = [p \in Page |-> NoOne] /\ logout' = "config" /\ overlapped' = overlapped \cup Beside
      /\ UNCHANGED <<job, told, journal, lease, config, draft>>
  BY DEF LogoutClears
<1>2. TypeOK'
  BY <1>1 DEF Inv, TypeOK, LogoutClears, Disturb, Beside
<1>3. ASSUME NEW r \in Restore PROVE Local(r)'
  <2>1. Local(r)
    BY DEF Inv
  <2>2. Nowhere(r)'
    BY <1>1 DEF Nowhere
  <2>3. Counts(r)'
    BY <1>1, <2>1, <2>2 DEF Local, Counts, Nowhere
  <2>4. Owns(r)'
    BY <1>1, <2>1 DEF Local, Owns, Beside, Running
  <2>5. Traces(r)'
    BY <1>1, <2>1, <2>2 DEF Local, Traces, Beside, Running
  <2> QED BY <2>3, <2>4, <2>5 DEF Local
<1> QED BY <1>2, <1>3 DEF Inv

LEMMA LogoutForgetsStep == ASSUME Inv, LogoutForgets PROVE Inv'
<1>1. /\ logout = "config" /\ config' = NoOne /\ logout' = "lease"
      /\ UNCHANGED <<job, told, journal, lease, draft, target, overlapped, budget>>
  BY DEF LogoutForgets
<1>2. TypeOK'
  BY <1>1 DEF Inv, TypeOK
<1>3. ASSUME NEW r \in Restore PROVE Local(r)'
  <2>1. Local(r)
    BY DEF Inv
  <2>2. Counts(r)'
    BY <1>1, <2>1 DEF Local, Counts, Nowhere
  <2>3. Owns(r)'
    BY <1>1, <2>1 DEF Local, Owns, Traces, Running
  <2>4. Traces(r)'
    BY <1>1, <2>1 DEF Local, Traces, Running, Nowhere
  <2> QED BY <2>2, <2>3, <2>4 DEF Local
<1> QED BY <1>2, <1>3 DEF Inv

LEMMA LogoutFreesStep == ASSUME Inv, LogoutFrees PROVE Inv'
<1>1. /\ lease' = NoOne /\ logout' = "idle" /\ logout = "lease"
      /\ UNCHANGED <<job, told, journal, config, draft, target, overlapped, budget>>
  BY DEF LogoutFrees
<1>2. TypeOK'
  BY <1>1 DEF Inv, TypeOK
<1>3. ASSUME NEW r \in Restore PROVE Local(r)'
  <2>1. Local(r)
    BY DEF Inv
  <2>2. Counts(r)'
    BY <1>1, <2>1 DEF Local, Counts, Nowhere
  <2>3. Owns(r)'
    BY <1>1 DEF Owns
  <2>4. Traces(r)'
    BY <1>1, <2>1 DEF Local, Traces, Running, Nowhere
  <2> QED BY <2>2, <2>3, <2>4 DEF Local
<1> QED BY <1>2, <1>3 DEF Inv

-----------------------------------------------------------------------------
(* The invariant *)

LEMMA Initially == Init => Inv
<1> SUFFICES ASSUME Init PROVE Inv
  OBVIOUS
<1>1. TypeOK
  <2>1. job \in [Restore -> [pc : Labels, done : 0 .. Pages, undone : 0 .. Pages,
                           sure : BOOLEAN, final : BOOLEAN]]
    BY DEF Init, Labels
  <2>2. /\ told \in [Restore -> {"nothing", "restored", "failed", "pending", "broken"}]
        /\ journal \in [Restore -> {"none", "expiring", "durable"}]
        /\ target \in [Page -> Restore \cup {NoOne, Live}]
    BY DEF Init
  <2>3. /\ lease \in Restore \cup {NoOne, Live} /\ config \in Restore \cup {NoOne, Manual}
        /\ draft \in BOOLEAN /\ logout \in {"idle", "config", "lease"}
        /\ overlapped \subseteq Restore /\ budget \in Nat
    BY DEF Init
  <2> QED BY <2>1, <2>2, <2>3 DEF TypeOK
<1>2. ASSUME NEW r \in Restore PROVE Local(r)
  <2>1. /\ job[r].pc = "idle" /\ job[r].done = 0 /\ job[r].undone = 0 /\ job[r].sure /\ ~job[r].final
        /\ told[r] = "nothing" /\ lease # r /\ logout = "idle" /\ config = NoOne
    BY DEF Init
  <2>2. Nowhere(r)
    BY DEF Init, Nowhere
  <2> QED BY <2>1, <2>2 DEF Local, Counts, Owns, Traces, Early, Over, Running
<1> QED BY <1>1, <1>2 DEF Inv

LEMMA Invariance == Inv /\ [Next]_vars => Inv'
<1> SUFFICES ASSUME Inv, [Next]_vars PROVE Inv'
  OBVIOUS
<1>1. CASE UNCHANGED vars
  <2>1. \A e \in Restore : Frame(e)
    BY <1>1 DEF vars, Frame
  <2> QED BY <1>1, <2>1, ByOthers DEF vars, Inv, TypeOK
<1>2. CASE Others
  BY <1>2, ExpireStep, OpenStep, WriteStep, RegisterStep, MakeDraftStep, LogoutClearsStep,
     LogoutForgetsStep, LogoutFreesStep DEF Others
<1>3. ASSUME NEW r \in Restore, Prepare(r) PROVE Inv'
  BY <1>3, BeginStep, CheckStep, ScanStep, StageStep, StageFailsStep, PersistStep DEF Prepare
<1>4. ASSUME NEW r \in Restore, Commit(r) PROVE Inv'
  BY <1>4, PromoteStep, ImportStep, PromotedStep, FinalStep DEF Commit
<1>5. ASSUME NEW r \in Restore, RollBack(r) PROVE Inv'
  BY <1>5, LeaseLostStep, SettleStep, ReleaseStep, CrashStep, UndoStep DEF RollBack
<1> QED BY <1>1, <1>2, <1>3, <1>4, <1>5 DEF Next

LEMMA Always == Spec => []Inv
BY Initially, Invariance, PTL DEF Spec

-----------------------------------------------------------------------------
(* What it gives *)

\* For any imports and any number of pages: the configuration restoreStagedStream
\* writes last stands on all the records of its archive.
THEOREM Whole == Spec => []FinalisedIsWhole
<1>1. Inv => FinalisedIsWhole
  BY DEF Inv, Local, Traces, FinalisedIsWhole
<1> QED BY <1>1, Always, PTL

\* For any imports and pages: what an import leaves without a configuration is in a
\* journal that does not expire, whatever reply or process was lost.
THEOREM Journaled == Spec => []PartialIsJournaled
<1>1. Inv => PartialIsJournaled
  BY DEF Inv, Local, Traces, Nowhere, PartialIsJournaled
<1> QED BY <1>1, Always, PTL

\* For any imports and pages: after a plain failure nothing of the import is there,
\* even if a logout job ran beside it.
THEOREM Nothing == Spec => []FailedMeansNothing
<1>1. Inv => FailedMeansNothing
  BY DEF Inv, Local, Counts, Nowhere, FailedMeansNothing
<1> QED BY <1>1, Always, PTL

\* For any imports and pages: a rollback under the fence of the lease only deletes
\* what its own import has written.
THEOREM Spared == Spec => RollbackSparesOthers
<1>1. ASSUME Inv, [Next]_vars, NEW p \in Page, target[p] # NoOne, target'[p] = NoOne
      PROVE  logout' = "config" \/ (target[p] \in Restore /\ At(target[p], "undo"))
  <2>1. CASE UNCHANGED vars
    BY <1>1, <2>1 DEF vars
  <2>2. ASSUME Others PROVE logout' = "config"
    <3>1. ASSUME NEW q \in Page, Write(q) PROVE FALSE
      BY <1>1, <3>1 DEF Write, Inv, TypeOK
    <3> QED BY <1>1, <2>2, <3>1 DEF Others, Expire, Open, Close, Register, MakeDraft,
       LogoutClears,
               LogoutForgets, LogoutFrees
  <2>3. ASSUME NEW r \in Restore, Prepare(r) PROVE FALSE
    BY <1>1, <2>3 DEF Prepare, Begin, Check, Scan, Stage, StageFails, Persist
  <2>4. ASSUME NEW r \in Restore, Commit(r) PROVE FALSE
    <3>1. ASSUME NEW reply \in Replies, NEW expired \in BOOLEAN, Promote(r, reply,
       expired) PROVE FALSE
      BY <1>1, <3>1 DEF Promote, Inv, TypeOK
    <3>2. ASSUME NEW reply \in Replies, NEW expired \in BOOLEAN, Import(r, reply,
       expired) PROVE FALSE
      BY <1>1, <3>2 DEF Import, Inv, TypeOK
    <3> QED BY <1>1, <2>4, <3>1, <3>2 DEF Commit, Promoted, Final
  <2>5. ASSUME NEW r \in Restore, NEW reply \in Replies, Undo(r, reply)
        PROVE  target[p] \in Restore /\ At(target[p], "undo")
    <3>1. Fenced(r) /\ At(r, "undo") /\ Owns(r)
      BY <1>1, <2>5 DEF Undo, Inv, Local
    <3>2. target[p] \in {NoOne, r}
      BY <3>1 DEF Fenced, At, Owns
    <3> QED BY <1>1, <3>1, <3>2
  <2>6. ASSUME NEW r \in Restore, RollBack(r), ~\E reply \in Replies : Undo(r, reply) PROVE FALSE
    BY <1>1, <2>6 DEF RollBack, LeaseLost, Settle, Release, Crash
  <2> QED BY <1>1, <2>1, <2>2, <2>3, <2>4, <2>5, <2>6 DEF Next, RollBack
<1>2. Inv /\ [Next]_vars =>
        [\A p \in Page : target[p] # NoOne /\ target'[p] = NoOne =>
           logout' = "config" \/ (target[p] \in Restore /\ At(target[p], "undo"))]_vars
  BY <1>1
<1> QED BY <1>2, Always, PTL DEF Spec, RollbackSparesOthers

=============================================================================
