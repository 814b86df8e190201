------------------------- MODULE MessageSend_proofs -------------------------
(* Proofs about MessageSend, for any number of runs and any disturbances.    *)
EXTENDS MessageSend, FiniteSetTheorems, TLAPS

Unsent == {"new", "guard", "prepare", "save", "unsave", "send"}

TypeInv == /\ at \in [Run -> Stage] /\ owner \in Run \cup {None}
           /\ net \subseteq Run /\ hurt \subseteq Run

\* An undisturbed run that has not stored the key holds the delivery.
Held == \A r \in Run : at[r] \in Unrecorded /\ r \notin hurt => owner = r

\* What WhatsApp accepted was sent by a run that is past the sending, and whose key is
\* stored unless the run was cut off.
PastSend == \A r \in net : at[r] \notin Unsent
Keyed == \A r \in net \ hurt : at[r] \notin Unrecorded => key

\* An undisturbed run past the guard is the first to send.
Alone == \A r \in Run \ hurt : at[r] \in Unrecorded \ {"guard"} => net \ hurt \subseteq {r}
Once == \A r, q \in net \ hurt : r = q

\* The strengthening: the number of sends alone says nothing of runs about to send.
IInv == TypeInv /\ Held /\ PastSend /\ Keyed /\ Alone /\ Once

-----------------------------------------------------------------------------
USE SendAssumption DEF SendAssumption

LEMMA Stages == /\ Unrecorded \subseteq Stage /\ Unsent \subseteq Unrecorded \cup {"new"}
                /\ "over" \in Stage /\ "over" \notin Unrecorded /\ "over" \notin Unsent
                /\ "new" \notin Unrecorded
BY DEF Stage, Unrecorded, Unsent

\* The state after a run changed its stage.
LEMMA Moved == ASSUME IInv, NEW r \in Run, NEW to \in Stage, Go(r, to)
               PROVE  /\ at' \in [Run -> Stage] /\ at'[r] = to
                      /\ \A q \in Run \ {r} : at'[q] = at[q]
BY DEF IInv, TypeInv, Go

\* A run that goes on keeps the invariant when it passes the guard unsent and without
\* a key, and leaves the stages before the key only with a key or unsent.
LEMMA StepsOn ==
  ASSUME IInv, NEW r \in Run, NEW to \in Stage, Steps(r, to), net' = net, key => key',
         to \in Unrecorded => at[r] \in Unrecorded,
         at[r] = "guard" /\ to \in Unrecorded => ~key,
         at[r] \in Unrecorded /\ to \notin Unrecorded => r \notin net \/ key',
         to \in Unsent => at[r] \in Unsent
  PROVE  IInv'
<1> USE DEF IInv
<1>1. /\ at' \in [Run -> Stage] /\ at'[r] = to /\ \A q \in Run \ {r} : at'[q] = at[q]
      /\ owner' = owner /\ hurt' = hurt
  BY Moved DEF Steps, job
<1>2. TypeInv' /\ Held' /\ PastSend' /\ Once'
  BY <1>1 DEF TypeInv, Held, PastSend, Once
<1>3. Keyed'
  BY <1>1 DEF TypeInv, Keyed
<1>4. Alone'
  <2>1. CASE at[r] = "guard" /\ to \in Unrecorded
    <3>1. r \notin net
      BY <2>1 DEF PastSend, Unsent
    <3>2. ASSUME r \notin hurt, NEW q \in net \ hurt PROVE FALSE
      BY <2>1, <3>1, <3>2 DEF Held, Keyed, TypeInv
    <3> QED BY <1>1, <2>1, <3>2 DEF Alone
  <2>2. CASE ~(at[r] = "guard" /\ to \in Unrecorded)
    BY <1>1, <2>2 DEF Alone
  <2> QED BY <2>1, <2>2
<1> QED BY <1>2, <1>3, <1>4

\* A run that ends, or loses the delivery, is hurt when it had not stored the key.
LEMMA EndsRun ==
  ASSUME IInv, NEW r \in Run, NEW to \in Stage \ (Unrecorded \cup Unsent),
         Go(r, to) \/ UNCHANGED at, Go(r, to) \/ r \in hurt' \/ at[r] \notin Unrecorded,
         hurt \subseteq hurt', hurt' \subseteq hurt \cup {r},
         at[r] \in Unrecorded => r \in hurt' \/ (r \notin net' /\ Go(r, to)),
         net' \subseteq net \cup {r}, net \subseteq net',
         r \in net' \ net => r \in hurt' /\ Go(r, to),
         owner' = owner \/ (owner = r /\ owner' = None),
         key' = key
  PROVE  IInv'
<1> USE DEF IInv
<1>1. /\ at' \in [Run -> Stage] /\ (at' = at \/ at'[r] = to) /\ (Go(r, to) => at'[r] = to)
      /\ \A q \in Run \ {r} : at'[q] = at[q]
  BY Moved DEF TypeInv
<1>2. TypeInv'
  BY <1>1 DEF TypeInv
<1>3. net' \ hurt' \subseteq net \ hurt
  OBVIOUS
<1>4. Held'
  BY <1>1 DEF Held, TypeInv
<1>5. PastSend'
  BY <1>1 DEF PastSend, TypeInv, Go
<1>6. Keyed'
  BY <1>1, <1>3 DEF Keyed, TypeInv
<1>7. Alone' /\ Once'
  BY <1>1, <1>3 DEF Alone, Once, TypeInv
<1> QED BY <1>2, <1>4, <1>5, <1>6, <1>7

\* A callback that throws, or reports its last failure.
LEMMA Fails ==
  ASSUME IInv, NEW r \in Run, Throw(r) \/ SendFails(r), net \subseteq net', net' \subseteq net \cup {r},
         r \in net' \ net => at[r] \in Unrecorded, key' = key
  PROVE  IInv'
<1>1. /\ hurt \subseteq hurt' /\ hurt' \subseteq hurt \cup {r}
      /\ at[r] \in Unrecorded => r \in hurt'
      /\ owner' = owner \/ (owner = r /\ owner' = None)
  BY DEF Throw, SendFails, Hurt, Requeue, job
<1>2. Go(r, "over") \/ Go(r, "tell")
  BY DEF Throw, SendFails
<1>3. {"over", "tell"} \subseteq Stage \ (Unrecorded \cup Unsent)
  BY DEF Stage, Unrecorded, Unsent
<1>4. CASE Go(r, "over")
  BY <1>1, <1>3, <1>4, EndsRun
<1>5. CASE Go(r, "tell")
  BY <1>1, <1>3, <1>5, EndsRun
<1> QED BY <1>2, <1>4, <1>5

\* A callback that returns.
LEMMA Finishes ==
  ASSUME IInv, NEW r \in Run, Finish(r), at[r] \in Unrecorded => r \notin net, net' = net,
         key' = key
  PROVE  IInv'
<1>1. /\ Go(r, "over") /\ hurt' = hurt
      /\ owner' = owner \/ (owner = r /\ owner' = None)
  BY DEF Finish
<1>2. "over" \in Stage \ (Unrecorded \cup Unsent)
  BY Stages
<1> QED BY <1>1, <1>2, EndsRun

\* Steps that change nothing the invariant speaks of.
LEMMA Quiet == ASSUME IInv, UNCHANGED <<at, owner, net, hurt, key>> PROVE IInv'
BY DEF IInv, TypeInv, Held, PastSend, Keyed, Alone, Once

LEMMA GuardStep == ASSUME IInv, NEW r \in Run, Guard(r) PROVE IInv'
<1>0. /\ at[r] = "guard" /\ net' = net /\ key' = key
      /\ "guard" \in Unrecorded /\ "guard" \in Unsent /\ "prepare" \in Unrecorded \cap Unsent
      /\ "prepare" \in Stage /\ "replay" \in Stage \ (Unrecorded \cup Unsent)
  BY DEF Guard, ids, Stage, Unrecorded, Unsent
<1>1. r \notin net
  BY <1>0 DEF IInv, PastSend
<1>2. CASE ~key /\ Steps(r, "prepare")
  BY <1>0, <1>2, StepsOn
<1>3. CASE Steps(r, "replay")
  BY <1>0, <1>1, <1>3, StepsOn
<1>4. CASE Finish(r)
  BY <1>0, <1>1, <1>4, Finishes
<1>5. CASE Throw(r)
  BY <1>0, <1>5, Fails
<1>6. CASE Go(r, "prepare") /\ Hurt(r) /\ UNCHANGED <<job, finished>>
  <2>1. /\ at' \in [Run -> Stage] /\ at'[r] = "prepare" /\ \A q \in Run \ {r} : at'[q] = at[q]
        /\ owner' = owner /\ hurt' = hurt \cup {r}
    BY <1>0, <1>6, Moved DEF Hurt, job
  <2> QED BY <1>0, <1>1, <2>1 DEF IInv, TypeInv, Held, PastSend, Keyed, Alone, Once
<1> QED BY <1>2, <1>3, <1>4, <1>5, <1>6 DEF Guard

LEMMA SendStep == ASSUME IInv, NEW r \in Run, Send(r) PROVE IInv'
<1>0. /\ at[r] = "send" /\ key' = key
      /\ "send" \in Unrecorded \cap Unsent /\ "map" \in Unrecorded \ Unsent /\ "map" \in Stage
      /\ "tell" \in Stage \ (Unrecorded \cup Unsent)
  BY DEF Send, ids, Stage, Unrecorded, Unsent
<1>1. r \notin net
  BY <1>0 DEF IInv, PastSend
<1>2. CASE Steps(r, "map") /\ net' = net \cup {r}
  <2>1. /\ at' \in [Run -> Stage] /\ at'[r] = "map" /\ \A q \in Run \ {r} : at'[q] = at[q]
        /\ owner' = owner /\ hurt' = hurt /\ net' = net \cup {r}
    BY <1>0, <1>2, Moved DEF Steps, job
  <2>2. TypeInv' /\ Held' /\ PastSend' /\ Keyed'
    BY <1>0, <2>1 DEF IInv, TypeInv, Held, PastSend, Keyed
  <2>3. ASSUME r \notin hurt PROVE net \ hurt = {}
    BY <1>0, <1>1, <2>3 DEF IInv, Alone
  <2>4. ASSUME r \notin hurt, NEW q \in Run \ hurt, at[q] \in Unrecorded PROVE q = r
    BY <1>0, <2>4 DEF IInv, Held
  <2>5. CASE r \in hurt
    BY <1>0, <2>1, <2>2, <2>5 DEF IInv, Alone, Once
  <2>6. CASE r \notin hurt
    <3>1. net' \ hurt' = {r}
      BY <2>1, <2>3, <2>6
    <3>2. Once'
      BY <3>1 DEF Once
    <3>3. Alone'
      BY <2>1, <2>4, <2>6, <3>1 DEF Alone
    <3> QED BY <2>2, <3>2, <3>3 DEF IInv
  <2> QED BY <2>5, <2>6
<1>3. CASE Steps(r, "tell") /\ net' = net
  BY <1>0, <1>1, <1>3, StepsOn
<1>4. CASE SendFails(r) /\ net' \in {net, net \cup {r}}
  BY <1>0, <1>4, Fails
<1> QED BY <1>2, <1>3, <1>4 DEF Send

LEMMA StartStep == ASSUME IInv, NEW r \in Run, Start(r) PROVE IInv'
<1>1. /\ at[r] = "new" /\ owner = None /\ owner' = r /\ Go(r, "guard")
      /\ net' = net /\ hurt' = hurt /\ key' = key
      /\ "guard" \in Stage /\ "guard" \in Unrecorded /\ "new" \in Unsent
  BY DEF Start, ids, Stage, Unrecorded, Unsent
<1>2. at' \in [Run -> Stage] /\ at'[r] = "guard" /\ \A q \in Run \ {r} : at'[q] = at[q]
  BY <1>1, Moved
<1>3. r \notin net /\ \A q \in Run \ hurt : at[q] \notin Unrecorded
  BY <1>1 DEF IInv, PastSend, Held
<1> QED BY <1>1, <1>2, <1>3 DEF IInv, TypeInv, Held, PastSend, Keyed, Alone, Once

LEMMA TimeoutStep == ASSUME IInv, NEW r \in Run, Timeout(r) PROVE IInv'
<1>1. /\ UNCHANGED at /\ hurt \subseteq hurt' /\ hurt' \subseteq hurt \cup {r}
      /\ at[r] \in Unrecorded => r \in hurt'
      /\ owner' = None /\ owner = r /\ net' = net /\ key' = key
  BY DEF Timeout, Hurt, Requeue, ids
<1>2. "over" \in Stage \ (Unrecorded \cup Unsent)
  BY Stages
<1> QED BY <1>1, <1>2, EndsRun

LEMMA CrashStep == ASSUME IInv, Crash PROVE IInv'
<1>1. /\ at' = [r \in Run |-> IF at[r] = "new" THEN "new" ELSE "over"]
      /\ hurt' = hurt \cup {r \in Run : at[r] \in Unrecorded}
      /\ owner' = None /\ net' = net /\ key' = key
  BY DEF Crash, ids
<1>2. {"new", "over"} \subseteq Stage \ Unrecorded /\ "over" \notin Unsent /\ "new" \in Unsent
  BY DEF Stage, Unrecorded, Unsent
<1>3. net' \ hurt' \subseteq net \ hurt
  BY <1>1
<1>4. TypeInv' /\ Held' /\ PastSend' /\ Alone'
  BY <1>1, <1>2 DEF IInv, TypeInv, Held, PastSend, Alone
<1>5. Keyed' /\ Once'
  BY <1>1, <1>3 DEF IInv, TypeInv, Keyed, Once
<1> QED BY <1>4, <1>5 DEF IInv

\* The steps of a run between the guard and its end.
LEMMA RunStep ==
  ASSUME IInv, NEW r \in Run,
         \/ Replay(r) \/ Retell(r) \/ Prepare(r) \/ Save(r) \/ Unsave(r) \/ Map(r) \/ Reverse(r)
         \/ Key(r) \/ Answer(r) \/ Load(r) \/ Remap(r) \/ Reconcile(r) \/ Check(r) \/ Tell(r)
         \/ Complete(r)
  PROVE  IInv'
<1>1. net' = net
  BY DEF Replay, Retell, Prepare, Save, Unsave, Map, Reverse, Key, Answer, Load, Remap, Reconcile,
         Check, Tell, Complete
<1>2. CASE Replay(r) \/ Retell(r) \/ Load(r) \/ Remap(r) \/ Reconcile(r) \/ Check(r) \/ Tell(r)
             \/ Complete(r)
  <2> DEFINE Late == {"replay", "retell", "load", "remap", "reconcile", "check", "tell", "complete"}
  <2>1. Late \subseteq Stage \ (Unrecorded \cup Unsent) /\ at[r] \in Late /\ (key => key')
    BY <1>2 DEF Stage, Unrecorded, Unsent, Replay, Retell, Load, Remap, Reconcile, Check, Tell,
                Complete, ids
  <2>2. \/ \E to \in Late : Steps(r, to)
        \/ (Finish(r) \/ Throw(r)) /\ key' = key
    BY <1>2 DEF Replay, Retell, Load, Remap, Reconcile, Check, Tell, Complete, ids
  <2>3. ASSUME NEW to \in Late, Steps(r, to) PROVE IInv'
    <3> HIDE DEF Late
    <3> QED BY <1>1, <2>1, <2>3, StepsOn, "guard" \in Unrecorded DEF Unrecorded
  <2>4. CASE Finish(r) /\ key' = key
    BY <1>1, <2>1, <2>4, Finishes
  <2>5. CASE Throw(r) /\ key' = key
    BY <1>1, <2>5, Fails
  <2> QED BY <2>2, <2>3, <2>4, <2>5
<1>3. CASE Prepare(r) \/ Save(r) \/ Unsave(r)
  <2>1. /\ at[r] \in {"prepare", "save", "unsave"} /\ key' = key
        /\ {"prepare", "save", "unsave", "send"} \subseteq Stage \cap Unrecorded \cap Unsent
    BY <1>3 DEF Prepare, Save, Unsave, ids, Stage, Unrecorded, Unsent
  <2>2. SendFails(r) \/ \E to \in {"save", "unsave", "send"} : Steps(r, to)
    BY <1>3 DEF Prepare, Save, Unsave
  <2>3. ASSUME NEW to \in {"save", "unsave", "send"}, Steps(r, to) PROVE IInv'
    BY <1>1, <2>1, <2>3, StepsOn
  <2> QED BY <1>1, <2>1, <2>2, <2>3, Fails
<1>4. CASE Map(r) \/ Reverse(r)
  <2>1. /\ at[r] \in {"map", "reverse"} /\ key' = key
        /\ {"map", "reverse", "key"} \subseteq (Stage \cap Unrecorded) \ Unsent
    BY <1>4 DEF Map, Reverse, Stage, Unrecorded, Unsent
  <2>2. SendFails(r) \/ Steps(r, "reverse") \/ Steps(r, "key")
    BY <1>4 DEF Map, Reverse
  <2>3. CASE Steps(r, "reverse")
    BY <1>1, <2>1, <2>3, StepsOn
  <2>4. CASE Steps(r, "key")
    BY <1>1, <2>1, <2>4, StepsOn
  <2> QED BY <1>1, <2>1, <2>2, <2>3, <2>4, Fails
<1>5. CASE Key(r) \/ Answer(r)
  <2>1. /\ at[r] \in {"key", "answer"} /\ "answer" \notin Unrecorded
        /\ {"answer", "load"} \subseteq Stage \ (Unrecorded \cup Unsent)
    BY <1>5 DEF Key, Answer, Stage, Unrecorded, Unsent
  <2>2. \/ SendFails(r) /\ key' = key
        \/ at[r] = "key" /\ Steps(r, "answer") /\ key' = TRUE
        \/ at[r] = "answer" /\ Steps(r, "load") /\ key' = key
    BY <1>5 DEF Key, Answer, ids
  <2>3. CASE at[r] = "key" /\ Steps(r, "answer") /\ key' = TRUE
    BY <1>1, <2>1, <2>3, StepsOn
  <2>4. CASE at[r] = "answer" /\ Steps(r, "load") /\ key' = key
    BY <1>1, <2>1, <2>4, StepsOn
  <2>5. CASE SendFails(r) /\ key' = key
    BY <1>1, <2>5, Fails
  <2> QED BY <2>2, <2>3, <2>4, <2>5
<1> QED BY <1>2, <1>3, <1>4, <1>5

LEMMA InitInv == Init => IInv
<1> SUFFICES ASSUME Init PROVE IInv
  OBVIOUS
<1>1. /\ at = [r \in Run |-> "new"] /\ owner = None /\ net = {} /\ hurt = {}
      /\ "new" \in Stage \ Unrecorded
  BY DEF Init, Stage, Unrecorded
<1> QED BY <1>1 DEF IInv, TypeInv, Held, PastSend, Keyed, Alone, Once

LEMMA InvStep == IInv /\ [Next]_vars => IInv'
<1> SUFFICES ASSUME IInv, [Next]_vars PROVE IInv'
  OBVIOUS
<1>1. ASSUME NEW r \in Run, Proceed(r) PROVE IInv'
  BY <1>1, StartStep, GuardStep, SendStep, RunStep DEF Proceed
<1>2. ASSUME NEW r \in Run, Timeout(r) PROVE IInv'
  BY <1>2, TimeoutStep
<1>3. CASE Crash
  BY <1>3, CrashStep
<1>4. CASE Arrive \/ MarkScheduled \/ Listen \/ \E e \in Receipt : Receive(e)
  <2>1. UNCHANGED <<at, owner, net, hurt, key>>
    BY <1>4 DEF Arrive, MarkScheduled, Listen, Receive, Resolve, Forward, job, ids
  <2> QED BY <2>1, Quiet
<1>5. CASE UNCHANGED vars
  BY <1>5, Quiet DEF vars, job, ids
<1> QED BY <1>1, <1>2, <1>3, <1>4, <1>5 DEF Next

\* However many runs there are and whatever disturbs them, every send but one is that of
\* a run that was cut off, or blind, before the key was stored.
THEOREM NoUnexplainedResend == Spec => []SentOnce
<1>1. IInv => SentOnce
  <2> SUFFICES ASSUME Once PROVE Cardinality(net \ hurt) <= 1
    BY DEF IInv, SentOnce
  <2>1. CASE net \ hurt = {}
    BY <2>1, FS_EmptySet
  <2>2. ASSUME NEW r \in net \ hurt PROVE Cardinality(net \ hurt) <= 1
    <3>1. net \ hurt = {r}
      BY DEF Once
    <3>2. Cardinality({r}) = 1
      BY FS_Singleton
    <3> QED BY <3>1, <3>2
  <2> QED BY <2>1, <2>2
<1> QED BY InitInv, InvStep, <1>1, PTL DEF Spec

-----------------------------------------------------------------------------
(* What a job that was acked has done.                                       *)

Failed == <<Uno, "failed">> \in told
Explained == net # {} \/ Failed

Memory == [last : BOOLEAN, warn : BOOLEAN, early : SUBSET {"delivered", "read"},
           say : Status \cup {None}]

Remembered == /\ mem \in [Run -> Memory] /\ count \in Nat
              /\ status \in [Id -> Status \cup {None}] /\ reverse \in Run \cup {None}
              /\ inbox \subseteq Receipt /\ listening \subseteq Receipt \X (Id \cup {None})

\* Whatever the guard of a later run may find goes back to an accepted message, but
\* for the mark of the bulk sender.
Sources == /\ key => net # {}
           /\ reverse # None => net # {}
           /\ inbox # {} => net # {}
           /\ listening # {} => net # {}
           /\ \A i \in Id : status[i] \notin {None, "scheduled"} => net # {}
           /\ \A i \in Run : status[i] # "scheduled"

\* What a run has behind it at each stage.
AfterSend == {"map", "reverse", "key", "answer", "load", "remap", "reconcile", "check"}
Behind == \A r \in Run : /\ at[r] \in AfterSend => r \in net
                         /\ at[r] \in {"replay", "retell"} => net # {}
                         /\ at[r] = "tell" => mem[r].say = "failed" \/ net # {}
                         /\ at[r] = "complete" => Explained

FateInv == Remembered /\ Sources /\ Behind /\ SkippedWasSent

LEMMA Statuses == /\ Receipts \subseteq {"delivered", "read"}
                  /\ {"scheduled", "failed", "sent", "delivered", "read"} = Status
                  /\ \A r \in Run : r # Uno /\ r # None /\ r \in Id
                  /\ Uno \in Id /\ Uno # None
BY DEF Status, Id

\* What a provider or the guard can read.
LEMMA Loaded == ASSUME Remembered, Sources
                PROVE  /\ LoadStatus(Uno) \in Status \cup {None}
                       /\ LoadStatus(Uno) \notin {None, "scheduled"} => net # {}
                       /\ LoadStatus(Uno) = "scheduled" => status[Uno] = "scheduled"
<1>1. CASE status[Uno] # None
  BY <1>1, Statuses DEF LoadStatus, Remembered, Sources
<1>2. CASE status[Uno] = None /\ reverse # None
  BY <1>2, Statuses DEF LoadStatus, Remembered, Sources
<1>3. CASE status[Uno] = None /\ reverse = None
  BY <1>3, Statuses DEF LoadStatus, Remembered, Sources
<1> QED BY <1>1, <1>2, <1>3

LEMMA Ranks == ASSUME NEW s \in Status \cup {None}, Rank[s] >= Rank["sent"]
               PROVE  s \notin {None, "scheduled", "failed"}
<1>1. {None, "scheduled", "failed", "sent"} \subseteq Status \cup {None}
  BY DEF Status
<1>2. Rank[None] = 0 /\ Rank["scheduled"] = 0 /\ Rank["failed"] = 1 /\ Rank["sent"] = 3
  BY <1>1 DEF Rank
<1> QED BY <1>2

LEMMA Rewritten == ASSUME Remembered, NEW r \in Run, NEW b \in BOOLEAN
                   PROVE  /\ [mem EXCEPT ![r].warn = b] \in [Run -> Memory]
                          /\ [mem EXCEPT ![r].last = b] \in [Run -> Memory]
<1>1. ASSUME NEW m \in Memory PROVE [m EXCEPT !.warn = b] \in Memory
  BY DEF Memory
<1>2. ASSUME NEW m \in Memory PROVE [m EXCEPT !.last = b] \in Memory
  BY DEF Memory
<1> QED BY <1>1, <1>2 DEF Remembered

LEMMA RememberedStep ==
  ASSUME TypeInv, Remembered, Sources, NEW r \in Run, Proceed(r) PROVE Remembered'
<1>1. CASE Start(r)
  <2> DEFINE last == (count + 1 >= MaxRetries)
  <2>1. last \in BOOLEAN /\ mem' = [mem EXCEPT ![r].last = last]
    BY <1>1 DEF Start
  <2> HIDE DEF last
  <2>2. mem' \in [Run -> Memory]
    BY <2>1, Rewritten
  <2> QED BY <1>1, <2>2 DEF Start, Remembered, ids, receipts
<1>2. CASE Guard(r)
  BY <1>2, Statuses, Loaded DEF Guard, Remembered, Memory, Steps, Finish, Throw, Requeue, job,
         ids, receipts
<1>3. CASE Replay(r)
  BY <1>3, Statuses, Loaded DEF Replay, Remembered, Memory, Steps, Finish, Throw, Requeue, job,
         ids, receipts
<1>4. CASE Retell(r)
  BY <1>4, Statuses, Loaded DEF Retell, Remembered, Memory, Steps, Throw, Requeue, job, ids,
         receipts
<1>5. CASE Prepare(r)
  BY <1>5, Statuses, Loaded DEF Prepare, Remembered, Memory, SendFails, Steps, Throw, Requeue,
         job, ids, receipts
<1>6. CASE Save(r)
  <2>1. ASSUME mem' = [mem EXCEPT ![r].warn = TRUE] PROVE mem' \in [Run -> Memory]
    BY <2>1, Rewritten
  <2>2. ASSUME SendFails(r) PROVE mem' \in [Run -> Memory]
    BY <2>2, Statuses DEF Remembered, Memory, SendFails
  <2>3. mem' \in [Run -> Memory]
    BY <1>6, <2>1, <2>2 DEF Save
  <2> QED BY <1>6, <2>3 DEF Save, Remembered, SendFails, Steps, Throw, Requeue, job, ids, receipts
<1>7. CASE Unsave(r)
  BY <1>7, Statuses, Loaded DEF Unsave, Remembered, Memory, SendFails, Steps, Throw, Requeue,
         job, ids, receipts
<1>8. CASE Send(r)
  BY <1>8, Statuses, Loaded DEF Send, Remembered, Memory, SendFails, Steps, Throw, Requeue, job,
         ids, receipts
<1>9. CASE Map(r)
  BY <1>9, Statuses, Loaded DEF Map, Remembered, Memory, SendFails, Steps, Throw, Requeue, job,
         receipts
<1>10. CASE Reverse(r)
  BY <1>10, Statuses, Loaded DEF Reverse, Remembered, Memory, SendFails, Steps, Throw, Requeue,
         job, receipts
<1>11. CASE Key(r)
  BY <1>11, Statuses, Loaded DEF Key, Remembered, Memory, SendFails, Steps, Throw, Requeue, job,
         receipts
<1>12. CASE Answer(r)
  BY <1>12, Statuses, Loaded DEF Answer, Remembered, Memory, SendFails, Steps, Throw, Requeue,
         job, ids, receipts
<1>13. CASE Load(r)
  BY <1>13, Statuses, Loaded DEF Load, Remembered, Memory, Steps, Throw, Requeue, job, ids,
         receipts
<1>14. CASE Remap(r)
  BY <1>14, Statuses, Loaded DEF Remap, Remembered, Memory, Steps, Throw, Requeue, job, ids,
         receipts
<1>15. CASE Reconcile(r)
  BY <1>15, Statuses, Loaded DEF Reconcile, Remembered, Memory, Steps, job, ids, receipts
<1>16. CASE Check(r)
  BY <1>16, Statuses, Loaded DEF Check, Remembered, Memory, Steps, Finish, job, ids, receipts
<1>17. CASE Tell(r)
  BY <1>17, Statuses, Loaded DEF Tell, Remembered, Memory, Steps, Finish, Throw, Requeue, job,
         ids, receipts
<1>18. CASE Complete(r)
  BY <1>18, Statuses, Loaded DEF Complete, Remembered, Memory, Finish, Throw, Requeue, job, ids,
         receipts
<1> QED BY <1>1, <1>2, <1>3, <1>4, <1>5, <1>6, <1>7, <1>8, <1>9, <1>10, <1>11, <1>12, <1>13,
           <1>14, <1>15, <1>16, <1>17, <1>18 DEF Proceed

\* Nothing a guard may find is stored but after the network.
LEMMA SourcesKept == ASSUME Sources, UNCHANGED <<ids, receipts, status>>, net \subseteq net'
                     PROVE  Sources'
BY DEF Sources, ids, receipts

LEMMA SourcesStep ==
  ASSUME TypeInv, Remembered, Sources, Behind, NEW r \in Run, Proceed(r) PROVE Sources'
<1>1. CASE \/ Start(r) \/ Guard(r) \/ Replay(r) \/ Retell(r) \/ Prepare(r) \/ Save(r) \/ Unsave(r)
           \/ Send(r) \/ Answer(r) \/ Load(r) \/ Check(r) \/ Tell(r) \/ Complete(r)
  <2>1. UNCHANGED <<ids, receipts, status>> /\ net \subseteq net'
    BY <1>1 DEF Start, Guard, Replay, Retell, Prepare, Save, Unsave, Send, Answer, Load, Check,
                Tell, Complete
  <2> QED BY <2>1, SourcesKept
<1>2. CASE Map(r) \/ Reverse(r) \/ Key(r) \/ Remap(r)
  BY <1>2 DEF Map, Reverse, Key, Remap, Sources, Behind, AfterSend, ids, receipts
<1>3. CASE Reconcile(r)
  BY <1>3, Statuses DEF Reconcile, Sources, Behind, AfterSend, Remembered, ids, receipts
<1> QED BY <1>1, <1>2, <1>3 DEF Proceed

LEMMA BehindStep ==
  ASSUME TypeInv, Remembered, Sources, Behind, NEW r \in Run, Proceed(r) PROVE Behind'
<1>1. CASE Start(r)
  BY <1>1, Loaded DEF Start, Behind, Explained, Failed, AfterSend, Remembered, Memory, TypeInv,
         Go, client
<1>2. CASE Guard(r)
  <2>1. /\ at[r] = "guard" /\ net' = net /\ told' = told
        /\ \/ Go(r, "prepare") /\ UNCHANGED mem
           \/ Go(r, "over") /\ UNCHANGED mem
           \/ Go(r, "replay") /\ \E s \in Status \cup {None} : mem' = [mem EXCEPT ![r].say = s]
    BY <1>2, Loaded DEF Guard, Steps, Finish, Throw, client
  <2>2. ASSUME Go(r, "replay") PROVE net # {}
    <3>1. /\ "replay" # "prepare" /\ "replay" # "over"
          /\ at'[r] = "replay" /\ (Go(r, "prepare") => at'[r] = "prepare") /\ (Go(r, "over") => at'[r] = "over")
      BY <2>2 DEF Go, TypeInv
    <3>2. key \/ Rank[LoadStatus(Uno)] >= Rank["sent"]
      BY <1>2, <3>1 DEF Guard, Steps, Finish, Throw
    <3> QED BY <3>2, Loaded, Ranks DEF Sources
  <2>3. \A q \in Run \ {r} : mem'[q] = mem[q] /\ at'[q] = at[q]
    BY <2>1 DEF Go, Remembered, TypeInv
  <2> QED BY <2>1, <2>2, <2>3 DEF Behind, Explained, Failed, AfterSend, Go, TypeInv
<1>3. CASE Replay(r)
  BY <1>3, Loaded DEF Replay, Behind, Explained, Failed, AfterSend, Remembered, Memory, TypeInv,
         Steps, Finish, Throw, Go, client
<1>4. CASE Retell(r)
  BY <1>4, Loaded DEF Retell, Behind, Explained, Failed, AfterSend, Remembered, Memory, TypeInv,
         Steps, Throw, Go, client
<1>5. CASE Prepare(r)
  BY <1>5, Loaded DEF Prepare, Behind, Explained, Failed, AfterSend, Remembered, Memory, TypeInv,
         SendFails, Steps, Throw, Go, client
<1>6. CASE Save(r)
  BY <1>6, Loaded DEF Save, Behind, Explained, Failed, AfterSend, Remembered, Memory, TypeInv,
         SendFails, Steps, Throw, Go, client
<1>7. CASE Unsave(r)
  BY <1>7, Loaded DEF Unsave, Behind, Explained, Failed, AfterSend, Remembered, Memory, TypeInv,
         SendFails, Steps, Throw, Go, client
<1>8. CASE Send(r)
  BY <1>8, Loaded DEF Send, Behind, Explained, Failed, AfterSend, Remembered, Memory, TypeInv,
         SendFails, Steps, Throw, Go, client
<1>9. CASE Map(r)
  BY <1>9, Loaded DEF Map, Behind, Explained, Failed, AfterSend, Remembered, Memory, TypeInv,
         SendFails, Steps, Throw, Go, client
<1>10. CASE Reverse(r)
  BY <1>10, Loaded DEF Reverse, Behind, Explained, Failed, AfterSend, Remembered, Memory,
         TypeInv, SendFails, Steps, Throw, Go, client
<1>11. CASE Key(r)
  BY <1>11, Loaded DEF Key, Behind, Explained, Failed, AfterSend, Remembered, Memory, TypeInv,
         SendFails, Steps, Throw, Go, client
<1>12. CASE Answer(r)
  BY <1>12, Loaded DEF Answer, Behind, Explained, Failed, AfterSend, Remembered, Memory, TypeInv,
         SendFails, Steps, Throw, Go, client
<1>13. CASE Load(r)
  BY <1>13, Loaded DEF Load, Behind, Explained, Failed, AfterSend, Remembered, Memory, TypeInv,
         Steps, Throw, Go, client
<1>14. CASE Remap(r)
  BY <1>14, Loaded DEF Remap, Behind, Explained, Failed, AfterSend, Remembered, Memory, TypeInv,
         Steps, Throw, Go, client
<1>15. CASE Reconcile(r)
  BY <1>15, Loaded DEF Reconcile, Behind, Explained, Failed, AfterSend, Remembered, Memory,
         TypeInv, Steps, Go
<1>16. CASE Check(r)
  BY <1>16, Loaded DEF Check, Behind, Explained, Failed, AfterSend, Remembered, Memory, TypeInv,
         Steps, Finish, Go, client
<1>17. CASE Tell(r)
  BY <1>17, Loaded DEF Tell, Behind, Explained, Failed, AfterSend, Remembered, Memory, TypeInv,
         Steps, Finish, Throw, Go, client
<1>18. CASE Complete(r)
  BY <1>18, Loaded DEF Complete, Behind, Explained, Failed, AfterSend, Remembered, Memory,
         TypeInv, Finish, Throw, Go, client
<1> QED BY <1>1, <1>2, <1>3, <1>4, <1>5, <1>6, <1>7, <1>8, <1>9, <1>10, <1>11, <1>12, <1>13,
           <1>14, <1>15, <1>16, <1>17, <1>18 DEF Proceed

LEMMA SkippedStep ==
  ASSUME TypeInv, FateInv, NEW r \in Run, Proceed(r) PROVE SkippedWasSent'
<1> USE DEF FateInv
<1>1. CASE Start(r)
  BY <1>1, Loaded DEF Start, SkippedWasSent, SkipsOnlySent, Behind, AfterSend, Explained, Failed,
         client
<1>2. CASE Guard(r)
  BY <1>2, Loaded DEF Guard, Sources, SkippedWasSent, SkipsOnlySent, Behind, AfterSend, Explained, Failed,
         Steps, Finish, Throw, client
<1>3. CASE Replay(r)
  BY <1>3, Loaded DEF Replay, SkippedWasSent, SkipsOnlySent, Behind, AfterSend, Explained,
         Failed, Steps, Finish, Throw, client
<1>4. CASE Retell(r)
  BY <1>4, Loaded DEF Retell, SkippedWasSent, SkipsOnlySent, Behind, AfterSend, Explained,
         Failed, Steps, Throw, client
<1>5. CASE Prepare(r)
  BY <1>5, Loaded DEF Prepare, SkippedWasSent, SkipsOnlySent, Behind, AfterSend, Explained,
         Failed, SendFails, Steps, Throw, client
<1>6. CASE Save(r)
  BY <1>6, Loaded DEF Save, SkippedWasSent, SkipsOnlySent, Behind, AfterSend, Explained, Failed,
         SendFails, Steps, Throw, client
<1>7. CASE Unsave(r)
  BY <1>7, Loaded DEF Unsave, SkippedWasSent, SkipsOnlySent, Behind, AfterSend, Explained,
         Failed, SendFails, Steps, Throw, client
<1>8. CASE Send(r)
  BY <1>8, Loaded DEF Send, SkippedWasSent, SkipsOnlySent, Behind, AfterSend, Explained, Failed,
         SendFails, Steps, Throw, client
<1>9. CASE Map(r)
  BY <1>9, Loaded DEF Map, SkippedWasSent, SkipsOnlySent, Behind, AfterSend, Explained, Failed,
         SendFails, Steps, Throw, client
<1>10. CASE Reverse(r)
  BY <1>10, Loaded DEF Reverse, SkippedWasSent, SkipsOnlySent, Behind, AfterSend, Explained,
         Failed, SendFails, Steps, Throw, client
<1>11. CASE Key(r)
  BY <1>11, Loaded DEF Key, SkippedWasSent, SkipsOnlySent, Behind, AfterSend, Explained, Failed,
         SendFails, Steps, Throw, client
<1>12. CASE Answer(r)
  BY <1>12, Loaded DEF Answer, SkippedWasSent, SkipsOnlySent, Behind, AfterSend, Explained,
         Failed, SendFails, Steps, Throw, client
<1>13. CASE Load(r)
  BY <1>13, Loaded DEF Load, SkippedWasSent, SkipsOnlySent, Behind, AfterSend, Explained, Failed,
         Steps, Throw, client
<1>14. CASE Remap(r)
  BY <1>14, Loaded DEF Remap, SkippedWasSent, SkipsOnlySent, Behind, AfterSend, Explained,
         Failed, Steps, Throw, client
<1>15. CASE Reconcile(r)
  BY <1>15, Loaded DEF Reconcile, SkippedWasSent, SkipsOnlySent, Behind, AfterSend, Explained,
         Failed, Steps
<1>16. CASE Check(r)
  BY <1>16, Loaded DEF Check, SkippedWasSent, SkipsOnlySent, Behind, AfterSend, Explained,
         Failed, Steps, Finish, client
<1>17. CASE Tell(r)
  BY <1>17, Loaded DEF Tell, SkippedWasSent, SkipsOnlySent, Behind, AfterSend, Explained, Failed,
         Steps, Finish, Throw, client
<1>18. CASE Complete(r)
  BY <1>18, Loaded DEF Complete, SkippedWasSent, SkipsOnlySent, Behind, AfterSend, Explained,
         Failed, Finish, Throw, client
<1> QED BY <1>1, <1>2, <1>3, <1>4, <1>5, <1>6, <1>7, <1>8, <1>9, <1>10, <1>11, <1>12, <1>13,
           <1>14, <1>15, <1>16, <1>17, <1>18 DEF Proceed

\* What the listener and the others do to the sources.
LEMMA ForwardStep ==
  ASSUME TypeInv, FateInv, NEW l \in listening, Forward(l) PROVE FateInv'
<1> USE DEF FateInv
<1>1. PICK e \in Receipt, i \in Id \cup {None} : l = <<e, i>>
  BY DEF Remembered
<1>2. e[2] \in {"delivered", "read"} /\ net # {}
  BY <1>1 DEF Receipt, Remembered, Sources
<1>3. /\ status' = status \/ status' = [status EXCEPT ![i] = e[2]]
      /\ told \subseteq told' /\ listening' = {} /\ inbox' \subseteq inbox \cup {e}
      /\ UNCHANGED <<mem, at, count, net, ids, finished>>
  BY <1>1 DEF Forward, job
<1>4. Remembered' /\ Sources'
  BY <1>1, <1>2, <1>3, Statuses DEF Remembered, Sources, ids
<1>5. Behind' /\ SkippedWasSent'
  BY <1>2, <1>3 DEF Behind, Explained, Failed, SkippedWasSent, SkipsOnlySent
<1> QED BY <1>4, <1>5

LEMMA ResolveStep ==
  ASSUME TypeInv, FateInv, NEW e \in Receipt, Resolve(e) PROVE FateInv'
<1>1. /\ e \in inbox /\ inbox' \subseteq inbox
      /\ \E i \in Id : listening' = {<<e, i>>}
      /\ UNCHANGED <<mem, at, count, net, ids, status, told, finished>>
  BY Statuses DEF Resolve, job, client, Receipt
<1> QED BY <1>1 DEF FateInv, Remembered, Sources, Behind, Explained, Failed, SkippedWasSent,
           SkipsOnlySent, ids

LEMMA WorldStep ==
  ASSUME TypeInv, FateInv,
         \/ Arrive \/ MarkScheduled \/ Crash \/ \E r \in Run : Timeout(r)
         \/ \E e \in Receipt : Receive(e)
  PROVE  FateInv'
<1> USE DEF FateInv
<1>1. CASE Arrive
  BY <1>1 DEF Arrive, job, ids, receipts, client, Remembered, Sources, Behind, Explained, Failed,
              SkippedWasSent, SkipsOnlySent
<1>2. CASE MarkScheduled
  BY <1>2, Statuses DEF MarkScheduled, job, ids, receipts, client, Remembered, Sources, Behind,
              Explained, Failed, SkippedWasSent
<1>3. CASE Crash
  <2>1. Remembered'
    BY <1>3 DEF Crash, ids, Remembered
  <2>2. Sources'
    BY <1>3 DEF Crash, ids, Sources
  <2>3. Behind' /\ SkippedWasSent'
    BY <1>3 DEF Crash, client, Behind, AfterSend, TypeInv, SkippedWasSent, SkipsOnlySent
  <2> QED BY <2>1, <2>2, <2>3
<1>4. ASSUME NEW r \in Run, Timeout(r) PROVE FateInv'
  BY <1>4 DEF Timeout, Requeue, job, ids, receipts, client, Remembered, Sources, Behind,
              Explained, Failed, SkippedWasSent, SkipsOnlySent
<1>5. ASSUME NEW e \in Receipt, Receive(e) PROVE FateInv'
  BY <1>5 DEF Receive, job, ids, client, Remembered, Sources, Behind, Explained, Failed,
              SkippedWasSent, SkipsOnlySent
<1> QED BY <1>1, <1>2, <1>3, <1>4, <1>5

LEMMA FateStep == TypeInv /\ FateInv /\ [Next]_vars => FateInv'
<1> SUFFICES ASSUME TypeInv, FateInv, [Next]_vars PROVE FateInv'
  OBVIOUS
<1>1. ASSUME NEW r \in Run, Proceed(r) PROVE FateInv'
  BY <1>1, RememberedStep, SourcesStep, BehindStep, SkippedStep DEF FateInv
<1>2. CASE Listen
  BY <1>2, ForwardStep, ResolveStep DEF Listen
<1>3. CASE UNCHANGED vars
  BY <1>3 DEF vars, job, ids, receipts, client, FateInv, Remembered, Sources, Behind, Explained,
              Failed, SkippedWasSent, SkipsOnlySent
<1> QED BY <1>1, <1>2, <1>3, WorldStep DEF Next

LEMMA FateInit == Init => FateInv
<1> SUFFICES ASSUME Init PROVE FateInv
  OBVIOUS
<1>1. Remembered /\ Sources
  BY Statuses DEF Init, Remembered, Memory, Sources
<1>2. Behind /\ SkippedWasSent
  BY DEF Init, Behind, AfterSend, SkippedWasSent, SkipsOnlySent
<1> QED BY <1>1, <1>2 DEF FateInv

\* A job that was acked has sent the message, or told the client that it failed, in
\* every interleaving of its runs with receipts, timeouts and crashes, as long as the
\* stored status of the uno id is not the one BulkSenderJob writes.
THEOREM AckedIsSettled == Spec => []SkippedWasSent
<1>1. IInv => TypeInv
  BY DEF IInv
<1>2. FateInv => SkippedWasSent
  BY DEF FateInv
<1> QED BY InitInv, InvStep, FateInit, FateStep, <1>1, <1>2, PTL DEF Spec

-----------------------------------------------------------------------------
(* The warning of a reply that went out without its quote.                   *)

\* Unless a run went on after its timeout, a run that is under way holds the delivery, and
\* that of a reply was not cut off.
Owned == ~late => \A r \in Run : at[r] \notin {"new", "over"} => owner = r
Unstarted == \A r \in Run : at[r] = "new" => r \notin hurt
Undisturbed == Reply /\ ~late => \A r \in Run : at[r] \in Unrecorded => r \notin hurt
Calmly == Owned /\ Unstarted /\ Undisturbed

\* Only a reply is warned of, by a run that has stored the warning and not yet completed it.
Replies == \A r \in Run : mem[r].warn \/ at[r] \in {"save", "unsave"} => Reply
Unwarned == \A r \in Run : at[r] \in Unsent \ {"send"} => ~mem[r].warn
Concluded == \A r \in Run : at[r] = "complete" => warned \/ Failed
Pending == ~late => \A r \in Run : at[r] = "send" /\ mem[r].warn => outbox
Warnings == Replies /\ Unwarned /\ Concluded /\ Pending

WarnInv == Calmly /\ Warnings /\ WarningKept

\* Of the memory of a run, a step that notes a status leaves the warning alone.
LEMMA Noted ==
  ASSUME Remembered, NEW r \in Run, NEW x,
         mem' = mem \/ mem' = [mem EXCEPT ![r].say = x] \/ mem' = [mem EXCEPT ![r].early = x]
           \/ mem' = [mem EXCEPT ![r].last = x]
  PROVE  \A q \in Run : mem'[q].warn => mem[q].warn
BY DEF Remembered, Memory

\* A step that notes a status leaves the warnings alone; Save alone adds one.
Notes(r) == \/ \A q \in Run : mem'[q].warn => mem[q].warn
            \/ /\ Save(r) /\ Steps(r, "send") /\ outbox'
               /\ \A q \in Run \ {r} : mem'[q].warn => mem[q].warn

LEMMA Noting == ASSUME Remembered, NEW r \in Run, Proceed(r) PROVE Notes(r)
<1>1. CASE Start(r)
  BY <1>1, Noted DEF Notes, Start
<1>2. CASE Guard(r)
  BY <1>2, Noted DEF Notes, Guard
<1>3. CASE Replay(r)
  BY <1>3, Noted DEF Notes, Replay
<1>4. CASE Retell(r)
  BY <1>4, Noted DEF Notes, Retell
<1>5. CASE Prepare(r)
  BY <1>5, Noted DEF Notes, Prepare, SendFails
<1>6. CASE Save(r)
  <2>1. CASE Steps(r, "send") /\ outbox' = TRUE /\ mem' = [mem EXCEPT ![r].warn = TRUE]
    BY <1>6, <2>1 DEF Notes, Remembered
  <2>2. CASE SendFails(r)
    BY <2>2, Noted DEF Notes, SendFails
  <2> QED BY <1>6, <2>1, <2>2 DEF Notes, Save
<1>7. CASE Unsave(r)
  BY <1>7, Noted DEF Notes, Unsave, SendFails
<1>8. CASE Send(r)
  BY <1>8, Noted DEF Notes, Send, SendFails
<1>9. CASE Map(r)
  BY <1>9, Noted DEF Notes, Map, SendFails
<1>10. CASE Reverse(r)
  BY <1>10, Noted DEF Notes, Reverse, SendFails
<1>11. CASE Key(r)
  BY <1>11, Noted DEF Notes, Key, SendFails
<1>12. CASE Answer(r)
  BY <1>12, Noted DEF Notes, Answer, SendFails
<1>13. CASE Load(r)
  BY <1>13, Noted DEF Notes, Load
<1>14. CASE Remap(r)
  BY <1>14, Noted DEF Notes, Remap
<1>15. CASE Reconcile(r)
  BY <1>15, Noted DEF Notes, Reconcile
<1>16. CASE Check(r)
  BY <1>16, Noted DEF Notes, Check
<1>17. CASE Tell(r)
  BY <1>17, Noted DEF Notes, Tell
<1>18. CASE Complete(r)
  BY <1>18, Noted DEF Notes, Complete
<1> QED BY <1>1, <1>2, <1>3, <1>4, <1>5, <1>6, <1>7, <1>8, <1>9, <1>10, <1>11, <1>12, <1>13,
           <1>14, <1>15, <1>16, <1>17, <1>18 DEF Proceed

\* The stages a run may come from.
Moves(r) == /\ \A q \in Run \ {r} : at'[q] = at[q]
            /\ at'[r] \in {"save", "unsave"} => at[r] = "prepare" /\ Reply
            /\ at'[r] = "guard" => at[r] = "new"
            /\ at'[r] = "prepare" => at[r] = "guard"
            /\ at'[r] = "send" => (Save(r) /\ outbox') \/ at[r] = "unsave" \/ (at[r] = "prepare" /\ ~Reply)
            /\ at'[r] # "new"
            /\ at'[r] \in Unrecorded => Start(r) \/ at[r] \in Unrecorded

LEMMA Moving == ASSUME TypeInv, NEW r \in Run, Proceed(r) PROVE Moves(r)
<1>1. CASE Start(r)
  BY <1>1 DEF Moves, Start, TypeInv, Unrecorded, Go
<1>2. CASE Guard(r)
  BY <1>2 DEF Moves, Guard, TypeInv, Unrecorded, Steps, Finish, Throw, Go
<1>3. CASE Replay(r)
  BY <1>3 DEF Moves, Replay, TypeInv, Unrecorded, Steps, Finish, Throw, Go
<1>4. CASE Retell(r)
  BY <1>4 DEF Moves, Retell, TypeInv, Unrecorded, Steps, Throw, Go
<1>5. CASE Prepare(r)
  BY <1>5 DEF Moves, Prepare, TypeInv, Unrecorded, SendFails, Steps, Throw, Go
<1>6. CASE Save(r)
  BY <1>6 DEF Moves, Save, TypeInv, Unrecorded, SendFails, Steps, Throw, Go
<1>7. CASE Unsave(r)
  BY <1>7 DEF Moves, Unsave, TypeInv, Unrecorded, SendFails, Steps, Throw, Go
<1>8. CASE Send(r)
  BY <1>8 DEF Moves, Send, TypeInv, Unrecorded, SendFails, Steps, Throw, Go
<1>9. CASE Map(r)
  BY <1>9 DEF Moves, Map, TypeInv, Unrecorded, SendFails, Steps, Throw, Go
<1>10. CASE Reverse(r)
  BY <1>10 DEF Moves, Reverse, TypeInv, Unrecorded, SendFails, Steps, Throw, Go
<1>11. CASE Key(r)
  BY <1>11 DEF Moves, Key, TypeInv, Unrecorded, SendFails, Steps, Throw, Go
<1>12. CASE Answer(r)
  BY <1>12 DEF Moves, Answer, TypeInv, Unrecorded, SendFails, Steps, Throw, Go
<1>13. CASE Load(r)
  BY <1>13 DEF Moves, Load, TypeInv, Unrecorded, Steps, Throw, Go
<1>14. CASE Remap(r)
  BY <1>14 DEF Moves, Remap, TypeInv, Unrecorded, Steps, Throw, Go
<1>15. CASE Reconcile(r)
  BY <1>15 DEF Moves, Reconcile, TypeInv, Unrecorded, Steps, Go
<1>16. CASE Check(r)
  BY <1>16 DEF Moves, Check, TypeInv, Unrecorded, Steps, Finish, Go
<1>17. CASE Tell(r)
  BY <1>17 DEF Moves, Tell, TypeInv, Unrecorded, Steps, Finish, Throw, Go
<1>18. CASE Complete(r)
  BY <1>18 DEF Moves, Complete, TypeInv, Unrecorded, Finish, Throw, Go
<1> QED BY <1>1, <1>2, <1>3, <1>4, <1>5, <1>6, <1>7, <1>8, <1>9, <1>10, <1>11, <1>12, <1>13,
           <1>14, <1>15, <1>16, <1>17, <1>18 DEF Proceed

\* Who may hold the delivery, be cut off, or touch the outbox.
Holds(r) == /\ form' = form /\ late' = late
            /\ owner' = owner \/ at'[r] = "over" \/ (Start(r) /\ owner = None /\ owner' = r)
            /\ hurt \subseteq hurt' /\ hurt' \subseteq hurt \cup {r}
            /\ r \in hurt' \ hurt => at[r] \in Unrecorded /\ (~Reply \/ at'[r] \in {"over", "tell"})
            /\ net \subseteq net' /\ net' \subseteq net \cup {r}
            /\ r \in net' \ net => at[r] = "send"
            /\ warned => warned'
            /\ Failed => Failed'
            /\ outbox => outbox' \/ at[r] \in {"unsave", "complete"}
            /\ at'[r] = "complete" => warned' \/ Failed'

LEMMA Holding == ASSUME TypeInv, NEW r \in Run, Proceed(r) PROVE Holds(r)
<1>1. CASE Start(r)
  BY <1>1 DEF Holds, Start, TypeInv, Failed, Go, client, world
<1>2. CASE Guard(r)
  BY <1>2 DEF Holds, Guard, TypeInv, Failed, Steps, Finish, Throw, Requeue, Hurt, Go, job, client,
         world, Reply
<1>3. CASE Replay(r)
  BY <1>3 DEF Holds, Replay, TypeInv, Failed, Steps, Finish, Throw, Requeue, Hurt, Go, job, client,
         world
<1>4. CASE Retell(r)
  BY <1>4 DEF Holds, Retell, TypeInv, Failed, Steps, Throw, Requeue, Hurt, Go, job, client, world
<1>5. CASE Prepare(r)
  BY <1>5 DEF Holds, Prepare, TypeInv, Failed, SendFails, Steps, Throw, Requeue, Hurt, Go, job, client,
         world, Reply
<1>6. CASE Save(r)
  BY <1>6 DEF Holds, Save, TypeInv, Failed, SendFails, Steps, Throw, Requeue, Hurt, Go, job, client,
         world
<1>7. CASE Unsave(r)
  BY <1>7 DEF Holds, Unsave, TypeInv, Failed, SendFails, Steps, Throw, Requeue, Hurt, Go, job, client,
         world
<1>8. CASE Send(r)
  BY <1>8 DEF Holds, Send, TypeInv, Failed, SendFails, Steps, Throw, Requeue, Hurt, Go, job, client,
         world
<1>9. CASE Map(r)
  BY <1>9 DEF Holds, Map, TypeInv, Failed, SendFails, Steps, Throw, Requeue, Hurt, Go, job, client,
         world
<1>10. CASE Reverse(r)
  BY <1>10 DEF Holds, Reverse, TypeInv, Failed, SendFails, Steps, Throw, Requeue, Hurt, Go, job, client,
         world
<1>11. CASE Key(r)
  BY <1>11 DEF Holds, Key, TypeInv, Failed, SendFails, Steps, Throw, Requeue, Hurt, Go, job, client,
         world
<1>12. CASE Answer(r)
  BY <1>12 DEF Holds, Answer, TypeInv, Failed, SendFails, Steps, Throw, Requeue, Hurt, Go, job, client,
         world
<1>13. CASE Load(r)
  BY <1>13 DEF Holds, Load, TypeInv, Failed, Steps, Throw, Requeue, Hurt, Go, job, client, world
<1>14. CASE Remap(r)
  BY <1>14 DEF Holds, Remap, TypeInv, Failed, Steps, Throw, Requeue, Hurt, Go, job, client, world
<1>15. CASE Reconcile(r)
  BY <1>15 DEF Holds, Reconcile, TypeInv, Failed, Steps, Go, job, world
<1>16. CASE Check(r)
  BY <1>16 DEF Holds, Check, TypeInv, Failed, Steps, Finish, Go, job, client, world
<1>17. CASE Tell(r)
  <2>1. ASSUME at'[r] = "complete" PROVE warned' \/ Failed'
    <3>1. /\ told' = told \cup {<<Uno, mem[r].say>>}
          /\ warned' = (warned \/ (mem[r].warn /\ mem[r].say # "failed"))
          /\ mem[r].warn \/ mem[r].say = "failed"
      BY <1>17, <2>1 DEF Holds, Tell, Finish, Throw, Go, TypeInv
    <3> QED BY <3>1 DEF Holds, Failed
  <2>2. Failed => Failed'
    BY <1>17 DEF Holds, Tell, Failed, client
  <2>3. warned => warned'
    <3>1. (warned' = warned) \/ warned' = (warned \/ (mem[r].warn /\ mem[r].say # "failed"))
      BY <1>17 DEF Holds, Tell, client
    <3> QED BY <3>1, Zenon
  <2> QED BY <1>17, <2>1, <2>2, <2>3
        DEF Holds, Tell, TypeInv, Steps, Finish, Throw, Requeue, Hurt, Go, job, world
<1>18. CASE Complete(r)
  BY <1>18 DEF Holds, Complete, TypeInv, Failed, Finish, Throw, Requeue, Hurt, Go, job, client, world
<1> QED BY <1>1, <1>2, <1>3, <1>4, <1>5, <1>6, <1>7, <1>8, <1>9, <1>10, <1>11, <1>12, <1>13,
           <1>14, <1>15, <1>16, <1>17, <1>18 DEF Proceed

LEMMA CalmlyStep ==
  ASSUME TypeInv, Calmly, NEW r \in Run, Proceed(r) PROVE Calmly'
<1>0. Moves(r) /\ Holds(r)
  BY Moving, Holding
<1> USE <1>0 DEF Moves, Holds
<1>1. Owned'
  <2> SUFFICES ASSUME ~late', NEW q \in Run, at'[q] \notin {"new", "over"} PROVE owner' = q
    BY DEF Owned
  <2>1. CASE q = r /\ Start(r)
    BY <2>1 DEF Start
  <2>2. CASE q = r /\ ~Start(r)
    <3>1. at[r] # "new" /\ at[r] # "over"
      BY <2>2 DEF Proceed, Guard, Replay, Retell, Prepare, Save, Unsave, Send, Map, Reverse, Key,
                  Answer, Load, Remap, Reconcile, Check, Tell, Complete
    <3> QED BY <2>2, <3>1 DEF Calmly, Owned
  <2>3. CASE q # r
    <3>1. owner = q
      BY <2>3 DEF Calmly, Owned
    <3>2. at[r] \in {"new", "over"} /\ ~Start(r)
      BY <2>3, <3>1 DEF Calmly, Owned, Start, SendAssumption
    <3> QED BY <3>2 DEF Proceed, Guard, Replay, Retell, Prepare, Save, Unsave, Send, Map, Reverse,
                        Key, Answer, Load, Remap, Reconcile, Check, Tell, Complete
  <2> QED BY <2>1, <2>2, <2>3
<1>2. Unstarted'
  BY DEF Calmly, Unstarted, Unrecorded
<1>3. Undisturbed'
  <2> SUFFICES ASSUME Reply, ~late, NEW q \in Run, at'[q] \in Unrecorded PROVE q \notin hurt'
    BY DEF Undisturbed, Reply
  <2>1. CASE q # r
    BY <2>1 DEF Calmly, Undisturbed
  <2>2. CASE q = r /\ Start(r)
    BY <2>2 DEF Calmly, Unstarted, Start
  <2>3. CASE q = r /\ ~Start(r)
    BY <2>3 DEF Calmly, Undisturbed, Unrecorded
  <2> QED BY <2>1, <2>2, <2>3
<1> QED BY <1>1, <1>2, <1>3 DEF Calmly

\* Without a run that was given up for late, at most one run is under way.
LEMMA OneUnderWay ==
  ASSUME Calmly, ~late, NEW r \in Run, NEW q \in Run,
         at[r] \notin {"new", "over"}, at[q] \notin {"new", "over"}
  PROVE  r = q
BY DEF Calmly, Owned

LEMMA WarningsStep ==
  ASSUME TypeInv, Remembered, Calmly, Warnings, NEW r \in Run, Proceed(r) PROVE Warnings'
<1>0. Moves(r) /\ Holds(r) /\ Notes(r)
  BY Moving, Holding, Noting
<1> USE <1>0 DEF Moves, Holds, Notes, Warnings
<1>1. Replies'
  BY DEF Replies, Save, Reply
<1>2. Unwarned'
  <2> SUFFICES ASSUME NEW q \in Run, at'[q] \in Unsent \ {"send"} PROVE ~mem'[q].warn
    BY DEF Unwarned
  <2>1. CASE q # r
    BY <2>1 DEF Unwarned
  <2>2. CASE q = r
    <3>1. at[r] \in Unsent \ {"send"}
      BY <2>2 DEF Unsent
    <3>2. at'[r] # "send"
      BY <2>2
    <3>3. ~Steps(r, "send")
      BY <3>2 DEF Steps, Go, TypeInv
    <3> QED BY <2>2, <3>1, <3>3 DEF Unwarned
  <2> QED BY <2>1, <2>2
<1>3. Concluded'
  <2> SUFFICES ASSUME NEW q \in Run, at'[q] = "complete" PROVE warned' \/ Failed'
    BY DEF Concluded
  <2>1. CASE q # r
    BY <2>1 DEF Concluded
  <2> QED BY <2>1
<1>4. Pending'
  <2> SUFFICES ASSUME ~late, NEW q \in Run, at'[q] = "send", mem'[q].warn PROVE outbox'
    BY DEF Pending
  <2>1. CASE q = r
    <3>1. CASE Save(r)
      BY <2>1, <3>1 DEF Save
    <3>2. CASE ~Save(r)
      <4>1. mem[r].warn
        BY <2>1, <3>2
      <4> QED BY <2>1, <3>2, <4>1 DEF Unwarned, Unsent, Replies
    <3> QED BY <3>1, <3>2
  <2>2. CASE q # r
    <3>1. at[q] = "send" /\ mem[q].warn
      BY <2>2
    <3>2. at[r] \notin {"unsave", "complete"}
      BY <2>2, <3>1, OneUnderWay
    <3> QED BY <3>1, <3>2 DEF Pending
  <2> QED BY <2>1, <2>2
<1> QED BY <1>1, <1>2, <1>3, <1>4

LEMMA KeptStep ==
  ASSUME IInv, Remembered, WarnInv, NEW r \in Run, Proceed(r) PROVE WarningKept'
<1> USE DEF IInv, WarnInv, Warnings
<1>0. Moves(r) /\ Holds(r) /\ Notes(r)
  BY Moving, Holding, Noting
<1> USE <1>0 DEF Moves, Holds, Notes
<1> SUFFICES ASSUME ~late', ~warned', ~Failed', NEW q \in net' \ hurt', mem'[q].warn
             PROVE  outbox'
  BY DEF WarningKept, Unquoted, Failed
<1>1. q \in Run /\ q \notin hurt
  BY DEF TypeInv
<1>2. CASE Save(r) /\ outbox'
  BY <1>2
<1>3. CASE \A p \in Run : mem'[p].warn => mem[p].warn
  <2>1. mem[q].warn
    BY <1>1, <1>3
  <2>2. Reply
    BY <1>1, <2>1 DEF Replies
  <2>3. CASE q \notin net
    <3>1. q = r /\ at[r] = "send"
      BY <2>3
    <3> QED BY <2>1, <3>1 DEF Pending
  <2>4. CASE q \in net
    <3>1. outbox
      BY <1>1, <2>1, <2>4 DEF WarningKept, Unquoted, Failed
    <3>2. at[r] # "complete"
      BY DEF Concluded
    <3>3. ASSUME at[r] = "unsave" PROVE FALSE
      <4>1. at[r] \in Unrecorded \ {"guard"} /\ at[r] \in Unsent
        BY <3>3 DEF Unrecorded, Unsent
      <4>2. r \notin hurt
        BY <2>2, <4>1 DEF Calmly, Undisturbed
      <4>3. q = r
        BY <1>1, <2>4, <4>1, <4>2 DEF Alone
      <4> QED BY <2>4, <4>1, <4>3 DEF PastSend
    <3> QED BY <3>1, <3>2, <3>3
  <2> QED BY <2>3, <2>4
<1> QED BY <1>2, <1>3

LEMMA WarnWorld ==
  ASSUME TypeInv, Remembered, WarnInv,
         \/ Arrive \/ MarkScheduled \/ Listen \/ Crash \/ UNCHANGED vars
         \/ \E r \in Run : Timeout(r)
         \/ \E e \in Receipt : Receive(e)
  PROVE  WarnInv'
<1> USE DEF WarnInv
<1>1. CASE Arrive \/ MarkScheduled \/ Listen \/ UNCHANGED vars \/ \E e \in Receipt : Receive(e)
  <2>1. /\ UNCHANGED <<owner, at, mem, form, late, net, outbox, warned, hurt>>
        /\ Failed => Failed'
    BY <1>1 DEF Arrive, MarkScheduled, Listen, Resolve, Forward, Receive, vars, job, world, client, Failed
  <2> QED BY <2>1 DEF Calmly, Owned, Unstarted, Undisturbed, Warnings, Replies, Unwarned, Concluded,
                Pending, WarningKept, Unquoted, Failed, Reply
<1>2. CASE Crash
  <2>1. /\ at' = [r \in Run |-> IF at[r] = "new" THEN "new" ELSE "over"]
        /\ hurt' = hurt \cup {r \in Run : at[r] \in Unrecorded}
        /\ UNCHANGED <<mem, form, late, net, outbox, told, warned>>
    BY <1>2 DEF Crash, world, client
  <2>2. Calmly'
    BY <2>1 DEF Calmly, Owned, Unstarted, Undisturbed, Unrecorded, Reply
  <2>3. Warnings'
    BY <2>1 DEF Warnings, Replies, Unwarned, Unsent, Concluded, Pending, Reply
  <2>4. WarningKept'
    BY <2>1 DEF WarningKept, Unquoted, Failed
  <2> QED BY <2>2, <2>3, <2>4
<1>3. ASSUME NEW r \in Run, Timeout(r) PROVE WarnInv'
  <2>1. /\ UNCHANGED <<at, mem, form, net, outbox, told, warned>> /\ late'
        /\ hurt \subseteq hurt' /\ hurt' \subseteq hurt \cup {r}
        /\ r \in hurt' \ hurt => at[r] \in Unrecorded
    BY <1>3 DEF Timeout, Hurt, client
  <2>2. Calmly'
    BY <2>1 DEF Calmly, Owned, Unstarted, Undisturbed, Unrecorded
  <2>3. Warnings' /\ WarningKept'
    BY <2>1 DEF Warnings, Replies, Unwarned, Concluded, Pending, WarningKept, Failed, Reply
  <2> QED BY <2>2, <2>3
<1> QED BY <1>1, <1>2, <1>3

LEMMA WarnStep == IInv /\ FateInv /\ WarnInv /\ [Next]_vars => WarnInv'
<1> SUFFICES ASSUME IInv, FateInv, WarnInv, [Next]_vars PROVE WarnInv'
  OBVIOUS
<1> USE DEF IInv, FateInv
<1>1. ASSUME NEW r \in Run, Proceed(r) PROVE WarnInv'
  BY <1>1, CalmlyStep, WarningsStep, KeptStep DEF WarnInv
<1> QED BY <1>1, WarnWorld DEF Next

LEMMA WarnInit == Init => WarnInv
BY DEF Init, WarnInv, Calmly, Owned, Unstarted, Undisturbed, Unrecorded, Warnings, Replies, Unwarned,
       Concluded, Pending, WarningKept, Unquoted

\* The warning of a reply that went out without its quote stays in the outbox, whatever
\* fails and whichever run of the job comes next, until the client was told of it or of a
\* failure; only a run that went on after its timeout may take it away.
THEOREM WarningStays == Spec => []WarningKept
<1>1. WarnInv => WarningKept
  BY DEF WarnInv
<1> QED BY InitInv, InvStep, FateInit, FateStep, WarnInit, WarnStep, <1>1, PTL DEF Spec, IInv
-----------------------------------------------------------------------------
(* The types.                                                                *)

\* What is queued or under way can be tried once more.
Counted == /\ count \in 0..MaxRetries /\ waiting \in BOOLEAN
           /\ waiting \/ owner # None => count < MaxRetries

Plain == /\ form \in Messages /\ finished \subseteq Run /\ budget \in 0..Budget
         /\ {quotable, outbox, key, warned, unmarked, late} \subseteq BOOLEAN

\* From the storing of the reverse mapping on, there is one.
Settling == {"key", "answer", "load", "remap"}
Mapping == mapped \subseteq Run /\ \A r \in Run : at[r] \in Settling => reverse # None

\* The listener works on one receipt of an accepted message at a time.
Listening == /\ inbox \subseteq came /\ came \subseteq net \X Receipts
             /\ listening \subseteq came \X Id /\ \A l, m \in listening : l = m

\* Only statuses are told.
Telling == told \subseteq Id \X Status /\ \A r \in Run : at[r] = "tell" => mem[r].say \in Status

SendTypes == Counted /\ Plain /\ Mapping /\ Listening /\ Telling

\* What the step of a run does to the delivery.
LEMMA Queued ==
  ASSUME NEW r \in Run, Proceed(r)
  PROVE  \/ UNCHANGED job
         \/ Requeue(r)
         \/ UNCHANGED <<waiting, count>> /\ owner' \in {owner, None}
         \/ waiting /\ count' = count /\ waiting' = FALSE
<1>1. CASE Start(r)
  BY <1>1 DEF Start
<1>2. ASSUME \/ \E to : Steps(r, to)
             \/ Throw(r)
             \/ Finish(r)
             \/ SendFails(r)
             \/ UNCHANGED job
      PROVE  \/ UNCHANGED job \/ Requeue(r)
             \/ UNCHANGED <<waiting, count>> /\ owner' \in {owner, None}
  BY <1>2 DEF Steps, Throw, Finish, SendFails
<1>3. CASE Guard(r) \/ Replay(r) \/ Retell(r) \/ Prepare(r) \/ Save(r) \/ Unsave(r)
  BY <1>2, <1>3 DEF Guard, Replay, Retell, Prepare, Save, Unsave
<1>4. CASE Send(r) \/ Map(r) \/ Reverse(r) \/ Key(r) \/ Answer(r) \/ Load(r)
  BY <1>2, <1>4 DEF Send, Map, Reverse, Key, Answer, Load
<1>5. CASE Remap(r) \/ Reconcile(r) \/ Check(r) \/ Tell(r) \/ Complete(r)
  BY <1>2, <1>5 DEF Remap, Reconcile, Check, Tell, Complete
<1> QED BY <1>1, <1>3, <1>4, <1>5 DEF Proceed

LEMMA Recounted ==
  ASSUME Counted, NEW r \in Run,
         \/ UNCHANGED job
         \/ Requeue(r)
         \/ UNCHANGED <<waiting, count>> /\ owner' \in {owner, None}
         \/ waiting /\ count' = count /\ waiting' = FALSE
  PROVE  Counted'
<1>1. CASE owner = r /\ Requeue(r)
  <2> DEFINE again == (count + 1 < MaxRetries)
  <2>1. owner' = None /\ count' = count + 1 /\ waiting' = again
    BY <1>1 DEF Requeue
  <2>2. count \in Nat /\ count < MaxRetries
    BY <1>1, SendAssumption DEF Counted
  <2>3. again \in BOOLEAN
    OBVIOUS
  <2>4. again => count + 1 < MaxRetries
    OBVIOUS
  <2> HIDE DEF again
  <2> QED BY <2>1, <2>2, <2>3, <2>4 DEF Counted
<1>2. CASE UNCHANGED <<waiting, count>> /\ (owner' = owner \/ owner' = None)
  BY <1>2 DEF Counted
<1>3. CASE waiting /\ count' = count /\ waiting' = FALSE
  BY <1>3 DEF Counted
<1> QED BY <1>1, <1>2, <1>3 DEF Requeue, job

\* Of what a step of a run does to the plain variables.
LEMMA PlainStep == ASSUME Plain, TypeInv, NEW r \in Run, Proceed(r) PROVE Plain'
<1>1. finished' \subseteq finished \cup {r} /\ UNCHANGED world
  BY DEF Proceed, Start, Guard, Replay, Retell, Prepare, Save, Unsave, Send, Map, Reverse, Key, Answer,
         Load, Remap, Reconcile, Check, Tell, Complete, Steps, Throw, Finish, SendFails, world
<1>2. UNCHANGED budget \/ (budget > 0 /\ budget' = budget - 1)
  BY DEF Proceed, Start, Guard, Replay, Retell, Prepare, Save, Unsave, Send, Map, Reverse, Key, Answer,
         Load, Remap, Reconcile, Check, Tell, Complete, Calm, Spend
<1>3. outbox' \in {outbox, TRUE, FALSE}
  BY DEF Proceed, Start, Guard, Replay, Retell, Prepare, Save, Unsave, Send, Map, Reverse, Key, Answer,
         Load, Remap, Reconcile, Check, Tell, Complete
<1>4. key' \in {key, TRUE}
  BY DEF Proceed, Start, Guard, Replay, Retell, Prepare, Save, Unsave, Send, Map, Reverse, Key, Answer,
         Load, Remap, Reconcile, Check, Tell, Complete, ids
<1>5. warned' \in BOOLEAN
  <2>1. CASE Tell(r)
    <3> DEFINE with == (warned \/ (mem[r].warn /\ mem[r].say # "failed"))
    <3>1. warned' = with \/ warned' = warned
      BY <2>1 DEF Tell, client
    <3>2. with \in BOOLEAN
      OBVIOUS
    <3> HIDE DEF with
    <3> QED BY <3>1, <3>2 DEF Plain
  <2>2. CASE ~Tell(r)
    <3>1. warned' \in {warned, TRUE}
      BY <2>2 DEF Proceed, Start, Guard, Replay, Retell, Prepare, Save, Unsave, Send, Map, Reverse, Key,
                  Answer, Load, Remap, Reconcile, Check, Complete, client
    <3> QED BY <3>1 DEF Plain
  <2> QED BY <2>1, <2>2
<1>6. budget' \in 0..Budget
  BY <1>2, SendAssumption DEF Plain
<1> QED BY <1>1, <1>3, <1>4, <1>5, <1>6 DEF Plain, world

\* The reverse mapping a run relies on is stored before.
Maps(r) == /\ at'[r] \in Settling => at[r] \in Settling \/ reverse' = r
           /\ reverse' \in {reverse, r}
           /\ mapped' \subseteq mapped \cup {r} \/ (at[r] = "remap" /\ mapped' = mapped \cup {reverse})

LEMMA Settled == ASSUME TypeInv, NEW r \in Run, Proceed(r) PROVE Maps(r)
<1>1. CASE Start(r)
  BY <1>1, Statuses DEF Maps, Settling, ids, Start, Steps, Finish, Throw, Go, TypeInv
<1>2. CASE Guard(r)
  BY <1>2, Statuses DEF Maps, Settling, ids, Guard, Steps, Finish, Throw, Go, TypeInv
<1>3. CASE Replay(r)
  BY <1>3, Statuses DEF Maps, Settling, ids, Replay, Steps, Finish, Throw, Go, TypeInv
<1>4. CASE Retell(r)
  BY <1>4, Statuses DEF Maps, Settling, ids, Retell, Steps, Finish, Throw, Go, TypeInv
<1>5. CASE Prepare(r)
  BY <1>5, Statuses DEF Maps, Settling, ids, Prepare, SendFails, Steps, Finish, Throw, Go, TypeInv
<1>6. CASE Save(r)
  BY <1>6, Statuses DEF Maps, Settling, ids, Save, SendFails, Steps, Finish, Throw, Go, TypeInv
<1>7. CASE Unsave(r)
  BY <1>7, Statuses DEF Maps, Settling, ids, Unsave, SendFails, Steps, Finish, Throw, Go, TypeInv
<1>8. CASE Send(r)
  BY <1>8, Statuses DEF Maps, Settling, ids, Send, SendFails, Steps, Finish, Throw, Go, TypeInv
<1>9. CASE Map(r)
  BY <1>9, Statuses DEF Maps, Settling, ids, Map, SendFails, Steps, Finish, Throw, Go, TypeInv
<1>10. CASE Reverse(r)
  BY <1>10, Statuses DEF Maps, Settling, ids, Reverse, SendFails, Steps, Finish, Throw, Go, TypeInv
<1>11. CASE Key(r)
  BY <1>11, Statuses DEF Maps, Settling, ids, Key, SendFails, Steps, Finish, Throw, Go, TypeInv
<1>12. CASE Answer(r)
  BY <1>12, Statuses DEF Maps, Settling, ids, Answer, SendFails, Steps, Finish, Throw, Go, TypeInv
<1>13. CASE Load(r)
  BY <1>13, Statuses DEF Maps, Settling, ids, Load, Steps, Finish, Throw, Go, TypeInv
<1>14. CASE Remap(r)
  BY <1>14, Statuses DEF Maps, Settling, ids, Remap, Steps, Finish, Throw, Go, TypeInv
<1>15. CASE Reconcile(r)
  BY <1>15, Statuses DEF Maps, Settling, ids, Reconcile, Steps, Finish, Throw, Go, TypeInv
<1>16. CASE Check(r)
  BY <1>16, Statuses DEF Maps, Settling, ids, Check, Steps, Finish, Throw, Go, TypeInv
<1>17. CASE Tell(r)
  BY <1>17, Statuses DEF Maps, Settling, ids, Tell, Steps, Finish, Throw, Go, TypeInv
<1>18. CASE Complete(r)
  BY <1>18, Statuses DEF Maps, Settling, ids, Complete, Steps, Finish, Throw, Go, TypeInv
<1> QED BY <1>1, <1>2, <1>3, <1>4, <1>5, <1>6, <1>7, <1>8, <1>9,
           <1>10, <1>11, <1>12, <1>13, <1>14, <1>15, <1>16, <1>17, <1>18 DEF Proceed

\* A run is about to tell a status, and what one tells is a status.
Says(r) == /\ \A q \in Run \ {r} : mem'[q] = mem[q]
           /\ at'[r] = "tell" => mem'[r].say \in Status

LEMMA Announced ==
  ASSUME TypeInv, Remembered, Sources, NEW r \in Run, Proceed(r) PROVE Says(r)
<1> USE DEF Says
<1>1. mem \in [Run -> Memory] /\ at \in [Run -> Stage] /\ "failed" \in Status /\ "sent" \in Status
  BY DEF Remembered, TypeInv, Status
<1>2. ASSUME SendFails(r) PROVE Says(r)
  <2>1. CASE mem[r].last
    BY <1>1, <1>2, <2>1 DEF SendFails, Memory
  <2>2. CASE ~mem[r].last
    BY <1>1, <1>2, <2>2 DEF SendFails, Throw, Go
  <2> QED BY <2>1, <2>2
<1>3. CASE Start(r)
  BY <1>1, <1>3 DEF Start, Steps, Finish, Throw, Go
<1>4. CASE Guard(r)
  BY <1>1, <1>4 DEF Guard, Steps, Finish, Throw, Go
<1>5. CASE Replay(r)
  BY <1>1, <1>5 DEF Replay, Steps, Finish, Throw, Go
<1>6. CASE Retell(r)
  BY <1>1, <1>6 DEF Retell, Steps, Finish, Throw, Go
<1>7. CASE Prepare(r)
  BY <1>1, <1>7, <1>2 DEF Prepare, Steps, Finish, Throw, Go
<1>8. CASE Save(r)
  BY <1>1, <1>8, <1>2 DEF Save, Steps, Finish, Throw, Go
<1>9. CASE Unsave(r)
  BY <1>1, <1>9, <1>2 DEF Unsave, Steps, Finish, Throw, Go
<1>10. CASE Send(r)
  <2>1. CASE mem' = [mem EXCEPT ![r].say = "failed"]
    BY <1>1, <2>1 DEF Memory
  <2>2. CASE Steps(r, "map") /\ UNCHANGED mem
    BY <1>1, <2>2 DEF Steps, Go
  <2> QED BY <1>10, <1>2, <2>1, <2>2 DEF Send
<1>11. CASE Map(r)
  BY <1>1, <1>11, <1>2 DEF Map, Steps, Finish, Throw, Go
<1>12. CASE Reverse(r)
  BY <1>1, <1>12, <1>2 DEF Reverse, Steps, Finish, Throw, Go
<1>13. CASE Key(r)
  BY <1>1, <1>13, <1>2 DEF Key, Steps, Finish, Throw, Go
<1>14. CASE Answer(r)
  BY <1>1, <1>14, <1>2 DEF Answer, Steps, Finish, Throw, Go
<1>15. CASE Load(r)
  BY <1>1, <1>15 DEF Load, Steps, Finish, Throw, Go
<1>16. CASE Remap(r)
  BY <1>1, <1>16 DEF Remap, Steps, Finish, Throw, Go
<1>17. CASE Reconcile(r)
  BY <1>1, <1>17 DEF Reconcile, Steps, Go, Memory
<1>18. CASE Check(r)
  <2> DEFINE before == LoadStatus(Uno)
  <2>1. before \in Status \cup {None}
    BY Loaded
  <2>2. Advanced(before) => before \in Status
    <3>1. Rank[None] = 0 /\ Rank["delivered"] = 4
      BY Statuses DEF Rank
    <3> QED BY <2>1, <3>1 DEF Advanced
  <2>3. CASE Finish(r) /\ UNCHANGED mem
    BY <1>1, <2>3 DEF Finish, Go
  <2>4. ASSUME NEW s \in Status, mem' = [mem EXCEPT ![r].say = s] PROVE Says(r)
    BY <1>1, <2>4 DEF Memory
  <2> HIDE DEF before
  <2>5. \/ Finish(r) /\ UNCHANGED mem
        \/ mem' = [mem EXCEPT ![r].say = "sent"]
        \/ Advanced(before) /\ mem' = [mem EXCEPT ![r].say = before]
    BY <1>18 DEF Check, before
  <2> QED BY <1>1, <2>2, <2>3, <2>4, <2>5
<1>19. CASE Tell(r)
  BY <1>1, <1>19 DEF Tell, Steps, Finish, Throw, Go
<1>20. CASE Complete(r)
  BY <1>1, <1>20 DEF Complete, Steps, Finish, Throw, Go
<1> QED BY <1>3, <1>4, <1>5, <1>6, <1>7, <1>8, <1>9, <1>10, <1>11,
           <1>12, <1>13, <1>14, <1>15, <1>16, <1>17, <1>18, <1>19, <1>20 DEF Proceed

LEMMA Told ==
  ASSUME Remembered, Telling, NEW r \in Run, Proceed(r)
  PROVE  told' \subseteq told \cup ({Uno} \X Status)
<1>1. CASE Tell(r)
  BY <1>1 DEF Tell, client, Telling
<1>2. CASE Retell(r)
  <2> DEFINE say == IF Advanced(mem[r].say) THEN mem[r].say ELSE "sent"
  <2>1. Rank[None] = 0 /\ Rank["delivered"] = 4
    BY Statuses DEF Rank
  <2>2. say \in Status
    BY <2>1 DEF Remembered, Memory, Advanced, Status
  <2>3. told' = told \cup {<<Uno, say>>} \/ told' = told
    BY <1>2 DEF Retell, client
  <2> HIDE DEF say
  <2> QED BY <2>2, <2>3
<1>3. CASE Reconcile(r)
  <2>1. mem[r].early \subseteq Status
    BY Statuses DEF Remembered, Memory
  <2>2. told' = told \cup ({Uno} \X mem[r].early) \/ told' = told
    BY <1>3 DEF Reconcile
  <2> QED BY <2>1, <2>2
<1> QED BY <1>1, <1>2, <1>3 DEF Proceed, Start, Guard, Replay, Prepare, Save, Unsave, Send, Map,
           Reverse, Key, Answer, Load, Remap, Check, Complete, client

LEMMA MappingStep ==
  ASSUME TypeInv, Remembered, Mapping, NEW r \in Run, Proceed(r) PROVE Mapping'
<1>1. Maps(r) /\ \A q \in Run \ {r} : at'[q] = at[q]
  BY Settled, Moving DEF Moves
<1>2. reverse # None => reverse' # None
  BY <1>1, Statuses DEF Maps
<1>3. \A q \in Run : at'[q] \in Settling => reverse' # None
  BY <1>1, <1>2, Statuses DEF Maps, Mapping
<1>4. mapped' \subseteq Run
  BY <1>1 DEF Maps, Mapping, Remembered, Settling
<1> QED BY <1>3, <1>4 DEF Mapping

LEMMA TellingStep ==
  ASSUME TypeInv, Remembered, Sources, Telling, NEW r \in Run, Proceed(r) PROVE Telling'
<1>1. Says(r) /\ \A q \in Run \ {r} : at'[q] = at[q]
  BY Announced, Moving DEF Moves
<1>2. told' \subseteq Id \X Status
  BY Told, Statuses DEF Telling
<1> QED BY <1>1, <1>2 DEF Says, Telling

LEMMA RunTypes ==
  ASSUME IInv, FateInv, SendTypes, NEW r \in Run, Proceed(r) PROVE SendTypes'
<1> USE DEF IInv, FateInv, SendTypes
<1>1. Counted'
  BY Queued, Recounted
<1>2. Plain' /\ Mapping' /\ Telling'
  BY PlainStep, MappingStep, TellingStep
<1>3. UNCHANGED receipts /\ net \subseteq net'
  BY DEF Proceed, Start, Guard, Replay, Retell, Prepare, Save, Unsave, Send, Map, Reverse, Key, Answer,
         Load, Remap, Reconcile, Check, Tell, Complete
<1>4. Listening'
  BY <1>3 DEF Listening, receipts
<1> QED BY <1>1, <1>2, <1>4

LEMMA ReceiptTypes ==
  ASSUME IInv, FateInv, SendTypes, Listen \/ \E e \in Receipt : Receive(e) PROVE SendTypes'
<1> USE DEF IInv, FateInv, SendTypes
<1>1. ASSUME NEW e \in Receipt, Receive(e) PROVE SendTypes'
  <2>1. e \in net \X Receipts
    BY <1>1 DEF Receive, Receipt
  <2>2. Listening'
    BY <1>1, <2>1 DEF Receive, Listening
  <2> QED BY <1>1, <2>2 DEF Receive, job, world, ids, client, Counted, Plain, Mapping, Telling
<1>2. ASSUME NEW e \in Receipt, Resolve(e) PROVE SendTypes'
  <2>1. PICK i \in Id : listening' = {<<e, i>>}
    BY <1>2, Statuses DEF Resolve, Receipt
  <2>2. Listening'
    BY <1>2, <2>1 DEF Resolve, Listening
  <2> QED BY <1>2, <2>2 DEF Resolve, job, world, ids, client, Counted, Plain, Mapping, Telling
<1>3. ASSUME NEW l \in listening, Forward(l) PROVE SendTypes'
  <2>1. l[1] \in came /\ l[2] \in Id /\ l[1][2] \in Status
    BY Statuses DEF Listening
  <2>2. Listening'
    BY <1>3, <2>1 DEF Forward, Listening
  <2>3. told' \subseteq told \cup {<<l[2], l[1][2]>>} /\ UNCHANGED <<at, mem>>
    BY <1>3 DEF Forward
  <2>4. Telling'
    BY <2>1, <2>3 DEF Telling
  <2>5. UNCHANGED budget \/ (budget > 0 /\ budget' = budget - 1)
    BY <1>3 DEF Forward, Calm, Spend
  <2>6. budget' \in 0..Budget
    BY <2>5, SendAssumption DEF Plain
  <2> QED BY <1>3, <2>2, <2>4, <2>6 DEF Forward, job, world, ids, Counted, Plain, Mapping
<1> QED BY <1>1, <1>2, <1>3 DEF Listen

LEMMA WorldTypes ==
  ASSUME IInv, FateInv, SendTypes,
         \/ Arrive \/ MarkScheduled \/ Crash \/ UNCHANGED vars
         \/ \E r \in Run : Timeout(r)
  PROVE  SendTypes'
<1> USE DEF IInv, FateInv, SendTypes
<1>1. CASE Arrive \/ MarkScheduled \/ UNCHANGED vars
  <2>1. /\ UNCHANGED <<job, at, mem, net, form, late, outbox, ids, receipts, client, finished, budget>>
        /\ quotable' \in {quotable, TRUE} /\ unmarked' \in {unmarked, FALSE}
    BY <1>1 DEF Arrive, MarkScheduled, vars, world
  <2>2. Plain'
    BY <2>1 DEF Plain, ids, client
  <2>3. Counted' /\ Mapping' /\ Listening' /\ Telling'
    BY <2>1 DEF job, ids, receipts, client, Counted, Mapping, Listening, Telling
  <2> QED BY <2>2, <2>3
<1>2. CASE Crash
  <2>1. budget' \in 0..Budget
    BY <1>2, SendAssumption DEF Crash, Spend, Plain
  <2>2. Listening'
    BY <1>2 DEF Crash, Listening
  <2>3. Mapping' /\ Telling'
    BY <1>2 DEF Crash, ids, client, Mapping, Settling, Telling
  <2>4. Counted'
    <3> DEFINE again == (waiting \/ owner # None)
    <3>1. waiting' = again /\ owner' = None /\ count' = count
      BY <1>2 DEF Crash
    <3>2. again \in BOOLEAN /\ (again => count < MaxRetries)
      BY DEF Counted
    <3> HIDE DEF again
    <3> QED BY <3>1, <3>2 DEF Counted
  <2> QED BY <1>2, <2>1, <2>2, <2>3, <2>4 DEF Crash, Plain, world, ids, client
<1>3. ASSUME NEW r \in Run, Timeout(r) PROVE SendTypes'
  <2>1. Counted'
    BY <1>3, Recounted DEF Timeout
  <2>2. budget' \in 0..Budget
    BY <1>3, SendAssumption DEF Timeout, Spend, Plain
  <2> QED BY <1>3, <2>1, <2>2 DEF Timeout, Plain, Mapping, Listening, Telling, ids, receipts, client
<1> QED BY <1>1, <1>2, <1>3

LEMMA TypesStep == IInv /\ FateInv /\ SendTypes /\ [Next]_vars => SendTypes'
BY RunTypes, ReceiptTypes, WorldTypes DEF Next

LEMMA TypesInit == Init => SendTypes
<1> SUFFICES ASSUME Init PROVE SendTypes
  OBVIOUS
<1>1. Counted /\ Mapping /\ Listening /\ Telling
  BY SendAssumption DEF Init, Counted, Mapping, Settling, Listening, Telling
<1>2. quotable \in BOOLEAN
  BY DEF Init
<1>3. Plain
  <2> DEFINE bulk == (form = "bulk")
  <2>1. unmarked = bulk /\ bulk \in BOOLEAN
    BY DEF Init
  <2>2. /\ form \in Messages /\ finished = {} /\ budget = Budget
        /\ outbox = FALSE /\ key = FALSE /\ warned = FALSE /\ late = FALSE
    BY DEF Init
  <2>3. budget \in 0..Budget
    BY <2>2, SendAssumption
  <2> HIDE DEF bulk
  <2> QED BY <1>2, <2>1, <2>2, <2>3 DEF Plain
<1> QED BY <1>1, <1>3 DEF SendTypes

LEMMA TypesHold == IInv /\ FateInv /\ SendTypes => TypeOK
<1> SUFFICES ASSUME IInv, FateInv, SendTypes PROVE TypeOK
  OBVIOUS
<1> USE DEF IInv, FateInv, SendTypes
<1>1. Cardinality(listening) <= 1
  <2>1. CASE listening = {}
    BY <2>1, FS_EmptySet
  <2>2. ASSUME NEW l \in listening PROVE Cardinality(listening) <= 1
    <3>1. listening = {l}
      BY DEF Listening
    <3> QED BY <3>1, FS_Singleton
  <2> QED BY <2>1, <2>2
<1> QED BY <1>1 DEF TypeOK, TypeInv, Remembered, Memory, Counted, Plain, Mapping, Listening, Telling

\* The state of a message is of its types: no run is counted past the retries, the
\* listener has one receipt at a time, of a message WhatsApp accepted, and every word to
\* the client is a status.
THEOREM Typed == Spec => []TypeOK
BY InitInv, InvStep, FateInit, FateStep, TypesInit, TypesStep, TypesHold, PTL DEF Spec, IInv
=============================================================================
