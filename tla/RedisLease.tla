----------------------------- MODULE RedisLease -----------------------------
(* services/redis_lease.ts: the lease objects that compete for one Redis key.*)
(* Every object has its own token, so the object stands for its token. A     *)
(* method call is three steps: the command leaves (after the early return on *)
(* `acquired`), Redis executes it, and the awaited reply assigns `acquired`. *)
(* Commands of one process travel on one connection, in order. A command may *)
(* also be rejected, executed or not: the method throws and assigns nothing. *)
EXTENDS Naturals, Sequences

CONSTANTS Lease,        \* the RedisLease objects (tokens)
          NoLease,      \* the absent key
          Ttl,          \* ttlMs, in ticks
          MaxCalls      \* bound: commands of one object in flight

ASSUME LeaseAssumption == /\ NoLease \notin Lease
                          /\ Ttl \in Nat \ {0}
                          /\ MaxCalls \in Nat \ {0}

VARIABLES key,          \* the token stored under `unoapi-lease:<name>`
          ttl,          \* ticks until Redis expires the key
          acquired,     \* the private field of each object
          calls,        \* commands in flight of each object, oldest first
          fresh         \* history: ticks for which the last positive answer,
                        \* counted from when its command was SENT, still vouches
                        \* (zero once the object calls release)

leaseVars == <<key, ttl, acquired, calls, fresh>>

Call == [op : {"acquire", "renew", "release"},
         st : {"sent", "ok", "no"},
         age : 0..Ttl]

\* The types of the state; every answer in flight is younger than a TTL or as old
\* as one.
LeaseTypeOK == /\ key \in Lease \cup {NoLease}
               /\ ttl \in 0..Ttl
               /\ acquired \in [Lease -> BOOLEAN]
               /\ calls \in [Lease -> Seq(Call)]
               /\ fresh \in [Lease -> 0..Ttl]

LeaseInit == /\ key = NoLease
             /\ ttl = 0
             /\ acquired = [l \in Lease |-> FALSE]
             /\ calls = [l \in Lease |-> <<>>]
             /\ fresh = [l \in Lease |-> 0]

Releasing(l) == \E i \in 1..Len(calls[l]) : calls[l][i].op = "release"

Send(l, op) ==
  /\ Len(calls[l]) < MaxCalls
  /\ calls' = [calls EXCEPT ![l] = Append(@, [op |-> op, st |-> "sent", age |-> 0])]
  /\ UNCHANGED <<key, ttl, acquired>>

\* acquire() answers true at once when acquired; its callers await it before
\* they use the lease object.
SendAcquire(l) == /\ ~acquired[l]
                  /\ calls[l] = <<>>
                  /\ Send(l, "acquire")
                  /\ UNCHANGED fresh

\* renew() and release() answer false at once when not acquired; every caller
\* clears its renewal timer before it releases.
SendRenew(l) == /\ acquired[l]
                /\ ~Releasing(l)
                /\ Send(l, "renew")
                /\ UNCHANGED fresh

SendRelease(l) == /\ acquired[l]
                  /\ ~Releasing(l)
                  /\ Send(l, "release")
                  /\ fresh' = [fresh EXCEPT ![l] = 0]

Unexecuted(l, i) == /\ calls[l][i].st = "sent"
                    /\ \A j \in 1..(i - 1) : calls[l][j].st # "sent"

Answer(l, i, ok) == calls' = [calls EXCEPT ![l][i].st = IF ok THEN "ok" ELSE "no"]

\* Mutants: SET without NX, PEXPIRE and DEL without comparing the token, a renewal
\* that adds to what is left.
AcquireAlways(l, i) ==
  /\ calls[l][i].op = "acquire"
  /\ Answer(l, i, TRUE)
  /\ key' = l
  /\ ttl' = Ttl

RenewAnyone(l, i) ==
  /\ calls[l][i].op = "renew"
  /\ Answer(l, i, key # NoLease)
  /\ ttl' = IF key # NoLease THEN Ttl ELSE ttl
  /\ UNCHANGED key

ReleaseAnyone(l, i) ==
  /\ calls[l][i].op = "release"
  /\ Answer(l, i, key # NoLease)
  /\ key' = NoLease
  /\ ttl' = 0

\* SET key token NX PX ttl
ExecuteAcquire(l, i) ==
  /\ calls[l][i].op = "acquire"
  /\ Answer(l, i, key = NoLease)
  /\ key' = IF key = NoLease THEN l ELSE key
  /\ ttl' = IF key = NoLease THEN Ttl ELSE ttl

\* RENEW_SCRIPT: compare the token, then PEXPIRE
ExecuteRenew(l, i) ==
  /\ calls[l][i].op = "renew"
  /\ Answer(l, i, key = l)
  /\ ttl' = IF key = l THEN Ttl ELSE ttl
  /\ UNCHANGED key

\* RELEASE_SCRIPT: compare the token, then DEL
ExecuteRelease(l, i) ==
  /\ calls[l][i].op = "release"
  /\ Answer(l, i, key = l)
  /\ key' = IF key = l THEN NoLease ELSE key
  /\ ttl' = IF key = l THEN 0 ELSE ttl

Execute(l) ==
  /\ \E i \in 1..Len(calls[l]) :
       /\ Unexecuted(l, i)
       /\ ExecuteAcquire(l, i) \/ ExecuteRenew(l, i) \/ ExecuteRelease(l, i)
  /\ UNCHANGED <<acquired, fresh>>

\* The awaited reply: acquire and renew assign what Redis answered, release
\* assigns false whatever it answered.
Reply(l) ==
  /\ calls[l] # <<>>
  /\ Head(calls[l]).st # "sent"
  /\ LET c == Head(calls[l])
         held == c.st = "ok" /\ c.op # "release"
     IN /\ acquired' = [acquired EXCEPT ![l] = held]
        /\ fresh' = [fresh EXCEPT ![l] =
                       IF held /\ ~Releasing(l) THEN Ttl - c.age ELSE 0]
  /\ calls' = [calls EXCEPT ![l] = Tail(@)]
  /\ UNCHANGED <<key, ttl>>

\* The command is rejected (connection lost): the method throws before its
\* assignment.
Reject(l) ==
  /\ calls[l] # <<>>
  /\ calls' = [calls EXCEPT ![l] = Tail(@)]
  /\ UNCHANGED <<key, ttl, acquired, fresh>>

Older(c) == [c EXCEPT !.age = IF @ < Ttl THEN @ + 1 ELSE @]

\* One unit of time: Redis expires the key when its time is up.
Tick ==
  /\ ttl' = IF ttl = 0 THEN 0 ELSE ttl - 1
  /\ key' = IF ttl <= 1 THEN NoLease ELSE key
  /\ calls' = [l \in Lease |-> [i \in 1..Len(calls[l]) |-> Older(calls[l][i])]]
  /\ fresh' = [l \in Lease |-> IF fresh[l] = 0 THEN 0 ELSE fresh[l] - 1]
  /\ UNCHANGED acquired

LeaseNext == \/ Tick
             \/ \E l \in Lease : \/ SendAcquire(l)
                                 \/ SendRenew(l)
                                 \/ SendRelease(l)
                                 \/ Execute(l)
                                 \/ Reply(l)
                                 \/ Reject(l)

LeaseSpec == LeaseInit /\ [][LeaseNext]_leaseVars

-----------------------------------------------------------------------------
\* An object that has not called release since its last positive answer, and got
\* that answer to a command sent less than a TTL ago, really owns the key, however the
\* replies, rejections and the commands of the other objects interleave
\* (redis_lease.ts:39-67).
FreshHolderOwns ==
  \A l \in Lease : fresh[l] > 0 => key = l

\* Redis executes a command of l and answers it positively.
Executes(l, op) ==
  \E i \in 1..Len(calls[l]) : /\ calls[l][i].op = op
                              /\ calls[l][i].st = "sent"
                              /\ calls'[l] = [calls[l] EXCEPT ![i].st = "ok"]

\* The key leaves its owner only by running out or by the owner's own release,
\* and its life is extended only for its owner: the token comparisons of
\* RENEW_SCRIPT and RELEASE_SCRIPT (redis_lease.ts:7-17).
OnlyOwnerTouchesKey ==
  [][/\ key # NoLease /\ key' # key =>
          key' = NoLease /\ (ttl <= 1 \/ Executes(key, "release"))
     /\ key # NoLease /\ ttl' > ttl => key' = key /\ Executes(key, "renew")]_leaseVars

Abstract == INSTANCE SessionLease WITH holder <- key

\* The key is a lease in the abstract sense: a free lease is granted, a held one
\* becomes free, and it never passes directly from one holder to another
\* (SET NX, and the token comparisons of the scripts: redis_lease.ts:7-44).
ImplementsSessionLease == Abstract!Spec
=============================================================================
