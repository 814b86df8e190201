------------------------ MODULE MobilePrimary_proofs ------------------------
(* Proofs about MobilePrimary, for any drafts, requests and bounds. The      *)
(* invariant says of each request, by the step it is at, what it may rely on *)
(* (Local), and of the stored values how they belong together (Global).      *)
EXTENDS MobilePrimary, TLAPS

LiveDraft(d) == draft[d] \in {"draft", "deleting"}

\* Where a request works on a registration, imports, deletes.
Provider == {"reserve", "call"}
Import == {"acquire", "recheck", "config", "load", "renew", "create", "created", "save",
           "renewed", "flag", "flagged"}
Deletion == {"look", "mark", "suspend", "suspended", "orphan", "wait", "renew", "latest",
             "clear", "forget", "finish"}

\* The operation of a request, and its draft, which exists or existed.
Scoped(r) ==
  /\ r.pc \in Provider => r.op \in {"request", "verify", "check"}
  /\ r.pc \in Import \ {"renew"} => r.op = "connect"
  /\ r.pc \in Deletion \ {"renew"} => r.op = "delete"
  /\ r.pc = "renew" => r.op \in {"connect", "delete"}
  /\ r.pc \notin {"idle", "dead"} => r.draft \in Draft /\ draft[r.draft] # "new"

\* What it has read of the registration, the keys it carries; nobody but the one
\* that has reserved a registration changes it.
Reads(r) ==
  /\ r.pc \in Provider \cup Import /\ r.op # "delete" => r.keys \in {r.draft} \X Call
  /\ r.pc = "reserve" => Eligible(r.op, r.seen)
  /\ r.pc = "call" => r.seen # NoReg /\ r.seen.status = IF r.op = "request" THEN "requesting"
                        ELSE IF r.op = "verify" THEN "verifying" ELSE "blocked"
  /\ r.pc \in Provider /\ r.seen # NoReg => r.keys = r.seen.keys
  /\ r.pc = "call" /\ r.op # "check" /\ draft[r.draft] = "draft" => reg[r.draft] = r.seen

\* The leases it works under.
Leases(c, r) ==
  /\ r.pc \in {"create", "created", "save", "flag", "flagged", "latest", "clear", "forget",
               "finish"} => lease = c
  /\ r.pc \in Deletion \ {"renew"} => operation[r.draft] = c

\* An import: the registration stays while the draft does. Under its lease the
\* draft cannot go, the configuration is its own once it was found or created,
\* and there are no credentials unless it has found its own.
Imports(c, r) ==
  r.op = "connect" =>
    /\ r.pc \in Import /\ draft[r.draft] = "draft" => reg[r.draft] # NoReg
    /\ lease = c /\ r.pc \in Import \ {"acquire", "recheck"} => LiveDraft(r.draft)
    /\ lease = c /\ (r.pc \in {"save", "renewed", "flag", "flagged"}
                     \/ (r.pc \in {"load", "renew"} /\ r.config.set))
         => config.set /\ config.owner = r.draft
    /\ r.pc = "flagged" => r.config.owner = r.draft
    /\ lease = c /\ r.pc \in {"renew", "create", "created", "save"}
         => auth = IF r.existing THEN r.keys ELSE NoOne

\* A deletion, once it has marked the draft, before it has the lease, and at its
\* end.
Deletes(c, r) ==
  /\ r.op = "delete" /\ r.pc \in Deletion \ {"look", "mark"} /\ operation[r.draft] = c
       => draft[r.draft] = "deleting"
  /\ r.pc \in {"suspend", "suspended"} \/ (r.pc = "mark" /\ r.config.set)
       => config.set /\ config.owner = r.draft
  /\ r.pc = "suspended" => r.config.owner = r.draft
  /\ r.pc = "forget" => auth = NoOne
  /\ r.pc = "finish" => config.owner # r.draft

Local(c, r) == Scoped(r) /\ Reads(r) /\ Leases(c, r) /\ Imports(c, r) /\ Deletes(c, r)

\* The stored values.
Global ==
  /\ \A d, e \in Draft : LiveDraft(d) /\ LiveDraft(e) => d = e
  /\ \A d \in Draft : reg[d] # NoReg => reg[d].keys \in {d} \X Call
  /\ \A d \in Draft : config.owner = d /\ draft[d] = "draft" => reg[d] # NoReg
  /\ ~config.set => config = NoConfig

IInv == /\ TypeOK /\ Global /\ (\A c \in Call : Local(c, call[c]))
        /\ OneProviderCall /\ NothingOrphaned

-----------------------------------------------------------------------------
USE MobileAssumption


-----------------------------------------------------------------------------
(* Types *)

\* A request goes on, as it is or with the configuration it has read.
LEMMA Relabelled ==
  ASSUME NEW r \in Requests, NEW l \in Labels
  PROVE  [r EXCEPT !.pc = l] \in Requests
BY DEF Requests

LEMMA Reread ==
  ASSUME NEW r \in Requests, NEW l \in Labels, NEW k \in Configs
  PROVE  [r EXCEPT !.config = k, !.pc = l] \in Requests
BY DEF Requests

LEMMA Resting == /\ Idle \in Requests
                 /\ [Idle EXCEPT !.pc = "dead"] \in Requests
                 /\ \A c \in Call, r \in {Idle, [Idle EXCEPT !.pc = "dead"]} : Local(c, r)
<1>1. NoReg \in Registrations /\ NoConfig \in Configs
  BY DEF NoReg, NoConfig, Registrations, Configs
<1>2. Idle \in Requests
  BY <1>1 DEF Idle, Requests, Labels, Keys
<1>3. [Idle EXCEPT !.pc = "dead"] \in Requests
  BY <1>2, Relabelled DEF Labels
<1>4. ASSUME NEW c \in Call, NEW r \in {Idle, [Idle EXCEPT !.pc = "dead"]} PROVE Local(c, r)
  BY DEF Idle, Local, Scoped, Reads, Leases, Imports, Deletes, Provider, Import, Deletion
<1> QED BY <1>2, <1>3, <1>4

-----------------------------------------------------------------------------
(* Steps that change nothing but the request *)

LEMMA Moves ==
  ASSUME IInv, NEW c \in Call, NEW r \in Requests, call' = [call EXCEPT ![c] = r],
         UNCHANGED <<draft, reg, config, auth, lease, operation>>, budget' \in Nat,
         r.pc # "call", Local(c, r)
  PROVE  IInv'
<1>1. TypeOK'
  BY DEF IInv, TypeOK
<1>2. call'[c] = r /\ \A e \in Call \ {c} : call'[e] = call[e]
  BY DEF IInv, TypeOK
<1>3. ASSUME NEW e \in Call PROVE Local(e, call[e])'
  <2>1. Local(e, call'[e])
    BY <1>2 DEF IInv
  <2> QED BY <2>1 DEF Local, Scoped, Reads, Leases, Imports, Deletes, LiveDraft
<1>4. Global' /\ NothingOrphaned'
  BY DEF IInv, Global, NothingOrphaned, LiveDraft
<1>5. OneProviderCall'
  BY <1>2 DEF IInv, OneProviderCall, At
<1> QED BY <1>1, <1>3, <1>4, <1>5 DEF IInv

Store == <<draft, reg, config, auth, lease, operation>>

\* It goes to another label, ends, or has read the configuration.
LEMMA Relabels ==
  ASSUME IInv, NEW c \in Call, NEW l \in Labels \ {"call"}, Goto(c, l), UNCHANGED Store,
         budget' = budget, Local(c, [call[c] EXCEPT !.pc = l])
  PROVE  IInv'
<1>1. call[c] \in Requests /\ budget' \in Nat
  BY DEF IInv, TypeOK
<1> DEFINE r == [call[c] EXCEPT !.pc = l]
<1>2. r \in Requests /\ r.pc = l
  BY <1>1, Relabelled DEF Requests
<1>3. call' = [call EXCEPT ![c] = r] /\ Local(c, r)
  BY DEF Goto
<1> HIDE DEF r
<1> QED BY <1>1, <1>2, <1>3, Moves DEF Store

LEMMA ReadsConfig ==
  ASSUME IInv, NEW c \in Call, NEW l \in Labels \ {"call"}, ReadConfig(c, l), UNCHANGED Store,
         budget' = budget, Local(c, [call[c] EXCEPT !.config = config, !.pc = l])
  PROVE  IInv'
<1>1. call[c] \in Requests /\ budget' \in Nat /\ config \in Configs
  BY DEF IInv, TypeOK
<1> DEFINE r == [call[c] EXCEPT !.config = config, !.pc = l]
<1>2. r \in Requests /\ r.pc = l
  BY <1>1, Reread DEF Requests
<1>3. call' = [call EXCEPT ![c] = r] /\ Local(c, r)
  BY DEF ReadConfig
<1> HIDE DEF r
<1> QED BY <1>1, <1>2, <1>3, Moves DEF Store

LEMMA Ends == ASSUME IInv, NEW c \in Call, End(c), UNCHANGED Store, budget' = budget PROVE IInv'
<1>1. Idle.pc # "call" /\ budget' \in Nat
  BY DEF Idle, IInv, TypeOK
<1> QED BY <1>1, Resting, Moves DEF End, Store

LEMMA RecheckStep == ASSUME IInv, NEW c \in Call, Recheck(c) PROVE IInv'
<1> DEFINE l == IF StillDraft(c) THEN "config" ELSE "release"
<1>1. call[c] \in Requests /\ Local(c, call[c]) /\ call[c].pc = "recheck"
  BY DEF IInv, TypeOK, Recheck, At
<1>2. l \in Labels \ {"call"}
  BY DEF Labels
<1>3. Goto(c, l) /\ UNCHANGED Store /\ budget' = budget
  BY DEF Recheck, Store, Goto
<1>4. Local(c, [call[c] EXCEPT !.pc = l])
  BY <1>1 DEF Local, Scoped, Reads, Leases, Imports, Deletes, LiveDraft, Provider, Import,
              Deletion, Requests, StillDraft
<1> QED BY <1>2, <1>3, <1>4, Relabels

LEMMA RenewStep == ASSUME IInv, NEW c \in Call, Renew(c) PROVE IInv'
<1> DEFINE l == IF ~Mine(c) THEN "release" ELSE IF call[c].config.set THEN "save" ELSE "create"
<1>1. call[c] \in Requests /\ Local(c, call[c]) /\ call[c].pc = "renew" /\ call[c].op = "connect"
  BY DEF IInv, TypeOK, Renew, At
<1>2. l \in Labels \ {"call"}
  BY DEF Labels
<1>3. Goto(c, l) /\ UNCHANGED Store /\ budget' = budget
  BY DEF Renew, Store, Goto
<1>4. Local(c, [call[c] EXCEPT !.pc = l])
  BY <1>1 DEF Local, Scoped, Reads, Leases, Imports, Deletes, LiveDraft, Provider, Import,
              Deletion, Requests, Mine
<1> QED BY <1>2, <1>3, <1>4, Relabels

LEMMA RenewedStep == ASSUME IInv, NEW c \in Call, Renewed(c) PROVE IInv'
<1> DEFINE l == IF ~Mine(c) THEN "release"
                ELSE IF call[c].config.imported /\ call[c].config.auto THEN "release" ELSE "flag"
<1>1. call[c] \in Requests /\ Local(c, call[c]) /\ call[c].pc = "renewed"
  BY DEF IInv, TypeOK, Renewed, At
<1>2. l \in Labels \ {"call"}
  BY DEF Labels
<1>3. Goto(c, l) /\ UNCHANGED Store /\ budget' = budget
  BY DEF Renewed, Store, Goto
<1>4. Local(c, [call[c] EXCEPT !.pc = l])
  BY <1>1 DEF Local, Scoped, Reads, Leases, Imports, Deletes, LiveDraft, Provider, Import,
              Deletion, Requests, Mine
<1> QED BY <1>2, <1>3, <1>4, Relabels

LEMMA RenewBothStep == ASSUME IInv, NEW c \in Call, RenewBoth(c) PROVE IInv'
<1> DEFINE l == IF Mine(c) /\ operation[call[c].draft] = c THEN "latest" ELSE "release"
<1>1. call[c] \in Requests /\ Local(c, call[c]) /\ call[c].pc = "renew" /\ call[c].op = "delete"
  BY DEF IInv, TypeOK, RenewBoth, At
<1>2. l \in Labels \ {"call"}
  BY DEF Labels
<1>3. Goto(c, l) /\ UNCHANGED Store /\ budget' = budget
  BY DEF RenewBoth, Store, Goto
<1>4. Local(c, [call[c] EXCEPT !.pc = l])
  BY <1>1 DEF Local, Scoped, Reads, Leases, Imports, Deletes, LiveDraft, Provider, Import,
              Deletion, Requests, Mine
<1> QED BY <1>2, <1>3, <1>4, Relabels

LEMMA LatestStep == ASSUME IInv, NEW c \in Call, Latest(c) PROVE IInv'
<1> DEFINE l == IF Conflicts(c) THEN "release" ELSE IF config.set THEN "clear" ELSE "finish"
<1>1. call[c] \in Requests /\ Local(c, call[c]) /\ call[c].pc = "latest"
  BY DEF IInv, TypeOK, Latest, At
<1>2. l \in Labels \ {"call"}
  BY DEF Labels
<1>3. Goto(c, l) /\ UNCHANGED Store /\ budget' = budget
  BY DEF Latest, Store, Goto
<1>4. Local(c, [call[c] EXCEPT !.pc = l])
  BY <1>1 DEF Local, Scoped, Reads, Leases, Imports, Deletes, LiveDraft, Provider, Import,
              Deletion, Requests, Conflicts, NothingOrphaned, Global, IInv, NoConfig
<1> QED BY <1>2, <1>3, <1>4, Relabels

LEMMA LookAtConfigStep == ASSUME IInv, NEW c \in Call, LookAtConfig(c) PROVE IInv'
<1>1. call[c] \in Requests /\ Local(c, call[c]) /\ call[c].pc = "config"
  BY DEF IInv, TypeOK, LookAtConfig, At
<1>2. {"release", "load"} \subseteq Labels \ {"call"}
  BY DEF Labels
<1>3. UNCHANGED Store /\ budget' = budget
  BY DEF LookAtConfig, Store
<1>4. CASE Conflicts(c)
  <2>1. Local(c, [call[c] EXCEPT !.pc = "release"])
    BY <1>1 DEF Local, Scoped, Reads, Leases, Imports, Deletes, LiveDraft, Provider, Import,
              Deletion, Requests
  <2> QED BY <1>2, <1>3, <1>4, <2>1, Relabels DEF LookAtConfig
<1>5. CASE ~Conflicts(c)
  <2>1. Local(c, [call[c] EXCEPT !.config = config, !.pc = "load"])
    BY <1>1, <1>5 DEF Conflicts, Local, Scoped, Reads, Leases, Imports, Deletes, LiveDraft,
       Provider, Import,
              Deletion, Requests
  <2> QED BY <1>2, <1>3, <1>5, <2>1, ReadsConfig DEF LookAtConfig
<1> QED BY <1>4, <1>5

LEMMA LookStep == ASSUME IInv, NEW c \in Call, Look(c) PROVE IInv'
<1>1. call[c] \in Requests /\ Local(c, call[c]) /\ call[c].pc = "look"
  BY DEF IInv, TypeOK, Look, At
<1>2. {"release", "mark"} \subseteq Labels \ {"call"}
  BY DEF Labels
<1>3. UNCHANGED Store /\ budget' = budget
  BY DEF Look, Store
<1>4. CASE Conflicts(c)
  <2>1. Local(c, [call[c] EXCEPT !.pc = "release"])
    BY <1>1 DEF Local, Scoped, Reads, Leases, Imports, Deletes, LiveDraft, Provider, Import,
              Deletion, Requests
  <2> QED BY <1>2, <1>3, <1>4, <2>1, Relabels DEF Look
<1>5. CASE ~Conflicts(c)
  <2>1. Local(c, [call[c] EXCEPT !.config = config, !.pc = "mark"])
    BY <1>1, <1>5 DEF Conflicts, Local, Scoped, Reads, Leases, Imports, Deletes, LiveDraft,
       Provider, Import,
              Deletion, Requests
  <2> QED BY <1>2, <1>3, <1>5, <2>1, ReadsConfig DEF Look
<1> QED BY <1>4, <1>5

LEMMA CreateReadStep == ASSUME IInv, NEW c \in Call, CreateRead(c) PROVE IInv'
<1>1. call[c] \in Requests /\ Local(c, call[c]) /\ call[c].pc = "create"
  BY DEF IInv, TypeOK, CreateRead, At
<1>2. "created" \in Labels \ {"call"}
  BY DEF Labels
<1>3. ReadConfig(c, "created") /\ UNCHANGED Store /\ budget' = budget
  BY DEF CreateRead, Store
<1>4. Local(c, [call[c] EXCEPT !.config = config, !.pc = "created"])
  BY <1>1 DEF Local, Scoped, Reads, Leases, Imports, Deletes, LiveDraft, Provider, Import,
              Deletion, Requests
<1> QED BY <1>2, <1>3, <1>4, ReadsConfig

LEMMA FlagReadStep == ASSUME IInv, NEW c \in Call, FlagRead(c) PROVE IInv'
<1>1. call[c] \in Requests /\ Local(c, call[c]) /\ call[c].pc = "flag"
  BY DEF IInv, TypeOK, FlagRead, At
<1>2. "flagged" \in Labels \ {"call"}
  BY DEF Labels
<1>3. ReadConfig(c, "flagged") /\ UNCHANGED Store /\ budget' = budget
  BY DEF FlagRead, Store
<1>4. Local(c, [call[c] EXCEPT !.config = config, !.pc = "flagged"])
  BY <1>1 DEF Local, Scoped, Reads, Leases, Imports, Deletes, LiveDraft, Provider, Import,
              Deletion, Requests
<1> QED BY <1>2, <1>3, <1>4, ReadsConfig

LEMMA SuspendReadStep == ASSUME IInv, NEW c \in Call, SuspendRead(c) PROVE IInv'
<1>1. call[c] \in Requests /\ Local(c, call[c]) /\ call[c].pc = "suspend"
  BY DEF IInv, TypeOK, SuspendRead, At
<1>2. "suspended" \in Labels \ {"call"}
  BY DEF Labels
<1>3. ReadConfig(c, "suspended") /\ UNCHANGED Store /\ budget' = budget
  BY DEF SuspendRead, Store
<1>4. Local(c, [call[c] EXCEPT !.config = config, !.pc = "suspended"])
  BY <1>1 DEF Local, Scoped, Reads, Leases, Imports, Deletes, LiveDraft, Provider, Import,
              Deletion, Requests
<1> QED BY <1>2, <1>3, <1>4, ReadsConfig

LEMMA LoadAuthStep == ASSUME IInv, NEW c \in Call, LoadAuth(c) PROVE IInv'
<1>1. call[c] \in Requests /\ Local(c, call[c]) /\ call[c].pc = "load"
  BY DEF IInv, TypeOK, LoadAuth, At
<1>2. {"release", "renew"} \subseteq Labels \ {"call"}
  BY DEF Labels
<1>3. UNCHANGED Store /\ budget' = budget /\ budget' \in Nat
  BY DEF LoadAuth, Store, IInv, TypeOK
<1>4. CASE Importable(c)
  <2> DEFINE r == [call[c] EXCEPT !.pc = "renew", !.existing = auth # NoOne]
  <2>1. r \in Requests /\ r.pc # "call"
    BY <1>1, <1>2 DEF Requests
  <2>2. Local(c, r)
    BY <1>1, <1>4 DEF Importable, Local, Scoped, Reads, Leases, Imports, Deletes, LiveDraft,
       Provider, Import,
              Deletion, Requests
  <2>3. call' = [call EXCEPT ![c] = r]
    BY <1>4 DEF LoadAuth
  <2> HIDE DEF r
  <2> QED BY <1>3, <2>1, <2>2, <2>3, Moves DEF Store
<1>5. CASE ~Importable(c)
  <2>1. Local(c, [call[c] EXCEPT !.pc = "release"])
    BY <1>1 DEF Local, Scoped, Reads, Leases, Imports, Deletes, LiveDraft, Provider, Import,
              Deletion, Requests
  <2> QED BY <1>2, <1>3, <1>5, <2>1, Relabels DEF LoadAuth
<1> QED BY <1>4, <1>5

LEMMA CheckFailsStep == ASSUME IInv, NEW c \in Call, CheckFails(c) PROVE IInv'
BY Ends DEF CheckFails, Store

LEMMA CrashStep == ASSUME IInv, NEW c \in Call, Crash(c) PROVE IInv'
<1>1. [Idle EXCEPT !.pc = "dead"].pc # "call" /\ budget' \in Nat
  BY DEF Idle, IInv, TypeOK, Crash, Disturb
<1> QED BY <1>1, Resting, Moves DEF Crash

LEMMA ConnectStep == ASSUME IInv, NEW c \in Call, NEW d \in Draft, Connect(c, d) PROVE IInv'
<1> DEFINE r == [Idle EXCEPT !.pc = "acquire", !.op = "connect", !.draft = d, !.keys = reg[d].keys]
<1>1. reg[d] \in Registrations /\ reg[d] # NoReg /\ draft[d] = "draft" /\ budget' = budget /\ budget \in Nat
  BY DEF Connect, IInv, TypeOK, NoReg
<1>2. reg[d].keys \in {d} \X Call /\ reg[d].keys \in Keys
  BY <1>1 DEF IInv, Global, Keys
<1>3. r \in Requests /\ r.pc # "call"
  <2>1. reg[d].keys \in Keys /\ Idle \in Requests
    BY <1>2, Resting
  <2>2. r \in Requests /\ r.pc = "acquire"
    BY <2>1 DEF Requests, Labels
  <2> QED BY <2>2
<1>4. Local(c, r)
  BY <1>1, <1>2 DEF Idle, Local, Scoped, Reads, Leases, Imports, Deletes, LiveDraft, Provider,
              Import, Deletion
<1>5. call' = [call EXCEPT ![c] = r] /\ UNCHANGED Store
  BY DEF Connect, Store
<1> HIDE DEF r
<1> QED BY <1>1, <1>3, <1>4, <1>5, Moves DEF Store

LEMMA AskStep ==
  ASSUME IInv, NEW c \in Call, NEW op \in {"request", "verify", "check"}, NEW d \in Draft, Ask(c,
     op, d)
  PROVE  IInv'
<1> DEFINE k == IF reg[d] = NoReg THEN <<d, c>> ELSE reg[d].keys
           r == [Idle EXCEPT !.pc = "reserve", !.op = op, !.draft = d, !.seen = reg[d], !.keys = k]
<1>1. reg[d] \in Registrations /\ Eligible(op, reg[d]) /\ draft[d] = "draft" /\ budget' = budget /\ budget \in Nat
  BY DEF Ask, IInv, TypeOK
<1>2. k \in {d} \X Call /\ k \in Keys /\ (reg[d] # NoReg => k = reg[d].keys)
  BY DEF IInv, Global, Keys
<1>3. call' = [call EXCEPT ![c] = r] /\ UNCHANGED Store
  BY DEF Ask, Store
<1> HIDE DEF k
<1>4. r \in Requests /\ r.pc # "call"
  <2>1. reg[d] \in Registrations /\ k \in Keys /\ Idle \in Requests
    BY <1>1, <1>2, Resting
  <2>2. r \in Requests /\ r.pc = "reserve"
    BY <2>1 DEF Requests, Labels
  <2> QED BY <2>2
<1>5. Local(c, r)
  BY <1>1, <1>2 DEF Idle, Local, Scoped, Reads, Leases, Imports, Deletes, LiveDraft, Provider,
     Import,
              Deletion, Requests
<1> HIDE DEF r
<1> QED BY <1>1, <1>3, <1>4, <1>5, Moves DEF Store

-----------------------------------------------------------------------------
(* Steps that change what is stored *)

LEMMA Acts ==
  ASSUME IInv, NEW c \in Call, NEW r \in Requests, call' = [call EXCEPT ![c] = r],
         r.pc # "call",
         draft' \in [Draft -> {"new", "draft", "deleting", "gone"}],
         reg' \in [Draft -> Registrations],
         config' \in Configs,
         auth' \in Keys \cup {NoOne, Paired},
         lease' \in Call \cup {NoOne, Live},
         operation' \in [Draft -> Call \cup {NoOne}],
         budget' \in Nat,
         Local(c, call[c])',
         \A e \in Call \ {c} : Local(e, call[e])',
         Global', NothingOrphaned'
  PROVE  IInv'
<1>1. TypeOK'
  BY DEF IInv, TypeOK
<1>2. call'[c] = r /\ \A e \in Call \ {c} : call'[e] = call[e]
  BY DEF IInv, TypeOK
<1>3. OneProviderCall'
  BY <1>2 DEF IInv, OneProviderCall, At
<1> QED BY <1>1, <1>3 DEF IInv

LEMMA SaveStep == ASSUME IInv, NEW c \in Call, Save(c) PROVE IInv'
<1> DEFINE r == [call[c] EXCEPT !.pc = "renewed"]
<1>1. call[c] \in Requests /\ Local(c, call[c]) /\ call[c].pc = "save"
  BY DEF IInv, TypeOK, At, Save
<1>2. r \in Requests /\ r.pc # "call" /\ call' = [call EXCEPT ![c] = r]
  <2>1. r \in Requests
    BY <1>1, Relabelled DEF Labels
  <2>2. r.pc # "call"
    BY <1>1 DEF Requests
  <2> QED BY <1>1, <2>1, <2>2 DEF Save, Goto
<1>3. auth' = (IF call[c].existing THEN auth ELSE call[c].keys) /\ UNCHANGED <<draft, reg, config, lease, operation, budget>>
  BY <1>1 DEF Save
<1>4. auth' \in Keys \cup {NoOne, Paired} /\ budget' \in Nat
  BY <1>1, <1>3 DEF IInv, TypeOK, Keys, Local, Scoped, Reads, Leases, Imports, Deletes,
     LiveDraft, Provider, Import,
              Deletion, Requests
<1>5. call'[c] = r /\ \A e \in Call \ {c} : call'[e] = call[e]
  BY <1>2 DEF IInv, TypeOK
<1>6. Local(c, call[c])'
  BY <1>1, <1>3, <1>5 DEF Local, Scoped, Reads, Leases, Imports, Deletes, LiveDraft, Provider,
     Import,
              Deletion, Requests, Idle
<1>7. ASSUME NEW e \in Call \ {c} PROVE Local(e, call[e])'
  <2>1. Local(e, call[e]) /\ call'[e] = call[e] /\ call[e] \in Requests
    BY <1>5 DEF IInv, TypeOK
  <2> QED BY <1>1, <1>3, <2>1 DEF Local, Scoped, Reads, Leases, Imports, Deletes, LiveDraft,
     Provider, Import,
              Deletion, Requests, IInv, NothingOrphaned, Global
<1>8. Global' /\ NothingOrphaned'
  BY <1>1, <1>3 DEF IInv, Global, NothingOrphaned, Local, Scoped, Reads, Leases, Imports,
     Deletes, LiveDraft, Provider, Import,
              Deletion, Requests
<1> HIDE DEF r
<1> QED BY <1>2, <1>3, <1>4, <1>6, <1>7, <1>8, Acts DEF IInv, TypeOK

LEMMA AcquireStep == ASSUME IInv, NEW c \in Call, Acquire(c), lease = NoOne PROVE IInv'
<1> DEFINE r == [call[c] EXCEPT !.pc = "recheck"]
<1>1. call[c] \in Requests /\ Local(c, call[c]) /\ call[c].pc = "acquire"
  BY DEF IInv, TypeOK, At, Acquire
<1>2. r \in Requests /\ r.pc # "call" /\ call' = [call EXCEPT ![c] = r]
  <2>1. r \in Requests
    BY <1>1, Relabelled DEF Labels
  <2>2. r.pc # "call"
    BY <1>1 DEF Requests
  <2> QED BY <1>1, <2>1, <2>2 DEF Acquire, Goto
<1>3. lease' = c /\ UNCHANGED <<draft, reg, config, auth, operation, budget>>
  BY <1>1 DEF Acquire
<1>4. lease' \in Call \cup {NoOne, Live} /\ budget' \in Nat
  BY <1>1, <1>3 DEF IInv, TypeOK, Keys, Configs
<1>5. call'[c] = r /\ \A e \in Call \ {c} : call'[e] = call[e]
  BY <1>2 DEF IInv, TypeOK
<1>6. Local(c, call[c])'
  BY <1>1, <1>3, <1>5 DEF Local, Scoped, Reads, Leases, Imports, Deletes, LiveDraft, Provider,
     Import,
              Deletion, Requests, Idle
<1>7. ASSUME NEW e \in Call \ {c} PROVE Local(e, call[e])'
  <2>1. Local(e, call[e]) /\ call'[e] = call[e] /\ call[e] \in Requests
    BY <1>5 DEF IInv, TypeOK
  <2> QED BY <1>1, <1>3, <2>1 DEF Local, Scoped, Reads, Leases, Imports, Deletes, LiveDraft,
     Provider, Import,
              Deletion, Requests, IInv, NothingOrphaned, Global
<1>8. Global' /\ NothingOrphaned'
  BY <1>1, <1>3 DEF IInv, Global, NothingOrphaned, Local, Scoped, Reads, Leases, Imports,
     Deletes, LiveDraft, Provider, Import,
              Deletion, Requests
<1> HIDE DEF r
<1> QED BY <1>2, <1>3, <1>4, <1>6, <1>7, <1>8, Acts DEF IInv, TypeOK

LEMMA WaitStep == ASSUME IInv, NEW c \in Call, Wait(c), lease = NoOne PROVE IInv'
<1> DEFINE r == [call[c] EXCEPT !.pc = "renew"]
<1>1. call[c] \in Requests /\ Local(c, call[c]) /\ call[c].pc = "wait"
  BY DEF IInv, TypeOK, At, Wait
<1>2. r \in Requests /\ r.pc # "call" /\ call' = [call EXCEPT ![c] = r]
  <2>1. r \in Requests
    BY <1>1, Relabelled DEF Labels
  <2>2. r.pc # "call"
    BY <1>1 DEF Requests
  <2> QED BY <1>1, <2>1, <2>2 DEF Wait, Goto
<1>3. lease' = c /\ UNCHANGED <<draft, reg, config, auth, operation, budget>>
  BY <1>1 DEF Wait
<1>4. lease' \in Call \cup {NoOne, Live} /\ budget' \in Nat
  BY <1>1, <1>3 DEF IInv, TypeOK, Keys, Configs
<1>5. call'[c] = r /\ \A e \in Call \ {c} : call'[e] = call[e]
  BY <1>2 DEF IInv, TypeOK
<1>6. Local(c, call[c])'
  BY <1>1, <1>3, <1>5 DEF Local, Scoped, Reads, Leases, Imports, Deletes, LiveDraft, Provider,
     Import,
              Deletion, Requests, Idle
<1>7. ASSUME NEW e \in Call \ {c} PROVE Local(e, call[e])'
  <2>1. Local(e, call[e]) /\ call'[e] = call[e] /\ call[e] \in Requests
    BY <1>5 DEF IInv, TypeOK
  <2> QED BY <1>1, <1>3, <2>1 DEF Local, Scoped, Reads, Leases, Imports, Deletes, LiveDraft,
     Provider, Import,
              Deletion, Requests, IInv, NothingOrphaned, Global
<1>8. Global' /\ NothingOrphaned'
  BY <1>1, <1>3 DEF IInv, Global, NothingOrphaned, Local, Scoped, Reads, Leases, Imports,
     Deletes, LiveDraft, Provider, Import,
              Deletion, Requests
<1> HIDE DEF r
<1> QED BY <1>2, <1>3, <1>4, <1>6, <1>7, <1>8, Acts DEF IInv, TypeOK

LEMMA CreateWriteStep == ASSUME IInv, NEW c \in Call, CreateWrite(c) PROVE IInv'
<1> DEFINE r == [call[c] EXCEPT !.pc = "save"]
<1>1. call[c] \in Requests /\ Local(c, call[c]) /\ call[c].pc = "created"
  BY DEF IInv, TypeOK, At, CreateWrite
<1>2. r \in Requests /\ r.pc # "call" /\ call' = [call EXCEPT ![c] = r]
  <2>1. r \in Requests
    BY <1>1, Relabelled DEF Labels
  <2>2. r.pc # "call"
    BY <1>1 DEF Requests
  <2> QED BY <1>1, <2>1, <2>2 DEF CreateWrite, Goto, At, WriteConfig
<1>3. config' = [call[c].config EXCEPT !.owner = call[c].draft, !.auto = FALSE, !.set = TRUE] /\ UNCHANGED <<draft, reg, auth, lease, operation, budget>>
  BY <1>1 DEF CreateWrite, At, WriteConfig
<1>4. config' \in Configs /\ budget' \in Nat
  BY <1>1, <1>3 DEF IInv, TypeOK, Requests, Configs, Local, Scoped
<1>5. call'[c] = r /\ \A e \in Call \ {c} : call'[e] = call[e]
  BY <1>2 DEF IInv, TypeOK
<1>s. /\ draft \in [Draft -> {"new", "draft", "deleting", "gone"}]
      /\ reg \in [Draft -> Registrations] /\ config \in Configs
      /\ call[c].draft \in Draft /\ Scoped(call[c]) /\ Leases(c, call[c])
      /\ auth \in Keys \cup {NoOne, Paired} /\ Reads(call[c])
      /\ Imports(c, call[c]) /\ Deletes(c, call[c])
  BY <1>1 DEF IInv, TypeOK, Local, Scoped
<1>6. Local(c, call[c])'
  BY <1>1, <1>s, <1>3, <1>5 DEF Local, Scoped, Reads, Leases, Imports, Deletes, LiveDraft,
     Provider, Import,
              Deletion, Requests, Configs
<1>7. ASSUME NEW e \in Call \ {c} PROVE Local(e, call[e])'
  <2>1. Local(e, call[e]) /\ call'[e] = call[e] /\ call[e] \in Requests
    BY <1>5 DEF IInv, TypeOK
  <2> QED BY <1>1, <1>3, <2>1 DEF Local, Scoped, Reads, Leases, Imports, Deletes, LiveDraft,
     Provider, Import,
              Deletion, Requests, IInv, NothingOrphaned, Global, Configs, TypeOK
<1>8. Global'
  BY SMTT(30), <1>1, <1>3, <1>s DEF IInv, Global, NothingOrphaned, LiveDraft, Scoped, Leases,
     Imports, Deletes,
     Import, Deletion, Configs, NoConfig
<1>9. NothingOrphaned'
  <2>1. \A d \in Draft : reg'[d] # NoReg \/ config'.owner = d => draft'[d] \in {"draft", "deleting"}
    BY <1>1, <1>3, <1>s DEF IInv, NothingOrphaned, Global, LiveDraft, Scoped, Leases, Imports,
       Deletes, Import,
       Deletion, Configs, NoConfig
  <2>2. auth' # NoOne => config'.set
    BY <1>1, <1>3, <1>s DEF IInv, NothingOrphaned, Deletes, Configs, NoConfig
  <2>3. auth' \in Keys => config'.owner = auth'[1]
    <3>1. config'.owner = call[c].draft
      BY <1>1, <1>3, <1>s DEF Configs, Scoped, Imports, Import, Requests
    <3>2. auth \in Keys => auth[1] = call[c].draft
      BY <1>1, <1>s DEF IInv, NothingOrphaned, Scoped, Reads, Leases, Imports, Import, Keys
    <3> QED BY <3>1, <3>2, <1>3

  <2> QED BY <2>1, <2>2, <2>3 DEF NothingOrphaned
<1> HIDE DEF r
<1> QED BY <1>2, <1>3, <1>4, <1>6, <1>7, <1>8, <1>9, Acts DEF IInv, TypeOK

LEMMA FlagWriteStep == ASSUME IInv, NEW c \in Call, FlagWrite(c) PROVE IInv'
<1> DEFINE r == [call[c] EXCEPT !.pc = "release"]
<1>1. call[c] \in Requests /\ Local(c, call[c]) /\ call[c].pc = "flagged"
  BY DEF IInv, TypeOK, At, FlagWrite
<1>2. r \in Requests /\ r.pc # "call" /\ call' = [call EXCEPT ![c] = r]
  <2>1. r \in Requests
    BY <1>1, Relabelled DEF Labels
  <2>2. r.pc # "call"
    BY <1>1 DEF Requests
  <2> QED BY <1>1, <2>1, <2>2 DEF FlagWrite, Goto, At, WriteConfig
<1>3. config' = [call[c].config EXCEPT !.imported = TRUE, !.auto = TRUE, !.set = TRUE] /\ UNCHANGED <<draft, reg, auth, lease, operation, budget>>
  BY <1>1 DEF FlagWrite, At, WriteConfig
<1>4. config' \in Configs /\ budget' \in Nat
  BY <1>1, <1>3 DEF IInv, TypeOK, Requests, Configs
<1>5. call'[c] = r /\ \A e \in Call \ {c} : call'[e] = call[e]
  BY <1>2 DEF IInv, TypeOK
<1>s. /\ draft \in [Draft -> {"new", "draft", "deleting", "gone"}]
      /\ reg \in [Draft -> Registrations] /\ config \in Configs
      /\ call[c].draft \in Draft /\ Scoped(call[c]) /\ Leases(c, call[c])
      /\ auth \in Keys \cup {NoOne, Paired} /\ Reads(call[c])
      /\ Imports(c, call[c]) /\ Deletes(c, call[c])
  BY <1>1 DEF IInv, TypeOK, Local, Scoped
<1>6. Local(c, call[c])'
  BY <1>1, <1>s, <1>3, <1>5 DEF Local, Scoped, Reads, Leases, Imports, Deletes, LiveDraft,
     Provider, Import,
              Deletion, Requests, Configs
<1>7. ASSUME NEW e \in Call \ {c} PROVE Local(e, call[e])'
  <2>1. Local(e, call[e]) /\ call'[e] = call[e] /\ call[e] \in Requests
    BY <1>5 DEF IInv, TypeOK
  <2> QED BY <1>1, <1>3, <2>1 DEF Local, Scoped, Reads, Leases, Imports, Deletes, LiveDraft,
     Provider, Import,
              Deletion, Requests, IInv, NothingOrphaned, Global, Configs, TypeOK
<1>8. Global'
  BY SMTT(30), <1>1, <1>3, <1>s DEF IInv, Global, NothingOrphaned, LiveDraft, Scoped, Leases,
     Imports, Deletes,
     Import, Deletion, Configs, NoConfig
<1>9. NothingOrphaned'
  <2>1. \A d \in Draft : reg'[d] # NoReg \/ config'.owner = d => draft'[d] \in {"draft", "deleting"}
    BY <1>1, <1>3, <1>s DEF IInv, NothingOrphaned, Global, LiveDraft, Scoped, Leases, Imports,
       Deletes, Import,
       Deletion, Configs, NoConfig
  <2>2. auth' # NoOne => config'.set
    BY <1>1, <1>3, <1>s DEF IInv, NothingOrphaned, Deletes, Configs, NoConfig
  <2>3. auth' \in Keys => config'.owner = auth'[1]
    <3>1. config'.owner = call[c].draft
      BY <1>1, <1>3, <1>s DEF Configs, Scoped, Imports, Import, Requests
    <3>2. auth \in Keys => auth[1] = call[c].draft
      BY <1>1, <1>s DEF IInv, NothingOrphaned, Scoped, Reads, Leases, Imports, Import, Keys
    <3> QED BY <3>1, <3>2, <1>3

  <2> QED BY <2>1, <2>2, <2>3 DEF NothingOrphaned
<1> HIDE DEF r
<1> QED BY <1>2, <1>3, <1>4, <1>6, <1>7, <1>8, <1>9, Acts DEF IInv, TypeOK

LEMMA SuspendWriteStep == ASSUME IInv, NEW c \in Call, SuspendWrite(c) PROVE IInv'
<1> DEFINE r == [call[c] EXCEPT !.pc = "wait"]
<1>1. call[c] \in Requests /\ Local(c, call[c]) /\ call[c].pc = "suspended"
  BY DEF IInv, TypeOK, At, SuspendWrite
<1>2. r \in Requests /\ r.pc # "call" /\ call' = [call EXCEPT ![c] = r]
  <2>1. r \in Requests
    BY <1>1, Relabelled DEF Labels
  <2>2. r.pc # "call"
    BY <1>1 DEF Requests
  <2> QED BY <1>1, <2>1, <2>2 DEF SuspendWrite, Goto, At, WriteConfig
<1>3. config' = [call[c].config EXCEPT !.auto = FALSE, !.deleting = TRUE, !.set = TRUE] /\ UNCHANGED <<draft, reg, auth, lease, operation, budget>>
  BY <1>1 DEF SuspendWrite, At, WriteConfig
<1>4. config' \in Configs /\ budget' \in Nat
  BY <1>1, <1>3 DEF IInv, TypeOK, Requests, Configs
<1>5. call'[c] = r /\ \A e \in Call \ {c} : call'[e] = call[e]
  BY <1>2 DEF IInv, TypeOK
<1>s. /\ draft \in [Draft -> {"new", "draft", "deleting", "gone"}]
      /\ reg \in [Draft -> Registrations] /\ config \in Configs
      /\ call[c].draft \in Draft /\ Scoped(call[c]) /\ Leases(c, call[c])
      /\ auth \in Keys \cup {NoOne, Paired} /\ Reads(call[c])
      /\ Imports(c, call[c]) /\ Deletes(c, call[c])
  BY <1>1 DEF IInv, TypeOK, Local, Scoped
<1>6. Local(c, call[c])'
  BY <1>1, <1>s, <1>3, <1>5 DEF Local, Scoped, Reads, Leases, Imports, Deletes, LiveDraft,
     Provider, Import,
              Deletion, Requests, Configs
<1>7. ASSUME NEW e \in Call \ {c} PROVE Local(e, call[e])'
  <2>1. Local(e, call[e]) /\ call'[e] = call[e] /\ call[e] \in Requests
    BY <1>5 DEF IInv, TypeOK
  <2> QED BY <1>1, <1>3, <2>1 DEF Local, Scoped, Reads, Leases, Imports, Deletes, LiveDraft,
     Provider, Import,
              Deletion, Requests, IInv, NothingOrphaned, Global, Configs, TypeOK
<1>8. Global'
  BY SMTT(30), <1>1, <1>3, <1>s DEF IInv, Global, NothingOrphaned, LiveDraft, Scoped, Leases,
     Imports, Deletes,
     Import, Deletion, Configs, NoConfig
<1>9. NothingOrphaned'
  <2>1. \A d \in Draft : reg'[d] # NoReg \/ config'.owner = d => draft'[d] \in {"draft", "deleting"}
    BY <1>1, <1>3, <1>s DEF IInv, NothingOrphaned, Global, LiveDraft, Scoped, Leases, Imports,
       Deletes, Import,
       Deletion, Configs, NoConfig
  <2>2. auth' # NoOne => config'.set
    BY <1>1, <1>3, <1>s DEF IInv, NothingOrphaned, Deletes, Configs, NoConfig
  <2>3. auth' \in Keys => config'.owner = auth'[1]
    BY <1>1, <1>3, <1>s DEF IInv, NothingOrphaned, Reads, Leases, Imports, Deletes, Import, Keys,
       Configs, NoConfig
  <2> QED BY <2>1, <2>2, <2>3 DEF NothingOrphaned
<1> HIDE DEF r
<1> QED BY <1>2, <1>3, <1>4, <1>6, <1>7, <1>8, <1>9, Acts DEF IInv, TypeOK

LEMMA SuspendOrphanStep == ASSUME IInv, NEW c \in Call, SuspendOrphan(c), ~config.set PROVE IInv'
<1> DEFINE r == [call[c] EXCEPT !.pc = "wait"]
<1>1. call[c] \in Requests /\ Local(c, call[c]) /\ call[c].pc = "orphan"
  BY DEF IInv, TypeOK, At, SuspendOrphan
<1>2. r \in Requests /\ r.pc # "call" /\ call' = [call EXCEPT ![c] = r]
  <2>1. r \in Requests
    BY <1>1, Relabelled DEF Labels
  <2>2. r.pc # "call"
    BY <1>1 DEF Requests
  <2> QED BY <1>1, <2>1, <2>2 DEF SuspendOrphan, Goto, At
<1>3. config' = [NoConfig EXCEPT !.set = TRUE, !.owner = call[c].draft, !.deleting = TRUE] /\ UNCHANGED <<draft, reg, auth, lease, operation, budget>>
  BY <1>1 DEF SuspendOrphan, At
<1>4. config' \in Configs /\ budget' \in Nat
  BY <1>1, <1>3 DEF IInv, TypeOK, Requests, Configs, NoConfig, Local, Scoped, Deletion
<1>5. call'[c] = r /\ \A e \in Call \ {c} : call'[e] = call[e]
  BY <1>2 DEF IInv, TypeOK
<1>s. /\ draft \in [Draft -> {"new", "draft", "deleting", "gone"}]
      /\ reg \in [Draft -> Registrations] /\ config \in Configs
      /\ call[c].draft \in Draft /\ Scoped(call[c]) /\ Leases(c, call[c])
      /\ auth \in Keys \cup {NoOne, Paired} /\ Reads(call[c])
      /\ Imports(c, call[c]) /\ Deletes(c, call[c])
  BY <1>1 DEF IInv, TypeOK, Local, Scoped
<1>6. Local(c, call[c])'
  BY <1>1, <1>s, <1>3, <1>5 DEF Local, Scoped, Reads, Leases, Imports, Deletes, LiveDraft,
     Provider, Import,
              Deletion, Requests, NoConfig
<1>7. ASSUME NEW e \in Call \ {c} PROVE Local(e, call[e])'
  <2>1. Local(e, call[e]) /\ call'[e] = call[e] /\ call[e] \in Requests
    BY <1>5 DEF IInv, TypeOK
  <2> QED BY <1>1, <1>3, <2>1 DEF Local, Scoped, Reads, Leases, Imports, Deletes, LiveDraft,
     Provider, Import,
              Deletion, Requests, IInv, NothingOrphaned, Global, NoConfig
<1>8. Global'
  BY SMTT(30), <1>1, <1>3, <1>s DEF IInv, Global, NothingOrphaned, LiveDraft, Scoped, Leases,
     Imports, Deletes,
     Import, Deletion, NoConfig
<1>9. NothingOrphaned'
  <2>1. \A d \in Draft : reg'[d] # NoReg \/ config'.owner = d => draft'[d] \in {"draft", "deleting"}
    BY <1>1, <1>3, <1>s DEF IInv, NothingOrphaned, Global, LiveDraft, Scoped, Leases, Imports,
       Deletes, Import,
       Deletion, NoConfig
  <2>2. auth' # NoOne => config'.set
    BY <1>1, <1>3, <1>s DEF IInv, NothingOrphaned, Deletes, NoConfig
  <2>3. auth' \in Keys => config'.owner = auth'[1]
    BY <1>1, <1>3, <1>s DEF IInv, NothingOrphaned, Reads, Leases, Imports, Deletes, Import, Keys,
       NoConfig
  <2> QED BY <2>1, <2>2, <2>3 DEF NothingOrphaned
<1> HIDE DEF r
<1> QED BY <1>2, <1>3, <1>4, <1>6, <1>7, <1>8, <1>9, Acts DEF IInv, TypeOK

LEMMA MarkStep == ASSUME IInv, NEW c \in Call, Mark(c), draft[call[c].draft] = call[c].was,
  ~call[c].config.set PROVE IInv'
<1> DEFINE r == [call[c] EXCEPT !.pc = "orphan"]
<1>1. call[c] \in Requests /\ Local(c, call[c]) /\ call[c].pc = "mark" /\ call[c].was \in {"draft", "deleting"}
  BY DEF IInv, TypeOK, At, Mark, Requests
<1>2. r \in Requests /\ r.pc # "call" /\ call' = [call EXCEPT ![c] = r]
  <2>1. r \in Requests
    BY <1>1, Relabelled DEF Labels
  <2>2. r.pc # "call"
    BY <1>1 DEF Requests
  <2> QED BY <1>1, <2>1, <2>2 DEF Mark, Goto, At
<1>3. draft' = [draft EXCEPT ![call[c].draft] = "deleting"] /\ UNCHANGED <<reg, config, auth, lease, operation, budget>>
  BY <1>1 DEF Mark, At
<1>4. draft' \in [Draft -> {"new", "draft", "deleting", "gone"}] /\ budget' \in Nat
  BY <1>1, <1>3 DEF IInv, TypeOK, Requests
<1>5. call'[c] = r /\ \A e \in Call \ {c} : call'[e] = call[e]
  BY <1>2 DEF IInv, TypeOK
<1>s. /\ draft \in [Draft -> {"new", "draft", "deleting", "gone"}]
      /\ reg \in [Draft -> Registrations] /\ config \in Configs
      /\ call[c].draft \in Draft /\ Scoped(call[c]) /\ Leases(c, call[c])
      /\ auth \in Keys \cup {NoOne, Paired} /\ Reads(call[c])
      /\ Imports(c, call[c]) /\ Deletes(c, call[c])
  BY <1>1 DEF IInv, TypeOK, Local, Scoped
<1>6. Local(c, call[c])'
  BY <1>1, <1>s, <1>3, <1>5 DEF Local, Scoped, Reads, Leases, Imports, Deletes, LiveDraft,
     Provider, Import,
              Deletion, Requests
<1>7. ASSUME NEW e \in Call \ {c} PROVE Local(e, call[e])'
  <2>1. Local(e, call[e]) /\ call'[e] = call[e] /\ call[e] \in Requests
    BY <1>5 DEF IInv, TypeOK
  <2> QED BY <1>1, <1>3, <2>1 DEF Local, Scoped, Reads, Leases, Imports, Deletes, LiveDraft,
     Provider, Import,
              Deletion, Requests, IInv, NothingOrphaned, Global
<1>8. Global'
  BY SMTT(30), <1>1, <1>3, <1>s DEF IInv, Global, NothingOrphaned, LiveDraft, Scoped, Leases,
     Imports, Deletes,
     Import, Deletion
<1>9. NothingOrphaned'
  <2>1. \A d \in Draft : reg'[d] # NoReg \/ config'.owner = d => draft'[d] \in {"draft", "deleting"}
    BY <1>1, <1>3, <1>s DEF IInv, NothingOrphaned, Global, LiveDraft, Scoped, Leases, Imports,
       Deletes, Import,
       Deletion
  <2>2. auth' # NoOne => config'.set
    BY <1>1, <1>3, <1>s DEF IInv, NothingOrphaned, Deletes
  <2>3. auth' \in Keys => config'.owner = auth'[1]
    BY <1>1, <1>3, <1>s DEF IInv, NothingOrphaned, Reads, Leases, Imports, Deletes, Import, Keys
  <2> QED BY <2>1, <2>2, <2>3 DEF NothingOrphaned
<1> HIDE DEF r
<1> QED BY <1>2, <1>3, <1>4, <1>6, <1>7, <1>8, <1>9, Acts DEF IInv, TypeOK

LEMMA MarkSetStep == ASSUME IInv, NEW c \in Call, Mark(c), draft[call[c].draft] = call[c].was,
  call[c].config.set PROVE IInv'
<1> DEFINE r == [call[c] EXCEPT !.pc = "suspend"]
<1>1. call[c] \in Requests /\ Local(c, call[c]) /\ call[c].pc = "mark"
  BY DEF IInv, TypeOK, At, Mark
<1>2. r \in Requests /\ r.pc # "call" /\ call' = [call EXCEPT ![c] = r]
  <2>1. r \in Requests
    BY <1>1, Relabelled DEF Labels
  <2>2. r.pc # "call"
    BY <1>1 DEF Requests
  <2> QED BY <1>1, <2>1, <2>2 DEF Mark, Goto, At
<1>3. draft' = [draft EXCEPT ![call[c].draft] = "deleting"] /\ UNCHANGED <<reg, config, auth, lease, operation, budget>>
  BY <1>1 DEF Mark, At
<1>4. draft' \in [Draft -> {"new", "draft", "deleting", "gone"}] /\ budget' \in Nat
  BY <1>1, <1>3 DEF IInv, TypeOK, Requests
<1>5. call'[c] = r /\ \A e \in Call \ {c} : call'[e] = call[e]
  BY <1>2 DEF IInv, TypeOK
<1>s. /\ draft \in [Draft -> {"new", "draft", "deleting", "gone"}]
      /\ reg \in [Draft -> Registrations] /\ config \in Configs
      /\ call[c].draft \in Draft /\ Scoped(call[c]) /\ Leases(c, call[c])
      /\ auth \in Keys \cup {NoOne, Paired} /\ Reads(call[c])
      /\ Imports(c, call[c]) /\ Deletes(c, call[c])
  BY <1>1 DEF IInv, TypeOK, Local, Scoped
<1>6. Local(c, call[c])'
  BY <1>1, <1>s, <1>3, <1>5 DEF Local, Scoped, Reads, Leases, Imports, Deletes, LiveDraft,
     Provider, Import,
              Deletion, Requests
<1>7. ASSUME NEW e \in Call \ {c} PROVE Local(e, call[e])'
  <2>1. Local(e, call[e]) /\ call'[e] = call[e] /\ call[e] \in Requests
    BY <1>5 DEF IInv, TypeOK
  <2> QED BY <1>1, <1>3, <2>1 DEF Local, Scoped, Reads, Leases, Imports, Deletes, LiveDraft,
     Provider, Import,
              Deletion, Requests, IInv, NothingOrphaned, Global
<1>8. Global'
  BY SMTT(30), <1>1, <1>3, <1>s DEF IInv, Global, NothingOrphaned, LiveDraft, Scoped, Leases,
     Imports, Deletes,
     Import, Deletion
<1>9. NothingOrphaned'
  <2>1. \A d \in Draft : reg'[d] # NoReg \/ config'.owner = d => draft'[d] \in {"draft", "deleting"}
    BY <1>1, <1>3, <1>s DEF IInv, NothingOrphaned, Global, LiveDraft, Scoped, Leases, Imports,
       Deletes, Import,
       Deletion
  <2>2. auth' # NoOne => config'.set
    BY <1>1, <1>3, <1>s DEF IInv, NothingOrphaned, Deletes
  <2>3. auth' \in Keys => config'.owner = auth'[1]
    BY <1>1, <1>3, <1>s DEF IInv, NothingOrphaned, Reads, Leases, Imports, Deletes, Import, Keys
  <2> QED BY <2>1, <2>2, <2>3 DEF NothingOrphaned
<1> HIDE DEF r
<1> QED BY <1>2, <1>3, <1>4, <1>6, <1>7, <1>8, <1>9, Acts DEF IInv, TypeOK

LEMMA ClearStep == ASSUME IInv, NEW c \in Call, Clear(c), At(c, "clear") PROVE IInv'
<1> DEFINE r == [call[c] EXCEPT !.pc = "forget"]
<1>1. call[c] \in Requests /\ Local(c, call[c]) /\ call[c].pc = "clear"
  BY DEF IInv, TypeOK, At, Clear
<1>2. r \in Requests /\ r.pc # "call" /\ call' = [call EXCEPT ![c] = r]
  <2>1. r \in Requests
    BY <1>1, Relabelled DEF Labels
  <2>2. r.pc # "call"
    BY <1>1 DEF Requests
  <2> QED BY <1>1, <2>1, <2>2 DEF Clear, Goto, At
<1>3. auth' = NoOne /\ UNCHANGED <<draft, reg, config, lease, operation, budget>>
  BY <1>1 DEF Clear, At
<1>4. auth' \in Keys \cup {NoOne, Paired} /\ budget' \in Nat
  BY <1>1, <1>3 DEF IInv, TypeOK
<1>5. call'[c] = r /\ \A e \in Call \ {c} : call'[e] = call[e]
  BY <1>2 DEF IInv, TypeOK
<1>s. /\ draft \in [Draft -> {"new", "draft", "deleting", "gone"}]
      /\ reg \in [Draft -> Registrations] /\ config \in Configs
      /\ call[c].draft \in Draft /\ Scoped(call[c]) /\ Leases(c, call[c])
      /\ auth \in Keys \cup {NoOne, Paired} /\ Reads(call[c])
      /\ Imports(c, call[c]) /\ Deletes(c, call[c])
  BY <1>1 DEF IInv, TypeOK, Local, Scoped
<1>6. Local(c, call[c])'
  BY <1>1, <1>s, <1>3, <1>5 DEF Local, Scoped, Reads, Leases, Imports, Deletes, LiveDraft,
     Provider, Import,
              Deletion, Requests
<1>7. ASSUME NEW e \in Call \ {c} PROVE Local(e, call[e])'
  <2>1. Local(e, call[e]) /\ call'[e] = call[e] /\ call[e] \in Requests
    BY <1>5 DEF IInv, TypeOK
  <2> QED BY <1>1, <1>3, <2>1 DEF Local, Scoped, Reads, Leases, Imports, Deletes, LiveDraft,
     Provider, Import,
              Deletion, Requests, IInv, NothingOrphaned, Global
<1>8. Global'
  BY SMTT(30), <1>1, <1>3, <1>s DEF IInv, Global, NothingOrphaned, LiveDraft, Scoped, Leases,
     Imports, Deletes,
     Import, Deletion
<1>9. NothingOrphaned'
  <2>1. \A d \in Draft : reg'[d] # NoReg \/ config'.owner = d => draft'[d] \in {"draft", "deleting"}
    BY <1>1, <1>3, <1>s DEF IInv, NothingOrphaned, Global, LiveDraft, Scoped, Leases, Imports,
       Deletes, Import,
       Deletion
  <2>2. auth' # NoOne => config'.set
    BY <1>1, <1>3, <1>s DEF IInv, NothingOrphaned, Deletes
  <2>3. auth' \in Keys => config'.owner = auth'[1]
    BY <1>1, <1>3, <1>s DEF IInv, NothingOrphaned, Reads, Leases, Imports, Deletes, Import, Keys
  <2> QED BY <2>1, <2>2, <2>3 DEF NothingOrphaned
<1> HIDE DEF r
<1> QED BY <1>2, <1>3, <1>4, <1>6, <1>7, <1>8, <1>9, Acts DEF IInv, TypeOK

LEMMA ForgetStep == ASSUME IInv, NEW c \in Call, Clear(c), At(c, "forget") PROVE IInv'
<1> DEFINE r == [call[c] EXCEPT !.pc = "finish"]
<1>1. call[c] \in Requests /\ Local(c, call[c]) /\ call[c].pc = "forget"
  BY DEF IInv, TypeOK, At, Clear
<1>2. r \in Requests /\ r.pc # "call" /\ call' = [call EXCEPT ![c] = r]
  <2>1. r \in Requests
    BY <1>1, Relabelled DEF Labels
  <2>2. r.pc # "call"
    BY <1>1 DEF Requests
  <2> QED BY <1>1, <2>1, <2>2 DEF Clear, Goto, At
<1>3. config' = NoConfig /\ UNCHANGED <<draft, reg, auth, lease, operation, budget>>
  BY <1>1 DEF Clear, At
<1>4. config' \in Configs /\ budget' \in Nat
  BY <1>1, <1>3 DEF IInv, TypeOK, NoConfig, Configs
<1>5. call'[c] = r /\ \A e \in Call \ {c} : call'[e] = call[e]
  BY <1>2 DEF IInv, TypeOK
<1>s. /\ draft \in [Draft -> {"new", "draft", "deleting", "gone"}]
      /\ reg \in [Draft -> Registrations] /\ config \in Configs
      /\ call[c].draft \in Draft /\ Scoped(call[c]) /\ Leases(c, call[c])
      /\ auth \in Keys \cup {NoOne, Paired} /\ Reads(call[c])
      /\ Imports(c, call[c]) /\ Deletes(c, call[c])
  BY <1>1 DEF IInv, TypeOK, Local, Scoped
<1>6. Local(c, call[c])'
  BY <1>1, <1>s, <1>3, <1>5 DEF Local, Scoped, Reads, Leases, Imports, Deletes, LiveDraft,
     Provider, Import,
              Deletion, Requests, NoConfig
<1>7. ASSUME NEW e \in Call \ {c} PROVE Local(e, call[e])'
  <2>1. Local(e, call[e]) /\ call'[e] = call[e] /\ call[e] \in Requests
    BY <1>5 DEF IInv, TypeOK
  <2> QED BY <1>1, <1>3, <2>1 DEF Local, Scoped, Reads, Leases, Imports, Deletes, LiveDraft,
     Provider, Import,
              Deletion, Requests, IInv, NothingOrphaned, Global, NoConfig
<1>8. Global'
  BY SMTT(30), <1>1, <1>3, <1>s DEF IInv, Global, NothingOrphaned, LiveDraft, Scoped, Leases,
     Imports, Deletes,
     Import, Deletion, NoConfig
<1>9. NothingOrphaned'
  <2>1. \A d \in Draft : reg'[d] # NoReg \/ config'.owner = d => draft'[d] \in {"draft", "deleting"}
    BY <1>1, <1>3, <1>s DEF IInv, NothingOrphaned, Global, LiveDraft, Scoped, Leases, Imports,
       Deletes, Import,
       Deletion, NoConfig
  <2>2. auth' # NoOne => config'.set
    BY <1>1, <1>3, <1>s DEF IInv, NothingOrphaned, Deletes, NoConfig
  <2>3. auth' \in Keys => config'.owner = auth'[1]
    BY <1>1, <1>3, <1>s DEF IInv, NothingOrphaned, Reads, Leases, Imports, Deletes, Import, Keys,
       NoConfig
  <2> QED BY <2>1, <2>2, <2>3 DEF NothingOrphaned
<1> HIDE DEF r
<1> QED BY <1>2, <1>3, <1>4, <1>6, <1>7, <1>8, <1>9, Acts DEF IInv, TypeOK

LEMMA FinishStep == ASSUME IInv, NEW c \in Call, Finish(c), draft[call[c].draft] = "deleting"
  PROVE IInv'
<1> DEFINE r == [call[c] EXCEPT !.pc = "release"]
<1>1. call[c] \in Requests /\ Local(c, call[c]) /\ call[c].pc = "finish"
  BY DEF IInv, TypeOK, At, Finish
<1>2. r \in Requests /\ r.pc # "call" /\ call' = [call EXCEPT ![c] = r]
  <2>1. r \in Requests
    BY <1>1, Relabelled DEF Labels
  <2>2. r.pc # "call"
    BY <1>1 DEF Requests
  <2> QED BY <1>1, <2>1, <2>2 DEF Finish, Goto, At
<1>3. draft' = [draft EXCEPT ![call[c].draft] = "gone"] /\ reg' = [reg EXCEPT ![call[c].draft] = NoReg] /\ UNCHANGED <<config, auth, lease, operation, budget>>
  BY <1>1 DEF Finish, At
<1>4. draft' \in [Draft -> {"new", "draft", "deleting", "gone"}] /\ reg' \in [Draft -> Registrations] /\ budget' \in Nat
  BY <1>1, <1>3 DEF IInv, TypeOK, Registrations, NoReg
<1>5. call'[c] = r /\ \A e \in Call \ {c} : call'[e] = call[e]
  BY <1>2 DEF IInv, TypeOK
<1>s. /\ draft \in [Draft -> {"new", "draft", "deleting", "gone"}]
      /\ reg \in [Draft -> Registrations] /\ config \in Configs
      /\ call[c].draft \in Draft /\ Scoped(call[c]) /\ Leases(c, call[c])
      /\ auth \in Keys \cup {NoOne, Paired} /\ Reads(call[c])
      /\ Imports(c, call[c]) /\ Deletes(c, call[c])
  BY <1>1 DEF IInv, TypeOK, Local, Scoped
<1>6. Local(c, call[c])'
  BY <1>1, <1>s, <1>3, <1>5 DEF Local, Scoped, Reads, Leases, Imports, Deletes, LiveDraft,
     Provider, Import,
              Deletion, Requests
<1>7. ASSUME NEW e \in Call \ {c} PROVE Local(e, call[e])'
  <2>1. Local(e, call[e]) /\ call'[e] = call[e] /\ call[e] \in Requests
    BY <1>5 DEF IInv, TypeOK
  <2> QED BY <1>1, <1>3, <2>1 DEF Local, Scoped, Reads, Leases, Imports, Deletes, LiveDraft,
     Provider, Import,
              Deletion, Requests, IInv, NothingOrphaned, Global, TypeOK
<1>8. Global'
  BY SMTT(30), <1>1, <1>3, <1>s DEF IInv, Global, NothingOrphaned, LiveDraft, Scoped, Leases,
     Imports, Deletes,
     Import, Deletion
<1>9. NothingOrphaned'
  <2>1. \A d \in Draft : reg'[d] # NoReg \/ config'.owner = d => draft'[d] \in {"draft", "deleting"}
    BY <1>1, <1>3, <1>s DEF IInv, NothingOrphaned, Global, LiveDraft, Scoped, Leases, Imports,
       Deletes, Import,
       Deletion
  <2>2. auth' # NoOne => config'.set
    BY <1>1, <1>3, <1>s DEF IInv, NothingOrphaned, Deletes
  <2>3. auth' \in Keys => config'.owner = auth'[1]
    BY <1>1, <1>3, <1>s DEF IInv, NothingOrphaned, Reads, Leases, Imports, Deletes, Import, Keys
  <2> QED BY <2>1, <2>2, <2>3 DEF NothingOrphaned
<1> HIDE DEF r
<1> QED BY <1>2, <1>3, <1>4, <1>6, <1>7, <1>8, <1>9, Acts DEF IInv, TypeOK

\* A request that finds things changed gives up.
LEMMA GivesUp ==
  ASSUME IInv, NEW c \in Call, Goto(c, "release"), UNCHANGED Store, budget' = budget,
         call[c].pc \notin {"idle", "dead"}
  PROVE  IInv'
<1>1. call[c] \in Requests /\ Scoped(call[c])
  BY DEF IInv, TypeOK, Local
<1>2. "release" \in Labels \ {"call"}
  BY DEF Labels
<1>3. Local(c, [call[c] EXCEPT !.pc = "release"])
  BY <1>1 DEF Local, Scoped, Reads, Leases, Imports, Deletes, Provider, Import, Deletion, Requests
<1> QED BY <1>2, <1>3, Relabels

LEMMA AcquireFails == ASSUME IInv, NEW c \in Call, Acquire(c), lease # NoOne PROVE IInv'
BY Ends DEF Acquire, Store

LEMMA WaitFails == ASSUME IInv, NEW c \in Call, Wait(c), lease # NoOne PROVE IInv'
BY GivesUp DEF Wait, Store, At

LEMMA MarkFails ==
  ASSUME IInv, NEW c \in Call, Mark(c), draft[call[c].draft] # call[c].was PROVE IInv'
BY GivesUp DEF Mark, Store, At

LEMMA SuspendOrphanFails ==
  ASSUME IInv, NEW c \in Call, SuspendOrphan(c), config.set PROVE IInv'
BY GivesUp DEF SuspendOrphan, Store, At

LEMMA FinishFails ==
  ASSUME IInv, NEW c \in Call, Finish(c), draft[call[c].draft] # "deleting" PROVE IInv'
BY GivesUp DEF Finish, Store, At

\* Leases that are released or expire are those of one request: the others keep
\* what they rely on.
LEMMA Drops ==
  ASSUME IInv, NEW c \in Call, NEW r \in Requests, call' = [call EXCEPT ![c] = r], r.pc # "call",
         lease' = IF lease = c THEN NoOne ELSE lease,
         operation' = [d \in Draft |-> IF operation[d] = c THEN NoOne ELSE operation[d]],
         UNCHANGED <<draft, reg, config, auth>>, budget' \in Nat,
         Local(c, r)'
  PROVE  IInv'
<1>1. call'[c] = r /\ \A e \in Call \ {c} : call'[e] = call[e]
  BY DEF IInv, TypeOK
<1>2. lease' \in Call \cup {NoOne, Live} /\ operation' \in [Draft -> Call \cup {NoOne}]
  BY DEF IInv, TypeOK
<1>3. lease' # c
  OBVIOUS
<1>4. ASSUME NEW e \in Call \ {c} PROVE Local(e, call[e])'
  <2>1. Local(e, call[e]) /\ call'[e] = call[e] /\ call[e] \in Requests
    BY <1>1 DEF IInv, TypeOK
  <2> QED BY <1>2, <2>1 DEF Local, Scoped, Reads, Leases, Imports, Deletes, LiveDraft, Deletion
<1>5. Global' /\ NothingOrphaned'
  BY DEF IInv, Global, NothingOrphaned, LiveDraft
<1>6. Local(c, call[c])'
  BY <1>1
<1> QED BY <1>2, <1>4, <1>5, <1>6, Acts DEF IInv, TypeOK

LEMMA RestingLater == ASSUME NEW c \in Call PROVE Local(c, Idle)'
BY DEF Idle, Local, Scoped, Reads, Leases, Imports, Deletes, Provider, Import, Deletion

LEMMA ReleaseStep == ASSUME IInv, NEW c \in Call, Release(c) PROVE IInv'
<1>1. Idle.pc # "call" /\ budget' \in Nat
  BY DEF Idle, IInv, TypeOK, Release
<1> QED BY <1>1, Resting, RestingLater, Drops DEF Release, End

LEMMA ExpireStep == ASSUME IInv, NEW c \in Call, Expire(c) PROVE IInv'
<1>1. budget' \in Nat
  BY DEF IInv, TypeOK, Expire, Disturb
<1>2. CASE End(c)
  <2>1. Idle.pc # "call"
    BY DEF Idle
  <2> QED BY <1>1, <1>2, <2>1, Resting, RestingLater, Drops DEF Expire, End
<1>3. CASE call[c].pc \in Stallable /\ UNCHANGED call
  <2>1. call[c] \in Requests /\ call' = [call EXCEPT ![c] = call[c]] /\ Local(c, call[c])
    BY <1>3 DEF IInv, TypeOK
  <2>2. lease' # c /\ \A d \in Draft : operation'[d] # c
    BY DEF Expire
  <2> PICK r \in Requests : r = call[c]
    BY <2>1
  <2>3. r.pc \in Stallable /\ Local(c, r) /\ UNCHANGED <<draft, reg, config, auth>>
    BY <1>3, <2>1 DEF Expire
  <2>4. r.pc # "call"
    BY <2>3 DEF Stallable
  <2>5. Local(c, r)'
    BY <2>2, <2>3 DEF Local, Scoped, Reads, Leases, Imports, Deletes, LiveDraft, Deletion,
       Stallable
  <2> QED BY <1>1, <2>1, <2>4, <2>5, Drops DEF Expire
<1> QED BY <1>2, <1>3 DEF Expire

LEMMA DeleteStep == ASSUME IInv, NEW c \in Call, NEW d \in Draft, Delete(c, d) PROVE IInv'
<1> DEFINE r == [Idle EXCEPT !.pc = "look", !.op = "delete", !.draft = d, !.was = draft[d]]
<1>1. /\ draft[d] \in {"draft", "deleting"} /\ operation[d] = NoOne
      /\ operation' = [operation EXCEPT ![d] = c] /\ call' = [call EXCEPT ![c] = r]
      /\ UNCHANGED <<draft, reg, config, auth, lease, budget>>
  BY DEF Delete
<1>r. r' = r
  BY <1>1
<1>d. draft[d] \in {"draft", "deleting"}
  BY <1>1
<1>2. r \in Requests /\ r.pc # "call"
  <2>1. draft[d] \in {"draft", "deleting"} /\ Idle \in Requests
    BY <1>d, Resting
  <2>2. r \in Requests /\ r.pc = "look"
    BY <2>1 DEF Requests, Labels
  <2> QED BY <2>2
<1>3. operation' \in [Draft -> Call \cup {NoOne}] /\ operation'[d] = c
      /\ \A e \in Draft \ {d} : operation'[e] = operation[e]
  BY <1>1 DEF IInv, TypeOK
<1>4. Local(c, r)'
  BY <1>1, <1>3 DEF Idle, Local, Scoped, Reads, Leases, Imports, Deletes, Provider, Import,
     Deletion
<1> HIDE DEF r
<1>5. call'[c] = r /\ \A e \in Call \ {c} : call'[e] = call[e]
  BY <1>1 DEF IInv, TypeOK
<1>6. ASSUME NEW e \in Call \ {c} PROVE Local(e, call[e])'
  <2>1. Local(e, call[e]) /\ call'[e] = call[e] /\ call[e] \in Requests
    BY <1>5 DEF IInv, TypeOK
  <2> QED BY <1>1, <1>3, <2>1 DEF Local, Scoped, Reads, Leases, Imports, Deletes, LiveDraft,
             Deletion
<1>7. Global' /\ NothingOrphaned'
  BY <1>1 DEF IInv, Global, NothingOrphaned, LiveDraft
<1>8. Local(c, call[c])'
  BY <1>4, <1>5, <1>r
<1> QED BY <1>1, <1>2, <1>3, <1>6, <1>7, <1>8, Acts DEF IInv, TypeOK

-----------------------------------------------------------------------------
(* The provider. Whoever has reserved the registration of a draft, and finds  *)
(* it as it was, is the only one that has.                                   *)

LEMMA ReserveStep == ASSUME IInv, NEW c \in Call, Reserve(c) PROVE IInv'
<1>1. call[c] \in Requests /\ Local(c, call[c]) /\ call[c].pc = "reserve"
  BY DEF IInv, TypeOK, At, Reserve
<1>2. CASE ~Unchanged(c)
  BY <1>2, Ends DEF Reserve, Store
<1>3. CASE Unchanged(c)
  <2> PICK d \in Draft : d = call[c].draft
    BY <1>1 DEF Local, Scoped, Provider
  <2> PICK op \in {"request", "verify", "check"} : op = call[c].op
    BY <1>1 DEF Local, Scoped, Provider
  <2> DEFINE s == IF op = "request" THEN "requesting" ELSE IF op = "verify" THEN "verifying"
                  ELSE "blocked"
  <2>1. /\ draft[d] = "draft" /\ reg[d] = call[c].seen /\ Eligible(op, reg[d])
        /\ reg[d] \in Registrations /\ call[c].keys \in {d} \X Call
        /\ (reg[d] # NoReg => call[c].keys = reg[d].keys)
    BY <1>1, <1>3 DEF Unchanged, SameDraftOnly, SameStateOnly, Local, Reads, Provider, IInv,
       TypeOK
  <2> PICK p \in Registrations : /\ p.status = s /\ p.keys = call[c].keys /\ p # NoReg
                                 /\ reg' = [reg EXCEPT ![d] = p]
                                 /\ call' = [call EXCEPT ![c].pc = "call", ![c].seen = p]
    <3> DEFINE p == CASE op = "request" -> Stored(c, "requesting", "none")
                      [] op = "verify"  -> Stored(c, "verifying", "none")
                      [] OTHER          -> Stored(c, call[c].seen.status, call[c].seen.why)
    <3>1. reg' = [reg EXCEPT ![d] = p] /\ call' = [call EXCEPT ![c].pc = "call", ![c].seen = p]
      BY <1>3 DEF Reserve, Write
    <3>2. p \in Registrations /\ p.status = s /\ p.keys = call[c].keys
      <4>1. /\ call[c].keys \in Keys /\ reg[d].version + 1 \in Nat
            /\ call[c].seen.status \in {"none", "requesting", "code_required", "verifying", "registered",
                                        "blocked", "uncertain"}
            /\ call[c].seen.why \in {"none", "refused", "confirm", "expired", "invalid", "other"}
        BY <2>1 DEF Registrations, Keys
      <4>2. op = "check" => call[c].seen.status = "blocked"
        BY <2>1 DEF Eligible
      <4>3. CASE op = "request"
        BY <4>1, <4>3 DEF Registrations, Stored
      <4>4. CASE op = "verify"
        BY <4>1, <4>4 DEF Registrations, Stored
      <4>5. CASE op = "check"
        BY <4>1, <4>2, <4>5 DEF Registrations, Stored
      <4> QED BY <4>3, <4>4, <4>5
    <3>3. p # NoReg
      BY <3>2 DEF NoReg
    <3> HIDE DEF p
    <3> QED BY <3>1, <3>2, <3>3
  <2> DEFINE l == [call[c] EXCEPT !.pc = "call", !.seen = p]
  <2> PICK r \in Requests : r = l
    BY <1>1 DEF Requests, Labels
  <2>2. call' = [call EXCEPT ![c] = r]
    OBVIOUS
  <2>3. /\ r.pc = "call" /\ r.seen = p /\ r.op = op /\ r.draft = d /\ r.keys = p.keys
    BY <1>1 DEF Requests
  <2> HIDE DEF l
  <2>4. call'[c] = r /\ \A e \in Call \ {c} : call'[e] = call[e]
    BY <2>2 DEF IInv, TypeOK
  <2>5. reg'[d] = p /\ (\A e \in Draft \ {d} : reg'[e] = reg[e])
        /\ reg' \in [Draft -> Registrations]
        /\ UNCHANGED <<draft, config, auth, lease, operation, budget>>
    BY <1>3 DEF Reserve, IInv, TypeOK
  <2>6. ASSUME NEW e \in Call \ {c}, call[e].pc = "call", call[e].op # "check",
               call[e].draft = d
        PROVE  FALSE
    <3>1. call[e].op \in {"request", "verify"} /\ reg[d] = call[e].seen /\ reg[d] # NoReg
          /\ reg[d].status \in {"requesting", "verifying"}
      BY <2>1, <2>6 DEF IInv, Local, Scoped, Reads, Provider
    <3> QED BY <2>1, <3>1 DEF Eligible, CanResend, CanRecover
  <2>7. Local(c, r)'
    BY <2>1, <2>3, <2>5 DEF Local, Scoped, Reads, Leases, Imports, Deletes, Provider, Import,
       Deletion
  <2>8. ASSUME NEW e \in Call \ {c} PROVE Local(e, call[e])'
    <3>1. Local(e, call[e]) /\ call'[e] = call[e] /\ call[e] \in Requests
      BY <2>4 DEF IInv, TypeOK
    <3>2. call[e].draft # d => reg'[call[e].draft] = reg[call[e].draft] \/ call[e].draft \notin Draft
      BY <2>5
    <3>3. Reads(call[e])'
      BY <2>5, <2>6, <3>1, <3>2 DEF Local, Scoped, Reads, Provider
    <3>4. Scoped(call[e])' /\ Leases(e, call[e])' /\ Deletes(e, call[e])'
      BY <2>5, <3>1 DEF Local, Scoped, Leases, Deletes
    <3>5. Imports(e, call[e])'
      BY <2>5, <3>1, <3>2 DEF Local, Scoped, Imports, Import, LiveDraft
    <3> QED BY <3>3, <3>4, <3>5 DEF Local
  <2>9. Global' /\ NothingOrphaned'
    BY <2>1, <2>5 DEF IInv, Global, NothingOrphaned, LiveDraft
  <2>10. OneProviderCall'
    <3> SUFFICES ASSUME NEW a \in Call, NEW e \in Call, At(a, "call")', At(e, "call")',
                        call'[a].draft = call'[e].draft, call'[a].op # "check",
                        call'[e].op # "check"
                 PROVE  a = e
      BY DEF OneProviderCall
    <3>0. call'[a].pc = "call" /\ call'[e].pc = "call"
      BY DEF At
    <3>1. CASE a # c /\ e # c
      <4>1. call'[a] = call[a] /\ call'[e] = call[e]
        BY <2>4, <3>1
      <4>2. OneProviderCall
        BY DEF IInv
      <4> QED BY <3>0, <4>1, <4>2 DEF At, OneProviderCall
    <3>2. CASE a = c /\ e # c
      <4>1. call'[a] = r /\ call'[e] = call[e]
        BY <2>4, <3>2
      <4> QED BY <2>3, <2>6, <3>0, <3>2, <4>1
    <3>3. CASE e = c /\ a # c
      <4>1. call'[e] = r /\ call'[a] = call[a]
        BY <2>4, <3>3
      <4> QED BY <2>3, <2>6, <3>0, <3>3, <4>1
    <3> QED BY <3>1, <3>2, <3>3
  <2>11. TypeOK'
    <3>1. call' \in [Call -> Requests]
      BY <2>2 DEF IInv, TypeOK
    <3>2. TypeOK
      BY DEF IInv
    <3> QED BY <2>5, <3>1, <3>2 DEF TypeOK
  <2>12. Local(c, call[c])'
    BY <2>4, <2>7
  <2> QED BY <2>8, <2>9, <2>10, <2>11, <2>12 DEF IInv
<1> QED BY <1>2, <1>3

LEMMA AnswerStep == ASSUME IInv, NEW c \in Call, Answer(c) PROVE IInv'
<1>1. call[c] \in Requests /\ Local(c, call[c]) /\ call[c].pc = "call"
  BY DEF IInv, TypeOK, At, Answer
<1>2. CASE ~Unchanged(c)
  BY <1>2, Ends DEF Answer, Store
<1>3. CASE Unchanged(c)
  <2> PICK d \in Draft : d = call[c].draft
    BY <1>1 DEF Local, Scoped
  <2>1. /\ draft[d] = "draft" /\ reg[d] = call[c].seen /\ reg[d] # NoReg
        /\ reg[d] \in Registrations /\ call[c].keys \in {d} \X Call
        /\ call[c].op \in {"request", "verify", "check"}
        /\ (call[c].op = "check" => reg[d].status = "blocked")
    BY <1>1, <1>3 DEF Unchanged, SameDraftOnly, SameStateOnly, Local, Scoped, Reads, Provider,
       IInv, TypeOK
  <2> PICK p \in Registrations : /\ p.keys = call[c].keys /\ p # NoReg
                                 /\ reg' = [reg EXCEPT ![d] = p]
    <3> PICK o \in Outcomes(call[c].op) : reg' = [reg EXCEPT ![d] = Stored(c, o[1], o[2])]
      BY <1>3 DEF Answer, Write
    <3>1. Stored(c, o[1], o[2]) \in Registrations /\ Stored(c, o[1], o[2]).keys = call[c].keys
      BY <2>1 DEF Outcomes, Stored, Registrations, Keys
    <3>2. Stored(c, o[1], o[2]) # NoReg
      BY <2>1 DEF Stored, NoReg, Registrations
    <3> QED BY <3>1, <3>2
  <2>2. call' = [call EXCEPT ![c] = Idle]
    BY DEF Answer, End
  <2>4. call'[c] = Idle /\ \A e \in Call \ {c} : call'[e] = call[e]
    BY <2>2 DEF IInv, TypeOK
  <2>5. reg'[d] = p /\ (\A e \in Draft \ {d} : reg'[e] = reg[e])
        /\ reg' \in [Draft -> Registrations]
        /\ UNCHANGED <<draft, config, auth, lease, operation, budget>>
    BY <1>3 DEF Answer, IInv, TypeOK
  <2>6. ASSUME NEW e \in Call \ {c}, call[e].pc = "call", call[e].op # "check",
               call[e].draft = d
        PROVE  FALSE
    <3>1. call[e].op \in {"request", "verify"} /\ reg[d] = call[e].seen
          /\ reg[d].status \in {"requesting", "verifying"}
      BY <2>1, <2>6 DEF IInv, Local, Scoped, Reads, Provider
    <3>2. call[c].op # "check"
      BY <2>1, <3>1
    <3> QED BY <1>1, <2>6, <3>2 DEF IInv, OneProviderCall, At
  <2>8. ASSUME NEW e \in Call \ {c} PROVE Local(e, call[e])'
    <3>1. Local(e, call[e]) /\ call'[e] = call[e] /\ call[e] \in Requests
      BY <2>4 DEF IInv, TypeOK
    <3>2. call[e].draft # d => reg'[call[e].draft] = reg[call[e].draft] \/ call[e].draft \notin Draft
      BY <2>5
    <3>3. Reads(call[e])'
      BY <2>5, <2>6, <3>1, <3>2 DEF Local, Scoped, Reads, Provider
    <3>4. Scoped(call[e])' /\ Leases(e, call[e])' /\ Deletes(e, call[e])'
      BY <2>5, <3>1 DEF Local, Scoped, Leases, Deletes
    <3>5. Imports(e, call[e])'
      BY <2>5, <3>1, <3>2 DEF Local, Scoped, Imports, Import, LiveDraft
    <3> QED BY <3>3, <3>4, <3>5 DEF Local
  <2>9. Global' /\ NothingOrphaned'
    BY <2>1, <2>5 DEF IInv, Global, NothingOrphaned, LiveDraft
  <2>10. Local(c, call[c])'
    BY <2>4, RestingLater
  <2>11. Idle \in Requests /\ Idle.pc # "call"
    BY Resting DEF Idle
  <2> QED BY <2>2, <2>5, <2>8, <2>9, <2>10, <2>11, Acts DEF IInv, TypeOK
<1> QED BY <1>2, <1>3

-----------------------------------------------------------------------------
(* The environment *)

LEMMA Surroundings ==
  ASSUME IInv, UNCHANGED <<call, operation>>,
         draft' \in [Draft -> {"new", "draft", "deleting", "gone"}],
         reg' = reg, config' \in Configs, auth' \in Keys \cup {NoOne, Paired},
         lease' \in Call \cup {NoOne, Live}, budget' \in Nat,
         \A e \in Call : Local(e, call[e]) => Local(e, call[e])',
         Global', NothingOrphaned'
  PROVE  IInv'
<1>1. TypeOK' /\ OneProviderCall'
  BY DEF IInv, TypeOK, OneProviderCall, At
<1> QED BY <1>1 DEF IInv

LEMMA RegisterStep == ASSUME IInv, Register PROVE IInv'
<1>1. /\ ~config.set /\ config' = [NoConfig EXCEPT !.set = TRUE, !.auto = TRUE]
      /\ UNCHANGED <<draft, reg, auth, lease, operation, call>>
  BY DEF Register
<1>4. config' \in Configs /\ config'.owner = NoOne /\ config'.set
  BY <1>1 DEF NoConfig, Configs
<1>5. budget' \in Nat
  BY DEF Register, Disturb, IInv, TypeOK
<1>2. ASSUME NEW e \in Call, Local(e, call[e]) PROVE Local(e, call[e])'
  BY <1>1, <1>4, <1>2 DEF Local, Scoped, Reads, Leases, Imports, Deletes, LiveDraft, Deletion
<1>3. Global' /\ NothingOrphaned'
  BY <1>1, <1>4 DEF IInv, Global, NothingOrphaned, LiveDraft
<1> QED BY <1>1, <1>2, <1>3, <1>4, <1>5, Surroundings DEF IInv, TypeOK

LEMMA OpenStep == ASSUME IInv, Open \/ Close PROVE IInv'
<1>1. /\ lease \notin Call /\ lease' \notin Call /\ lease' \in {NoOne, Live}
      /\ UNCHANGED <<draft, reg, config, auth, operation, call, budget>>
  BY DEF Open, Close
<1>2. ASSUME NEW e \in Call, Local(e, call[e]) PROVE Local(e, call[e])'
  BY <1>1, <1>2 DEF Local, Scoped, Reads, Leases, Imports, Deletes, LiveDraft
<1>3. Global' /\ NothingOrphaned'
  BY <1>1 DEF IInv, Global, NothingOrphaned, LiveDraft
<1> QED BY <1>1, <1>2, <1>3, Surroundings DEF IInv, TypeOK

LEMMA PairStep == ASSUME IInv, Pair PROVE IInv'
<1>1. /\ lease = Live /\ lease \notin Call /\ config.set /\ auth' = Paired /\ Paired \notin Keys
      /\ UNCHANGED <<draft, reg, config, lease, operation, call, budget>>
  BY DEF Pair, Keys
<1>2. ASSUME NEW e \in Call, Local(e, call[e]) PROVE Local(e, call[e])'
  BY <1>1, <1>2 DEF Local, Scoped, Reads, Leases, Imports, Deletes, LiveDraft
<1>3. Global' /\ NothingOrphaned'
  BY <1>1 DEF IInv, Global, NothingOrphaned, LiveDraft
<1> QED BY <1>1, <1>2, <1>3, Surroundings DEF IInv, TypeOK

LEMMA CreateStep == ASSUME IInv, NEW d \in Draft, Create(d) PROVE IInv'
<1>1. /\ draft[d] = "new" /\ (\A e \in Draft : ~LiveDraft(e))
      /\ draft' \in [Draft -> {"new", "draft", "deleting", "gone"}]
      /\ draft'[d] = "draft" /\ \A e \in Draft \ {d} : draft'[e] = draft[e]
      /\ UNCHANGED <<reg, config, auth, lease, operation, call, budget>>
  BY DEF Create, IInv, TypeOK, LiveDraft
<1>2. ASSUME NEW e \in Call, Local(e, call[e]) PROVE Local(e, call[e])'
  BY <1>1, <1>2 DEF Local, Scoped, Reads, Leases, Imports, Deletes, LiveDraft, Provider, Import,
     Deletion
<1>3. reg[d] = NoReg /\ config.owner # d
  BY <1>1 DEF IInv, NothingOrphaned
<1>4. Global' /\ NothingOrphaned'
  BY <1>1, <1>3 DEF IInv, Global, NothingOrphaned, LiveDraft
<1> QED BY <1>1, <1>2, <1>4, Surroundings DEF IInv, TypeOK

LEMMA RemoveStep == ASSUME IInv, NEW d \in Draft, Remove(d) PROVE IInv'
<1>1. /\ draft[d] = "draft" /\ reg[d] = NoReg
      /\ draft' \in [Draft -> {"new", "draft", "deleting", "gone"}]
      /\ draft'[d] = "gone" /\ \A e \in Draft \ {d} : draft'[e] = draft[e]
      /\ UNCHANGED <<reg, config, auth, lease, operation, call, budget>>
  BY DEF Remove, IInv, TypeOK, LiveDraft
<1>2. ASSUME NEW e \in Call, Local(e, call[e]) PROVE Local(e, call[e])'
  BY <1>1, <1>2 DEF Local, Scoped, Reads, Leases, Imports, Deletes, LiveDraft, Provider, Import,
     Deletion
<1>3. config.owner # d
  BY <1>1 DEF IInv, Global
<1>4. Global' /\ NothingOrphaned'
  BY <1>1, <1>3 DEF IInv, Global, NothingOrphaned, LiveDraft
<1> QED BY <1>1, <1>2, <1>4, Surroundings DEF IInv, TypeOK

-----------------------------------------------------------------------------
(* The invariant *)

LEMMA Initially == Init => IInv
<1> SUFFICES ASSUME Init PROVE IInv
  OBVIOUS
<1>1. NoReg \in Registrations /\ NoConfig \in Configs
  BY DEF NoReg, NoConfig, Registrations, Configs
<1>2. TypeOK
  BY <1>1, Resting DEF Init, TypeOK
<1>3. \A c \in Call : call[c] = Idle
  BY DEF Init
<1>4. \A c \in Call : Local(c, call[c])
  BY <1>3, Resting
<1>5. Global /\ NothingOrphaned
  BY DEF Init, Global, NothingOrphaned, LiveDraft, NoConfig, Keys
<1>6. OneProviderCall
  BY <1>3 DEF OneProviderCall, At, Idle
<1> QED BY <1>2, <1>4, <1>5, <1>6 DEF IInv

LEMMA Invariance == IInv /\ [Next]_vars => IInv'
<1> SUFFICES ASSUME IInv, [Next]_vars PROVE IInv'
  OBVIOUS
<1>1. CASE UNCHANGED vars
  <2>1. TypeOK' /\ Global' /\ OneProviderCall' /\ NothingOrphaned'
    BY <1>1 DEF vars, IInv, TypeOK, Global, OneProviderCall, At, NothingOrphaned, LiveDraft
  <2>2. ASSUME NEW e \in Call, Local(e, call[e]) PROVE Local(e, call[e])'
    BY <1>1, <2>2 DEF vars, Local, Scoped, Reads, Leases, Imports, Deletes, LiveDraft
  <2> QED BY <2>1, <2>2 DEF IInv
<1>2. CASE Others
  BY <1>2, RegisterStep, OpenStep, PairStep, CreateStep, RemoveStep DEF Others
<1>3. ASSUME NEW c \in Call, Registering(c) PROVE IInv'
  BY <1>3, AskStep, ReserveStep, AnswerStep, CheckFailsStep DEF Registering
<1>4. ASSUME NEW c \in Call, Connecting(c) PROVE IInv'
  BY <1>4, ConnectStep, AcquireStep, AcquireFails, RecheckStep, LookAtConfigStep, LoadAuthStep,
     RenewStep, CreateReadStep, CreateWriteStep, SaveStep, RenewedStep, FlagReadStep,
     FlagWriteStep, ReleaseStep DEF Connecting
<1>5. ASSUME NEW c \in Call, Deleting(c) PROVE IInv'
  <2>1. ASSUME Mark(c) PROVE IInv'
    BY <2>1, MarkFails, MarkStep, MarkSetStep
  <2>2. ASSUME Clear(c) PROVE IInv'
    BY <2>2, ClearStep, ForgetStep DEF Clear
  <2>3. ASSUME Wait(c) \/ SuspendOrphan(c) \/ Finish(c) PROVE IInv'
    BY <2>3, WaitStep, WaitFails, SuspendOrphanStep, SuspendOrphanFails, FinishStep, FinishFails
  <2> QED BY <1>5, <2>1, <2>2, <2>3, DeleteStep, LookStep, SuspendReadStep, SuspendWriteStep,
             RenewBothStep, LatestStep DEF Deleting
<1>6. ASSUME NEW c \in Call, Crash(c) \/ Expire(c) PROVE IInv'
  BY <1>6, CrashStep, ExpireStep
<1> QED BY <1>1, <1>2, <1>3, <1>4, <1>5, <1>6 DEF Next

LEMMA Always == Spec => []IInv
BY Initially, Invariance, PTL DEF Spec

-----------------------------------------------------------------------------
(* What it gives *)

\* The types of the drafts, the registrations and the requests hold throughout.
THEOREM Typed == Spec => []TypeOK
<1>1. IInv => TypeOK
  BY DEF IInv
<1> QED BY <1>1, Always, PTL

\* For any number of requests: REGISTRATION_CAS (registration_service.ts) lets one
\* at a time ask the provider for a code of a draft, or verify one.
THEOREM OneCall == Spec => []OneProviderCall
<1>1. IInv => OneProviderCall
  BY DEF IInv
<1> QED BY <1>1, Always, PTL

\* For any number of imports and deletions, crashes and expiries: the order of the
\* writes of connect and remove never leaves a registration without its draft, or
\* credentials without the configuration that owns them.
THEOREM Orphans == Spec => []NothingOrphaned
<1>1. IInv => NothingOrphaned
  BY DEF IInv
<1> QED BY <1>1, Always, PTL

\* What each step does to a registration.
LEMMA KeptByReserve ==
  ASSUME IInv, NEW c \in Call, Reserve(c), NEW d \in Draft, reg[d] # NoReg
  PROVE  reg'[d].keys = reg[d].keys /\ (reg[d].status = "registered" => reg'[d] = reg[d])
<1>1. CASE ~Unchanged(c)
  BY <1>1 DEF Reserve
<1>2. CASE Unchanged(c) /\ call[c].draft # d
  BY <1>2 DEF Reserve, Write, IInv, TypeOK
<1>3. CASE Unchanged(c) /\ call[c].draft = d
  <2>1. /\ reg[d] = call[c].seen /\ Eligible(call[c].op, reg[d]) /\ call[c].keys = reg[d].keys
        /\ call[c].op \in {"request", "verify", "check"} /\ reg \in [Draft -> Registrations]
    BY <1>3 DEF Unchanged, SameStateOnly, Reserve, At, IInv, TypeOK, Local, Scoped, Reads,
       Provider
  <2>2. reg[d].status # "registered"
    BY <2>1 DEF Eligible, CanResend, CanRecover, NoReg
  <2>3. reg'[d].keys = call[c].keys
    <3>1. CASE call[c].op = "request"
      BY <1>3, <2>1, <3>1 DEF Reserve, Write, Stored
    <3>2. CASE call[c].op = "verify"
      BY <1>3, <2>1, <3>2 DEF Reserve, Write, Stored
    <3>3. CASE call[c].op = "check"
      BY <1>3, <2>1, <3>3 DEF Reserve, Write, Stored
    <3> QED BY <2>1, <3>1, <3>2, <3>3
  <2> QED BY <2>1, <2>2, <2>3
<1> QED BY <1>1, <1>2, <1>3

LEMMA KeptByAnswer ==
  ASSUME IInv, NEW c \in Call, Answer(c), NEW d \in Draft, reg[d] # NoReg
  PROVE  reg'[d].keys = reg[d].keys /\ (reg[d].status = "registered" => reg'[d] = reg[d])
<1>1. CASE ~Unchanged(c)
  BY <1>1 DEF Answer
<1>2. CASE Unchanged(c)
  <2> PICK o \in Outcomes(call[c].op) : reg' = [reg EXCEPT ![call[c].draft] = Stored(c, o[1], o[2])]
    BY <1>2 DEF Answer, Write
  <2>1. CASE call[c].draft # d
    BY <2>1 DEF IInv, TypeOK
  <2>2. CASE call[c].draft = d
    <3>1. /\ reg[d] = call[c].seen /\ call[c].keys = reg[d].keys /\ reg \in [Draft -> Registrations]
          /\ reg[d].status # "registered"
      BY <1>2, <2>2 DEF Unchanged, SameStateOnly, Answer, At, IInv, TypeOK, Local, Reads, Provider
    <3>2. reg'[d].keys = call[c].keys
      BY <2>2, <3>1 DEF Stored
    <3> QED BY <3>1, <3>2
  <2> QED BY <2>1, <2>2
<1> QED BY <1>1, <1>2

\* For any drafts and requests: the keys of a registration are never rotated, and a
\* late answer never replaces a registration that is complete.
THEOREM Kept == Spec => RegistrationIsKept
<1>1. ASSUME IInv, [Next]_vars, NEW d \in Draft, reg[d] # NoReg, reg'[d] # NoReg
      PROVE  reg'[d].keys = reg[d].keys /\ (reg[d].status = "registered" => reg'[d] = reg[d])
  <2>1. CASE UNCHANGED vars \/ Others
    BY <2>1 DEF vars, Others, Register, Open, Pair, Close, Create, Remove
  <2>2. ASSUME NEW c \in Call, Registering(c)
        PROVE  reg'[d].keys = reg[d].keys /\ (reg[d].status = "registered" => reg'[d] = reg[d])
    BY <1>1, <2>2, KeptByReserve, KeptByAnswer DEF Registering, Ask, CheckFails
  <2>3. ASSUME NEW c \in Call, Connecting(c) PROVE reg' = reg
    BY <2>3 DEF Connecting, Connect, Acquire, Recheck, LookAtConfig, LoadAuth, Renew, CreateRead,
       CreateWrite, Save, Renewed, FlagRead, FlagWrite, Release
  <2>4. ASSUME NEW c \in Call, Finish(c) PROVE reg'[d] = reg[d]
    BY <1>1, <2>4 DEF Finish, IInv, TypeOK
  <2>5. ASSUME NEW c \in Call, Deleting(c), ~Finish(c) PROVE reg' = reg
    BY <2>5 DEF Deleting, Delete, Look, Mark, SuspendRead, SuspendWrite, SuspendOrphan, Wait,
       RenewBoth, Latest, Clear
  <2>6. ASSUME NEW c \in Call, Crash(c) \/ Expire(c) PROVE reg' = reg
    BY <2>6 DEF Crash, Expire
  <2> QED BY <1>1, <2>1, <2>2, <2>3, <2>4, <2>5, <2>6 DEF Next
<1>2. IInv /\ [Next]_vars =>
        [\A d \in Draft : reg[d] # NoReg /\ reg'[d] # NoReg =>
           reg'[d].keys = reg[d].keys /\ (reg[d].status = "registered" => reg'[d] = reg[d])]_vars
  BY <1>1
<1> QED BY <1>2, Always, PTL DEF Spec, RegistrationIsKept

\* For any drafts and requests: an import never replaces credentials, of another
\* registration or of the worker, and only a deletion under the lease removes them.
THEOREM AuthKept == Spec => LiveAuthIsKept
<1>1. ASSUME IInv, [Next]_vars, auth # NoOne, auth' # auth
      PROVE  auth' = NoOne /\ lease \in Call
  <2>1. CASE UNCHANGED vars \/ Others
    BY <1>1, <2>1 DEF vars, Others, Register, Open, Pair, Close, Create, Remove
  <2>2. ASSUME NEW c \in Call, Registering(c) PROVE FALSE
    BY <1>1, <2>2 DEF Registering, Ask, Reserve, Answer, CheckFails
  <2>3. ASSUME NEW c \in Call, Save(c) PROVE FALSE
    <3>1. Local(c, call[c]) /\ call[c].pc = "save" /\ auth' = IF call[c].existing THEN auth ELSE call[c].keys
      BY <1>1, <2>3 DEF Save, At, IInv
    <3>2. call[c].op = "connect" /\ lease = c
      BY <3>1 DEF Local, Scoped, Leases, Import
    <3>3. ~call[c].existing => auth = NoOne
      BY <3>1, <3>2 DEF Local, Imports
    <3> QED BY <1>1, <3>1, <3>3
  <2>4. ASSUME NEW c \in Call, Connecting(c), ~Save(c) PROVE FALSE
    BY <1>1, <2>4 DEF Connecting, Connect, Acquire, Recheck, LookAtConfig, LoadAuth, Renew,
       CreateRead, CreateWrite, Renewed, FlagRead, FlagWrite, Release
  <2>5. ASSUME NEW c \in Call, Clear(c) PROVE auth' = NoOne /\ lease \in Call
    <3>1. At(c, "clear") /\ auth' = NoOne
      BY <1>1, <2>5 DEF Clear
    <3>2. Leases(c, call[c])
      BY <1>1 DEF IInv, Local
    <3> QED BY <3>1, <3>2 DEF At, Leases
  <2>6. ASSUME NEW c \in Call, Deleting(c), ~Clear(c) PROVE FALSE
    BY <1>1, <2>6 DEF Deleting, Delete, Look, Mark, SuspendRead, SuspendWrite, SuspendOrphan,
       Wait,
       RenewBoth, Latest, Finish
  <2>7. ASSUME NEW c \in Call, Crash(c) \/ Expire(c) PROVE FALSE
    BY <1>1, <2>7 DEF Crash, Expire
  <2> QED BY <1>1, <2>1, <2>2, <2>3, <2>4, <2>5, <2>6, <2>7 DEF Next
<1>2. IInv /\ [Next]_vars => [auth # NoOne /\ auth' # auth => auth' = NoOne /\ lease \in Call]_vars
  BY <1>1
<1> QED BY <1>2, Always, PTL DEF Spec, LiveAuthIsKept

=============================================================================
