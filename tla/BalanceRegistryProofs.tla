----------------------- MODULE BalanceRegistryProofs -----------------------
(***************************************************************************)
(* Proofs about the creation of balances, for any number of handlers,      *)
(* names, addresses and keys.  The properties of BalanceRegistry are about *)
(* what clients were told; the invariant ties that to the markers in the   *)
(* accounts, and the markers to the calls that the ledger has executed.    *)
(***************************************************************************)
EXTENDS BalanceRegistry, TLAPS

Metadata ==
    [balance : BOOLEAN, marker : [Keys -> Balances \union {None}],
     live : [Live -> ValidNames \union Expiries \union {Never} \union Priorities \union {None}]]

Creatable(req) == req \in Requests /\ req.name \in ValidNames /\ req.name # Main

\* A key that the ledger knows has left its response where its request says.
JournalOK ==
    \A k \in Keys : journal[k] # None =>
        \E req \in Requests :
            /\ Creatable(req)
            /\ req.key = k
            /\ journal[k] = <<AccountOf[req.name], Body(req)>>
            /\ account[AccountOf[req.name]].marker[k] = NewBalance(req)

\* It has left none elsewhere, and a key that the ledger does not know none.
MarkersOK ==
    \A a \in Accounts, k \in Keys : account[a].marker[k] # None =>
        /\ journal[k] # None
        /\ journal[k][1] = a
        /\ account[a].balance

\* What was told under a key is the response at the address of its request.
ToldOK ==
    \A t \in told :
        /\ Creatable(t[1])
        /\ t[1].key \in Keys
        /\ t[2] \in Balances
        /\ account[AccountOf[t[1].name]].marker[t[1].key] = t[2]

Replies == {Refusal(s) : s \in Refusals} \union {Ok(b) : b \in Balances}

Tasks == [pc : {"idle", "look", "write"}, req : Requests \union {None}, reply : Replies \union {None}]

StateOK ==
    /\ account \in [Accounts -> Metadata]
    /\ task \in [Handlers -> Tasks]
    /\ \A h \in Handlers : task[h].pc \in {"look", "write"} => Creatable(task[h].req)

\* The inductive invariant.
Inv ==
    /\ TypeOK
    /\ StateOK
    /\ JournalOK
    /\ MarkersOK
    /\ ToldOK
    /\ OneRequestsBalance
-----------------------------------------------------------------------------
\* What a request that passes Validate writes is well formed.
LEMMA BodyType ==
    ASSUME NEW req, Creatable(req)
    PROVE  /\ req.key \in Keys \union {NoKey}
           /\ AccountOf[req.name] \in Accounts
           /\ NewBalance(req) \in Balances
           /\ NewBalance(req) # None
           /\ Body(req) \in Metadata
           /\ Body(req).balance = TRUE
           /\ Body(req).live = LiveMetadata(NewBalance(req))
           /\ \A k \in Keys : Body(req).marker[k] = IF k = req.key THEN NewBalance(req) ELSE None
           /\ \A a \in Live : Body(req).live[a] # None
<1>1. /\ req.key \in Keys \union {NoKey}
      /\ AccountOf[req.name] \in Accounts
      /\ NewBalance(req) \in Balances
      /\ NewBalance(req) # None
  BY NamesAssumption, DataAssumption, NoneAssumption DEF Creatable, CreateRequests, NewBalance, Balances
<1>2. \A a \in Live : /\ NewBalance(req)[a] \in ValidNames \union Expiries \union {Never} \union Priorities
                      /\ NewBalance(req)[a] # None
  BY <1>1, NoneAssumption DEF Live, NewBalance, Balances
<1>3. LiveMetadata(NewBalance(req)) \in
        [Live -> ValidNames \union Expiries \union {Never} \union Priorities \union {None}]
  BY <1>2 DEF LiveMetadata
<1>4. Markers(req) \in [Keys -> Balances \union {None}]
  BY <1>1 DEF Markers
<1> QED
  BY <1>1, <1>2, <1>3, <1>4 DEF Body, Metadata, Markers, LiveMetadata

\* Metadata that is merged is well formed.
LEMMA MergeType ==
    ASSUME NEW m \in Metadata, NEW n \in Metadata
    PROVE  /\ Merge(m, n) \in Metadata
           /\ Merge(m, n).balance = (m.balance \/ n.balance)
           /\ \A k \in Keys :
                Merge(m, n).marker[k] = IF n.marker[k] # None THEN n.marker[k] ELSE m.marker[k]
           /\ (\A a \in Live : n.live[a] # None) => Merge(m, n).live = n.live
<1>1. Join(m.marker, n.marker) \in [Keys -> Balances \union {None}]
  BY DEF Join, Metadata
<1>2. Join(m.live, n.live) \in
        [Live -> ValidNames \union Expiries \union {Never} \union Priorities \union {None}]
  BY DEF Join, Metadata
<1>3. \A k \in Keys :
        Join(m.marker, n.marker)[k] = IF n.marker[k] # None THEN n.marker[k] ELSE m.marker[k]
  BY DEF Join, Metadata
<1>4. (\A a \in Live : n.live[a] # None) => Join(m.live, n.live) = n.live
  BY DEF Join, Metadata
<1>5. m.balance \/ n.balance \in BOOLEAN
  BY DEF Metadata
<1> QED
  BY <1>1, <1>2, <1>3, <1>4, <1>5 DEF Merge, Metadata

\* The invariant holds of a wallet that has only its main balance.
LEMMA InitInv == Init => Inv
<1> SUFFICES ASSUME Init PROVE Inv
  OBVIOUS
<1>1. NoMetadata \in Metadata
  BY DEF NoMetadata, Metadata
<1>2. \A a \in Accounts : /\ account[a] \in Metadata
                          /\ account[a].marker = NoMetadata.marker
                          /\ account[a].live = NoMetadata.live
  BY <1>1 DEF Init, NoMetadata, Metadata
<1>3. account \in [Accounts -> Metadata]
  BY <1>2 DEF Init
<1>4. ASSUME NEW a \in Accounts PROVE MetadataOK(account[a])
  <2>1. \A x \in Live : account[a].live[x] = None
    BY <1>2 DEF NoMetadata
  <2>2. account[a].balance \in BOOLEAN /\ account[a].marker \in [Keys -> Balances \union {None}]
    BY <1>2 DEF Metadata
  <2> QED
    BY <2>1, <2>2 DEF MetadataOK, Live
<1>5. TypeOK
  BY <1>4, DataAssumption DEF Init, TypeOK, Idle
<1>6. StateOK
  BY <1>3 DEF Init, StateOK, Idle, Tasks
<1>7. JournalOK /\ MarkersOK /\ ToldOK /\ OneRequestsBalance
  BY <1>2 DEF Init, JournalOK, MarkersOK, ToldOK, OneRequestsBalance, NoMetadata
<1> QED
  BY <1>5, <1>6, <1>7 DEF Inv

\* What the ledger makes of a call that it executes: the account has the body
\* of the request, and every marker that was there before.
LEMMA Executed ==
    ASSUME Inv, NEW req, Creatable(req), Execute(req)
    PROVE  /\ account' \in [Accounts -> Metadata]
           /\ account'[AccountOf[req.name]].live = LiveMetadata(NewBalance(req))
           /\ account'[AccountOf[req.name]].balance
           /\ \A a \in Accounts : a # AccountOf[req.name] => account'[a] = account[a]
           /\ \A k \in Keys :
                account'[AccountOf[req.name]].marker[k] =
                    IF k = req.key THEN NewBalance(req) ELSE account[AccountOf[req.name]].marker[k]
           /\ \A k \in Keys :
                journal'[k] = IF k = req.key THEN <<AccountOf[req.name], Body(req)>> ELSE journal[k]
           /\ req.key \in Keys => journal[req.key] = None
<1> DEFINE a == AccountOf[req.name]
<1>1. /\ a \in Accounts /\ Body(req) \in Metadata /\ NewBalance(req) # None
      /\ account \in [Accounts -> Metadata]
  BY BodyType DEF Inv, StateOK
<1>2. account' = [account EXCEPT ![a] = Merge(account[a], Body(req))]
  BY DEF Execute
<1>3. /\ Merge(account[a], Body(req)) \in Metadata
      /\ Merge(account[a], Body(req)).balance
      /\ Merge(account[a], Body(req)).live = Body(req).live
      /\ \A k \in Keys : Merge(account[a], Body(req)).marker[k] =
            IF Body(req).marker[k] # None THEN Body(req).marker[k] ELSE account[a].marker[k]
  <2>1. account[a] \in Metadata
    BY <1>1
  <2>2. /\ Merge(account[a], Body(req)) \in Metadata
        /\ Merge(account[a], Body(req)).balance = (account[a].balance \/ Body(req).balance)
        /\ \A k \in Keys : Merge(account[a], Body(req)).marker[k] =
             IF Body(req).marker[k] # None THEN Body(req).marker[k] ELSE account[a].marker[k]
        /\ (\A x \in Live : Body(req).live[x] # None)
              => Merge(account[a], Body(req)).live = Body(req).live
    BY <1>1, <2>1, MergeType
  <2>3. Body(req).balance = TRUE /\ \A x \in Live : Body(req).live[x] # None
    BY BodyType
  <2>4. Merge(account[a], Body(req)).balance
    BY <2>2, <2>3, Zenon
  <2> QED
    BY <2>2, <2>3, <2>4
<1>4. \A k \in Keys : Body(req).marker[k] = IF k = req.key THEN NewBalance(req) ELSE None
  BY BodyType
<1>5. \A k \in Keys :
        journal'[k] = IF k = req.key THEN <<AccountOf[req.name], Body(req)>> ELSE journal[k]
  BY DEF Execute, LedgerKey
<1>6. req.key \in Keys => journal[req.key] = None
  BY DEF Execute, Fresh, LedgerKey
<1>7. Body(req).live = LiveMetadata(NewBalance(req))
  BY BodyType
<1> QED
  BY <1>1, <1>2, <1>3, <1>4, <1>5, <1>6, <1>7

\* A call that is executed keeps what the invariant says of the ledger, and
\* the responses that were told.
LEMMA ExecuteInv ==
    ASSUME Inv, NEW req, Creatable(req), Execute(req)
    PROVE  /\ account' \in [Accounts -> Metadata]
           /\ \A a \in Accounts : MetadataOK(account'[a])
           /\ \A k \in Keys :
                journal'[k] # None => journal'[k][1] \in Accounts /\ MetadataOK(journal'[k][2])
           /\ JournalOK' /\ MarkersOK' /\ OneRequestsBalance'
           /\ \A t \in told : account'[AccountOf[t[1].name]].marker[t[1].key] = t[2]
           /\ req.key \in Keys =>
                account'[AccountOf[req.name]].marker[req.key] = NewBalance(req)
<1> DEFINE at == AccountOf[req.name]
<1>1. /\ at \in Accounts /\ NewBalance(req) \in Balances /\ NewBalance(req) # None
      /\ Body(req) \in Metadata /\ Body(req).live = LiveMetadata(NewBalance(req))
      /\ req \in Requests /\ req.name \in ValidNames /\ req.name # Main
  BY BodyType DEF Creatable
<1>2. /\ account' \in [Accounts -> Metadata]
      /\ account'[at].live = LiveMetadata(NewBalance(req))
      /\ account'[at].balance
      /\ \A a \in Accounts : a # at => account'[a] = account[a]
      /\ \A k \in Keys :
            account'[at].marker[k] = IF k = req.key THEN NewBalance(req) ELSE account[at].marker[k]
      /\ \A k \in Keys : journal'[k] = IF k = req.key THEN <<at, Body(req)>> ELSE journal[k]
      /\ req.key \in Keys => journal[req.key] = None
  BY Executed
<1> HIDE DEF at
<1>3. ASSUME NEW m \in Metadata, m.live = LiveMetadata(NewBalance(req)) PROVE MetadataOK(m)
  <2>1. /\ m.live["name"] \in ValidNames
        /\ m.live["expiry"] \in Expiries \union {Never}
        /\ m.live["priority"] \in Priorities
    BY <1>1, <1>3 DEF LiveMetadata, NewBalance, Balances, Live
  <2> QED
    BY <2>1 DEF MetadataOK, Metadata
<1>4. \A a \in Accounts : MetadataOK(account'[a])
  BY <1>2, <1>3 DEF Inv, TypeOK
<1>5. ASSUME NEW k \in Keys, journal'[k] # None
      PROVE  journal'[k][1] \in Accounts /\ MetadataOK(journal'[k][2])
  BY <1>1, <1>2, <1>3, <1>5 DEF Inv, TypeOK
<1>6. JournalOK'
  <2> SUFFICES ASSUME NEW k \in Keys, journal'[k] # None
               PROVE  \E r \in Requests :
                         /\ Creatable(r)
                         /\ r.key = k
                         /\ journal'[k] = <<AccountOf[r.name], Body(r)>>
                         /\ account'[AccountOf[r.name]].marker[k] = NewBalance(r)
    BY DEF JournalOK
  <2>1. CASE k = req.key
    BY <1>1, <1>2, <2>1 DEF at, Creatable
  <2>2. CASE k # req.key
    <3>1. PICK r \in Requests : /\ Creatable(r)
                                /\ r.key = k
                                /\ journal[k] = <<AccountOf[r.name], Body(r)>>
                                /\ account[AccountOf[r.name]].marker[k] = NewBalance(r)
      BY <1>2, <2>2 DEF Inv, JournalOK
    <3>2. AccountOf[r.name] \in Accounts
      BY <3>1, BodyType
    <3>3. account'[AccountOf[r.name]].marker[k] = NewBalance(r)
      BY <1>2, <2>2, <3>1, <3>2
    <3> QED
      BY <1>2, <2>2, <3>1, <3>3
  <2> QED
    BY <2>1, <2>2
<1>7. MarkersOK'
  <2> SUFFICES ASSUME NEW a \in Accounts, NEW k \in Keys, account'[a].marker[k] # None
               PROVE  journal'[k] # None /\ journal'[k][1] = a /\ account'[a].balance
    BY DEF MarkersOK
  <2>1. <<at, Body(req)>> # None
    BY <1>1, CallsAssumption
  <2>2. CASE k = req.key
    <3>1. a = at
      BY <1>2, <2>2 DEF Inv, MarkersOK
    <3> QED
      BY <1>2, <2>1, <2>2, <3>1
  <2>3. CASE k # req.key
    BY <1>2, <2>3 DEF Inv, MarkersOK
  <2> QED
    BY <2>2, <2>3
<1>8. OneRequestsBalance'
  <2> SUFFICES ASSUME NEW a \in Accounts, account'[a].live # NoMetadata.live
               PROVE  \E r \in Requests : /\ r.name \in ValidNames \ {Main}
                                          /\ AccountOf[r.name] = a
                                          /\ account'[a].live = LiveMetadata(NewBalance(r))
    BY DEF OneRequestsBalance
  <2>1. CASE a = at
    BY <1>1, <1>2, <2>1 DEF at
  <2>2. CASE a # at
    BY <1>2, <2>2 DEF Inv, OneRequestsBalance
  <2> QED
    BY <2>1, <2>2
<1>9. ASSUME NEW t \in told PROVE account'[AccountOf[t[1].name]].marker[t[1].key] = t[2]
  <2>1. /\ Creatable(t[1]) /\ t[1].key \in Keys /\ t[2] # None
        /\ account[AccountOf[t[1].name]].marker[t[1].key] = t[2]
    BY NoneAssumption DEF Inv, ToldOK
  <2>2. AccountOf[t[1].name] \in Accounts
    BY <2>1, BodyType
  <2>3. journal[t[1].key] # None
    BY <2>1, <2>2 DEF Inv, MarkersOK
  <2>4. t[1].key # req.key
    BY <1>2, <2>1, <2>3
  <2> QED
    BY <1>2, <2>1, <2>2, <2>4
<1> QED
  BY <1>2, <1>4, <1>5, <1>6, <1>7, <1>8, <1>9 DEF at

-----------------------------------------------------------------------------
TaskOK(t) ==
    /\ \/ t = Idle
       \/ t.pc \in {"look", "write"} /\ t.req \in Requests /\ t.reply = None
       \/ t.pc = "idle" /\ t.req \in Requests /\ t.reply \in Replies
    /\ t.pc \in {"look", "write"} => Creatable(t.req)

LedgerOK ==
    /\ account \in [Accounts -> Metadata]
    /\ \A a \in Accounts : MetadataOK(account[a])
    /\ \A k \in Keys :
         journal[k] # None => journal[k][1] \in Accounts /\ MetadataOK(journal[k][2])
    /\ JournalOK
    /\ MarkersOK
    /\ OneRequestsBalance

\* The invariant, sorted by the variables it is about.
LEMMA InvParts ==
    Inv <=> /\ LedgerOK
            /\ task \in [Handlers -> Tasks]
            /\ \A h \in Handlers : TaskOK(task[h])
            /\ received \in 0 .. MaxReceived
            /\ told \subseteq CreateRequests \X Balances
            /\ ToldOK
BY DEF Inv, TypeOK, StateOK, LedgerOK, TaskOK, Replies

LEMMA PartsInv ==
    ASSUME LedgerOK', task' \in [Handlers -> Tasks], \A h \in Handlers : TaskOK(task'[h]),
           received' \in 0 .. MaxReceived, told' \subseteq CreateRequests \X Balances, ToldOK'
    PROVE  Inv'
BY DEF Inv, TypeOK, StateOK, LedgerOK, TaskOK, Replies

LEMMA SameLedger == ASSUME LedgerOK, UNCHANGED <<account, journal>> PROVE LedgerOK'
BY DEF LedgerOK, JournalOK, MarkersOK, OneRequestsBalance

\* An answer leaves the handler idle, and what was told is in the account.
LEMMA AnswerInv ==
    ASSUME Inv, LedgerOK', received' \in 0 .. MaxReceived, NEW h \in Handlers,
           NEW req \in Requests, NEW reply \in Replies, Answer(h, req, reply),
           \A t \in told : account'[AccountOf[t[1].name]].marker[t[1].key] = t[2],
           reply.status = "ok" /\ req.key # NoKey =>
                /\ Creatable(req)
                /\ account'[AccountOf[req.name]].marker[req.key] = reply.balance
    PROVE  Inv'
<1>1. /\ task \in [Handlers -> Tasks]
      /\ \A g \in Handlers : TaskOK(task[g])
      /\ told \subseteq CreateRequests \X Balances
      /\ ToldOK
  BY InvParts
<1>2. task' = [task EXCEPT ![h] = [pc |-> "idle", req |-> req, reply |-> reply]]
  BY DEF Answer
<1>3. task' \in [Handlers -> Tasks] /\ \A g \in Handlers : TaskOK(task'[g])
  BY <1>1, <1>2 DEF TaskOK, Tasks
<1>4. CASE req.key # NoKey /\ reply.status = "ok"
  <2>1. told' = told \union {<<req, reply.balance>>}
    BY <1>4 DEF Answer
  <2>2. req \in CreateRequests /\ req.key \in Keys
    BY <1>4, DataAssumption DEF CreateRequests
  <2>3. reply.balance \in Balances
    BY <1>4 DEF Replies, Refusal, Refusals, Ok
  <2>4. told' \subseteq CreateRequests \X Balances
    BY <1>1, <2>1, <2>2, <2>3
  <2>5. ToldOK'
    BY <1>1, <1>4, <2>1, <2>2, <2>3 DEF ToldOK
  <2> QED
    BY <1>3, <2>4, <2>5, PartsInv
<1>5. CASE ~(req.key # NoKey /\ reply.status = "ok")
  <2>1. told' = told
    BY <1>5 DEF Answer
  <2>2. ToldOK'
    BY <1>1, <2>1 DEF ToldOK
  <2> QED
    BY <1>1, <1>3, <2>1, <2>2, PartsInv
<1> QED
  BY <1>4, <1>5

\* A call that the ledger repeats has left its marker at the same address.
LEMMA RepeatedMarker ==
    ASSUME Inv, NEW req, Creatable(req), Repeated(req)
    PROVE  account[AccountOf[req.name]].marker[req.key] = NewBalance(req)
<1>1. /\ req.key \in Keys /\ journal[req.key] # None
      /\ journal[req.key] = <<AccountOf[req.name], Body(req)>>
  BY DEF Repeated, Fresh, LedgerKey
<1>2. PICK r \in Requests : /\ Creatable(r)
                            /\ r.key = req.key
                            /\ journal[req.key] = <<AccountOf[r.name], Body(r)>>
                            /\ account[AccountOf[r.name]].marker[req.key] = NewBalance(r)
  BY <1>1 DEF Inv, JournalOK
<1>3. AccountOf[r.name] = AccountOf[req.name] /\ Body(r) = Body(req)
  BY <1>1, <1>2
<1>4. NewBalance(r) = Body(r).marker[req.key] /\ NewBalance(req) = Body(req).marker[req.key]
  BY <1>1, <1>2, BodyType
<1> QED
  BY <1>2, <1>3, <1>4

\* Every step keeps the invariant.
LEMMA NextInv == Inv /\ [Next]_vars => Inv'
<1> SUFFICES ASSUME Inv, [Next]_vars PROVE Inv'
  OBVIOUS
<1>1. /\ LedgerOK
      /\ task \in [Handlers -> Tasks]
      /\ \A g \in Handlers : TaskOK(task[g])
      /\ received \in 0 .. MaxReceived
      /\ told \subseteq CreateRequests \X Balances
      /\ ToldOK
  BY InvParts
<1>2. \A s \in Refusals : Refusal(s) \in Replies /\ Refusal(s).status # "ok"
  BY DEF Replies, Refusal, Refusals
<1>3. \A t \in told : account[AccountOf[t[1].name]].marker[t[1].key] = t[2]
  BY <1>1 DEF ToldOK
<1>4. ASSUME NEW h \in Handlers, task[h].pc \in {"look", "write"}
      PROVE  Creatable(task[h].req) /\ task[h].req \in Requests
  BY <1>1, <1>4 DEF TaskOK, Creatable
<1>5. ASSUME NEW h \in Handlers, NEW req \in Requests, Receive(h, req) PROVE Inv'
  <2>1. /\ UNCHANGED <<account, journal>>
        /\ received' \in 0 .. MaxReceived
    BY <1>1, <1>5, DataAssumption DEF Receive
  <2>2. LedgerOK'
    BY <1>1, <2>1, SameLedger
  <2>3. ASSUME NEW s \in Refusals, Answer(h, req, Refusal(s)) PROVE Inv'
    BY <1>2, <1>3, <2>1, <2>2, <2>3, AnswerInv
  <2>4. CASE /\ req.name \in ValidNames \ {Main}
             /\ task' = [task EXCEPT ![h] = [pc |-> "look", req |-> req, reply |-> None]]
             /\ UNCHANGED told
    <3>1. task' \in [Handlers -> Tasks] /\ \A g \in Handlers : TaskOK(task'[g])
      BY <1>1, <2>4 DEF TaskOK, Creatable, Tasks
    <3>2. ToldOK'
      BY <1>1, <2>1, <2>4 DEF ToldOK
    <3> QED
      BY <1>1, <2>1, <2>2, <2>4, <3>1, <3>2, PartsInv
  <2> QED
    BY <1>5, <2>3, <2>4 DEF Receive, Refusals
<1>6. ASSUME NEW h \in Handlers, Look(h) PROVE Inv'
  <2> DEFINE req == task[h].req
             m == account[AccountOf[req.name]]
  <2>1. /\ UNCHANGED <<account, journal, received>> /\ LedgerOK'
        /\ Creatable(req) /\ req \in Requests /\ task[h].pc = "look"
    BY <1>1, <1>4, <1>6, SameLedger DEF Look
  <2>2. ASSUME NEW s \in Refusals, Answer(h, req, Refusal(s)) PROVE Inv'
    BY <1>1, <1>2, <1>3, <2>1, <2>2, AnswerInv
  <2>3. CASE m.balance /\ Answer(h, req, Existing(m, req))
    <3>1. CASE req.key \in Keys /\ m.marker[req.key] # None
      <4>1. m \in Metadata
        BY <1>1, <2>1, BodyType DEF LedgerOK
      <4>2. m.marker[req.key] \in Balances
        BY <3>1, <4>1 DEF Metadata
      <4>3. /\ Existing(m, req) = Ok(m.marker[req.key])
            /\ Existing(m, req) \in Replies
            /\ Existing(m, req).balance = m.marker[req.key]
        BY <3>1, <4>2 DEF Existing, Ok, Replies
      <4> QED
        BY <1>1, <1>3, <2>1, <2>3, <4>3, AnswerInv
    <3>2. CASE ~(req.key \in Keys /\ m.marker[req.key] # None)
      BY <2>2, <2>3, <3>2 DEF Existing, Refusals
    <3> QED
      BY <3>1, <3>2
  <2>4. CASE task' = [task EXCEPT ![h].pc = "write"] /\ UNCHANGED told
    <3>1. task[h] # Idle
      BY <2>1 DEF Idle
    <3>2. task[h].req \in Requests /\ task[h].reply = None
      BY <1>1, <2>1, <3>1 DEF TaskOK
    <3>3. /\ task' \in [Handlers -> Tasks]
          /\ task'[h].pc = "write" /\ task'[h].req = req /\ task'[h].reply = None
          /\ \A g \in Handlers : g # h => task'[g] = task[g]
      BY <1>1, <2>4, <3>2 DEF Tasks
    <3>4. \A g \in Handlers : TaskOK(task'[g])
      BY <1>1, <2>1, <3>3 DEF TaskOK
    <3>5. ToldOK'
      BY <1>1, <2>1, <2>4 DEF ToldOK
    <3> QED
      BY <1>1, <2>1, <2>4, <3>3, <3>4, <3>5, PartsInv
  <2> QED
    BY <1>6, <2>2, <2>3, <2>4 DEF Look, Refusals
<1>7. ASSUME NEW h \in Handlers, WriteSucceeds(h) PROVE Inv'
  <2> DEFINE req == task[h].req
  <2>1. /\ received' = received /\ Creatable(req) /\ req \in Requests
        /\ Answer(h, req, Ok(NewBalance(req)))
    BY <1>4, <1>7 DEF WriteSucceeds
  <2>2. Ok(NewBalance(req)) \in Replies /\ Ok(NewBalance(req)).balance = NewBalance(req)
    BY <2>1, BodyType DEF Replies, Ok
  <2>3. req.key # NoKey => req.key \in Keys
    BY <2>1, BodyType
  <2>4. CASE Execute(req)
    <3>1. LedgerOK'
      BY <2>1, <2>4, ExecuteInv DEF LedgerOK
    <3> QED
      BY <1>1, <2>1, <2>2, <2>3, <2>4, <3>1, ExecuteInv, AnswerInv
  <2>5. CASE Repeated(req)
    <3>1. /\ UNCHANGED <<account, journal>> /\ LedgerOK'
          /\ req.key \in Keys /\ journal[req.key] # None
          /\ journal[req.key] = <<AccountOf[req.name], Body(req)>>
      BY <1>1, <2>5, SameLedger DEF Repeated, Fresh, LedgerKey
    <3>2. account[AccountOf[req.name]].marker[req.key] = NewBalance(req)
      BY <2>1, <2>5, RepeatedMarker
    <3> QED
      BY <1>1, <1>3, <2>1, <2>2, <3>1, <3>2, AnswerInv
  <2> QED
    BY <1>7, <2>4, <2>5 DEF WriteSucceeds
<1>8. ASSUME NEW h \in Handlers, WriteFails(h) PROVE Inv'
  <2> DEFINE req == task[h].req
  <2>1. /\ received' = received /\ Creatable(req) /\ req \in Requests
        /\ Answer(h, req, Refusal("Internal"))
    BY <1>4, <1>8 DEF WriteFails
  <2>2. Refusal("Internal") \in Replies /\ Refusal("Internal").status # "ok"
    BY <1>2 DEF Refusals
  <2>3. CASE Execute(req)
    <3>1. LedgerOK'
      BY <2>1, <2>3, ExecuteInv DEF LedgerOK
    <3> QED
      BY <1>1, <2>1, <2>2, <2>3, <3>1, ExecuteInv, AnswerInv
  <2>4. CASE UNCHANGED <<account, journal>>
    BY <1>1, <1>3, <2>1, <2>2, <2>4, SameLedger, AnswerInv
  <2> QED
    BY <1>8, <2>3, <2>4 DEF WriteFails
<1>9. ASSUME NEW h \in Handlers, Abandon(h) PROVE Inv'
  <2>1. task' \in [Handlers -> Tasks] /\ \A g \in Handlers : TaskOK(task'[g])
    BY <1>1, <1>9 DEF Abandon, TaskOK, Idle, Tasks
  <2>2. ToldOK' /\ LedgerOK'
    BY <1>1, <1>9, SameLedger DEF Abandon, ToldOK
  <2> QED
    BY <1>1, <1>9, <2>1, <2>2, PartsInv DEF Abandon
<1>10. CASE UNCHANGED vars
  <2>1. ToldOK' /\ LedgerOK'
    BY <1>1, <1>10, SameLedger DEF vars, ToldOK
  <2> QED
    BY <1>1, <1>10, <2>1, PartsInv DEF vars
<1> QED
  BY <1>5, <1>6, <1>7, <1>8, <1>9, <1>10 DEF Next

\* The invariant holds of every behaviour.
THEOREM Creating == Spec => []Inv
BY InitInv, NextInv, PTL DEF Spec

\* Accounts, recorded calls, handlers and answers are well formed.
THEOREM TypeCorrect == Spec => []TypeOK
<1>1. Inv => TypeOK
  BY DEF Inv
<1> QED
  BY <1>1, Creating, PTL

\* The attributes of a balance are those of one request, in whatever order
\* concurrent creates have written them.
THEOREM BalancesAreOfOneRequest == Spec => []OneRequestsBalance
<1>1. Inv => OneRequestsBalance
  BY DEF Inv
<1> QED
  BY <1>1, Creating, PTL

\* A refusal because the balance exists comes from Look, which has found no
\* marker; had the client been told of a success, there would be one.
THEOREM RetriesReplay == Spec => RetryReplays
<1>1. ASSUME Inv, [Next]_vars, NEW h \in Handlers,
             task[h].pc # "idle", task'[h].pc = "idle", task'[h].req # None,
             task'[h].req.key # NoKey, task'[h].reply.status = "BalanceAlreadyExists",
             NEW b \in Balances, <<task'[h].req, b>> \in told
      PROVE  FALSE
  <2>1. task \in [Handlers -> Tasks] /\ ToldOK
    BY <1>1 DEF Inv, StateOK
  <2>2. task' # task
    BY <1>1
  <2>3. PICK g \in Handlers :
            \/ \E req \in Requests : Receive(g, req)
            \/ Look(g)
            \/ WriteSucceeds(g)
            \/ WriteFails(g)
            \/ Abandon(g)
    BY <1>1, <2>2 DEF Next, vars
  <2>4. g = h
    BY <1>1, <2>1, <2>3 DEF Receive, Look, WriteSucceeds, WriteFails, Abandon, Answer
  <2>5. CASE Look(h)
    <3> DEFINE req == task[h].req
               m == account[AccountOf[req.name]]
    <3>1. Answer(h, req, Existing(m, req)) \/ Answer(h, req, Refusal("Internal"))
      <4>1. task[h] \in Tasks
        BY <2>1
      <4>2. ASSUME task' = [task EXCEPT ![h].pc = "write"] PROVE FALSE
        <5>1. task'[h] = [task[h] EXCEPT !.pc = "write"]
          BY <2>1, <4>2
        <5>2. task'[h].pc = "write"
          BY <4>1, <5>1 DEF Tasks
        <5> QED
          BY <1>1, <5>2
      <4> QED
        BY <2>5, <4>2 DEF Look
    <3>2. /\ task'[h].req = req
          /\ task'[h].reply \in {Existing(m, req), Refusal("Internal")}
      BY <2>1, <3>1 DEF Answer
    <3>3. Refusal("Internal").status # "BalanceAlreadyExists"
      BY DEF Refusal
    <3>4. ~(req.key \in Keys /\ m.marker[req.key] # None)
      <4>1. req.key \in Keys /\ m.marker[req.key] # None => Existing(m, req).status = "ok"
        BY DEF Existing, Ok
      <4>2. task'[h].reply.status = "BalanceAlreadyExists"
        BY <1>1
      <4>3. task'[h].reply = Existing(m, req)
        BY <3>2, <3>3, <4>2
      <4> QED
        BY <4>1, <4>2, <4>3
    <3>5. req.key \in Keys /\ m.marker[req.key] = b
      BY <1>1, <2>1, <3>2 DEF ToldOK
    <3> QED
      BY <3>4, <3>5, NoneAssumption
  <2>6. CASE WriteSucceeds(h) \/ WriteFails(h)
    BY <1>1, <2>1, <2>6 DEF WriteSucceeds, WriteFails, Answer, Ok, Refusal
  <2>7. CASE Abandon(h)
    BY <1>1, <2>1, <2>7 DEF Abandon, Idle
  <2>8. CASE \E req \in Requests : Receive(h, req)
    BY <1>1, <2>8 DEF Receive
  <2> QED
    BY <2>3, <2>4, <2>5, <2>6, <2>7, <2>8
<1>2. Inv /\ [Next]_vars =>
        [\A h \in Handlers :
            LET t == task'[h]
            IN task[h].pc # "idle" /\ t.pc = "idle" /\ t.req # None /\ t.req.key # NoKey
                 /\ t.reply.status = "BalanceAlreadyExists"
               => \A b \in Balances : <<t.req, b>> \notin told]_vars
  BY <1>1
<1> QED
  BY <1>2, Creating, PTL DEF Spec, RetryReplays

-----------------------------------------------------------------------------
(* The refinement: the outcome of a key is the marker it left somewhere.    *)

LEMMA Single ==
    ASSUME NEW S, NEW b \in S, \A c \in S : c = b
    PROVE  S # {} /\ (CHOOSE x \in S : TRUE) = b
OBVIOUS

Outcome(k) == IF Left(k) = {} THEN None ELSE CHOOSE b \in Left(k) : TRUE

\* A key has left one response at the most, that of the call it was used for.
LEMMA OutcomeOfMarker ==
    ASSUME Inv, NEW k \in Keys, NEW a \in Accounts, account[a].marker[k] # None
    PROVE  Outcome(k) = account[a].marker[k]
<1>1. account[a].marker[k] \in Left(k)
  BY DEF Left
<1>2. ASSUME NEW c \in Left(k) PROVE c = account[a].marker[k]
  <2>1. PICK d \in Accounts : c = account[d].marker[k] /\ c # None
    BY <1>2 DEF Left
  <2>2. journal[k][1] = d /\ journal[k][1] = a
    BY <2>1 DEF Inv, MarkersOK
  <2> QED
    BY <2>1, <2>2
<1> QED
  BY <1>1, <1>2, Single DEF Outcome

\* It has left none before the ledger executes its call.
LEMMA OutcomeOfNone ==
    ASSUME Inv, NEW k \in Keys, journal[k] = None
    PROVE  Left(k) = {} /\ Outcome(k) = None
BY DEF Inv, MarkersOK, Left, Outcome

Tellings == {<<t[1].key, t[2]>> : t \in told}

\* A call that is executed gives its key an outcome and no other key one.
LEMMA OutcomeOfExecute ==
    ASSUME Inv, NEW req, Creatable(req), Execute(req), NEW k \in Keys
    PROVE  Outcome(k)' = IF k = req.key THEN NewBalance(req) ELSE Outcome(k)
<1> DEFINE at == AccountOf[req.name]
<1>0. at \in Accounts /\ NewBalance(req) # None
  BY BodyType
<1>1. /\ \A a \in Accounts : a # at => account'[a] = account[a]
      /\ \A c \in Keys :
            account'[at].marker[c] = IF c = req.key THEN NewBalance(req) ELSE account[at].marker[c]
      /\ req.key \in Keys => journal[req.key] = None
  BY Executed
<1> HIDE DEF at
<1>2. CASE k = req.key
  <2>1. \A a \in Accounts : account[a].marker[k] = None
    BY <1>0, <1>1, <1>2 DEF Inv, MarkersOK
  <2>2. NewBalance(req) \in Left(k)'
    BY <1>0, <1>1, <1>2 DEF Left
  <2>3. \A c \in Left(k)' : c = NewBalance(req)
    BY <1>0, <1>1, <1>2, <2>1 DEF Left
  <2>4. Left(k)' # {} /\ (CHOOSE x \in Left(k)' : TRUE) = NewBalance(req)
    BY <2>2, <2>3, Single
  <2> QED
    BY <1>2, <2>4 DEF Outcome
<1>3. CASE k # req.key
  <2>1. \A a \in Accounts : account'[a].marker[k] = account[a].marker[k]
    BY <1>0, <1>1, <1>3
  <2>2. Left(k)' = Left(k)
    BY <2>1 DEF Left
  <2> QED
    BY <1>3, <2>2 DEF Outcome
<1> QED
  BY <1>2, <1>3

LEMMA TellingMore ==
    ASSUME NEW req, NEW b, told' = told \union {<<req, b>>}
    PROVE  Tellings' = Tellings \union {<<req.key, b>>}
<1> DEFINE Pairs(S) == {<<t[1].key, t[2]>> : t \in S}
<1>1. Pairs(told \union {<<req, b>>}) = Pairs(told) \union Pairs({<<req, b>>})
  OBVIOUS
<1>2. Pairs({<<req, b>>}) = {<<req.key, b>>}
  <2>1. <<req, b>>[1] = req /\ <<req, b>>[2] = b
    OBVIOUS
  <2>2. \A x : x \in Pairs({<<req, b>>}) <=> x = <<<<req, b>>[1].key, <<req, b>>[2]>>
    OBVIOUS
  <2>3. \A x : x \in Pairs({<<req, b>>}) <=> x = <<req.key, b>>
    BY <2>1, <2>2, Zenon
  <2> HIDE DEF Pairs
  <2> QED
    BY <2>3
<1>3. Tellings = Pairs(told) /\ Tellings' = Pairs(told')
  BY DEF Tellings
<1> QED
  BY <1>1, <1>2, <1>3, Zenon

\* The variables of IdempotentCreate.
Recorded == [k \in Keys |-> Outcome(k)]

\* The steps of IdempotentCreate, in terms of these.
LEMMA Mapping ==
    /\ (UNCHANGED <<Recorded, Tellings>> => UNCHANGED Registry!vars)
    /\ \A k \in Keys, b \in Balances :
         /\ Recorded[k] = None
         /\ Recorded' = [Recorded EXCEPT ![k] = b]
         /\ Tellings' \in {Tellings, Tellings \union {<<k, b>>}}
         => Registry!Create(k, b)
    /\ \A k \in Keys :
         /\ Recorded[k] # None
         /\ Tellings' = Tellings \union {<<k, Recorded[k]>>}
         /\ UNCHANGED Recorded
         => Registry!Replay(k)
BY DEF Recorded, Outcome, Tellings, Registry!vars, Registry!Create, Registry!Replay

\* A call that is executed is the creation, whether its client is told or not.
LEMMA ExecuteCreates ==
    ASSUME Inv, NEW req, Creatable(req), Execute(req), req.key \in Keys,
           told' \in {told, told \union {<<req, NewBalance(req)>>}}
    PROVE  Registry!Next
<1>1. NewBalance(req) \in Balances /\ journal[req.key] = None
  BY BodyType, Executed
<1>2. Outcome(req.key) = None
  BY <1>1, OutcomeOfNone
<1>3. \A k \in Keys : Outcome(k)' = IF k = req.key THEN NewBalance(req) ELSE Outcome(k)
  BY OutcomeOfExecute
<1>4. Recorded[req.key] = None /\ Recorded' = [Recorded EXCEPT ![req.key] = NewBalance(req)]
  BY <1>2, <1>3 DEF Recorded
<1>5. Tellings' \in {Tellings, Tellings \union {<<req.key, NewBalance(req)>>}}
  BY DEF Tellings
<1> QED
  BY <1>1, <1>4, <1>5, Mapping DEF Registry!Next

\* A call without a key leaves the outcome of every key alone.
LEMMA ExecuteWithoutKey ==
    ASSUME Inv, NEW req, Creatable(req), Execute(req), req.key \notin Keys, UNCHANGED told
    PROVE  UNCHANGED Registry!vars
<1>1. \A k \in Keys : Outcome(k)' = Outcome(k)
  BY OutcomeOfExecute
<1>2. UNCHANGED <<Recorded, Tellings>>
  BY <1>1 DEF Recorded, Tellings
<1> QED
  BY <1>2, Mapping

\* An answer that repeats the marker of an account is a replay.
LEMMA AnswerReplays ==
    ASSUME Inv, UNCHANGED account, NEW req, req.key \in Keys, NEW a \in Accounts,
           account[a].marker[req.key] # None,
           told' = told \union {<<req, account[a].marker[req.key]>>}
    PROVE  Registry!Next
<1>1. Recorded[req.key] = account[a].marker[req.key]
  BY OutcomeOfMarker DEF Recorded
<1>2. UNCHANGED Recorded
  BY DEF Recorded, Outcome, Left
<1>3. Tellings' = Tellings \union {<<req.key, account[a].marker[req.key]>>}
  BY TellingMore
<1> QED
  BY <1>1, <1>2, <1>3, Mapping DEF Registry!Next

\* What leaves the accounts and the answers alone is a stutter.
LEMMA QuietStutters ==
    ASSUME UNCHANGED <<account, told>>
    PROVE  UNCHANGED Registry!vars
<1>1. UNCHANGED <<Recorded, Tellings>>
  BY DEF Recorded, Outcome, Left, Tellings
<1> QED
  BY <1>1, Mapping

\* Every success told under a key is the one response recorded for it, and a
\* response once recorded stays: the creation of balances is an idempotent one.
THEOREM BalancesImplementIdempotentCreate == Spec => ImplementsIdempotentCreate
<1>1. Init => Registry!Init
  <2> SUFFICES ASSUME Init PROVE Registry!Init
    OBVIOUS
  <2>1. \A a \in Accounts, k \in Keys : account[a].marker[k] = None
    BY DEF Init, NoMetadata
  <2>2. \A k \in Keys : Left(k) = {}
    BY <2>1 DEF Left
  <2> QED
    BY <2>2 DEF Init, Registry!Init
<1>2. Inv /\ [Next]_vars => [Registry!Next]_(Registry!vars)
  <2> SUFFICES ASSUME Inv, [Next]_vars PROVE Registry!Next \/ UNCHANGED Registry!vars
    OBVIOUS
  <2>1. \A h \in Handlers : task[h].pc \in {"look", "write"} =>
           /\ Creatable(task[h].req)
           /\ task[h].req.key \in Keys \union {NoKey}
           /\ AccountOf[task[h].req.name] \in Accounts
    BY BodyType DEF Inv, StateOK
  <2>2. ASSUME NEW h \in Handlers, NEW req \in Requests, Receive(h, req)
        PROVE  UNCHANGED Registry!vars
    <3>1. UNCHANGED <<account, told>>
      BY <2>2 DEF Receive, Answer, Refusal
    <3> QED
      BY <3>1, QuietStutters
  <2>3. ASSUME NEW h \in Handlers, Look(h) PROVE Registry!Next \/ UNCHANGED Registry!vars
    <3> DEFINE req == task[h].req
               a == AccountOf[req.name]
    <3>1. /\ UNCHANGED account
          /\ \/ UNCHANGED told
             \/ Answer(h, req, Existing(account[a], req))
             \/ Answer(h, req, Refusal("Internal"))
          /\ a \in Accounts
      BY <2>1, <2>3 DEF Look
    <3>2. \/ UNCHANGED told
          \/ /\ req.key \in Keys /\ account[a].marker[req.key] # None
             /\ told' = told \union {<<req, account[a].marker[req.key]>>}
      BY <3>1 DEF Answer, Existing, Ok, Refusal
    <3> QED
      BY <3>1, <3>2, QuietStutters, AnswerReplays
  <2>4. ASSUME NEW h \in Handlers, WriteSucceeds(h) PROVE Registry!Next \/ UNCHANGED Registry!vars
    <3> DEFINE req == task[h].req
               a == AccountOf[req.name]
    <3>1. /\ Creatable(req) /\ req.key \in Keys \union {NoKey} /\ a \in Accounts
          /\ Execute(req) \/ Repeated(req)
          /\ Answer(h, req, Ok(NewBalance(req)))
      BY <2>1, <2>4 DEF WriteSucceeds
    <3>2. told' = IF req.key # NoKey THEN told \union {<<req, NewBalance(req)>>} ELSE told
      BY <3>1 DEF Answer, Ok
    <3>3. CASE Execute(req)
      <4>1. CASE req.key \in Keys
        BY <3>1, <3>2, <3>3, <4>1, DataAssumption, ExecuteCreates
      <4>2. CASE req.key \notin Keys
        BY <3>1, <3>2, <3>3, <4>2, ExecuteWithoutKey
      <4> QED
        BY <4>1, <4>2
    <3>4. CASE Repeated(req)
      <4>1. UNCHANGED account /\ req.key \in Keys /\ req.key # NoKey
        BY <3>4, DataAssumption DEF Repeated, Fresh, LedgerKey
      <4>2. account[a].marker[req.key] = NewBalance(req) /\ NewBalance(req) # None
        BY <2>1, <3>1, <3>4, RepeatedMarker, BodyType
      <4> QED
        BY <3>1, <3>2, <4>1, <4>2, AnswerReplays
    <3> QED
      BY <3>1, <3>3, <3>4
  <2>5. ASSUME NEW h \in Handlers, WriteFails(h) PROVE Registry!Next \/ UNCHANGED Registry!vars
    <3> DEFINE req == task[h].req
    <3>1. /\ Creatable(req)
          /\ Execute(req) \/ UNCHANGED account
          /\ UNCHANGED told
      BY <2>1, <2>5 DEF WriteFails, Answer, Refusal
    <3> QED
      BY <3>1, ExecuteCreates, ExecuteWithoutKey, QuietStutters
  <2>6. ASSUME NEW h \in Handlers, Abandon(h) PROVE UNCHANGED Registry!vars
    BY <2>6, QuietStutters DEF Abandon
  <2>7. CASE UNCHANGED vars
    BY <2>7, QuietStutters DEF vars
  <2> QED
    BY <2>2, <2>3, <2>4, <2>5, <2>6, <2>7 DEF Next
<1> QED
  BY <1>1, <1>2, Creating, PTL DEF Spec, ImplementsIdempotentCreate, Registry!Spec
=============================================================================
