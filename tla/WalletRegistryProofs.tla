------------------------ MODULE WalletRegistryProofs ------------------------
(***************************************************************************)
(* Proofs about the creation and the update of wallets, for any number of  *)
(* handlers, ids, keys and attributes.  The invariant says what each write *)
(* in flight is about to store, whose call the ledger knows under a key,   *)
(* and which response a client may have been told.                         *)
(***************************************************************************)
EXTENDS WalletRegistry, TLAPS

Metadata == {m \in [Attributes -> Data] : MetadataOK(m)}

Tasks ==
    [pc : {"idle", "look", "write", "recheck"}, req : Requests \union {None},
     id : Ids \union {None}, body : Metadata]

\* What a create is about to store: the response it answers with, and the
\* fingerprint of its request, if it has a key.
CreateBody(req, id, b) ==
    /\ b["type"] = "primary"
    /\ b["name"] = req.name
    /\ b["createdAt"] \in 0 .. MaxTime
    /\ req.key = NoKey => b["hash"] = None /\ b["response"] = None
    /\ req.key # NoKey =>
         /\ b["hash"] = Fingerprint(req)
         /\ b["response"] = [id |-> id, name |-> req.name, metadata |-> Normal(req.metadata),
                             createdAt |-> b["createdAt"]]

\* A create with a key is at the id of its key; the id of one without a key is
\* its own, and no wallet is there before its write.
CreateTask(t, m) ==
    /\ t.req \in Requests
    /\ t.req.op = "create"
    /\ t.id \in Ids
    /\ CreateBody(t.req, t.id, t.body)
    /\ \/ /\ t.req.key = NoKey
          /\ t.pc = "write"
          /\ t.id \in RandomIds
          /\ m[t.id]["type"] # "primary"
       \/ /\ t.req.key \in Keys
          /\ t.pc \in {"look", "write", "recheck"}
          /\ t.id = IdOf[t.req.key]

\* An update that writes writes back the identity of the wallet that is there.
UpdateTask(t, m) ==
    /\ t.req \in Requests
    /\ t.req.op = "update"
    /\ t.id \in Ids
    /\ t.id = t.req.id
    /\ \/ t.pc = "look"
       \/ /\ t.pc = "write"
          /\ m[t.id]["type"] = "primary"
          /\ \A a \in Identity : t.body[a] = m[t.id][a]
          /\ \A f \in Fields : Normal(t.req.metadata)[f] \in {None, t.body[f]}

TaskInv(t, m) == t = Idle \/ CreateTask(t, m) \/ UpdateTask(t, m)

\* A create of a new wallet that is about to write.
Unkeyed(t) == t.pc = "write" /\ t.req.op = "create" /\ t.req.key = NoKey

\* Two such creates have different ids.
UniqueIds ==
    \A g, h \in Handlers :
        g # h /\ Unkeyed(task[g]) /\ Unkeyed(task[h]) => task[g].id # task[h].id

\* A wallet under a key was created by the call the ledger knows under that
\* key; whatever call it knows under a key has left its identity attributes.
LedgerInv ==
    /\ exists \subseteq Ids
    /\ meta \in [Ids -> Metadata]
    /\ journal \in [Keys -> (Ids \X Metadata) \union {None}]
    /\ executed \in [Keys -> 0 .. 1]
    /\ \A k \in Keys : journal[k] = None => executed[k] = 0
    /\ \A id \in Ids : ~IsPrimary(id) => meta[id] = NoMetadata
    /\ \A id \in Ids : IsPrimary(id) => id \in exists
    /\ \A k \in Keys : IsPrimary(IdOf[k]) =>
         LET w == meta[IdOf[k]]["response"]
         IN /\ journal[k] # None
            /\ w \in Wallets
            /\ meta[IdOf[k]]["hash"] = <<w.name, w.metadata>>
    /\ \A k \in Keys : journal[k] # None =>
         /\ IsPrimary(journal[k][1])
         /\ \A a \in Identity : journal[k][2][a] = meta[journal[k][1]][a]

\* What was told under a key is the response in the account, or a conflict
\* with it.
Told(t, w) ==
    \/ t[2] = Ok(w) /\ Fingerprint(t[1]) = <<w.name, w.metadata>>
    \/ t[2] = Refusal("IdempotencyConflict") /\ Fingerprint(t[1]) # <<w.name, w.metadata>>

ToldInv ==
    \A t \in told :
        /\ t[1] \in CreateRequests
        /\ t[1].key \in Keys
        /\ IsPrimary(IdOf[t[1].key])
        /\ Told(t, meta[IdOf[t[1].key]]["response"])

CountersInv ==
    /\ now \in 0 .. MaxTime
    /\ received \in 0 .. MaxReceived
    /\ \A h \in Handlers : task[h] # Idle => received > 0
    /\ \A k \in Keys : journal[k] # None => received > 0

TasksInv ==
    /\ task \in [Handlers -> Tasks]
    /\ \A h \in Handlers : TaskInv(task[h], meta)
    /\ UniqueIds

\* The inductive invariant.
Inv == LedgerInv /\ TasksInv /\ ToldInv /\ CountersInv
-----------------------------------------------------------------------------
(* Metadata.                                                                *)

LEMMA NoMetadataType == NoMetadata \in Metadata
BY DEF NoMetadata, Metadata, MetadataOK, Attributes, Identity, Data

\* What the ledger makes of two metadata is metadata; an attribute of the
\* later one wins unless it has none.
LEMMA MergeType ==
    ASSUME NEW m \in Metadata, NEW n \in Metadata
    PROVE  /\ Merge(m, n) \in Metadata
           /\ \A a \in Attributes : Merge(m, n)[a] = IF n[a] # None THEN n[a] ELSE m[a]
<1>1. \A a \in Attributes : /\ Merge(m, n)[a] = IF n[a] # None THEN n[a] ELSE m[a]
                            /\ Merge(m, n)[a] \in Data
  BY DEF Merge, Metadata
<1>2. Merge(m, n) \in [Attributes -> Data]
  BY <1>1 DEF Merge
<1>3. MetadataOK(Merge(m, n))
  BY <1>1, <1>2 DEF Metadata, MetadataOK, Attributes, Identity
<1> QED
  BY <1>1, <1>2, <1>3 DEF Metadata

\* Omitted custom metadata is none at all.
LEMMA NormalType ==
    ASSUME NEW c \in Custom \union {Nil}
    PROVE  Normal(c) \in Custom
BY DEF Normal, Custom

\* What a request sends of its custom metadata has no other attribute.
LEMMA EncodeType ==
    ASSUME NEW c \in Custom \union {Nil}
    PROVE  /\ Encode(c) \in Metadata
           /\ \A a \in Identity : Encode(c)[a] = None
           /\ \A f \in Fields : Encode(c)[f] = Normal(c)[f]
<1>1. Normal(c) \in Custom
  BY NormalType
<1>2. \A f \in Fields : Encode(c)[f] = Normal(c)[f] /\ Encode(c)[f] \in Values \union {None}
  BY <1>1 DEF Encode, Attributes, Custom
<1>3. \A a \in Identity : Encode(c)[a] = None
  BY DataAssumption DEF Encode, Attributes
<1>4. Encode(c) \in [Attributes -> Data]
  BY <1>2, <1>3 DEF Encode, Attributes, Data
<1>5. MetadataOK(Encode(c))
  BY <1>2, <1>3, <1>4 DEF MetadataOK, Identity
<1> QED
  BY <1>2, <1>3, <1>4, <1>5 DEF Metadata

\* A create stores the response that it answers with.
LEMMA BodyType ==
    ASSUME NEW req \in CreateRequests, NEW id \in Ids, now \in 0 .. MaxTime
    PROVE  /\ LedgerMetadata(req, NewWallet(req, id)) \in Metadata
           /\ CreateBody(req, id, LedgerMetadata(req, NewWallet(req, id)))
<1> DEFINE w == NewWallet(req, id)
           b == LedgerMetadata(req, w)
<1>1. /\ req.metadata \in Custom \union {Nil} /\ req.name \in Names
      /\ req.key \in Keys \union {NoKey}
  BY DEF CreateRequests
<1>2. Normal(req.metadata) \in Custom /\ Encode(req.metadata) \in Metadata
  BY <1>1, NormalType, EncodeType
<1>3. /\ w = [id |-> id, name |-> req.name, metadata |-> Normal(req.metadata), createdAt |-> now]
      /\ w \in Wallets
      /\ Fingerprint(req) \in Names \X Custom
  BY <1>1, <1>2 DEF NewWallet, Wallets, Fingerprint
<1>4. Identity \subseteq Attributes /\ Fields \subseteq Attributes
  BY DEF Attributes
<1>5. /\ b["type"] = "primary" /\ b["name"] = req.name /\ b["createdAt"] = now
      /\ b["hash"] = IF req.key = NoKey THEN None ELSE Fingerprint(req)
      /\ b["response"] = IF req.key = NoKey THEN None ELSE w
  BY <1>2, <1>3, <1>4 DEF LedgerMetadata, Metadata, Identity
<1>6. \A f \in Fields : b[f] = Encode(req.metadata)[f]
  BY <1>2, <1>4, DataAssumption DEF LedgerMetadata, Metadata, Identity
<1>7. DOMAIN b = Attributes
  BY <1>2 DEF LedgerMetadata, Metadata
<1>8. MetadataOK(b)
  BY <1>1, <1>2, <1>3, <1>5, <1>6, <1>7 DEF MetadataOK, Metadata
<1>9. b \in [Attributes -> Data]
  <2>1. b = [a \in Attributes |-> b[a]]
    BY <1>2 DEF LedgerMetadata, Metadata
  <2>2. \A a \in Identity : b[a] \in Data
    BY <1>1, <1>3, <1>5 DEF Identity, Data
  <2>3. \A f \in Fields : b[f] \in Data
    BY <1>2, <1>4, <1>6 DEF Metadata
  <2> QED
    BY <2>1, <2>2, <2>3 DEF Attributes
<1> QED
  BY <1>3, <1>5, <1>8, <1>9 DEF Metadata, CreateBody

-----------------------------------------------------------------------------
(* The ledger.                                                              *)

LEMMA SameLedger == ASSUME LedgerInv, UNCHANGED ledger PROVE LedgerInv'
BY DEF LedgerInv, ledger, IsPrimary

\* An account that is not the main account of a wallet has no metadata.
LEMMA OtherAccount ==
    ASSUME LedgerInv, NEW id \in Ids, meta[id]["type"] # "primary"
    PROVE  \A a \in Attributes : meta[id][a] = None
BY DEF LedgerInv, IsPrimary, NoMetadata

\* Every write leaves a wallet whose identity is in the body that it wrote,
\* and which is the identity of the wallet that was there, if one was.
LEMMA Written ==
    ASSUME LedgerInv, NEW t, CreateTask(t, meta) \/ UpdateTask(t, meta), t.pc = "write",
           t.body \in Metadata, Execute(t)
    PROVE  /\ meta' \in [Ids -> Metadata]
           /\ \A id \in Ids \ {t.id} : meta'[id] = meta[id]
           /\ \A a \in Identity : meta'[t.id][a] = t.body[a]
           /\ t.body["type"] = "primary"
           /\ IsPrimary(t.id) => \A a \in Identity : t.body[a] = meta[t.id][a]
           /\ t.req.op = "create" => ~IsPrimary(t.id)
           /\ \A f \in Fields : t.body[f] # None => meta'[t.id][f] = t.body[f]
<1> DEFINE m == Merge(meta[t.id], t.body)
<1>1. t.id \in Ids /\ meta \in [Ids -> Metadata] /\ t.req \in Requests
  BY DEF CreateTask, UpdateTask, LedgerInv
<1>2. /\ m \in Metadata
      /\ \A a \in Attributes : m[a] = IF t.body[a] # None THEN t.body[a] ELSE meta[t.id][a]
  BY <1>1, MergeType
<1>3. meta' = [meta EXCEPT ![t.id] = m]
  BY DEF Execute
<1>4. Identity \subseteq Attributes /\ Fields \subseteq Attributes /\ "type" \in Identity
  BY DEF Attributes, Identity
<1>5. ASSUME CreateTask(t, meta) PROVE ~IsPrimary(t.id) /\ t.body["type"] = "primary"
  <2>1. CASE t.req.key = NoKey
    BY <1>5, <2>1, KeysAssumption DEF CreateTask, CreateBody, IsPrimary
  <2>2. CASE t.req.key # NoKey
    <3>1. t.req.key \in Keys /\ t.id = IdOf[t.req.key] /\ t.body["type"] = "primary"
      BY <1>5, <2>2 DEF CreateTask, CreateBody
    <3>2. journal[t.req.key] = None
      BY <3>1 DEF Execute, Fresh, LedgerKey
    <3> QED
      BY <3>1, <3>2 DEF LedgerInv
  <2> QED
    BY <2>1, <2>2
<1>6. ASSUME UpdateTask(t, meta)
      PROVE  /\ IsPrimary(t.id) /\ \A a \in Identity : t.body[a] = meta[t.id][a]
             /\ t.req.op = "update"
  BY <1>6 DEF UpdateTask, IsPrimary
<1>7. ~IsPrimary(t.id) => \A a \in Attributes : meta[t.id][a] = None
  BY <1>1, OtherAccount DEF IsPrimary
<1>8. t.body["type"] = "primary"
  BY <1>4, <1>5, <1>6 DEF IsPrimary
<1>9. t.req.op = "create" => ~IsPrimary(t.id)
  BY <1>5, <1>6
<1>10. \A a \in Identity : m[a] = t.body[a]
  <2>1. CASE CreateTask(t, meta)
    BY <1>2, <1>4, <1>5, <1>7, <2>1
  <2>2. CASE UpdateTask(t, meta)
    BY <1>2, <1>4, <1>6, <2>2
  <2> QED
    BY <2>1, <2>2
<1>11. IsPrimary(t.id) => \A a \in Identity : t.body[a] = meta[t.id][a]
  BY <1>5, <1>6
<1> QED
  BY <1>1, <1>2, <1>3, <1>4, <1>8, <1>9, <1>10, <1>11

\* What a write does to the wallet of a key.
LEMMA WrittenUnderKey ==
    ASSUME LedgerInv, NEW t, CreateTask(t, meta) \/ UpdateTask(t, meta), t.pc = "write",
           t.body \in Metadata, Execute(t), NEW k \in Keys, IdOf[k] = t.id, ~IsPrimary(t.id)
    PROVE  /\ t.req.op = "create"
           /\ t.req.key = k
           /\ CreateBody(t.req, t.id, t.body)
<1>1. CreateTask(t, meta)
  BY DEF UpdateTask, IsPrimary
<1>2. t.id \notin RandomIds
  BY DEF RandomIds
<1> QED
  BY <1>1, <1>2, KeysAssumption DEF CreateTask

\* A write that the ledger executes keeps the invariant of the ledger.
LEMMA ExecuteInv ==
    ASSUME LedgerInv, NEW t, CreateTask(t, meta) \/ UpdateTask(t, meta), t.pc = "write",
           t.body \in Metadata, now \in 0 .. MaxTime, Execute(t)
    PROVE  LedgerInv'
<1>1. /\ meta' \in [Ids -> Metadata]
      /\ \A id \in Ids \ {t.id} : meta'[id] = meta[id]
      /\ \A a \in Identity : meta'[t.id][a] = t.body[a]
      /\ t.body["type"] = "primary"
      /\ IsPrimary(t.id) => \A a \in Identity : t.body[a] = meta[t.id][a]
  BY Written
<1>2. t.id \in Ids /\ t.req \in Requests
  BY DEF CreateTask, UpdateTask
<1>3. "type" \in Identity /\ "response" \in Identity /\ "hash" \in Identity
  BY DEF Identity
<1>4. IsPrimary(t.id)'
  BY <1>1, <1>3 DEF IsPrimary
<1>5. \A id \in Ids : IsPrimary(id) => /\ IsPrimary(id)'
                                       /\ \A a \in Identity : meta'[id][a] = meta[id][a]
  BY <1>1, <1>4 DEF IsPrimary
<1>6. t.req.key \in Keys \union {NoKey}
  BY <1>2, RequestsAssumption DEF CreateRequests, UpdateRequests
<1>7. \A k \in Keys : journal'[k] = IF k = t.req.key THEN <<t.id, t.body>> ELSE journal[k]
  BY <1>6, KeysAssumption DEF Execute, LedgerKey, LedgerInv
<1>8. <<t.id, t.body>> \in Ids \X Metadata /\ <<t.id, t.body>> # None
  BY <1>2, CallsAssumption DEF Metadata
<1>9. exists' \subseteq Ids /\ \A id \in Ids : IsPrimary(id)' => id \in exists'
  BY <1>1, <1>2 DEF Execute, LedgerInv, IsPrimary
<1>10. journal' \in [Keys -> (Ids \X Metadata) \union {None}]
  BY <1>6, <1>7, <1>8 DEF Execute, LedgerKey, LedgerInv
<1>11. t.req.key \in Keys => executed[t.req.key] = 0
  BY DEF Execute, Fresh, LedgerKey, LedgerInv
<1>12. executed' \in [Keys -> 0 .. 1]
  BY <1>6, <1>11, KeysAssumption DEF Execute, LedgerInv
<1>13. \A k \in Keys : journal'[k] = None => executed'[k] = 0
  BY <1>6, <1>7, <1>8, KeysAssumption DEF Execute, LedgerInv
<1>14. \A id \in Ids : ~IsPrimary(id)' => meta'[id] = NoMetadata'
  BY <1>1, <1>4 DEF LedgerInv, IsPrimary, NoMetadata
<1>15. ASSUME NEW k \in Keys, IsPrimary(IdOf[k])'
       PROVE  /\ journal'[k] # None
              /\ meta'[IdOf[k]]["response"] \in Wallets
              /\ meta'[IdOf[k]]["hash"] = <<meta'[IdOf[k]]["response"].name,
                                            meta'[IdOf[k]]["response"].metadata>>
  <2>1. IdOf[k] \in Ids
    BY KeysAssumption
  <2>2. CASE IsPrimary(IdOf[k])
    BY <1>3, <1>5, <1>7, <1>8, <2>1, <2>2 DEF LedgerInv
  <2>3. CASE ~IsPrimary(IdOf[k])
    <3>1. IdOf[k] = t.id
      BY <1>1, <1>15, <2>1, <2>3 DEF IsPrimary
    <3>2. t.req.op = "create" /\ t.req.key = k /\ CreateBody(t.req, t.id, t.body)
      BY <2>3, <3>1, WrittenUnderKey
    <3>3. /\ t.body["response"] = [id |-> t.id, name |-> t.req.name,
                                   metadata |-> Normal(t.req.metadata),
                                   createdAt |-> t.body["createdAt"]]
          /\ t.body["hash"] = Fingerprint(t.req)
          /\ t.body["createdAt"] \in 0 .. MaxTime
      BY <3>2, KeysAssumption DEF CreateBody
    <3>4. t.req.name \in Names /\ Normal(t.req.metadata) \in Custom
      BY <1>2, <3>2, RequestsAssumption, NormalType DEF CreateRequests, UpdateRequests
    <3>5. t.body["response"] \in Wallets
      BY <1>2, <3>3, <3>4 DEF Wallets
    <3>6. t.body["hash"] = <<t.body["response"].name, t.body["response"].metadata>>
      BY <3>3 DEF Fingerprint
    <3> QED
      BY <1>1, <1>3, <1>7, <1>8, <3>1, <3>2, <3>5, <3>6
  <2> QED
    BY <2>2, <2>3
<1>16. ASSUME NEW k \in Keys, journal'[k] # None
       PROVE  /\ meta'[journal'[k][1]]["type"] = "primary"
              /\ \A a \in Identity : journal'[k][2][a] = meta'[journal'[k][1]][a]
  <2>1. CASE k = t.req.key
    BY <1>1, <1>4, <1>7, <2>1 DEF IsPrimary
  <2>2. CASE k # t.req.key
    <3>1. /\ journal[k] # None /\ journal[k] = journal'[k] /\ journal[k] \in Ids \X Metadata
          /\ IsPrimary(journal[k][1])
          /\ \A a \in Identity : journal[k][2][a] = meta[journal[k][1]][a]
      BY <1>7, <1>16, <2>2 DEF LedgerInv
    <3>2. journal[k][1] \in Ids
      BY <3>1
    <3> QED
      BY <1>5, <3>1, <3>2 DEF IsPrimary
  <2> QED
    BY <2>1, <2>2
<1> QED
  BY <1>1, <1>9, <1>10, <1>12, <1>13, <1>14, <1>15, <1>16 DEF LedgerInv, IsPrimary

-----------------------------------------------------------------------------
(* The handlers.                                                            *)

\* What no step changes of a wallet that is there.
IdentityKept ==
    \A id \in Ids : IsPrimary(id) => \A a \in Identity : meta'[id][a] = meta[id][a]

\* The creates of new wallets that handlers other than h are about to write
\* have their ids to themselves.
OthersNew(h) ==
    \A g \in Handlers \ {h} : Unkeyed(task[g]) => meta'[task[g].id]["type"] # "primary"

LEMMA IdleType == Idle \in Tasks /\ Idle.pc = "idle"
BY NoMetadataType DEF Idle, Tasks

\* A handler that is not idle is at a request that clients send.
LEMMA BusyTask ==
    ASSUME TasksInv, NEW h \in Handlers, task[h].pc # "idle"
    PROVE  /\ CreateTask(task[h], meta) \/ UpdateTask(task[h], meta)
           /\ task[h] \in Tasks
           /\ task[h].body \in Metadata
           /\ task[h].req \in Requests
           /\ task[h].req.op \in {"create", "update"}
           /\ task[h].req.op = "create" => CreateTask(task[h], meta)
           /\ task[h].req.op = "update" => UpdateTask(task[h], meta)
           /\ task[h].req.key \in Keys \union {NoKey}
           /\ task[h] # Idle
<1>1. CreateTask(task[h], meta) \/ UpdateTask(task[h], meta)
  BY IdleType DEF TasksInv, TaskInv
<1>2. task[h] \in Tasks /\ task[h].body \in Metadata
  BY DEF TasksInv, Tasks
<1>3. task[h].req \in Requests /\ task[h].req.op \in {"create", "update"}
  BY <1>1 DEF CreateTask, UpdateTask
<1>4. task[h].req.key \in Keys \union {NoKey}
  BY <1>3, RequestsAssumption DEF CreateRequests, UpdateRequests
<1> QED
  BY <1>1, <1>2, <1>3, <1>4, IdleType DEF CreateTask, UpdateTask

LEMMA KeyedTask ==
    ASSUME NEW t, CreateTask(t, meta), t.req.key # NoKey
    PROVE  /\ t.req \in CreateRequests
           /\ t.req.key \in Keys
           /\ t.id = IdOf[t.req.key]
           /\ t.id \in Ids
           /\ CreateBody(t.req, t.id, t.body)
           /\ Created(t) = t.body["response"]
           /\ Created(t) \in Wallets
           /\ Fingerprint(t.req) = <<Created(t).name, Created(t).metadata>>
<1>1. t.req \in CreateRequests /\ t.req.key \in Keys /\ t.id = IdOf[t.req.key] /\ t.id \in Ids
  BY RequestsAssumption DEF CreateTask, UpdateRequests
<1>2. CreateBody(t.req, t.id, t.body)
  BY DEF CreateTask
<1>3. Created(t) = t.body["response"] /\ t.body["createdAt"] \in 0 .. MaxTime
  BY <1>2 DEF CreateBody, Created
<1>4. Normal(t.req.metadata) \in Custom /\ t.req.name \in Names
  BY <1>1, NormalType DEF CreateRequests
<1>5. Created(t) \in Wallets
  BY <1>1, <1>3, <1>4 DEF Wallets, Created
<1>6. Fingerprint(t.req) = <<Created(t).name, Created(t).metadata>>
  BY DEF Fingerprint, Created
<1> QED
  BY <1>1, <1>2, <1>3, <1>5, <1>6

\* What a handler is doing stays so while the wallets it relies on do.
LEMMA TaskKept ==
    ASSUME IdentityKept, NEW t, TaskInv(t, meta),
           Unkeyed(t) => meta'[t.id]["type"] # "primary"
    PROVE  TaskInv(t, meta')
<1>1. "type" \in Identity
  BY DEF Identity
<1>2. CASE CreateTask(t, meta)
  BY <1>2 DEF TaskInv, CreateTask, Unkeyed
<1>3. CASE UpdateTask(t, meta)
  BY <1>1, <1>3 DEF TaskInv, UpdateTask, IdentityKept, IsPrimary
<1> QED
  BY <1>2, <1>3 DEF TaskInv

\* One handler moves.
LEMMA OneTask ==
    ASSUME TasksInv, IdentityKept, NEW h \in Handlers, OthersNew(h),
           task' \in [Handlers -> Tasks],
           \A g \in Handlers \ {h} : task'[g] = task[g],
           TaskInv(task'[h], meta'),
           Unkeyed(task'[h]) =>
               \A g \in Handlers \ {h} : Unkeyed(task[g]) => task[g].id # task'[h].id
    PROVE  TasksInv'
<1>1. ASSUME NEW g \in Handlers PROVE TaskInv(task'[g], meta')
  <2>1. CASE g = h
    BY <2>1
  <2>2. CASE g # h
    <3>1. TaskInv(task[g], meta) /\ task'[g] = task[g]
      BY <2>2 DEF TasksInv
    <3>2. Unkeyed(task[g]) => meta'[task[g].id]["type"] # "primary"
      BY <2>2 DEF OthersNew
    <3>3. TaskInv(task[g], meta')
      BY <3>1, <3>2, TaskKept
    <3> QED
      BY <3>1, <3>3
  <2> QED
    BY <2>1, <2>2
<1>2. ASSUME NEW f \in Handlers, NEW g \in Handlers, f # g, Unkeyed(task'[f]), Unkeyed(task'[g])
      PROVE  task'[f].id # task'[g].id
  <2>1. CASE f # h /\ g # h
    BY <1>2, <2>1 DEF TasksInv, UniqueIds
  <2>2. CASE f = h
    BY <1>2, <2>2
  <2>3. CASE g = h
    BY <1>2, <2>3
  <2> QED
    BY <2>1, <2>2, <2>3
<1> QED
  BY <1>1, <1>2 DEF TasksInv, UniqueIds, Unkeyed

\* While the ledger does not change, every wallet is as it was.
LEMMA SameWallets ==
    ASSUME TasksInv, UNCHANGED ledger, NEW h \in Handlers
    PROVE  IdentityKept /\ OthersNew(h)
<1>1. meta' = meta
  BY DEF ledger
<1>2. ASSUME NEW g \in Handlers, Unkeyed(task[g]) PROVE meta[task[g].id]["type"] # "primary"
  <2>1. task[g].pc # "idle" /\ task[g].req.op = "create" /\ task[g].req.key = NoKey
    BY <1>2 DEF Unkeyed
  <2>2. CreateTask(task[g], meta)
    BY <2>1, BusyTask
  <2> QED
    BY <2>1, <2>2, KeysAssumption DEF CreateTask
<1> QED
  BY <1>1, <1>2 DEF IdentityKept, OthersNew

\* The write of a handler keeps the wallets that are there, and is never at
\* the id of a new wallet of another handler.
LEMMA ExecuteKeeps ==
    ASSUME Inv, NEW h \in Handlers, task[h].pc = "write", Execute(task[h])
    PROVE  IdentityKept /\ OthersNew(h) /\ LedgerInv'
<1> DEFINE t == task[h]
<1>1. /\ CreateTask(t, meta) \/ UpdateTask(t, meta)
      /\ t.body \in Metadata
      /\ LedgerInv /\ TasksInv /\ now \in 0 .. MaxTime
  BY BusyTask DEF Inv, CountersInv
<1>2. /\ \A id \in Ids \ {t.id} : meta'[id] = meta[id]
      /\ \A a \in Identity : meta'[t.id][a] = t.body[a]
      /\ IsPrimary(t.id) => \A a \in Identity : t.body[a] = meta[t.id][a]
  BY <1>1, Written
<1>3. IdentityKept
  BY <1>2 DEF IdentityKept
<1>4. ASSUME NEW g \in Handlers, g # h, Unkeyed(task[g])
      PROVE  meta'[task[g].id]["type"] # "primary"
  <2>1. task[g].pc # "idle" /\ task[g].req.op = "create" /\ task[g].req.key = NoKey
    BY <1>4 DEF Unkeyed
  <2>2. CreateTask(task[g], meta)
    BY <1>1, <2>1, BusyTask
  <2>3. task[g].id \in RandomIds /\ task[g].id \in Ids /\ meta[task[g].id]["type"] # "primary"
    BY <2>1, <2>2, KeysAssumption DEF CreateTask
  <2>4. task[g].id # t.id
    <3>1. CASE CreateTask(t, meta) /\ t.req.key = NoKey
      BY <1>1, <1>4, <3>1 DEF TasksInv, UniqueIds, Unkeyed, CreateTask
    <3>2. CASE CreateTask(t, meta) /\ t.req.key # NoKey
      BY <2>3, <3>2 DEF CreateTask, RandomIds
    <3>3. CASE UpdateTask(t, meta)
      BY <2>3, <3>3 DEF UpdateTask
    <3> QED
      BY <1>1, <3>1, <3>2, <3>3
  <2> QED
    BY <1>2, <2>3, <2>4
<1>5. LedgerInv'
  BY <1>1, ExecuteInv
<1> QED
  BY <1>3, <1>4, <1>5 DEF OthersNew

-----------------------------------------------------------------------------
(* The steps.                                                               *)

LEMMA InitInv == Init => Inv
<1> SUFFICES ASSUME Init PROVE Inv
  OBVIOUS
<1>1. \A id \in Ids : meta[id] = NoMetadata /\ ~IsPrimary(id)
  BY DataAssumption DEF Init, IsPrimary, NoMetadata, Attributes, Identity
<1>2. LedgerInv
  BY <1>1, NoMetadataType, KeysAssumption DEF Init, LedgerInv
<1>3. TasksInv
  BY IdleType DEF Init, TasksInv, TaskInv, UniqueIds, Unkeyed
<1>4. ToldInv /\ CountersInv
  BY DataAssumption DEF Init, ToldInv, CountersInv
<1> QED
  BY <1>2, <1>3, <1>4 DEF Inv

\* What was told stays true of the wallets, and so does what is told now.
LEMMA TellInv ==
    ASSUME ToldInv, IdentityKept,
           \/ UNCHANGED told
           \/ \E req \in CreateRequests : \E reply :
                /\ req.key \in Keys
                /\ told' = told \union {<<req, reply>>}
                /\ meta'[IdOf[req.key]]["type"] = "primary"
                /\ Told(<<req, reply>>, meta'[IdOf[req.key]]["response"])
    PROVE  ToldInv'
<1>1. "type" \in Identity /\ "response" \in Identity
  BY DEF Identity
<1>2. ASSUME NEW t \in told
      PROVE  /\ t[1] \in CreateRequests
             /\ t[1].key \in Keys
             /\ meta'[IdOf[t[1].key]]["type"] = "primary"
             /\ Told(t, meta'[IdOf[t[1].key]]["response"])
  <2>1. /\ t[1] \in CreateRequests /\ t[1].key \in Keys
        /\ IsPrimary(IdOf[t[1].key])
        /\ Told(t, meta[IdOf[t[1].key]]["response"])
    BY DEF ToldInv
  <2>2. IdOf[t[1].key] \in Ids
    BY <2>1, KeysAssumption
  <2> QED
    BY <1>1, <2>1, <2>2 DEF IdentityKept, IsPrimary
<1>3. CASE UNCHANGED told
  BY <1>2, <1>3 DEF ToldInv, IsPrimary, Told, Ok, Refusal, Fingerprint, Normal
<1>4. CASE ~UNCHANGED told
  <2>1. PICK req \in CreateRequests : \E reply :
            /\ req.key \in Keys
            /\ told' = told \union {<<req, reply>>}
            /\ meta'[IdOf[req.key]]["type"] = "primary"
            /\ Told(<<req, reply>>, meta'[IdOf[req.key]]["response"])
    BY <1>4
  <2>2. PICK reply :
            /\ req.key \in Keys
            /\ told' = told \union {<<req, reply>>}
            /\ meta'[IdOf[req.key]]["type"] = "primary"
            /\ Told(<<req, reply>>, meta'[IdOf[req.key]]["response"])
    BY <2>1
  <2>3. ASSUME NEW t \in told'
        PROVE  /\ t[1] \in CreateRequests
               /\ t[1].key \in Keys
               /\ meta'[IdOf[t[1].key]]["type"] = "primary"
               /\ Told(t, meta'[IdOf[t[1].key]]["response"])
    <3>1. CASE t \in told
      BY <1>2, <3>1
    <3>2. CASE t = <<req, reply>>
      BY <2>2, <3>2
    <3> QED
      BY <2>2, <3>1, <3>2
  <2> QED
    BY <2>3 DEF ToldInv, IsPrimary
<1> QED
  BY <1>3, <1>4

\* The conditions under which an answer may be remembered.
Truthful(req, reply) ==
    req.op = "create" /\ req.key # NoKey /\ reply.status \in {"ok", "IdempotencyConflict"} =>
        /\ meta'[IdOf[req.key]]["type"] = "primary"
        /\ Told(<<req, reply>>, meta'[IdOf[req.key]]["response"])

\* A handler that answers is idle, and the client was told the truth.
LEMMA AnswerInv ==
    ASSUME Inv, NEW h \in Handlers, task[h].pc # "idle", NEW reply, Answer(h, reply),
           LedgerInv', IdentityKept, OthersNew(h), Truthful(task[h].req, reply)
    PROVE  Inv'
<1>1. /\ task[h].req \in Requests
      /\ task[h].req.op = "create" /\ task[h].req.key # NoKey =>
           task[h].req \in CreateRequests /\ task[h].req.key \in Keys
      /\ task[h] # Idle
  BY BusyTask, RequestsAssumption DEF Inv, UpdateRequests
<1>2. ToldInv'
  BY <1>1, TellInv DEF Inv, Answer, Truthful
<1>3. /\ task' = [task EXCEPT ![h] = Idle]
      /\ task \in [Handlers -> Tasks]
  BY DEF Answer, Inv, TasksInv
<1>4. task' \in [Handlers -> Tasks] /\ task'[h] = Idle /\ \A g \in Handlers \ {h} : task'[g] = task[g]
  BY <1>3, IdleType
<1>5. TasksInv'
  BY <1>4, IdleType, OneTask DEF Inv, TaskInv, Unkeyed
<1>6. CountersInv'
  BY <1>1, <1>4 DEF Inv, CountersInv, Answer, Idle, NoMetadata
<1> QED
  BY <1>2, <1>5, <1>6 DEF Inv

\* A handler that goes on to its next call.
LEMMA ProceedInv ==
    ASSUME Inv, NEW h \in Handlers, task[h].pc # "idle",
           NEW pc \in {"write", "recheck"}, NEW body \in Metadata, Proceed(h, pc, body),
           LedgerInv', IdentityKept, OthersNew(h),
           TaskInv([task[h] EXCEPT !.pc = pc, !.body = body], meta'),
           task[h].req.op = "create" => task[h].req.key # NoKey
    PROVE  Inv'
<1> DEFINE u == [task[h] EXCEPT !.pc = pc, !.body = body]
<1>1. task[h] # Idle /\ task[h] \in Tasks
  BY BusyTask DEF Inv
<1>2. UNCHANGED told /\ task' = [task EXCEPT ![h] = u] /\ task \in [Handlers -> Tasks]
  BY DEF Proceed, Inv, TasksInv
<1>3. u \in Tasks /\ u.req = task[h].req
  BY <1>1 DEF Tasks
<1> HIDE DEF u
<1>4. task' \in [Handlers -> Tasks] /\ task'[h] = u /\ \A g \in Handlers \ {h} : task'[g] = task[g]
  BY <1>2, <1>3
<1>5. TasksInv'
  BY <1>3, <1>4, OneTask DEF Inv, Unkeyed, u
<1>6. ToldInv'
  BY <1>2, TellInv DEF Inv
<1>7. CountersInv'
  BY <1>1, <1>4 DEF Inv, CountersInv, Proceed, Idle, NoMetadata
<1> QED
  BY <1>5, <1>6, <1>7 DEF Inv

\* A request that arrives is at its first call, and a wallet that has no key
\* has an id of its own.
LEMMA ReceiveInv ==
    ASSUME Inv, NEW h \in Handlers, NEW req \in Requests, Receive(h, req)
    PROVE  Inv'
<1>1. /\ UNCHANGED ledger /\ IdentityKept /\ OthersNew(h) /\ LedgerInv'
      /\ UNCHANGED told
  BY SameWallets, SameLedger DEF Receive, Inv
<1>2. ToldInv'
  BY <1>1, TellInv DEF Inv
<1>3. now \in 0 .. MaxTime /\ task \in [Handlers -> Tasks] /\ LedgerInv
  BY DEF Inv, TasksInv, CountersInv
<1>4. ASSUME req.op = "create" PROVE TasksInv'
  <2>1. req \in CreateRequests
    BY <1>4, RequestsAssumption DEF UpdateRequests
  <2>2. CASE req.key = NoKey
    <3>1. PICK id \in RandomIds :
            /\ ~InUse(id)
            /\ task' = [task EXCEPT ![h] = [pc |-> "write", req |-> req, id |-> id,
                           body |-> LedgerMetadata(req, NewWallet(req, id))]]
      BY <1>4, <2>2 DEF Receive, ReceiveCreate
    <3> DEFINE b == LedgerMetadata(req, NewWallet(req, id))
               u == [pc |-> "write", req |-> req, id |-> id, body |-> b]
    <3>2. id \in Ids /\ id \notin exists /\ \A g \in Handlers : task[g].id # id
      BY <3>1 DEF RandomIds, InUse
    <3>3. b \in Metadata /\ CreateBody(req, id, b)
      BY <1>3, <2>1, <3>2, BodyType
    <3>4. meta'[id]["type"] # "primary"
      BY <1>1, <1>3, <3>2 DEF ledger, LedgerInv, IsPrimary
    <3> HIDE DEF b
    <3>5. u \in Tasks /\ CreateTask(u, meta')
      BY <1>4, <2>2, <3>2, <3>3, <3>4 DEF CreateTask, Tasks
    <3> HIDE DEF u
    <3>6. /\ task' \in [Handlers -> Tasks] /\ task'[h] = u
          /\ \A g \in Handlers \ {h} : task'[g] = task[g]
      BY <1>3, <3>1, <3>5 DEF u, b
    <3>7. u.id = id
      BY DEF u
    <3> QED
      BY <1>1, <3>2, <3>5, <3>6, <3>7, OneTask DEF Inv, TaskInv
  <2>3. CASE req.key # NoKey
    <3> DEFINE id == IdOf[req.key]
               b == LedgerMetadata(req, NewWallet(req, id))
               u == [pc |-> "look", req |-> req, id |-> id, body |-> b]
    <3>1. task' = [task EXCEPT ![h] = u]
      BY <1>4, <2>3 DEF Receive, ReceiveCreate
    <3>2. req.key \in Keys /\ id \in Ids
      BY <2>1, <2>3, KeysAssumption DEF CreateRequests
    <3>3. b \in Metadata /\ CreateBody(req, id, b)
      BY <1>3, <2>1, <3>2, BodyType
    <3> HIDE DEF b
    <3>4. u \in Tasks /\ CreateTask(u, meta') /\ ~Unkeyed(u)
      BY <1>4, <2>3, <3>2, <3>3 DEF CreateTask, Tasks, Unkeyed
    <3> HIDE DEF u
    <3>5. /\ task' \in [Handlers -> Tasks] /\ task'[h] = u
          /\ \A g \in Handlers \ {h} : task'[g] = task[g]
      BY <1>3, <3>1, <3>4
    <3> QED
      BY <1>1, <3>4, <3>5, OneTask DEF Inv, TaskInv
  <2> QED
    BY <2>2, <2>3
<1>5. ASSUME req.op = "update" PROVE TasksInv'
  <2> DEFINE u == [pc |-> "look", req |-> req, id |-> req.id, body |-> NoMetadata]
  <2>1. task' = [task EXCEPT ![h] = u]
    BY <1>5 DEF Receive, ReceiveUpdate
  <2>2. req.id \in Ids
    BY <1>5, RequestsAssumption DEF CreateRequests, UpdateRequests
  <2>3. u \in Tasks /\ UpdateTask(u, meta') /\ ~Unkeyed(u)
    BY <1>5, <2>2, NoMetadataType DEF UpdateTask, Tasks, Unkeyed
  <2> HIDE DEF u
  <2>4. /\ task' \in [Handlers -> Tasks] /\ task'[h] = u
        /\ \A g \in Handlers \ {h} : task'[g] = task[g]
    BY <1>3, <2>1, <2>3
  <2> QED
    BY <1>1, <2>3, <2>4, OneTask DEF Inv, TaskInv
<1>6. TasksInv'
  BY <1>4, <1>5 DEF Receive
<1>7. CountersInv'
  BY DataAssumption DEF Inv, CountersInv, Receive
<1> QED
  BY <1>1, <1>2, <1>6, <1>7 DEF Inv

\* A create that finds the wallet of its key answers the truth.
LEMMA ReplayTruthful ==
    ASSUME Inv, UNCHANGED ledger, NEW t, CreateTask(t, meta), t.req.key # NoKey, IsPrimary(t.id)
    PROVE  /\ Truthful(t.req, ReplayOrConflict(t.id, t.req))
           /\ meta[t.id]["response"] \in Wallets
<1> DEFINE w == meta[t.id]["response"]
<1>1. t.req \in CreateRequests /\ t.req.key \in Keys /\ t.id = IdOf[t.req.key]
  BY KeyedTask
<1>2. w \in Wallets /\ meta[t.id]["hash"] = <<w.name, w.metadata>>
  BY <1>1 DEF Inv, LedgerInv
<1>3. ReplayOrConflict(t.id, t.req) =
        IF Fingerprint(t.req) = <<w.name, w.metadata>>
        THEN Ok(w) ELSE Refusal("IdempotencyConflict")
  BY <1>2 DEF ReplayOrConflict
<1>4. Told(<<t.req, ReplayOrConflict(t.id, t.req)>>, w)
  BY <1>3 DEF Told
<1> QED
  BY <1>1, <1>2, <1>4 DEF Truthful, ledger, IsPrimary

\* Other refusals promise nothing.
LEMMA OtherRefusals ==
    ASSUME NEW req, NEW s \in {"Internal", "WalletAddressConflict", "WalletNotFound"}
    PROVE  Truthful(req, Refusal(s))
BY DEF Truthful, Refusal

LEMMA LookCreateInv ==
    ASSUME Inv, NEW h \in Handlers, LookCreate(h)
    PROVE  Inv' /\ IdentityKept
<1> DEFINE t == task[h]
<1>1. t.pc = "look" /\ t.req.op = "create" /\ UNCHANGED ledger
  BY DEF LookCreate
<1>2. CreateTask(t, meta) /\ t \in Tasks /\ t.body \in Metadata
  BY <1>1, BusyTask DEF Inv
<1>3. t.req.key # NoKey
  BY <1>1, <1>2, KeysAssumption DEF CreateTask
<1>4. IdentityKept /\ OthersNew(h) /\ LedgerInv'
  BY <1>1, SameWallets, SameLedger DEF Inv
<1>5. CASE Proceed(h, "write", t.body)
  <2>1. CreateTask([t EXCEPT !.pc = "write", !.body = t.body], meta')
    BY <1>2, <1>3 DEF CreateTask, Tasks
  <2> QED
    BY <1>1, <1>2, <1>3, <1>4, <1>5, <2>1, ProceedInv DEF TaskInv
<1>6. CASE IsPrimary(t.id) /\ Answer(h, ReplayOrConflict(t.id, t.req))
  BY <1>1, <1>2, <1>3, <1>4, <1>6, ReplayTruthful, AnswerInv
<1>7. ASSUME NEW s \in {"Internal", "WalletAddressConflict"}, Answer(h, Refusal(s))
      PROVE  Inv'
  BY <1>1, <1>4, <1>7, OtherRefusals, AnswerInv
<1>8. \/ Proceed(h, "write", t.body)
      \/ IsPrimary(t.id) /\ Answer(h, ReplayOrConflict(t.id, t.req))
      \/ Answer(h, Refusal("Internal"))
      \/ Answer(h, Refusal("WalletAddressConflict"))
  BY DEF LookCreate
<1> QED
  BY <1>4, <1>5, <1>6, <1>7, <1>8

LEMMA RecheckInv ==
    ASSUME Inv, NEW h \in Handlers, Recheck(h)
    PROVE  Inv' /\ IdentityKept
<1> DEFINE t == task[h]
<1>1. t.pc = "recheck" /\ UNCHANGED ledger
  BY DEF Recheck
<1>2. CreateTask(t, meta) /\ t.req.key # NoKey
  BY <1>1, BusyTask, KeysAssumption DEF Inv, CreateTask, UpdateTask
<1>3. IdentityKept /\ OthersNew(h) /\ LedgerInv'
  BY <1>1, SameWallets, SameLedger DEF Inv
<1>4. CASE IsPrimary(t.id) /\ Answer(h, ReplayOrConflict(t.id, t.req))
  BY <1>1, <1>2, <1>3, <1>4, ReplayTruthful, AnswerInv
<1>5. ASSUME NEW s \in {"Internal", "WalletAddressConflict"}, Answer(h, Refusal(s))
      PROVE  Inv'
  BY <1>1, <1>3, <1>5, OtherRefusals, AnswerInv
<1>6. \/ IsPrimary(t.id) /\ Answer(h, ReplayOrConflict(t.id, t.req))
      \/ Answer(h, Refusal("Internal"))
      \/ Answer(h, Refusal("WalletAddressConflict"))
  BY DEF Recheck
<1> QED
  BY <1>3, <1>4, <1>5, <1>6

\* The account that an update sends back is the one it has read, with the
\* fields of its request.
LEMMA PatchedType ==
    ASSUME NEW account \in Metadata, NEW req, req.metadata \in Custom \union {Nil}
    PROVE  /\ Patched(account, req) \in Metadata
           /\ \A a \in Identity : Patched(account, req)[a] = account[a]
           /\ \A f \in Fields : Normal(req.metadata)[f] \in {None, Patched(account, req)[f]}
<1>1. /\ Encode(req.metadata) \in Metadata
      /\ \A a \in Identity : Encode(req.metadata)[a] = None
      /\ \A f \in Fields : Encode(req.metadata)[f] = Normal(req.metadata)[f]
  BY EncodeType
<1>2. Identity \subseteq Attributes /\ Fields \subseteq Attributes
  BY DEF Attributes
<1> QED
  BY <1>1, <1>2, MergeType DEF Patched

LEMMA LookUpdateInv ==
    ASSUME Inv, NEW h \in Handlers, LookUpdate(h)
    PROVE  Inv' /\ IdentityKept
<1> DEFINE t == task[h]
           body == Patched(meta[t.id], t.req)
<1>1. t.pc = "look" /\ t.req.op = "update" /\ UNCHANGED ledger
  BY DEF LookUpdate
<1>2. UpdateTask(t, meta) /\ t \in Tasks
  BY <1>1, BusyTask DEF Inv
<1>3. IdentityKept /\ OthersNew(h) /\ LedgerInv' /\ meta' = meta
  BY <1>1, SameWallets, SameLedger DEF Inv, ledger
<1>4. CASE IsPrimary(t.id) /\ Proceed(h, "write", body)
  <2>1. t.req.metadata \in Custom \union {Nil} /\ meta[t.id] \in Metadata
    BY <1>1, <1>2, RequestsAssumption DEF UpdateTask, UpdateRequests, CreateRequests, Inv, LedgerInv
  <2>2. /\ body \in Metadata
        /\ \A a \in Identity : body[a] = meta[t.id][a]
        /\ \A f \in Fields : Normal(t.req.metadata)[f] \in {None, body[f]}
    BY <2>1, PatchedType
  <2> HIDE DEF body
  <2>3. UpdateTask([t EXCEPT !.pc = "write", !.body = body], meta')
    BY <1>2, <1>3, <1>4, <2>2 DEF UpdateTask, Tasks, IsPrimary
  <2> QED
    BY <1>1, <1>3, <1>4, <2>2, <2>3, ProceedInv DEF TaskInv
<1>5. CASE Answer(h, Refusal("WalletNotFound"))
  BY <1>1, <1>3, <1>5, OtherRefusals, AnswerInv
<1> QED
  BY <1>3, <1>4, <1>5 DEF LookUpdate

\* A create that succeeds answers with the response that the account holds.
LEMMA SuccessTruthful ==
    ASSUME Inv, NEW h \in Handlers, task[h].pc = "write",
           task[h].req.op = "create", task[h].req.key # NoKey,
           Execute(task[h]) \/ Repeated(task[h])
    PROVE  /\ meta'[task[h].id]["type"] = "primary"
           /\ meta'[task[h].id]["response"] = Created(task[h])
           /\ Truthful(task[h].req, Ok(Created(task[h])))
<1> DEFINE t == task[h]
<1>1. CreateTask(t, meta) /\ t.body \in Metadata
  BY BusyTask DEF Inv
<1>2. /\ t.req.key \in Keys /\ t.id = IdOf[t.req.key] /\ t.id \in Ids
      /\ Created(t) = t.body["response"]
      /\ Fingerprint(t.req) = <<Created(t).name, Created(t).metadata>>
      /\ t.body["type"] = "primary"
  BY <1>1, KeyedTask DEF CreateBody
<1>3. "type" \in Identity /\ "response" \in Identity
  BY DEF Identity
<1>4. ASSUME Execute(t)
      PROVE meta'[t.id]["type"] = "primary" /\ meta'[t.id]["response"] = Created(t)
  BY <1>1, <1>2, <1>3, <1>4, Written DEF Inv
<1>5. ASSUME Repeated(t)
      PROVE meta'[t.id]["type"] = "primary" /\ meta'[t.id]["response"] = Created(t)
  <2>1. journal[t.req.key] = <<t.id, t.body>> /\ journal[t.req.key] # None /\ UNCHANGED meta
    BY <1>2, <1>5 DEF Repeated, Fresh, LedgerKey, ledger
  <2>2. \A a \in Identity : t.body[a] = meta[t.id][a]
    BY <1>2, <2>1 DEF Inv, LedgerInv
  <2> QED
    BY <1>2, <1>3, <2>1, <2>2
<1>6. meta'[t.id]["type"] = "primary" /\ meta'[t.id]["response"] = Created(t)
  BY <1>2, <1>3, <1>4, <1>5
<1>7. Told(<<t.req, Ok(Created(t))>>, Created(t))
  BY <1>2 DEF Told
<1> QED
  BY <1>2, <1>6, <1>7 DEF Truthful

LEMMA WriteKeeps ==
    ASSUME Inv, NEW h \in Handlers, task[h].pc = "write",
           Execute(task[h]) \/ UNCHANGED ledger
    PROVE  IdentityKept /\ OthersNew(h) /\ LedgerInv'
BY ExecuteKeeps, SameWallets, SameLedger DEF Inv

LEMMA WriteSucceedsInv ==
    ASSUME Inv, NEW h \in Handlers, WriteSucceeds(h)
    PROVE  Inv' /\ IdentityKept
<1> DEFINE t == task[h]
           reply == Ok(IF t.req.op = "create" THEN Created(t) ELSE None)
<1>1. t.pc = "write" /\ (Execute(t) \/ Repeated(t)) /\ Answer(h, reply)
  BY DEF WriteSucceeds
<1>2. IdentityKept /\ OthersNew(h) /\ LedgerInv'
  BY <1>1, WriteKeeps DEF Repeated
<1>3. Truthful(t.req, reply)
  <2>1. CASE t.req.op = "create" /\ t.req.key # NoKey
    BY <1>1, <2>1, SuccessTruthful
  <2>2. CASE ~(t.req.op = "create" /\ t.req.key # NoKey)
    BY <2>2 DEF Truthful
  <2> QED
    BY <2>1, <2>2
<1> QED
  BY <1>1, <1>2, <1>3, AnswerInv

LEMMA WriteFailsInv ==
    ASSUME Inv, NEW h \in Handlers, WriteFails(h)
    PROVE  Inv' /\ IdentityKept
<1> DEFINE t == task[h]
<1>1. t.pc = "write" /\ (Execute(t) \/ UNCHANGED ledger)
  BY DEF WriteFails
<1>2. IdentityKept /\ OthersNew(h) /\ LedgerInv'
  BY <1>1, WriteKeeps
<1>3. CASE t.req.op = "create" /\ t.req.key # NoKey /\ Proceed(h, "recheck", t.body)
  <2>1. CreateTask(t, meta) /\ t \in Tasks /\ t.body \in Metadata
    BY <1>1, <1>3, BusyTask DEF Inv
  <2>2. CreateTask([t EXCEPT !.pc = "recheck", !.body = t.body], meta')
    BY <1>3, <2>1 DEF CreateTask, Tasks
  <2> QED
    BY <1>1, <1>2, <1>3, <2>1, <2>2, ProceedInv DEF TaskInv
<1>4. CASE Answer(h, Refusal("Internal"))
  BY <1>1, <1>2, <1>4, OtherRefusals, AnswerInv
<1> QED
  BY <1>2, <1>3, <1>4 DEF WriteFails

LEMMA AbandonInv ==
    ASSUME Inv, NEW h \in Handlers, Abandon(h)
    PROVE  Inv' /\ IdentityKept
<1>1. /\ UNCHANGED ledger /\ UNCHANGED told
      /\ IdentityKept /\ OthersNew(h) /\ LedgerInv'
  BY SameWallets, SameLedger DEF Abandon, Inv
<1>2. /\ task' \in [Handlers -> Tasks] /\ task'[h] = Idle
      /\ \A g \in Handlers \ {h} : task'[g] = task[g]
  BY IdleType DEF Abandon, Inv, TasksInv
<1>3. TasksInv'
  BY <1>1, <1>2, IdleType, OneTask DEF Inv, TaskInv, Unkeyed
<1>4. ToldInv'
  BY <1>1, TellInv DEF Inv
<1>5. CountersInv'
  BY <1>1, <1>2 DEF Inv, CountersInv, Abandon, ledger, Idle, NoMetadata
<1> QED
  BY <1>1, <1>3, <1>4, <1>5 DEF Inv

\* The environment touches no metadata.
LEMMA EnvironmentInv ==
    ASSUME Inv, (\E id \in Ids : Occupy(id)) \/ Tick \/ UNCHANGED vars
    PROVE  Inv' /\ IdentityKept
<1>1. /\ UNCHANGED <<meta, journal, task, received, told, executed>>
      /\ exists' \subseteq Ids /\ exists \subseteq exists'
      /\ now' \in 0 .. MaxTime
  BY DataAssumption DEF Occupy, Tick, vars, Inv, LedgerInv, CountersInv
<1>2. LedgerInv'
  BY <1>1 DEF Inv, LedgerInv, IsPrimary
<1>3. TasksInv' /\ ToldInv' /\ CountersInv'
  BY <1>1 DEF Inv, TasksInv, UniqueIds, ToldInv, CountersInv, IsPrimary, Idle, NoMetadata
<1> QED
  BY <1>1, <1>2, <1>3 DEF Inv, IdentityKept

\* Every step keeps the invariant, and every wallet its identity.
LEMMA NextInv == Inv /\ [Next]_vars => Inv' /\ IdentityKept
<1> SUFFICES ASSUME Inv, [Next]_vars PROVE Inv' /\ IdentityKept
  OBVIOUS
<1>1. ASSUME NEW h \in Handlers, NEW req \in Requests, Receive(h, req) PROVE Inv' /\ IdentityKept
  BY <1>1, ReceiveInv, SameWallets DEF Receive, Inv
<1>2. ASSUME NEW h \in Handlers, LookCreate(h) PROVE Inv' /\ IdentityKept
  BY <1>2, LookCreateInv
<1>3. ASSUME NEW h \in Handlers, LookUpdate(h) PROVE Inv' /\ IdentityKept
  BY <1>3, LookUpdateInv
<1>4. ASSUME NEW h \in Handlers, WriteSucceeds(h) PROVE Inv' /\ IdentityKept
  BY <1>4, WriteSucceedsInv
<1>5. ASSUME NEW h \in Handlers, WriteFails(h) PROVE Inv' /\ IdentityKept
  BY <1>5, WriteFailsInv
<1>6. ASSUME NEW h \in Handlers, Recheck(h) PROVE Inv' /\ IdentityKept
  BY <1>6, RecheckInv
<1>7. ASSUME NEW h \in Handlers, Abandon(h) PROVE Inv' /\ IdentityKept
  BY <1>7, AbandonInv
<1> QED
  BY <1>1, <1>2, <1>3, <1>4, <1>5, <1>6, <1>7, EnvironmentInv DEF Next, Step

LEMMA Invariance == Spec => []Inv
BY InitInv, NextInv, PTL DEF Spec

-----------------------------------------------------------------------------
(* What the runs check.                                                     *)

\* What a client that was told something has in its hands.
LEMMA ToldForms ==
    ASSUME Inv, NEW t \in told
    PROVE  LET w == meta[IdOf[t[1].key]]["response"]
           IN /\ t[1] \in CreateRequests /\ t[1].key \in Keys /\ w \in Wallets
              /\ \/ /\ t[2].status = "ok" /\ t[2].wallet = w
                    /\ t[1].name = w.name /\ Normal(t[1].metadata) = w.metadata
                 \/ /\ t[2].status = "IdempotencyConflict" /\ t[2].wallet = None
                    /\ <<w.name, w.metadata>> # <<t[1].name, Normal(t[1].metadata)>>
<1> DEFINE w == meta[IdOf[t[1].key]]["response"]
<1>1. t[1] \in CreateRequests /\ t[1].key \in Keys /\ w \in Wallets /\ Told(t, w)
  BY DEF Inv, ToldInv, LedgerInv
<1> HIDE DEF w
<1>2. Ok(w).status = "ok" /\ Ok(w).wallet = w
  BY DEF Ok
<1>3. /\ Refusal("IdempotencyConflict").status = "IdempotencyConflict"
      /\ Refusal("IdempotencyConflict").wallet = None
  BY DEF Refusal
<1>4. Fingerprint(t[1]) = <<t[1].name, Normal(t[1].metadata)>>
  BY DEF Fingerprint
<1> QED
  BY <1>1, <1>2, <1>3, <1>4 DEF Told, w

\* Type correctness of wallets, for any number of them.
THEOREM TypeCorrect == Spec => []TypeOK
<1>1. Inv => TypeOK
  <2> SUFFICES ASSUME Inv PROVE TypeOK
    OBVIOUS
  <2>1. \A id \in Ids : MetadataOK(meta[id])
    BY DEF Inv, LedgerInv, Metadata
  <2>2. \A k \in Keys : journal[k] # None => journal[k][1] \in Ids /\ MetadataOK(journal[k][2])
    BY DEF Inv, LedgerInv, Metadata
  <2>3. ASSUME NEW h \in Handlers PROVE TaskOK(task[h])
    <3>1. CASE task[h].pc = "idle"
      BY <3>1 DEF Inv, TasksInv, TaskInv, CreateTask, UpdateTask, TaskOK
    <3>2. CASE task[h].pc # "idle"
      BY <3>2, BusyTask DEF Inv, CreateTask, UpdateTask, TaskOK, Metadata
    <3> QED
      BY <3>1, <3>2
  <2>4. ASSUME NEW t \in told
        PROVE  /\ t[1] \in CreateRequests /\ t[1].key # NoKey
               /\ \/ t[2].status = "ok" /\ t[2].wallet \in Wallets
                  \/ t[2].status = "IdempotencyConflict" /\ t[2].wallet = None
    BY ToldForms, KeysAssumption
  <2>5. executed \in [Keys -> 0 .. MaxReceived]
    <3>1. \A k \in Keys : executed[k] \in 0 .. MaxReceived
      BY DataAssumption DEF Inv, LedgerInv, CountersInv
    <3> QED
      BY <3>1 DEF Inv, LedgerInv
  <2> QED
    BY <2>1, <2>2, <2>3, <2>4, <2>5 DEF TypeOK, Inv, LedgerInv, CountersInv
<1> QED
  BY <1>1, Invariance, PTL

\* A success under a key is about what its own request asked for.
THEOREM SuccessesMatch == Spec => []RepliesMatchRequests
<1>1. Inv => RepliesMatchRequests
  BY ToldForms DEF RepliesMatchRequests
<1> QED
  BY <1>1, Invariance, PTL

\* A retry of the very request that created a wallet is never refused as a
\* conflict.
THEOREM ConflictsAreOfOthers == Spec => []ConflictsAreReal
<1>1. Inv => ConflictsAreReal
  <2> SUFFICES ASSUME Inv, NEW t \in told, t[2].status = "IdempotencyConflict"
               PROVE  LET w == meta[IdOf[t[1].key]]["response"]
                      IN w # None /\ <<w.name, w.metadata>> # <<t[1].name, Normal(t[1].metadata)>>
    BY DEF ConflictsAreReal
  <2> QED
    BY ToldForms, ResponsesAssumption
<1> QED
  BY <1>1, Invariance, PTL

\* The calls of a key take effect once, however many handlers make them.
THEOREM KeysExecuteOnce == Spec => []EffectOncePerKey
<1>1. Inv => EffectOncePerKey
  BY DEF Inv, LedgerInv, EffectOncePerKey
<1> QED
  BY <1>1, Invariance, PTL

\* No step changes the identity of a wallet that is there.
THEOREM IdentityNeverChanges == Spec => IdentityImmutable
<1>1. Inv /\ [Next]_vars =>
        [\A id \in Ids :
            IsPrimary(id) => \A a \in Identity : meta'[id][a] = meta[id][a]]_vars
  BY NextInv DEF IdentityKept
<1> QED
  BY <1>1, Invariance, PTL DEF Spec, IdentityImmutable

\* A patch that is acknowledged, and was not before, is in force.
THEOREM PatchesTakeEffect == Spec => PatchInForce
<1> DEFINE InForce ==
        \A h \in Handlers :
            LET t == task[h]
            IN WriteSucceeds(h) /\ t.req.op = "update" /\ Fresh(t.req) =>
                \A f \in Fields : Normal(t.req.metadata)[f] \in {None, meta'[t.id][f]}
<1>1. Inv /\ [Next]_vars => InForce
  <2> SUFFICES ASSUME Inv, NEW h \in Handlers, WriteSucceeds(h), task[h].req.op = "update",
                      Fresh(task[h].req), NEW f \in Fields
               PROVE  Normal(task[h].req.metadata)[f] \in {None, meta'[task[h].id][f]}
    OBVIOUS
  <2>1. task[h].pc = "write" /\ Execute(task[h])
    BY DEF WriteSucceeds, Repeated
  <2>2. UpdateTask(task[h], meta) /\ task[h].body \in Metadata
    BY <2>1, BusyTask DEF Inv
  <2>3. Normal(task[h].req.metadata)[f] \in {None, task[h].body[f]}
    BY <2>1, <2>2 DEF UpdateTask
  <2>4. task[h].body[f] # None => meta'[task[h].id][f] = task[h].body[f]
    BY <2>1, <2>2, Written DEF Inv
  <2> QED
    BY <2>3, <2>4
<1> QED
  BY <1>1, Invariance, PTL DEF Spec, PatchInForce

-----------------------------------------------------------------------------
(* The refinement.                                                          *)

\* The variables of IdempotentCreate.
Recorded == [k \in Keys |-> meta[IdOf[k]]["response"]]
Tellings == {<<t[1].key, t[2].wallet>> : t \in {t \in told : t[2].status = "ok"}}

\* The steps of IdempotentCreate, in terms of these.
LEMMA Mapping ==
    /\ (UNCHANGED <<Recorded, Tellings>> => UNCHANGED Registry!vars)
    /\ \A k \in Keys, w \in Wallets :
         /\ Recorded[k] = None
         /\ Recorded' = [Recorded EXCEPT ![k] = w]
         /\ Tellings' \in {Tellings, Tellings \union {<<k, w>>}}
         => Registry!Create(k, w)
    /\ \A k \in Keys :
         /\ Recorded[k] # None
         /\ Tellings' = Tellings \union {<<k, Recorded[k]>>}
         /\ UNCHANGED Recorded
         => Registry!Replay(k)
BY DEF Recorded, Tellings, Registry!vars, Registry!Create, Registry!Replay

LEMMA TellingMore ==
    ASSUME NEW req, NEW reply, told' = told \union {<<req, reply>>}
    PROVE  Tellings' = IF reply.status = "ok"
                       THEN Tellings \union {<<req.key, reply.wallet>>} ELSE Tellings
<1> DEFINE Successes(S) == {t \in S : t[2].status = "ok"}
           Pairs(S) == {<<t[1].key, t[2].wallet>> : t \in S}
           new == <<req, reply>>
<1>1. new[1] = req /\ new[2] = reply
  OBVIOUS
<1>2. Successes(told') = Successes(told) \union (IF reply.status = "ok" THEN {new} ELSE {})
  BY <1>1
<1>3. Pairs(Successes(told) \union {new}) = Pairs(Successes(told)) \union Pairs({new})
  OBVIOUS
<1>4. Pairs({new}) = {<<req.key, reply.wallet>>}
  <2>1. \A x : x \in Pairs({new}) <=> x = <<new[1].key, new[2].wallet>>
    OBVIOUS
  <2>2. \A x : x \in Pairs({new}) <=> x = <<req.key, reply.wallet>>
    BY <1>1, <2>1, Zenon
  <2> HIDE DEF Pairs
  <2> QED
    BY <2>2
<1>5. Tellings = Pairs(Successes(told)) /\ Tellings' = Pairs(Successes(told'))
  BY DEF Tellings
<1>6. CASE reply.status = "ok"
  <2>1. Successes(told') = Successes(told) \union {new}
    BY <1>2, <1>6
  <2> HIDE DEF Pairs, Successes
  <2>2. Tellings' = Tellings \union {<<req.key, reply.wallet>>}
    BY <1>3, <1>4, <1>5, <2>1
  <2> QED
    BY <1>6, <2>2
<1>7. CASE reply.status # "ok"
  <2>1. Successes(told') = Successes(told)
    BY <1>2, <1>7
  <2> HIDE DEF Pairs, Successes
  <2>2. Tellings' = Tellings
    BY <1>5, <2>1
  <2> QED
    BY <1>7, <2>2
<1> QED
  BY <1>6, <1>7

\* What leaves the metadata and the successes told alone is a stutter.
LEMMA QuietStutters ==
    ASSUME UNCHANGED <<Recorded, Tellings>>
    PROVE  UNCHANGED Registry!vars
BY Mapping

\* An answer is heard by the client of a create under a key, if it succeeds.
LEMMA AnswerTells ==
    ASSUME NEW h, NEW reply, Answer(h, reply)
    PROVE  Tellings' =
             IF task[h].req.op = "create" /\ task[h].req.key # NoKey /\ reply.status = "ok"
             THEN Tellings \union {<<task[h].req.key, reply.wallet>>} ELSE Tellings
<1>1. CASE UNCHANGED told /\ ~(/\ task[h].req.op = "create" /\ task[h].req.key # NoKey
                               /\ reply.status = "ok")
  BY <1>1 DEF Tellings
<1>2. CASE /\ task[h].req.op = "create" /\ task[h].req.key # NoKey
           /\ told' = told \union {<<task[h].req, reply>>}
  BY <1>2, TellingMore
<1> QED
  BY <1>1, <1>2 DEF Answer

\* A create under a key that the ledger executes is the creation.
LEMMA ExecuteCreates ==
    ASSUME Inv, NEW h \in Handlers, task[h].pc = "write", Execute(task[h]),
           task[h].req.op = "create", task[h].req.key # NoKey,
           Tellings' \in {Tellings, Tellings \union {<<task[h].req.key, Created(task[h])>>}}
    PROVE  Registry!Next
<1> DEFINE t == task[h]
           key == t.req.key
<1>1. CreateTask(t, meta) /\ t.body \in Metadata /\ LedgerInv
  BY BusyTask DEF Inv
<1>2. key \in Keys /\ t.id = IdOf[key] /\ t.id \in Ids /\ Created(t) \in Wallets
  BY <1>1, KeyedTask
<1>3. \A id \in Ids \ {t.id} : meta'[id] = meta[id]
  BY <1>1, Written
<1>4. meta[t.id]["response"] = None
  <2>1. ~IsPrimary(t.id)
    BY <1>1, Written
  <2> QED
    BY <1>1, <1>2, <2>1, OtherAccount DEF IsPrimary, Attributes, Identity
<1>5. meta'[t.id]["response"] = Created(t)
  BY SuccessTruthful
<1>6. \A k \in Keys : meta'[IdOf[k]]["response"] =
                        IF k = key THEN Created(t) ELSE meta[IdOf[k]]["response"]
  BY <1>2, <1>3, <1>5, KeysAssumption
<1>7. Recorded[key] = None /\ Recorded' = [Recorded EXCEPT ![key] = Created(t)]
  BY <1>2, <1>4, <1>6 DEF Recorded
<1>8. ASSUME NEW k \in Keys, k = key, NEW w \in Wallets, w = Created(t) PROVE Registry!Next
  <2>1. Registry!Create(k, w)
    BY <1>7, <1>8, Mapping
  <2> QED
    BY <2>1 DEF Registry!Next
<1> QED
  BY <1>2, <1>8

\* Any other write leaves the response of every key alone.
LEMMA ExecuteOther ==
    ASSUME Inv, NEW h \in Handlers, task[h].pc = "write", Execute(task[h]),
           ~(task[h].req.op = "create" /\ task[h].req.key # NoKey)
    PROVE  UNCHANGED Recorded
<1> DEFINE t == task[h]
<1>1. /\ CreateTask(t, meta) \/ UpdateTask(t, meta)
      /\ t.body \in Metadata /\ LedgerInv
  BY BusyTask DEF Inv
<1>2. /\ \A id \in Ids \ {t.id} : meta'[id] = meta[id]
      /\ IdentityKept /\ "response" \in Identity
  BY <1>1, Written, ExecuteKeeps DEF Identity
<1>3. ASSUME NEW k \in Keys PROVE meta'[IdOf[k]]["response"] = meta[IdOf[k]]["response"]
  <2>1. IdOf[k] \in Ids
    BY KeysAssumption
  <2>2. CASE IdOf[k] # t.id
    BY <1>2, <2>1, <2>2
  <2>3. CASE IdOf[k] = t.id
    <3>1. IsPrimary(t.id)
      BY <1>1, <2>3, WrittenUnderKey, KeysAssumption
    <3> QED
      BY <1>2, <2>1, <2>3, <3>1 DEF IdentityKept
  <2> QED
    BY <2>2, <2>3
<1> QED
  BY <1>3 DEF Recorded

\* A create that answers with the wallet of its key replays it.
LEMMA AnswerReplays ==
    ASSUME Inv, UNCHANGED ledger, NEW h \in Handlers, CreateTask(task[h], meta),
           task[h].req.key # NoKey, IsPrimary(task[h].id), NEW reply, Answer(h, reply),
           \/ reply = Ok(meta[task[h].id]["response"])
           \/ reply = Refusal("IdempotencyConflict")
    PROVE  Registry!Next \/ UNCHANGED Registry!vars
<1> DEFINE key == task[h].req.key
<1>1. key \in Keys /\ task[h].id = IdOf[key] /\ task[h].req.op = "create"
  BY KeyedTask DEF CreateTask
<1>2. UNCHANGED Recorded
  BY DEF Recorded, ledger
<1>3. Recorded[key] = meta[task[h].id]["response"] /\ Recorded[key] # None
  BY <1>1, ResponsesAssumption DEF Recorded, Inv, LedgerInv
<1>4. CASE reply = Ok(meta[task[h].id]["response"])
  <2>1. Tellings' = Tellings \union {<<key, Recorded[key]>>}
    <3>1. reply.status = "ok" /\ reply.wallet = Recorded[key]
      BY <1>3, <1>4, Zenon DEF Ok
    <3>2. Tellings' = IF task[h].req.op = "create" /\ key # NoKey /\ reply.status = "ok"
                      THEN Tellings \union {<<key, reply.wallet>>} ELSE Tellings
      BY AnswerTells, Zenon
    <3>3. Tellings' = Tellings \union {<<key, reply.wallet>>}
      BY <1>1, <3>1, <3>2, Zenon
    <3> QED
      BY <3>1, <3>3, Zenon
  <2>2. ASSUME NEW k \in Keys, k = key PROVE Registry!Next
    <3>1. Registry!Replay(k)
      BY <1>2, <1>3, <2>1, <2>2, Mapping
    <3> QED
      BY <3>1 DEF Registry!Next
  <2> QED
    BY <1>1, <2>2
<1>5. CASE reply = Refusal("IdempotencyConflict")
  BY <1>2, <1>5, AnswerTells, QuietStutters DEF Refusal
<1> QED
  BY <1>4, <1>5

\* A refusal is a stutter while the ledger does not change.
LEMMA RefusalStutters ==
    ASSUME UNCHANGED ledger, NEW h, NEW s \in {"Internal", "WalletAddressConflict", "WalletNotFound"},
           Answer(h, Refusal(s))
    PROVE  UNCHANGED Registry!vars
BY AnswerTells, QuietStutters DEF Refusal, Recorded, ledger

\* Every success told under a key is the one wallet recorded for it, and a
\* wallet once recorded stays: the creation of wallets is an idempotent one.
THEOREM WalletsImplementIdempotentCreate == Spec => ImplementsIdempotentCreate
<1>1. Init => Registry!Init
  BY KeysAssumption DEF Init, Registry!Init, NoMetadata, Attributes, Identity
<1>2. Inv /\ [Next]_vars => [Registry!Next]_(Registry!vars)
  <2> SUFFICES ASSUME Inv, [Next]_vars PROVE Registry!Next \/ UNCHANGED Registry!vars
    OBVIOUS
  <2>1. ASSUME UNCHANGED <<meta, told>> PROVE UNCHANGED Registry!vars
    BY <2>1, QuietStutters DEF Recorded, Tellings
  <2>2. ASSUME NEW h \in Handlers, LookCreate(h) \/ Recheck(h)
        PROVE  Registry!Next \/ UNCHANGED Registry!vars
    <3> DEFINE t == task[h]
    <3>1. UNCHANGED ledger /\ CreateTask(t, meta) /\ t.req.key # NoKey
      <4>1. CASE LookCreate(h)
        BY <4>1, BusyTask, KeysAssumption DEF LookCreate, Inv, CreateTask
      <4>2. CASE Recheck(h)
        BY <4>2, BusyTask, KeysAssumption DEF Recheck, Inv, CreateTask, UpdateTask
      <4> QED
        BY <2>2, <4>1, <4>2
    <3>2. \/ UNCHANGED told
          \/ IsPrimary(t.id) /\ Answer(h, ReplayOrConflict(t.id, t.req))
          \/ Answer(h, Refusal("Internal"))
          \/ Answer(h, Refusal("WalletAddressConflict"))
      BY <2>2 DEF LookCreate, Recheck, Proceed
    <3>3. CASE UNCHANGED told
      BY <2>1, <3>1, <3>3 DEF ledger
    <3>4. CASE IsPrimary(t.id) /\ Answer(h, ReplayOrConflict(t.id, t.req))
      BY <3>1, <3>4, AnswerReplays DEF ReplayOrConflict
    <3> QED
      BY <3>1, <3>2, <3>3, <3>4, RefusalStutters
  <2>3. ASSUME NEW h \in Handlers, LookUpdate(h) PROVE UNCHANGED Registry!vars
    <3>1. /\ UNCHANGED ledger
          /\ UNCHANGED told \/ Answer(h, Refusal("WalletNotFound"))
      BY <2>3 DEF LookUpdate, Proceed
    <3> QED
      BY <2>1, <3>1, RefusalStutters DEF ledger
  <2>4. ASSUME NEW h \in Handlers, WriteSucceeds(h)
        PROVE  Registry!Next \/ UNCHANGED Registry!vars
    <3> DEFINE t == task[h]
               reply == Ok(IF t.req.op = "create" THEN Created(t) ELSE None)
    <3>1. t.pc = "write" /\ (Execute(t) \/ Repeated(t)) /\ Answer(h, reply)
      BY <2>4 DEF WriteSucceeds
    <3>2. CASE t.req.op = "create" /\ t.req.key # NoKey
      <4>1. Tellings' = Tellings \union {<<t.req.key, Created(t)>>}
        BY <3>1, <3>2, AnswerTells DEF Ok
      <4>2. CASE Execute(t)
        BY <3>1, <3>2, <4>1, <4>2, ExecuteCreates
      <4>3. CASE Repeated(t)
        <5>1. UNCHANGED ledger
          BY <4>3 DEF Repeated
        <5>2. CreateTask(t, meta)
          BY <3>1, <3>2, BusyTask DEF Inv
        <5>3. IsPrimary(t.id) /\ meta[t.id]["response"] = Created(t)
          BY <3>1, <3>2, <5>1, SuccessTruthful DEF ledger, IsPrimary
        <5>4. Answer(h, Ok(Created(t)))
          BY <3>1, <3>2
        <5> QED
          BY <3>2, <5>1, <5>2, <5>3, <5>4, AnswerReplays
      <4> QED
        BY <3>1, <4>2, <4>3
    <3>3. CASE ~(t.req.op = "create" /\ t.req.key # NoKey)
      <4>1. Tellings' = Tellings
        BY <3>1, <3>3, AnswerTells
      <4>2. UNCHANGED Recorded
        BY <3>1, <3>3, ExecuteOther DEF Repeated, ledger, Recorded
      <4> QED
        BY <4>1, <4>2, QuietStutters
    <3> QED
      BY <3>2, <3>3
  <2>5. ASSUME NEW h \in Handlers, WriteFails(h)
        PROVE  Registry!Next \/ UNCHANGED Registry!vars
    <3> DEFINE t == task[h]
    <3>1. t.pc = "write" /\ (Execute(t) \/ UNCHANGED ledger)
      BY <2>5 DEF WriteFails
    <3>2. Tellings' = Tellings
      BY <2>5, AnswerTells DEF WriteFails, Proceed, Refusal, Tellings
    <3>3. CASE Execute(t) /\ t.req.op = "create" /\ t.req.key # NoKey
      BY <3>1, <3>2, <3>3, ExecuteCreates
    <3>4. CASE Execute(t) /\ ~(t.req.op = "create" /\ t.req.key # NoKey)
      BY <3>1, <3>2, <3>4, ExecuteOther, QuietStutters
    <3>5. CASE UNCHANGED ledger
      BY <3>2, <3>5, QuietStutters DEF ledger, Recorded
    <3> QED
      BY <3>1, <3>3, <3>4, <3>5
  <2>6. ASSUME \/ \E h \in Handlers : Abandon(h) \/ \E req \in Requests : Receive(h, req)
               \/ \E id \in Ids : Occupy(id)
               \/ Tick
               \/ UNCHANGED vars
        PROVE  UNCHANGED <<meta, told>>
    BY <2>6 DEF Abandon, Receive, Occupy, Tick, vars, ledger
  <2> QED
    BY <2>1, <2>2, <2>3, <2>4, <2>5, <2>6 DEF Next, Step
<1> QED
  BY <1>1, <1>2, Invariance, PTL DEF Spec, ImplementsIdempotentCreate, Registry!Spec

=============================================================================
