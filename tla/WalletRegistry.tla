--------------------------- MODULE WalletRegistry ---------------------------
(***************************************************************************)
(* The creation and the update of wallets (src/pkg/manager.go,             *)
(* CreateWallet and UpdateWallet).  A wallet is the metadata of its main   *)
(* balance account.  A handler reads the account and then adds metadata to *)
(* it: two calls, with any other handler in between, each of which may     *)
(* fail with or without having taken effect.  The ledger merges metadata   *)
(* into an account, the later value of an attribute winning, and executes  *)
(* an Idempotency-Key once: the same call under it is answered and not     *)
(* executed, another call is refused.                                      *)
(***************************************************************************)
EXTENDS Naturals

CONSTANTS
    Ids,            \* wallet ids, one main account each
    Keys, NoKey,    \* Idempotency-Keys, and a request without one
    IdOf,           \* deterministicID("wallet", key)
    Names,          \* wallet names
    Fields, Values, \* custom metadata
    Nil,            \* omitted or null metadata
    None,           \* no value
    Handlers,       \* concurrent requests
    Requests,       \* the requests that clients send
    MaxReceived,    \* bound: requests received
    MaxTime         \* bound: instants

Identity == {"type", "name", "createdAt", "hash", "response"}
Attributes == Identity \union Fields

Custom == [Fields -> Values \union {None}]

CreateRequests ==
    [op : {"create"}, key : Keys \union {NoKey}, name : Names, metadata : Custom \union {Nil}]
UpdateRequests ==
    [op : {"update"}, key : Keys \union {NoKey}, id : Ids, metadata : Custom \union {Nil}]

ASSUME KeysAssumption ==
    /\ NoKey \notin Keys
    /\ IdOf \in [Keys -> Ids]
    /\ \A k, l \in Keys : IdOf[k] = IdOf[l] => k = l

ASSUME DataAssumption ==
    /\ Fields \intersect Identity = {}
    /\ None \notin Names \union Values \union Custom \union {"primary"}
    /\ Nil \notin Custom
    /\ MaxReceived \in Nat
    /\ MaxTime \in Nat

ASSUME RequestsAssumption == Requests \subseteq CreateRequests \union UpdateRequests

\* A wallet, as a create answers with it.
Wallets == [id : Ids, name : Names, metadata : Custom, createdAt : 0 .. MaxTime]

ASSUME ResponsesAssumption == None \notin Wallets

\* What an attribute may hold; no entry of the journal is no call.
Data ==
    Wallets \union (Names \X Custom) \union Names \union Values \union (0 .. MaxTime)
    \union {"primary", None}

ASSUME CallsAssumption == None \notin Ids \X [Attributes -> Data]

RandomIds == Ids \ {IdOf[k] : k \in Keys}

VARIABLES
    now,            \* the clock
    exists,         \* the ids whose main account exists in the ledger
    meta,           \* its metadata
    journal,        \* the call the ledger executed under a key: <<id, body>>
    task,           \* what each handler is doing
    received,       \* number of requests received
    told,           \* history: successes and conflicts told to creates with a key
    executed        \* history: how often the call of a key was executed

ledger == <<exists, meta, journal, executed>>
vars == <<now, exists, meta, journal, task, received, told, executed>>

-----------------------------------------------------------------------------
(* Metadata.                                                                *)

NoMetadata == [a \in Attributes |-> None]

Merge(m, n) == [a \in Attributes |-> IF n[a] # None THEN n[a] ELSE m[a]]

\* NewWallet: omitted metadata is an empty object.
Normal(custom) == IF custom = Nil THEN [f \in Fields |-> None] ELSE custom

\* EncodeCustomMetadata, the custom attributes alone.
Encode(custom) == [a \in Attributes |-> IF a \in Fields THEN Normal(custom)[a] ELSE None]

\* walletCreateRequestFingerprint: an injective encoding, then a hash.
Fingerprint(req) == <<req.name, Normal(req.metadata)>>

IsPrimary(id) == meta[id]["type"] = "primary"

\* Defect: omitted metadata is kept as null.
NewWallet_Raw(req, id) ==
    [id |-> id, name |-> req.name, metadata |-> req.metadata, createdAt |-> now]

NewWallet(req, id) ==
    [id |-> id, name |-> req.name, metadata |-> Normal(req.metadata), createdAt |-> now]

LedgerMetadata(req, w) ==
    [Encode(req.metadata) EXCEPT
        !["type"] = "primary", !["name"] = w.name, !["createdAt"] = w.createdAt,
        !["hash"] = IF req.key = NoKey THEN None ELSE Fingerprint(req),
        !["response"] = IF req.key = NoKey THEN None ELSE w]

-----------------------------------------------------------------------------
(* Replies.                                                                 *)

Idle == [pc |-> "idle", req |-> None, id |-> None, body |-> NoMetadata]

Ok(w) == [status |-> "ok", wallet |-> w]
Refusal(status) == [status |-> status, wallet |-> None]

\* The handler answers; what a key was told is remembered.
Answer(h, reply) ==
    /\ task' = [task EXCEPT ![h] = Idle]
    /\ told' = IF /\ task[h].req.op = "create" /\ task[h].req.key # NoKey
                  /\ reply.status \in {"ok", "IdempotencyConflict"}
               THEN told \union {<<task[h].req, reply>>}
               ELSE told
    /\ UNCHANGED <<now, received>>

Proceed(h, pc, body) ==
    /\ task' = [task EXCEPT ![h].pc = pc, ![h].body = body]
    /\ UNCHANGED <<now, received, told>>

\* Defect: whatever wallet is there is replayed.
ReplayOrConflict_Always(id, req) == Ok(meta[id]["response"])

\* Defect: the request is compared with the live custom metadata.
ReplayOrConflict_Live(id, req) ==
    IF /\ meta[id]["name"] = req.name
       /\ \A f \in Fields : meta[id][f] = Normal(req.metadata)[f]
    THEN Ok(meta[id]["response"]) ELSE Refusal("IdempotencyConflict")

ReplayOrConflict(id, req) ==
    IF meta[id]["hash"] = Fingerprint(req)
    THEN Ok(meta[id]["response"]) ELSE Refusal("IdempotencyConflict")

-----------------------------------------------------------------------------
(* A request arrives.  CreatedAt is stamped before any call to the ledger;  *)
(* the id of a wallet created without a key is random, hence new.           *)

InUse(id) == id \in exists \/ \E h \in Handlers : task[h].id = id

ReceiveCreate(h, req) ==
    \/ /\ req.key = NoKey
       /\ \E id \in RandomIds :
            /\ ~InUse(id)
            /\ task' = [task EXCEPT ![h] =
                  [pc |-> "write", req |-> req, id |-> id,
                   body |-> LedgerMetadata(req, NewWallet(req, id))]]
    \/ /\ req.key # NoKey
       /\ task' = [task EXCEPT ![h] =
             [pc |-> "look", req |-> req, id |-> IdOf[req.key],
              body |-> LedgerMetadata(req, NewWallet(req, IdOf[req.key]))]]

ReceiveUpdate(h, req) ==
    task' = [task EXCEPT ![h] =
        [pc |-> "look", req |-> req, id |-> req.id, body |-> NoMetadata]]

Receive(h, req) ==
    /\ task[h] = Idle
    /\ received < MaxReceived
    /\ received' = received + 1
    /\ \/ req.op = "create" /\ ReceiveCreate(h, req)
       \/ req.op = "update" /\ ReceiveUpdate(h, req)
    /\ UNCHANGED <<now, told, ledger>>

-----------------------------------------------------------------------------
(* GetAccount.                                                              *)

\* existingWalletAccount, before the write of a create.
LookCreate(h) ==
    LET t == task[h]
    IN /\ t.pc = "look" /\ t.req.op = "create"
       /\ \/ t.id \notin exists /\ Proceed(h, "write", t.body)
          \/ t.id \in exists /\ ~IsPrimary(t.id) /\ Answer(h, Refusal("WalletAddressConflict"))
          \/ t.id \in exists /\ IsPrimary(t.id) /\ Answer(h, ReplayOrConflict(t.id, t.req))
          \/ Answer(h, Refusal("Internal"))
       /\ UNCHANGED ledger

\* Defect: the account's own attributes win over those of the request.
Patched_OldWins(account, req) == Merge(Encode(req.metadata), account)

\* The whole account is sent back with the request merged into it.
Patched(account, req) == Merge(account, Encode(req.metadata))

\* UpdateWallet: any error, a missing account and a non-wallet are not found.
LookUpdate(h) ==
    LET t == task[h]
    IN /\ t.pc = "look" /\ t.req.op = "update"
       /\ \/ t.id \in exists /\ IsPrimary(t.id)
             /\ Proceed(h, "write", Patched(meta[t.id], t.req))
          \/ Answer(h, Refusal("WalletNotFound"))
       /\ UNCHANGED ledger

-----------------------------------------------------------------------------
(* AddMetadataToAccount.                                                    *)

\* Defect: the key of the request is not given to the ledger.
LedgerKey_Dropped(req) == NoKey

LedgerKey(req) == req.key

Fresh(req) == LedgerKey(req) \in Keys => journal[LedgerKey(req)] = None

Execute(t) ==
    /\ Fresh(t.req)
    /\ exists' = exists \union {t.id}
    /\ meta' = [meta EXCEPT ![t.id] = Merge(@, t.body)]
    /\ journal' = IF LedgerKey(t.req) = NoKey THEN journal
                  ELSE [journal EXCEPT ![LedgerKey(t.req)] = <<t.id, t.body>>]
    /\ executed' = IF t.req.key = NoKey THEN executed
                   ELSE [executed EXCEPT ![t.req.key] = @ + 1]

Repeated(t) ==
    /\ ~Fresh(t.req)
    /\ journal[LedgerKey(t.req)] = <<t.id, t.body>>
    /\ UNCHANGED ledger

\* The wallet that a create answers with is the one it was about to store.
Created(t) ==
    [id |-> t.id, name |-> t.req.name, metadata |-> Normal(t.req.metadata),
     createdAt |-> t.body["createdAt"]]

WriteSucceeds(h) ==
    LET t == task[h]
    IN /\ t.pc = "write"
       /\ Execute(t) \/ Repeated(t)
       /\ Answer(h, Ok(IF t.req.op = "create" THEN Created(t) ELSE None))

\* The ledger refuses the call, or fails before or after executing it.
WriteFails(h) ==
    LET t == task[h]
    IN /\ t.pc = "write"
       /\ Execute(t) \/ UNCHANGED ledger
       /\ \/ t.req.op = "create" /\ t.req.key # NoKey /\ Proceed(h, "recheck", t.body)
          \/ ~(t.req.op = "create" /\ t.req.key # NoKey) /\ Answer(h, Refusal("Internal"))

\* A create whose write failed looks for a wallet again, whatever the error.
Recheck(h) ==
    LET t == task[h]
    IN /\ t.pc = "recheck"
       /\ \/ t.id \in exists /\ ~IsPrimary(t.id) /\ Answer(h, Refusal("WalletAddressConflict"))
          \/ t.id \in exists /\ IsPrimary(t.id) /\ Answer(h, ReplayOrConflict(t.id, t.req))
          \/ Answer(h, Refusal("Internal"))
       /\ UNCHANGED ledger

-----------------------------------------------------------------------------
(* The environment.                                                         *)

\* A replica stops, or a client goes away: the request is dropped where it is.
Abandon(h) ==
    /\ task[h] # Idle
    /\ task' = [task EXCEPT ![h] = Idle]
    /\ UNCHANGED <<now, received, told, ledger>>

\* Funds sent to the address of a wallet that was never created.
Occupy(id) ==
    /\ id \notin exists
    /\ exists' = exists \union {id}
    /\ UNCHANGED <<now, meta, journal, task, received, told, executed>>

Tick ==
    /\ now < MaxTime
    /\ now' = now + 1
    /\ UNCHANGED <<exists, meta, journal, task, received, told, executed>>

Init ==
    /\ now = 0
    /\ exists = {}
    /\ meta = [id \in Ids |-> NoMetadata]
    /\ journal = [k \in Keys |-> None]
    /\ task = [h \in Handlers |-> Idle]
    /\ received = 0
    /\ told = {}
    /\ executed = [k \in Keys |-> 0]

Step(h) ==
    \/ \E req \in Requests : Receive(h, req)
    \/ LookCreate(h)
    \/ LookUpdate(h)
    \/ WriteSucceeds(h)
    \/ WriteFails(h)
    \/ Recheck(h)
    \/ Abandon(h)

Next ==
    \/ \E h \in Handlers : Step(h)
    \/ \E id \in Ids : Occupy(id)
    \/ Tick

Spec == Init /\ [][Next]_vars

-----------------------------------------------------------------------------
(* Properties.                                                              *)

MetadataOK(m) ==
    /\ DOMAIN m = Attributes
    /\ m["type"] \in {"primary", None}
    /\ m["name"] \in Names \union {None}
    /\ m["createdAt"] \in (0 .. MaxTime) \union {None}
    /\ m["hash"] \in (Names \X Custom) \union {None}
    /\ m["response"] \in Wallets \union {None}
    /\ \A f \in Fields : m[f] \in Values \union {None}

TaskOK(t) ==
    \/ t = Idle
    \/ /\ t.pc \in {"look", "write", "recheck"}
       /\ t.req \in Requests
       /\ t.id \in Ids
       /\ MetadataOK(t.body)

\* Type correctness: a main account holds the metadata of a wallet or none,
\* and a handler is idle or at a call of CreateWallet or UpdateWallet.
TypeOK ==
    /\ now \in 0 .. MaxTime
    /\ exists \subseteq Ids
    /\ \A id \in Ids : MetadataOK(meta[id])
    /\ \A k \in Keys :
         journal[k] # None => journal[k][1] \in Ids /\ MetadataOK(journal[k][2])
    /\ \A h \in Handlers : TaskOK(task[h])
    /\ received \in 0 .. MaxReceived
    /\ \A t \in told :
         /\ t[1] \in CreateRequests /\ t[1].key # NoKey
         /\ \/ t[2].status = "ok" /\ t[2].wallet \in Wallets
            \/ t[2].status = "IdempotencyConflict" /\ t[2].wallet = None
    /\ executed \in [Keys -> 0 .. MaxReceived]

\* The wallet that the create under each key left in the ledger, and what
\* clients were answered under it.
Registry == INSTANCE IdempotentCreate WITH
    Responses <- Wallets,
    outcome <- [k \in Keys |-> meta[IdOf[k]]["response"]],
    told <- {<<t[1].key, t[2].wallet>> : t \in {t \in told : t[2].status = "ok"}}

\* CreateWallet implements the promise of an Idempotency-Key: whatever the
\* races, the lost answers and the later updates of the wallet, every success
\* told under a key is the response of the one create that took effect.
ImplementsIdempotentCreate == Registry!Spec

\* A success of a create under a key is about the name and the metadata that
\* this request asked for, never about those of another use of the key.
RepliesMatchRequests ==
    \A t \in told :
        t[2].status = "ok" =>
            /\ t[2].wallet.name = t[1].name
            /\ t[2].wallet.metadata = Normal(t[1].metadata)

\* A create is refused with IdempotencyConflict only if the wallet was created
\* by a different request: a retry of the very request is never refused so,
\* even once the wallet has been updated, or if it writes {} for null.
ConflictsAreReal ==
    \A t \in told :
        t[2].status = "IdempotencyConflict" =>
            LET w == meta[IdOf[t[1].key]]["response"]
            IN w # None /\ <<w.name, w.metadata>> # <<t[1].name, Normal(t[1].metadata)>>

\* Once a wallet exists, its name, its creation date and the record of the
\* request that created it never change: not by a concurrent create under the
\* same key, nor by an update that writes back the whole account it has read.
IdentityImmutable ==
    [][\A id \in Ids :
        IsPrimary(id) => \A a \in Identity : meta'[id][a] = meta[id][a]]_vars

\* The calls of a key, whichever handlers make them, and whatever was answered
\* or lost, take effect at most once: a retry that arrives after a later patch
\* does not undo it.
EffectOncePerKey == \A k \in Keys : executed[k] <= 1

\* When an update is acknowledged that the ledger has not executed before,
\* every field it names has the value it asks for, whatever was written since
\* the handler has read the account.
PatchInForce ==
    [][\A h \in Handlers :
        LET t == task[h]
        IN WriteSucceeds(h) /\ t.req.op = "update" /\ Fresh(t.req) =>
            \A f \in Fields : Normal(t.req.metadata)[f] \in {None, meta'[t.id][f]}]_vars

=============================================================================
