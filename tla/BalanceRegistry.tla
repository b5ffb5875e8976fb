-------------------------- MODULE BalanceRegistry ---------------------------
(***************************************************************************)
(* The creation of the named balances of a wallet (src/pkg/manager.go,     *)
(* CreateBalance).  A balance is the metadata of its account.  Creates may *)
(* find no balance and then all write one: the attributes of the account   *)
(* are those of the last write, and each create with an Idempotency-Key    *)
(* leaves its own response beside them, under a marker made of the key.    *)
(* The ledger merges metadata and executes a key once, as in               *)
(* WalletRegistry.                                                         *)
(***************************************************************************)
EXTENDS Naturals

CONSTANTS
    Accounts,       \* the addresses of balances in one wallet
    Names,          \* what clients may send as the name of a balance
    ValidNames,     \* those that balanceNameRegex matches
    Main,           \* the reserved name
    AccountOf,      \* the address of a valid name: names differing by dashes share one
    Keys, NoKey,    \* Idempotency-Keys, and a request without one
    Expiries,       \* instants of expiry
    Never,          \* no expiry
    Priorities,
    None,           \* no value
    Handlers,       \* concurrent requests
    Requests,       \* the requests that clients send
    MaxReceived     \* bound: requests received

CreateRequests ==
    [key : Keys \union {NoKey}, name : Names, expiry : Expiries \union {Never},
     priority : Priorities]

ASSUME NamesAssumption ==
    /\ ValidNames \subseteq Names
    /\ Main \in ValidNames
    /\ AccountOf \in [ValidNames -> Accounts]

ASSUME DataAssumption ==
    /\ NoKey \notin Keys
    /\ Never \notin Expiries
    /\ MaxReceived \in Nat
    /\ Requests \subseteq CreateRequests

Balances ==
    [name : ValidNames, expiry : Expiries \union {Never}, priority : Priorities]

ASSUME NoneAssumption ==
    None \notin Balances \union ValidNames \union Expiries \union {Never} \union Priorities

VARIABLES
    account,        \* the metadata of each account
    journal,        \* the call the ledger executed under a key: <<account, body>>
    task,           \* what each handler is doing
    received,       \* number of requests received
    told            \* history: the successes told to creates with a key

vars == <<account, journal, task, received, told>>

-----------------------------------------------------------------------------
(* Metadata.  live is what describes the balance, marker what the creates   *)
(* with a key have left.                                                    *)

Live == {"name", "expiry", "priority"}

NoMetadata ==
    [balance |-> FALSE, live |-> [a \in Live |-> None], marker |-> [k \in Keys |-> None]]

Join(f, g) == [x \in DOMAIN f |-> IF g[x] # None THEN g[x] ELSE f[x]]

Merge(m, n) ==
    [balance |-> m.balance \/ n.balance, live |-> Join(m.live, n.live),
     marker |-> Join(m.marker, n.marker)]

NewBalance(req) == [name |-> req.name, expiry |-> req.expiry, priority |-> req.priority]

\* Defect: a balance without an expiry has no such attribute.
LiveMetadata_Omitting(b) ==
    [a \in Live |-> IF a = "expiry" /\ b.expiry = Never THEN None ELSE b[a]]

\* Balance.LedgerMetadata: no expiry is written as an empty attribute.
LiveMetadata(b) == [a \in Live |-> b[a]]

\* Defect: one marker for all keys.
Markers_Shared(req) ==
    [k \in Keys |-> IF req.key # NoKey THEN NewBalance(req) ELSE None]

Markers(req) == [k \in Keys |-> IF k = req.key THEN NewBalance(req) ELSE None]

Body(req) ==
    [balance |-> TRUE, live |-> LiveMetadata(NewBalance(req)), marker |-> Markers(req)]

\* An empty entry of the journal is no call.
ASSUME CallsAssumption == \A a \in Accounts, req \in Requests : <<a, Body(req)>> # None

-----------------------------------------------------------------------------
Idle == [pc |-> "idle", req |-> None, reply |-> None]

Ok(b) == [status |-> "ok", balance |-> b]
Refusal(status) == [status |-> status, balance |-> None]

\* The handler answers; the successes of creates with a key are remembered.
Answer(h, req, reply) ==
    /\ task' = [task EXCEPT ![h] = [pc |-> "idle", req |-> req, reply |-> reply]]
    /\ told' = IF req.key # NoKey /\ reply.status = "ok"
               THEN told \union {<<req, reply.balance>>} ELSE told

\* Validate, before any call.
Receive(h, req) ==
    /\ task[h].pc = "idle"
    /\ received < MaxReceived
    /\ received' = received + 1
    /\ \/ req.name \notin ValidNames /\ Answer(h, req, Refusal("InvalidBalanceName"))
       \/ req.name = Main /\ Answer(h, req, Refusal("ReservedBalanceName"))
       \/ /\ req.name \in ValidNames \ {Main}
          /\ task' = [task EXCEPT ![h] = [pc |-> "look", req |-> req, reply |-> None]]
          /\ UNCHANGED told
    /\ UNCHANGED <<account, journal>>

\* Defect: a balance that exists is refused before the marker is looked for.
Existing_Refused(m, req) == Refusal("BalanceAlreadyExists")

\* Defect: the marker is decoded without checking that there is one.
Existing_Unchecked(m, req) ==
    IF req.key \in Keys THEN Ok(m.marker[req.key]) ELSE Refusal("BalanceAlreadyExists")

\* What is answered when the balance exists.
Existing(m, req) ==
    IF req.key \in Keys /\ m.marker[req.key] # None
    THEN Ok(m.marker[req.key]) ELSE Refusal("BalanceAlreadyExists")

\* GetAccount.  An account that is no balance is as good as none.
Look(h) ==
    LET req == task[h].req
        m == account[AccountOf[req.name]]
    IN /\ task[h].pc = "look"
       /\ \/ /\ ~m.balance
             /\ task' = [task EXCEPT ![h].pc = "write"]
             /\ UNCHANGED told
          \/ m.balance /\ Answer(h, req, Existing(m, req))
          \/ Answer(h, req, Refusal("Internal"))
       /\ UNCHANGED <<account, journal, received>>

LedgerKey(req) == req.key

Fresh(req) == LedgerKey(req) \in Keys => journal[LedgerKey(req)] = None

\* AddMetadataToAccount, executed by the ledger.
Execute(req) ==
    LET a == AccountOf[req.name]
    IN /\ Fresh(req)
       /\ account' = [account EXCEPT ![a] = Merge(@, Body(req))]
       /\ journal' = [k \in Keys |->
             IF k = LedgerKey(req) THEN <<a, Body(req)>> ELSE journal[k]]

Repeated(req) ==
    /\ ~Fresh(req)
    /\ journal[LedgerKey(req)] = <<AccountOf[req.name], Body(req)>>
    /\ UNCHANGED <<account, journal>>

WriteSucceeds(h) ==
    LET req == task[h].req
    IN /\ task[h].pc = "write"
       /\ Execute(req) \/ Repeated(req)
       /\ Answer(h, req, Ok(NewBalance(req)))
       /\ UNCHANGED received

\* The ledger refuses the call, or fails before or after executing it.
WriteFails(h) ==
    LET req == task[h].req
    IN /\ task[h].pc = "write"
       /\ Execute(req) \/ UNCHANGED <<account, journal>>
       /\ Answer(h, req, Refusal("Internal"))
       /\ UNCHANGED received

\* A replica stops, or a client goes away: the request is dropped where it is.
Abandon(h) ==
    /\ task[h].pc # "idle"
    /\ task' = [task EXCEPT ![h] = Idle]
    /\ UNCHANGED <<account, journal, received, told>>

\* The wallet exists: its main account is a balance.
Init ==
    /\ account = [a \in Accounts |-> [NoMetadata EXCEPT !.balance = (a = AccountOf[Main])]]
    /\ journal = [k \in Keys |-> None]
    /\ task = [h \in Handlers |-> Idle]
    /\ received = 0
    /\ told = {}

Next ==
    \E h \in Handlers :
        \/ \E req \in Requests : Receive(h, req)
        \/ Look(h)
        \/ WriteSucceeds(h)
        \/ WriteFails(h)
        \/ Abandon(h)

Spec == Init /\ [][Next]_vars

-----------------------------------------------------------------------------
(* Properties.                                                              *)

MetadataOK(m) ==
    /\ m.balance \in BOOLEAN
    /\ m.live["name"] \in ValidNames \union {None}
    /\ m.live["expiry"] \in Expiries \union {Never, None}
    /\ m.live["priority"] \in Priorities \union {None}
    /\ m.marker \in [Keys -> Balances \union {None}]

Refusals == {"InvalidBalanceName", "ReservedBalanceName", "BalanceAlreadyExists", "Internal"}

\* Type correctness: an account holds the metadata of a balance or none, and a
\* handler is idle, with its last reply, or at one of the two calls.
TypeOK ==
    /\ \A a \in Accounts : MetadataOK(account[a])
    /\ \A k \in Keys :
         journal[k] # None => journal[k][1] \in Accounts /\ MetadataOK(journal[k][2])
    /\ \A h \in Handlers :
         \/ task[h] = Idle
         \/ /\ task[h].pc \in {"look", "write"}
            /\ task[h].req \in Requests /\ task[h].reply = None
         \/ /\ task[h].pc = "idle"
            /\ task[h].req \in Requests
            /\ task[h].reply \in {Refusal(s) : s \in Refusals} \union {Ok(b) : b \in Balances}
    /\ received \in 0 .. MaxReceived
    /\ told \subseteq CreateRequests \X Balances

\* The response that the create under each key left, wherever it did.
Left(k) == {account[a].marker[k] : a \in Accounts} \ {None}

Registry == INSTANCE IdempotentCreate WITH
    Responses <- Balances,
    outcome <- [k \in Keys |-> IF Left(k) = {} THEN None ELSE CHOOSE b \in Left(k) : TRUE],
    told <- {<<t[1].key, t[2]>> : t \in told}

\* "Each caller's per-key response survives the other's write": every success
\* told under a key is the one response recorded for it, though other creates
\* have since overwritten the priority and the expiry of the balance.
ImplementsIdempotentCreate == Registry!Spec

\* A client that was told its balance exists is told so again when it retries
\* under its key, and not that the balance already exists.
RetryReplays ==
    [][\A h \in Handlers :
        LET t == task'[h]
        IN task[h].pc # "idle" /\ t.pc = "idle" /\ t.req # None /\ t.req.key # NoKey
             /\ t.reply.status = "BalanceAlreadyExists"
           => \A b \in Balances : <<t.req, b>> \notin told]_vars

\* The name, the expiry and the priority of a balance always come from one and
\* the same request, never the expiry of one and the priority of another, in
\* whatever order concurrent creates write them.
OneRequestsBalance ==
    \A a \in Accounts :
        account[a].live # NoMetadata.live =>
            \E req \in Requests :
                /\ req.name \in ValidNames \ {Main}
                /\ AccountOf[req.name] = a
                /\ account[a].live = LiveMetadata(NewBalance(req))

\* What error.go says of a key "reused with a different request body": it is a
\* conflict, the original resource is not silently replayed.  A success told
\* under a key would then be about the balance this request describes.
RepliesMatchRequests == \A t \in told : t[2] = NewBalance(t[1])

=============================================================================
