-------------------------- MODULE ClientCallsProofs --------------------------
(***************************************************************************)
(* Proofs about the calls of the client and its sessions, for any number   *)
(* of goroutines, keys, scopes and lifetimes and any retry configuration.  *)
(***************************************************************************)
EXTENDS ClientCalls, TLAPS

-----------------------------------------------------------------------------
(* The sessions.  With a timeout of the http client within the margin, no    *)
(* request leaves with a token that is too narrow, or that may expire on its *)
(* way.                                                                      *)

USE MarginAssumption, SessionAssumption, NoSessionAssumption

HookTypes ==
    [step : {"idle", "lookup", "token", "store", "ready", "sent"},
     needs : SUBSET Scopes, asks : SUBSET Scopes, held : Session \union {NoSession},
     reused : BOOLEAN, due : Nat]

\* One goroutine moves; what the invariant says of it afterwards is enough.
LEMMA OneMoves ==
  ASSUME SessionInv, NEW c \in Callers, NEW h \in HookTypes,
         hook' = [hook EXCEPT ![c] = h], now' = now, crashed' = crashed,
         sessions' \in Session \union {NoSession},
         Covers(h), Outlasts(h)
  PROVE  SessionInv'
<1>1. SessionTypeOK'
  BY DEF SessionInv, SessionTypeOK, HookTypes
<1>2. ASSUME NEW d \in Callers PROVE Covers(hook[d])' /\ Outlasts(hook[d])'
  <2>1. CASE d = c
    <3>1. hook'[d] = h
      BY <2>1 DEF SessionInv, SessionTypeOK
    <3> QED
      BY <3>1 DEF Covers, Outlasts
  <2>2. CASE d # c
    <3>1. hook'[d] = hook[d]
      BY <2>2 DEF SessionInv, SessionTypeOK
    <3> QED
      BY <3>1 DEF SessionInv, Covers, Outlasts
  <2> QED
    BY <2>1, <2>2
<1> QED
  BY <1>1, <1>2 DEF SessionInv

\* A goroutine without a token request behind it has nothing to keep.
LEMMA IdleIsSafe == Idle \in HookTypes /\ Covers(Idle) /\ Outlasts(Idle)
  BY DEF Idle, HookTypes, Covers, Outlasts

LEMMA InitSession == SessionInit => SessionInv
<1> SUFFICES ASSUME SessionInit PROVE SessionInv
  OBVIOUS
<1>1. SessionTypeOK
  BY IdleIsSafe DEF SessionInit, SessionTypeOK, HookTypes
<1>2. ASSUME NEW c \in Callers PROVE Covers(hook[c]) /\ Outlasts(hook[c])
  <2>1. hook[c] = Idle
    BY DEF SessionInit
  <2> QED
    BY <2>1, IdleIsSafe
<1> QED
  BY <1>1, <1>2 DEF SessionInv

\* A goroutine enters the hook.
LEMMA BeginKeeps ==
  ASSUME SessionInv, NEW c \in Callers, NEW needs \in SUBSET Scopes, Begin(c, needs)
  PROVE  SessionInv'
<1> DEFINE h == [Idle EXCEPT !.step = "lookup", !.needs = needs]
<1>1. h \in HookTypes /\ Covers(h) /\ Outlasts(h)
  BY DEF Idle, HookTypes, Covers, Outlasts
<1>2. hook' = [hook EXCEPT ![c] = h]
  BY DEF Begin
<1> QED
  BY <1>1, <1>2, OneMoves DEF Begin, SessionInv, SessionTypeOK

\* The read of the map: a session that is taken covers the operation and has
\* the margin left; otherwise the operation's scopes are asked for.
LEMMA BeforeRequestKeeps ==
  ASSUME SessionInv, NEW c \in Callers, BeforeRequest(c)
  PROVE  SessionInv'
<1>1. hook[c] \in HookTypes /\ hook[c].step = "lookup" /\ ~hook[c].reused
  BY DEF BeforeRequest, SessionInv, SessionTypeOK, HookTypes, Outlasts
<1>2. sessions \in Session \union {NoSession} /\ now \in Nat
  BY DEF SessionInv, SessionTypeOK
<1>3. CASE ~Secured
  <2> DEFINE h == [hook[c] EXCEPT !.step = "ready"]
  <2>1. h \in HookTypes /\ Covers(h) /\ Outlasts(h)
    BY <1>1, <1>3 DEF HookTypes, Covers, Outlasts
  <2>2. hook' = [hook EXCEPT ![c] = h]
    BY <1>3 DEF BeforeRequest
  <2> QED
    BY <1>2, <2>1, <2>2, OneMoves DEF BeforeRequest
<1>4. CASE Secured /\ Serves(sessions, hook[c].needs)
  <2> DEFINE h == [hook[c] EXCEPT !.step = "ready", !.held = sessions, !.reused = TRUE]
  <2>1. sessions \in Session /\ hook[c].needs \subseteq sessions.scopes
    BY <1>2, <1>4 DEF Serves, hasRequiredScopes
  <2>2. sessions.expiresAt \in Nat /\ now + Margin < sessions.expiresAt
    BY <1>2, <1>4, <2>1 DEF Serves, hasTokenExpired, Session
  <2>3. h \in HookTypes /\ h.step = "ready" /\ h.held = sessions /\ h.needs = hook[c].needs
    BY <1>1, <2>1 DEF HookTypes
  <2>4. Covers(h) /\ Outlasts(h)
    BY <2>1, <2>2, <2>3 DEF Covers, Outlasts
  <2>5. hook' = [hook EXCEPT ![c] = h]
    BY <1>4 DEF BeforeRequest
  <2> QED
    BY <1>2, <2>3, <2>4, <2>5, OneMoves DEF BeforeRequest
<1>5. CASE Secured /\ ~Serves(sessions, hook[c].needs)
  <2> DEFINE h == [hook[c] EXCEPT !.step = "token", !.asks = getScopes(hook[c].needs, sessions),
                                  !.due = Due(HTTPTimeout)]
  <2>1. getScopes(hook[c].needs, sessions) \in SUBSET Scopes
        /\ hook[c].needs \subseteq getScopes(hook[c].needs, sessions)
    BY <1>1, <1>2 DEF getScopes, HookTypes, Session
  <2>2. Due(HTTPTimeout) \in Nat
    BY <1>2 DEF Due
  <2>3. h \in HookTypes /\ h.step = "token" /\ ~h.reused /\ h.needs = hook[c].needs
        /\ h.asks = getScopes(hook[c].needs, sessions)
    BY <1>1, <2>1, <2>2 DEF HookTypes
  <2>4. Covers(h) /\ Outlasts(h)
    BY <2>1, <2>3 DEF Covers, Outlasts
  <2>5. hook' = [hook EXCEPT ![c] = h]
    BY <1>5 DEF BeforeRequest
  <2> QED
    BY <1>2, <2>3, <2>4, <2>5, OneMoves DEF BeforeRequest
<1> QED
  BY <1>3, <1>4, <1>5

\* The token covers what was asked for.
LEMMA TokenRequestKeeps ==
  ASSUME SessionInv, NEW c \in Callers, doTokenRequest(c)
  PROVE  SessionInv'
<1>1. hook[c] \in HookTypes /\ hook[c].step = "token" /\ ~hook[c].reused
      /\ hook[c].needs \subseteq hook[c].asks
  BY DEF doTokenRequest, SessionInv, SessionTypeOK, HookTypes, Outlasts, Covers
<1>2. now \in Nat
  BY DEF SessionInv, SessionTypeOK
<1>3. PICK life \in Lifetimes \union {NoExpiry} :
         hook' = [hook EXCEPT
              ![c].step = "store",
              ![c].held = [scopes |-> hook[c].asks,
                           expiresAt |-> IF life = NoExpiry THEN NoExpiry ELSE now + life]]
  BY DEF doTokenRequest
<1> DEFINE s == [scopes |-> hook[c].asks,
                 expiresAt |-> IF life = NoExpiry THEN NoExpiry ELSE now + life]
           h == [hook[c] EXCEPT !.step = "store", !.held = s]
<1>4. s \in Session
  BY <1>1, <1>2 DEF Session, HookTypes
<1>5. h \in HookTypes /\ h.step = "store" /\ ~h.reused /\ h.held = s /\ h.needs = hook[c].needs
  BY <1>1, <1>4 DEF HookTypes
<1>6. Covers(h) /\ Outlasts(h)
  BY <1>1, <1>4, <1>5 DEF Covers, Outlasts
<1>7. hook' = [hook EXCEPT ![c] = h]
  BY <1>3 DEF SessionInv, SessionTypeOK
<1> QED
  BY <1>5, <1>6, <1>7, OneMoves DEF doTokenRequest, SessionInv, SessionTypeOK

\* Whatever others have stored meanwhile, the goroutine goes on with its own.
LEMMA StoreKeeps ==
  ASSUME SessionInv, NEW c \in Callers, StoreSession(c)
  PROVE  SessionInv'
<1> DEFINE h == [hook[c] EXCEPT !.step = "ready"]
<1>1. hook[c] \in HookTypes /\ hook[c].step = "store" /\ ~hook[c].reused
      /\ hook[c].held \in Session /\ hook[c].needs \subseteq hook[c].held.scopes
  BY DEF StoreSession, SessionInv, SessionTypeOK, HookTypes, Outlasts, Covers
<1>2. h \in HookTypes /\ Covers(h) /\ Outlasts(h)
  BY <1>1 DEF HookTypes, Covers, Outlasts
<1>3. hook' = [hook EXCEPT ![c] = h]
  BY DEF StoreSession, SessionInv, SessionTypeOK
<1> QED
  BY <1>1, <1>2, <1>3, OneMoves DEF StoreSession

\* The margin covers the longest exchange.
LEMMA SendKeeps ==
  ASSUME SessionInv, NEW c \in Callers, NEW due \in now .. Due(HTTPTimeout), SendRequest(c, due)
  PROVE  SessionInv'
<1> DEFINE h == [hook[c] EXCEPT !.step = "sent", !.due = due]
<1>1. hook[c] \in HookTypes /\ hook[c].step = "ready" /\ now \in Nat
  BY DEF SendRequest, SessionInv, SessionTypeOK, HookTypes
<1>2. due \in Nat /\ now <= due /\ due <= now + Margin
  BY <1>1 DEF Due
<1>3. h \in HookTypes /\ h.step = "sent" /\ h.due = due /\ h.held = hook[c].held
      /\ h.needs = hook[c].needs /\ h.reused = hook[c].reused
  BY <1>1, <1>2 DEF HookTypes
<1>4. Covers(h)
  BY <1>1, <1>3 DEF SessionInv, Covers
<1>5. Outlasts(h)
  <2>1. CASE hook[c].reused
    <3>1. hook[c].held \in Session /\ hook[c].held.expiresAt \in Nat
          /\ now + Margin < hook[c].held.expiresAt
      BY <1>1, <2>1 DEF SessionInv, Outlasts
    <3> QED
      BY <1>1, <1>2, <1>3, <3>1 DEF Outlasts
  <2>2. CASE ~hook[c].reused
    BY <1>3, <2>2 DEF Outlasts
  <2> QED
    BY <2>1, <2>2
<1>6. hook' = [hook EXCEPT ![c] = h]
  BY DEF SendRequest, SessionInv, SessionTypeOK
<1> QED
  BY <1>3, <1>4, <1>5, <1>6, OneMoves DEF SendRequest, SessionInv, SessionTypeOK

\* The exchange is over, or the hook has failed.
LEMMA EndKeeps ==
  ASSUME SessionInv, NEW c \in Callers,
         FailBeforeRequest(c) \/ \E dropped \in BOOLEAN : AfterExchange(c, dropped)
  PROVE  SessionInv'
<1>1. hook' = [hook EXCEPT ![c] = Idle] /\ now' = now /\ crashed' = crashed
  BY DEF FailBeforeRequest, AfterExchange
<1>2. sessions' \in Session \union {NoSession}
  BY DEF FailBeforeRequest, AfterExchange, SessionInv, SessionTypeOK
<1> QED
  BY <1>1, <1>2, IdleIsSafe, OneMoves

\* Time passes only while every exchange is short of its due time.
LEMMA TickKeeps == SessionInv /\ Tick => SessionInv'
<1> SUFFICES ASSUME SessionInv, Tick PROVE SessionInv'
  OBVIOUS
<1>1. now \in Nat /\ now' = now + 1 /\ hook' = hook
  BY DEF Tick, SessionInv, SessionTypeOK
<1>2. SessionTypeOK'
  BY <1>1 DEF Tick, SessionInv, SessionTypeOK
<1>3. ASSUME NEW c \in Callers PROVE Covers(hook[c])' /\ Outlasts(hook[c])'
  <2>1. Covers(hook[c]) /\ Outlasts(hook[c]) /\ hook[c].due \in Nat
    BY DEF SessionInv, SessionTypeOK
  <2>2. hook[c].step # "ready" /\ (hook[c].step = "sent" => now < hook[c].due)
    BY DEF Tick, Waits
  <2>3. Outlasts(hook[c])'
    BY <1>1, <2>1, <2>2 DEF Outlasts
  <2> QED
    BY <1>1, <2>1, <2>3 DEF Covers
<1> QED
  BY <1>2, <1>3 DEF SessionInv

LEMMA NextSession == SessionInv /\ [SessionNext]_sessionVars => SessionInv'
<1> SUFFICES ASSUME SessionInv, [SessionNext]_sessionVars PROVE SessionInv'
  OBVIOUS
<1>1. CASE UNCHANGED sessionVars
  BY <1>1 DEF sessionVars, SessionInv, SessionTypeOK, Covers, Outlasts
<1>2. ASSUME NEW c \in Callers, MapRace(c) PROVE SessionInv'
  BY <1>2 DEF MapRace, SessionInv, SessionTypeOK, Covers, Outlasts
<1> QED
  BY <1>1, <1>2, BeginKeeps, BeforeRequestKeeps, TokenRequestKeeps, StoreKeeps, SendKeeps, EndKeeps,
     TickKeeps DEF SessionNext

\* The inductive invariant of the shared session: clientcredentials.go.
THEOREM Sessions == SessionSpec => []SessionInv
  BY InitSession, NextSession, PTL DEF SessionSpec

\* A request sent with a stored token is over before the token expires:
\* hasTokenExpired leaves the time of the longest exchange.
THEOREM TokensOutliveRequests == SessionSpec => []ReusedTokenOutlivesRequest
<1>1. SessionInv => ReusedTokenOutlivesRequest
  <2> SUFFICES ASSUME SessionInv, NEW c \in Callers, hook[c].step = "sent", hook[c].reused
               PROVE  hook[c].held.expiresAt # NoExpiry /\ now < hook[c].held.expiresAt
    BY DEF ReusedTokenOutlivesRequest
  <2>1. now \in Nat /\ hook[c].due \in Nat
    BY DEF SessionInv, SessionTypeOK
  <2>2. hook[c].held.expiresAt \in Nat /\ now <= hook[c].due /\ hook[c].due < hook[c].held.expiresAt
    BY DEF SessionInv, Outlasts
  <2> QED
    BY <2>1, <2>2
<1> QED
  BY <1>1, Sessions, PTL

\* No request leaves with a token of fewer scopes than its operation needs,
\* in whatever order the goroutines overwrite the session.
THEOREM TokensCoverRequests == SessionSpec => []TokenCoversRequest
<1>1. SessionInv => TokenCoversRequest
  BY DEF SessionInv, Covers, TokenCoversRequest
<1> QED
  BY <1>1, Sessions, PTL

-----------------------------------------------------------------------------
(* The calls.  The hooks of a call take the steps of ClientSession; the      *)
(* invariant follows each attempt through them, by its time and by the       *)
(* effects that its requests have had or may still have.                     *)

Bodies ==
    ErrorCodes \union {"CONFLICT", "REQUEST_TOO_LARGE", "data", "empty", "other"}

Answers == [status : Nat, body : Bodies]

\* What a method relies on of its route: what says that the operation was done
\* has a status of success, and what refuses a write has none; no success is
\* returned blank.
Understood(d) ==
    /\ d.ok \intersect d.blank = {}
    /\ \A a \in NewRouter[d.name].does : a.status \in d.ok
    /\ IsWrite(d) => \A a \in Refusals(d) : a.status \notin d.ok

MethodTypes ==
    [name : Operations, scopes : {Reads, Writes}, keyed : BOOLEAN, body : BOOLEAN,
     ok : SUBSET Nat, blank : SUBSET Nat, typed : BOOLEAN]

Methods == {d \in MethodTypes : Understood(d)}

CallTypes ==
    [operation : Methods \union {NoOperation}, key : Keys \union {NoKey},
     retries : RetryConfigs \union {NoRetries}, deadline : Nat \union {NoTimeout},
     started : Nat, attempt : Nat, wake : Nat, step : {"idle", "attempt", "backoff", "done"},
     answer : Answers \union {NoAnswer},
     result : {"none", "error", "ok", "blank", "SDKError", "ErrorResponse", "undecodable"}]

Messages == [caller : Callers, attempt : Nat \ {0}, key : Keys \union {NoKey}]

BacksOff(r) == r.retries # NoRetries /\ r.retries.backoff

\* The configuration of the call, if it backs off, limits the time of retries.
Timed(r) == BacksOff(r) => MaxElapsed # 0

\* The time by which the last attempt of such a call begins.
LastAttempt(r) == r.started + (IF BacksOff(r) THEN MaxElapsed ELSE 0)

\* Where a call r is, with its hook h, at instant t, after n effects.
StepOK(r, h) ==
    /\ r.step = "attempt" <=> h.step # "idle"
    /\ r.step # "idle" => r.operation \in Methods
    /\ r.step \in {"attempt", "backoff"} => r.attempt > 0 /\ r.result = "none"
    /\ r.step = "idle" => r.attempt = 0 /\ r.answer = NoAnswer /\ r.result = "none"
    /\ r.step = "backoff" =>
         /\ BacksOff(r)
         /\ r.answer # NoAnswer => r.answer.status \in RetryCodes

ResultOK(r) ==
    /\ r.result = "ok" => r.answer # NoAnswer /\ r.answer.status \in r.operation.ok
    /\ r.step = "done" /\ r.answer # NoAnswer => r.result = Decode(r.operation, r.answer)

TimeOK(r, h, t) ==
    /\ r.step = "backoff" => t <= r.wake
    /\ h.step \in {"token", "sent"} => t <= h.due
    /\ Timed(r) =>
         /\ r.step = "backoff" => r.wake <= r.started + MaxElapsed
         /\ h.step = "lookup" => t <= LastAttempt(r)
         /\ h.step = "token" => h.due <= LastAttempt(r) + HTTPTimeout
         /\ h.step \in {"store", "ready"} => t <= LastAttempt(r) + HTTPTimeout
         /\ h.step = "sent" => h.due <= LastAttempt(r) + 2 * HTTPTimeout

\* The request of the only attempt of a call has at most one effect, after it
\* was sent.
EffectOK(r, h, n) ==
    /\ r.step = "idle" => n = 0
    /\ r.attempt > 1 => BacksOff(r)
    /\ r.attempt <= 1 => n <= 1 /\ (n = 1 => h.step \in {"idle", "sent"})

CallOK(r, h, t, n) ==
    r \in CallTypes /\ StepOK(r, h) /\ ResultOK(r) /\ TimeOK(r, h, t) /\ EffectOK(r, h, n)

\* A request on its way is of an attempt that the call has made, carries its
\* key, and is awaited no longer than the time limit of the operation.
WireOK(m, r, h, n) ==
    /\ m \in Messages
    /\ m.key = r.key
    /\ m.attempt <= r.attempt
    /\ r.step # "idle"
    /\ m.attempt = r.attempt => h.step \in {"idle", "sent"}
    /\ m.attempt = r.attempt /\ h.step = "sent" /\ r.deadline # NoTimeout => h.due <= r.deadline
    /\ r.attempt <= 1 => n = 0

\* A success of a write stands for an effect, of the call or of its key.
AckOK(r, n, done) ==
    r.answer # NoAnswer /\ IsWrite(r.operation) /\ r.answer.status \in r.operation.ok =>
        n > 0 \/ <<r.key, r.operation.name>> \in done

CallsInv ==
    /\ call \in [Callers -> CallTypes]
    /\ effects \in [Callers -> Nat]
    /\ executed \subseteq Keys \X Operations
    /\ \A c \in Callers : /\ CallOK(call[c], hook[c], now, effects[c])
                          /\ AckOK(call[c], effects[c], executed)

WireInv == \A m \in wire : WireOK(m, call[m.caller], hook[m.caller], effects[m.caller])

\* The effects of the calls of a key are those that the ledger remembers.
KeyInv ==
    /\ \A c \in Callers : call[c].key # NoKey /\ effects[c] > 0 =>
         effects[c] = 1 /\ \E e \in executed : e[1] = call[c].key
    /\ \A c, d \in Callers :
         call[c].key # NoKey /\ c # d /\ call[d].key = call[c].key =>
             effects[c] = 0 \/ effects[d] = 0

\* The inductive invariant.
Inv == SessionInv /\ CallsInv /\ WireInv /\ KeyInv
-----------------------------------------------------------------------------
(* The methods.                                                             *)

LEMMA RouteOfName ==
    /\ Operations = {"GetServerInfo", "GetTransactions", "ListWallets", "CreateWallet", "GetWallet",
                     "UpdateWallet", "GetWalletSummary", "ListBalances", "CreateBalance",
                     "GetBalance", "DebitWallet", "CreditWallet", "GetHolds", "GetHold",
                     "ConfirmHold", "VoidHold"}
    /\ \A n \in {"GetTransactions", "ListWallets", "ListBalances", "GetHolds"} :
         NewRouter[n] = listHandler
    /\ \A n \in {"GetWallet", "GetBalance", "GetHold"} : NewRouter[n] = getWalletHandler
    /\ NewRouter["GetServerInfo"] = InfoHandler
    /\ NewRouter["GetWalletSummary"] = walletSummaryHandler
    /\ NewRouter["CreateWallet"] = createWalletHandler
    /\ NewRouter["UpdateWallet"] = patchWalletHandler
    /\ NewRouter["CreateBalance"] = createBalanceHandler
    /\ NewRouter["DebitWallet"] = debitWalletHandler
    /\ NewRouter["CreditWallet"] = creditWalletHandler
    /\ NewRouter["ConfirmHold"] = confirmHoldHandler
    /\ NewRouter["VoidHold"] = voidHoldHandler
BY DEF Operations, NewRouter, listTransactions, listWalletsHandler, listBalancesHandler,
       listHoldsHandler, getWalletHandler, getBalanceHandler, getHoldHandler

\* The statuses with which a handler grants and refuses an operation.
LEMMA Granted ==
    /\ \A n \in {"GetTransactions", "ListWallets", "ListBalances", "GetHolds", "GetWallet",
                 "GetBalance", "GetHold", "GetServerInfo", "GetWalletSummary"} :
         \A a \in NewRouter[n].does : a.status = 200
    /\ \A n \in {"CreateWallet", "CreateBalance"} : \A a \in NewRouter[n].does : a.status = 201
    /\ \A n \in {"DebitWallet"} : \A a \in NewRouter[n].does : a.status \in {201, 204}
    /\ \A n \in {"UpdateWallet", "CreditWallet", "ConfirmHold", "VoidHold"} :
         \A a \in NewRouter[n].does : a.status = 204
<1>1. /\ \A a \in listHandler.does : a.status = 200
      /\ \A a \in getWalletHandler.does : a.status = 200
      /\ \A a \in InfoHandler.does : a.status = 200
      /\ \A a \in walletSummaryHandler.does : a.status = 200
  BY DEF listHandler, getWalletHandler, InfoHandler, walletSummaryHandler, Handler, ok, Cursor, Answer
<1>2. /\ \A a \in createWalletHandler.does : a.status = 201
      /\ \A a \in createBalanceHandler.does : a.status = 201
      /\ \A a \in debitWalletHandler.does : a.status \in {201, 204}
  BY DEF createWalletHandler, createBalanceHandler, debitWalletHandler, Handler, created, noContent,
         Answer
<1>3. /\ \A a \in patchWalletHandler.does : a.status = 204
      /\ \A a \in creditWalletHandler.does : a.status = 204
      /\ \A a \in confirmHoldHandler.does : a.status = 204
      /\ \A a \in voidHoldHandler.does : a.status = 204
  BY DEF patchWalletHandler, creditWalletHandler, confirmHoldHandler, voidHoldHandler, Handler,
         noContent, Answer
<1> QED
  BY <1>1, <1>2, <1>3, RouteOfName

LEMMA Refused ==
    \A n \in {"CreateWallet", "CreateBalance", "DebitWallet", "UpdateWallet", "CreditWallet",
              "ConfirmHold", "VoidHold"} :
        \A a \in NewRouter[n].refuses : a.status \notin {201, 204}
<1>1. /\ \A a \in createWalletHandler.refuses : a.status \notin {201, 204}
      /\ \A a \in createBalanceHandler.refuses : a.status \notin {201, 204}
      /\ \A a \in debitWalletHandler.refuses : a.status \notin {201, 204}
      /\ \A a \in patchWalletHandler.refuses : a.status \notin {201, 204}
  BY DEF createWalletHandler, createBalanceHandler, debitWalletHandler, patchWalletHandler, Handler,
         badRequest, conflict, notFound, Answer
<1>2. /\ \A a \in creditWalletHandler.refuses : a.status \notin {201, 204}
      /\ \A a \in confirmHoldHandler.refuses : a.status \notin {201, 204}
      /\ \A a \in voidHoldHandler.refuses : a.status \notin {201, 204}
  BY DEF creditWalletHandler, confirmHoldHandler, voidHoldHandler, Handler, badRequest, notFound,
         Answer
<1> QED
  BY <1>1, <1>2, RouteOfName

\* Every answer is one.
LEMMA AnswerType ==
    ASSUME NEW n \in Operations
    PROVE  NewRouter[n].does \subseteq Answers /\ NewRouter[n].refuses \subseteq Answers
<1> USE DEF Answers, Handler, ok, Cursor, created, noContent, badRequest, conflict, notFound, Answer,
            Bodies, ErrorCodes
<1>1. listHandler.does \subseteq Answers /\ listHandler.refuses \subseteq Answers
  BY DEF listHandler
<1>2. getWalletHandler.does \subseteq Answers /\ getWalletHandler.refuses \subseteq Answers
  BY DEF getWalletHandler
<1>3. InfoHandler.does \subseteq Answers /\ InfoHandler.refuses \subseteq Answers
  BY DEF InfoHandler
<1>4. walletSummaryHandler.does \subseteq Answers /\ walletSummaryHandler.refuses \subseteq Answers
  BY DEF walletSummaryHandler
<1>5. createWalletHandler.does \subseteq Answers /\ createWalletHandler.refuses \subseteq Answers
  BY DEF createWalletHandler
<1>6. createBalanceHandler.does \subseteq Answers /\ createBalanceHandler.refuses \subseteq Answers
  BY DEF createBalanceHandler
<1>7. debitWalletHandler.does \subseteq Answers /\ debitWalletHandler.refuses \subseteq Answers
  BY DEF debitWalletHandler
<1>8. patchWalletHandler.does \subseteq Answers /\ patchWalletHandler.refuses \subseteq Answers
  BY DEF patchWalletHandler
<1>9. creditWalletHandler.does \subseteq Answers /\ creditWalletHandler.refuses \subseteq Answers
  BY DEF creditWalletHandler
<1>10. confirmHoldHandler.does \subseteq Answers /\ confirmHoldHandler.refuses \subseteq Answers
  BY DEF confirmHoldHandler
<1>11. voidHoldHandler.does \subseteq Answers /\ voidHoldHandler.refuses \subseteq Answers
  BY DEF voidHoldHandler
<1> HIDE DEF Answers, Handler, ok, Cursor, created, noContent, badRequest, conflict, notFound, Answer,
             Bodies, ErrorCodes
<1> QED
  BY <1>1, <1>2, <1>3, <1>4, <1>5, <1>6, <1>7, <1>8, <1>9, <1>10, <1>11, RouteOfName

\* What stands around a handler refuses with these, and answers with these.
LEMMA AroundHandlers ==
    /\ \A a \in limitRequestBody \union {internalError} \union {Unauthorized} \union Gateway :
         a \in Answers /\ a.status \notin {201, 204}
BY DEF limitRequestBody, internalError, Unauthorized, Gateway, badRequest, Answer, Answers, Bodies,
       ErrorCodes

LEMMA RefusalsType ==
    ASSUME NEW d, d.name \in Operations
    PROVE  /\ Refusals(d) \union Successes(d) \subseteq Answers
           /\ \A a \in Refusals(d) : a \in NewRouter[d.name].refuses \/ a.status \notin {201, 204}
BY AnswerType, AroundHandlers DEF Refusals, Successes

\* The methods that read.
LEMMA GetMethods ==
    ASSUME NEW n \in {"GetTransactions", "ListWallets", "ListBalances", "GetHolds", "GetWallet",
                      "GetBalance", "GetHold", "GetServerInfo", "GetWalletSummary"}
    PROVE  /\ Get(n) \in Methods
           /\ [Get(n) EXCEPT !.blank = {404}] \in Methods
           /\ [Get(n) EXCEPT !.typed = FALSE] \in Methods
<1>1. n \in Operations
  BY RouteOfName
<1>2. Reads # Writes
  BY DEF Reads, Writes
<1>3. \A a \in NewRouter[n].does : a.status = 200
  BY Granted
<1>4. ASSUME NEW d, d.name = n, d.ok = {200}, d.blank = {} \/ d.blank = {404}, d.scopes = Reads
      PROVE  Understood(d)
  BY <1>2, <1>3, <1>4 DEF Understood, IsWrite
<1>5. Understood(Get(n)) /\ Understood([Get(n) EXCEPT !.blank = {404}])
                         /\ Understood([Get(n) EXCEPT !.typed = FALSE])
  BY <1>4 DEF Get
<1>6. {200} \in SUBSET Nat /\ {404} \in SUBSET Nat /\ {} \in SUBSET Nat
  OBVIOUS
<1>7. Get(n) \in MethodTypes
  BY <1>1, <1>6 DEF Get, MethodTypes
<1>8. [Get(n) EXCEPT !.blank = {404}] \in MethodTypes
  BY <1>6, <1>7 DEF MethodTypes
<1>9. [Get(n) EXCEPT !.typed = FALSE] \in MethodTypes
  BY <1>7 DEF MethodTypes
<1> QED
  BY <1>5, <1>7, <1>8, <1>9 DEF Methods

\* The methods that write.
LEMMA WriteMethods ==
    ASSUME NEW n \in Operations, NEW statuses, \A s \in statuses : s \in {201, 204},
           \A a \in NewRouter[n].does : a.status \in statuses,
           \A a \in NewRouter[n].refuses : a.status \notin {201, 204}
    PROVE  /\ Write(n, statuses) \in Methods
           /\ [Write(n, statuses) EXCEPT !.body = FALSE] \in Methods
<1>1. ASSUME NEW d, d.name = n, d.ok = statuses, d.blank = {} PROVE Understood(d)
  <2>1. \A a \in Refusals(d) : a.status \notin {201, 204}
    BY <1>1, RefusalsType
  <2>2. \A a \in Refusals(d) : a.status \notin statuses
    BY <2>1
  <2> QED
    BY <1>1, <2>2 DEF Understood
<1>2. Understood(Write(n, statuses)) /\ Understood([Write(n, statuses) EXCEPT !.body = FALSE])
  BY <1>1 DEF Write
<1>3. statuses \in SUBSET Nat /\ {} \in SUBSET Nat
  OBVIOUS
<1>4. Write(n, statuses) \in MethodTypes
  BY <1>3 DEF Write, MethodTypes
<1>5. [Write(n, statuses) EXCEPT !.body = FALSE] \in MethodTypes
  BY <1>3 DEF Write, MethodTypes
<1> QED
  BY <1>2, <1>4, <1>5 DEF Methods

\* Each method of V1 is one of a route that it understands.
LEMMA V1Methods ==
    ASSUME NEW c \in Callers, V1(c)
    PROVE  \E d \in Methods : V1Call(c, d)
<1>1. CASE \/ GetServerInfo(c) \/ GetTransactions(c) \/ ListWallets(c) \/ GetWallet(c)
           \/ GetWalletSummary(c) \/ ListBalances(c) \/ GetBalance(c) \/ GetHolds(c) \/ GetHold(c)
  BY <1>1, GetMethods DEF GetServerInfo, GetTransactions, ListWallets, GetWallet, GetWalletSummary,
     ListBalances, GetBalance, GetHolds, GetHold
<1>2. ASSUME NEW n \in {"CreateWallet", "CreateBalance"}
      PROVE  /\ Write(n, {201}) \in Methods
             /\ [Write(n, {201}) EXCEPT !.body = FALSE] \in Methods
  <2> DEFINE statuses == {201}
  <2>1. n \in Operations /\ \A s \in statuses : s \in {201, 204}
    BY RouteOfName
  <2>2. \A a \in NewRouter[n].does : a.status \in statuses
    BY Granted
  <2>3. \A a \in NewRouter[n].refuses : a.status \notin {201, 204}
    BY Refused
  <2> HIDE DEF statuses
  <2>4. Write(n, statuses) \in Methods /\ [Write(n, statuses) EXCEPT !.body = FALSE] \in Methods
    BY <2>1, <2>2, <2>3, WriteMethods
  <2> QED
    BY <2>4 DEF statuses
<1>3. ASSUME NEW n \in {"DebitWallet"}
      PROVE  /\ Write(n, {201, 204}) \in Methods
             /\ [Write(n, {201, 204}) EXCEPT !.body = FALSE] \in Methods
  <2> DEFINE statuses == {201, 204}
  <2>1. n \in Operations /\ \A s \in statuses : s \in {201, 204}
    BY RouteOfName
  <2>2. \A a \in NewRouter[n].does : a.status \in statuses
    BY Granted
  <2>3. \A a \in NewRouter[n].refuses : a.status \notin {201, 204}
    BY Refused
  <2> HIDE DEF statuses
  <2>4. Write(n, statuses) \in Methods /\ [Write(n, statuses) EXCEPT !.body = FALSE] \in Methods
    BY <2>1, <2>2, <2>3, WriteMethods
  <2> QED
    BY <2>4 DEF statuses
<1>4. ASSUME NEW n \in {"UpdateWallet", "CreditWallet", "ConfirmHold", "VoidHold"}
      PROVE  /\ Write(n, {204}) \in Methods
             /\ [Write(n, {204}) EXCEPT !.body = FALSE] \in Methods
  <2> DEFINE statuses == {204}
  <2>1. n \in Operations /\ \A s \in statuses : s \in {201, 204}
    BY RouteOfName
  <2>2. \A a \in NewRouter[n].does : a.status \in statuses
    BY Granted
  <2>3. \A a \in NewRouter[n].refuses : a.status \notin {201, 204}
    BY Refused
  <2> HIDE DEF statuses
  <2>4. Write(n, statuses) \in Methods /\ [Write(n, statuses) EXCEPT !.body = FALSE] \in Methods
    BY <2>1, <2>2, <2>3, WriteMethods
  <2> QED
    BY <2>4 DEF statuses
<1>5. CASE \/ CreateWallet(c) \/ UpdateWallet(c) \/ CreateBalance(c) \/ DebitWallet(c)
           \/ CreditWallet(c) \/ ConfirmHold(c) \/ VoidHold(c)
  BY <1>2, <1>3, <1>4, <1>5 DEF CreateWallet, UpdateWallet, CreateBalance, DebitWallet, CreditWallet,
     ConfirmHold, VoidHold
<1> QED
  BY <1>1, <1>5 DEF V1

-----------------------------------------------------------------------------
(* The session.                                                             *)

LEMMA CallFacts ==
    ASSUME Inv, NEW c \in Callers
    PROVE  /\ call[c] \in CallTypes
           /\ StepOK(call[c], hook[c]) /\ ResultOK(call[c]) /\ TimeOK(call[c], hook[c], now)
           /\ EffectOK(call[c], hook[c], effects[c])
           /\ AckOK(call[c], effects[c], executed)
           /\ hook[c] \in HookTypes
           /\ effects[c] \in Nat
           /\ now \in Nat
BY DEF Inv, CallsInv, CallOK, SessionInv, SessionTypeOK, HookTypes

LEMMA MethodFacts ==
    ASSUME NEW d \in Methods
    PROVE  d.scopes \in SUBSET Scopes /\ d.name \in Operations /\ Understood(d)
BY CallsAssumption DEF Methods, MethodTypes, Reads, Writes

\* The request of an attempt is over within the timeout of the http client.
LEMMA DoSends ==
    ASSUME Inv, NEW c \in Callers, Do(c)
    PROVE  \E due \in now .. Due(HTTPTimeout) :
              /\ SendRequest(c, due)
              /\ \/ UNCHANGED wire
                 \/ /\ wire' = wire \union {Message(c)}
                    /\ call[c].deadline # NoTimeout => due <= call[c].deadline
<1>1. now \in Nat /\ call[c].deadline \in Nat \union {NoTimeout} /\ HTTPTimeout \in Nat
  BY CallFacts, MarginAssumption DEF CallTypes
<1>2. CASE Expired(c)
  BY <1>1, <1>2 DEF Do, Due
<1>3. CASE ~Expired(c) /\ call[c].deadline # NoTimeout /\ call[c].deadline < Due(HTTPTimeout)
  BY <1>1, <1>3 DEF Do, Due, Expired
<1>4. CASE ~Expired(c) /\ ~(call[c].deadline # NoTimeout /\ call[c].deadline < Due(HTTPTimeout))
  BY <1>1, <1>4 DEF Do, Due
<1> QED
  BY <1>2, <1>3, <1>4

\* A method takes the steps of the session.
LEMMA V1Session ==
    ASSUME Inv, NEW c \in Callers, NEW d \in Methods, V1Call(c, d)
    PROVE  SessionNext \/ UNCHANGED sessionVars
<1>1. CASE Request(c, d)
  BY <1>1, MethodFacts DEF Request, SessionNext
<1>2. CASE FailRequest(c, d)
  BY <1>2 DEF FailRequest
<1>3. CASE Denied(c)
  BY <1>3 DEF Denied, SessionNext
<1>4. CASE Do(c)
  BY <1>4, DoSends DEF SessionNext
<1>5. CASE Answered(c, d)
  <2>1. PICK dropped \in BOOLEAN : AfterExchange(c, dropped)
    BY <1>5 DEF Answered
  <2> QED
    BY <2>1 DEF SessionNext
<1>6. CASE Lost(c)
  BY <1>6 DEF Lost, SessionNext
<1>7. CASE Resume(c, d)
  BY <1>7, MethodFacts DEF Resume, SessionNext
<1> QED
  BY <1>1, <1>2, <1>3, <1>4, <1>5, <1>6, <1>7 DEF V1Call

\* Every step of the client is one of the session, or leaves it alone.
LEMMA SessionStep == Inv /\ [Next]_vars => [SessionNext]_sessionVars
<1> SUFFICES ASSUME Inv, [Next]_vars PROVE SessionNext \/ UNCHANGED sessionVars
  OBVIOUS
<1>1. ASSUME NEW c \in Callers, V1(c) PROVE SessionNext \/ UNCHANGED sessionVars
  BY <1>1, V1Methods, V1Session
<1>2. ASSUME NEW c \in Callers, Hook(c) \/ Crash(c) PROVE SessionNext
  BY <1>2 DEF Hook, Crash, SessionNext
<1>3. ASSUME NEW m \in wire, Refuse(m) \/ Execute(m) PROVE UNCHANGED sessionVars
  BY <1>3 DEF Refuse, Execute
<1>4. CASE Wait
  BY <1>4 DEF Wait, SessionNext
<1>5. CASE UNCHANGED vars
  BY <1>5 DEF vars, sessionVars
<1> QED
  BY <1>1, <1>2, <1>3, <1>4, <1>5 DEF Next

LEMMA SessionKept == Inv /\ [Next]_vars => SessionInv'
BY SessionStep, NextSession DEF Inv

-----------------------------------------------------------------------------
(* The goroutines.                                                          *)

\* One goroutine moves, and time and the service do not.
LEMMA LocalStep ==
    ASSUME Inv, SessionInv', NEW c \in Callers, NEW r \in CallTypes, NEW h,
           UNCHANGED <<now, effects, executed>>,
           call' = [call EXCEPT ![c] = r],
           hook' = [hook EXCEPT ![c] = h],
           StepOK(r, h), ResultOK(r), TimeOK(r, h, now), EffectOK(r, h, effects[c]),
           AckOK(r, effects[c], executed),
           r.key = call[c].key \/ effects[c] = 0,
           \A m \in wire' : m \in wire \/ m.caller = c,
           \A m \in wire' : m.caller = c => WireOK(m, r, h, effects[c])
    PROVE  Inv'
<1>1. /\ call \in [Callers -> CallTypes] /\ effects \in [Callers -> Nat]
      /\ hook \in [Callers -> HookTypes]
  BY DEF Inv, CallsInv, SessionInv, SessionTypeOK, HookTypes
<1>2. /\ call' \in [Callers -> CallTypes]
      /\ call'[c] = r /\ hook'[c] = h
      /\ \A d \in Callers \ {c} : call'[d] = call[d] /\ hook'[d] = hook[d]
  BY <1>1
<1>3. CallsInv'
  <2>1. ASSUME NEW d \in Callers
        PROVE  /\ CallOK(call'[d], hook'[d], now', effects'[d])
               /\ AckOK(call'[d], effects'[d], executed')
    <3>1. CASE d = c
      BY <1>2, <3>1 DEF CallOK
    <3>2. CASE d # c
      <4>1. /\ CallOK(call[d], hook[d], now, effects[d]) /\ AckOK(call[d], effects[d], executed)
            /\ call'[d] = call[d] /\ hook'[d] = hook[d]
        BY <1>2, <3>2 DEF Inv, CallsInv
      <4> QED
        BY <4>1
    <3> QED
      BY <3>1, <3>2
  <2> QED
    BY <1>1, <1>2, <2>1 DEF Inv, CallsInv
<1>4. WireInv'
  <2> SUFFICES ASSUME NEW m \in wire'
               PROVE  WireOK(m, call'[m.caller], hook'[m.caller], effects'[m.caller])
    BY DEF WireInv
  <2>1. CASE m.caller = c
    BY <1>2, <2>1
  <2>2. CASE m.caller # c
    <3>1. m \in wire /\ WireOK(m, call[m.caller], hook[m.caller], effects[m.caller])
      BY <2>2 DEF Inv, WireInv
    <3>2. m.caller \in Callers
      BY <3>1 DEF WireOK, Messages
    <3> QED
      BY <1>2, <2>2, <3>1, <3>2
  <2> QED
    BY <2>1, <2>2
<1>5. KeyInv'
  <2>1. \A d \in Callers : effects'[d] = effects[d] /\ (call'[d].key = call[d].key \/ effects[d] = 0)
    BY <1>2
  <2> QED
    BY <1>1, <2>1 DEF Inv, KeyInv
<1> QED
  BY <1>3, <1>4, <1>5 DEF Inv

-----------------------------------------------------------------------------
(* The steps.                                                               *)

LEMMA InitInv == Init => Inv
<1> SUFFICES ASSUME Init PROVE Inv
  OBVIOUS
<1>1. SessionInv
  BY InitSession DEF Init
<1>2. NotCalled \in CallTypes
  BY CallsAssumption DEF NotCalled, CallTypes
<1>3. ASSUME NEW c \in Callers
      PROVE  /\ CallOK(call[c], hook[c], now, effects[c])
             /\ AckOK(call[c], effects[c], executed)
  <2>1. call[c] = NotCalled /\ hook[c] = Idle /\ effects[c] = 0
    BY DEF Init, SessionInit
  <2>2. /\ NotCalled.step = "idle" /\ NotCalled.attempt = 0 /\ NotCalled.answer = NoAnswer
        /\ NotCalled.result = "none" /\ Idle.step = "idle"
    BY DEF NotCalled, Idle
  <2> QED
    BY <1>2, <2>1, <2>2 DEF CallOK, StepOK, ResultOK, TimeOK, EffectOK, AckOK
<1>4. CallsInv
  BY <1>2, <1>3 DEF Init, CallsInv
<1>5. WireInv /\ KeyInv
  BY DEF Init, WireInv, KeyInv
<1> QED
  BY <1>1, <1>4, <1>5 DEF Inv

LEMMA RequestInv ==
    ASSUME Inv, SessionInv', NEW c \in Callers, NEW d \in Methods, Request(c, d)
    PROVE  Inv'
<1>1. PICK key \in IF d.keyed THEN Keys \union {NoKey} ELSE {NoKey},
           option \in RetryOptions, limit \in TimeLimits :
         call' = [call EXCEPT ![c] = [NotCalled EXCEPT
              !.operation = d, !.key = key, !.started = now, !.attempt = 1,
              !.retries = IF option = Unset THEN GlobalRetries ELSE option,
              !.deadline = IF limit = NoTimeout THEN NoTimeout ELSE now + limit,
              !.step = "attempt"]]
  BY DEF Request
<1> DEFINE retries == IF option = Unset THEN GlobalRetries ELSE option
           deadline == IF limit = NoTimeout THEN NoTimeout ELSE now + limit
           r == [NotCalled EXCEPT
              !.operation = d, !.key = key, !.started = now, !.attempt = 1, !.retries = retries,
              !.deadline = deadline, !.step = "attempt"]
           h == [Idle EXCEPT !.step = "lookup", !.needs = d.scopes]
<1>2. /\ key \in Keys \union {NoKey}
      /\ retries \in RetryConfigs \union {NoRetries}
      /\ deadline \in Nat \union {NoTimeout}
      /\ now \in Nat
  BY CallFacts, CallsAssumption
<1>3. /\ call' = [call EXCEPT ![c] = r] /\ hook' = [hook EXCEPT ![c] = h]
      /\ UNCHANGED <<now, effects, executed, wire>>
      /\ call[c].step = "idle"
  BY <1>1 DEF Request, Begin
<1> HIDE DEF retries, deadline
<1>4. /\ r \in CallTypes /\ r.step = "attempt" /\ r.attempt = 1 /\ r.started = now
      /\ r.answer = NoAnswer /\ r.result = "none" /\ r.operation = d
  BY <1>2, CallsAssumption DEF NotCalled, CallTypes
<1>5. h.step = "lookup"
  BY DEF Idle
<1> HIDE DEF r, h
<1>6. effects[c] = 0
  BY <1>3, CallFacts DEF EffectOK
<1>7. StepOK(r, h) /\ ResultOK(r) /\ EffectOK(r, h, effects[c]) /\ AckOK(r, effects[c], executed)
  BY <1>4, <1>5, <1>6 DEF StepOK, ResultOK, EffectOK, AckOK
<1>8. TimeOK(r, h, now)
  BY <1>2, <1>4, <1>5, CallsAssumption DEF TimeOK, LastAttempt
<1>9. \A m \in wire : m.caller # c
  BY <1>3 DEF Inv, WireInv, WireOK
<1> QED
  BY <1>3, <1>4, <1>6, <1>7, <1>8, <1>9, LocalStep

LEMMA FailRequestInv ==
    ASSUME Inv, SessionInv', NEW c \in Callers, NEW d \in Methods, FailRequest(c, d)
    PROVE  Inv'
<1> DEFINE r == [call[c] EXCEPT !.operation = d, !.step = "done", !.result = "error"]
<1>1. /\ call[c] \in CallTypes /\ call[c].step = "idle" /\ call[c].attempt = 0
      /\ call[c].answer = NoAnswer /\ effects[c] = 0 /\ hook[c].step = "idle"
      /\ hook[c] \in HookTypes
  BY CallFacts DEF FailRequest, StepOK, EffectOK
<1>2. /\ r \in CallTypes /\ r.step = "done" /\ r.attempt = 0 /\ r.answer = NoAnswer
      /\ r.result = "error" /\ r.operation = d /\ r.key = call[c].key
  BY <1>1 DEF CallTypes
<1>3. /\ call \in [Callers -> CallTypes] /\ hook \in [Callers -> HookTypes]
  BY DEF Inv, CallsInv, SessionInv, SessionTypeOK, HookTypes
<1>4. /\ call' = [call EXCEPT ![c] = r] /\ hook' = [hook EXCEPT ![c] = hook[c]]
      /\ UNCHANGED <<now, effects, executed, wire>>
  BY <1>3 DEF FailRequest, sessionVars
<1> HIDE DEF r
<1>5. StepOK(r, hook[c]) /\ ResultOK(r) /\ TimeOK(r, hook[c], now)
  BY <1>1, <1>2 DEF StepOK, ResultOK, TimeOK
<1>6. EffectOK(r, hook[c], effects[c]) /\ AckOK(r, effects[c], executed)
  BY <1>1, <1>2 DEF EffectOK, AckOK
<1>7. \A m \in wire : m.caller # c
  BY <1>1 DEF Inv, WireInv, WireOK
<1> QED
  BY <1>2, <1>4, <1>5, <1>6, <1>7, LocalStep

\* The end of a call: the goroutine is out of the hooks, and what is still on
\* its way is awaited no more.
LEMMA ReturnsInv ==
    ASSUME Inv, SessionInv', NEW c \in Callers, call[c].step \in {"attempt", "backoff"},
           NEW answer \in Answers \union {NoAnswer},
           NEW result \in {"error", "ok", "blank", "SDKError", "ErrorResponse", "undecodable"},
           Returns(c, answer, result),
           NEW h, h.step = "idle", hook' = [hook EXCEPT ![c] = h],
           UNCHANGED <<now, effects, executed, wire>>,
           answer = NoAnswer => result = "error",
           answer # NoAnswer =>
             /\ answer = call[c].answer
             /\ result = Decode(call[c].operation, answer)
    PROVE  Inv'
<1> DEFINE r == [call[c] EXCEPT !.step = "done", !.answer = answer, !.result = result]
<1>1. /\ call[c] \in CallTypes /\ StepOK(call[c], hook[c])
      /\ EffectOK(call[c], hook[c], effects[c]) /\ AckOK(call[c], effects[c], executed)
      /\ call \in [Callers -> CallTypes]
      /\ effects[c] \in Nat
  BY CallFacts DEF Inv, CallsInv
<1>2. /\ r \in CallTypes /\ r.step = "done" /\ r.answer = answer /\ r.result = result
      /\ r.attempt = call[c].attempt /\ r.operation = call[c].operation /\ r.key = call[c].key
      /\ r.retries = call[c].retries
  BY <1>1 DEF CallTypes
<1>3. call' = [call EXCEPT ![c] = r]
  BY <1>1 DEF Returns
<1> HIDE DEF r
<1>4. answer # NoAnswer /\ result = "ok" => answer.status \in call[c].operation.ok
  BY DEF Decode
<1>5. StepOK(r, h) /\ ResultOK(r) /\ TimeOK(r, h, now)
  BY <1>1, <1>2, <1>4 DEF StepOK, ResultOK, TimeOK
<1>6. EffectOK(r, h, effects[c])
  BY <1>1, <1>2 DEF EffectOK, BacksOff
<1>7. AckOK(r, effects[c], executed)
  BY <1>1, <1>2 DEF AckOK
<1>8. \A m \in wire : m.caller = c => WireOK(m, r, h, effects[c])
  <2> SUFFICES ASSUME NEW m \in wire, m.caller = c PROVE WireOK(m, r, h, effects[c])
    OBVIOUS
  <2>1. WireOK(m, call[c], hook[c], effects[c])
    BY DEF Inv, WireInv
  <2> QED
    BY <1>2, <2>1 DEF WireOK
<1> QED
  BY <1>2, <1>3, <1>5, <1>6, <1>7, <1>8, LocalStep

LEMMA IdleStep == Idle.step = "idle"
BY DEF Idle

\* A goroutine that sleeps between two attempts wakes up in time for another.
LEMMA SleepInv ==
    ASSUME Inv, SessionInv', NEW c \in Callers, call[c].step = "attempt", Retrying(c),
           NEW answer \in Answers \union {NoAnswer}, NEW wait \in Intervals,
           MaxElapsed # 0 => now + wait <= call[c].started + MaxElapsed,
           call' = [call EXCEPT ![c].step = "backoff", ![c].answer = answer, ![c].wake = now + wait],
           hook' = [hook EXCEPT ![c] = Idle],
           UNCHANGED <<now, effects, executed, wire>>,
           answer # NoAnswer => answer = call[c].answer /\ answer.status \in RetryCodes
    PROVE  Inv'
<1> DEFINE wake == now + wait
           r == [call[c] EXCEPT !.step = "backoff", !.answer = answer, !.wake = wake]
<1>1. /\ call[c] \in CallTypes /\ StepOK(call[c], hook[c]) /\ ResultOK(call[c])
      /\ EffectOK(call[c], hook[c], effects[c]) /\ AckOK(call[c], effects[c], executed)
      /\ call \in [Callers -> CallTypes]
      /\ effects[c] \in Nat /\ now \in Nat
  BY CallFacts DEF Inv, CallsInv
<1>2. wake \in Nat /\ now <= wake /\ (MaxElapsed # 0 => wake <= call[c].started + MaxElapsed)
  BY <1>1, CallsAssumption
<1> HIDE DEF wake
<1>3. /\ r \in CallTypes /\ r.step = "backoff" /\ r.answer = answer /\ r.wake = wake
      /\ r.attempt = call[c].attempt /\ r.operation = call[c].operation /\ r.key = call[c].key
      /\ r.retries = call[c].retries /\ r.started = call[c].started /\ r.result = call[c].result
  BY <1>1, <1>2 DEF CallTypes
<1>4. call' = [call EXCEPT ![c] = r]
  BY <1>1 DEF wake
<1> HIDE DEF r
<1>5. Idle.step = "idle"
  BY DEF Idle
<1>6. StepOK(r, Idle) /\ TimeOK(r, Idle, now)
  <2>1. BacksOff(r)
    BY <1>3 DEF Retrying, BacksOff
  <2> QED
    BY <1>1, <1>2, <1>3, <1>5, <2>1 DEF StepOK, TimeOK, Timed
<1>7. ResultOK(r)
  <2>1. r.result = "none"
    BY <1>1, <1>3 DEF StepOK
  <2> QED
    BY <1>3, <2>1 DEF ResultOK
<1>8. EffectOK(r, Idle, effects[c])
  BY <1>1, <1>3, <1>5 DEF EffectOK, BacksOff
<1>9. AckOK(r, effects[c], executed)
  BY <1>1, <1>3 DEF AckOK
<1>10. \A m \in wire : m.caller = c => WireOK(m, r, Idle, effects[c])
  <2> SUFFICES ASSUME NEW m \in wire, m.caller = c PROVE WireOK(m, r, Idle, effects[c])
    OBVIOUS
  <2>1. WireOK(m, call[c], hook[c], effects[c])
    BY DEF Inv, WireInv
  <2> QED
    BY <1>3, <1>5, <2>1 DEF WireOK
<1> QED
  BY <1>3, <1>4, <1>6, <1>7, <1>8, <1>9, <1>10, LocalStep

LEMMA DeniedInv ==
    ASSUME Inv, SessionInv', NEW c \in Callers, Denied(c)
    PROVE  Inv'
<1>1. /\ Returns(c, NoAnswer, "error") /\ hook' = [hook EXCEPT ![c] = Idle]
      /\ UNCHANGED <<now, effects, executed, wire>>
      /\ hook[c].step # "idle"
  BY DEF Denied, FailBeforeRequest
<1>2. call[c].step = "attempt"
  BY <1>1, CallFacts DEF StepOK
<1> QED
  BY <1>1, <1>2, ReturnsInv, IdleStep

\* An outcome that may be tried again ends the call, or puts it to sleep.
LEMMA BackOffInv ==
    ASSUME Inv, SessionInv', NEW c \in Callers, call[c].step = "attempt", Retrying(c),
           NEW answer \in Answers \union {NoAnswer},
           NEW result \in {"error", "ok", "blank", "SDKError", "ErrorResponse", "undecodable"},
           BackOff(c, answer, result),
           hook' = [hook EXCEPT ![c] = Idle],
           UNCHANGED <<now, effects, executed, wire>>,
           answer = NoAnswer => result = "error",
           answer # NoAnswer =>
             /\ answer = call[c].answer
             /\ answer.status \in RetryCodes
             /\ result = Decode(call[c].operation, answer)
    PROVE  Inv'
<1>1. PICK wait \in Intervals :
        IF MaxElapsed # 0 /\ now + wait > call[c].started + MaxElapsed
        THEN Returns(c, answer, result)
        ELSE call' = [call EXCEPT ![c].step = "backoff", ![c].answer = answer, ![c].wake = now + wait]
  BY DEF BackOff
<1>2. CASE MaxElapsed # 0 /\ now + wait > call[c].started + MaxElapsed
  BY <1>1, <1>2, ReturnsInv, IdleStep
<1>3. CASE ~(MaxElapsed # 0 /\ now + wait > call[c].started + MaxElapsed)
  <2>1. MaxElapsed # 0 => now + wait <= call[c].started + MaxElapsed
    BY <1>3, CallFacts, CallsAssumption DEF CallTypes
  <2> QED
    BY <1>1, <1>3, <2>1, SleepInv
<1> QED
  BY <1>2, <1>3

LEMMA DecodeType ==
    ASSUME NEW d, NEW answer
    PROVE  Decode(d, answer) \in {"ok", "blank", "SDKError", "ErrorResponse", "undecodable"}
BY DEF Decode

LEMMA AnsweredInv ==
    ASSUME Inv, SessionInv', NEW c \in Callers, NEW d \in Methods, call[c].operation = d,
           Answered(c, d)
    PROVE  Inv'
<1> DEFINE answer == call[c].answer
           result == Decode(d, answer)
<1>1. /\ hook[c].step = "sent" /\ hook' = [hook EXCEPT ![c] = Idle] /\ now' = now
      /\ answer # NoAnswer
      /\ UNCHANGED <<effects, executed, wire>>
  BY DEF Answered, AfterExchange
<1>2. call[c].step = "attempt" /\ answer \in Answers
  BY <1>1, CallFacts DEF StepOK, CallTypes
<1>3. result \in {"ok", "blank", "SDKError", "ErrorResponse", "undecodable"}
  BY DecodeType
<1>4. IF Retried(c, answer) THEN BackOff(c, answer, result) ELSE Returns(c, answer, result)
  BY DEF Answered
<1>5. result = Decode(call[c].operation, answer)
  OBVIOUS
<1> HIDE DEF result, answer
<1>6. answer = call[c].answer
  BY DEF answer
<1>7. CASE Retried(c, answer)
  BY <1>1, <1>2, <1>3, <1>4, <1>5, <1>6, <1>7, BackOffInv DEF Retried
<1>8. CASE ~Retried(c, answer)
  <2>1. Returns(c, answer, result)
    BY <1>4, <1>8
  <2>2. /\ answer \in Answers \union {NoAnswer}
        /\ result \in {"error", "ok", "blank", "SDKError", "ErrorResponse", "undecodable"}
        /\ call[c].step \in {"attempt", "backoff"}
        /\ UNCHANGED <<now, effects, executed, wire>>
    BY <1>1, <1>2, <1>3
  <2>3. /\ answer = NoAnswer => result = "error"
        /\ answer # NoAnswer =>
             answer = call[c].answer /\ result = Decode(call[c].operation, answer)
    BY <1>1, <1>5, <1>6
  <2> QED
    BY <1>1, <2>1, <2>2, <2>3, ReturnsInv, IdleStep
<1> QED
  BY <1>7, <1>8

LEMMA LostInv ==
    ASSUME Inv, SessionInv', NEW c \in Callers, Lost(c)
    PROVE  Inv'
<1>1. /\ hook[c].step = "sent" /\ hook' = [hook EXCEPT ![c] = Idle] /\ now' = now
      /\ UNCHANGED <<effects, executed, wire>>
  BY DEF Lost, AfterExchange
<1>2. call[c].step = "attempt"
  BY <1>1, CallFacts DEF StepOK
<1>3. (Retrying(c) /\ BackOff(c, NoAnswer, "error")) \/ Returns(c, NoAnswer, "error")
  BY DEF Lost
<1> QED
  BY <1>1, <1>2, <1>3, BackOffInv, ReturnsInv, IdleStep

\* The request of an attempt leaves, unless its time is over.
LEMMA DoInv ==
    ASSUME Inv, SessionInv', NEW c \in Callers, Do(c)
    PROVE  Inv'
<1>1. PICK due \in now .. Due(HTTPTimeout) :
        /\ SendRequest(c, due)
        /\ \/ UNCHANGED wire
           \/ /\ wire' = wire \union {Message(c)}
              /\ call[c].deadline # NoTimeout => due <= call[c].deadline
  BY DoSends
<1> DEFINE h == [hook[c] EXCEPT !.step = "sent", !.due = due]
<1>2. /\ call[c] \in CallTypes /\ StepOK(call[c], hook[c]) /\ ResultOK(call[c])
      /\ TimeOK(call[c], hook[c], now)
      /\ EffectOK(call[c], hook[c], effects[c]) /\ AckOK(call[c], effects[c], executed)
      /\ call \in [Callers -> CallTypes] /\ hook \in [Callers -> HookTypes]
      /\ effects[c] \in Nat /\ now \in Nat
  BY CallFacts DEF Inv, CallsInv, SessionInv, SessionTypeOK, HookTypes
<1>3. /\ call' = [call EXCEPT ![c] = call[c]] /\ hook' = [hook EXCEPT ![c] = h]
      /\ UNCHANGED <<now, effects, executed>>
      /\ hook[c].step = "ready"
  BY <1>1, <1>2 DEF Do, SendRequest
<1>4. call[c].step = "attempt" /\ call[c].attempt \in Nat \ {0}
  BY <1>2, <1>3 DEF StepOK, CallTypes
<1>5. h.step = "sent" /\ h.due = due
  BY <1>2 DEF HookTypes
<1> HIDE DEF h
<1>6. StepOK(call[c], h)
  BY <1>2, <1>4, <1>5 DEF StepOK
<1>7. TimeOK(call[c], h, now)
  <2>1. LastAttempt(call[c]) \in Nat
    BY <1>2, CallsAssumption DEF LastAttempt, CallTypes
  <2>2. now <= due /\ due <= now + HTTPTimeout /\ due \in Int
    BY <1>2, MarginAssumption DEF Due
  <2>3. Timed(call[c]) => now <= LastAttempt(call[c]) + HTTPTimeout
    BY <1>2, <1>3 DEF TimeOK
  <2> QED
    BY <1>2, <1>4, <1>5, <2>1, <2>2, <2>3, MarginAssumption DEF TimeOK
<1>8. EffectOK(call[c], h, effects[c])
  BY <1>2, <1>5 DEF EffectOK
<1>9. call[c].attempt <= 1 => effects[c] = 0
  BY <1>2, <1>3 DEF EffectOK
<1>10. ASSUME NEW m \in wire, m.caller = c PROVE WireOK(m, call[c], h, effects[c])
  <2>1. WireOK(m, call[c], hook[c], effects[c])
    BY <1>10 DEF Inv, WireInv
  <2>2. m.attempt # call[c].attempt
    BY <1>3, <2>1 DEF WireOK
  <2> QED
    BY <2>1, <2>2 DEF WireOK
<1>11. CASE UNCHANGED wire
  BY <1>2, <1>3, <1>6, <1>7, <1>8, <1>10, <1>11, LocalStep
<1>12. CASE /\ wire' = wire \union {Message(c)}
            /\ call[c].deadline # NoTimeout => due <= call[c].deadline
  <2>1. /\ Message(c) \in Messages /\ Message(c).caller = c
        /\ Message(c).attempt = call[c].attempt /\ Message(c).key = call[c].key
    BY <1>2, <1>4 DEF Message, Messages, CallTypes
  <2>2. WireOK(Message(c), call[c], h, effects[c])
    BY <1>4, <1>5, <1>9, <1>12, <2>1 DEF WireOK
  <2>3. \A m \in wire' : m \in wire \/ m = Message(c)
    BY <1>12
  <2>4. /\ \A m \in wire' : m \in wire \/ m.caller = c
        /\ \A m \in wire' : m.caller = c => WireOK(m, call[c], h, effects[c])
    BY <1>10, <2>1, <2>2, <2>3
  <2> QED
    BY <1>2, <1>3, <1>6, <1>7, <1>8, <2>4, LocalStep
<1> QED
  BY <1>1, <1>11, <1>12

\* The next attempt begins within the time of the retries.
LEMMA ResumeInv ==
    ASSUME Inv, SessionInv', NEW c \in Callers, NEW d \in Methods, call[c].operation = d,
           Resume(c, d)
    PROVE  Inv'
<1>1. /\ call[c] \in CallTypes /\ StepOK(call[c], hook[c]) /\ TimeOK(call[c], hook[c], now)
      /\ EffectOK(call[c], hook[c], effects[c])
      /\ call \in [Callers -> CallTypes] /\ hook \in [Callers -> HookTypes]
      /\ effects[c] \in Nat /\ now \in Nat
  BY CallFacts DEF Inv, CallsInv, SessionInv, SessionTypeOK, HookTypes
<1>2. /\ call[c].step = "backoff" /\ hook[c].step = "idle" /\ now = call[c].wake
      /\ UNCHANGED <<wire, effects, executed>>
      /\ call[c].attempt > 0 /\ call[c].attempt \in Nat /\ BacksOff(call[c])
      /\ Timed(call[c]) => now <= call[c].started + MaxElapsed
      /\ call[c].result = "none"
  BY <1>1 DEF Resume, StepOK, TimeOK, CallTypes
<1>3. CASE Expired(c)
  <2>1. Returns(c, NoAnswer, "error") /\ now' = now /\ hook' = [hook EXCEPT ![c] = hook[c]]
    BY <1>1, <1>3 DEF Resume, sessionVars
  <2> QED
    BY <1>2, <2>1, ReturnsInv
<1>4. CASE ~Expired(c)
  <2> DEFINE attempt == call[c].attempt + 1
             r == [call[c] EXCEPT !.step = "attempt", !.answer = NoAnswer, !.attempt = attempt]
             h == [Idle EXCEPT !.step = "lookup", !.needs = d.scopes]
  <2>1. attempt \in Nat /\ attempt > 1 /\ attempt > call[c].attempt
    BY <1>2
  <2>2. /\ call' = [call EXCEPT ![c].step = "attempt", ![c].answer = NoAnswer, ![c].attempt = attempt]
        /\ hook' = [hook EXCEPT ![c] = h]
        /\ now' = now
    BY <1>4 DEF Resume, Begin
  <2> HIDE DEF attempt
  <2>3. /\ r \in CallTypes /\ r.step = "attempt" /\ r.attempt = attempt /\ r.answer = NoAnswer
        /\ r.operation = d /\ r.key = call[c].key /\ r.started = call[c].started
        /\ r.retries = call[c].retries /\ r.result = "none" /\ r.deadline = call[c].deadline
    BY <1>1, <1>2, <2>1 DEF CallTypes
  <2>4. h.step = "lookup"
    BY DEF Idle
  <2>5. call' = [call EXCEPT ![c] = r]
    BY <1>1, <2>2
  <2> HIDE DEF r, h
  <2>6. StepOK(r, h) /\ ResultOK(r) /\ AckOK(r, effects[c], executed)
    BY <2>1, <2>3, <2>4 DEF StepOK, ResultOK, AckOK
  <2>7. TimeOK(r, h, now)
    <3>1. LastAttempt(r) = call[c].started + MaxElapsed /\ (Timed(r) <=> Timed(call[c]))
      BY <1>2, <2>3 DEF LastAttempt, Timed, BacksOff
    <3> QED
      BY <1>2, <2>3, <2>4, <3>1 DEF TimeOK
  <2>8. EffectOK(r, h, effects[c])
    BY <1>2, <2>1, <2>3 DEF EffectOK, BacksOff
  <2>9. ASSUME NEW m \in wire, m.caller = c PROVE WireOK(m, r, h, effects[c])
    <3>1. WireOK(m, call[c], hook[c], effects[c]) /\ m.attempt \in Nat
      BY <2>9 DEF Inv, WireInv, WireOK, Messages
    <3>2. m.attempt <= attempt /\ m.attempt # attempt /\ ~(attempt <= 1)
      BY <1>2, <2>1, <3>1 DEF WireOK
    <3> QED
      BY <2>3, <3>1, <3>2 DEF WireOK
  <2> QED
    BY <1>2, <2>2, <2>3, <2>5, <2>6, <2>7, <2>8, <2>9, LocalStep
<1> QED
  BY <1>3, <1>4

\* A step of the hook.
LEMMA HookInv ==
    ASSUME Inv, SessionInv', NEW c \in Callers, Hook(c)
    PROVE  Inv'
<1>1. /\ call[c] \in CallTypes /\ StepOK(call[c], hook[c]) /\ ResultOK(call[c])
      /\ TimeOK(call[c], hook[c], now) /\ EffectOK(call[c], hook[c], effects[c])
      /\ AckOK(call[c], effects[c], executed)
      /\ call \in [Callers -> CallTypes] /\ hook \in [Callers -> HookTypes]
      /\ effects[c] \in Nat /\ now \in Nat /\ hook[c] \in HookTypes
  BY CallFacts DEF Inv, CallsInv, SessionInv, SessionTypeOK, HookTypes
<1>2. /\ call' = [call EXCEPT ![c] = call[c]]
      /\ UNCHANGED <<now, effects, executed, wire>>
      /\ hook[c].step \in {"lookup", "token", "store"}
  BY <1>1 DEF Hook, callVars, BeforeRequest, doTokenRequest, StoreSession
<1>3. LastAttempt(call[c]) \in Nat
  BY <1>1, CallsAssumption DEF LastAttempt, CallTypes
<1>4. \E h \in HookTypes :
        /\ hook' = [hook EXCEPT ![c] = h]
        /\ h.step \in {"token", "store", "ready"}
        /\ h.step = "token" => hook[c].step = "lookup" /\ h.due = now + HTTPTimeout
  <2>1. hook'[c] \in HookTypes /\ hook' = [hook EXCEPT ![c] = hook'[c]]
    BY <1>1 DEF Hook, BeforeRequest, doTokenRequest, StoreSession, SessionInv, SessionTypeOK, HookTypes
  <2>2. /\ hook'[c].step \in {"token", "store", "ready"}
        /\ hook'[c].step = "token" => hook[c].step = "lookup" /\ hook'[c].due = now + HTTPTimeout
    <3>1. CASE BeforeRequest(c)
      BY <1>1, <3>1 DEF BeforeRequest, HookTypes, Due
    <3>2. CASE doTokenRequest(c)
      BY <1>1, <3>2 DEF doTokenRequest, HookTypes
    <3>3. CASE StoreSession(c)
      BY <1>1, <3>3 DEF StoreSession, HookTypes
    <3> QED
      BY <3>1, <3>2, <3>3 DEF Hook
  <2> QED
    BY <2>1, <2>2
<1>5. PICK h \in HookTypes :
        /\ hook' = [hook EXCEPT ![c] = h]
        /\ h.step \in {"token", "store", "ready"}
        /\ h.step = "token" => hook[c].step = "lookup" /\ h.due = now + HTTPTimeout
  BY <1>4
<1>6. StepOK(call[c], h) /\ TimeOK(call[c], h, now)
  <2>1. Timed(call[c]) => now <= LastAttempt(call[c]) + HTTPTimeout
    BY <1>1, <1>2, <1>3, MarginAssumption DEF TimeOK, HookTypes
  <2>2. h.step = "token" =>
          (Timed(call[c]) => now <= LastAttempt(call[c])) /\ h.due = now + HTTPTimeout
    BY <1>1, <1>5 DEF TimeOK
  <2>3. call[c].step = "attempt"
    BY <1>1, <1>2 DEF StepOK
  <2> QED
    BY <1>1, <1>3, <1>5, <2>1, <2>2, <2>3, MarginAssumption DEF StepOK, TimeOK
<1>7. EffectOK(call[c], h, effects[c])
  BY <1>1, <1>2 DEF EffectOK
<1>8. ASSUME NEW m \in wire, m.caller = c PROVE WireOK(m, call[c], h, effects[c])
  <2>1. WireOK(m, call[c], hook[c], effects[c])
    BY <1>8 DEF Inv, WireInv
  <2>2. m.attempt # call[c].attempt
    BY <1>2, <2>1 DEF WireOK
  <2> QED
    BY <2>1, <2>2 DEF WireOK
<1> QED
  BY <1>1, <1>2, <1>5, <1>6, <1>7, <1>8, LocalStep


\* The race on the map stops the process; no call is touched.
LEMMA CrashInv ==
    ASSUME Inv, SessionInv', NEW c \in Callers, Crash(c)
    PROVE  Inv'
<1>1. UNCHANGED <<now, hook, call, wire, effects, executed>>
  BY DEF Crash, MapRace, callVars
<1> QED
  BY <1>1 DEF Inv, CallsInv, WireInv, KeyInv

\* Time passes while every goroutine sleeps or waits for an exchange that is
\* not yet due.
LEMMA WaitInv ==
    ASSUME Inv, SessionInv', Wait
    PROVE  Inv'
<1>1. UNCHANGED <<hook, call, wire, effects, executed>> /\ now' = now + 1
  BY DEF Wait, Tick, callVars
<1>2. ASSUME NEW c \in Callers PROVE TimeOK(call[c], hook[c], now + 1)
  <2>1. /\ call[c] \in CallTypes /\ hook[c] \in HookTypes /\ TimeOK(call[c], hook[c], now)
        /\ now \in Nat /\ call[c].wake \in Nat /\ hook[c].due \in Nat
    BY CallFacts DEF CallTypes, HookTypes
  <2>2. call[c].step = "backoff" => now < call[c].wake
    BY DEF Wait
  <2>3. Waits(c)
    BY DEF Wait, Tick
  <2>4. CASE hook[c].step = "idle"
    BY <2>1, <2>2, <2>4 DEF TimeOK
  <2>5. CASE hook[c].step \in {"token", "sent"} /\ now < hook[c].due
    BY <2>1, <2>2, <2>5 DEF TimeOK
  <2> QED
    BY <2>3, <2>4, <2>5 DEF Waits
<1>3. CallsInv'
  BY <1>1, <1>2 DEF Inv, CallsInv, CallOK
<1>4. WireInv' /\ KeyInv'
  BY <1>1 DEF Inv, WireInv, KeyInv
<1> QED
  BY <1>3, <1>4 DEF Inv

-----------------------------------------------------------------------------
(* The service.                                                             *)

\* What is known of a request on its way and of its call.
LEMMA WireFacts ==
    ASSUME Inv, NEW m \in wire
    PROVE  /\ m \in Messages /\ m.caller \in Callers
           /\ WireOK(m, call[m.caller], hook[m.caller], effects[m.caller])
           /\ call[m.caller].operation \in Methods
<1>1. WireOK(m, call[m.caller], hook[m.caller], effects[m.caller])
  BY DEF Inv, WireInv
<1>2. m \in Messages /\ m.caller \in Callers /\ call[m.caller].step # "idle"
  BY <1>1 DEF WireOK, Messages
<1>3. StepOK(call[m.caller], hook[m.caller])
  BY <1>2, CallFacts
<1> QED
  BY <1>1, <1>2, <1>3 DEF StepOK

\* An answer reaches the call that awaits it, and no other.
LEMMA Delivered ==
    ASSUME Inv, NEW m \in wire, NEW answer \in Answers, Deliver(m, answer)
    PROVE  \E r \in CallTypes :
             /\ call' = [call EXCEPT ![m.caller] = r]
             /\ r.answer \in {answer, call[m.caller].answer}
             /\ r.key = call[m.caller].key /\ r.operation = call[m.caller].operation
             /\ r.attempt = call[m.caller].attempt /\ r.step = call[m.caller].step
             /\ r.retries = call[m.caller].retries /\ r.started = call[m.caller].started
             /\ r.deadline = call[m.caller].deadline /\ r.wake = call[m.caller].wake
             /\ StepOK(r, hook[m.caller]) /\ ResultOK(r) /\ TimeOK(r, hook[m.caller], now)
<1> DEFINE c == m.caller
<1>1. c \in Callers
  BY WireFacts
<1> HIDE DEF c
<1>2. /\ call[c] \in CallTypes /\ StepOK(call[c], hook[c]) /\ ResultOK(call[c])
      /\ TimeOK(call[c], hook[c], now) /\ call \in [Callers -> CallTypes]
  BY <1>1, CallFacts DEF Inv, CallsInv
<1>3. CASE Awaited(m)
  <2> DEFINE r == [call[c] EXCEPT !.answer = answer]
  <2>1. /\ r \in CallTypes /\ r.answer = answer
        /\ r.key = call[c].key /\ r.operation = call[c].operation
        /\ r.attempt = call[c].attempt /\ r.step = call[c].step
        /\ r.retries = call[c].retries /\ r.started = call[c].started
        /\ r.deadline = call[c].deadline /\ r.wake = call[c].wake /\ r.result = call[c].result
    BY <1>2 DEF CallTypes
  <2>2. call' = [call EXCEPT ![c] = r]
    BY <1>2, <1>3 DEF Deliver, c
  <2> HIDE DEF r
  <2>3. call[c].step = "attempt" /\ hook[c].step = "sent" /\ call[c].result = "none"
    BY <1>2, <1>3 DEF Awaited, StepOK, c
  <2>4. StepOK(r, hook[c]) /\ ResultOK(r)
    BY <1>2, <2>1, <2>3 DEF StepOK, ResultOK
  <2>5. TimeOK(r, hook[c], now)
    BY <1>2, <2>1, <2>3 DEF TimeOK, Timed, LastAttempt, BacksOff
  <2> QED
    BY <2>1, <2>2, <2>4, <2>5 DEF c
<1>4. CASE ~Awaited(m)
  <2>1. call' = [call EXCEPT ![c] = call[c]]
    BY <1>2, <1>4 DEF Deliver
  <2> QED
    BY <1>2, <2>1 DEF c
<1> QED
  BY <1>3, <1>4

\* A request has reached the service: its call has had n effects.
LEMMA ServiceStep ==
    ASSUME Inv, SessionInv', NEW m \in wire, NEW answer \in Answers, Deliver(m, answer),
           wire' = wire \ {m}, UNCHANGED <<now, hook>>,
           NEW n \in Nat, n = effects[m.caller] \/ n = effects[m.caller] + 1,
           effects' = [effects EXCEPT ![m.caller] = n],
           executed \subseteq executed', executed' \subseteq Keys \X Operations,
           IsWrite(call[m.caller].operation) /\ answer.status \in call[m.caller].operation.ok =>
             n > 0 \/ <<call[m.caller].key, call[m.caller].operation.name>> \in executed',
           (\A c \in Callers : call'[c].key = call[c].key) => KeyInv'
    PROVE  Inv'
<1> DEFINE c == m.caller
<1>1. /\ c \in Callers /\ WireOK(m, call[c], hook[c], effects[c]) /\ m \in Messages
  BY WireFacts
<1>2. PICK r \in CallTypes :
        /\ call' = [call EXCEPT ![c] = r]
        /\ r.answer \in {answer, call[c].answer}
        /\ r.key = call[c].key /\ r.operation = call[c].operation
        /\ r.attempt = call[c].attempt /\ r.step = call[c].step
        /\ r.retries = call[c].retries /\ r.started = call[c].started
        /\ r.deadline = call[c].deadline /\ r.wake = call[c].wake
        /\ StepOK(r, hook[c]) /\ ResultOK(r) /\ TimeOK(r, hook[c], now)
  BY Delivered
<1>3. /\ n = effects[c] \/ n = effects[c] + 1
      /\ effects' = [effects EXCEPT ![c] = n]
      /\ IsWrite(call[c].operation) /\ answer.status \in call[c].operation.ok =>
           n > 0 \/ <<call[c].key, call[c].operation.name>> \in executed'
      /\ m.caller = c
  OBVIOUS
<1> HIDE DEF c
<1>4. /\ call[c] \in CallTypes /\ effects[c] \in Nat /\ EffectOK(call[c], hook[c], effects[c])
      /\ AckOK(call[c], effects[c], executed)
      /\ call \in [Callers -> CallTypes] /\ effects \in [Callers -> Nat]
  BY <1>1, CallFacts DEF Inv, CallsInv
<1>5. /\ call'[c] = r /\ effects'[c] = n
      /\ \A d \in Callers \ {c} : call'[d] = call[d] /\ effects'[d] = effects[d]
  BY <1>1, <1>2, <1>3, <1>4
<1>6. /\ m.attempt \in Nat \ {0} /\ r.attempt \in Nat /\ m.attempt <= r.attempt
      /\ r.step # "idle"
  BY <1>1, <1>2 DEF WireOK, Messages, CallTypes
<1>7. EffectOK(r, hook[c], n)
  <2>1. r.attempt <= 1 => effects[c] = 0 /\ hook[c].step \in {"idle", "sent"}
    BY <1>1, <1>2, <1>6 DEF WireOK
  <2>2. r.attempt > 1 => BacksOff(r)
    BY <1>2, <1>4 DEF EffectOK, BacksOff
  <2> QED
    BY <1>3, <1>6, <2>1, <2>2 DEF EffectOK
<1>8. AckOK(r, n, executed')
  <2>1. effects[c] > 0 => n > 0
    BY <1>3, <1>4
  <2>2. CASE r.answer = answer
    BY <1>2, <1>3, <2>2 DEF AckOK
  <2>3. CASE r.answer = call[c].answer
    BY <1>2, <1>4, <2>1, <2>3 DEF AckOK
  <2> QED
    BY <1>2, <2>2, <2>3
<1>9. CallsInv'
  <2>1. ASSUME NEW d \in Callers
        PROVE  /\ CallOK(call'[d], hook'[d], now', effects'[d])
               /\ AckOK(call'[d], effects'[d], executed')
    <3>1. CASE d = c
      BY <1>2, <1>5, <1>7, <1>8, <3>1 DEF CallOK
    <3>2. CASE d # c
      <4>1. /\ CallOK(call[d], hook[d], now, effects[d]) /\ AckOK(call[d], effects[d], executed)
            /\ call'[d] = call[d] /\ effects'[d] = effects[d]
        BY <1>5, <3>2 DEF Inv, CallsInv
      <4>2. AckOK(call[d], effects[d], executed')
        BY <4>1 DEF AckOK
      <4> QED
        BY <4>1, <4>2
    <3> QED
      BY <3>1, <3>2
  <2>2. call' \in [Callers -> CallTypes] /\ effects' \in [Callers -> Nat]
    BY <1>1, <1>2, <1>3, <1>4
  <2> QED
    BY <2>1, <2>2 DEF CallsInv
<1>10. WireInv'
  <2> SUFFICES ASSUME NEW o \in wire'
               PROVE  WireOK(o, call'[o.caller], hook[o.caller], effects'[o.caller])
    BY DEF WireInv
  <2>1. /\ o \in wire /\ o # m /\ WireOK(o, call[o.caller], hook[o.caller], effects[o.caller])
        /\ o \in Messages /\ o.caller \in Callers
    BY WireFacts
  <2>2. CASE o.caller = c
    <3>1. ~(r.attempt <= 1)
      <4>1. ASSUME r.attempt <= 1 PROVE FALSE
        <5>1. o.attempt = 1 /\ m.attempt = 1 /\ o.key = m.key /\ o.caller = m.caller
          BY <1>1, <1>2, <1>3, <1>6, <2>1, <2>2, <4>1 DEF WireOK, Messages
        <5> QED
          BY <1>1, <2>1, <5>1 DEF Messages
      <4> QED
        BY <4>1
    <3> QED
      BY <1>2, <1>5, <2>1, <2>2, <3>1 DEF WireOK
  <2>3. CASE o.caller # c
    BY <1>5, <2>1, <2>3
  <2> QED
    BY <2>2, <2>3
<1>11. \A d \in Callers : call'[d].key = call[d].key
  BY <1>2, <1>5
<1> QED
  BY <1>9, <1>10, <1>11 DEF Inv

LEMMA RefuseInv ==
    ASSUME Inv, SessionInv', NEW m \in wire, Refuse(m)
    PROVE  Inv'
<1> DEFINE c == m.caller
           d == call[c].operation
<1>1. c \in Callers /\ d \in Methods
  BY WireFacts
<1>2. PICK answer \in Refusals(d) : Deliver(m, answer)
  BY DEF Refuse
<1>3. answer \in Answers /\ (IsWrite(d) => answer.status \notin d.ok)
  <2> HIDE DEF d
  <2> QED
    BY <1>1, <1>2, MethodFacts, RefusalsType DEF Understood
<1>4. /\ wire' = wire \ {m} /\ UNCHANGED <<now, hook, effects, executed>>
  BY DEF Refuse, sessionVars
<1>5. /\ effects \in [Callers -> Nat] /\ executed \subseteq Keys \X Operations /\ KeyInv
  BY DEF Inv, CallsInv
<1>6. effects' = [effects EXCEPT ![c] = effects[c]] /\ effects[c] \in Nat
  BY <1>1, <1>4, <1>5
<1>7. (\A e \in Callers : call'[e].key = call[e].key) => KeyInv'
  BY <1>4, <1>5 DEF KeyInv
<1> QED
  BY <1>2, <1>3, <1>4, <1>5, <1>6, <1>7, ServiceStep

\* An operation under a key that is executed is the first one under it.
LEMMA ExecuteInv ==
    ASSUME Inv, SessionInv', NEW m \in wire, Execute(m)
    PROVE  Inv'
<1> DEFINE c == m.caller
           d == call[c].operation
           key == m.key
<1>1. /\ c \in Callers /\ d \in Methods /\ key = call[c].key /\ key \in Keys \union {NoKey}
  BY WireFacts DEF WireOK, Messages
<1>2. PICK answer \in Successes(d) : Deliver(m, answer)
  BY DEF Execute
<1>3. answer \in Answers /\ d.name \in Operations
  <2> HIDE DEF d
  <2> QED
    BY <1>1, <1>2, MethodFacts, RefusalsType
<1>4. /\ wire' = wire \ {m} /\ UNCHANGED <<now, hook>>
  BY DEF Execute, sessionVars
<1>5. /\ effects \in [Callers -> Nat] /\ executed \subseteq Keys \X Operations /\ KeyInv
      /\ effects[c] \in Nat
  BY <1>1 DEF Inv, CallsInv
<1>6. CASE Remembered(c, key)
  <2>1. UNCHANGED <<effects, executed>> /\ <<call[c].key, d.name>> \in executed
    BY <1>1, <1>6 DEF Execute, Remembered
  <2>2. effects' = [effects EXCEPT ![c] = effects[c]] /\ executed' = executed
    BY <1>1, <1>5, <2>1
  <2>3. (\A e \in Callers : call'[e].key = call[e].key) => KeyInv'
    BY <1>5, <2>1 DEF KeyInv
  <2> QED
    BY <1>2, <1>3, <1>4, <1>5, <2>1, <2>2, <2>3, ServiceStep
<1>7. CASE ~Remembered(c, key)
  <2> DEFINE n == effects[c] + 1
  <2>1. /\ \A e \in executed : e[1] # key
        /\ effects' = [effects EXCEPT ![c] = n]
        /\ executed' = IF key = NoKey THEN executed ELSE executed \union {<<key, d.name>>}
    BY <1>7 DEF Execute
  <2>2. n \in Nat /\ n > 0 /\ n = effects[c] + 1
    BY <1>5
  <2>3. executed \subseteq executed' /\ executed' \subseteq Keys \X Operations
    BY <1>1, <1>3, <1>5, <2>1
  <2>4. ASSUME \A e \in Callers : call'[e].key = call[e].key PROVE KeyInv'
    <3> HIDE DEF n, c, d, key
    <3>1. /\ effects'[c] = n /\ \A e \in Callers \ {c} : effects'[e] = effects[e]
      BY <1>1, <1>5, <2>1
    <3>2. CASE key = NoKey
      <4>1. \A e \in Callers : call[e].key # NoKey => effects'[e] = effects[e]
        BY <1>1, <3>1, <3>2
      <4>2. executed' = executed
        BY <2>1, <3>2
      <4> QED
        BY <1>5, <2>4, <4>1, <4>2 DEF KeyInv
    <3>3. CASE key # NoKey
      <4>1. \A e \in Callers : call[e].key = key => effects[e] = 0
        BY <1>5, <2>1, <3>3 DEF KeyInv
      <4>2. n = 1
        BY <1>1, <2>2, <4>1
      <4>3. <<key, d.name>> \in executed' /\ <<key, d.name>>[1] = key
        BY <2>1, <3>3
      <4>4. ASSUME NEW e \in Callers, call'[e].key # NoKey, effects'[e] > 0
            PROVE  effects'[e] = 1 /\ \E x \in executed' : x[1] = call'[e].key
        <5>1. CASE e = c
          BY <1>1, <2>4, <3>1, <4>2, <4>3, <5>1
        <5>2. CASE e # c
          BY <1>5, <2>3, <2>4, <3>1, <4>4, <5>2 DEF KeyInv
        <5> QED
          BY <5>1, <5>2
      <4>5. ASSUME NEW e \in Callers, NEW f \in Callers, call'[e].key # NoKey, e # f,
                   call'[f].key = call'[e].key
            PROVE  effects'[e] = 0 \/ effects'[f] = 0
        BY <1>1, <1>5, <2>4, <3>1, <4>1, <4>5 DEF KeyInv
      <4> QED
        BY <4>4, <4>5 DEF KeyInv
    <3> QED
      BY <3>2, <3>3
  <2> HIDE DEF n
  <2> QED
    BY <1>2, <1>3, <1>4, <1>5, <2>1, <2>2, <2>3, <2>4, ServiceStep
<1> QED
  BY <1>6, <1>7

LEMMA V1Inv ==
    ASSUME Inv, SessionInv', NEW c \in Callers, NEW d \in Methods, V1Call(c, d)
    PROVE  Inv'
BY RequestInv, FailRequestInv, DeniedInv, DoInv, AnsweredInv, LostInv, ResumeInv DEF V1Call

LEMMA NextInv == Inv /\ [Next]_vars => Inv'
<1> SUFFICES ASSUME Inv, [Next]_vars PROVE Inv'
  OBVIOUS
<1>1. SessionInv'
  BY SessionKept
<1>2. ASSUME NEW c \in Callers, V1(c) PROVE Inv'
  BY <1>1, <1>2, V1Methods, V1Inv
<1>3. ASSUME NEW c \in Callers, Hook(c) \/ Crash(c) PROVE Inv'
  BY <1>1, <1>3, HookInv, CrashInv
<1>4. ASSUME NEW m \in wire, Refuse(m) \/ Execute(m) PROVE Inv'
  BY <1>1, <1>4, RefuseInv, ExecuteInv
<1>5. CASE Wait
  BY <1>1, <1>5, WaitInv
<1>6. CASE UNCHANGED vars
  <2>1. UNCHANGED <<now, hook, call, wire, effects, executed>>
    BY <1>6 DEF vars, sessionVars, callVars
  <2> QED
    BY <1>1, <2>1 DEF Inv, CallsInv, WireInv, KeyInv
<1> QED
  BY <1>2, <1>3, <1>4, <1>5, <1>6 DEF Next

LEMMA Invariance == Spec => []Inv
BY InitInv, NextInv, PTL DEF Spec

-----------------------------------------------------------------------------
(* What the invariant means.                                                *)

(***************************************************************************)
(* The hooks of the methods of V1, as v1.go calls them, use the session as *)
(* ClientSession says: what is proved of the session holds of the client.  *)
(***************************************************************************)
THEOREM ClientUsesSession == Spec => SessionSpec
<1>1. Init => SessionInit
  BY DEF Init
<1> QED
  BY <1>1, Invariance, SessionStep, PTL DEF Spec, SessionSpec

(***************************************************************************)
(* The state of every call, request and effect is of its type, and a call  *)
(* is in an attempt exactly while its hook is entered.                     *)
(***************************************************************************)
THEOREM CallsTypeCorrect == Spec => []TypeOK
<1>1. Inv => TypeOK
  <2> SUFFICES ASSUME Inv PROVE TypeOK
    OBVIOUS
  <2>1. SessionTypeOK /\ effects \in [Callers -> Nat] /\ executed \subseteq Keys \X Operations
    BY DEF Inv, SessionInv, CallsInv
  <2>2. ASSUME NEW c \in Callers
        PROVE  /\ call[c].step \in {"idle", "attempt", "backoff", "done"}
               /\ call[c].result \in {"none", "error", "ok", "blank", "SDKError", "ErrorResponse",
                                      "undecodable"}
               /\ call[c].attempt \in Nat
               /\ call[c].wake \in Nat
               /\ call[c].step = "attempt" <=> hook[c].step # "idle"
    BY CallFacts DEF CallTypes, StepOK
  <2>3. ASSUME NEW m \in wire PROVE call[m.caller].attempt >= m.attempt
    <3>1. WireOK(m, call[m.caller], hook[m.caller], effects[m.caller]) /\ call[m.caller] \in CallTypes
      BY WireFacts, CallFacts
    <3> QED
      BY <3>1 DEF WireOK, Messages, CallTypes
  <2> QED
    BY <2>1, <2>2, <2>3 DEF TypeOK
<1> QED
  BY <1>1, Invariance, PTL

(***************************************************************************)
(* A write that the client reports as done was executed, by this call or   *)
(* under its key.                                                          *)
(***************************************************************************)
THEOREM DoneMeansExecuted == Spec => []AckMeansDone
<1>1. Inv => AckMeansDone
  <2> SUFFICES ASSUME Inv, NEW c \in Callers, call[c].result = "ok", IsWrite(call[c].operation)
               PROVE  effects[c] > 0 \/ Remembered(c, call[c].key)
    BY DEF AckMeansDone
  <2>1. call[c].answer # NoAnswer /\ call[c].answer.status \in call[c].operation.ok
    BY CallFacts DEF ResultOK
  <2> QED
    BY <2>1, CallFacts DEF AckOK, Remembered
<1> QED
  BY <1>1, Invariance, PTL

(***************************************************************************)
(* The calls under one key have one effect between them, for any number of *)
(* attempts and any delay of their requests.                               *)
(***************************************************************************)
THEOREM KeysHaveOneEffect == Spec => []OneEffectPerKey
<1>1. Inv => OneEffectPerKey
  <2> SUFFICES ASSUME Inv, NEW c \in Callers, NEW d \in Callers, call[c].key # NoKey
               PROVE  /\ effects[c] <= 1
                      /\ c # d /\ call[d].key = call[c].key => effects[c] + effects[d] <= 1
    BY DEF OneEffectPerKey
  <2>1. effects[c] \in Nat /\ effects[d] \in Nat
    BY CallFacts
  <2>2. effects[c] <= 1 /\ (call[d].key = call[c].key => effects[d] <= 1)
    BY <2>1 DEF Inv, KeyInv
  <2>3. c # d /\ call[d].key = call[c].key => effects[c] = 0 \/ effects[d] = 0
    BY DEF Inv, KeyInv
  <2> QED
    BY <2>1, <2>2, <2>3
<1> QED
  BY <1>1, Invariance, PTL

(***************************************************************************)
(* A call without a back-off in force is sent once and has at most one     *)
(* effect.                                                                 *)
(***************************************************************************)
THEOREM NotRetriedNotRepeated == Spec => []UnretriedOnce
<1>1. Inv => UnretriedOnce
  <2> SUFFICES ASSUME Inv, NEW c \in Callers,
                      call[c].retries = NoRetries \/ ~call[c].retries.backoff
               PROVE  call[c].attempt <= 1 /\ effects[c] <= 1
    BY DEF UnretriedOnce
  <2>1. ~BacksOff(call[c])
    BY DEF BacksOff
  <2> QED
    BY <2>1, CallFacts DEF EffectOK, CallTypes
<1> QED
  BY <1>1, Invariance, PTL

(***************************************************************************)
(* What a handler answers when it has done the operation is a success to   *)
(* the method of its route.                                                *)
(***************************************************************************)
THEOREM SuccessesAreUnderstood == Spec => []SuccessIsUnderstood
<1>1. Inv => SuccessIsUnderstood
  <2> SUFFICES ASSUME Inv, NEW c \in Callers, call[c].step = "done", call[c].answer # NoAnswer,
                      call[c].answer \in NewRouter[call[c].operation.name].does
               PROVE  call[c].result = "ok"
    BY DEF SuccessIsUnderstood
  <2>1. call[c].operation \in Methods /\ call[c].result = Decode(call[c].operation, call[c].answer)
    BY CallFacts DEF StepOK, ResultOK
  <2>2. /\ call[c].answer.status \in call[c].operation.ok
        /\ call[c].answer.status \notin call[c].operation.blank
    BY <2>1, MethodFacts DEF Understood
  <2> QED
    BY <2>1, <2>2 DEF Decode
<1> QED
  BY <1>1, Invariance, PTL

(***************************************************************************)
(* A running call is within the time of its retries, if that is limited,   *)
(* but for one token request and one request, and awaits no request past   *)
(* its time limit.                                                         *)
(***************************************************************************)
THEOREM CallsEndInTime == Spec => []CallDuration
<1>1. Inv => CallDuration
  <2> SUFFICES ASSUME Inv PROVE CallDuration
    OBVIOUS
  <2>1. ASSUME NEW c \in Callers, call[c].step \in {"attempt", "backoff"},
               Retrying(c) => MaxElapsed # 0
        PROVE  now - call[c].started <= (IF Retrying(c) THEN MaxElapsed ELSE 0) + 2 * HTTPTimeout
    <3>1. /\ call[c] \in CallTypes /\ StepOK(call[c], hook[c]) /\ TimeOK(call[c], hook[c], now)
          /\ hook[c] \in HookTypes /\ now \in Nat /\ call[c].started \in Nat /\ hook[c].due \in Nat
          /\ call[c].wake \in Nat
          /\ Timed(call[c])
      BY <2>1, CallFacts DEF CallTypes, HookTypes, Timed, BacksOff, Retrying
    <3>2. LastAttempt(call[c]) = call[c].started + (IF Retrying(c) THEN MaxElapsed ELSE 0)
      BY DEF LastAttempt, BacksOff, Retrying
    <3>3. LastAttempt(call[c]) \in Nat /\ HTTPTimeout \in Nat
      BY <3>1, <3>2, CallsAssumption, MarginAssumption
    <3>4. now <= LastAttempt(call[c]) + 2 * HTTPTimeout
      <4>1. CASE call[c].step = "backoff"
        <5>1. BacksOff(call[c]) /\ now <= call[c].wake /\ call[c].wake <= call[c].started + MaxElapsed
          BY <3>1, <4>1 DEF StepOK, TimeOK
        <5>2. LastAttempt(call[c]) = call[c].started + MaxElapsed
          BY <5>1 DEF LastAttempt
        <5> QED
          BY <3>1, <3>3, <5>1, <5>2, CallsAssumption
      <4>2. CASE call[c].step = "attempt"
        <5>1. hook[c].step \in {"lookup", "token", "store", "ready", "sent"}
          BY <3>1, <4>2 DEF StepOK, HookTypes
        <5> QED
          BY <3>1, <3>3, <5>1 DEF TimeOK
      <4> QED
        BY <2>1, <4>1, <4>2
    <3> QED
      BY <3>1, <3>2, <3>3, <3>4, CallsAssumption
  <2>2. ASSUME NEW m \in wire, Awaited(m), call[m.caller].deadline # NoTimeout
        PROVE  now <= call[m.caller].deadline
    <3>1. /\ WireOK(m, call[m.caller], hook[m.caller], effects[m.caller]) /\ m.caller \in Callers
          /\ TimeOK(call[m.caller], hook[m.caller], now)
          /\ call[m.caller] \in CallTypes /\ hook[m.caller] \in HookTypes /\ now \in Nat
      BY WireFacts, CallFacts
    <3>2. /\ hook[m.caller].due <= call[m.caller].deadline /\ now <= hook[m.caller].due
          /\ hook[m.caller].due \in Nat /\ call[m.caller].deadline \in Nat
      BY <2>2, <3>1 DEF WireOK, TimeOK, Awaited, CallTypes, HookTypes
    <3> QED
      BY <3>1, <3>2
  <2> QED
    BY <2>1, <2>2 DEF CallDuration
<1> QED
  BY <1>1, Invariance, PTL

(***************************************************************************)
(* In the client, as in the session alone: a request that left with a      *)
(* token of the map is over before the token expires, and no request       *)
(* leaves with a token of fewer scopes than its operation needs.           *)
(***************************************************************************)
THEOREM ClientTokens == Spec => [](ReusedTokenOutlivesRequest /\ TokenCoversRequest)
BY ClientUsesSession, TokensOutliveRequests, TokensCoverRequests, PTL
=============================================================================
