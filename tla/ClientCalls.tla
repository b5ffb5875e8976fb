---------------------------- MODULE ClientCalls ----------------------------
(***************************************************************************)
(* The Go client of the service (src/pkg/client/v1.go, retries.go): every  *)
(* method of V1 builds a request, passes it through the hooks              *)
(* (ClientSession), sends it, retries it when a retry configuration says   *)
(* so, and decodes the answer of the service (WalletAPI).  Each goroutine  *)
(* makes one call.  The network may lose, delay or answer late: a request  *)
(* that the client has given up may still be executed.                     *)
(***************************************************************************)
EXTENDS ClientSession, WalletAPI

CONSTANTS
    Calls,          \* operations that the callers choose from
    Keys, NoKey,    \* Idempotency-Keys
    GlobalRetries,  \* the retry configuration of the client, or NoRetries
    RetryOptions,   \* WithRetries of a call, or Unset
    NoRetries, Unset,
    TimeLimits,     \* WithOperationTimeout of a call, or NoTimeout
    NoTimeout,
    Intervals,      \* delays of the exponential back-off, with its jitter
    MaxElapsed,     \* its MaxElapsedTime, 0 for none
    NoAnswer, NoOperation,
    LastStart       \* bound: no call begins after

RetryConfigs == [backoff : BOOLEAN, conn : BOOLEAN]

ASSUME CallsAssumption ==
    /\ Calls \subseteq Operations
    /\ NoKey \notin Keys
    /\ GlobalRetries \in RetryConfigs \union {NoRetries}
    /\ RetryOptions \subseteq RetryConfigs \union {Unset}
    /\ TimeLimits \subseteq Nat \union {NoTimeout}
    /\ Intervals \subseteq Nat
    /\ MaxElapsed \in Nat
    /\ {"wallets:read", "wallets:write"} \subseteq Scopes

VARIABLES
    call,           \* the call of each goroutine
    wire,           \* requests on their way to the service
    effects,        \* how often the service executed the call
    executed,       \* the keyed operations executed, by the ledger's memory
    refused         \* the sessions whose token was answered 401

callVars == <<call, wire, effects, executed, refused>>
vars == <<sessionVars, callVars>>

NotCalled ==
    [operation |-> NoOperation, key |-> NoKey, retries |-> NoRetries, deadline |-> NoTimeout,
     started |-> 0, attempt |-> 0, wake |-> 0, step |-> "idle", answer |-> NoAnswer,
     result |-> "none"]

Init ==
    /\ SessionInit
    /\ call = [c \in Callers |-> NotCalled]
    /\ wire = {}
    /\ effects = [c \in Callers |-> 0]
    /\ executed = {}
    /\ refused = {}

----------------------------------------------------------------------------
\* What the methods of V1 differ in.
Reads == {"wallets:read"}
Writes == {"wallets:read", "wallets:write"}

\* A GET: answered 200.
Get(name) ==
    [name |-> name, scopes |-> Reads, keyed |-> FALSE, body |-> FALSE, ok |-> {200},
     blank |-> {}, typed |-> TRUE]

\* A POST or PATCH with a body and an Idempotency-Key.
Write(name, statuses) ==
    [name |-> name, scopes |-> Writes, keyed |-> TRUE, body |-> TRUE, ok |-> statuses,
     blank |-> {}, typed |-> TRUE]

IsWrite(d) == d.scopes = Writes

----------------------------------------------------------------------------
\* utils.MatchStatusCodes: an expected code is a number, a class or a word.
MatchStatusCodes(expected, status) ==
    \E code \in expected :
        \/ code.kind = "number" /\ code.is = status
        \/ code.kind = "class" /\ code.is = status \div 100

DefaultCodes == {[kind |-> "word", is |-> 0]}

\* The statuses that utils.Retry is told to retry.
RetryCodes == {429, 500, 502, 503, 504}

\* UnmarshalJSON of the error code knows these and fails on any other one.
ErrorCodes == {"VALIDATION", "INTERNAL_ERROR", "INSUFFICIENT_FUND", "HOLD_CLOSED"}

\* Defect: whatever is not a failure of the service is a success.
Decode_BelowServerErrors(d, answer) ==
    IF answer.status < 500 THEN "ok" ELSE "ErrorResponse"

\* The end of a method: what it returns for an answer.
Decode(d, answer) ==
    CASE answer.status \in d.ok -> "ok"
      [] answer.status \in d.blank -> "blank"
      [] answer.status \notin d.ok \union d.blank ->
            IF ~d.typed \/ answer.body = "other" THEN "SDKError"
            ELSE IF answer.body \in ErrorCodes THEN "ErrorResponse" ELSE "undecodable"

Retrying(c) == call[c].retries # NoRetries /\ call[c].retries.backoff

\* The operation's own context is done.
Expired(c) == call[c].deadline # NoTimeout /\ now >= call[c].deadline

----------------------------------------------------------------------------
\* Options, address, body and request are put together, or the method returns
\* an error before anything is sent.
Request(c, d) ==
    /\ call[c].step = "idle"
    /\ d.name \in Calls
    /\ now <= LastStart
    /\ \E key \in IF d.keyed THEN Keys \union {NoKey} ELSE {NoKey},
          option \in RetryOptions, limit \in TimeLimits :
          call' = [call EXCEPT ![c] = [NotCalled EXCEPT
              !.operation = d, !.key = key, !.started = now, !.attempt = 1,
              !.retries = IF option = Unset THEN GlobalRetries ELSE option,
              !.deadline = IF limit = NoTimeout THEN NoTimeout ELSE now + limit,
              !.step = "attempt"]]
    /\ Begin(c, d.scopes)
    /\ UNCHANGED <<wire, effects, executed, refused>>

\* The method returns, on an answer or without one.
Returns(c, answer, result) ==
    call' = [call EXCEPT ![c].step = "done", ![c].answer = answer, ![c].result = result]

FailRequest(c, d) ==
    /\ ~crashed
    /\ call[c].step = "idle"
    /\ d.name \in Calls
    /\ call' = [call EXCEPT ![c].operation = d, ![c].step = "done", ![c].result = "error"]
    /\ UNCHANGED <<sessionVars, wire, effects, executed, refused>>

\* The hook failed: not retried.
Denied(c) ==
    /\ FailBeforeRequest(c)
    /\ Returns(c, NoAnswer, "error")
    /\ UNCHANGED <<wire, effects, executed, refused>>

\* Defect: the attempts after the first have lost the key.
Message_KeyOnce(c) ==
    [caller |-> c, attempt |-> call[c].attempt,
     key |-> IF call[c].attempt = 1 THEN call[c].key ELSE NoKey]

\* The request of an attempt: its headers are set once, for every attempt.
Message(c) == [caller |-> c, attempt |-> call[c].attempt, key |-> call[c].key]

\* Defect: the request is made without the context of the operation.
Do_NoDeadline(c) ==
    /\ SendRequest(c, Due(HTTPTimeout))
    /\ wire' = wire \union {Message(c)}
    /\ UNCHANGED <<call, effects, executed, refused>>

\* Client.Do, under the context of the operation.
Do(c) ==
    /\ IF Expired(c)
       THEN /\ SendRequest(c, now)
            /\ UNCHANGED wire
       ELSE /\ SendRequest(c, IF call[c].deadline # NoTimeout /\ call[c].deadline < Due(HTTPTimeout)
                              THEN call[c].deadline ELSE Due(HTTPTimeout))
            /\ wire' = wire \union {Message(c)}
    /\ UNCHANGED <<call, effects, executed, refused>>

\* utils.Retry after an attempt that may be tried again: the delay fits into
\* the time left, if that is limited, or the last outcome is the outcome.
BackOff(c, answer, result) ==
    \E wait \in Intervals :
        IF MaxElapsed # 0 /\ now + wait > call[c].started + MaxElapsed
        THEN Returns(c, answer, result)
        ELSE call' = [call EXCEPT ![c].step = "backoff", ![c].answer = answer, ![c].wake = now + wait]

\* Defect: a call with a configuration or without one is tried again.
Retried_Unasked(c, answer) == answer.status \in RetryCodes

\* Whether an answer makes utils.Retry try again.
Retried(c, answer) == Retrying(c) /\ answer.status \in RetryCodes

\* An answer.  Outside of utils.Retry, AfterError is called for the statuses
\* of the "default" response; within, never.
Answered(c, d) ==
    LET answer == call[c].answer IN
    /\ answer # NoAnswer
    /\ IF Retried(c, answer)
       THEN BackOff(c, answer, Decode(d, answer))
       ELSE Returns(c, answer, Decode(d, answer))
    /\ AfterExchange(c, /\ call[c].retries = NoRetries
                        /\ MatchStatusCodes(DefaultCodes, answer.status)
                        /\ answer.status = 401)
    /\ refused' = IF answer.status = 401
                  THEN (refused \union {hook[c].held}) \ {NoSession}
                  ELSE refused
    /\ UNCHANGED <<wire, effects, executed>>

\* The exchange fails or times out, also when the answer was on its way.  A
\* temporary error is retried if the configuration says so.
Lost(c) ==
    /\ AfterExchange(c, FALSE)
    /\ \E temporary \in BOOLEAN :
          IF Retrying(c) /\ call[c].retries.conn /\ temporary
          THEN BackOff(c, NoAnswer, "error") ELSE Returns(c, NoAnswer, "error")
    /\ UNCHANGED <<wire, effects, executed, refused>>

\* Defect: only the first attempt goes through the hooks.
Resume_NoHooks(c, d) ==
    /\ ~crashed
    /\ call[c].step = "backoff"
    /\ now = call[c].wake
    /\ hook' = [hook EXCEPT ![c].step = "ready"]
    /\ call' = [call EXCEPT ![c].step = "attempt", ![c].answer = NoAnswer, ![c].attempt = @ + 1]
    /\ UNCHANGED <<now, sessions, crashed, wire, effects, executed, refused>>

\* Defect: the hooks are entered and the attempt is not noted.
Resume_StillWaiting(c, d) ==
    /\ call[c].step = "backoff"
    /\ now = call[c].wake
    /\ Begin(c, d.scopes)
    /\ call' = [call EXCEPT ![c].answer = NoAnswer, ![c].attempt = @ + 1]
    /\ UNCHANGED <<wire, effects, executed, refused>>

\* Defect: a context that is done by the end of the delay is not noticed.
Resume_Undone(c, d) ==
    /\ ~crashed
    /\ call[c].step = "backoff"
    /\ now = call[c].wake
    /\ ~Expired(c)
    /\ Begin(c, d.scopes)
    /\ call' = [call EXCEPT ![c].step = "attempt", ![c].answer = NoAnswer, ![c].attempt = @ + 1]
    /\ UNCHANGED <<wire, effects, executed, refused>>

\* The next attempt, through the hooks again, unless the context is done.
Resume(c, d) ==
    /\ ~crashed
    /\ call[c].step = "backoff"
    /\ now = call[c].wake
    /\ IF Expired(c)
       THEN Returns(c, NoAnswer, "error") /\ UNCHANGED sessionVars
       ELSE /\ Begin(c, d.scopes)
            /\ call' = [call EXCEPT ![c].step = "attempt", ![c].answer = NoAnswer,
                                    ![c].attempt = @ + 1]
    /\ UNCHANGED <<wire, effects, executed, refused>>

\* The body that all methods share.
V1Call(c, d) ==
    \/ Request(c, d)
    \/ FailRequest(c, d)
    \/ /\ call[c].operation = d
       /\ \/ Denied(c)
          \/ Do(c)
          \/ Answered(c, d)
          \/ Lost(c)
          \/ Resume(c, d)

----------------------------------------------------------------------------
\* The methods of V1.
GetServerInfo(c) == V1Call(c, Get("GetServerInfo"))
GetTransactions(c) == V1Call(c, Get("GetTransactions"))
ListWallets(c) == V1Call(c, Get("ListWallets"))
CreateWallet(c) == V1Call(c, Write("CreateWallet", {201}))
GetWallet(c) == V1Call(c, [Get("GetWallet") EXCEPT !.blank = {404}])
UpdateWallet(c) == V1Call(c, Write("UpdateWallet", {204}))
GetWalletSummary(c) == V1Call(c, [Get("GetWalletSummary") EXCEPT !.blank = {404}])
ListBalances(c) == V1Call(c, [Get("ListBalances") EXCEPT !.typed = FALSE])
CreateBalance(c) == V1Call(c, Write("CreateBalance", {201}))
GetBalance(c) == V1Call(c, Get("GetBalance"))
DebitWallet(c) == V1Call(c, Write("DebitWallet", {201, 204}))
CreditWallet(c) == V1Call(c, Write("CreditWallet", {204}))
GetHolds(c) == V1Call(c, Get("GetHolds"))
GetHold(c) == V1Call(c, Get("GetHold"))
ConfirmHold(c) == V1Call(c, Write("ConfirmHold", {204}))
VoidHold(c) == V1Call(c, [Write("VoidHold", {204}) EXCEPT !.body = FALSE])

V1(c) ==
    \/ GetServerInfo(c) \/ GetTransactions(c) \/ ListWallets(c) \/ CreateWallet(c)
    \/ GetWallet(c) \/ UpdateWallet(c) \/ GetWalletSummary(c) \/ ListBalances(c)
    \/ CreateBalance(c) \/ GetBalance(c) \/ DebitWallet(c) \/ CreditWallet(c)
    \/ GetHolds(c) \/ GetHold(c) \/ ConfirmHold(c) \/ VoidHold(c)

\* The hook, in the middle of a method.
Hook(c) ==
    /\ BeforeRequest(c) \/ doTokenRequest(c) \/ StoreSession(c)
    /\ UNCHANGED callVars

----------------------------------------------------------------------------
\* The service: the answers it may give without executing the operation, and
\* those it may give, itself or through a gateway, after executing it.
Refusals(d) ==
    NewRouter[d.name].refuses \union {internalError} \union Gateway
    \union (IF d.name \in Public THEN {} ELSE {Unauthorized})
    \union (IF d.body THEN limitRequestBody ELSE {})

Successes(d) ==
    NewRouter[d.name].does \union {internalError} \union (Gateway \ {Answer(429, "other")})

Remembered(c, key) == <<key, call[c].operation.name>> \in executed

\* The client still waits for the answer to this very request.
Awaited(m) == hook[m.caller].step = "sent" /\ call[m.caller].attempt = m.attempt

Deliver(m, answer) ==
    call' = IF Awaited(m) THEN [call EXCEPT ![m.caller].answer = answer] ELSE call

\* A request is refused, or fails before it had an effect.
Refuse(m) ==
    /\ \E answer \in Refusals(call[m.caller].operation) : Deliver(m, answer)
    /\ wire' = wire \ {m}
    /\ UNCHANGED <<sessionVars, effects, executed, refused>>

\* A request is executed.  The ledger executes what comes under a key once,
\* answers it again, and refuses another operation under the same key.
Execute(m) ==
    LET c == m.caller
        key == m.key
    IN  /\ \/ Remembered(c, key)
           \/ \A e \in executed : e[1] # key
        /\ IF Remembered(c, key) THEN UNCHANGED <<effects, executed>>
           ELSE /\ effects' = [effects EXCEPT ![c] = @ + 1]
                /\ executed' = IF key = NoKey THEN executed
                               ELSE executed \union {<<key, call[c].operation.name>>}
        /\ \E answer \in Successes(call[c].operation) : Deliver(m, answer)
        /\ wire' = wire \ {m}
        /\ UNCHANGED <<sessionVars, refused>>

Crash(c) == MapRace(c) /\ UNCHANGED callVars

\* Time passes, up to the wake of a caller that sleeps between two attempts.
Wait ==
    /\ \A c \in Callers : call[c].step = "backoff" => now < call[c].wake
    /\ \E c \in Callers : call[c].step # "done"
    /\ Tick
    /\ UNCHANGED callVars

Next ==
    \/ \E c \in Callers : V1(c) \/ Hook(c) \/ Crash(c)
    \/ \E m \in wire : Refuse(m) \/ Execute(m)
    \/ Wait

\* A goroutine that makes a call goes on; a token request and an exchange end,
\* by the timeout of the http client if not before; the clock advances.
Progress(c) ==
    call[c].step \in {"attempt", "backoff"} /\ (V1(c) \/ Hook(c))

Spec == Init /\ [][Next]_vars

FairSpec == Spec /\ WF_vars(Wait) /\ \A c \in Callers : WF_vars(Progress(c))
----------------------------------------------------------------------------
TypeOK ==
    /\ SessionTypeOK
    /\ \A c \in Callers :
        /\ call[c].step \in {"idle", "attempt", "backoff", "done"}
        /\ call[c].result \in {"none", "error", "ok", "blank", "SDKError", "ErrorResponse",
                               "undecodable"}
        /\ call[c].attempt \in Nat
        /\ call[c].wake \in Nat
        /\ call[c].step = "attempt" <=> hook[c].step # "idle"
    /\ effects \in [Callers -> Nat]
    /\ executed \subseteq Keys \X Operations
    /\ \A m \in wire : call[m.caller].attempt >= m.attempt

(***************************************************************************)
(* A write that the client reports as done was executed, by this call or,  *)
(* under its key, by an earlier attempt or an equal call: no refusal, late *)
(* answer or answer to another attempt is taken for a success.             *)
(***************************************************************************)
AckMeansDone ==
    \A c \in Callers :
        call[c].result = "ok" /\ IsWrite(call[c].operation) => effects[c] > 0 \/ Remembered(c, call[c].key)

(***************************************************************************)
(* However often the client retries a keyed operation, and although        *)
(* requests it has given up arrive late, the calls under one key have one  *)
(* effect between them: every attempt carries the key.                     *)
(***************************************************************************)
OneEffectPerKey ==
    \A c, d \in Callers :
        /\ call[c].key # NoKey => effects[c] <= 1
        /\ call[c].key # NoKey /\ c # d /\ call[d].key = call[c].key => effects[c] + effects[d] <= 1

(***************************************************************************)
(* A call with no back-off in force is sent once: without a key, and       *)
(* whatever happens to its answer, it has at most one effect.              *)
(***************************************************************************)
UnretriedOnce ==
    \A c \in Callers :
        call[c].retries = NoRetries \/ ~call[c].retries.backoff =>
            call[c].attempt <= 1 /\ effects[c] <= 1

(***************************************************************************)
(* The client understands the service: an answer by which a handler says   *)
(* that it did the operation is returned as a success, for each route and  *)
(* its method.                                                             *)
(***************************************************************************)
SuccessIsUnderstood ==
    \A c \in Callers :
        /\ call[c].step = "done"
        /\ call[c].answer # NoAnswer
        /\ call[c].answer \in NewRouter[call[c].operation.name].does
        => call[c].result = "ok"

(***************************************************************************)
(* A call that is still running is within the time that its retry          *)
(* configuration allows, if it names one (a MaxElapsedTime of 0 does not), *)
(* beyond which it has at most one token request and one request to wait   *)
(* for; and it does not wait for the service past the time limit of the    *)
(* operation.                                                              *)
(***************************************************************************)
CallDuration ==
    /\ \A c \in Callers :
        call[c].step \in {"attempt", "backoff"} /\ (Retrying(c) => MaxElapsed # 0) =>
            now - call[c].started <= (IF Retrying(c) THEN MaxElapsed ELSE 0) + 2 * HTTPTimeout
    /\ \A m \in wire :
        Awaited(m) /\ call[m.caller].deadline # NoTimeout => now <= call[m.caller].deadline

(***************************************************************************)
(* Every call returns, unless the process is stopped by the race on the    *)
(* map: with a MaxElapsedTime no retry loop runs for ever.                 *)
(***************************************************************************)
EveryCallReturns ==
    \A c \in Callers :
        call[c].step \in {"attempt", "backoff"} ~> (call[c].step = "done" \/ crashed)

(***************************************************************************)
(* hooks.go:60: the AfterError hook is called after a non-successful       *)
(* response; it drops the session of a caller that was answered 401, so    *)
(* that the token the service refused is not sent again.                   *)
(***************************************************************************)
RefusedTokenDropped == sessions \notin refused

(***************************************************************************)
(* README.md of the client, "Error Handling": an error is an ErrorResponse *)
(* or an SDKError.  Here: of the answers of the service, none is returned  *)
(* as a failure to decode.                                                 *)
(***************************************************************************)
ErrorsAreTyped == \A c \in Callers : call[c].result # "undecodable"

(***************************************************************************)
(* formance.go:133: the timeout is applied to each operation.  Here: no    *)
(* call runs past its time limit.                                          *)
(***************************************************************************)
LimitBoundsTheCall ==
    \A c \in Callers :
        call[c].step \in {"attempt", "backoff"} /\ call[c].deadline # NoTimeout =>
            now <= call[c].deadline
=============================================================================
