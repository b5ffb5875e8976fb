--------------------------- MODULE ClientSession ---------------------------
(***************************************************************************)
(* The client-credentials hook of the Go client                            *)
(* (src/pkg/client/internal/hooks/clientcredentials.go): one access token  *)
(* kept in a map and shared, with no lock, by every goroutine that calls   *)
(* the service.  BeforeRequest takes the stored token when it covers the   *)
(* scopes of the operation and is a margin away from its expiry; it        *)
(* fetches another one otherwise.  The map has one entry per credentials,  *)
(* independent of the others; this is the entry of one of them.            *)
(*                                                                         *)
(* A local step of a goroutine takes no time; an HTTP exchange takes at    *)
(* most the timeout of the http client.                                    *)
(***************************************************************************)
EXTENDS Integers

CONSTANTS
    Callers,        \* goroutines that use the client
    Scopes,         \* OAuth2 scopes
    Margin,         \* a token this close to its expiry is not used again
    HTTPTimeout,    \* longest exchange of the http client
    Lifetimes,      \* expires_in that the token endpoint answers
    NoExpiry,       \* a token reply without expires_in
    Secured,        \* whether the client was given a security source
    NoSession,      \* no entry in the map, no token held
    MaxTime         \* bound: instants

\* The margin is 60 seconds; so is the timeout of the http client by default.
ASSUME MarginAssumption ==
    /\ Margin \in Nat
    /\ HTTPTimeout \in Nat
    /\ HTTPTimeout <= Margin

ASSUME SessionAssumption ==
    /\ Lifetimes \subseteq Nat
    /\ NoExpiry \notin Nat
    /\ Secured \in BOOLEAN
    /\ MaxTime \in Nat

Session == [scopes : SUBSET Scopes, expiresAt : Nat \union {NoExpiry}]

ASSUME NoSessionAssumption == NoSession \notin Session

VARIABLES
    now,            \* the clock, in units of a second or more
    sessions,       \* the entry of the map, or NoSession
    hook,           \* what each goroutine does in the hook
    crashed         \* the runtime stopped the process

sessionVars == <<now, sessions, hook, crashed>>

Idle == [step |-> "idle", needs |-> {}, asks |-> {}, held |-> NoSession,
         reused |-> FALSE, due |-> 0]

SessionTypeOK ==
    /\ now \in Nat
    /\ sessions \in Session \union {NoSession}
    /\ hook \in [Callers -> [step : {"idle", "lookup", "token", "store", "ready", "sent"},
                             needs : SUBSET Scopes, asks : SUBSET Scopes,
                             held : Session \union {NoSession},
                             reused : BOOLEAN, due : Nat]]
    /\ crashed \in BOOLEAN

SessionInit ==
    /\ now = 0
    /\ sessions = NoSession
    /\ hook = [c \in Callers |-> Idle]
    /\ crashed = FALSE

Due(delay) == now + delay

----------------------------------------------------------------------------
\* A session has every scope that the operation needs.
hasRequiredScopes(sess, needs) == needs \subseteq sess.scopes

\* Defect: the margin is left out.
hasTokenExpired_NoMargin(sess) ==
    sess.expiresAt = NoExpiry \/ now >= sess.expiresAt

\* Without an expiry the token is never used a second time.
hasTokenExpired(sess) ==
    sess.expiresAt = NoExpiry \/ now + Margin >= sess.expiresAt

\* Defect: the scopes of the operation are not added to the stored ones.
getScopes_Stored(needs, sess) == IF sess = NoSession THEN needs ELSE sess.scopes

\* The scopes to ask for: the operation's, and those the session already has.
getScopes(needs, sess) == IF sess = NoSession THEN needs ELSE needs \union sess.scopes

\* The stored session serves the operation.
Serves(sess, needs) ==
    /\ sess # NoSession
    /\ hasRequiredScopes(sess, needs)
    /\ ~hasTokenExpired(sess)

----------------------------------------------------------------------------
\* A goroutine enters the hook for an attempt at an operation.
Begin(c, needs) ==
    /\ ~crashed
    /\ hook[c].step = "idle"
    /\ hook' = [hook EXCEPT ![c] = [Idle EXCEPT !.step = "lookup", !.needs = needs]]
    /\ UNCHANGED <<now, sessions, crashed>>

\* The read of the map.  A client without security sends no token.
BeforeRequest(c) ==
    /\ ~crashed
    /\ hook[c].step = "lookup"
    /\ LET h == hook[c] IN
       hook' = [hook EXCEPT ![c] =
          IF ~Secured THEN [h EXCEPT !.step = "ready"]
          ELSE IF Serves(sessions, h.needs)
          THEN [h EXCEPT !.step = "ready", !.held = sessions, !.reused = TRUE]
          ELSE [h EXCEPT !.step = "token", !.asks = getScopes(h.needs, sessions),
                         !.due = Due(HTTPTimeout)]]
    /\ UNCHANGED <<now, sessions, crashed>>

\* The token endpoint grants what was asked; the expiry counts from the reply.
doTokenRequest(c) ==
    /\ ~crashed
    /\ hook[c].step = "token"
    /\ \E life \in Lifetimes \union {NoExpiry} :
          hook' = [hook EXCEPT
              ![c].step = "store",
              ![c].held = [scopes |-> hook[c].asks,
                           expiresAt |-> IF life = NoExpiry THEN NoExpiry ELSE now + life]]
    /\ UNCHANGED <<now, sessions, crashed>>

\* The credentials cannot be had, or the token request fails or times out.
FailBeforeRequest(c) ==
    /\ ~crashed
    /\ Secured
    /\ hook[c].step \in {"lookup", "token"}
    /\ hook' = [hook EXCEPT ![c] = Idle]
    /\ UNCHANGED <<now, sessions, crashed>>

\* The write of the map: the last goroutine to store wins.
StoreSession(c) ==
    /\ ~crashed
    /\ hook[c].step = "store"
    /\ sessions' = hook[c].held
    /\ hook' = [hook EXCEPT ![c].step = "ready"]
    /\ UNCHANGED <<now, crashed>>

\* A map written while it is read or written stops a Go process, or does not.
MapRace(c) ==
    /\ ~crashed
    /\ hook[c].step = "store"
    /\ \E d \in Callers \ {c} : hook[d].step \in {"lookup", "store"}
    /\ crashed' = TRUE
    /\ UNCHANGED <<now, sessions, hook>>

\* The request leaves with the token; it is over at the latest at its due time.
SendRequest(c, due) ==
    /\ ~crashed
    /\ hook[c].step = "ready"
    /\ hook' = [hook EXCEPT ![c].step = "sent", ![c].due = due]
    /\ UNCHANGED <<now, sessions, crashed>>

\* The exchange is over; AfterError, where it is called, drops the session
\* of a caller that was answered 401.
AfterExchange(c, dropped) ==
    /\ ~crashed
    /\ hook[c].step = "sent"
    /\ hook' = [hook EXCEPT ![c] = Idle]
    /\ sessions' = IF dropped /\ Secured THEN NoSession ELSE sessions
    /\ UNCHANGED <<now, crashed>>

\* Time passes when no goroutine has a local step to take and no exchange is due.
Waits(c) ==
    \/ hook[c].step = "idle"
    \/ hook[c].step \in {"token", "sent"} /\ now < hook[c].due

Tick ==
    /\ ~crashed
    /\ now < MaxTime
    /\ \A c \in Callers : Waits(c)
    /\ now' = now + 1
    /\ UNCHANGED <<sessions, hook, crashed>>

----------------------------------------------------------------------------
SessionNext ==
    \/ \E c \in Callers :
          \/ \E needs \in SUBSET Scopes : Begin(c, needs)
          \/ BeforeRequest(c)
          \/ doTokenRequest(c)
          \/ FailBeforeRequest(c)
          \/ StoreSession(c)
          \/ MapRace(c)
          \/ \E due \in now .. Due(HTTPTimeout) : SendRequest(c, due)
          \/ \E dropped \in BOOLEAN : AfterExchange(c, dropped)
    \/ Tick

SessionSpec == SessionInit /\ [][SessionNext]_sessionVars

----------------------------------------------------------------------------
(***************************************************************************)
(* A request sent with a token taken from the map is over before the       *)
(* expiry the client computed for that token: the margin of                *)
(* hasTokenExpired covers the longest exchange, also when other goroutines *)
(* replace or drop the entry meanwhile.                                    *)
(***************************************************************************)
ReusedTokenOutlivesRequest ==
    \A c \in Callers :
        hook[c].step = "sent" /\ hook[c].reused =>
            hook[c].held.expiresAt # NoExpiry /\ now < hook[c].held.expiresAt

(***************************************************************************)
(* A request is sent with a token that was asked for at least the scopes   *)
(* of its operation, although goroutines with fewer scopes overwrite the   *)
(* shared entry with narrower tokens.                                      *)
(***************************************************************************)
TokenCoversRequest ==
    \A c \in Callers :
        Secured /\ hook[c].step = "sent" =>
            hook[c].held # NoSession /\ hook[c].needs \subseteq hook[c].held.scopes

\* The inductive invariant: what a goroutine has in hand covers its operation
\* from the token request on; a session it took from the map has the margin
\* left when the request is about to leave, and outlasts the request then.
Covers(h) ==
    /\ h.step = "token" => h.needs \subseteq h.asks
    /\ h.step = "store" \/ (Secured /\ h.step \in {"ready", "sent"}) =>
          h.held \in Session /\ h.needs \subseteq h.held.scopes

Outlasts(h) ==
    /\ h.step \notin {"ready", "sent"} => ~h.reused
    /\ h.reused /\ h.step \in {"ready", "sent"} => h.held \in Session /\ h.held.expiresAt \in Nat
    /\ h.reused /\ h.step = "ready" => now + Margin < h.held.expiresAt
    /\ h.reused /\ h.step = "sent" => now <= h.due /\ h.due < h.held.expiresAt

SessionInv ==
    /\ SessionTypeOK
    /\ \A c \in Callers : Covers(hook[c]) /\ Outlasts(hook[c])
=============================================================================
