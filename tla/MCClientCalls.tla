--------------------------- MODULE MCClientCalls ---------------------------
(***************************************************************************)
(* The calls of one or two goroutines: with and without retries, with and  *)
(* without retries of connection errors, and with a time limit.            *)
(***************************************************************************)
EXTENDS ClientCalls, TLC

CONSTANTS g1, g2, k1

Interchangeable == Permutations(Callers)

OAuthScopes == {"wallets:read", "wallets:write"}

AnsweredOnly == [backoff |-> TRUE, conn |-> FALSE]
AllFailures == [backoff |-> TRUE, conn |-> TRUE]
NoBackOff == [backoff |-> FALSE, conn |-> FALSE]

RetryConfigurations == {AnsweredOnly, AllFailures, NoBackOff, Unset}
FullRetries == {AllFailures}
DefaultRetries == {Unset}

Limits == {NoTimeout, 1}
Unlimited == {NoTimeout}
=============================================================================
