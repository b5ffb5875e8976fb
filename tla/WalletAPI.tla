----------------------------- MODULE WalletAPI -----------------------------
(***************************************************************************)
(* The HTTP side of the service (src/pkg/api): what each route answers.    *)
(* An answer is a status and a body: "data", an error code, "empty", or    *)
(* "other" for one that is not JSON.  A handler "does" the operation of    *)
(* the manager and says so, or "refuses" it when the manager returned an   *)
(* error that it knows; any other error is an internal error.              *)
(***************************************************************************)
EXTENDS Integers

Answer(status, body) == [status |-> status, body |-> body]

\* pkg/api/utils.go
notFound == Answer(404, "empty")
noContent == Answer(204, "empty")
badRequest(code) == Answer(400, code)
conflict(code) == Answer(409, code)
internalError == Answer(500, "INTERNAL_ERROR")
created == Answer(201, "data")
ok == Answer(200, "data")
Cursor == Answer(200, "data")

\* What limitRequestBody answers instead of the handler.
limitRequestBody == {badRequest("VALIDATION"), Answer(413, "REQUEST_TOO_LARGE")}

\* What the middlewares answer a request that they do not let through.
Unauthorized == Answer(401, "other")

Handler(does, refuses) == [does |-> does, refuses |-> refuses]

----------------------------------------------------------------------------
\* A list: a page size or a cursor that is not one is refused.
listHandler == Handler({Cursor}, {badRequest("VALIDATION")})
listWalletsHandler == listHandler
listBalancesHandler == listHandler
listHoldsHandler == listHandler
listTransactions == listHandler

getWalletHandler == Handler({ok}, {notFound})
walletSummaryHandler == Handler({ok}, {})
getBalanceHandler == Handler({ok}, {notFound})
getHoldHandler == Handler({ok}, {notFound})
InfoHandler == Handler({ok}, {})

\* Defect: the handler answers as for a wallet that was there already.
createWalletHandler_Ok == Handler({ok}, {badRequest("VALIDATION"), conflict("CONFLICT")})

createWalletHandler ==
    Handler({created}, {badRequest("VALIDATION"), conflict("CONFLICT")})

patchWalletHandler == Handler({noContent}, {badRequest("VALIDATION"), notFound})
createBalanceHandler == Handler({created}, {badRequest("VALIDATION")})
creditWalletHandler == Handler({noContent}, {badRequest("VALIDATION")})

\* A pending debit answers with its hold, any other one with nothing.
debitWalletHandler ==
    Handler({created, noContent}, {badRequest("VALIDATION"), badRequest("INSUFFICIENT_FUND")})

confirmHoldHandler ==
    Handler({noContent},
            {badRequest("VALIDATION"), notFound, badRequest("INSUFFICIENT_FUND"),
             badRequest("HOLD_CLOSED")})
voidHoldHandler == Handler({noContent}, {notFound, badRequest("HOLD_CLOSED")})

\* The routes, under the operation ids of openapi.yaml.
NewRouter ==
    [GetServerInfo |-> InfoHandler,
     GetTransactions |-> listTransactions,
     ListWallets |-> listWalletsHandler,
     CreateWallet |-> createWalletHandler,
     GetWallet |-> getWalletHandler,
     UpdateWallet |-> patchWalletHandler,
     GetWalletSummary |-> walletSummaryHandler,
     ListBalances |-> listBalancesHandler,
     CreateBalance |-> createBalanceHandler,
     GetBalance |-> getBalanceHandler,
     DebitWallet |-> debitWalletHandler,
     CreditWallet |-> creditWalletHandler,
     GetHolds |-> listHoldsHandler,
     GetHold |-> getHoldHandler,
     ConfirmHold |-> confirmHoldHandler,
     VoidHold |-> voidHoldHandler]

Operations == DOMAIN NewRouter

\* Routes outside the group that authenticates.
Public == {"GetServerInfo"}

\* What may stand in front of the service answers in its name.
Gateway == {Answer(s, "other") : s \in {429, 502, 503, 504}}
=============================================================================
