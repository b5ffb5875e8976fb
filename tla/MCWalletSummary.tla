-------------------------- MODULE MCWalletSummary --------------------------
\* A wallet with a hold and three balances, without, with a near and with a
\* zero expiry; the hold of another wallet; and what may be created: a hold
\* before and one after them, and a balance.
EXTENDS WalletSummary, TLC

Account(kind, wallet, expiresAt, amount) ==
    [kind |-> kind, wallet |-> wallet, name |-> kind, custom |-> {}, expiresAt |-> expiresAt,
     amount |-> amount]

LongPast == -5

OneWallet ==
    2 :> Account("hold", "w1", Never, 2) @@ 3 :> Account("hold", "w2", Never, 2)
    @@ 4 :> Account("wallet", "w1", Never, 2) @@ 5 :> Account("balance", "w1", 0, 1)
    @@ 6 :> Account("balance", "w1", LongPast, 1)

ToCome ==
    1 :> Account("hold", "w1", Never, 0) @@ 7 :> Account("balance", "w1", 1, 0)
    @@ 9 :> Account("hold", "w1", Never, 0)
=============================================================================
