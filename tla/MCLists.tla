------------------------------ MODULE MCLists ------------------------------
\* Two wallets with balances, holds and transactions; one user writes keys of the service.
EXTENDS Lists, TLC

Account(kind, wallet, name, custom) == [kind |-> kind, wallet |-> wallet, name |-> name, custom |-> custom]

Vip == {<<"vip", "yes">>}
\* Custom metadata with the keys that mark the holds of w1.
Posing == {<<"spec/type", "wallets.hold">>, <<"holds/wallet_id", "w1">>}

ThreeOfEach ==
    2 :> Account("wallet", "w1", "a", Vip) @@ 3 :> Account("balance", "w1", "gift", {})
    @@ 5 :> Account("hold", "w1", "", Vip) @@ 6 :> Account("hold", "w2", "", {})
    @@ 7 :> Account("wallet", "w2", "b", Posing) @@ 8 :> Account("foreign", "", "", {})

Created ==
    {Account("hold", "w1", "", {}), Account("balance", "w1", "bonus", {}), Account("wallet", "w3", "a", {})}

VipOrNot == {Vip, {<<"vip", "no">>}}

Transaction(touches) == [kind |-> "transaction", touches |-> touches, custom |-> {}]
Posted ==
    {Transaction({<<"w1", MainBalance>>}), Transaction({<<"w1", "gift">>, <<"w2", MainBalance>>}),
     [kind |-> "foreign", touches |-> {<<"w1", MainBalance>>}, custom |-> {}]}

Request(op, wallet, name, custom) == [op |-> op, wallet |-> wallet, name |-> name, custom |-> custom]
EveryList ==
    {Request("ListWallets", AnyValue, AnyValue, {}), Request("ListWallets", AnyValue, "a", {}),
     Request("ListWallets", AnyValue, AnyValue, Vip), Request("ListHolds", AnyValue, AnyValue, {}),
     Request("ListHolds", "w1", AnyValue, {}), Request("ListHolds", "w1", AnyValue, Vip),
     Request("ListBalances", "w1", AnyValue, {}), Request("ListTransactions", AnyValue, AnyValue, {}),
     Request("ListTransactions", "w1", AnyValue, {})}

Sizes == {NoPageSize, NotANumber, -1, 0, 1, 2, 5}
=============================================================================
