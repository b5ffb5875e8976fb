--------------------------- MODULE MCWalletFunds ---------------------------
(***************************************************************************)
(* Instances of WalletFunds for TLC: two handlers, a main balance and two  *)
(* others, one more that does not exist, the holds that two keys derive    *)
(* and one with a random identifier.  Each cfg chooses the requests that   *)
(* its question needs.                                                     *)
(***************************************************************************)
EXTENDS WalletFundsInvariant, TLC

\* Handlers are interchangeable.
HandlerSymmetry == Permutations(Handlers)

MCHoldIdOf == [k1 |-> "hold1", k2 |-> "hold2"]

\* bonus and gift are live when the service starts; gift expires first.
MCExpiry == [main |-> Never, bonus |-> Never, gift |-> 1, spare |-> Never]

MCPriority == [main |-> 0, bonus |-> 1, gift |-> 0, spare |-> 0]

credit(key, n, to) == [op |-> "credit", key |-> key, amount |-> n, from |-> <<>>, to |-> to]

debit(key, n, from, to) ==
    [op |-> "debit", key |-> key, amount |-> n, pending |-> FALSE, timed |-> FALSE, all |-> FALSE, from |-> from, to |-> to]

hold(key, n, from, to) == [debit(key, n, from, to) EXCEPT !.pending = TRUE]

All(req) == [req EXCEPT !.all = TRUE]

confirm(key, h, n, final) == [op |-> "confirm", key |-> key, hold |-> h, amount |-> n, final |-> final]

void(key, h) == [op |-> "void", key |-> key, hold |-> h]

\* Settling: a hold over two balances, confirmed in part, to the end, with and
\* without final, and voided, by two handlers at a time; beside it a hold that is
\* also paid by a plain debit, by a confirmation of another one, and drained.
SettleRequests ==
    {credit(NoKey, 2, "main"), credit(NoKey, 1, "bonus"),
     hold("k1", 3, <<"bonus", "main">>, "gift"),
     confirm(NoKey, "hold1", 0, FALSE), confirm(NoKey, "hold1", 17, FALSE),
     confirm(NoKey, "hold1", -1, TRUE), void(NoKey, "hold1"),
     debit(NoKey, 1, <<>>, "hold2"), hold("k2", 1, <<>>, "world"),
     hold(NoKey, 1, <<>>, "hold2"), [credit(NoKey, 1, "main") EXCEPT !.from = <<"hold2">>],
     confirm(NoKey, "hold2", 0, TRUE), confirm(NoKey, "hold3", 0, FALSE),
     void(NoKey, "hold2")}

\* Retrying: keyed debits, at once and pending, of one balance or all of them,
\* repeated while a source expires and while others spend; one key used by
\* two requests.
RetryRequests ==
    {credit("k2", 1, "main"), credit(NoKey, 1, "gift"), [credit(NoKey, 1, "bonus") EXCEPT !.from = <<"gift", "main">>],
     hold("k1", 1, <<"gift", "main">>, "world"), debit("k1", 1, <<>>, "world"),
     All(debit(NoKey, 2, <<>>, "world")), All(hold("k1", 1, <<>>, "world")),
     hold(NoKey, 1, <<"gift">>, "bonus"),
     debit(NoKey, 1, <<>>, "hold3"), [credit(NoKey, 1, "bonus") EXCEPT !.from = <<"hold3">>],
     credit(NoKey, 1, "spare"), debit(NoKey, 1, <<"main", "spare">>, "world"),
     [hold("k2", 1, <<>>, "world") EXCEPT !.timed = TRUE],
     confirm("k2", "hold1", 1, FALSE), void("k2", "hold1"), void(NoKey, "hold3")}

\* Large amounts: with Word = 2, the hold of 2 stands for one of 2^64 and the
\* hold of 3 for one of 2^64 + 1.
WordRequests ==
    {credit(NoKey, 2, "main"), credit(NoKey, 3, "main"),
     hold("k1", 2, <<>>, "world"), hold("k1", 3, <<>>, "world"),
     confirm(NoKey, "hold1", 0, FALSE), void(NoKey, "hold1")}
=============================================================================
