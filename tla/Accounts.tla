------------------------------ MODULE Accounts ------------------------------
(***************************************************************************)
(* What the service writes on the accounts and transactions of the ledger, *)
(* and how it finds them again: everything that belongs to a wallet is     *)
(* found by its metadata (src/pkg/metadata.go), page by page.              *)
(*                                                                         *)
(* Metadata is a set of <<prefix, key, value>>: the service's own keys and *)
(* those of its users differ in the prefix.  A list of the ledger goes     *)
(* through the places of its items, which are ordered: accounts by their   *)
(* address, transactions from the newest, at the least place, on.          *)
(***************************************************************************)
EXTENDS Integers, FiniteSets, SequencesExt

CONSTANTS
    AnyValue,       \* a parameter of a list that is not given
    Live            \* the view of a cursor whose pages are of the time they are read

\* A list without a pagination token, or its end.
NoCursor == <<>>

MainBalance == "main"

Reserved(key, value) == <<"wallets/", key, value>>

\* Defect: users' keys are written as they are.
EncodeCustomMetadata_Bare(custom) == {Reserved(p[1], p[2]) : p \in custom}

\* EncodeCustomMetadata: a user cannot write a key of the service.
EncodeCustomMetadata(custom) == {<<"wallets/custom_data_", p[1], p[2]>> : p \in custom}

----------------------------------------------------------------------------
\* What LedgerMetadata of a wallet, a balance and a hold write on an account.
WalletMetadata(a) ==
    {Reserved("spec/type", "wallets.primary"), Reserved("name", a.name), Reserved("id", a.wallet),
     Reserved("balances", "true"), Reserved("balances/name", MainBalance)}
    \union EncodeCustomMetadata(a.custom)

BalanceMetadata(a) ==
    {Reserved("id", a.wallet), Reserved("balances", "true"), Reserved("balances/name", a.name)}

HoldMetadata(a) ==
    {Reserved("spec/type", "wallets.hold"), Reserved("holds/wallet_id", a.wallet)}
    \union EncodeCustomMetadata(a.custom)

TransactionMetadata(a) == {Reserved("transaction", "true")} \union EncodeCustomMetadata(a.custom)

\* Somebody else may use the ledger too.
LedgerMetadata(item) ==
    CASE item.kind = "wallet" -> WalletMetadata(item)
      [] item.kind = "balance" -> BalanceMetadata(item)
      [] item.kind = "hold" -> HoldMetadata(item)
      [] item.kind = "transaction" -> TransactionMetadata(item)
      [] item.kind = "foreign" -> {}

----------------------------------------------------------------------------
\* A query of the ledger: metadata, and for transactions an account.
Query(metadata) == [metadata |-> metadata, account |-> AnyValue]

BalancesMetadataFilter(w) == {Reserved("balances", "true"), Reserved("id", w)}

Matches(query, item) ==
    /\ query.metadata \subseteq LedgerMetadata(item)
    /\ query.account # AnyValue => query.account \in item.touches

\* The ledger with one more item.
Added(items, i, item) ==
    [j \in DOMAIN items \union {i} |-> IF j = i THEN item ELSE items[j]]

\* The numbers of a set in their order: the n-th has n - 1 of them below it.
Ascending(S) ==
    [n \in 1 .. Cardinality(S) |-> CHOOSE i \in S : Cardinality({j \in S : j < i}) = n - 1]

\* The ledger: a page of the items after a place.
Places(items, query, after) ==
    Ascending({i \in DOMAIN items : i > after /\ Matches(query, items[i])})

LedgerPage(items, query, limit, after, view) ==
    LET seen == IF view = Live THEN items ELSE view
        rest == Places(seen, query, after)
        data == SubSeq(rest, 1, IF limit < Len(rest) THEN limit ELSE Len(rest))
    IN  [data |-> data,
         rows |-> [n \in 1 .. Len(data) |-> seen[data[n]]],
         next |-> IF Len(rest) <= limit THEN NoCursor
                  ELSE [query |-> query, limit |-> limit, after |-> Last(data), view |-> view]]

\* Less than every place.
Start == -1000

\* A cursor of the ledger shows what there was at the first page, or not.
Views(items) == {items, Live}

\* ListAccounts and ListTransactions of the ledger client: the first page by
\* query and limit, any other one by the cursor alone.
ListFirst(items, view, query, limit) == LedgerPage(items, query, limit, Start, view)
ListCursor(items, cursor) ==
    LedgerPage(items, cursor.query, cursor.limit, cursor.after, cursor.view)

\* Defect: the first page is asked for again.
mapAccountList_Again(items, view, query, limit, token) == ListFirst(items, view, query, limit)

\* mapAccountList, ListTransactions: the pagination token goes before all the
\* other parameters.
mapAccountList(items, view, query, limit, token) ==
    IF token = NoCursor THEN ListFirst(items, view, query, limit) ELSE ListCursor(items, token)
=============================================================================
