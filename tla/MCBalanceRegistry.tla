------------------------- MODULE MCBalanceRegistry --------------------------
(***************************************************************************)
(* Small instances of BalanceRegistry for TLC.                             *)
(***************************************************************************)
EXTENDS BalanceRegistry

CONSTANTS k1, k2, a0, a1, a2

\* "gift-card" and "giftcard" are one address; "ma-in" is that of main.
MCAccountOf ==
    [n \in ValidNames |->
        CASE n \in {"main", "ma-in"} -> a0
          [] n \in {"gift-card", "giftcard"} -> a1
          [] OTHER -> a2]

Create(key, name, expiry, priority) ==
    [key |-> key, name |-> name, expiry |-> expiry, priority |-> priority]

\* Four clients that want one address, two of them under a key, a key that
\* serves for another balance too, and names that are refused.
MCRequests ==
    {Create(k1, "giftcard", Never, 1), Create(k2, "giftcard", 5, 2),
     Create(NoKey, "gift-card", 7, 1), Create(k1, "vouchers", Never, 1),
     Create(k2, "ma-in", Never, 1), Create(NoKey, "main", Never, 1),
     Create(NoKey, "gift card", Never, 1)}

\* A key that is used for two different balances of one name.
ReusedKeyRequests ==
    {Create(k1, "giftcard", Never, 1), Create(k1, "giftcard", 5, 2)}

=============================================================================
