-------------------------- MODULE MCWalletRegistry --------------------------
(***************************************************************************)
(* Small instances of WalletRegistry for TLC.                              *)
(***************************************************************************)
EXTENDS WalletRegistry, TLC

CONSTANTS k1, k2, w1, w2, w3, color, plan, red, blue

MCIdOf == [k \in Keys |-> IF k = k1 THEN w1 ELSE w2]

Plain == [f \in Fields |-> None]
Only(field, value) == [f \in Fields |-> IF f = field THEN value ELSE None]

Create(key, name, metadata) ==
    [op |-> "create", key |-> key, name |-> name, metadata |-> metadata]
Update(key, id, metadata) ==
    [op |-> "update", key |-> key, id |-> id, metadata |-> metadata]

Interchangeable == Permutations(Handlers)

\* Two ways to write one create, another create under its key, and one without
\* a key; patches of the wallet: one under a key of its own, one of another
\* field, and one under the key of the create.
WalletRequests ==
    {Create(k1, "alice", Nil), Create(k1, "alice", Plain), Create(k1, "bob", Only(color, red)),
     Create(NoKey, "alice", Nil),
     Update(k2, w1, Only(color, blue)), Update(NoKey, w1, Only(plan, red)),
     Update(k1, w1, Only(color, blue))}

=============================================================================
