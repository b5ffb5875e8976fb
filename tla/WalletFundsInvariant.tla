------------------------ MODULE WalletFundsInvariant ------------------------
(***************************************************************************)
(* The inductive invariant of WalletFunds: what must hold of the requests  *)
(* in flight and of the ledger's record of keys for the safety properties  *)
(* to survive every step.                                                  *)
(***************************************************************************)
EXTENDS WalletFunds

Funded(h) == funding[h] # <<>>

\* The one transaction that funds h.
Postings(h) == funding[h][1]

\* The account of an apart hold is untouched, or has one funding transaction,
\* which brought all that ever came in.
FundingOK ==
    \A h \in ApartHolds :
        IF Funded(h)
        THEN /\ funding[h] = <<Postings(h)>>
             /\ original[h] = Yield(Postings(h).cut, Postings(h).from)
             /\ original[h] > 0
             /\ destination[h] # None
        ELSE /\ original[h] = 0
             /\ destination[h] = None

\* Refunds happen once, when the hold is voided.
RefundsOK ==
    /\ RefundBounded
    /\ \A h \in ApartHolds, b \in Balances : status[h] # "voided" => refunded[h][b] = 0

\* An identifier in a debit on its way is its key's, or random and used by
\* nobody else.
OwnHold(p) ==
    /\ handler[p].req.op = "debit"
    /\ IF Key(p) # NoKey THEN Body(p).hold = HoldIdOf[Key(p)]
       ELSE /\ \A k \in Keys : Body(p).hold # HoldIdOf[k]
            /\ ~IsHold(Body(p).hold)
            /\ \A q \in Handlers :
                  Posting(q) /\ Body(q).script = "send" /\ Body(q).hold = Body(p).hold => q = p

HoldIdsOK ==
    /\ \A k \in Keys : IsHold(HoldIdOf[k]) => k \in DOMAIN journal
    /\ \A p \in Handlers :
          Posting(p) /\ Body(p).script = "send" /\ Body(p).hold # None => OwnHold(p)

\* The confirmation of all that remains: the amount read then is at least what
\* remains now (amounts below 2^64).
CoversAll(req, amount) ==
    Uint64(req.amount) = 0 /\ original[req.hold] < Word => amount >= balance[req.hold]

\* A body on its way to settle an apart hold agrees with it.
SettlementOK(p) ==
    /\ handler[p].req.op = "confirm" =>
          /\ Funded(Body(p).hold)
          /\ Body(p).final = handler[p].req.final
          /\ CoversAll(handler[p].req, Body(p).amount)
    /\ handler[p].req.op = "void" =>
          /\ Funded(Body(p).hold)
          /\ Body(p).postings = Postings(Body(p).hold)

\* The request settles a hold that is apart.
Settles(req) == req.op \in {"confirm", "void"} /\ req.hold \in ApartHolds

SettlementsOK ==
    \A p \in Handlers : handler[p].pc # "idle" /\ Settles(handler[p].req) => SettlementOK(p)

\* What the ledger has recorded under a key did happen.
EntryOK(entry) ==
    /\ entry.req.op = "void" => status[entry.req.hold] = "voided"
    /\ entry.req.op = "confirm" =>
          /\ entry.body.final => status[entry.req.hold] = "confirmed"
          /\ Uint64(entry.req.amount) = 0 /\ original[entry.req.hold] < Word =>
                status[entry.req.hold] = "confirmed"

JournalOK == \A k \in DOMAIN journal : Settles(journal[k].req) => EntryOK(journal[k])

\* Answers are true, a keyed request is acknowledged only once its key is
\* recorded, and only a hold is said to be closed.
AcksOK ==
    /\ VoidAckTruthful
    /\ ConfirmAckTruthful
    /\ ClosedReplyTruthful
    /\ \A p \in Handlers :
          handler[p].pc = "idle" /\ handler[p].reply = "ok" /\ Key(p) # NoKey => Key(p) \in DOMAIN journal
    /\ \A p \in Handlers : handler[p].reply = "ClosedHold" => handler[p].req \in ConfirmRequests \union VoidRequests

\* The inductive invariant.
Inv ==
    /\ TypeOK
    /\ FundingOK
    /\ HoldConservation
    /\ RefundsOK
    /\ HoldIdsOK
    /\ SettlementsOK
    /\ JournalOK
    /\ AcksOK

-----------------------------------------------------------------------------
(* The debits under a key.                                                   *)

\* The hold of a debit under a key.
KeyedHold(req) == IF req.pending THEN HoldIdOf[req.key] ELSE None

\* What Debit makes at t of a request under a key is the body that it made
\* before, as no balance that it may take from is one that expires.
Repeats(req, body, t) ==
    /\ req.key \in Keys
    /\ ~Malformed(req)
    /\ ~NonIdempotent(req, t)
    /\ ~AllExpired(req, t)
    /\ \E from \in Sources(req, t) : body = Send(from, req.amount, req.to, KeyedHold(req))

\* The debits under a key that are on their way, and those that the ledger has
\* recorded.
DebitsOK ==
    /\ \A p \in Handlers :
          Posting(p) /\ handler[p].req.op = "debit" /\ Key(p) # NoKey =>
              Repeats(handler[p].req, Body(p), now)
    /\ \A k \in DOMAIN journal :
          journal[k].req.op = "debit" => Repeats(journal[k].req, journal[k].body, now)

\* A debit on its way takes from balances in the order of its request, and pays
\* where its request says.
InOrder(req, s) == \A i, j \in DOMAIN s : i < j => MayPrecede(req, s[i], s[j])

SourcesOK ==
    \A p \in Handlers :
        Posting(p) /\ handler[p].req.op = "debit" =>
            /\ InOrder(handler[p].req, Body(p).from)
            /\ Body(p).to = handler[p].req.to
=============================================================================
