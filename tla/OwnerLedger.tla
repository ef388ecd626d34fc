----------------------------- MODULE OwnerLedger -----------------------------
(***************************************************************************)
(* The owner's derived balance: src/payout/ledger.ts, and the mapping from *)
(* a RevenueLedgerEntry row to a ledger entry that feeds it,               *)
(* mapEntryRow of src/payout/prisma-sources.ts.                            *)
(*                                                                         *)
(* A row is a record                                                       *)
(*   [key, owner, entryType, state, amount, ledgerType, recent]            *)
(* where key is the unique idempotency key, ledgerType is "none" on a row  *)
(* that carries no metadata.ledgerType stamp, and recent says whether the  *)
(* row was created within the last 24 hours.  One currency is modelled, so *)
(* the currency filter of the source is the owner filter.                  *)
(***************************************************************************)
EXTENDS Integers, FiniteSetsExt

LedgerEntryType ==
  { "REVENUE", "PLATFORM_FEE", "OWNER_ENTITLEMENT", "PAYOUT_RESERVED",
    "PAYOUT_SETTLED", "PAYOUT_RELEASED", "ADJUSTMENT" }

Magnitude(n) == IF n < 0 THEN -n ELSE n

EntryTypeOf(row) ==
  CASE row.ledgerType # "none" -> row.ledgerType
    [] row.ledgerType = "none" /\ row.entryType = "DEBIT"
         /\ row.state \in {"SETTLED", "CLEARED"} -> "PAYOUT_SETTLED"
    [] row.ledgerType = "none" /\ row.entryType = "DEBIT"
         /\ row.state = "AUTHORIZED" -> "PAYOUT_RESERVED"
    [] OTHER -> "ADJUSTMENT"

\* The row as the ledger sees it: a DEBIT comes out with a negative amount.
MapEntryRow(row) ==
  [ key    |-> row.key,
    owner  |-> row.owner,
    type   |-> EntryTypeOf(row),
    amount |-> IF row.entryType = "CREDIT" THEN Magnitude(row.amount)
                                           ELSE -Magnitude(row.amount),
    recent |-> row.recent ]

SumOf(entries, types) ==
  MapThenSumSet(LAMBDA e : e.amount, {e \in entries : e.type \in types})

Credits(entries) ==
  SumOf(entries, {"REVENUE", "OWNER_ENTITLEMENT", "ADJUSTMENT"})
    - SumOf(entries, {"PLATFORM_FEE"})

Reservations(entries) ==
  SumOf(entries, {"PAYOUT_RESERVED"}) - SumOf(entries, {"PAYOUT_RELEASED"})

\* deriveBalance(...).available, over the entries of one owner.
Available(owner, entries) ==
  LET own == {e \in entries : e.owner = owner}
  IN  Credits(own) - Reservations(own) - SumOf(own, {"PAYOUT_SETTLED"})

CanReserve(amount, available) == amount > 0 /\ available - amount >= 0

\* Real money out in the last 24 hours, whatever the sign of the lines.
SettledLast24h(entries) ==
  MapThenSumSet(LAMBDA e : Magnitude(e.amount),
                {e \in entries : e.type = "PAYOUT_SETTLED" /\ e.recent})
==============================================================================
