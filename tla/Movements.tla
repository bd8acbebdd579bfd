------------------------------ MODULE Movements ------------------------------
(***************************************************************************)
(* The posting rules of src/apps/api/src/modules/inventory/service.ts: what *)
(* one inventory movement requires of a stock balance and what it does to   *)
(* the balance and to the ledger.  Constant level only, so that every       *)
(* component that posts movements shares one translation of the rules.      *)
(*                                                                         *)
(* A quantity is a whole number of the smallest stock unit.  A balance row  *)
(* that does not exist yet is the all-zero balance: the code's upsert       *)
(* creates it from the change alone, and an absent row has available 0 and  *)
(* nothing to release.                                                      *)
(***************************************************************************)
EXTENDS Integers

MovementTypes == { "PURCHASE_RECEIPT", "SALE", "SALE_RETURN", "TRANSFER_OUT",
                   "TRANSFER_IN", "ADJUSTMENT_GAIN", "ADJUSTMENT_LOSS",
                   "DAMAGE", "EXPIRY", "QUARANTINE_IN", "QUARANTINE_RELEASE",
                   "RESERVATION", "RESERVATION_RELEASE" }

Balances == [ onHand : Int, reserved : Int, committed : Int,
              quarantined : Int, damaged : Int, expired : Int ]

EmptyBalance == [ onHand |-> 0, reserved |-> 0, committed |-> 0,
                  quarantined |-> 0, damaged |-> 0, expired |-> 0 ]

\* A balance that holds q sellable units and nothing else.
Stocked(q) == [ EmptyBalance EXCEPT !.onHand = q ]

\* availableFromBalance
Available(b) ==
  b.onHand - b.reserved - b.committed - b.quarantined - b.damaged - b.expired

------------------------------------------------------------------------------

\* Mutant: a released reservation is booked as an outflow.
LedgerDelta_ReleaseAsOutflow(type, qty) ==
  IF type \in { "PURCHASE_RECEIPT", "SALE_RETURN", "TRANSFER_IN",
                "ADJUSTMENT_GAIN", "QUARANTINE_RELEASE" }
  THEN qty ELSE -qty

\* ledgerDelta: the signed quantity the ledger row records.
LedgerDelta(type, qty) ==
  IF type \in { "PURCHASE_RECEIPT", "SALE_RETURN", "TRANSFER_IN",
                "ADJUSTMENT_GAIN", "QUARANTINE_RELEASE",
                "RESERVATION_RELEASE" }
  THEN qty ELSE -qty

\* qty for the movements that fill a bucket, -qty for those that empty it.
Signed(type, fills, empties, qty) ==
  IF type \in fills THEN qty ELSE IF type \in empties THEN -qty ELSE 0

\* balanceChange: one bucket moves; no movement touches `committed'.
BalanceChange(type, qty) ==
  [ onHand      |-> Signed(type,
                      {"PURCHASE_RECEIPT", "SALE_RETURN", "TRANSFER_IN", "ADJUSTMENT_GAIN"},
                      {"SALE", "TRANSFER_OUT", "ADJUSTMENT_LOSS"}, qty),
    reserved    |-> Signed(type, {"RESERVATION"}, {"RESERVATION_RELEASE"}, qty),
    committed   |-> 0,
    quarantined |-> Signed(type, {"QUARANTINE_IN"}, {"QUARANTINE_RELEASE"}, qty),
    damaged     |-> Signed(type, {"DAMAGE"}, {}, qty),
    expired     |-> Signed(type, {"EXPIRY"}, {}, qty) ]

\* The balance after the upsert's increments.
Posted(b, type, qty) ==
  LET change == BalanceChange(type, qty) IN
  [ onHand      |-> b.onHand + change.onHand,
    reserved    |-> b.reserved + change.reserved,
    committed   |-> b.committed + change.committed,
    quarantined |-> b.quarantined + change.quarantined,
    damaged     |-> b.damaged + change.damaged,
    expired     |-> b.expired + change.expired ]

------------------------------------------------------------------------------

RequiresSellable(type) ==
  type \in { "SALE", "TRANSFER_OUT", "ADJUSTMENT_LOSS", "DAMAGE", "EXPIRY",
             "QUARANTINE_IN", "RESERVATION" }

\* Mutant: the sellable check looks at what is on the shelf, reserved or not.
CanPost_ChecksOnHand(b, type, qty, allowNegative) ==
  /\ qty > 0
  /\ RequiresSellable(type) /\ ~allowNegative => b.onHand >= qty
  /\ type = "RESERVATION_RELEASE" => b.reserved >= qty
  /\ type = "QUARANTINE_RELEASE" => b.quarantined >= qty

\* Mutant: a quarantine release is not compared with what is quarantined.
CanPost_UncheckedRelease(b, type, qty, allowNegative) ==
  /\ qty > 0
  /\ RequiresSellable(type) /\ ~allowNegative => Available(b) >= qty
  /\ type = "RESERVATION_RELEASE" => b.reserved >= qty

\* The checks postInventoryMovement makes before it writes; each one that
\* fails throws, and the caller's transaction rolls back.
CanPost(b, type, qty, allowNegative) ==
  /\ qty > 0
  /\ RequiresSellable(type) /\ ~allowNegative => Available(b) >= qty
  /\ type = "RESERVATION_RELEASE" => b.reserved >= qty
  /\ type = "QUARANTINE_RELEASE" => b.quarantined >= qty

------------------------------------------------------------------------------
(***************************************************************************)
(* A handler posts the movements of a document line by line inside one      *)
(* transaction.  lines[k] is the quantity of stock item k (0: no line), so  *)
(* a document of several lines is posted for all of its items or, when any  *)
(* line is refused, for none.  Two lines of the same item post the same     *)
(* total in two steps and are accepted exactly when the total is.           *)
(***************************************************************************)
CanPostAll(balances, type, lines, allowNegative) ==
  \A k \in DOMAIN lines :
    lines[k] > 0 => CanPost(balances[k], type, lines[k], allowNegative)

PostedAll(balances, type, lines) ==
  [ k \in DOMAIN balances |->
      IF lines[k] > 0 THEN Posted(balances[k], type, lines[k]) ELSE balances[k] ]

BookedAll(ledger, type, lines) ==
  [ k \in DOMAIN ledger |->
      IF lines[k] > 0 THEN ledger[k] + LedgerDelta(type, lines[k]) ELSE ledger[k] ]
==============================================================================
