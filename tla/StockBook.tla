------------------------------ MODULE StockBook ------------------------------
(***************************************************************************)
(* What the stock ledger promises, whoever posts to it:                     *)
(*                                                                         *)
(*   - the cached balance is a projection of the ledger (ARCHITECTURE.md,   *)
(*     core rule 4): what is available of an item and the sum of the        *)
(*     item's ledger rows move together, in every transaction;              *)
(*   - stock is taken only from what is available, unless the shortfall is  *)
(*     put on record (RELEASE_READINESS.md: oversells become explicit       *)
(*     inventory exceptions), and a record is never withdrawn.              *)
(*                                                                         *)
(* The components that post movements are shown to implement this.          *)
(***************************************************************************)
EXTENDS Integers

CONSTANT Keys          \* stock items: a variant at a location

VARIABLES available,   \* available[k]: what may still be sold or reserved of k
          ledger,      \* ledger[k]: the sum of deltaQty over k's ledger rows
          shortfalls   \* shortfalls[k]: the shortfalls of k put on record

vars == << available, ledger, shortfalls >>

Init ==
  /\ available \in [Keys -> Nat]
  /\ ledger = available
  /\ shortfalls = [k \in Keys |-> {}]

TypeOK ==
  /\ available \in [Keys -> Int]
  /\ ledger \in [Keys -> Int]
  /\ shortfalls \in [Keys -> SUBSET Nat]

\* k is not short by more than some shortfall on record.
Covered(k) == available[k] >= 0 \/ \E short \in shortfalls[k] : available[k] + short >= 0

\* One committed transaction, of whatever component.
Transact ==
  /\ TypeOK'
  /\ \A k \in Keys :
       /\ ledger'[k] - ledger[k] = available'[k] - available[k]
       /\ shortfalls[k] \subseteq shortfalls'[k]
       /\ available'[k] < available[k] => Covered(k)'

Spec == Init /\ [][Transact]_vars

------------------------------------------------------------------------------

\* The ledger alone yields the available quantity of every item.
LedgerIsTruth == \A k \in Keys : ledger[k] = available[k]

\* No item is short without a record of it.
ShortfallsOnRecord == \A k \in Keys : Covered(k)

Promise == TypeOK /\ LedgerIsTruth /\ ShortfallsOnRecord
==============================================================================
